----------------------- MODULE PublishedHeadOwn_proofs -----------------------
(* The Runner takes none of its own writes for somebody else's, for any      *)
(* number of changes, faults, repairs and resumes: a delivery is blocked, and *)
(* a re-integration charged, only for what people did or for a request that  *)
(* landed when nobody waited for it any more.                                *)
EXTENDS PublishedHeadClose_proofs

----------------------------------------------------------------------------
(* What people have left alone *)

Still == Moves \cap meddled = {}
Straight == "rewrite" \notin meddled
Unmerged == {"merge", "late"} \cap meddled = {}
Undisturbed == (Moves \cup {"close", "edit"}) \cap meddled = {}

\* What GitHub shows that nobody is known to have done was done by the Runner.
Evidence ==
    /\ moves \in Nat /\ (Still => moves = 0)
    /\ revised => "revise" \in meddled
    /\ pr.state = "CLOSED" => "close" \in meddled
    /\ "issue" \notin meddled =>
         /\ issue.events \in {<<>>, <<"us">>} /\ issue.comment \in {-1, 0}
         /\ \A r \in flight : r.kind = "comment" => r.head = 0

\* The branches start from the base, and a push of the Runner's goes forward.
Forward(r) ==
    /\ r.expected \in Commits /\ r.head \in Commits /\ r.expected < r.head
    /\ Lineage(r.expected) \subseteq Lineage(r.head)
Ordered ==
    /\ Base \in Lineage(target) /\ (Straight => Base \in Lineage(source))
    /\ \A r \in flight : r.kind = "push" => Forward(r)

----------------------------------------------------------------------------
(* What the Job knows of GitHub *)

Formed(j) ==
    /\ j.window \in [open : BOOLEAN, used : Nat, src : Nat, tgt : Nat]
    /\ j.record \in [cand : Nat, src : Nat, tgt : Nat]
    /\ j.write \in [kind : {"none", "ref", "pr"}, head : Nat, prior : Nat, text : Nat]
    /\ j.merge \in [head : Nat, base : Nat, tries : Nat]
    /\ j.cand \in Nat

\* A blocked Job names a reason that something happened for.
Innocent == {"ticket_supervision_timeout", "ci_development_budget_exhausted"}
Caused(code) == code \in Innocent \/ Cause(code) \cap meddled # {}
Explained(j) == j.phase = "blocked" => Caused(j.reason)

\* A commit the branch has gone through, unless it was rewritten since.
OnSource(c) == c \in Commits /\ c <= source /\ (Straight => c \in Lineage(source))
OnTarget(c) == c \in Commits /\ c <= target /\ c \in Lineage(target)

\* The heads on record were observed in this order on the branches.
Matches(j) == j.record.src = j.window.src /\ j.record.tgt = j.window.tgt
Observed(j) == j.window # NoWindow => OnSource(j.window.src) /\ OnTarget(j.window.tgt)
Integrates(j) ==
    j.record # NoRecord =>
        /\ j.window # NoWindow
        /\ OnSource(j.record.src) /\ j.record.src <= j.window.src
        /\ OnTarget(j.record.tgt) /\ j.record.tgt <= j.window.tgt
Publishes(j) ==
    /\ j.published # None => OnSource(j.published)
    /\ j.pub # None =>
        /\ j.record # NoRecord /\ Matches(j)
        /\ j.record.src < j.pub /\ Lineage(j.record.src) \subseteq Lineage(j.pub)
        /\ j.published <= j.pub
Rooted(j) == Observed(j) /\ Integrates(j) /\ Publishes(j) /\ j.record.cand <= j.cand

\* What was made for an older boundary is not used for a newer one.
ToAccept(j) ==
    \/ j.phase = "accepted"
    \/ j.phase = "blocked" /\ j.reason \in Resumable /\ j.resume = "accepted"
Fresh(j, p) ==
    /\ ToAccept(j) => j.pub = None \/ j.record.cand # j.cand
    /\ p \in {"integrate", "recheck", "publication"} => j.pub = None /\ j.window # NoWindow
    /\ p \in {"recheck", "publication"} => j.record # NoRecord /\ Matches(j)
    /\ j.merge # NoMerge =>
         j.pub # None /\ j.merge.head = j.pub /\ j.merge.base = j.record.tgt
    /\ j.close.baseline \in {-1, 0} \/ "issue" \in meddled
    /\ j.pr => pr.state # "none"

\* The merge that GitHub shows is one the Job has yet to take note of, or has.
AfterMerge == {"idle", "enter", "merged", "sync", "after"} \cup AtIssue
ToClose(j) ==
    /\ j.pr
    /\ \/ j.phase \in {"merging", "merged", "completed"}
       \/ j.phase = "blocked" /\ (j.reason \in Resumable => j.resume \in {"merging", "merged"})
HasMerged(j, p) == pr.state = "MERGED" /\ p \in AfterMerge /\ ToClose(j)
OwnMerge(j, p) ==
    pr.state = "MERGED" =>
        /\ Unmerged => HasMerged(j, p) /\ pr.head = j.pub
        /\ Still => commits[pr.merged].tgt = j.record.tgt /\ target = pr.merged

\* A move that the window has not seen, and is not the Runner's own, is still to
\* be charged; so every charge has a move of its own.
Deviates(j) ==
    /\ j.window # NoWindow
    /\ (source # j.window.src /\ ~OwnSourceWrite(j, source)) \/ target # j.window.tgt
Owed(j, p) ==
    /\ j.window.used <= moves
    /\ Deviates(j) /\ ~HasMerged(j, p) => j.window.used < moves

\* What the place of the lane says of the Job, whatever happens meanwhile.
Gating == {"settle", "intend", "ensure", "propose", "confirm", "live", "checks", "gate",
           "final", "attempt", "merge", "merged"}
Ways(j, p, l) ==
    /\ {"head", "base", "observed"} \subseteq DOMAIN l
    /\ p = "heads" /\ j.pr => OnSource(l.head)
    /\ p = "verify" /\ l.observed => OnSource(j.pub)
    /\ p \in {"push", "pushed"} => j.write = RefIntent(j)
    /\ p = "settle" => OnSource(j.pub)
    /\ p = "intend" => j.published = j.pub
    /\ p \in {"ensure", "propose", "confirm"} => j.write.kind = "pr" /\ j.write.head = j.pub
    /\ j.write.kind = "ref" => j.write.prior = None /\ j.write.text = None
    /\ p \in {"attempt", "merge", "merged"} => j.phase = "merging"
    /\ p = "attempt" => j.merge # NoMerge

\* What it says while nobody moves a branch.
Stands(j, p, l) ==
    Still =>
        /\ p = "heads" /\ j.pr => l.head = source /\ l.base = target
        /\ p = "verify" => HeadsCurrent(j, source, target) /\ (l.observed <=> PushObserved(j, source))
        /\ p \in {"push", "pushed"} => target = j.record.tgt
        /\ p \in Gating => source = j.pub /\ (pr.state # "MERGED" => target = j.record.tgt)

\* A write of the pull request that was not settled is found done or not done.
Pending(j, p) ==
    PrWritePending(j) =>
        /\ p \in {"idle", "propose", "confirm"}
        /\ Undisturbed =>
             /\ source = j.write.head
             /\ IF j.write.prior = None THEN pr.state = "none" \/ (Open /\ pr.text = j.write.text)
                ELSE Open /\ pr.text \in {j.write.text, j.write.prior}

Knows(j, p, l) ==
    /\ Formed(j) /\ Explained(j) /\ Rooted(j) /\ Fresh(j, p)
    /\ OwnMerge(j, p) /\ Owed(j, p) /\ Ways(j, p, l) /\ Stands(j, p, l) /\ Pending(j, p)

OInv == CInv /\ Evidence /\ Ordered /\ Knows(job, pc, loc)
\* What a step has to keep besides CInv.
Known == Evidence' /\ Ordered' /\ Knows(job, pc, loc)'

----------------------------------------------------------------------------
(* Facts that do not depend on the step *)

\* Which change explains which reason.
LEMMA Reasons ==
    /\ ~Still => /\ Caused("published_head_mismatch") /\ Caused("merged_result_mismatch")
                 /\ Caused("integration_resync_exhausted") /\ Caused("ticket_execution_failed")
    /\ ~Undisturbed => /\ Caused("change_pr_write_reconciliation_pending")
                       /\ Caused("github_write_outcome_unknown")
    /\ ~Unmerged => Caused("unexpected_external_merge")
    /\ "close" \in meddled => /\ Caused("ticket_pr_closed_unmerged")
                              /\ Caused("published_head_mismatch")
    /\ "revise" \in meddled => Caused(Stale) /\ Caused("merged_revision_mismatch")
    /\ "issue" \in meddled => Caused("ticket_close_external_conflict")
    /\ "rewrite" \in meddled => Caused("integration_history_rewritten")
    /\ Caused("ticket_supervision_timeout") /\ Caused("ci_development_budget_exhausted")
<1>1. /\ Cause("published_head_mismatch") = Moves \cup {"close"}
      /\ Cause("merged_result_mismatch") = Moves \cup {"close"}
    BY DEF Cause
<1>2. /\ Cause("integration_resync_exhausted") = Moves
      /\ Cause("ticket_execution_failed") = Moves
    BY DEF Cause
<1>3. /\ Cause("change_pr_write_reconciliation_pending") = Moves \cup {"close", "edit"}
      /\ Cause("github_write_outcome_unknown") = Moves \cup {"close", "edit"}
    BY DEF Cause
<1>4. /\ Cause("unexpected_external_merge") = {"merge", "late"}
      /\ Cause("ticket_pr_closed_unmerged") = {"close"}
    BY DEF Cause
<1>5. /\ Cause(Stale) = {"revise"} /\ Cause("merged_revision_mismatch") = {"revise"}
      /\ Cause("ticket_close_external_conflict") = {"issue"}
      /\ Cause("integration_history_rewritten") = {"rewrite"}
    BY DEF Cause, Stale
<1>6. QED
    BY <1>1, <1>2, <1>3, <1>4, <1>5 DEF Caused, Innocent, Still, Undisturbed, Unmerged

\* Whatever else is undisturbed, no branch moved and nobody merged.
LEMMA Weaker == (Undisturbed => Still) /\ (Still => Unmerged /\ Straight)
BY DEF Undisturbed, Still, Unmerged, Straight, Moves

\* Commits are numbered from the base on.
LEMMA Numbers ==
    ASSUME CInv
    PROVE  /\ Commits \subseteq Nat \ {None} /\ Len(commits) \in Nat
           /\ source \in Commits /\ target \in Commits
           /\ {job.pub, job.published, job.integrated} \subseteq Nat
<1>1. PICK S : commits \in Seq(S)
    BY DEF CInv, IInv, Recorded
<1>2. Commits \subseteq Nat \ {None} /\ Len(commits) \in Nat
    BY <1>1 DEF Commits, None
<1>3. Hub /\ Named(job)
    BY DEF CInv, Around, Settling, Sound
<1>4. source \in Commits /\ target \in Commits
    BY <1>3 DEF Hub
<1>5. {job.pub, job.published, job.integrated} \subseteq Commits \cup {None}
    BY <1>3 DEF Named
<1>6. Commits \cup {None} \subseteq Nat
    BY <1>2 DEF None
<1>7. {job.pub, job.published, job.integrated} \subseteq Nat
    BY <1>5, <1>6
<1>8. QED
    BY <1>2, <1>4, <1>7

\* A head is on its own branch.
LEMMA OnOwn ==
    ASSUME CInv
    PROVE  OnSource(source) /\ OnTarget(target)
BY Numbers DEF OnSource, OnTarget, Lineage

\* While the lane is where it has not seen a merge, a merge is not the Runner's.
LEMMA NoOwnMerge ==
    ASSUME NEW j, NEW p, OwnMerge(j, p), ~HasMerged(j, p), pr.state = "MERGED"
    PROVE  ~Unmerged /\ ~Still /\ ~Undisturbed
BY Weaker DEF OwnMerge

\* The first two fields of a Job that a stop may change do not count.
StopsAs(j, k) ==
    /\ k.window = j.window /\ k.record = j.record /\ k.cand = j.cand /\ k.pub = j.pub
    /\ k.published = j.published /\ k.write = j.write /\ k.merge = j.merge /\ k.pr = j.pr
    /\ k.close = j.close

\* A lane that stops tells nothing but the Job.
LEMMA StopKnows ==
    ASSUME NEW j, NEW p, NEW l, Knows(j, p, l), NEW k, StopsAs(j, k),
           Explained(k), ToAccept(k) => j.pub = None \/ j.record.cand # j.cand,
           HasMerged(j, p) => ToClose(k),
           NEW m, {"head", "base", "observed"} \subseteq DOMAIN m
    PROVE  Knows(k, "idle", m)
<1>1. Formed(k) /\ Rooted(k)
    BY DEF Knows, StopsAs, Formed, Rooted, Observed, Integrates, Publishes, Matches
<1>2. Fresh(k, "idle")
    BY DEF Knows, StopsAs, Fresh
<1>3. HasMerged(j, p) => HasMerged(k, "idle")
    BY DEF HasMerged, AfterMerge
<1>4. OwnMerge(k, "idle")
    BY <1>3 DEF Knows, StopsAs, OwnMerge
<1>5. Owed(k, "idle")
    BY <1>3 DEF Knows, StopsAs, Owed, Deviates, OwnSourceWrite
<1>6. Ways(k, "idle", m) /\ Stands(k, "idle", m)
    BY DEF Knows, StopsAs, Ways, Stands, Gating
<1>7. Pending(k, "idle")
    BY DEF Knows, StopsAs, Pending, PrWritePending
<1>8. QED
    BY <1>1, <1>2, <1>4, <1>5, <1>6, <1>7 DEF Knows

----------------------------------------------------------------------------
(* What a step of the lane leaves for the Job to know *)

\* GitHub as it was, and no more requests in flight: a Job that knows it knows
\* it still.
LEMMA QuietKnows ==
    ASSUME OInv, UNCHANGED <<remote, moves, meddled>>, flight' \subseteq flight,
           Knows(job', pc', loc')
    PROVE  Known
<1> USE DEF remote
<1>1. Evidence'
    BY DEF OInv, Evidence, Still
<1>2. Ordered'
    BY DEF OInv, Ordered, Forward, Straight, Lineage, Commits
<1>3. (Formed(job) /\ Explained(job))'
    BY DEF Knows, Formed, Explained, Caused
<1>4. Rooted(job)'
    BY DEF Knows, Rooted, Observed, Integrates, Publishes, OnSource, OnTarget, Straight, Matches,
           Lineage, Commits
<1>5. (Fresh(job, pc) /\ OwnMerge(job, pc))'
    BY DEF Knows, Fresh, ToAccept, Matches, OwnMerge, HasMerged, ToClose, Unmerged, Still
<1>6. Owed(job, pc)'
    BY DEF Knows, Owed, Deviates, OwnSourceWrite, HasMerged, ToClose
<1>7. (Ways(job, pc, loc) /\ Stands(job, pc, loc))'
    BY DEF Knows, Ways, OnSource, Straight, Lineage, Commits, RefIntent, Stands, Still,
           HeadsCurrent, OwnSourceWrite, PushObserved
<1>8. Pending(job, pc)'
    BY DEF Knows, Pending, PrWritePending, Undisturbed, Open
<1>9. QED
    BY <1>1, <1>2, <1>3, <1>4, <1>5, <1>6, <1>7, <1>8 DEF Known, Knows

\* A step that reads keeps what is known, if the Job it saves knows it.
LEMMA ReadKnows ==
    ASSUME OInv, NEW j, NEW p, Then(j, p), Knows(j, p, loc')
    PROVE  Known
<1>1. UNCHANGED <<remote, moves, meddled>> /\ flight' \subseteq flight
    BY DEF Then, remote, history
<1>2. Knows(job', pc', loc')
    BY DEF Then
<1>3. QED
    BY <1>1, <1>2, QuietKnows

\* A Job that differs in none of what the branches are compared with.
Alike(j, k) ==
    /\ k.window = j.window /\ k.record = j.record /\ k.cand = j.cand /\ k.pub = j.pub
    /\ k.published = j.published
LEMMA AlikeKnows ==
    ASSUME NEW j, NEW p, NEW l, Knows(j, p, l), NEW k, Alike(j, k), NEW q, NEW m,
           Formed(k), Explained(k), Fresh(k, q), Ways(k, q, m), Stands(k, q, m), Pending(k, q),
           HasMerged(j, p) => HasMerged(k, q),
           OwnSourceWrite(j, source) => OwnSourceWrite(k, source)
    PROVE  Knows(k, q, m)
<1>1. Rooted(k)
    BY DEF Knows, Alike, Rooted, Observed, Integrates, Publishes, Matches
<1>2. OwnMerge(k, q)
    BY DEF Knows, Alike, OwnMerge
<1>3. Owed(k, q)
    BY DEF Knows, Alike, Owed, Deviates
<1>4. QED
    BY <1>1, <1>2, <1>3 DEF Knows

\* A lane that goes on with the Job as it is keeps to its way.
LEMMA GoKnows ==
    ASSUME OInv, NEW p, Then(job, p), p \notin {"integrate", "recheck", "publication"},
           Ways(job, p, loc'), Stands(job, p, loc'), Pending(job, p),
           pr.state = "MERGED" /\ pc \in AfterMerge => p \in AfterMerge
    PROVE  Known
<1>1. Knows(job, pc, loc)
    BY DEF OInv
<1>2. Fresh(job, p) /\ Formed(job) /\ Explained(job)
    BY <1>1 DEF Knows, Fresh
<1>3. HasMerged(job, pc) => HasMerged(job, p)
    BY DEF HasMerged
<1>4. Alike(job, job)
    BY DEF Alike
<1>5. Knows(job, p, loc')
    BY <1>1, <1>2, <1>3, <1>4, AlikeKnows
<1>6. QED
    BY <1>5, ReadKnows

\* A lane may stop with the Job as it is, or waiting.
LEMMA PauseKnows ==
    ASSUME OInv, Stops(job) \/ Stops(Waits(job))
    PROVE  Known
<1>1. PICK k \in {job, Waits(job)} : Then(k, "idle") /\ loc' = NoLoc
    BY DEF Stops
<1>2. Knows(job, pc, loc) /\ Sound(job)
    BY DEF OInv, CInv, Settling
<1>3. /\ StopsAs(job, k) /\ k.phase = job.phase /\ k.reason = job.reason
      /\ k.resume = job.resume
    BY <1>1, <1>2 DEF StopsAs, Waits, Sound, Shaped, IsJob
<1>4. Explained(k) /\ (ToAccept(k) => job.pub = None \/ job.record.cand # job.cand)
    BY <1>2, <1>3 DEF Knows, Explained, Fresh, ToAccept
<1>5. HasMerged(job, pc) => ToClose(k)
    BY <1>3 DEF HasMerged, ToClose, StopsAs
<1>6. Knows(k, "idle", loc')
    BY <1>1, <1>2, <1>3, <1>4, <1>5, StopKnows DEF NoLoc
<1>7. QED
    BY <1>1, <1>6, ReadKnows

\* It may stop with the Job blocked for something that happened.
LEMMA BlockKnows ==
    ASSUME OInv, NEW code, Caused(code), job.phase \notin Settled, Stops(Blocked(job, code))
    PROVE  Known
<1> DEFINE k == Blocked(job, code)
<1>1. Then(k, "idle") /\ loc' = NoLoc
    BY DEF Stops
<1>2. Knows(job, pc, loc) /\ Sound(job)
    BY DEF OInv, CInv, Settling
<1>3. /\ StopsAs(job, k) /\ k.phase = "blocked" /\ k.reason = code /\ k.resume = job.phase
    BY <1>2 DEF StopsAs, Blocked, Ends, Sound, Shaped, IsJob
<1> HIDE DEF k
<1>4. Explained(k) /\ (ToAccept(k) => job.pub = None \/ job.record.cand # job.cand)
    BY <1>2, <1>3 DEF Knows, Explained, Fresh, ToAccept
<1>5. HasMerged(job, pc) => ToClose(k)
    BY <1>3 DEF HasMerged, ToClose, StopsAs, Settled
<1>6. Knows(k, "idle", loc')
    BY <1>1, <1>2, <1>3, <1>4, <1>5, StopKnows DEF NoLoc
<1>7. QED
    BY <1>1, <1>6, ReadKnows

\* An error that ends the lane does one or the other.
LEMMA FailKnows ==
    ASSUME OInv, ~Still, job.phase \notin Settled, Fails
    PROVE  Known
<1>1. Stops(Waits(job)) \/ Stops(Blocked(job, "ticket_execution_failed"))
    BY DEF Fails
<1>2. QED
    BY <1>1, PauseKnows, BlockKnows, Reasons

\* It may drop the boundary where the heads left it, the branch is not at the
\* publication, or there is none.
LEMMA DropsKnowing ==
    ASSUME OInv, pc \notin AfterMerge, Deviates(Invalidated(job)) => Deviates(job)
    PROVE  Knows(Invalidated(job), "idle", NoLoc)
<1> DEFINE k == Invalidated(job)
<1>1. Knows(job, pc, loc) /\ Sound(job)
    BY DEF OInv, CInv, Settling
<1>2. /\ k.window = job.window /\ k.record = job.record /\ k.cand = job.cand
      /\ k.pub = None /\ k.published = job.published /\ k.write = NoWrite
      /\ k.merge = NoMerge /\ k.pr = job.pr /\ k.close = job.close /\ k.phase = "accepted"
    BY <1>1 DEF Invalidated, Sound, Shaped, IsJob
<1>3. ~HasMerged(job, pc)
    BY DEF HasMerged
<1>4. Owed(k, "idle")
    BY <1>1, <1>2, <1>3 DEF Knows, Owed
<1> HIDE DEF k
<1>5. Formed(k) /\ Explained(k)
    BY <1>1, <1>2 DEF Knows, Formed, Explained, NoWrite, NoMerge, None
<1>6. Rooted(k)
    BY <1>1, <1>2 DEF Knows, Rooted, Observed, Integrates, Publishes
<1>7. Fresh(k, "idle")
    BY <1>1, <1>2 DEF Knows, Fresh
<1>8. OwnMerge(k, "idle")
    BY <1>1, <1>3, NoOwnMerge DEF Knows, OwnMerge
<1>9. Ways(k, "idle", NoLoc) /\ Stands(k, "idle", NoLoc) /\ Pending(k, "idle")
    BY <1>2 DEF Ways, NoLoc, NoWrite, Stands, Gating, Pending, PrWritePending
<1>10. QED
    BY <1>4, <1>5, <1>6, <1>7, <1>8, <1>9 DEF Knows, k
LEMMA DropKnows ==
    ASSUME OInv, pc \notin AfterMerge, Stops(Invalidated(job)),
           ~HeadsCurrent(job, source, target) \/ source # job.pub \/ job.pub = None
    PROVE  Known
<1>1. Knows(job, pc, loc) /\ Sound(job) /\ source # None
    BY Numbers DEF OInv, CInv, Settling
<1>2. /\ Invalidated(job).window = job.window /\ Invalidated(job).published = job.published
      /\ Invalidated(job).write.kind = "none"
    BY <1>1 DEF Invalidated, Sound, Shaped, IsJob, NoWrite
<1>3. ASSUME Deviates(Invalidated(job)) PROVE Deviates(job)
    <2>1. CASE source # job.pub \/ job.pub = None
        BY <1>1, <1>2, <1>3, <2>1 DEF Deviates, OwnSourceWrite
    <2>2. CASE source = job.pub /\ job.pub # None /\ ~HeadsCurrent(job, source, target)
        <3>1. job.record.tgt = job.window.tgt
            BY <1>1, <2>2 DEF Knows, Rooted, Publishes, Matches
        <3>2. CASE OwnSourceWrite(job, source)
            <4>1. target # job.record.tgt
                BY <2>2, <3>2 DEF HeadsCurrent
            <4>2. QED
                BY <1>2, <1>3, <3>1, <4>1 DEF Deviates
        <3>3. CASE ~OwnSourceWrite(job, source)
            BY <1>2, <1>3, <3>3 DEF Deviates, OwnSourceWrite
        <3>4. QED
            BY <3>2, <3>3
    <2>3. QED
        BY <1>3, <2>1, <2>2
<1>4. Knows(Invalidated(job), "idle", NoLoc)
    BY <1>3, DropsKnowing
<1>5. QED
    BY <1>4, ReadKnows DEF Stops

\* A request goes out with the Job as it is: a push goes forward, and a comment
\* tells what is known of the issue.
LEMMA SendKnows ==
    ASSUME OInv, NEW r, NEW p, Sends(r, p), p \notin {"integrate", "recheck", "publication"},
           r.kind = "push" => Forward(r),
           r.kind = "comment" /\ "issue" \notin meddled => r.head = 0,
           Ways(job, p, loc), Stands(job, p, loc), Pending(job, p),
           pr.state = "MERGED" /\ pc \in AfterMerge => p \in AfterMerge
    PROVE  Known
<1>1. Knows(job, pc, loc) /\ Alike(job, job)
    BY DEF OInv, Alike
<1>2. Fresh(job, p) /\ Formed(job) /\ Explained(job)
    BY <1>1 DEF Knows, Fresh
<1>3. HasMerged(job, pc) => HasMerged(job, p)
    BY DEF HasMerged
<1>4. Knows(job, p, loc)
    BY <1>1, <1>2, <1>3, AlikeKnows
<1> USE DEF Sends, remote
<1>5. Evidence'
    BY DEF OInv, Evidence, Still
<1>6. Ordered'
    BY DEF OInv, Ordered, Forward, Straight, Lineage, Commits
<1>7. (Formed(job) /\ Explained(job) /\ Rooted(job))'
    BY <1>4 DEF Knows, Formed, Explained, Caused, Rooted, Observed, Integrates, Publishes,
           OnSource, OnTarget, Straight, Matches, Lineage, Commits
<1>8. (Fresh(job, pc) /\ OwnMerge(job, pc))'
    BY <1>4 DEF Knows, Fresh, ToAccept, Matches, OwnMerge, HasMerged, ToClose, Unmerged, Still
<1>9. Owed(job, pc)'
    BY <1>4 DEF Knows, Owed, Deviates, OwnSourceWrite, HasMerged, ToClose
<1>10. (Ways(job, pc, loc) /\ Stands(job, pc, loc))'
    BY <1>4 DEF Knows, Ways, OnSource, Straight, Lineage, Commits, RefIntent, Stands, Still,
           HeadsCurrent, OwnSourceWrite, PushObserved
<1>11. Pending(job, pc)'
    BY <1>4 DEF Knows, Pending, PrWritePending, Undisturbed, Open
<1>12. QED
    BY <1>5, <1>6, <1>7, <1>8, <1>9, <1>10, <1>11 DEF Known, Knows

----------------------------------------------------------------------------
(* The steps of the lane *)

\* What a change of the requirements, a closed pull request and a merge that is
\* not the Runner's explain.
LEMMA Told ==
    ASSUME OInv
    PROVE  /\ revised => Caused(Stale) /\ Caused("merged_revision_mismatch")
           /\ pr.state = "CLOSED" => /\ Caused("ticket_pr_closed_unmerged")
                                     /\ Caused("published_head_mismatch")
           /\ pr.state = "MERGED" /\ ~HasMerged(job, pc) =>
                /\ Caused("unexpected_external_merge") /\ Caused("published_head_mismatch")
<1>1. Evidence /\ OwnMerge(job, pc)
    BY DEF OInv, Knows
<1>2. pr.state = "MERGED" /\ ~HasMerged(job, pc) => ~Unmerged /\ ~Still
    BY <1>1, NoOwnMerge
<1>3. QED
    BY <1>1, <1>2, Reasons DEF Evidence

\* Between two stages a write of the pull request is found done or not done,
\* unless something was done to the pull request.
LEMMA EngineKnows ==
    ASSUME OInv, SettlePrWrite \/ Begin \/ Develop \/ Escalate \/ TimeOut
    PROVE  Known
<1>1. /\ pc = "idle" /\ job.phase \notin Settled /\ Sound(job) /\ Knows(job, pc, loc)
    BY DEF OInv, CInv, Settling, SettlePrWrite, Begin, Develop, Escalate, TimeOut, Active, Settled
<1>2. ASSUME NEW k, job.phase \in Active, Goes(k, Entry(job.phase)), StopsAs([job EXCEPT !.write = k.write, !.pr = k.pr], k),
             k.phase = job.phase, k.reason = job.reason, k.resume = job.resume,
             Formed(k), k.write.kind # "ref" \/ k.write = job.write, ~PrWritePending(k),
             job.write.kind # "ref" \/ k.write = job.write,
             k.pr => pr.state # "none", job.pr => k.pr
      PROVE  Known
    <2> DEFINE p == Entry(job.phase)
    <2>1. /\ Alike(job, k) /\ k.merge = job.merge /\ k.close = job.close
        BY <1>1, <1>2 DEF StopsAs, Alike, Sound, Shaped, IsJob
    <2>2. p \in {"observe", "enter"} /\ (p = "observe" <=> job.phase = "accepted")
        BY <1>2 DEF Entry
    <2>3. Explained(k)
        BY <1>1, <1>2 DEF Explained, Settled
    <2>4. Fresh(k, p)
        BY <1>1, <1>2, <2>1, <2>2 DEF Knows, Fresh, ToAccept, Alike
    <2>5. Ways(k, p, loc) /\ Stands(k, p, loc) /\ Pending(k, p)
        BY <1>1, <1>2, <2>2 DEF Knows, Ways, Stands, Gating, Pending
    <2>6. HasMerged(job, pc) => HasMerged(k, p)
        BY <1>1, <1>2, <2>2 DEF HasMerged, ToClose, AfterMerge, Settled
    <2>7. OwnSourceWrite(job, source) => OwnSourceWrite(k, source)
        BY <1>2, <2>1 DEF OwnSourceWrite, Alike
    <2> HIDE DEF p
    <2>8. Knows(k, p, loc)
        BY <1>1, <1>2, <2>1, <2>3, <2>4, <2>5, <2>6, <2>7, AlikeKnows
    <2>9. Then(k, p) /\ loc' = loc
        BY <1>2 DEF Goes, p
    <2>10. QED
        BY <2>8, <2>9, ReadKnows
<1>3. CASE SettlePrWrite
    <2> DEFINE seen == PrWriteSeen(job.write)
               k == [job EXCEPT !.write = NoWrite, !.waiting = FALSE,
                                !.pr = @ \/ seen # "absent"]
    <2>1. PrWritePending(job) /\ job.write.kind = "pr" /\ job.phase \in Active
        BY <1>3 DEF SettlePrWrite, PrWritePending
    <2>2. CASE seen = "unknown"
        <3>1. Stops(Blocked(job, "change_pr_write_reconciliation_pending"))
            BY <1>3, <2>2 DEF SettlePrWrite
        <3>2. ~Undisturbed
            BY <1>1, <2>1, <2>2 DEF Knows, Pending, PrWriteSeen, Open
        <3>3. QED
            BY <1>1, <3>1, <3>2, Reasons, BlockKnows
    <2>3. CASE seen # "unknown"
        <3>1. Goes(k, Entry(job.phase))
            BY <1>3, <2>3 DEF SettlePrWrite
        <3>2. /\ StopsAs([job EXCEPT !.write = k.write, !.pr = k.pr], k)
              /\ k.phase = job.phase /\ k.reason = job.reason /\ k.resume = job.resume
              /\ k.write = NoWrite /\ k.pr = (job.pr \/ seen # "absent")
              /\ k.window = job.window /\ k.record = job.record /\ k.merge = job.merge
              /\ k.cand = job.cand
            BY <1>1 DEF StopsAs, Sound, Shaped, IsJob
        <3>3. pr.state = "none" => seen = "absent"
            BY <2>3 DEF PrWriteSeen
        <3>4. job.pr => pr.state # "none"
            BY <1>1 DEF Knows, Fresh
        <3> HIDE DEF k
        <3>5. Formed(k) /\ ~PrWritePending(k) /\ k.write.kind # "ref"
            BY <1>1, <3>2 DEF Knows, Formed, NoWrite, None, PrWritePending
        <3>6. QED
            BY <1>2, <2>1, <3>1, <3>2, <3>3, <3>4, <3>5
    <2>4. QED
        BY <2>2, <2>3
<1>4. CASE Begin
    <2> DEFINE k == [job EXCEPT !.waiting = FALSE]
    <2>1. Goes(k, Entry(job.phase)) /\ job.phase \in Active /\ ~PrWritePending(job)
        BY <1>4 DEF Begin
    <2>2. /\ StopsAs([job EXCEPT !.write = k.write, !.pr = k.pr], k)
          /\ k.phase = job.phase /\ k.reason = job.reason /\ k.resume = job.resume
          /\ k.write = job.write /\ k.pr = job.pr /\ k.window = job.window
          /\ k.record = job.record /\ k.merge = job.merge /\ k.cand = job.cand
        BY <1>1 DEF StopsAs, Sound, Shaped, IsJob
    <2>3. job.pr => pr.state # "none"
        BY <1>1 DEF Knows, Fresh
    <2> HIDE DEF k
    <2>4. Formed(k) /\ ~PrWritePending(k)
        BY <1>1, <2>1, <2>2 DEF Knows, Formed, PrWritePending
    <2>5. QED
        BY <1>2, <2>1, <2>2, <2>3, <2>4
<1>5. CASE Develop
    <2> DEFINE k == [job EXCEPT !.phase = "accepted", !.cand = @ + 1]
    <2>1. CASE revised
        BY <1>1, <1>5, <2>1, Told, BlockKnows DEF Develop, Stale
    <2>2. CASE ~revised
        <3>1. Then(k, "idle") /\ loc' = NoLoc
            BY <1>5, <2>2 DEF Develop, Stops
        <3>2. /\ k.window = job.window /\ k.record = job.record /\ k.cand = job.cand + 1
              /\ k.pub = job.pub /\ k.published = job.published /\ k.write = job.write
              /\ k.merge = job.merge /\ k.pr = job.pr /\ k.close = job.close
              /\ k.phase = "accepted"
            BY <1>1 DEF Sound, Shaped, IsJob
        <3> HIDE DEF k
        <3>3. job.cand \in Nat /\ job.record.cand \in Nat /\ job.record.cand <= job.cand
            BY <1>1 DEF Knows, Formed, Rooted
        <3>4. ~ToClose(job)
            BY <1>5 DEF Develop, ToClose
        <3>5. Formed(k) /\ Explained(k)
            BY <1>1, <3>2, <3>3 DEF Knows, Formed, Explained
        <3>6. Rooted(k)
            BY <1>1, <3>2, <3>3 DEF Knows, Rooted, Observed, Integrates, Publishes, Matches
        <3>7. Fresh(k, "idle")
            BY <1>1, <3>2, <3>3 DEF Knows, Fresh
        <3>8. OwnMerge(k, "idle") /\ Owed(k, "idle")
            BY <1>1, <3>2, <3>4
            DEF Knows, OwnMerge, HasMerged, Owed, Deviates, OwnSourceWrite
        <3>9. Ways(k, "idle", NoLoc) /\ Stands(k, "idle", NoLoc) /\ Pending(k, "idle")
            BY <1>1, <3>2 DEF Knows, Ways, NoLoc, Stands, Gating, Pending, PrWritePending
        <3>10. Knows(k, "idle", loc')
            BY <3>1, <3>5, <3>6, <3>7, <3>8, <3>9 DEF Knows
        <3>11. QED
            BY <3>1, <3>10, ReadKnows
    <2>3. QED
        BY <2>1, <2>2
<1>6. CASE Escalate \/ TimeOut
    <2>1. \/ Stops(Blocked(job, "ci_development_budget_exhausted"))
          \/ Stops(Blocked(job, "ticket_supervision_timeout"))
        BY <1>6 DEF Escalate, TimeOut
    <2>2. QED
        BY <1>1, <2>1, Reasons, BlockKnows
<1>7. QED
    BY <1>3, <1>4, <1>5, <1>6

\* A move is charged once, and only one that was not the Runner's; a history
\* that is not kept was rewritten.
LEMMA ObserveKnows ==
    ASSUME OInv, Observe
    PROVE  Known
<1>1. /\ pc = "observe" /\ job.phase = "accepted" /\ Sound(job) /\ Knows(job, pc, loc)
      /\ job.phase \notin Settled /\ CInv
    BY AtWork DEF OInv, CInv, Settling, Observe, Boundary, Settled
<1>2. /\ OnSource(source) /\ OnTarget(target) /\ source # None /\ target # None
      /\ source \in Nat /\ target \in Nat
    BY <1>1, OnOwn, Numbers
<1>3. ~HasMerged(job, pc) /\ pc \notin AfterMerge
    BY <1>1 DEF HasMerged, AfterMerge, AtIssue
<1>4. Charged(job, source, target) => Deviates(job)
    BY DEF Charged, Deviates
<1>5. Deviates(job) => job.window.used < moves /\ ~Still
    <2>1. job.window.used \in Nat /\ moves \in Nat /\ (Still => moves = 0)
        BY <1>1 DEF Knows, Formed, OInv, Evidence
    <2>2. Deviates(job) => job.window.used < moves
        BY <1>1, <1>3 DEF Knows, Owed
    <2>3. QED
        BY <2>1, <2>2
<1>6. CASE ~HistoryKept(source, target)
    <2>1. Stops(Blocked(job, "integration_history_rewritten"))
        BY <1>6 DEF Observe
    <2>2. Straight => HistoryKept(source, target)
        <3>1. Rooted(job) /\ Ordered
            BY <1>1 DEF Knows, OInv
        <3>2. QED
            BY <3>1 DEF Rooted, Integrates, Publishes, Ordered, OnSource, OnTarget, HistoryKept
    <2>3. Caused("integration_history_rewritten")
        BY <1>6, <2>2, Reasons DEF Straight
    <2>4. QED
        BY <1>1, <2>1, <2>3, BlockKnows
<1>7. CASE HistoryKept(source, target) /\ Integrated(job, source, target)
    <2>1. Then(job, "publication") /\ loc' = loc
        BY <1>7 DEF Observe, Goes
    <2>2. /\ job.record # NoRecord /\ job.record.cand = job.cand
          /\ job.record.tgt = target
          /\ job.record.src = source \/ source = job.pub
        BY <1>7 DEF Integrated
    <2>3. job.pub = None
        BY <1>1, <2>2 DEF Knows, Fresh, ToAccept
    <2>4. job.window # NoWindow /\ Matches(job)
        <3>1. /\ job.window # NoWindow /\ job.record.src <= job.window.src
              /\ job.record.tgt <= job.window.tgt
              /\ job.window.src <= source /\ job.window.tgt <= target
            BY <1>1, <2>2 DEF Knows, Rooted, Observed, Integrates, OnSource, OnTarget
        <3>2. job.record.src = source
            BY <1>2, <2>2, <2>3
        <3>3. job.window.src \in Nat /\ job.window.tgt \in Nat
            BY <1>1 DEF Knows, Formed
        <3>4. QED
            BY <1>2, <2>2, <3>1, <3>2, <3>3 DEF Matches
    <2>5. Fresh(job, "publication")
        BY <1>1, <2>2, <2>3, <2>4 DEF Knows, Fresh
    <2>6. /\ Ways(job, "publication", loc) /\ Stands(job, "publication", loc)
          /\ Pending(job, "publication")
        BY <1>1 DEF Knows, Ways, Stands, Gating, Pending
    <2>7. Knows(job, "publication", loc)
        <3>1. Alike(job, job) /\ Formed(job) /\ Explained(job)
            BY <1>1 DEF Alike, Knows
        <3>2. QED
            BY <1>1, <1>3, <2>5, <2>6, <3>1, AlikeKnows
    <2>8. QED
        BY <2>1, <2>7, ReadKnows
<1>8. CASE Stops(Blocked(Invalidated(job), "integration_resync_exhausted"))
           /\ Exhausted(job, source, target)
    <2> DEFINE i == Invalidated(job)
               k == Blocked(i, "integration_resync_exhausted")
    <2>1. Deviates(job) /\ ~Still
        BY <1>4, <1>5, <1>8 DEF Exhausted
    <2>2. Knows(i, "idle", NoLoc)
        BY <1>3, <2>1, DropsKnowing
    <2>3. Shaped(i) /\ i.phase = "accepted" /\ i.pub = None
        BY <1>1 DEF Invalidated, Sound, Shaped, IsJob, NoMerge, NoWrite
    <2>4. Then(k, "idle") /\ loc' = NoLoc
        BY <1>8 DEF Stops
    <2> HIDE DEF i
    <2>5. /\ StopsAs(i, k) /\ k.phase = "blocked" /\ k.resume = "accepted"
          /\ k.reason = "integration_resync_exhausted"
        BY <2>3 DEF StopsAs, Blocked, Ends, Shaped, IsJob
    <2> HIDE DEF k
    <2>6. Explained(k)
        BY <2>1, <2>5, Reasons DEF Explained
    <2>7. ~ToClose(i)
        BY <2>3 DEF ToClose
    <2>8. Knows(k, "idle", NoLoc)
        <3>1. {"head", "base", "observed"} \subseteq DOMAIN NoLoc
            BY DEF NoLoc
        <3>2. QED
            BY <2>2, <2>3, <2>5, <2>6, <2>7, <3>1, StopKnows DEF HasMerged
    <2>9. QED
        BY <2>4, <2>8, ReadKnows
<1>9. CASE Goes(Reopened(job, source, target), "integrate")
    <2> DEFINE k == Reopened(job, source, target)
               charged == Charged(job, source, target)
    <2>1. Then(k, "integrate") /\ loc' = loc
        BY <1>9 DEF Goes
    <2>2. job.record = NoRecord => job.pub = None /\ job.merge = NoMerge
        BY <1>1 DEF Knows, Rooted, Publishes, Fresh
    <2>3. /\ k.record = job.record /\ k.cand = job.cand /\ k.pub = None
          /\ k.published = job.published /\ k.merge = NoMerge /\ k.pr = job.pr
          /\ k.close = job.close /\ k.phase = "accepted" /\ k.write \in {job.write, NoWrite}
          /\ k.window = [open |-> job.window = NoWindow \/ job.window.open \/ charged,
                         src |-> source, tgt |-> target,
                         used |-> job.window.used + IF charged THEN 1 ELSE 0]
        <3>1. CASE job.record = NoRecord
            <4>1. k = [job EXCEPT !.window = [open |-> job.window = NoWindow \/ @.open \/ charged,
                              src |-> source, tgt |-> target,
                              used |-> @.used + IF charged THEN 1 ELSE 0]]
                BY <3>1 DEF Reopened
            <4> HIDE DEF k, charged
            <4>2. QED
                BY <1>1, <2>2, <3>1, <4>1 DEF Sound, Shaped, IsJob
        <3>2. CASE job.record # NoRecord
            <4>1. k = [Invalidated(job) EXCEPT !.window =
                             [open |-> job.window = NoWindow \/ @.open \/ charged,
                              src |-> source, tgt |-> target,
                              used |-> @.used + IF charged THEN 1 ELSE 0]]
                BY <3>2 DEF Reopened
            <4> HIDE DEF k, charged
            <4>2. QED
                BY <1>1, <4>1 DEF Invalidated, Sound, Shaped, IsJob
        <3>3. QED
            BY <3>1, <3>2
    <2>4. /\ job.window.used \in Nat /\ job.window.open \in BOOLEAN /\ moves \in Nat
          /\ charged \in BOOLEAN /\ job.window.used <= moves
        BY <1>1 DEF Knows, Formed, OInv, Evidence, Owed, Charged
    <2>5. charged => job.window.used < moves
        BY <1>4, <1>5
    <2> HIDE DEF k, charged
    <2>6. /\ k.window \in [open : BOOLEAN, used : Nat, src : Nat, tgt : Nat]
          /\ k.window # NoWindow /\ k.window.src = source /\ k.window.tgt = target
          /\ k.window.used <= moves
        <3>1. /\ k.window.src = source /\ k.window.tgt = target
              /\ k.window.used = job.window.used + IF charged THEN 1 ELSE 0
            BY <2>3
        <3>2. k.window.used \in Nat /\ k.window.used <= moves
            BY <2>4, <2>5, <3>1
        <3>3. k.window \in [open : BOOLEAN, used : Nat, src : Nat, tgt : Nat]
            BY <1>2, <2>3, <2>4, <3>2
        <3>4. k.window # NoWindow
            BY <1>2, <3>1 DEF NoWindow
        <3>5. QED
            BY <3>1, <3>2, <3>3, <3>4
    <2>7. Formed(k) /\ Explained(k)
        BY <1>1, <2>3, <2>6 DEF Knows, Formed, Explained, NoWrite, NoMerge, None
    <2>8. Rooted(k)
        <3>1. Rooted(job)
            BY <1>1 DEF Knows
        <3>2. job.record # NoRecord => job.record.src <= source /\ job.record.tgt <= target
            BY <3>1 DEF Rooted, Integrates, OnSource, OnTarget
        <3>3. QED
            BY <1>2, <2>3, <2>6, <3>1, <3>2 DEF Rooted, Observed, Integrates, Publishes
    <2>9. Fresh(k, "integrate")
        BY <1>1, <2>3, <2>6 DEF Knows, Fresh
    <2>10. OwnMerge(k, "integrate")
        BY <1>1, <1>3, NoOwnMerge DEF Knows, OwnMerge
    <2>11. Owed(k, "integrate")
        BY <2>6 DEF Owed, Deviates
    <2>12. ~PrWritePending(job)
        BY <1>1 DEF Knows, Pending
    <2>13. /\ Ways(k, "integrate", loc) /\ Stands(k, "integrate", loc)
           /\ Pending(k, "integrate")
        BY <1>1, <2>3, <2>12
        DEF Knows, Ways, NoWrite, Stands, Gating, Pending, PrWritePending
    <2>14. Knows(k, "integrate", loc)
        BY <2>7, <2>8, <2>9, <2>10, <2>11, <2>13 DEF Knows
    <2>15. QED
        BY <2>1, <2>14, ReadKnows
<1>10. QED
    BY <1>6, <1>7, <1>8, <1>9 DEF Observe

\* The record names the heads of the window, and is dropped with what was made
\* for it when they are no longer the branches'.
LEMMA IntegrateKnows ==
    ASSUME OInv, Integrate \/ Recheck \/ Discard
    PROVE  Known
<1>1. /\ pc \in {"integrate", "recheck", "publication"} /\ job.phase = "accepted"
      /\ Sound(job) /\ Knows(job, pc, loc) /\ CInv
      /\ job.pub = None /\ job.window # NoWindow /\ job.merge = NoMerge
    <2>1. pc \in {"integrate", "recheck", "publication"}
        BY DEF Integrate, Recheck, Discard
    <2>2. CInv /\ Knows(job, pc, loc)
        BY DEF OInv
    <2>3. Sound(job) /\ job.phase = "accepted"
        BY <2>1, <2>2, AtWork DEF Boundary
    <2>4. QED
        BY <2>1, <2>2, <2>3 DEF Knows, Fresh
<1>2. pc \notin AfterMerge /\ ~HasMerged(job, pc) /\ ~PrWritePending(job)
    BY <1>1 DEF AfterMerge, AtIssue, HasMerged, Knows, Pending
<1>3. CASE Integrate
    <2> DEFINE record == [cand |-> job.cand, src |-> job.window.src, tgt |-> job.window.tgt]
               k == [job EXCEPT !.record = record, !.window.open = FALSE]
    <2>1. Then(k, "recheck") /\ loc' = loc
        BY <1>3 DEF Integrate, Goes
    <2>2. job.window \in [open : BOOLEAN, used : Nat, src : Nat, tgt : Nat] /\ job.cand \in Nat
        BY <1>1 DEF Knows, Formed
    <2>3. /\ k.window = [job.window EXCEPT !.open = FALSE] /\ k.record = record
          /\ k.cand = job.cand /\ k.pub = None /\ k.published = job.published
          /\ k.write = job.write /\ k.merge = job.merge /\ k.pr = job.pr
          /\ k.close = job.close /\ k.phase = "accepted"
        BY <1>1 DEF Sound, Shaped, IsJob
    <2> HIDE DEF k
    <2>4. /\ k.window \in [open : BOOLEAN, used : Nat, src : Nat, tgt : Nat]
          /\ k.window.used = job.window.used
          /\ k.window.src = job.window.src /\ k.window.tgt = job.window.tgt
        BY <2>2, <2>3
    <2>5. /\ k.record \in [cand : Nat, src : Nat, tgt : Nat] /\ k.record.cand = job.cand
          /\ k.record.src = job.window.src /\ k.record.tgt = job.window.tgt
        BY <2>2, <2>3
    <2>6. OnSource(job.window.src) /\ OnTarget(job.window.tgt)
        BY <1>1 DEF Knows, Rooted, Observed
    <2>7. job.window.src # None
        BY <1>1, <2>6, Numbers DEF OnSource
    <2>8. k.window # NoWindow /\ k.record # NoRecord
        BY <2>4, <2>5, <2>7 DEF NoWindow, NoRecord
    <2>9. Formed(k) /\ Explained(k)
        BY <1>1, <2>3, <2>4, <2>5 DEF Knows, Formed, Explained
    <2>10. Rooted(k)
        BY <1>1, <2>2, <2>3, <2>4, <2>5, <2>6, <2>8
        DEF Knows, Rooted, Observed, Integrates, Publishes
    <2>11. Fresh(k, "recheck")
        BY <1>1, <2>3, <2>4, <2>5, <2>8 DEF Knows, Fresh, Matches
    <2>12. OwnMerge(k, "recheck")
        BY <1>1, <1>2, NoOwnMerge DEF Knows, OwnMerge
    <2>13. Owed(k, "recheck")
        BY <1>1, <1>2, <2>3, <2>4, <2>8 DEF Knows, Owed, Deviates, OwnSourceWrite
    <2>14. Ways(k, "recheck", loc) /\ Stands(k, "recheck", loc) /\ Pending(k, "recheck")
        BY <1>1, <1>2, <2>3 DEF Knows, Ways, Stands, Gating, Pending, PrWritePending
    <2>15. Knows(k, "recheck", loc)
        BY <2>9, <2>10, <2>11, <2>12, <2>13, <2>14 DEF Knows
    <2>16. QED
        BY <2>1, <2>15, ReadKnows
<1>4. CASE Recheck
    <2>1. CASE Goes(job, "publication") /\ pc = "recheck"
        <3>1. Fresh(job, "publication")
            BY <1>1, <2>1 DEF Knows, Fresh
        <3>2. /\ Ways(job, "publication", loc) /\ Stands(job, "publication", loc)
              /\ Pending(job, "publication")
            BY <1>1, <1>2 DEF Knows, Ways, Stands, Gating, Pending
        <3>3. Alike(job, job) /\ Formed(job) /\ Explained(job)
            BY <1>1 DEF Alike, Knows
        <3>4. Knows(job, "publication", loc)
            BY <1>1, <1>2, <3>1, <3>2, <3>3, AlikeKnows
        <3>5. QED
            BY <2>1, <3>4, ReadKnows DEF Goes
    <2>2. CASE Stops(Invalidated(job))
        BY <1>1, <1>2, <2>2, DropKnows
    <2>3. QED
        BY <1>4, <2>1, <2>2 DEF Recheck
<1>5. CASE Discard
    <2> DEFINE k == [job EXCEPT !.phase = "developing"]
    <2>1. Then(k, "idle") /\ loc' = NoLoc
        BY <1>5 DEF Discard, Stops
    <2>2. StopsAs(job, k) /\ k.phase = "developing"
        BY <1>1 DEF StopsAs, Sound, Shaped, IsJob
    <2> HIDE DEF k
    <2>3. Explained(k) /\ ~ToAccept(k)
        BY <2>2 DEF Explained, ToAccept
    <2>4. Knows(k, "idle", loc')
        BY <1>1, <1>2, <2>1, <2>2, <2>3, StopKnows DEF NoLoc
    <2>5. QED
        BY <2>1, <2>4, ReadKnows
<1>6. QED
    BY <1>3, <1>4, <1>5

\* The publication is made of the heads on record, and comes after them.
LEMMA PublishKnows ==
    ASSUME OInv, Publish
    PROVE  Known
<1>1. CInv /\ IInv /\ Evidence /\ Ordered /\ Knows(job, pc, loc) /\ pc = "publication"
    BY DEF OInv, CInv, Publish
<1>2. /\ Sound(job) /\ job.phase = "accepted" /\ job.pub = None /\ job.merge = NoMerge
      /\ job.window # NoWindow /\ job.record # NoRecord /\ Matches(job)
    <2>1. Sound(job) /\ job.phase = "accepted"
        BY <1>1, AtWork DEF Boundary
    <2>2. QED
        BY <1>1, <2>1 DEF Knows, Fresh
<1>3. ~HasMerged(job, pc) /\ ~PrWritePending(job)
    BY <1>1 DEF HasMerged, AfterMerge, AtIssue, Knows, Pending
<1> DEFINE e == Publication(job.cand, job.record.src, job.record.tgt)
<1> PICK n : n = Next1
    OBVIOUS
<1>4. commits' = Append(commits, e) /\ Lineage(job.record.src) \subseteq e.anc
    BY DEF Publish, Publication
<1> HIDE DEF e
<1>5. /\ \A c \in Commits : c \in Commits' /\ commits'[c] = commits[c]
      /\ n \in Commits' /\ commits'[n] = e /\ n \in Nat /\ n # None
    BY <1>1, <1>4, CommitsGrow DEF Kept
<1>6. \A c \in Commits : c < n
    BY <1>1, Numbers DEF Commits, Next1
<1>7. UNCHANGED <<source, target, pr, issue, revised, flight, moves, meddled>>
      /\ pc' = "idle" /\ loc' = NoLoc
    BY DEF Publish
<1>8. /\ job'.window = job.window /\ job'.record = job.record /\ job'.cand = job.cand
      /\ job'.pub = n /\ job'.published = job.published /\ job'.write = job.write
      /\ job'.merge = NoMerge /\ job'.pr = job.pr /\ job'.close = job.close /\ job'.phase = "publishing"
    BY <1>2 DEF Publish, Sound, Shaped, IsJob
<1>9. \A c \in Commits : Lineage(c)' = Lineage(c)
    BY <1>5 DEF Lineage
<1>10. source \in Commits /\ target \in Commits
    BY <1>1, Numbers
<1>11. \A c : (OnSource(c) => OnSource(c)') /\ (OnTarget(c) => OnTarget(c)')
    BY <1>5, <1>7, <1>9, <1>10 DEF OnSource, OnTarget, Straight
<1>12. Evidence'
    BY <1>1, <1>7 DEF Evidence, Still
<1>13. Ordered'
    <2>1. \A r \in flight : r.kind = "push" => Forward(r)'
        BY <1>1, <1>5, <1>9 DEF Ordered, Forward
    <2>2. QED
        BY <1>1, <1>7, <1>9, <1>10, <2>1 DEF Ordered, Straight
<1>14. (Formed(job) /\ Explained(job))'
    BY <1>1, <1>8 DEF Knows, Formed, Explained, NoMerge, None
<1>15. Rooted(job)'
    <2>1. Rooted(job)
        BY <1>1 DEF Knows
    <2>2. job.record.src \in Commits /\ OnSource(job.record.src) /\ OnTarget(job.record.tgt)
        BY <1>2, <2>1 DEF Rooted, Integrates, OnSource
    <2>3. LET src == job.record.src
          IN  {src} \cup commits'[src].anc \subseteq {n} \cup commits'[n].anc
        BY <1>4, <1>5, <2>2 DEF Lineage
    <2>4. job.published # None => job.published < n
        BY <1>6, <2>1 DEF Rooted, Publishes, OnSource
    <2>5. Publishes(job)'
        <3>1. (job.published # None => OnSource(job.published))'
            <4>1. job.published # None => OnSource(job.published)
                BY <2>1 DEF Rooted, Publishes
            <4>2. PICK c : c = job.published
                OBVIOUS
            <4>3. c # None => OnSource(c)'
                BY <1>11, <4>1, <4>2
            <4>4. QED
                BY <1>8, <4>2, <4>3 DEF OnSource
        <3>2. job'.record.src < job'.pub /\ job'.published <= job'.pub
            <4>1. job.published \in Nat /\ n \in Nat
                BY <1>1, <1>5, Numbers
            <4>2. QED
                BY <1>6, <1>8, <2>2, <2>4, <4>1 DEF None
        <3>3. (Lineage(job.record.src) \subseteq Lineage(job.pub))'
            BY <1>8, <2>3 DEF Lineage
        <3>4. job'.record # NoRecord /\ Matches(job)'
            BY <1>2, <1>8 DEF Matches
        <3>5. QED
            BY <3>1, <3>2, <3>3, <3>4 DEF Publishes, Matches
    <2>6. Observed(job)' /\ Integrates(job)'
        BY <1>8, <1>11, <2>1 DEF Rooted, Observed, Integrates
    <2>7. QED
        BY <1>8, <2>1, <2>5, <2>6 DEF Rooted
<1>16. (Fresh(job, pc) /\ OwnMerge(job, pc))'
    <2>1. Fresh(job, pc)'
        BY <1>1, <1>7, <1>8 DEF Knows, Fresh, ToAccept
    <2>2. pr.state = "MERGED" => ~Unmerged /\ ~Still
        BY <1>1, <1>3, NoOwnMerge DEF Knows
    <2>3. QED
        BY <1>7, <2>1, <2>2 DEF OwnMerge, Unmerged, Still
<1>17. Owed(job, pc)'
    <2>1. Owed(job, pc)
        BY <1>1 DEF Knows
    <2>2. Deviates(job)' => Deviates(job)
        BY <1>2, <1>7, <1>8, <1>10, Numbers, <1>1 DEF Deviates, OwnSourceWrite
    <2>3. QED
        BY <1>3, <1>7, <1>8, <2>1, <2>2 DEF Owed
<1>18. (Ways(job, pc, loc) /\ Stands(job, pc, loc) /\ Pending(job, pc))'
    BY <1>1, <1>3, <1>7, <1>8
    DEF Knows, Ways, NoLoc, Stands, Gating, Pending, PrWritePending
<1>19. QED
    BY <1>12, <1>13, <1>14, <1>15, <1>16, <1>17, <1>18 DEF Known, Knows

\* A look at the pull request finds a merge that the Job knows to be its own, or
\* one that somebody made.
LEMMA EnterKnows ==
    ASSUME OInv, Enter
    PROVE  Known
<1>1. /\ CInv /\ Knows(job, pc, loc) /\ pc = "enter" /\ Sound(job)
      /\ job.phase \in Delivering /\ job.phase \notin Settled
    BY AtWork DEF OInv, Enter, Boundary, Settled, Delivering
<1>2. ~PrWritePending(job)
    BY <1>1 DEF Knows, Pending
<1>3. OnSource(source)
    BY <1>1, OnOwn
<1>4. CASE revised /\ job.phase \notin {"merging", "merged"}
    BY <1>1, <1>4, Told, BlockKnows DEF Enter
<1>5. CASE ~(revised /\ job.phase \notin {"merging", "merged"}) /\ ~job.pr
    <2>1. Then(job, "heads") /\ loc' = loc
        BY <1>5 DEF Enter, Goes
    <2>2. Ways(job, "heads", loc) /\ Stands(job, "heads", loc) /\ Pending(job, "heads")
        BY <1>1, <1>2, <1>5 DEF Knows, Ways, Stands, Gating, Pending
    <2>3. Knows(job, "heads", loc)
        <3>1. Alike(job, job) /\ Formed(job) /\ Explained(job) /\ Fresh(job, "heads")
            BY <1>1 DEF Alike, Knows, Fresh
        <3>2. ~HasMerged(job, pc)
            BY <1>5 DEF HasMerged, ToClose
        <3>3. QED
            BY <1>1, <2>2, <3>1, <3>2, AlikeKnows
    <2>4. QED
        BY <2>1, <2>3, ReadKnows
<1>6. CASE ~(revised /\ job.phase \notin {"merging", "merged"}) /\ ReadMerged
    <2>1. pr.state = "MERGED"
        BY <1>6 DEF ReadMerged
    <2>2. Unmerged => HasMerged(job, pc) /\ pr.head = job.pub
        BY <1>1, <2>1 DEF Knows, OwnMerge
    <2>3. CASE pr.head # job.pub
        <3>1. Stops(Blocked(job, "merged_result_mismatch")) /\ ~Still
            BY <1>6, <2>2, <2>3, Weaker DEF ReadMerged
        <3>2. QED
            BY <1>1, <3>1, Reasons, BlockKnows
    <2>4. CASE pr.head = job.pub /\ job.phase # "merging" /\ job.integrated # pr.merged
        <3>1. Stops(Blocked(job, "unexpected_external_merge"))
            BY <1>6, <2>4 DEF ReadMerged
        <3>2. job.phase # "merged"
            BY <1>1, <2>4 DEF Sound, Sealed, Past, Delivered
        <3>3. ~Unmerged
            BY <1>1, <2>2, <2>4, <3>2 DEF HasMerged, ToClose, Delivering
        <3>4. QED
            BY <1>1, <3>1, <3>3, Reasons, BlockKnows
    <2>5. CASE Then(job, "sync") /\ loc' = [loc EXCEPT !.integrated = pr.merged]
        <3>1. Ways(job, "sync", loc') /\ Stands(job, "sync", loc') /\ Pending(job, "sync")
            BY <1>1, <1>2, <2>5 DEF Knows, Ways, Stands, Gating, Pending
        <3>2. "sync" \in AfterMerge
            BY DEF AfterMerge
        <3>3. QED
            BY <2>5, <3>1, <3>2, GoKnows
    <2>6. QED
        BY <1>6, <2>3, <2>4, <2>5 DEF ReadMerged
<1>7. CASE pr.state = "CLOSED" /\ Stops(Blocked(job, "ticket_pr_closed_unmerged"))
    BY <1>1, <1>7, Told, BlockKnows
<1>8. CASE /\ Open /\ Then(job, "heads")
           /\ loc' = [loc EXCEPT !.head = source, !.base = target]
    <2>1. /\ loc'.head = source /\ loc'.base = target
          /\ {"head", "base", "observed"} \subseteq DOMAIN loc'
        BY <1>1, <1>8 DEF Knows, Ways
    <2>2. Ways(job, "heads", loc') /\ Stands(job, "heads", loc') /\ Pending(job, "heads")
        BY <1>1, <1>2, <1>3, <2>1 DEF Knows, Ways, Stands, Gating, Pending
    <2>3. QED
        BY <1>8, <2>2, GoKnows DEF Open
<1>9. QED
    BY <1>4, <1>5, <1>6, <1>7, <1>8 DEF Enter

\* Inside the gate there is a publication, and no merge the Job knows of.
LEMMA AtGate ==
    ASSUME OInv, pc \notin Boundary \cup AfterMerge
    PROVE  /\ CInv /\ Sound(job) /\ Knows(job, pc, loc) /\ ~HasMerged(job, pc)
           /\ job.phase \in Delivering /\ job.phase # "merged" /\ job.phase \notin Settled
           /\ job.pub \in Commits /\ job.pub # None /\ job.pub \in Nat
           /\ source \in Nat /\ source # None
<1>1. CInv /\ Knows(job, pc, loc) /\ pc # "idle"
    BY DEF OInv, AfterMerge
<1>2. /\ Sound(job) /\ job.phase \in Delivering /\ job.phase # "merged"
      /\ job.phase \notin Settled
    BY <1>1, AtWork DEF AfterMerge
<1>3. job.pub \in Commits
    BY <1>2 DEF Sound, Named, Owes
<1>4. ~HasMerged(job, pc)
    BY DEF HasMerged
<1>5. QED
    BY <1>1, <1>2, <1>3, <1>4, Numbers

\* A Job whose write alone is another, and as good as the old one.
Rewritten(k) ==
    /\ Shaped(k) /\ Alike(job, k) /\ k.phase = job.phase /\ k.merge = job.merge
    /\ k.close = job.close
    /\ k.write \in [kind : {"none", "ref", "pr"}, head : Nat, prior : Nat, text : Nat]
    /\ k.pr => pr.state # "none"
    /\ OwnSourceWrite(job, source) => OwnSourceWrite(k, source)

LEMMA RewriteKnows ==
    ASSUME OInv, pc \notin Boundary \cup AfterMerge, NEW k, Rewritten(k), NEW p,
           p \notin Boundary, Goes(k, p),
           Ways(k, p, loc), Stands(k, p, loc), Pending(k, p)
    PROVE  Known
<1>1. /\ Knows(job, pc, loc) /\ ~HasMerged(job, pc) /\ job.phase \in Delivering
    BY AtGate
<1>2. Formed(k) /\ Explained(k)
    BY <1>1 DEF Knows, Formed, Rewritten, Alike, Explained, Delivering
<1>3. Fresh(k, p)
    BY <1>1 DEF Knows, Fresh, ToAccept, Rewritten, Alike, Delivering, Boundary
<1>4. Knows(k, p, loc)
    BY <1>1, <1>2, <1>3, AlikeKnows DEF Rewritten
<1>5. QED
    BY <1>4, ReadKnows DEF Goes

\* Steps of the gate up to the push: what is not as the record says was moved by
\* somebody, and the push of the Runner is told from a move.
LEMMA PushKnows ==
    ASSUME OInv, Heads \/ Verify \/ SendPush \/ Pushed \/ SettlePush
    PROVE  Known
<1>1. /\ pc \in {"heads", "verify", "push", "pushed", "settle"}
      /\ pc \notin Boundary \cup AfterMerge /\ pc \notin AfterMerge
    BY DEF Heads, Verify, SendPush, Pushed, SettlePush, Boundary, AfterMerge, AtIssue
<1>2. /\ CInv /\ Sound(job) /\ Knows(job, pc, loc)
      /\ job.phase \in Delivering /\ job.phase \notin Settled
      /\ job.pub \in Commits /\ job.pub # None /\ job.pub \in Nat
      /\ source \in Nat /\ source # None
    BY <1>1, AtGate
<1>3. /\ Ways(job, pc, loc) /\ Stands(job, pc, loc) /\ ~PrWritePending(job)
      /\ Formed(job) /\ Rooted(job)
    BY <1>1, <1>2 DEF Knows, Pending
<1>4. CASE Heads
    <2>1. CASE ~HeadsCurrent(job, source, target)
        BY <1>1, <1>4, <2>1, DropKnows DEF Heads
    <2>2. CASE HeadsCurrent(job, source, target) /\ job.pr /\ ~LiveFits(loc.head, loc.base)
        <3>1. ~Still
            BY <1>3, <1>4, <2>2 DEF Heads, Stands, LiveFits, HeadsCurrent
        <3>2. Stops(Blocked(job, "published_head_mismatch"))
            BY <1>4, <2>2 DEF Heads
        <3>3. QED
            BY <1>2, <3>1, <3>2, Reasons, BlockKnows
    <2>3. CASE HeadsCurrent(job, source, target) /\ ~(job.pr /\ ~LiveFits(loc.head, loc.base))
               /\ revised
        BY <1>2, <1>4, <2>3, Told, BlockKnows DEF Heads
    <2>4. CASE /\ HeadsCurrent(job, source, target) /\ Then(job, "verify")
               /\ loc' = [loc EXCEPT !.observed =
                             PushObserved(job, IF job.pr THEN loc.head ELSE source)]
        <3> DEFINE head == IF job.pr THEN loc.head ELSE source
        <3>1. OnSource(head) /\ (Still => head = source)
            BY <1>2, <1>3, <1>4, OnOwn DEF Heads, Ways, Stands
        <3>2. /\ loc'.observed = PushObserved(job, head)
              /\ {"head", "base", "observed"} \subseteq DOMAIN loc'
            BY <1>3, <2>4 DEF Ways
        <3> HIDE DEF head
        <3>3. Ways(job, "verify", loc')
            BY <1>3, <3>1, <3>2 DEF Ways, PushObserved
        <3>4. Stands(job, "verify", loc')
            BY <2>4, <3>1, <3>2 DEF Stands, Gating
        <3>5. Pending(job, "verify")
            BY <1>3 DEF Pending
        <3>6. QED
            BY <1>1, <2>4, <3>3, <3>4, <3>5, GoKnows
    <2>5. QED
        BY <1>4, <2>1, <2>2, <2>3, <2>4 DEF Heads
<1>5. CASE Verify
    <2> DEFINE at == IF loc.observed THEN job.pub ELSE job.record.src
               k == [job EXCEPT !.write = RefIntent(job)]
    <2>1. CASE PrStandsAt(at) /\ loc.observed
        <3>1. Then(job, "settle") /\ loc' = loc
            BY <1>5, <2>1 DEF Verify, Goes
        <3>2. Ways(job, "settle", loc) /\ Pending(job, "settle")
            BY <1>3, <1>5, <2>1 DEF Verify, Ways, Pending
        <3>3. Stands(job, "settle", loc)
            BY <1>3, <1>5, <2>1 DEF Verify, Stands, HeadsCurrent, PushObserved
        <3>4. QED
            BY <1>1, <3>1, <3>2, <3>3, GoKnows
    <2>2. CASE PrStandsAt(at) /\ ~loc.observed
        <3>1. Goes(k, "push")
            BY <1>5, <2>2 DEF Verify
        <3>2. /\ Shaped(k) /\ Alike(job, k) /\ k.phase = job.phase /\ k.merge = job.merge
              /\ k.close = job.close /\ k.pr = job.pr
              /\ k.write = [kind |-> "ref", head |-> job.pub, prior |-> None, text |-> None]
            BY <1>2 DEF Alike, Sound, Shaped, IsJob, RefIntent
        <3> HIDE DEF k
        <3>3. Rewritten(k)
            <4>1. k.write \in [kind : {"none", "ref", "pr"}, head : Nat, prior : Nat, text : Nat]
                BY <1>2, <3>2 DEF None
            <4>2. OwnSourceWrite(job, source) => OwnSourceWrite(k, source)
                BY <3>2 DEF OwnSourceWrite, Alike
            <4>3. k.pr => pr.state # "none"
                BY <1>2, <3>2 DEF Knows, Fresh
            <4>4. QED
                BY <3>2, <4>1, <4>2, <4>3 DEF Rewritten
        <3>4. Ways(k, "push", loc) /\ Pending(k, "push")
            BY <1>3, <3>2 DEF Ways, RefIntent, Alike, Pending, PrWritePending
        <3>5. Stands(k, "push", loc)
            BY <1>3, <1>5, <3>2 DEF Verify, Stands, Gating, Alike, HeadsCurrent
        <3>6. QED
            BY <1>1, <3>1, <3>3, <3>4, <3>5, RewriteKnows DEF Boundary
    <2>3. CASE ~PrStandsAt(at) /\ ~HeadsCurrent(job, source, target)
        BY <1>1, <1>5, <2>3, DropKnows DEF Verify
    <2>4. CASE ~PrStandsAt(at) /\ HeadsCurrent(job, source, target) /\ Open
        <3>1. Fails
            BY <1>5, <2>4 DEF Verify
        <3>2. ~Still
            <4>1. SUFFICES ASSUME Still PROVE FALSE
                OBVIOUS
            <4>2. source # at /\ target = job.record.tgt
                BY <2>4 DEF PrStandsAt, HeadsCurrent
            <4>3. loc.observed <=> PushObserved(job, source)
                BY <1>3, <1>5, <4>1 DEF Verify, Stands
            <4>4. ~loc.observed /\ source # job.record.src
                BY <4>2, <4>3 DEF PushObserved
            <4>5. OwnSourceWrite(job, source) /\ source = job.pub
                BY <2>4, <4>4 DEF HeadsCurrent
            <4>6. job.write.kind = "ref" /\ job.write.head = job.pub
                BY <4>3, <4>4, <4>5 DEF OwnSourceWrite, PushObserved
            <4>7. /\ job.write \in [kind : {"none", "ref", "pr"}, head : Nat, prior : Nat, text : Nat]
                  /\ job.write.prior = None /\ job.write.text = None
                BY <1>3, <4>6 DEF Formed, Ways
            <4>8. job.write = RefIntent(job)
                BY <4>6, <4>7 DEF RefIntent
            <4>9. QED
                BY <4>3, <4>4, <4>5, <4>8 DEF PushObserved
        <3>3. QED
            BY <1>2, <3>1, <3>2, FailKnows
    <2>5. CASE ~PrStandsAt(at) /\ HeadsCurrent(job, source, target) /\ ~Open
        BY <1>5, <2>5, PauseKnows DEF Verify
    <2>6. QED
        BY <2>1, <2>2, <2>3, <2>4, <2>5
<1>6. CASE SendPush
    <2>1. pc = "push" /\ Sends(PushRequest, "pushed")
        BY <1>6 DEF SendPush
    <2>2. /\ PushRequest.kind = "push" /\ PushRequest.head = job.pub
          /\ PushRequest.expected = job.record.src
        BY DEF PushRequest, Request
    <2>3. Forward(PushRequest)
        BY <1>2, <1>3, <2>2 DEF Forward, Rooted, Publishes, Integrates, OnSource
    <2>4. Ways(job, "pushed", loc) /\ Stands(job, "pushed", loc) /\ Pending(job, "pushed")
        BY <1>3, <2>1 DEF Ways, Stands, Gating, Pending
    <2>5. QED
        BY <1>1, <2>1, <2>2, <2>3, <2>4, SendKnows
<1>7. CASE Pushed
    <2>1. pc = "pushed"
        BY <1>7 DEF Pushed
    <2>2. CASE source = job.pub
        <3>1. Then(job, "settle") /\ loc' = loc
            BY <1>7, <2>2 DEF Pushed, Goes
        <3>2. OnSource(job.pub)
            BY <1>2, <2>2, OnOwn
        <3>3. Ways(job, "settle", loc) /\ Stands(job, "settle", loc) /\ Pending(job, "settle")
            BY <1>3, <2>1, <2>2, <3>2 DEF Ways, Stands, Pending
        <3>4. QED
            BY <1>1, <3>1, <3>3, GoKnows
    <2>3. CASE source # job.pub
        <3>1. Stops(Waits(job)) \/ Stops(Invalidated(job))
            BY <1>7, <2>3 DEF Pushed
        <3>2. QED
            BY <1>1, <2>3, <3>1, PauseKnows, DropKnows
    <2>4. QED
        BY <2>2, <2>3
<1>8. CASE SettlePush
    <2> DEFINE k == [job EXCEPT !.write = IF @ = RefIntent(job) THEN NoWrite ELSE @,
                                !.published = job.pub]
    <2>1. pc = "settle" /\ Then(k, "intend") /\ loc' = loc
        BY <1>8 DEF SettlePush, Goes
    <2>2. /\ k.window = job.window /\ k.record = job.record /\ k.cand = job.cand
          /\ k.pub = job.pub /\ k.published = job.pub /\ k.write \in {job.write, NoWrite}
          /\ k.merge = job.merge /\ k.pr = job.pr /\ k.close = job.close
          /\ k.phase = job.phase
        BY <1>2 DEF Sound, Shaped, IsJob
    <2> HIDE DEF k
    <2>3. OnSource(job.pub)
        BY <1>3, <2>1 DEF Ways
    <2>4. OwnSourceWrite(job, source) => OwnSourceWrite(k, source)
        <3>1. job.published <= job.pub /\ job.pub <= source
            BY <1>2, <1>3, <2>3 DEF Rooted, Publishes, OnSource
        <3>2. job.published \in Nat
            BY <1>2, Numbers
        <3>3. QED
            BY <1>2, <2>2, <3>1, <3>2 DEF OwnSourceWrite
    <2>5. Formed(k) /\ Explained(k)
        BY <1>2, <1>3, <2>2 DEF Formed, Explained, NoWrite, None, Delivering
    <2>6. Rooted(k)
        BY <1>2, <1>3, <2>2, <2>3 DEF Rooted, Observed, Integrates, Publishes, Matches
    <2>7. Fresh(k, "intend")
        BY <1>2, <2>2 DEF Knows, Fresh, ToAccept, Delivering
    <2>8. OwnMerge(k, "intend") /\ Owed(k, "intend")
        BY <1>1, <1>2, <2>2, <2>4, NoOwnMerge DEF Knows, OwnMerge, HasMerged, Owed, Deviates
    <2>9. Ways(k, "intend", loc) /\ Stands(k, "intend", loc) /\ Pending(k, "intend")
        BY <1>3, <2>1, <2>2
        DEF Ways, NoWrite, Stands, Gating, Pending, PrWritePending
    <2>10. Knows(k, "intend", loc')
        BY <2>1, <2>5, <2>6, <2>7, <2>8, <2>9 DEF Knows
    <2>11. QED
        BY <2>1, <2>10, ReadKnows
<1>9. QED
    BY <1>4, <1>5, <1>6, <1>7, <1>8

\* Steps that propose the pull request: what the Runner wrote is found written.
LEMMA ProposeKnows ==
    ASSUME OInv, Intend \/ Ensure \/ SendPr \/ Confirm
    PROVE  Known
<1>1. /\ pc \in {"intend", "ensure", "propose", "confirm"}
      /\ pc \notin Boundary \cup AfterMerge /\ pc \notin AfterMerge
    BY DEF Intend, Ensure, SendPr, Confirm, Boundary, AfterMerge, AtIssue
<1>2. /\ CInv /\ Sound(job) /\ Knows(job, pc, loc)
      /\ job.phase \in Delivering /\ job.phase \notin Settled
      /\ job.pub \in Commits /\ job.pub # None /\ job.pub \in Nat
      /\ source \in Nat /\ source # None
    BY <1>1, AtGate
<1>3. /\ Ways(job, pc, loc) /\ Stands(job, pc, loc) /\ Pending(job, pc)
      /\ Formed(job) /\ Rooted(job)
    BY <1>2 DEF Knows
<1>4. job.pr => pr.state # "none"
    BY <1>2 DEF Knows, Fresh
<1>5. Hub
    BY <1>2 DEF CInv, Around
<1>6. CASE Intend
    <2> DEFINE k == [job EXCEPT !.write = [NoWrite EXCEPT !.kind = "pr", !.head = job.pub]]
    <2>1. pc = "intend"
        BY <1>6 DEF Intend
    <2>2. CASE revised
        BY <1>2, <1>6, <2>2, Told, BlockKnows DEF Intend
    <2>3. CASE Goes(k, "ensure")
        <3>1. NoWrite \in [kind : {"none", "ref", "pr"}, head : Nat, prior : Nat, text : Nat]
            BY DEF NoWrite, None
        <3>2. /\ Shaped(k) /\ Alike(job, k) /\ k.phase = job.phase /\ k.merge = job.merge
              /\ k.close = job.close /\ k.pr = job.pr
              /\ k.write = [[NoWrite EXCEPT !.kind = "pr"] EXCEPT !.head = job.pub]
            BY <1>2 DEF Alike, Sound, Shaped, IsJob, NoWrite
        <3> HIDE DEF k
        <3>3. /\ k.write \in [kind : {"none", "ref", "pr"}, head : Nat, prior : Nat, text : Nat]
              /\ k.write.kind = "pr" /\ k.write.head = job.pub /\ k.write.text = None
            BY <1>2, <3>1, <3>2 DEF NoWrite
        <3>4. OwnSourceWrite(job, source) => OwnSourceWrite(k, source)
            BY <1>3, <2>1, <3>2, <3>3 DEF Ways, OwnSourceWrite, Alike
        <3>5. Rewritten(k)
            BY <1>4, <3>2, <3>3, <3>4 DEF Rewritten
        <3>6. Ways(k, "ensure", loc) /\ Stands(k, "ensure", loc) /\ Pending(k, "ensure")
            BY <1>3, <2>1, <3>2, <3>3
            DEF Ways, Stands, Gating, Pending, PrWritePending, Alike
        <3>7. QED
            BY <1>1, <2>3, <3>5, <3>6, RewriteKnows DEF Boundary
    <2>4. QED
        BY <1>6, <2>2, <2>3 DEF Intend
<1>7. CASE Ensure
    <2> DEFINE prior == IF Open THEN pr.text ELSE None
               k == [job EXCEPT !.write.prior = prior, !.write.text = job.pub]
    <2>1. pc = "ensure"
        BY <1>7 DEF Ensure
    <2>2. CASE Gone
        BY <1>7, <2>2, PauseKnows DEF Ensure
    <2>3. CASE ~Gone /\ Open /\ ~PrMatches
        <3>1. Fails
            BY <1>7, <2>3 DEF Ensure
        <3>2. ~Still
            BY <1>3, <2>1, <2>3 DEF Stands, Gating, PrMatches, Open
        <3>3. QED
            BY <1>2, <3>1, <3>2, FailKnows
    <2>4. ASSUME NEW p \in {"confirm", "propose"}, Goes(k, p), ~Gone PROVE Known
        <3>1. job.write \in [kind : {"none", "ref", "pr"}, head : Nat, prior : Nat, text : Nat]
              /\ prior \in Nat /\ job.write.kind = "pr" /\ job.write.head = job.pub
            BY <1>3, <1>5, <2>1 DEF Formed, Hub, None, Ways
        <3>2. /\ Shaped(k) /\ Alike(job, k) /\ k.phase = job.phase /\ k.merge = job.merge
              /\ k.close = job.close /\ k.pr = job.pr
              /\ k.write = [[job.write EXCEPT !.prior = prior] EXCEPT !.text = job.pub]
            BY <1>2 DEF Alike, Sound, Shaped, IsJob
        <3>3. prior = (IF Open THEN pr.text ELSE None)
            OBVIOUS
        <3> HIDE DEF k, prior
        <3>4. /\ k.write \in [kind : {"none", "ref", "pr"}, head : Nat, prior : Nat, text : Nat]
              /\ k.write.kind = "pr" /\ k.write.head = job.pub /\ k.write.prior = prior
              /\ k.write.text = job.pub
            BY <1>2, <3>1, <3>2
        <3>5. OwnSourceWrite(job, source) => OwnSourceWrite(k, source)
            BY <3>1, <3>2 DEF OwnSourceWrite, Alike
        <3>6. Rewritten(k)
            BY <1>4, <3>2, <3>4, <3>5 DEF Rewritten
        <3>7. Ways(k, p, loc) /\ Stands(k, p, loc)
            BY <1>3, <2>1, <2>4, <3>2, <3>4 DEF Ways, Stands, Gating, Alike
        <3>8. Pending(k, p)
            <4>1. Undisturbed => source = job.pub
                BY <1>3, <2>1, Weaker DEF Stands, Gating
            <4>2. pr.state \in {"none", "OPEN"} /\ (Open => pr.text # None)
                BY <1>5, <2>4 DEF Gone, Hub
            <4>3. QED
                BY <2>4, <3>3, <3>4, <4>1, <4>2 DEF Pending, Open
        <3>9. QED
            BY <1>1, <2>4, <3>6, <3>7, <3>8, RewriteKnows DEF Boundary
    <2>5. QED
        BY <1>7, <2>2, <2>3, <2>4 DEF Ensure
<1>8. CASE SendPr
    <2>1. pc = "propose" /\ Sends(PrRequest, "confirm")
        BY <1>8 DEF SendPr
    <2>2. PrRequest.kind \in {"create", "edit"}
        BY DEF PrRequest, Request
    <2>3. Ways(job, "confirm", loc) /\ Stands(job, "confirm", loc) /\ Pending(job, "confirm")
        BY <1>3, <2>1 DEF Ways, Stands, Gating, Pending
    <2>4. QED
        BY <1>1, <2>1, <2>2, <2>3, SendKnows
<1>9. CASE Confirm
    <2> DEFINE seen == PrWriteSeen(job.write)
               k == [job EXCEPT !.write = NoWrite, !.pr = TRUE]
    <2>1. pc = "confirm"
        BY <1>9 DEF Confirm
    <2>2. job.write.kind = "pr" /\ job.write.text = job.pub /\ PrWritePending(job)
        BY <1>2, <1>3, <2>1 DEF Ways, CInv, Settling, FirstPr, PrWritePending
    <2>3. CASE seen = "done"
        <3>1. Goes(k, "live")
            BY <1>9, <2>3 DEF Confirm
        <3>2. /\ Shaped(k) /\ Alike(job, k) /\ k.phase = job.phase /\ k.merge = job.merge
              /\ k.close = job.close /\ k.write = NoWrite
            BY <1>2 DEF Alike, Sound, Shaped, IsJob, NoWrite
        <3>3. pr.state # "none"
            BY <2>3 DEF PrWriteSeen
        <3> HIDE DEF k
        <3>4. k.write \in [kind : {"none", "ref", "pr"}, head : Nat, prior : Nat, text : Nat]
            BY <3>2 DEF NoWrite, None
        <3>5. OwnSourceWrite(job, source) => OwnSourceWrite(k, source)
            BY <2>2, <3>2 DEF OwnSourceWrite, Alike
        <3>6. Rewritten(k)
            BY <3>2, <3>3, <3>4, <3>5 DEF Rewritten
        <3>7. Ways(k, "live", loc) /\ Stands(k, "live", loc) /\ Pending(k, "live")
            BY <1>3, <2>1, <3>2
            DEF Ways, Stands, Gating, Pending, PrWritePending, Alike, NoWrite
        <3>8. QED
            BY <1>1, <3>1, <3>6, <3>7, RewriteKnows DEF Boundary
    <2>4. CASE seen = "unknown"
        <3>1. Stops(Blocked(job, "github_write_outcome_unknown"))
            BY <1>9, <2>4 DEF Confirm
        <3>2. ~Undisturbed
            BY <1>3, <2>2, <2>4 DEF Pending, PrWriteSeen, Open
        <3>3. QED
            BY <1>2, <3>1, <3>2, Reasons, BlockKnows
    <2>5. CASE seen \notin {"done", "unknown"}
        BY <1>9, <2>5, PauseKnows DEF Confirm
    <2>6. QED
        BY <2>3, <2>4, <2>5
<1>10. QED
    BY <1>6, <1>7, <1>8, <1>9

\* Steps of the gate itself: it fails for what people did, and the merge intent
\* is the one the Runner saved.
LEMMA CheckKnows ==
    ASSUME OInv, Live \/ Checks \/ Gate \/ Final \/ Attempt \/ SendMerge
    PROVE  Known
<1>1. /\ pc \in {"live", "checks", "gate", "final", "attempt", "merge"}
      /\ pc \notin Boundary \cup AfterMerge /\ pc \notin AfterMerge
    BY DEF Live, Checks, Gate, Final, Attempt, SendMerge, Boundary, AfterMerge, AtIssue
<1>2. /\ CInv /\ Sound(job) /\ Knows(job, pc, loc) /\ ~HasMerged(job, pc)
      /\ job.phase \in Delivering /\ job.phase \notin Settled
      /\ job.pub \in Commits /\ job.pub # None /\ job.pub \in Nat
    BY <1>1, AtGate
<1>3. /\ Ways(job, pc, loc) /\ Stands(job, pc, loc) /\ ~PrWritePending(job)
      /\ Formed(job) /\ Rooted(job) /\ Fresh(job, pc)
    BY <1>1, <1>2 DEF Knows, Pending
<1>4. job.pr /\ pr.state # "none" /\ pr.state \in {"none", "OPEN", "CLOSED", "MERGED"}
    BY <1>1, <1>2, <1>3 DEF CInv, Around, Hub, Settling, Where, Fresh
<1>5. ASSUME NEW p \in {"checks", "gate", "final"}, Goes(job, p) PROVE Known
    <2>1. Ways(job, p, loc) /\ Stands(job, p, loc) /\ Pending(job, p)
        BY <1>1, <1>3, <1>5 DEF Ways, Stands, Gating, Pending
    <2>2. QED
        BY <1>1, <1>5, <2>1, GoKnows DEF Goes
<1>6. ASSUME ~PrMatches, pc \in {"checks", "gate"},
             Stops(Blocked(job, "published_head_mismatch"))
      PROVE  Known
    <2>1. Open => ~Still
        BY <1>3, <1>6 DEF Stands, Gating, PrMatches, Open
    <2>2. Caused("published_head_mismatch")
        BY <1>2, <1>4, <2>1, Told, Reasons DEF Open
    <2>3. QED
        BY <1>2, <1>6, <2>2, BlockKnows
<1>7. CASE Live
    <2>1. \/ revised /\ Stops(Blocked(job, Stale))
          \/ pr.state = "MERGED" /\ Stops(Blocked(job, "unexpected_external_merge"))
          \/ pr.state = "CLOSED" /\ Stops(Blocked(job, "ticket_pr_closed_unmerged"))
          \/ Goes(job, "checks")
        BY <1>7 DEF Live
    <2>2. QED
        BY <1>2, <1>5, <2>1, Told, BlockKnows
<1>8. CASE Checks
    <2> DEFINE Phase(p) == [job EXCEPT !.phase = p]
    <2>1. ASSUME NEW p \in {"waiting_checks", "repairing", "escalating"}, NEW k,
                 k \in {Phase(p), Waits(Phase(p))}, Stops(k)
          PROVE  Known
        <3>1. StopsAs(job, k) /\ k.phase = p
            BY <1>2, <2>1 DEF StopsAs, Waits, Sound, Shaped, IsJob
        <3>2. Explained(k) /\ ~ToAccept(k)
            BY <3>1 DEF Explained, ToAccept
        <3>3. {"head", "base", "observed"} \subseteq DOMAIN NoLoc
            BY DEF NoLoc
        <3>4. Knows(k, "idle", NoLoc)
            BY <1>2, <3>1, <3>2, <3>3, StopKnows
        <3>5. QED
            BY <2>1, <3>4, ReadKnows DEF Stops
    <2>2. \/ ~PrMatches /\ pc = "checks" /\ Stops(Blocked(job, "published_head_mismatch"))
          \/ revised /\ Stops(Blocked(job, Stale))
          \/ Goes(job, "gate")
          \/ Stops(Waits(Phase("waiting_checks")))
          \/ Stops(Phase("repairing")) \/ Stops(Phase("escalating"))
        BY <1>8 DEF Checks
    <2> HIDE DEF Phase
    <2>3. QED
        BY <1>2, <1>5, <1>6, <2>1, <2>2, Told, BlockKnows
<1>9. CASE Gate
    BY <1>5, <1>6, <1>9 DEF Gate
<1>10. CASE Final
    <2> DEFINE k == [job EXCEPT !.phase = "merging",
                                !.merge = IF @ = NoMerge THEN MergeIntent ELSE @]
    <2>1. CASE ~HeadsCurrent(job, source, target)
        BY <1>1, <1>10, <2>1, DropKnows DEF Final
    <2>2. Intended(job.merge)
        BY <1>3 DEF Fresh, Intended
    <2>3. CASE HeadsCurrent(job, source, target)
        <3>1. /\ job' = k /\ pc' = "attempt" /\ loc' = loc /\ pc = "final"
              /\ UNCHANGED <<remote, moves, meddled>> /\ flight' = flight
            BY <1>10, <2>2, <2>3 DEF Final
        <3>2. /\ Alike(job, k) /\ k.write = job.write /\ k.pr = job.pr /\ k.close = job.close
              /\ k.phase = "merging"
              /\ k.merge = IF job.merge = NoMerge THEN MergeIntent ELSE job.merge
            BY <1>2 DEF Alike, Sound, Shaped, IsJob
        <3>3. /\ MergeIntent \in [head : Nat, base : Nat, tries : Nat]
              /\ MergeIntent.head = job.pub /\ MergeIntent.base = job.record.tgt
              /\ MergeIntent # NoMerge
            BY <1>2, <1>3 DEF MergeIntent, NoMerge, Formed
        <3> HIDE DEF k
        <3>4. k.merge # NoMerge /\ k.merge.head = job.pub /\ k.merge.base = job.record.tgt
              /\ k.merge \in [head : Nat, base : Nat, tries : Nat]
            BY <1>3, <3>2, <3>3 DEF Fresh, Formed
        <3>5. Formed(k) /\ Explained(k)
            BY <1>3, <3>2, <3>4 DEF Formed, Explained, Alike
        <3>6. Fresh(k, "attempt")
            BY <1>2, <1>3, <3>2, <3>4 DEF Fresh, ToAccept, Alike
        <3>7. Ways(k, "attempt", loc) /\ Stands(k, "attempt", loc) /\ Pending(k, "attempt")
            BY <1>3, <3>1, <3>2, <3>4
            DEF Ways, Stands, Gating, Pending, PrWritePending, Alike
        <3>8. OwnSourceWrite(job, source) => OwnSourceWrite(k, source)
            BY <3>2 DEF OwnSourceWrite, Alike
        <3>9. Knows(k, "attempt", loc)
            BY <1>2, <3>2, <3>5, <3>6, <3>7, <3>8, AlikeKnows
        <3>10. Knows(job', pc', loc')
            BY <3>1, <3>9
        <3>11. QED
            BY <3>1, <3>10, QuietKnows
    <2>4. QED
        BY <2>1, <2>3
<1>11. CASE Attempt
    <2> DEFINE k == Attempted(job)
    <2>1. CASE Stops(Waits(job))
        BY <2>1, PauseKnows
    <2>2. CASE Goes(k, "merge") /\ pc = "attempt"
        <3>1. /\ Alike(job, k) /\ k.write = job.write /\ k.pr = job.pr /\ k.close = job.close
              /\ k.phase = job.phase
              /\ k.merge = [job.merge EXCEPT !.tries = @ + 1]
            BY <1>2 DEF Attempted, Alike, Sound, Shaped, IsJob
        <3>2. job.merge \in [head : Nat, base : Nat, tries : Nat] /\ job.merge # NoMerge
            BY <1>3, <2>2 DEF Formed, Ways
        <3> HIDE DEF k
        <3>3. /\ k.merge \in [head : Nat, base : Nat, tries : Nat]
              /\ k.merge.head = job.merge.head /\ k.merge.base = job.merge.base
            BY <3>1, <3>2
        <3>4. Formed(k) /\ Explained(k)
            BY <1>2, <1>3, <3>1, <3>3 DEF Formed, Explained, Alike, Delivering
        <3>5. Fresh(k, "merge")
            BY <1>2, <1>3, <3>1, <3>2, <3>3 DEF Fresh, ToAccept, Alike, Delivering
        <3>6. Ways(k, "merge", loc) /\ Stands(k, "merge", loc) /\ Pending(k, "merge")
            BY <1>3, <2>2, <3>1
            DEF Ways, Stands, Gating, Pending, PrWritePending, Alike
        <3>7. OwnSourceWrite(job, source) => OwnSourceWrite(k, source)
            BY <3>1 DEF OwnSourceWrite, Alike
        <3>8. Knows(k, "merge", loc)
            BY <1>2, <3>1, <3>4, <3>5, <3>6, <3>7, AlikeKnows
        <3>9. QED
            BY <2>2, <3>8, ReadKnows DEF Goes
    <2>3. QED
        BY <1>11, <2>1, <2>2 DEF Attempt
<1>12. CASE SendMerge
    <2>1. pc = "merge" /\ Sends(MergeRequest, "merged")
        BY <1>12 DEF SendMerge
    <2>2. MergeRequest.kind = "merge"
        BY DEF MergeRequest, Request
    <2>3. Ways(job, "merged", loc) /\ Stands(job, "merged", loc) /\ Pending(job, "merged")
        BY <1>3, <2>1 DEF Ways, Stands, Gating, Pending
    <2>4. QED
        BY <1>1, <2>1, <2>2, <2>3, SendKnows
<1>13. QED
    BY <1>7, <1>8, <1>9, <1>10, <1>11, <1>12

\* From its merge on, the delivery fails only for a move after the merge, a
\* merge that was not its own, or requirements that changed.
LEMMA MergedKnows ==
    ASSUME OInv, Merged \/ Sync \/ After
    PROVE  Known
<1>1. /\ pc \in {"merged", "sync", "after"} /\ pc \notin Boundary \cup {"idle"}
      /\ {pc, "sync", "after", "prepare"} \subseteq AfterMerge
    BY DEF Merged, Sync, After, Boundary, AfterMerge, AtIssue
<1>2. /\ CInv /\ Sound(job) /\ Knows(job, pc, loc)
      /\ job.phase \in Delivering /\ job.phase \notin Settled
    BY <1>1, AtWork DEF OInv, Settled
<1>3. /\ Ways(job, pc, loc) /\ ~PrWritePending(job) /\ Formed(job) /\ Fresh(job, pc)
      /\ OwnMerge(job, pc)
    BY <1>1, <1>2 DEF Knows, Pending
<1>4. job.pr
    BY <1>1, <1>2 DEF CInv, Settling, Where
<1>5. CASE Merged
    <2> DEFINE k == [job EXCEPT !.integrated = pr.merged]
    <2>1. CASE Stops(Waits(job))
        BY <2>1, PauseKnows
    <2>2. CASE Then(k, "sync") /\ loc' = [loc EXCEPT !.integrated = pr.merged] /\ pc = "merged"
        <3>1. /\ Alike(job, k) /\ k.write = job.write /\ k.pr = job.pr /\ k.close = job.close
              /\ k.phase = job.phase /\ k.merge = job.merge
            BY <1>2 DEF Alike, Sound, Shaped, IsJob
        <3> HIDE DEF k
        <3>2. Formed(k) /\ Explained(k)
            BY <1>2, <1>3, <3>1 DEF Formed, Explained, Alike, Delivering
        <3>3. Fresh(k, "sync")
            BY <1>2, <1>3, <3>1 DEF Fresh, ToAccept, Alike, Delivering
        <3>4. Ways(k, "sync", loc') /\ Stands(k, "sync", loc') /\ Pending(k, "sync")
            BY <1>3, <2>2, <3>1 DEF Ways, Stands, Gating, Pending, PrWritePending, Alike
        <3>5. OwnSourceWrite(job, source) => OwnSourceWrite(k, source)
            BY <3>1 DEF OwnSourceWrite, Alike
        <3>6. HasMerged(job, pc) => HasMerged(k, "sync")
            BY <1>1, <1>2, <3>1 DEF HasMerged, ToClose, Settled
        <3>7. Knows(k, "sync", loc')
            BY <1>2, <3>1, <3>2, <3>3, <3>4, <3>5, <3>6, AlikeKnows
        <3>8. QED
            BY <2>2, <3>7, ReadKnows
    <2>3. QED
        BY <1>5, <2>1, <2>2 DEF Merged
<1>6. CASE Sync
    <2>1. pc = "sync" /\ pr.state = "MERGED" /\ loc.integrated = pr.merged
        BY <1>2, <1>6 DEF Sync, CInv, Settling, Where
    <2>2. CASE target = loc.integrated
        <3>1. Then(job, "after") /\ loc' = loc
            BY <1>6, <2>2 DEF Sync, Goes
        <3>2. Ways(job, "after", loc) /\ Stands(job, "after", loc) /\ Pending(job, "after")
            BY <1>3 DEF Ways, Stands, Gating, Pending
        <3>3. QED
            BY <1>1, <3>1, <3>2, GoKnows
    <2>3. CASE target # loc.integrated
        <3>1. Fails /\ ~Still
            BY <1>3, <1>6, <2>1, <2>3 DEF Sync, OwnMerge
        <3>2. QED
            BY <1>2, <3>1, FailKnows
    <2>4. QED
        BY <2>2, <2>3
<1>7. CASE After
    <2> DEFINE j == [job EXCEPT !.integrated = loc.integrated]
               k == [j EXCEPT !.phase = "merged"]
    <2>1. pc = "after" /\ pr.state = "MERGED" /\ loc.integrated = pr.merged
        BY <1>2, <1>7 DEF After, CInv, Settling, Where
    <2>2. /\ StopsAs(job, j) /\ Shaped(j) /\ j.phase = job.phase
        BY <1>2 DEF StopsAs, Sound, Shaped, IsJob
    <2>3. \/ Stops(Ends(j, "merged_result_mismatch")) /\ ~Exact(j, loc.integrated)
          \/ Stops(Ends(j, "merged_revision_mismatch")) /\ revised
          \/ Goes(k, "prepare")
        BY <1>7 DEF After
    <2> HIDE DEF j
    <2>4. ASSUME NEW code, code \notin Resumable, Stops(Ends(j, code)), Caused(code)
          PROVE  Known
        <3> DEFINE i == Ends(j, code)
        <3>1. StopsAs(job, i) /\ i.phase = "blocked" /\ i.reason = code
            BY <2>2 DEF StopsAs, Ends, Shaped, IsJob
        <3>2. Then(i, "idle") /\ loc' = NoLoc
            BY <2>4 DEF Stops
        <3> HIDE DEF i
        <3>3. Explained(i) /\ ~ToAccept(i) /\ ToClose(i)
            BY <1>4, <2>4, <3>1 DEF Explained, ToAccept, ToClose, StopsAs
        <3>4. Knows(i, "idle", loc')
            BY <1>2, <3>1, <3>2, <3>3, StopKnows DEF NoLoc
        <3>5. QED
            BY <3>2, <3>4, ReadKnows
    <2>5. ~Exact(j, loc.integrated) => ~Still
        BY <1>3, <2>1, <2>2, Weaker DEF Exact, OwnMerge, StopsAs
    <2>6. CASE Goes(k, "prepare")
        <3>1. /\ Alike(job, k) /\ k.write = job.write /\ k.pr = job.pr /\ k.close = job.close
              /\ k.phase = "merged" /\ k.merge = job.merge
            BY <2>2 DEF Alike, StopsAs, Shaped, IsJob
        <3> HIDE DEF k
        <3>2. Formed(k) /\ Explained(k)
            BY <1>3, <3>1 DEF Formed, Explained, Alike
        <3>3. Fresh(k, "prepare")
            BY <1>3, <3>1 DEF Fresh, ToAccept, Alike
        <3>4. Ways(k, "prepare", loc) /\ Stands(k, "prepare", loc) /\ Pending(k, "prepare")
            BY <1>3, <3>1 DEF Ways, Stands, Gating, Pending, PrWritePending, Alike
        <3>5. OwnSourceWrite(job, source) => OwnSourceWrite(k, source)
            BY <3>1 DEF OwnSourceWrite, Alike
        <3>6. HasMerged(job, pc) => HasMerged(k, "prepare")
            BY <1>1, <1>4, <3>1 DEF HasMerged, ToClose
        <3>7. Knows(k, "prepare", loc)
            BY <1>2, <3>1, <3>2, <3>3, <3>4, <3>5, <3>6, AlikeKnows
        <3>8. QED
            BY <2>6, <3>7, ReadKnows DEF Goes
    <2>7. QED
        BY <2>3, <2>4, <2>5, <2>6, Told, Reasons DEF Resumable
<1>8. QED
    BY <1>5, <1>6, <1>7

\* At the issue, the Job is merged, and only its close is still to be settled.
LEMMA AtEnd ==
    ASSUME OInv, pc \in AtIssue
    PROVE  /\ CInv /\ Hub /\ Sound(job) /\ Knows(job, pc, loc) /\ job.phase = "merged" /\ job.pr
           /\ Ways(job, pc, loc) /\ ~PrWritePending(job) /\ Formed(job) /\ Fresh(job, pc)
           /\ Evidence /\ pc # "idle"
<1>1. CInv /\ Knows(job, pc, loc) /\ pc # "idle" /\ Evidence /\ Hub
    BY DEF OInv, AtIssue, CInv, Around
<1>2. Sound(job) /\ job.phase = "merged"
    BY <1>1, AtWork DEF CInv, Settling, Where
<1>3. job.pr
    BY <1>2 DEF Sound, Sealed, Past
<1>4. ~PrWritePending(job)
    BY <1>1 DEF Knows, Pending, AtIssue
<1>5. QED
    BY <1>1, <1>2, <1>3, <1>4 DEF Knows

\* It goes on there with a Job whose close alone is another.
LEMMA IssueKnows ==
    ASSUME OInv, pc \in AtIssue, NEW k, StopsAs([job EXCEPT !.close = k.close], k),
           k.phase = "merged", k.close.baseline \in {-1, 0} \/ "issue" \in meddled,
           NEW p \in AtIssue, Goes(k, p)
    PROVE  Known
<1>1. /\ Sound(job) /\ Knows(job, pc, loc) /\ job.phase = "merged" /\ job.pr
      /\ Ways(job, pc, loc) /\ ~PrWritePending(job) /\ Formed(job) /\ Fresh(job, pc)
    BY AtEnd
<1>2. /\ Alike(job, k) /\ k.write = job.write /\ k.merge = job.merge /\ k.pr = job.pr
    BY <1>1 DEF StopsAs, Alike, Sound, Shaped, IsJob
<1>3. Formed(k) /\ Explained(k)
    BY <1>1, <1>2 DEF Formed, Explained, Alike
<1>4. Fresh(k, p)
    BY <1>1, <1>2 DEF Fresh, ToAccept, Alike, AtIssue
<1>5. Ways(k, p, loc) /\ Stands(k, p, loc) /\ Pending(k, p)
    BY <1>1, <1>2 DEF Ways, Stands, Gating, Pending, PrWritePending, Alike, AtIssue
<1>6. HasMerged(job, pc) => HasMerged(k, p)
    BY <1>1, <1>2 DEF HasMerged, ToClose, AfterMerge
<1>7. OwnSourceWrite(job, source) => OwnSourceWrite(k, source)
    BY <1>2 DEF OwnSourceWrite, Alike
<1>8. Knows(k, p, loc)
    BY <1>1, <1>2, <1>3, <1>4, <1>5, <1>6, <1>7, AlikeKnows
<1>9. QED
    BY <1>8, ReadKnows DEF Goes

\* A comment is made for the issue as it is: nobody's doing, while people leave
\* it alone.
LEMMA PrepareKnows ==
    ASSUME OInv, Prepare \/ Commented
    PROVE  Known
<1>1. pc \in {"prepare", "commented"} /\ pc \in AtIssue
    BY DEF Prepare, Commented, AtIssue
<1>2. /\ Sound(job) /\ job.phase = "merged" /\ Knows(job, pc, loc) /\ Ways(job, pc, loc)
      /\ ~PrWritePending(job) /\ Fresh(job, pc) /\ Evidence
    BY <1>1, AtEnd
<1>3. ASSUME Goes(Prepared(job), "close") PROVE Known
    <2> DEFINE k == Prepared(job)
    <2>1. /\ StopsAs([job EXCEPT !.close = k.close], k) /\ k.phase = "merged"
          /\ k.close.baseline = issue.comment
        BY <1>2 DEF Prepared, StopsAs, Sound, Shaped, IsJob
    <2>2. issue.comment \in {-1, 0} \/ "issue" \in meddled
        BY <1>2 DEF Evidence
    <2>3. Goes(k, "close")
        BY <1>3
    <2> HIDE DEF k
    <2>4. QED
        BY <1>1, <2>1, <2>2, <2>3, IssueKnows DEF AtIssue
<1>4. ASSUME Goes(job, "close") PROVE Known
    <2>1. Ways(job, "close", loc) /\ Stands(job, "close", loc) /\ Pending(job, "close")
        BY <1>1, <1>2 DEF Ways, Stands, Gating, Pending
    <2>2. QED
        BY <1>4, <2>1, GoKnows DEF Goes, AfterMerge, AtIssue
<1>5. ASSUME IssueOpen, Sends(CommentRequest, "commented") PROVE Known
    <2>1. CommentRequest.kind = "comment" /\ CommentRequest.head = Len(issue.events)
        BY DEF CommentRequest, Request
    <2>2. "issue" \notin meddled => Len(issue.events) = 0
        <3>1. Len(<<>>) = 0 /\ Len(<<"us">>) = 1 /\ 1 % 2 = 1
            OBVIOUS
        <3>2. QED
            BY <1>2, <1>5, <3>1 DEF Evidence, IssueOpen
    <2>3. /\ Ways(job, "commented", loc) /\ Stands(job, "commented", loc)
          /\ Pending(job, "commented")
        BY <1>1, <1>2 DEF Ways, Stands, Gating, Pending
    <2>4. "commented" \in AfterMerge
        BY DEF AfterMerge, AtIssue
    <2>5. QED
        BY <1>5, <2>1, <2>2, <2>3, <2>4, SendKnows
<1>6. CASE Prepare
    <2>1. \/ Goes(job, "close") \/ Stops(Waits(job)) \/ Goes(Prepared(job), "close")
          \/ IssueOpen /\ Sends(CommentRequest, "commented")
        BY <1>6 DEF Prepare
    <2>2. QED
        BY <1>3, <1>4, <1>5, <2>1, PauseKnows
<1>7. CASE Commented
    <2>1. Stops(Waits(job)) \/ Goes(Prepared(job), "close")
        BY <1>7 DEF Commented
    <2>2. QED
        BY <1>3, <2>1, PauseKnows
<1>8. QED
    BY <1>6, <1>7

\* The close is somebody else's only if people touched the issue.
LEMMA CloseKnows ==
    ASSUME OInv, Close \/ SendClose \/ Closed
    PROVE  Known
<1>1. pc \in {"close", "dispatch", "closed"} /\ pc \in AtIssue
    BY DEF Close, SendClose, Closed, AtIssue
<1>2. /\ CInv /\ Hub /\ Sound(job) /\ job.phase = "merged" /\ job.pr
      /\ Knows(job, pc, loc) /\ Ways(job, pc, loc)
      /\ ~PrWritePending(job) /\ Fresh(job, pc) /\ Evidence
    BY <1>1, AtEnd
<1>3. CloseOwner(job.close.baseline) = "theirs" => "issue" \in meddled
    <2>1. SUFFICES ASSUME "issue" \notin meddled PROVE CloseOwner(job.close.baseline) # "theirs"
        OBVIOUS
    <2>2. job.close.baseline = 0
        BY <1>1, <1>2, <2>1 DEF CInv, Settling, Where, Sound, Closing, Fresh
    <2>3. issue.events \in {<<>>, <<"us">>}
        BY <1>2, <2>1 DEF Evidence
    <2>4. SubSeq(issue.events, 0 + 1, Len(issue.events)) = issue.events
        <3>1. <<>> \in Seq({"us"}) /\ <<"us">> \in Seq({"us"})
            OBVIOUS
        <3>2. issue.events \in Seq({"us"})
            BY <2>3, <3>1
        <3>3. PICK e \in Seq({"us"}) : e = issue.events
            BY <3>2
        <3>4. SubSeq(e, 1, Len(e)) = e
            BY SubSeqFull
        <3>5. 0 + 1 = 1
            OBVIOUS
        <3>6. QED
            BY <3>3, <3>4, <3>5
    <2>5. QED
        BY <2>2, <2>3, <2>4 DEF CloseOwner
<1>4. ASSUME NEW k, StopsAs(job, k), Stops(k), Explained(k), ~ToAccept(k), ToClose(k)
      PROVE  Known
    <2>1. {"head", "base", "observed"} \subseteq DOMAIN NoLoc
        BY DEF NoLoc
    <2>2. Knows(k, "idle", NoLoc)
        BY <1>2, <1>4, <2>1, StopKnows
    <2>3. QED
        BY <1>4, <2>2, ReadKnows DEF Stops
<1>5. ASSUME Stops(Completed(job)) PROVE Known
    <2> DEFINE k == Completed(job)
    <2>1. StopsAs(job, k) /\ k.phase = "completed"
        BY <1>2 DEF StopsAs, Completed, Sound, Shaped, IsJob
    <2>2. Stops(k)
        BY <1>5
    <2> HIDE DEF k
    <2>3. QED
        BY <1>2, <1>4, <2>1, <2>2 DEF Explained, ToAccept, ToClose, StopsAs
<1>6. ASSUME Stops(Conflicted(job)), CloseOwner(job.close.baseline) = "theirs" PROVE Known
    <2> DEFINE k == Conflicted(job)
    <2>1. /\ StopsAs(job, k) /\ k.phase = "blocked"
          /\ k.reason = "ticket_close_external_conflict"
        BY <1>2 DEF StopsAs, Conflicted, Ends, Sound, Shaped, IsJob
    <2>2. Stops(k)
        BY <1>6
    <2> HIDE DEF k
    <2>3. Caused(k.reason) /\ k.reason \notin Resumable
        BY <1>3, <1>6, <2>1, Reasons DEF Resumable
    <2>4. QED
        BY <1>2, <1>4, <2>1, <2>2, <2>3 DEF Explained, ToAccept, ToClose, StopsAs
<1>7. CASE Close
    <2> DEFINE k == [job EXCEPT !.close.sent = TRUE]
    <2>1. \/ Stops(Completed(job))
          \/ Stops(Conflicted(job)) /\ CloseOwner(job.close.baseline) = "theirs"
          \/ Goes(k, "dispatch")
        BY <1>7 DEF Close
    <2>2. /\ StopsAs([job EXCEPT !.close = k.close], k) /\ k.phase = "merged"
          /\ k.close.baseline = job.close.baseline
        BY <1>2 DEF StopsAs, Sound, Shaped, IsJob
    <2>3. job.close.baseline \in {-1, 0} \/ "issue" \in meddled
        BY <1>2 DEF Fresh
    <2> HIDE DEF k
    <2>4. CASE Goes(k, "dispatch")
        BY <1>1, <2>2, <2>3, <2>4, IssueKnows DEF AtIssue
    <2>5. QED
        BY <1>5, <1>6, <2>1, <2>4
<1>8. CASE SendClose
    <2>1. Sends(CloseRequest, "closed")
        BY <1>8 DEF SendClose
    <2>2. CloseRequest.kind = "close"
        BY DEF CloseRequest, Request
    <2>3. Ways(job, "closed", loc) /\ Stands(job, "closed", loc) /\ Pending(job, "closed")
        BY <1>1, <1>2 DEF Ways, Stands, Gating, Pending
    <2>4. "closed" \in AfterMerge
        BY DEF AfterMerge, AtIssue
    <2>5. QED
        BY <2>1, <2>2, <2>3, <2>4, SendKnows
<1>9. CASE Closed
    <2>1. \/ Stops(Completed(job)) \/ Stops(Waits(job))
          \/ Stops(Conflicted(job)) /\ CloseOwner(job.close.baseline) = "theirs"
        BY <1>9 DEF Closed
    <2>2. QED
        BY <1>5, <1>6, <2>1, PauseKnows
<1>10. QED
    BY <1>7, <1>8, <1>9

----------------------------------------------------------------------------
(* What happens around the lane *)

\* Interruptions, lost requests and Ticket Resumes tell the Job nothing new.
LEMMA FaultKnows ==
    ASSUME OInv, Interrupted \/ Resume \/ \E r \in flight : Lose(r)
    PROVE  Known
<1>1. Knows(job, pc, loc) /\ Sound(job) /\ CInv
    BY DEF OInv, CInv, Settling
<1>2. Knows(job, "idle", NoLoc) /\ Knows(Waits(job), "idle", NoLoc)
    <2>1. ASSUME NEW k \in {job, Waits(job)} PROVE Knows(k, "idle", NoLoc)
        <3>1. /\ StopsAs(job, k) /\ k.phase = job.phase /\ k.reason = job.reason
              /\ k.resume = job.resume
            BY <1>1, <2>1 DEF StopsAs, Waits, Sound, Shaped, IsJob
        <3>2. Explained(k) /\ (ToAccept(k) => job.pub = None \/ job.record.cand # job.cand)
            BY <1>1, <3>1 DEF Knows, Explained, Fresh, ToAccept
        <3>3. HasMerged(job, pc) => ToClose(k)
            BY <3>1 DEF HasMerged, ToClose, StopsAs
        <3>4. {"head", "base", "observed"} \subseteq DOMAIN NoLoc
            BY DEF NoLoc
        <3>5. QED
            BY <1>1, <3>1, <3>2, <3>3, <3>4, StopKnows
    <2>2. QED
        BY <2>1
<1>3. CASE Interrupted
    <2>1. /\ UNCHANGED <<remote, moves, meddled>> /\ flight' = flight
          /\ job' \in {job, Waits(job)} /\ pc' = "idle" /\ loc' = NoLoc
        BY <1>3 DEF Interrupted, history
    <2>2. Knows(job', pc', loc')
        BY <1>2, <2>1
    <2>3. QED
        BY <2>1, <2>2, QuietKnows
<1>4. CASE Resume
    <2> DEFINE k == [job EXCEPT !.phase = job.resume, !.reason = "none", !.resume = "none"]
    <2>1. /\ pc = "idle" /\ job.phase = "blocked" /\ job.reason \in Resumable
          /\ job' = k /\ pc' = "idle" /\ loc' = loc
          /\ UNCHANGED <<remote, moves, meddled>> /\ flight' = flight
        BY <1>4 DEF Resume, history, Resumable
    <2>2. StopsAs(job, k) /\ k.phase = job.resume
        BY <1>1 DEF StopsAs, Sound, Shaped, IsJob
    <2>3. job.resume # "blocked"
        BY <1>1, <2>1 DEF Sound, Named, Settled
    <2> HIDE DEF k
    <2>4. Explained(k) /\ (ToAccept(k) => job.pub = None \/ job.record.cand # job.cand)
        BY <1>1, <2>1, <2>2, <2>3 DEF Knows, Explained, Fresh, ToAccept
    <2>5. HasMerged(job, pc) => ToClose(k)
        BY <2>1, <2>2 DEF HasMerged, ToClose, StopsAs
    <2>6. {"head", "base", "observed"} \subseteq DOMAIN loc
        BY <1>1 DEF Knows, Ways
    <2>7. Knows(k, "idle", loc)
        BY <1>1, <2>2, <2>4, <2>5, <2>6, StopKnows
    <2>8. Knows(job', pc', loc')
        BY <2>1, <2>7
    <2>9. QED
        BY <2>1, <2>8, QuietKnows
<1>5. CASE \E r \in flight : Lose(r)
    <2>1. PICK r \in flight : Lose(r)
        BY <1>5
    <2>2. /\ UNCHANGED <<remote, moves, meddled>> /\ flight' \subseteq flight
          /\ \/ UNCHANGED <<job, pc, loc>>
             \/ job' = Waits(job) /\ pc' = "idle" /\ loc' = NoLoc
        BY <2>1 DEF Lose, history
    <2>3. Knows(job', pc', loc')
        BY <1>1, <1>2, <2>2
    <2>4. QED
        BY <2>2, <2>3, QuietKnows
<1>6. QED
    BY <1>3, <1>4, <1>5

----------------------------------------------------------------------------
(* GitHub and its users *)

\* The commits stay, and the branches go forward but for a rewrite.
Onward ==
    /\ \A c \in Commits : c \in Commits' /\ commits'[c] = commits[c]
    /\ source \in Commits /\ target \in Commits /\ source <= source' /\ target <= target'
    /\ meddled \subseteq meddled'
    /\ Straight' => LET s == source
                    IN  {s} \cup commits[s].anc \subseteq {source'} \cup commits'[source'].anc
    /\ LET t == target
       IN  {t} \cup commits[t].anc \subseteq {target'} \cup commits'[target'].anc

\* What was on a branch is on it still.
LEMMA OnwardKeeps ==
    ASSUME CInv, Onward, source' \in Commits', target' \in Commits', NEW c
    PROVE  (OnSource(c) => OnSource(c)') /\ (OnTarget(c) => OnTarget(c)')
<1>1. Straight' => Straight
    BY DEF Onward, Straight
<1>2. c \in Commits => c \in Commits' /\ Lineage(c)' = Lineage(c)
    BY DEF Onward, Lineage
<1>3. /\ source \in Nat /\ target \in Nat /\ (c \in Commits => c \in Nat)
      /\ source' \in Int /\ target' \in Int
    BY Numbers DEF Commits
<1>4. OnSource(c) => OnSource(c)'
    BY <1>1, <1>2, <1>3 DEF OnSource, Onward, Lineage
<1>5. OnTarget(c) => OnTarget(c)'
    BY <1>2, <1>3 DEF OnTarget, Onward, Lineage
<1>6. QED
    BY <1>4, <1>5

\* What the Job names is on its branch still.
LEMMA RemoteRooted ==
    ASSUME CInv, Rooted(job), Onward, source' \in Commits', target' \in Commits', job' = job
    PROVE  Rooted(job)'
<1>1. \A c : (OnSource(c) => OnSource(c)') /\ (OnTarget(c) => OnTarget(c)')
    BY OnwardKeeps
<1>2. Observed(job)' /\ Integrates(job)'
    BY <1>1 DEF Rooted, Observed, Integrates
<1>3. Publishes(job)'
    <2>1. job.published # None => OnSource(job.published)'
        BY <1>1 DEF Rooted, Publishes
    <2>2. job.pub # None => Lineage(job.record.src)' \subseteq Lineage(job.pub)'
        <3>1. SUFFICES ASSUME job.pub # None
                       PROVE  Lineage(job.record.src)' \subseteq Lineage(job.pub)'
            OBVIOUS
        <3>2. /\ job.record.src \in Commits
              /\ Lineage(job.record.src) \subseteq Lineage(job.pub)
            BY <3>1 DEF Rooted, Publishes, Integrates, OnSource
        <3>3. job.pub \in Commits
            BY <3>1 DEF CInv, Settling, Sound, Named
        <3>4. QED
            BY <3>2, <3>3 DEF Onward, Lineage
    <2>3. QED
        BY <2>1, <2>2 DEF Rooted, Publishes, Matches, OnSource
<1>4. QED
    BY <1>2, <1>3 DEF Rooted

\* A request that lands, or a change people make, tells the Job nothing wrong:
\* it moves no branch, it is one the lane waits for, or it is in the history.
LEMMA RemoteKnows ==
    ASSUME OInv, UNCHANGED <<job, pc, loc>>, flight' \subseteq flight, Onward, Hub', Evidence',
           Base \in Lineage(target)', Straight' => Base \in Lineage(source)',
           job.pr => pr'.state # "none", OwnMerge(job, pc)', Owed(job, pc)',
           Stands(job, pc, loc)', Pending(job, pc)'
    PROVE  Known
<1>1. CInv /\ Knows(job, pc, loc) /\ Ordered
    BY DEF OInv
<1>2. source' \in Commits' /\ target' \in Commits'
    BY DEF Hub
<1>3. \A c : (OnSource(c) => OnSource(c)') /\ (OnTarget(c) => OnTarget(c)')
    BY <1>1, <1>2, OnwardKeeps
<1>4. Ordered'
    <2>1. \A r \in flight : r.kind = "push" => Forward(r)'
        <3>1. SUFFICES ASSUME NEW r \in flight, r.kind = "push" PROVE Forward(r)'
            OBVIOUS
        <3>2. Forward(r)
            BY <1>1, <3>1 DEF Ordered
        <3>3. QED
            BY <3>2 DEF Forward, Onward, Lineage
    <2>2. QED
        BY <2>1 DEF Ordered
<1>5. (Formed(job) /\ Explained(job))'
    BY <1>1 DEF Knows, Formed, Explained, Caused, Onward
<1>6. Rooted(job)'
    BY <1>1, <1>2, RemoteRooted DEF Knows
<1>7. Fresh(job, pc)'
    BY <1>1 DEF Knows, Fresh, ToAccept, Matches, Onward
<1>8. Ways(job, pc, loc)'
    <2>1. Ways(job, pc, loc)
        BY <1>1 DEF Knows
    <2>2. /\ OnSource(loc.head) => OnSource(loc.head)'
          /\ OnSource(job.pub) => OnSource(job.pub)'
        <3>1. PICK h, p : h = loc.head /\ p = job.pub
            OBVIOUS
        <3>2. (OnSource(h) => OnSource(h)') /\ (OnSource(p) => OnSource(p)')
            BY <1>3
        <3>3. QED
            BY <3>1, <3>2 DEF OnSource
    <2>3. QED
        BY <2>1, <2>2 DEF Ways, RefIntent
<1>9. QED
    BY <1>4, <1>5, <1>6, <1>7, <1>8 DEF Known, Knows

\* A request or a change that leaves the branches and the merge alone.
LEMMA AsideKnows ==
    ASSUME OInv, UNCHANGED <<commits, source, target, job, pc, loc>>, flight' \subseteq flight,
           meddled \subseteq meddled', Hub', Evidence', moves' = moves,
           pr'.state = pr.state \/ (pr.state # "MERGED" /\ pr'.state # "MERGED")
             \/ (pr.state = "MERGED" /\ pr'.state = "OPEN" /\ pc \notin AfterMerge),
           pr'.head = pr.head \/ pr'.state # "MERGED",
           pr'.merged = pr.merged \/ pr'.state # "MERGED",
           job.pr => pr'.state # "none",
           Pending(job, pc)'
    PROVE  Known
<1>1. CInv /\ Knows(job, pc, loc) /\ Ordered
    BY DEF OInv
<1>2. Onward
    <2>1. /\ source \in Commits /\ target \in Commits
          /\ source \in Nat /\ target \in Nat
        BY <1>1, Numbers
    <2>2. Commits' = Commits
        BY DEF Commits
    <2>3. QED
        BY <2>1, <2>2 DEF Onward
<1>3. (Base \in Lineage(target) /\ (Straight => Base \in Lineage(source)))'
    BY <1>1 DEF Ordered, Lineage, Straight
<1>4. (Still' => Still) /\ (Unmerged' => Unmerged)
    BY DEF Still, Unmerged
<1>5. OwnMerge(job, pc)'
    <2>1. SUFFICES ASSUME pr'.state = "MERGED" PROVE OwnMerge(job, pc)'
        BY DEF OwnMerge
    <2>2. pr.state = "MERGED" /\ pr'.head = pr.head /\ pr'.merged = pr.merged
        BY <2>1
    <2>3. OwnMerge(job, pc) /\ HasMerged(job, pc) => HasMerged(job, pc)'
        BY <1>1, <2>1 DEF Knows, HasMerged, ToClose
    <2>4. QED
        BY <1>1, <1>4, <2>2, <2>3 DEF Knows, OwnMerge
<1>6. Owed(job, pc)'
    <2>1. HasMerged(job, pc) => HasMerged(job, pc)'
        BY DEF HasMerged, ToClose
    <2>2. Deviates(job)' => Deviates(job)
        BY DEF Deviates, OwnSourceWrite
    <2>3. QED
        BY <1>1, <2>1, <2>2 DEF Knows, Owed
<1>7. pr.state = "MERGED" /\ pc \notin AfterMerge => ~Still
    BY <1>1, NoOwnMerge DEF Knows, HasMerged
<1>8. Stands(job, pc, loc)'
    BY <1>1, <1>4, <1>7
    DEF Knows, Stands, HeadsCurrent, OwnSourceWrite, PushObserved, RefIntent
<1>9. QED
    BY <1>2, <1>3, <1>5, <1>6, <1>8, RemoteKnows

\* A branch moves that the Runner could not have expected to move: the Job knows
\* nothing of GitHub for certain any more, and a charge may follow.
LEMMA MovedKnows ==
    ASSUME OInv, UNCHANGED <<job, pc, loc, issue, revised>>, flight' \subseteq flight, Onward,
           Hub', moves' = moves + 1, Moves \cap meddled' # {},
           pr' = pr \/ (pr'.state = "MERGED" /\ {"merge", "late"} \cap meddled' # {})
    PROVE  Known
<1>1. CInv /\ Evidence /\ Knows(job, pc, loc) /\ Ordered
    BY DEF OInv
<1>2. ~Still' /\ ~Undisturbed'
    BY DEF Still, Undisturbed
<1>3. meddled \subseteq meddled'
    BY DEF Onward
<1>4. Evidence'
    <2>1. moves' \in Nat
        BY <1>1 DEF Evidence
    <2>2. (revised => "revise" \in meddled)' /\ (pr.state = "CLOSED" => "close" \in meddled)'
        BY <1>1, <1>3 DEF Evidence
    <2>3. QED
        BY <1>1, <1>2, <1>3, <2>1, <2>2 DEF Evidence
<1>5. (Base \in Lineage(target))' /\ (Straight' => (Base \in Lineage(source))')
    BY <1>1, <1>3 DEF Ordered, Onward, Lineage, Straight
<1>6. OwnMerge(job, pc)'
    <2>1. Unmerged' => Unmerged /\ pr' = pr
        BY <1>3 DEF Unmerged
    <2>2. QED
        BY <1>1, <1>2, <2>1 DEF Knows, OwnMerge, HasMerged, ToClose
<1>7. Owed(job, pc)'
    <2>1. job.window.used \in Nat /\ moves \in Nat /\ job.window.used <= moves
        BY <1>1 DEF Knows, Formed, Evidence, Owed
    <2>2. job.window.used <= moves' /\ job.window.used < moves'
        BY <2>1
    <2>3. QED
        BY <2>2 DEF Owed
<1>8. Stands(job, pc, loc)' /\ Pending(job, pc)'
    BY <1>1, <1>2 DEF Knows, Stands, Pending, PrWritePending
<1>9. job.pr => pr'.state # "none"
    BY <1>1 DEF Knows, Fresh
<1>10. QED
    BY <1>4, <1>5, <1>6, <1>7, <1>8, <1>9, RemoteKnows

\* A commit made on the head of a branch takes the branch onward.
LEMMA AppendedOnward ==
    ASSUME CInv, NEW e, commits' = Append(commits, e), meddled \subseteq meddled',
           \/ source' = source
           \/ source' = Next1 /\ (Straight' => Lineage(source) \subseteq e.anc),
           \/ target' = target
           \/ target' = Next1 /\ Lineage(target) \subseteq e.anc
    PROVE  Onward
<1>1. /\ \A c \in Commits : Kept(c)
      /\ Next1 \in Commits' /\ commits'[Next1] = e
    BY CommitsGrow DEF CInv
<1>2. /\ source \in Commits /\ target \in Commits
      /\ source \in Nat /\ target \in Nat /\ source <= Len(commits) /\ target <= Len(commits)
      /\ Len(commits) \in Nat
    BY Numbers DEF Commits
<1>3. source <= source' /\ target <= target'
    BY <1>2 DEF Next1
<1>4. commits'[source] = commits[source] /\ commits'[target] = commits[target]
    BY <1>1, <1>2 DEF Kept
<1>5. Straight' => Lineage(source) \subseteq {source'} \cup commits'[source'].anc
    BY <1>1, <1>4 DEF Lineage
<1>6. Lineage(target) \subseteq {target'} \cup commits'[target'].anc
    BY <1>1, <1>4 DEF Lineage
<1>7. QED
    BY <1>1, <1>2, <1>3, <1>5, <1>6 DEF Onward, Kept, Lineage

\* A push or a merge that nobody waits for.
LEMMA LandLateKnows ==
    ASSUME OInv, NEW r \in flight, Land(r), Hub', Accepts(r), r \notin Awaited,
           r.kind \in {"push", "merge"}
    PROVE  Known
<1>1. CInv /\ Ordered
    BY DEF OInv
<1>2. /\ UNCHANGED <<job, pc, loc, issue, revised>> /\ flight' \subseteq flight
      /\ meddled' = meddled \cup {"late"} /\ moves' = moves + 1
    BY DEF Land, Takes
<1>3. Moves \cap meddled' # {}
    BY <1>2 DEF Moves
<1>4. CASE r.kind = "push"
    <2>1. /\ UNCHANGED <<commits, target, pr>> /\ source' = r.head /\ source = r.expected
        BY <1>4 DEF Land, Takes, Accepts
    <2>2. Forward(r)
        BY <1>1, <1>4 DEF Ordered
    <2>3. Commits' = Commits
        BY <2>1 DEF Commits
    <2>4. /\ source \in Commits /\ target \in Commits /\ source <= source' /\ target <= target'
        BY <1>1, <2>1, <2>2, Numbers DEF Forward
    <2>5. Onward
        BY <1>2, <2>1, <2>2, <2>3, <2>4 DEF Onward, Forward, Lineage
    <2>6. QED
        BY <1>2, <1>3, <2>1, <2>5, MovedKnows
<1>5. CASE r.kind = "merge"
    <2> DEFINE e == Squash("ours", source)
    <2>1. /\ commits' = Append(commits, e) /\ target' = Next1 /\ source' = source
          /\ e.anc = Lineage(target)
          /\ pr' = [pr EXCEPT !.state = "MERGED", !.head = source, !.merged = Next1]
        BY <1>5 DEF Land, Takes, Accepts, Squash
    <2> HIDE DEF e
    <2>2. Onward
        BY <1>1, <1>2, <2>1, AppendedOnward
    <2>3. pr'.state = "MERGED"
        BY <1>1, <2>1 DEF CInv, Around, Hub
    <2>4. {"merge", "late"} \cap meddled' # {}
        BY <1>2
    <2>5. QED
        BY <1>2, <1>3, <2>2, <2>3, <2>4, MovedKnows
<1>6. QED
    BY <1>4, <1>5

\* The push that the lane waits for is the one the Job has on record.
LEMMA LandPushKnows ==
    ASSUME OInv, NEW r \in flight, Land(r), Hub', Accepts(r), r \in Awaited, r.kind = "push"
    PROVE  Known
<1>1. CInv /\ Ordered /\ Evidence /\ Knows(job, pc, loc)
    BY DEF OInv
<1>2. pc = "pushed" /\ r = PushRequest
    BY DEF Awaited, PushRequest, PrRequest, MergeRequest, CloseRequest, Request
<1>3. r.head = job.pub /\ r.expected = job.record.src
    BY <1>2 DEF PushRequest, Request
<1>4. /\ UNCHANGED <<job, pc, loc, issue, revised, commits, target, pr, meddled, moves>>
      /\ flight' \subseteq flight /\ source' = job.pub /\ source = r.expected
    BY <1>3 DEF Land, Takes, Accepts
<1>5. Forward(r) /\ Commits' = Commits
    BY <1>1, <1>4 DEF Ordered, Commits
<1>6. source \in Commits /\ target \in Commits /\ source <= source' /\ target <= target'
    BY <1>1, <1>3, <1>4, <1>5, Numbers DEF Forward
<1>7. Onward
    BY <1>3, <1>4, <1>5, <1>6 DEF Onward, Forward, Lineage
<1>8. Evidence'
    BY <1>1, <1>4 DEF Evidence, Still
<1>9. (Base \in Lineage(target))' /\ (Straight' => (Base \in Lineage(source))')
    BY <1>1, <1>4, <1>7 DEF Ordered, Onward, Lineage, Straight
<1>10. job.write = RefIntent(job) /\ job.write.kind = "ref" /\ job.write.head = job.pub
    BY <1>1, <1>2 DEF Knows, Ways, RefIntent
<1>11. OwnMerge(job, pc)'
    BY <1>1, <1>4 DEF Knows, OwnMerge, HasMerged, ToClose, Still, Unmerged
<1>12. Owed(job, pc)'
    <2>1. Deviates(job)' => Deviates(job)
        BY <1>4, <1>10 DEF Deviates, OwnSourceWrite
    <2>2. HasMerged(job, pc)' <=> HasMerged(job, pc)
        BY <1>4 DEF HasMerged, ToClose
    <2>3. QED
        BY <1>1, <1>4, <2>1, <2>2 DEF Knows, Owed
<1>13. Stands(job, pc, loc)'
    BY <1>1, <1>2, <1>4 DEF Knows, Stands, Gating, Still
<1>14. Pending(job, pc)'
    BY <1>4, <1>10 DEF Pending, PrWritePending
<1>15. job.pr => pr'.state # "none"
    BY <1>1, <1>4 DEF Knows, Fresh
<1>16. QED
    BY <1>4, <1>7, <1>8, <1>9, <1>11, <1>12, <1>13, <1>14, <1>15, RemoteKnows

\* The merge that the lane waits for is of its publication, onto its target.
LEMMA LandMergeKnows ==
    ASSUME OInv, NEW r \in flight, Land(r), Hub', Accepts(r), r \in Awaited, r.kind = "merge"
    PROVE  Known
<1> DEFINE e == Squash("ours", source)
<1>1. CInv /\ Ordered /\ Evidence /\ Knows(job, pc, loc)
    BY DEF OInv
<1>2. pc = "merged" /\ r = MergeRequest
    BY DEF Awaited, PushRequest, PrRequest, MergeRequest, CloseRequest, Request
<1>3. /\ UNCHANGED <<job, pc, loc, issue, revised, source, meddled, moves>>
      /\ flight' \subseteq flight /\ source = job.pub /\ pr.state = "OPEN"
      /\ commits' = Append(commits, e) /\ target' = Next1
      /\ e.anc = Lineage(target) /\ e.tgt = target
      /\ pr' = [pr EXCEPT !.state = "MERGED", !.head = source, !.merged = Next1]
    BY <1>2 DEF Land, Takes, Accepts, Open, MergeRequest, Request, Squash
<1> HIDE DEF e
<1>4. Onward
    BY <1>1, <1>3, AppendedOnward
<1>5. commits'[Next1] = e
    BY <1>1, <1>3, CommitsGrow DEF CInv
<1>6. pr'.state = "MERGED" /\ pr'.head = job.pub /\ pr'.merged = Next1
    BY <1>1, <1>3 DEF CInv, Around, Hub
<1>7. Evidence'
    BY <1>1, <1>3, <1>6 DEF Evidence, Still
<1>8. (Base \in Lineage(target))' /\ (Straight' => (Base \in Lineage(source))')
    BY <1>1, <1>3, <1>4 DEF Ordered, Onward, Lineage, Straight
<1>9. HasMerged(job, pc)'
    <2>1. job.phase = "merging" /\ job.pr
        BY <1>1, <1>2 DEF Knows, Ways, CInv, Settling, Where
    <2>2. QED
        BY <1>2, <1>3, <1>6, <2>1 DEF HasMerged, AfterMerge, ToClose
<1>10. OwnMerge(job, pc)'
    <2>1. Still => job.record.tgt = target
        BY <1>1, <1>2, <1>3 DEF Knows, Stands, Gating
    <2>2. QED
        BY <1>3, <1>5, <1>6, <1>9, <2>1 DEF OwnMerge, Still
<1>11. Owed(job, pc)'
    BY <1>1, <1>3, <1>9 DEF Knows, Owed
<1>12. Stands(job, pc, loc)'
    BY <1>2, <1>3, <1>6 DEF Stands
<1>13. Pending(job, pc)'
    BY <1>1, <1>2, <1>3 DEF Knows, Pending, PrWritePending
<1>14. QED
    BY <1>3, <1>4, <1>6, <1>7, <1>8, <1>10, <1>11, <1>12, <1>13, RemoteKnows

\* A write of the pull request that arrives is the one on record, or a late one.
LEMMA LandPrKnows ==
    ASSUME OInv, NEW r \in flight, Land(r), Hub', Accepts(r), r.kind \in {"create", "edit"}
    PROVE  Known
<1>1. CInv /\ Ordered /\ Evidence /\ Knows(job, pc, loc) /\ Hub
    BY DEF OInv, CInv, Around
<1>2. /\ UNCHANGED <<job, pc, loc, issue, revised, commits, source, target, moves>>
      /\ flight' \subseteq flight
      /\ meddled \subseteq meddled' /\ (r \notin Awaited => "late" \in meddled')
    BY DEF Land, Takes
<1>3. /\ pr'.text = r.text /\ pr'.state # "none"
      /\ \/ r.kind = "edit" /\ pr'.state = pr.state /\ pr'.head = pr.head /\ pr'.merged = pr.merged
         \/ /\ r.kind = "create" /\ pr'.state = "OPEN"
            /\ pr.state = "MERGED" => r \in Awaited
    <2>1. CASE r.kind = "create"
        <3>1. /\ pr' = [NoPr EXCEPT !.state = "OPEN", !.text = r.text]
              /\ r \in Awaited \/ pr.state = "none"
            BY <2>1 DEF Land, Takes, Accepts
        <3>2. QED
            BY <2>1, <3>1 DEF NoPr
    <2>2. CASE r.kind = "edit"
        <3>1. pr' = [pr EXCEPT !.text = r.text] /\ pr.state # "none"
            BY <2>2 DEF Land, Takes, Accepts
        <3>2. QED
            BY <1>1, <2>2, <3>1 DEF Hub
    <2>3. QED
        BY <2>1, <2>2
<1>4. r \in Awaited =>
        /\ pc = "confirm" /\ r.text = job.write.text
        /\ r.kind = "create" => job.write.prior = None
        /\ r.kind = "edit" => job.write.prior # None
    BY DEF Awaited, PushRequest, PrRequest, MergeRequest, CloseRequest, Request
<1>5. Evidence'
    BY <1>1, <1>2, <1>3 DEF Evidence, Still
<1>6. Pending(job, pc)'
    <2>1. SUFFICES ASSUME PrWritePending(job)' PROVE Pending(job, pc)'
        BY DEF Pending
    <2>2. PrWritePending(job)
        BY <1>2, <2>1 DEF PrWritePending
    <2>3. CASE r \in Awaited
        BY <1>1, <1>2, <1>3, <1>4, <2>2, <2>3 DEF Knows, Pending, Undisturbed, Open
    <2>4. CASE r \notin Awaited
        <3>1. ~Undisturbed'
            BY <1>2, <2>4 DEF Undisturbed, Moves
        <3>2. QED
            BY <1>1, <1>2, <2>2, <3>1 DEF Knows, Pending
    <2>5. QED
        BY <2>3, <2>4
<1>7. pr.state = "MERGED" /\ pr'.state # "MERGED" => pc \notin AfterMerge
    BY <1>3, <1>4 DEF AfterMerge, AtIssue
<1>8. /\ \/ pr'.state = pr.state \/ (pr.state # "MERGED" /\ pr'.state # "MERGED")
         \/ pr.state = "MERGED" /\ pr'.state = "OPEN" /\ pc \notin AfterMerge
      /\ pr'.head = pr.head \/ pr'.state # "MERGED"
      /\ pr'.merged = pr.merged \/ pr'.state # "MERGED"
    BY <1>3, <1>7
<1>9. QED
    BY <1>2, <1>3, <1>5, <1>6, <1>8, AsideKnows

\* A comment or a close of the issue is the Runner's, and is seen as such.
LEMMA LandIssueKnows ==
    ASSUME OInv, NEW r \in flight, Land(r), Hub', Accepts(r), r.kind \in {"comment", "close"}
    PROVE  Known
<1>1. CInv /\ Ordered /\ Evidence /\ Knows(job, pc, loc) /\ Hub
    BY DEF OInv, CInv, Around
<1>2. /\ UNCHANGED <<job, pc, loc, pr, revised, commits, source, target, moves>>
      /\ flight' \subseteq flight /\ meddled \subseteq meddled'
    BY DEF Land, Takes
<1>3. ASSUME "issue" \notin meddled'
      PROVE  issue'.events \in {<<>>, <<"us">>} /\ issue'.comment \in {-1, 0}
    <2>1. issue.events \in {<<>>, <<"us">>} /\ issue.comment \in {-1, 0}
          /\ (r.kind = "comment" => r.head = 0)
        BY <1>1, <1>2, <1>3 DEF Evidence
    <2>2. CASE r.kind = "comment"
        <3>1. issue' = [issue EXCEPT !.comment = r.head]
            BY <2>2 DEF Land, Takes
        <3>2. QED
            BY <1>1, <2>1, <2>2, <3>1 DEF Hub
    <2>3. CASE r.kind = "close"
        <3>1. issue' = [issue EXCEPT !.events = Append(@, "us")] /\ IssueOpen
            BY <2>3 DEF Land, Takes, Accepts
        <3>2. Len(<<"us">>) = 1 /\ 1 % 2 = 1
            OBVIOUS
        <3>3. issue.events = <<>>
            <4>1. SUFFICES ASSUME issue.events = <<"us">> PROVE FALSE
                BY <2>1
            <4>2. Len(issue.events) = 1
                BY <3>2, <4>1
            <4>3. Len(issue.events) % 2 = 0
                BY <3>1 DEF IssueOpen
            <4>4. 1 % 2 = 0
                BY <4>2, <4>3
            <4>5. QED
                BY <3>2, <4>4
        <3>4. Append(<<>>, "us") = <<"us">>
            OBVIOUS
        <3>5. issue'.events = Append(issue.events, "us") /\ issue'.comment = issue.comment
            BY <1>1, <3>1 DEF Hub
        <3>6. QED
            BY <2>1, <3>3, <3>4, <3>5
    <2>4. QED
        BY <2>2, <2>3
<1>4. Evidence'
    BY <1>1, <1>2, <1>3 DEF Evidence, Still
<1>5. Pending(job, pc)'
    <2>1. Undisturbed' => Undisturbed
        BY <1>2 DEF Undisturbed
    <2>2. QED
        BY <1>1, <1>2, <2>1 DEF Knows, Pending, PrWritePending, Open
<1>6. job.pr => pr'.state # "none"
    BY <1>1, <1>2 DEF Knows, Fresh
<1>7. QED
    BY <1>2, <1>4, <1>5, <1>6, AsideKnows

\* A request arrives, and GitHub takes it or not.
LEMMA LandKnows ==
    ASSUME OInv, NEW r \in flight, Land(r)
    PROVE  Known
<1>1. Hub'
    BY LandAdvances DEF OInv, Advances, Around
<1>2. CASE ~Accepts(r)
    <2>1. /\ UNCHANGED <<commits, source, target, pr, issue, revised, meddled, moves>>
          /\ UNCHANGED <<job, pc, loc>> /\ flight' \subseteq flight
        BY <1>2 DEF Land
    <2>2. Knows(job, pc, loc)
        BY DEF OInv
    <2>3. Knows(job, pc, loc)
          /\ UNCHANGED <<remote, moves, meddled>> /\ job' = job /\ pc' = pc /\ loc' = loc
        BY <2>1, <2>2 DEF remote
    <2>4. Knows(job', pc', loc')
        BY <2>3
    <2>5. QED
        BY <2>1, <2>3, <2>4, QuietKnows
<1>3. CASE Accepts(r) /\ r.kind = "push"
    BY <1>1, <1>3, LandPushKnows, LandLateKnows
<1>4. CASE Accepts(r) /\ r.kind = "merge"
    BY <1>1, <1>4, LandMergeKnows, LandLateKnows
<1>5. CASE Accepts(r) /\ r.kind \in {"create", "edit"}
    BY <1>1, <1>5, LandPrKnows
<1>6. CASE Accepts(r) /\ r.kind \in {"comment", "close"}
    BY <1>1, <1>6, LandIssueKnows
<1>7. Accepts(r) => r.kind \in {"push", "create", "edit", "merge", "comment", "close"}
    BY DEF Accepts
<1>8. QED
    BY <1>2, <1>3, <1>4, <1>5, <1>6, <1>7

\* People change GitHub, and are known to have.
LEMMA PeopleKnows ==
    ASSUME OInv, People
    PROVE  Known
<1>1. CInv /\ Ordered /\ Evidence /\ Knows(job, pc, loc) /\ Hub
    BY DEF OInv, CInv, Around
<1>2. Hub'
    BY <1>1, PeopleAdvances DEF Advances, Around
<1>3. UNCHANGED <<job, pc, loc>> /\ flight' \subseteq flight /\ meddled \subseteq meddled'
    BY DEF People, PushSource, PushTarget, MergeByHand, TouchPr, TouchIssue, Revise, Meddle
<1>4. CASE PushSource
    <2>1. PICK e : /\ commits' = Append(commits, e)
                   /\ \/ e = Foreign(Lineage(source))
                      \/ e = Foreign({}) /\ "rewrite" \in meddled'
        BY <1>4 DEF PushSource, Meddle
    <2>2. Straight' => Lineage(source) \subseteq e.anc
        BY <2>1 DEF Straight, Foreign
    <2>3. /\ UNCHANGED <<target, pr, issue, revised>> /\ source' = Next1 /\ moves' = moves + 1
          /\ Moves \cap meddled' # {}
        BY <1>4 DEF PushSource, Meddle, Moves
    <2>4. Onward
        BY <1>1, <1>3, <2>1, <2>2, <2>3, AppendedOnward
    <2>5. QED
        BY <1>2, <1>3, <2>3, <2>4, MovedKnows
<1>5. CASE PushTarget
    <2> DEFINE e == Foreign(Lineage(target))
    <2>1. /\ commits' = Append(commits, e) /\ e.anc = Lineage(target)
          /\ UNCHANGED <<source, pr, issue, revised>> /\ target' = Next1 /\ moves' = moves + 1
          /\ Moves \cap meddled' # {}
        BY <1>5 DEF PushTarget, Meddle, Moves, Foreign
    <2> HIDE DEF e
    <2>2. Onward
        BY <1>1, <1>3, <2>1, AppendedOnward
    <2>3. QED
        BY <1>2, <1>3, <2>1, <2>2, MovedKnows
<1>6. CASE MergeByHand
    <2> DEFINE e == Squash("theirs", source)
    <2>1. /\ commits' = Append(commits, e) /\ e.anc = Lineage(target)
          /\ UNCHANGED <<source, issue, revised>> /\ target' = Next1 /\ moves' = moves + 1
          /\ pr' = [pr EXCEPT !.state = "MERGED", !.head = source, !.merged = Next1]
          /\ Moves \cap meddled' # {} /\ {"merge", "late"} \cap meddled' # {}
        BY <1>6 DEF MergeByHand, Meddle, Moves, Squash
    <2> HIDE DEF e
    <2>2. Onward
        BY <1>1, <1>3, <2>1, AppendedOnward
    <2>3. pr'.state = "MERGED"
        BY <1>1, <2>1 DEF Hub
    <2>4. QED
        BY <1>2, <1>3, <2>1, <2>2, <2>3, MovedKnows
<1>7. CASE TouchPr
    <2>1. /\ UNCHANGED <<commits, source, target, issue, revised, moves>> /\ pr.state = "OPEN"
          /\ \/ "close" \in meddled' /\ pr' = [pr EXCEPT !.state = "CLOSED", !.head = source]
             \/ "edit" \in meddled' /\ pr' = [pr EXCEPT !.text = Base]
        BY <1>7 DEF TouchPr, Open, Meddle
    <2>2. \/ "close" \in meddled' /\ pr'.state = "CLOSED"
          \/ "edit" \in meddled' /\ pr'.state = "OPEN"
        BY <1>1, <2>1 DEF Hub
    <2>3. Evidence'
        BY <1>1, <1>3, <2>1, <2>2 DEF Evidence, Still
    <2>4. Pending(job, pc)'
        <3>1. ~Undisturbed'
            BY <2>1 DEF Undisturbed
        <3>2. QED
            BY <1>1, <1>3, <3>1 DEF Knows, Pending, PrWritePending
    <2>5. QED
        BY <1>2, <1>3, <2>1, <2>2, <2>3, <2>4, AsideKnows
<1>8. CASE TouchIssue \/ Revise
    <2>1. /\ UNCHANGED <<commits, source, target, pr, moves>>
          /\ revised' => revised \/ "revise" \in meddled'
          /\ "issue" \notin meddled' => issue' = issue
        BY <1>8 DEF TouchIssue, Revise, Meddle
    <2>2. Evidence'
        BY <1>1, <1>3, <2>1 DEF Evidence, Still
    <2>3. Undisturbed' => Undisturbed
        BY <1>3 DEF Undisturbed
    <2>4. Pending(job, pc)'
        BY <1>1, <1>3, <2>1, <2>3 DEF Knows, Pending, PrWritePending, Open
    <2>5. job.pr => pr'.state # "none"
        BY <1>1, <2>1 DEF Knows, Fresh
    <2>6. QED
        BY <1>2, <1>3, <2>1, <2>2, <2>4, <2>5, AsideKnows
<1>9. QED
    BY <1>4, <1>5, <1>6, <1>7, <1>8 DEF People

----------------------------------------------------------------------------
(* The theorem *)

\* The invariant holds at first: nothing was observed, and nobody did anything.
LEMMA InitKnows == Init => OInv
<1> SUFFICES ASSUME Init PROVE OInv
    OBVIOUS
<1>1. CInv
    BY InitSettles
<1>2. meddled = {} /\ moves = 0 /\ flight = {} /\ pc = "idle" /\ loc = NoLoc
    BY DEF Init
<1>3. Evidence
    BY <1>2 DEF Init, Evidence, NoPr
<1>4. Ordered
    BY <1>2 DEF Init, Ordered, Lineage
<1>5. Formed(job) /\ Explained(job)
    BY DEF Init, Formed, Explained, NoWindow, NoRecord, NoWrite, NoMerge, None
<1>6. Rooted(job)
    BY DEF Init, Rooted, Observed, Integrates, Publishes, NoRecord
<1>7. Fresh(job, pc)
    BY DEF Init, Fresh, ToAccept, NoClose
<1>8. OwnMerge(job, pc) /\ Owed(job, pc)
    BY <1>2 DEF Init, OwnMerge, Owed, Deviates, NoPr, NoWindow
<1>9. Ways(job, pc, loc) /\ Stands(job, pc, loc) /\ Pending(job, pc)
    BY <1>2 DEF Init, Ways, Stands, Pending, PrWritePending, Gating, NoLoc, NoWrite
<1>10. QED
    BY <1>1, <1>3, <1>4, <1>5, <1>6, <1>7, <1>8, <1>9 DEF OInv, Knows

\* Every step keeps what the Job knows.
LEMMA StepKnows == OInv /\ [Next]_vars => OInv'
<1>1. OInv /\ [Next]_vars => CInv'
    BY StepSettles DEF OInv
<1> SUFFICES ASSUME OInv, [Next]_vars PROVE Known
    BY <1>1 DEF OInv, Known
<1>2. CASE Lane
    BY <1>2, EngineKnows, ObserveKnows, IntegrateKnows, PublishKnows, EnterKnows, PushKnows,
       ProposeKnows, CheckKnows, MergedKnows, PrepareKnows, CloseKnows DEF Lane
<1>3. CASE TimeOut \/ Resume \/ Interrupted \/ \E r \in flight : Lose(r)
    BY <1>3, EngineKnows, FaultKnows
<1>4. CASE GitHub \/ People
    BY <1>4, LandKnows, PeopleKnows DEF GitHub
<1>5. CASE UNCHANGED vars
    <2>1. UNCHANGED <<remote, moves, meddled>> /\ flight' \subseteq flight
          /\ job' = job /\ pc' = pc /\ loc' = loc
        BY <1>5 DEF vars, remote
    <2>2. Knows(job, pc, loc)
        BY DEF OInv
    <2>3. Knows(job', pc', loc')
        BY <2>1, <2>2
    <2>4. QED
        BY <2>1, <2>3, QuietKnows
<1>6. QED
    BY <1>2, <1>3, <1>4, <1>5 DEF Next, Over

\* A delivery is blocked, and a re-integration charged, only for what people did
\* or for a request that landed when nobody waited for it any more: the Runner
\* takes none of its own writes for somebody else's.
THEOREM OwnWritesSafe == Spec => []OwnWritesKnown
<1>1. OInv => OwnWritesKnown
    BY DEF OInv, Knows, Explained, Caused, Innocent, Owed, OwnWritesKnown
<1>2. OInv /\ [Next]_vars => OInv'
    BY StepKnows
<1>3. QED
    BY InitKnows, <1>1, <1>2, PTL DEF Spec
=============================================================================
