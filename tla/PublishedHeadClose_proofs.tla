-------------------- MODULE PublishedHeadClose_proofs ---------------------
(* The merge that closes the Ticket, for any number of changes, faults,      *)
(* repairs and resumes: a Ticket is closed for the delivery on record, a     *)
(* delivery is completed by the Runner's own close, a pull request that is   *)
(* over is not replaced, and each request in flight that nobody waits for    *)
(* cost a fault.                                                             *)
EXTENDS PublishedHead_proofs, SequenceTheorems, FiniteSetTheorems

----------------------------------------------------------------------------
(* The invariant *)

Resumable == {"ticket_execution_failed", "ticket_supervision_timeout"}
Phases == Active \cup Settled \cup {"developing", "repairing", "escalating"}
AtIssue == {"prepare", "commented", "close", "dispatch", "closed"}
ByUs == \E i \in DOMAIN issue.events : issue.events[i] = "us"

\* What GitHub holds.
Hub ==
    /\ source \in Commits /\ target \in Commits
    /\ pr \in [state : {"none", "OPEN", "CLOSED", "MERGED"}, text : Nat, head : Nat, merged : Nat]
    /\ pr.merged \in Commits \cup {None} /\ (pr.merged # None) = (pr.state = "MERGED")
    /\ pr.state = "MERGED" => commits[pr.merged].src = pr.head
    /\ Open => pr.text # None
    /\ issue \in [events : Seq({"us", "them"}), comment : Nat \cup {-1}]

\* What a request carries.
Carries(r) ==
    /\ r.kind = "push" => r.head \in Commits
    /\ r.kind \in {"create", "edit"} => r.text \in Nat \ {None}
    /\ r.kind = "comment" => r.head \in Nat
Flights == \A r \in flight : Carries(r)

\* Every request in flight that nobody waits for cost a fault.
Bound ==
    /\ faults \in Nat /\ IsFiniteSet(flight)
    /\ Cardinality(flight) <= faults + (IF Answered THEN 0 ELSE 1)

\* The fields of the Job, and the commits it names.
Shaped(j) ==
    /\ IsJob(j)
    /\ {"reason", "cand", "published", "integrated", "write", "close", "record",
        "pr", "waiting", "window"} \subseteq DOMAIN j
    /\ {"kind", "head", "prior", "text"} \subseteq DOMAIN j.write
    /\ j.close \in [baseline : Nat \cup {-1}, sent : BOOLEAN]
Named(j) ==
    /\ {j.pub, j.published, j.integrated} \subseteq Commits \cup {None}
    /\ j.phase \in Phases
    /\ j.phase = "blocked" /\ j.reason \in Resumable => j.resume \in Phases \ Settled
    /\ Owes(j) => j.pub \in Commits /\ commits[j.pub].cand = j.cand

\* The merge that the Job records is of its publication, on the target it was
\* made for, and is the one GitHub shows.
Delivered(j) ==
    /\ pr.state = "MERGED" /\ j.integrated = pr.merged
    /\ commits[pr.merged].src = j.pub /\ commits[pr.merged].tgt = j.record.tgt
    /\ j.pub \in Commits /\ commits[j.pub].cand = j.cand

\* The Job is past its merge, or would be after a Resume.
Past(j) ==
    \/ j.phase \in {"merged", "completed"}
    \/ j.phase = "blocked" /\ j.reason \in Resumable /\ j.resume = "merged"
\* From its merge on, and once its close is prepared, the Job is delivered; it
\* does not leave that part of the delivery again.
Sealed(j) ==
    Past(j) \/ j.close # NoClose =>
        /\ Delivered(j) /\ j.pr
        /\ Past(j) \/ (j.phase = "blocked" /\ j.reason \notin Resumable)

\* What the place of the lane says of the Job and of GitHub.
Where(j, p, l) ==
    /\ "integrated" \in DOMAIN l
    /\ p \in {"sync", "after"} =>
         pr.state = "MERGED" /\ l.integrated = pr.merged /\ j.pr
    /\ p \in {"live", "checks", "gate", "final", "attempt", "merge", "merged"} => j.pr
    /\ p \in AtIssue => j.phase = "merged"
    /\ j.phase = "merged" => p \in {"idle", "enter", "sync", "after"} \cup AtIssue
    /\ p \in {"close", "dispatch", "closed"} => j.close # NoClose
    /\ p \in {"dispatch", "closed"} => j.close.sent
    /\ p = "commented" => j.close = NoClose

\* A request to create a pull request is made where there was none.
FirstPr(j, p) ==
    p \in {"propose", "confirm"} =>
        /\ j.write.text = j.pub
        /\ \/ j.write.prior # None
           \/ p = "confirm" /\ Request("create", j.pub, None, j.write.text) \notin flight
           \/ pr.state = "none" \/ "late" \in meddled

\* A close that was sent is on record, and completes the Job only when made.
Closing(j) ==
    /\ j.close = NoClose \/ j.close.baseline \in Nat
    /\ ByUs \/ (\E r \in flight : r.kind = "close") => j.close.sent
    /\ j.phase = "completed" => j.close.sent /\ ByUs

Sound(j) == Shaped(j) /\ Named(j) /\ Sealed(j) /\ Closing(j)
Settling(j, p, l) == Sound(j) /\ Where(j, p, l) /\ FirstPr(j, p)

Around == Hub /\ Flights /\ Bound
CInv == IInv /\ Around /\ Settling(job, pc, loc)

\* One step: what it keeps, and the two things no step does.
OwnClose ==
    job.phase # "completed" /\ job'.phase = "completed"
        => SubSeq(issue.events, job.close.baseline + 1, Len(issue.events)) = <<"us">>
NoReplacement ==
    pr.state \in {"CLOSED", "MERGED"} /\ pr'.state # pr.state => "late" \in meddled'
Advances ==
    Around' /\ Settling(job, pc, loc)' /\ OwnClose /\ NoReplacement

----------------------------------------------------------------------------
(* The Job *)

\* What counts of the Job is the same, except that the pull request may be
\* recorded and the publication be noted as pushed.
Like(j, k) ==
    /\ Shaped(k)
    /\ k.phase = j.phase /\ k.reason = j.reason /\ k.resume = j.resume
    /\ k.cand = j.cand /\ k.pub = j.pub /\ k.integrated = j.integrated
    /\ k.record = j.record /\ k.close = j.close
    /\ j.pr => k.pr
    /\ k.published \in {j.published, j.pub}

LEMMA LikeSound ==
    ASSUME NEW j, NEW k, Sound(j), Like(j, k)
    PROVE  Sound(k)
<1>1. Named(k)
    BY DEF Sound, Like, Named, Owes
<1>2. Sealed(k)
    BY DEF Sound, Like, Sealed, Past, Delivered
<1>3. Closing(k)
    BY DEF Sound, Like, Closing
<1>4. QED
    BY <1>1, <1>2, <1>3 DEF Like, Sound

\* A lane that waits changes nothing that counts.
LEMMA WaitsSound ==
    ASSUME NEW j, Sound(j)
    PROVE  Sound(Waits(j))
<1>1. Like(j, Waits(j))
    BY DEF Sound, Shaped, IsJob, Like, Waits
<1>2. QED
    BY <1>1, LikeSound

\* A Job that is blocked may be resumed where it was.
LEMMA BlockedSound ==
    ASSUME NEW j, NEW code, Sound(j), j.phase \notin Settled
    PROVE  Sound(Blocked(j, code))
<1> DEFINE k == Blocked(j, code)
<1>1. /\ Shaped(k) /\ k.phase = "blocked" /\ k.reason = code /\ k.resume = j.phase
      /\ k.cand = j.cand /\ k.pub = j.pub /\ k.integrated = j.integrated
      /\ k.record = j.record /\ k.close = j.close /\ k.pr = j.pr
      /\ k.published = j.published
    BY DEF Sound, Shaped, IsJob, Blocked, Ends
<1> HIDE DEF k
<1>2. Named(k)
    BY <1>1 DEF Sound, Named, Owes, Phases, Settled, Active, Delivering
<1>3. Sealed(k)
    BY <1>1 DEF Sound, Sealed, Past, Delivered, Settled
<1>4. Closing(k)
    BY <1>1 DEF Sound, Closing
<1>5. QED
    BY <1>1, <1>2, <1>3, <1>4 DEF k, Sound

\* A Job may be ended for good inside the gate.
LEMMA EndsSound ==
    ASSUME NEW j, NEW code, code \notin Resumable, Sound(j), j.phase \in Delivering
    PROVE  Sound(Ends(j, code))
<1> DEFINE k == Ends(j, code)
<1>1. /\ Shaped(k) /\ k.phase = "blocked" /\ k.reason = code /\ k.resume = j.resume
      /\ k.cand = j.cand /\ k.pub = j.pub /\ k.integrated = j.integrated
      /\ k.record = j.record /\ k.close = j.close /\ k.pr = j.pr
      /\ k.published = j.published
    BY DEF Sound, Shaped, IsJob, Ends
<1> HIDE DEF k
<1>2. Named(k)
    BY <1>1 DEF Sound, Named, Owes, Phases, Settled
<1>3. Sealed(k)
    BY <1>1 DEF Sound, Sealed, Past, Delivered
<1>4. Closing(k)
    BY <1>1 DEF Sound, Closing
<1>5. QED
    BY <1>1, <1>2, <1>3, <1>4 DEF k, Sound

\* A boundary may be dropped before the merge.
LEMMA InvalidatedSound ==
    ASSUME NEW j, Sound(j), j.phase \notin Settled \cup {"merged"}
    PROVE  Sound(Invalidated(j)) /\ Invalidated(j).phase = "accepted"
<1> DEFINE k == Invalidated(j)
<1>1. /\ Shaped(k) /\ k.phase = "accepted" /\ k.pub = None
      /\ k.integrated = j.integrated /\ k.close = j.close /\ k.published = j.published
    BY DEF Sound, Shaped, IsJob, Invalidated, NoMerge, NoWrite
<1> HIDE DEF k
<1>2. Named(k)
    BY <1>1 DEF Sound, Named, Owes, Phases, Active, Delivering
<1>3. j.close = NoClose
    BY DEF Sound, Sealed, Past, Settled
<1>4. Sealed(k) /\ Closing(k)
    BY <1>1, <1>3 DEF Sound, Sealed, Past, Closing
<1>5. QED
    BY <1>1, <1>2, <1>4 DEF k, Sound

----------------------------------------------------------------------------
(* The steps of the lane *)

\* What the lane waits for depends on its place and on the Job.
Waiting == {"pushed", "confirm", "merged", "commented", "closed"}

\* A lane that waits for nothing has its answer.
LEMMA NotWaiting ==
    ASSUME pc \notin Waiting
    PROVE  Answered
BY DEF Waiting, Answered, Awaited

\* A step that reads keeps what is around the lane, and completes a delivery
\* only of the Runner's own close.
LEMMA ReadAdvances ==
    ASSUME CInv, Answered, NEW j, NEW p, Then(j, p), Settling(j, p, loc'),
           job.phase # "completed" /\ j.phase = "completed" =>
              SubSeq(issue.events, job.close.baseline + 1, Len(issue.events)) = <<"us">>
    PROVE  Advances
<1> USE DEF Then, remote, history, budgets
<1>1. (Hub /\ Flights)'
    BY DEF CInv, Around, Hub, Flights, Carries, Commits, Open
<1>2. Bound'
    <2>1. IsFiniteSet(flight) /\ faults \in Nat /\ Cardinality(flight) <= faults
        BY DEF CInv, Around, Bound
    <2>2. Cardinality(flight) \in Nat
        BY <2>1, FS_CardinalityType
    <2>3. QED
        BY <2>1, <2>2 DEF Bound
<1>3. Settling(job, pc, loc)'
    BY DEF Settling, Sound, Shaped, IsJob, Named, Owes, Sealed, Past, Delivered, Closing, ByUs,
           Where, FirstPr, Commits
<1>4. QED
    BY <1>1, <1>2, <1>3 DEF Around, Advances, OwnClose, NoReplacement

\* A lane that is idle tells nothing but the Job.
LEMMA IdleSettles ==
    ASSUME NEW j, Sound(j), NEW l, "integrated" \in DOMAIN l
    PROVE  Settling(j, "idle", l)
BY DEF Settling, Where, FirstPr, AtIssue

\* A lane may stop with a Job that is sound.
LEMMA StopAdvances ==
    ASSUME CInv, Answered, NEW j, Stops(j), Sound(j), j.phase # "completed"
    PROVE  Advances
<1>1. Then(j, "idle") /\ "integrated" \in DOMAIN loc'
    BY DEF Stops, NoLoc
<1>2. Settling(j, "idle", loc')
    BY <1>1, IdleSettles
<1>3. QED
    BY <1>1, <1>2, ReadAdvances

\* The Job while a lane is at work.
LEMMA AtWork ==
    ASSUME CInv, pc # "idle"
    PROVE  /\ Sound(job) /\ job.phase \notin Settled \cup {"blocked"}
           /\ pc \in Boundary => job.phase = "accepted"
           /\ pc \notin Boundary => job.phase \in Delivering
           /\ job.phase = "merged" => pc \in {"enter", "sync", "after"} \cup AtIssue
BY DEF CInv, Settling, Where, IInv, Fits, Placed, Boundary, Delivering, Settled, AtIssue

\* A lane at work may stop with the Job as it is, waiting, or blocked, and
\* with its boundary dropped before the merge.
LEMMA GivesUp ==
    ASSUME CInv, Answered, pc # "idle", NEW code,
           \/ Stops(job) \/ Stops(Waits(job)) \/ Stops(Blocked(job, code))
           \/ Stops(Invalidated(job)) /\ job.phase # "merged"
    PROVE  Advances
<1>1. Sound(job) /\ job.phase \notin Settled
    BY AtWork
<1>2. CASE Stops(job)
    BY <1>1, <1>2, StopAdvances DEF Settled
<1>3. CASE Stops(Waits(job))
    <2>1. Sound(Waits(job)) /\ Waits(job).phase = job.phase
        BY <1>1, WaitsSound DEF Waits, Sound, Shaped, IsJob
    <2>2. QED
        BY <1>1, <1>3, <2>1, StopAdvances DEF Settled
<1>4. CASE Stops(Blocked(job, code))
    <2>1. Sound(Blocked(job, code)) /\ Blocked(job, code).phase = "blocked"
        BY <1>1, BlockedSound DEF Blocked, Ends, Sound, Shaped, IsJob
    <2>2. QED
        BY <1>4, <2>1, StopAdvances
<1>5. CASE Stops(Invalidated(job)) /\ job.phase # "merged"
    <2>1. Sound(Invalidated(job)) /\ Invalidated(job).phase = "accepted"
        BY <1>1, <1>5, InvalidatedSound
    <2>2. QED
        BY <1>5, <2>1, StopAdvances
<1>6. QED
    BY <1>2, <1>3, <1>4, <1>5

\* A lane at work may go on with a Job that is alike.
LEMMA GoesOn ==
    ASSUME CInv, Answered, pc # "idle", NEW k, Like(job, k), NEW p, Then(k, p),
           Where(k, p, loc'), FirstPr(k, p)
    PROVE  Advances
<1>1. Sound(job) /\ job.phase \notin Settled
    BY AtWork
<1>2. Settling(k, p, loc')
    BY <1>1, LikeSound DEF Settling
<1>3. k.phase # "completed"
    BY <1>1 DEF Like, Settled
<1>4. QED
    BY <1>2, <1>3, ReadAdvances

\* A Job is like itself.
LEMMA LikeSelf ==
    ASSUME NEW j, Sound(j)
    PROVE  Like(j, j)
BY DEF Sound, Like

\* A lane at work may send a request that it then waits for.
LEMMA SendAdvances ==
    ASSUME CInv, pc \notin Waiting \cup {"idle"}, NEW r, NEW p, Sends(r, p),
           Carries(r), r \in Awaited',
           Where(job, p, loc), r.kind = "close" => job.close.sent,
           p = "confirm" => FirstPr(job, pc) /\ pc = "propose" /\ r = PrRequest
    PROVE  Advances
<1> USE DEF Sends, remote, budgets
<1>1. (Hub /\ Flights)'
    BY DEF CInv, Around, Hub, Flights, Carries, Commits, Open
<1>2. Bound'
    <2>1. IsFiniteSet(flight) /\ faults \in Nat /\ Cardinality(flight) <= faults
        BY NotWaiting DEF CInv, Around, Bound
    <2>2. IsFiniteSet(flight') /\ Cardinality(flight') <= Cardinality(flight) + 1
          /\ Cardinality(flight) \in Nat /\ Cardinality(flight') \in Nat
        <3>1. flight' = flight \cup {r}
            OBVIOUS
        <3>2. /\ IsFiniteSet(flight \cup {r})
              /\ Cardinality(flight \cup {r}) =
                    IF r \in flight THEN Cardinality(flight) ELSE Cardinality(flight) + 1
            BY <2>1, FS_AddElement
        <3>3. Cardinality(flight) \in Nat
            BY <2>1, FS_CardinalityType
        <3>4. QED
            BY <3>1, <3>2, <3>3
    <2>3. ~Answered'
        BY DEF Answered
    <2>4. QED
        BY <2>1, <2>2, <2>3 DEF Bound
<1>3. Sound(job)'
    <2>1. Sound(job)
        BY DEF CInv, Settling
    <2>2. Closing(job)'
        BY <2>1 DEF Sound, Closing, ByUs
    <2>3. QED
        BY <2>1, <2>2
        DEF Sound, Shaped, IsJob, Named, Owes, Sealed, Past, Delivered, Commits
<1>4. FirstPr(job, pc)'
    <2>1. CASE p = "confirm"
        <3>1. FirstPr(job, pc) /\ pc = "propose" /\ pc' = "confirm"
            BY <2>1
        <3>2. QED
            BY <3>1 DEF FirstPr
    <2>2. CASE p # "confirm"
        <3>1. p # "propose"
            BY <2>2 DEF Awaited
        <3>2. QED
            BY <2>2, <3>1 DEF FirstPr
    <2>3. QED
        BY <2>1, <2>2
<1>5. Where(job, pc, loc)'
    BY DEF Where, AtIssue
<1>6. QED
    BY <1>1, <1>2, <1>3, <1>4, <1>5
    DEF Around, Settling, Advances, OwnClose, NoReplacement

\* Before the merge and outside the gate, only the close and the commits count.
LEMMA EarlySound ==
    ASSUME NEW j, Sound(j), j.phase \notin Settled \cup {"merged"}, NEW k, Shaped(k),
           k.phase \in {"accepted", "developing", "repairing", "escalating"},
           k.close = j.close, k.pub \in {j.pub, None}, k.published = j.published,
           k.integrated = j.integrated
    PROVE  Sound(k)
<1>1. Named(k)
    BY DEF Sound, Named, Owes, Phases, Active, Delivering
<1>2. j.close = NoClose
    BY DEF Sound, Sealed, Past, Settled
<1>3. Sealed(k) /\ Closing(k)
    BY <1>2 DEF Sound, Sealed, Past, Closing
<1>4. QED
    BY <1>1, <1>3 DEF Sound

\* Steps between two stages of the delivery.
LEMMA EngineAdvances ==
    ASSUME CInv, SettlePrWrite \/ Begin \/ Develop \/ Escalate \/ TimeOut
    PROVE  Advances
<1>1. pc = "idle" /\ Answered /\ Sound(job) /\ job.phase \notin Settled
    BY NotWaiting
    DEF CInv, Settling, SettlePrWrite, Begin, Develop, Escalate, TimeOut, Waiting, Active, Settled
<1>2. ASSUME NEW code, Stops(Blocked(job, code)) PROVE Advances
    <2>1. Sound(Blocked(job, code)) /\ Blocked(job, code).phase = "blocked"
        BY <1>1, BlockedSound DEF Blocked, Ends, Sound, Shaped, IsJob
    <2>2. QED
        BY <1>1, <1>2, <2>1, StopAdvances
<1>3. ASSUME NEW k, Like(job, k), Goes(k, Entry(job.phase)), job.phase \in Active
      PROVE  Advances
    <2>1. Sound(k) /\ k.phase = job.phase
        BY <1>1, <1>3, LikeSound DEF Like
    <2>2. Settling(k, Entry(job.phase), loc')
        BY <1>3, <2>1 DEF CInv, Settling, Where, FirstPr, Entry, AtIssue, Goes
    <2>3. QED
        BY <1>1, <1>3, <2>1, <2>2, ReadAdvances DEF Settled, Goes
<1>4. CASE SettlePrWrite
    <2> DEFINE seen == PrWriteSeen(job.write)
               k == [job EXCEPT !.write = NoWrite, !.waiting = FALSE,
                                !.pr = @ \/ seen # "absent"]
    <2>1. Like(job, k)
        BY <1>1 DEF Like, Sound, Shaped, IsJob, NoWrite
    <2>2. \/ Stops(Blocked(job, "change_pr_write_reconciliation_pending"))
          \/ Goes(k, Entry(job.phase)) /\ job.phase \in Active
        BY <1>4 DEF SettlePrWrite
    <2>3. QED
        BY <1>2, <1>3, <2>1, <2>2
<1>5. CASE Begin
    <2> DEFINE k == [job EXCEPT !.waiting = FALSE]
    <2>1. Like(job, k)
        BY <1>1 DEF Like, Sound, Shaped, IsJob
    <2>2. Goes(k, Entry(job.phase)) /\ job.phase \in Active
        BY <1>5 DEF Begin
    <2>3. QED
        BY <1>3, <2>1, <2>2
<1>6. CASE Develop
    <2> DEFINE k == [job EXCEPT !.phase = "accepted", !.cand = @ + 1]
    <2>1. /\ Shaped(k) /\ k.phase = "accepted" /\ k.close = job.close /\ k.pub = job.pub
          /\ k.published = job.published /\ k.integrated = job.integrated
        BY <1>1 DEF Sound, Shaped, IsJob
    <2>2. job.phase # "merged"
        BY <1>6 DEF Develop
    <2>3. Sound(k)
        BY <1>1, <2>1, <2>2, EarlySound
    <2>4. Stops(Blocked(job, "effective_revision_mismatch")) \/ Stops(k)
        BY <1>6 DEF Develop
    <2>5. QED
        BY <1>1, <1>2, <2>1, <2>3, <2>4, StopAdvances
<1>7. CASE Escalate \/ TimeOut
    BY <1>2, <1>7 DEF Escalate, TimeOut
<1>8. QED
    BY <1>4, <1>5, <1>6, <1>7

\* Steps of the integration with the live heads, up to the publication.
LEMMA IntegrationAdvances ==
    ASSUME CInv, Observe \/ Integrate \/ Recheck \/ Discard
    PROVE  Advances
<1>1. pc \in Boundary /\ pc # "idle" /\ Answered
    BY NotWaiting DEF Observe, Integrate, Recheck, Discard, Boundary, Waiting
<1>2. Sound(job) /\ job.phase = "accepted" /\ Like(job, job)
    BY <1>1, AtWork, LikeSelf
<1>3. ASSUME NEW k, Shaped(k), k.phase = "accepted", k.close = job.close,
             k.pub \in {job.pub, None}, k.published = job.published,
             k.integrated = job.integrated, NEW p \in Boundary, Goes(k, p)
      PROVE  Advances
    <2>1. Sound(k)
        BY <1>2, <1>3, EarlySound DEF Settled
    <2>2. Settling(k, p, loc')
        BY <1>3, <2>1 DEF CInv, Settling, Where, FirstPr, Boundary, AtIssue, Goes
    <2>3. QED
        BY <1>1, <1>3, <2>2, ReadAdvances DEF Goes
<1>4. ASSUME Goes(job, "publication") PROVE Advances
    BY <1>2, <1>3, <1>4 DEF Boundary, Like
<1>5. CASE Observe
    <2> DEFINE k == Reopened(job, source, target)
    <2>1. /\ Shaped(k) /\ k.phase = "accepted" /\ k.close = job.close
          /\ k.pub \in {job.pub, None} /\ k.published = job.published
          /\ k.integrated = job.integrated
        <3>1. /\ Shaped(Invalidated(job)) /\ Invalidated(job).phase = "accepted"
              /\ Invalidated(job).close = job.close /\ Invalidated(job).pub = None
              /\ Invalidated(job).published = job.published
              /\ Invalidated(job).integrated = job.integrated
            BY <1>2 DEF Invalidated, Sound, Shaped, IsJob, NoMerge, NoWrite
        <3>2. QED
            BY <1>2, <3>1 DEF Reopened, Sound, Shaped, IsJob
    <2>2. \/ Stops(Blocked(job, "integration_history_rewritten"))
          \/ Goes(job, "publication")
          \/ Stops(Blocked(Invalidated(job), "integration_resync_exhausted"))
          \/ Goes(k, "integrate")
        BY <1>5 DEF Observe
    <2>3. CASE Stops(Blocked(Invalidated(job), "integration_resync_exhausted"))
        <3> DEFINE i == Invalidated(job)
        <3>1. Sound(i) /\ i.phase = "accepted"
            BY <1>2, InvalidatedSound DEF Settled
        <3> HIDE DEF i
        <3>2. Sound(Blocked(i, "integration_resync_exhausted"))
              /\ Blocked(i, "integration_resync_exhausted").phase = "blocked"
            BY <3>1, BlockedSound DEF Settled, Blocked, Ends, Sound, Shaped, IsJob
        <3>3. Stops(Blocked(i, "integration_resync_exhausted"))
            BY <2>3 DEF i
        <3>4. QED
            BY <1>1, <3>2, <3>3, StopAdvances
    <2> HIDE DEF k
    <2>4. CASE Goes(k, "integrate")
        BY <1>3, <2>1, <2>4 DEF Boundary
    <2>5. QED
        BY <1>1, <1>4, <2>2, <2>3, <2>4, GivesUp
<1>6. CASE Integrate
    <2> DEFINE record == [cand |-> job.cand, src |-> job.window.src, tgt |-> job.window.tgt]
               k == [job EXCEPT !.record = record, !.window.open = FALSE]
    <2>1. /\ Shaped(k) /\ k.phase = "accepted" /\ k.close = job.close /\ k.pub = job.pub
          /\ k.published = job.published /\ k.integrated = job.integrated
        BY <1>2 DEF Sound, Shaped, IsJob
    <2>2. Goes(k, "recheck")
        BY <1>6 DEF Integrate
    <2>3. QED
        BY <1>3, <2>1, <2>2 DEF Boundary
<1>7. CASE Recheck
    <2>1. Goes(job, "publication") \/ Stops(Invalidated(job))
        BY <1>7 DEF Recheck
    <2>2. QED
        BY <1>1, <1>2, <1>4, <2>1, GivesUp
<1>8. CASE Discard
    <2> DEFINE k == [job EXCEPT !.phase = "developing"]
    <2>1. /\ Shaped(k) /\ k.phase = "developing" /\ k.close = job.close /\ k.pub = job.pub
          /\ k.published = job.published /\ k.integrated = job.integrated
        BY <1>2 DEF Sound, Shaped, IsJob
    <2>2. Sound(k)
        BY <1>2, <2>1, EarlySound DEF Settled
    <2>3. Stops(k)
        BY <1>8 DEF Discard
    <2>4. QED
        BY <1>1, <2>1, <2>2, <2>3, StopAdvances
<1>9. QED
    BY <1>5, <1>6, <1>7, <1>8

\* The commits there are keep their number and their content.
Kept(n) == n \in Commits' /\ commits'[n] = commits[n]
LEMMA CommitsGrow ==
    ASSUME IInv, NEW e, commits' = Append(commits, e)
    PROVE  /\ \A c \in Commits : Kept(c)
           /\ Next1 \in Commits' /\ commits'[Next1] = e
           /\ Next1 \in Nat /\ Next1 # None /\ Commits \subseteq Nat \ {None}
<1>1. PICK S : commits \in Seq(S)
    BY DEF IInv, Recorded
<1>2. /\ Len(commits') = Len(commits) + 1 /\ Len(commits) \in Nat
      /\ \A i \in 1 .. Len(commits) : commits'[i] = commits[i]
      /\ commits'[Len(commits) + 1] = e
    BY <1>1, AppendFacts
<1>3. QED
    BY <1>2 DEF Commits, Next1, Kept, None

\* A publication commit is made for the candidate.
LEMMA PublishAdvances ==
    ASSUME CInv, Publish
    PROVE  Advances
<1>1. pc = "publication" /\ pc' = "idle" /\ Answered
    BY NotWaiting DEF Publish, Waiting
<1>2. Sound(job) /\ job.phase = "accepted" /\ Hub /\ Flights /\ Bound /\ IInv
    BY <1>1, AtWork DEF Boundary, CInv, Around
<1> DEFINE e == Publication(job.cand, job.record.src, job.record.tgt)
<1>3. commits' = Append(commits, e) /\ e.cand = job.cand
    BY DEF Publish, Publication
<1> HIDE DEF e
<1>4. /\ \A c \in Commits : Kept(c)
      /\ Next1 \in Commits' /\ commits'[Next1] = e
    BY <1>2, <1>3, CommitsGrow
<1>5. UNCHANGED <<source, target, pr, issue, flight, meddled, faults>>
    BY DEF Publish, budgets
<1>6. Hub'
    BY <1>2, <1>4, <1>5 DEF Hub, Kept, Open, None
<1>7. Flights'
    BY <1>2, <1>4, <1>5 DEF Flights, Carries, Kept
<1>8. Bound'
    <2>1. IsFiniteSet(flight) /\ faults \in Nat /\ Cardinality(flight) <= faults
        BY <1>1, <1>2 DEF Bound
    <2>2. Cardinality(flight) \in Nat
        BY <2>1, FS_CardinalityType
    <2>3. QED
        BY <1>5, <2>1, <2>2 DEF Bound
<1>9. /\ Shaped(job)' /\ job'.phase = "publishing" /\ job'.pub = Next1
      /\ job'.cand = job.cand /\ job'.published = job.published
      /\ job'.integrated = job.integrated /\ job'.close = job.close
    BY <1>2 DEF Publish, Sound, Shaped, IsJob
<1>10. Named(job)'
    BY <1>2, <1>3, <1>4, <1>9 DEF Sound, Named, Owes, Delivering, Phases, Active, Kept
<1>11. job.close = NoClose
    BY <1>2 DEF Sound, Sealed, Past
<1>12. Sealed(job)' /\ Closing(job)'
    BY <1>2, <1>5, <1>9, <1>11 DEF Sound, Sealed, Past, Closing, ByUs
<1>13. Where(job, pc, loc)' /\ FirstPr(job, pc)'
    BY <1>1 DEF Where, FirstPr, AtIssue, Publish, NoLoc
<1>14. QED
    BY <1>5, <1>6, <1>7, <1>8, <1>9, <1>10, <1>12, <1>13
    DEF Sound, Settling, Around, Advances, OwnClose, NoReplacement


\* Every stage of the gate begins with a look at the pull request.
LEMMA EnterAdvances ==
    ASSUME CInv, Enter
    PROVE  Advances
<1>1. pc = "enter" /\ Answered
    BY NotWaiting DEF Enter, Waiting
<1>2. Sound(job) /\ Like(job, job) /\ job.phase \in Delivering
    BY <1>1, AtWork, LikeSelf DEF Boundary
<1>3. "integrated" \in DOMAIN loc
    BY DEF CInv, Settling, Where
<1>4. job.phase = "merged" => job.pr /\ pr.state = "MERGED"
    BY <1>2 DEF Sound, Sealed, Past, Delivered
<1>5. \/ \E code : Stops(Blocked(job, code))
      \/ Then(job, "heads") /\ job.phase # "merged" /\ "integrated" \in DOMAIN loc'
      \/ /\ Then(job, "sync") /\ job.pr /\ pr.state = "MERGED"
         /\ "integrated" \in DOMAIN loc' /\ loc'.integrated = pr.merged
    <2>1. CASE revised /\ job.phase \notin {"merging", "merged"}
        BY <2>1 DEF Enter
    <2>2. CASE ~(revised /\ job.phase \notin {"merging", "merged"}) /\ ~job.pr
        BY <1>3, <1>4, <2>2 DEF Enter, Goes
    <2>3. CASE ~(revised /\ job.phase \notin {"merging", "merged"}) /\ job.pr
        <3>1. \/ ReadMerged
              \/ pr.state = "CLOSED" /\ Stops(Blocked(job, "ticket_pr_closed_unmerged"))
              \/ /\ Open /\ Then(job, "heads")
                 /\ loc' = [loc EXCEPT !.head = source, !.base = target]
            BY <2>3 DEF Enter
        <3>2. CASE ReadMerged
            BY <1>3, <2>3, <3>2 DEF ReadMerged
        <3>3. CASE Open /\ Then(job, "heads")
                   /\ loc' = [loc EXCEPT !.head = source, !.base = target]
            BY <1>3, <1>4, <3>3 DEF Open
        <3>4. QED
            BY <3>1, <3>2, <3>3
    <2>4. QED
        BY <2>1, <2>2, <2>3
<1>6. CASE Then(job, "heads") /\ job.phase # "merged" /\ "integrated" \in DOMAIN loc'
    <2>1. Where(job, "heads", loc') /\ FirstPr(job, "heads")
        BY <1>6 DEF Where, FirstPr, AtIssue
    <2>2. QED
        BY <1>1, <1>2, <1>6, <2>1, GoesOn
<1>7. CASE /\ Then(job, "sync") /\ job.pr /\ pr.state = "MERGED"
           /\ "integrated" \in DOMAIN loc' /\ loc'.integrated = pr.merged
    <2>1. Where(job, "sync", loc') /\ FirstPr(job, "sync")
        BY <1>7 DEF Where, FirstPr, AtIssue
    <2>2. QED
        BY <1>1, <1>2, <1>7, <2>1, GoesOn
<1>8. QED
    BY <1>1, <1>5, <1>6, <1>7, GivesUp

\* Steps of the gate up to the push.
LEMMA PushAdvances ==
    ASSUME CInv, Heads \/ Verify \/ SendPush \/ Pushed \/ SettlePush
    PROVE  Advances
<1>1. /\ pc \in {"heads", "verify", "push", "pushed", "settle"} /\ Answered
      /\ pc \notin Boundary \cup {"idle"}
    BY NotWaiting DEF Heads, Verify, SendPush, Pushed, SettlePush, Waiting, Boundary
<1>2. Sound(job) /\ Like(job, job) /\ job.phase \in Delivering /\ job.phase # "merged"
    BY <1>1, AtWork, LikeSelf DEF AtIssue
<1>3. "integrated" \in DOMAIN loc
    BY DEF CInv, Settling, Where
<1>4. ASSUME NEW k, Like(job, k), NEW p \in {"verify", "settle", "push", "intend"},
             Then(k, p), "integrated" \in DOMAIN loc'
      PROVE  Advances
    <2>1. Where(k, p, loc') /\ FirstPr(k, p)
        BY <1>2, <1>4 DEF Where, FirstPr, AtIssue, Like
    <2>2. QED
        BY <1>1, <1>4, <2>1, GoesOn
<1>5. CASE Heads
    <2>1. \/ Stops(Invalidated(job)) \/ \E code : Stops(Blocked(job, code))
          \/ Then(job, "verify") /\ "integrated" \in DOMAIN loc'
        BY <1>3, <1>5 DEF Heads
    <2>2. QED
        BY <1>1, <1>2, <1>4, <2>1, GivesUp
<1>6. CASE Verify
    <2> DEFINE k == [job EXCEPT !.write = RefIntent(job)]
    <2>1. Like(job, k)
        BY <1>2 DEF Like, Sound, Shaped, IsJob, RefIntent
    <2>2. \/ Stops(Invalidated(job)) \/ Stops(Waits(job))
          \/ \E code : Stops(Blocked(job, code))
          \/ Goes(job, "settle") \/ Goes(k, "push")
        BY <1>6 DEF Verify, Fails
    <2>3. QED
        BY <1>1, <1>2, <1>3, <1>4, <2>1, <2>2, GivesUp DEF Goes
<1>7. CASE SendPush
    <2>1. Sends(PushRequest, "pushed") /\ pc = "push"
        BY <1>7 DEF SendPush
    <2>2. PushRequest.kind = "push" /\ PushRequest.head = job.pub
        BY DEF PushRequest, Request
    <2>3. Carries(PushRequest)
        BY <1>2, <2>2 DEF Carries, Sound, Named, Owes
    <2>4. PushRequest \in Awaited'
        BY <2>1 DEF Awaited, Sends, PushRequest
    <2>5. Where(job, "pushed", loc)
        BY <1>2, <1>3 DEF Where, AtIssue
    <2>6. QED
        BY <2>1, <2>2, <2>3, <2>4, <2>5, SendAdvances DEF Waiting
<1>8. CASE Pushed
    <2>1. Stops(Invalidated(job)) \/ Stops(Waits(job)) \/ Goes(job, "settle")
        BY <1>8 DEF Pushed
    <2>2. QED
        BY <1>1, <1>2, <1>3, <1>4, <2>1, GivesUp DEF Goes
<1>9. CASE SettlePush
    <2> DEFINE k == [job EXCEPT !.write = IF @ = RefIntent(job) THEN NoWrite ELSE @,
                                !.published = job.pub]
    <2>1. Like(job, k)
        BY <1>2 DEF Like, Sound, Shaped, IsJob, NoWrite
    <2>2. Goes(k, "intend")
        BY <1>9 DEF SettlePush
    <2>3. QED
        BY <1>3, <1>4, <2>1, <2>2 DEF Goes
<1>10. QED
    BY <1>5, <1>6, <1>7, <1>8, <1>9

\* Steps that propose the pull request.
LEMMA ProposeAdvances ==
    ASSUME CInv, Intend \/ Ensure \/ SendPr \/ Confirm
    PROVE  Advances
<1>1. /\ pc \in {"intend", "ensure", "propose", "confirm"} /\ Answered
      /\ pc \notin Boundary \cup {"idle"}
    BY NotWaiting DEF Intend, Ensure, SendPr, Confirm, Waiting, Boundary
<1>2. Sound(job) /\ Like(job, job) /\ job.phase \in Delivering /\ job.phase # "merged"
    BY <1>1, AtWork, LikeSelf DEF AtIssue
<1>3. "integrated" \in DOMAIN loc
    BY DEF CInv, Settling, Where
<1>4. CASE Intend
    <2> DEFINE k == [job EXCEPT !.write = [NoWrite EXCEPT !.kind = "pr", !.head = job.pub]]
    <2>1. Like(job, k)
        BY <1>2 DEF Like, Sound, Shaped, IsJob, NoWrite
    <2>2. Stops(Blocked(job, Stale)) \/ Goes(k, "ensure")
        BY <1>4 DEF Intend
    <2> HIDE DEF k
    <2>3. CASE Goes(k, "ensure")
        <3>1. Where(k, "ensure", loc') /\ FirstPr(k, "ensure")
            BY <1>2, <1>3, <2>1, <2>3 DEF Where, FirstPr, AtIssue, Like, Goes
        <3>2. QED
            BY <1>1, <2>1, <2>3, <3>1, GoesOn DEF Goes
    <2>4. QED
        BY <1>1, <2>2, <2>3, GivesUp
<1>5. CASE Ensure
    <2> DEFINE k == [job EXCEPT !.write.prior = IF Open THEN pr.text ELSE None,
                                !.write.text = job.pub]
    <2>1. /\ Like(job, k) /\ k.write.text = job.pub
          /\ k.write.prior = (IF Open THEN pr.text ELSE None)
        BY <1>2 DEF Like, Sound, Shaped, IsJob
    <2>2. \/ Stops(Waits(job)) \/ \E code : Stops(Blocked(job, code))
          \/ (Goes(k, "confirm") \/ Goes(k, "propose")) /\ ~Gone
        BY <1>5 DEF Ensure, Fails
    <2> HIDE DEF k
    <2>3. ASSUME NEW p \in {"confirm", "propose"}, Goes(k, p), ~Gone PROVE Advances
        <3>1. pr.state \in {"none", "OPEN"} /\ (Open => pr.text # None)
            BY <2>3 DEF Gone, CInv, Around, Hub
        <3>2. FirstPr(k, p)
            BY <2>1, <3>1 DEF FirstPr, Like, Open
        <3>3. Where(k, p, loc')
            BY <1>2, <1>3, <2>1, <2>3 DEF Where, AtIssue, Like, Goes
        <3>4. QED
            BY <1>1, <2>1, <2>3, <3>2, <3>3, GoesOn DEF Goes
    <2>4. QED
        BY <1>1, <2>2, <2>3, GivesUp
<1>6. CASE SendPr
    <2>1. Sends(PrRequest, "confirm") /\ pc = "propose"
        BY <1>6 DEF SendPr
    <2>2. PrRequest.kind \in {"create", "edit"} /\ PrRequest.text = job.write.text
        BY DEF PrRequest, Request
    <2>3. FirstPr(job, pc)
        BY DEF CInv, Settling
    <2>4. job.write.text = job.pub /\ job.pub \in Commits
        BY <1>2, <2>1, <2>3 DEF FirstPr, Sound, Named, Owes
    <2>5. Carries(PrRequest)
        <3>1. PICK S : commits \in Seq(S)
            BY DEF CInv, IInv, Recorded
        <3>2. Commits \subseteq Nat \ {None}
            BY <3>1 DEF Commits, None
        <3>3. QED
            BY <2>2, <2>4, <3>2 DEF Carries
    <2>6. PrRequest \in Awaited'
        BY <2>1 DEF Awaited, Sends, PrRequest
    <2>7. Where(job, "confirm", loc)
        BY <1>2, <1>3 DEF Where, AtIssue
    <2>8. QED
        BY <2>1, <2>2, <2>3, <2>5, <2>6, <2>7, SendAdvances DEF Waiting
<1>7. CASE Confirm
    <2> DEFINE k == [job EXCEPT !.write = NoWrite, !.pr = TRUE]
    <2>1. Like(job, k) /\ k.pr
        BY <1>2 DEF Like, Sound, Shaped, IsJob, NoWrite
    <2>2. \/ Stops(Waits(job)) \/ \E code : Stops(Blocked(job, code))
          \/ Goes(k, "live")
        BY <1>7 DEF Confirm
    <2> HIDE DEF k
    <2>3. CASE Goes(k, "live")
        <3>1. Where(k, "live", loc') /\ FirstPr(k, "live")
            BY <1>2, <1>3, <2>1, <2>3 DEF Where, FirstPr, AtIssue, Like, Goes
        <3>2. QED
            BY <1>1, <2>1, <2>3, <3>1, GoesOn DEF Goes
    <2>4. QED
        BY <1>1, <2>2, <2>3, GivesUp
<1>8. QED
    BY <1>4, <1>5, <1>6, <1>7

\* Steps of the gate itself, and up to the merge.
LEMMA CheckAdvances ==
    ASSUME CInv, Live \/ Checks \/ Gate \/ Final \/ Attempt \/ SendMerge \/ Merged
    PROVE  Advances
<1>1. /\ pc \in {"live", "checks", "gate", "final", "attempt", "merge", "merged"} /\ Answered
      /\ pc \notin Boundary \cup {"idle"}
    BY NotWaiting DEF Live, Checks, Gate, Final, Attempt, SendMerge, Merged, Waiting, Boundary
<1>2. Sound(job) /\ Like(job, job) /\ job.phase \in Delivering /\ job.phase # "merged"
    BY <1>1, AtWork, LikeSelf DEF AtIssue
<1>3. job.pr /\ "integrated" \in DOMAIN loc
    BY <1>1 DEF CInv, Settling, Where
<1>4. ASSUME NEW k, Like(job, k), Goes(k, pc'), pc' \in {"checks", "gate", "final", "merge"}
      PROVE  Advances
    <2>1. Where(k, pc', loc') /\ FirstPr(k, pc')
        BY <1>2, <1>3, <1>4 DEF Where, FirstPr, AtIssue, Like, Goes
    <2>2. QED
        BY <1>1, <1>4, <2>1, GoesOn DEF Goes
<1>5. CASE Live
    <2>1. \/ \E code : Stops(Blocked(job, code))
          \/ Goes(job, "checks")
        BY <1>5 DEF Live
    <2>2. QED
        BY <1>1, <1>2, <1>4, <2>1, GivesUp DEF Goes, Then
<1>6. CASE Checks
    <2> DEFINE Phase(p) == [job EXCEPT !.phase = p]
    <2>1. ASSUME NEW p
          PROVE  /\ Shaped(Phase(p)) /\ Phase(p).phase = p /\ Phase(p).close = job.close
                 /\ Phase(p).pub = job.pub /\ Phase(p).published = job.published
                 /\ Phase(p).integrated = job.integrated /\ Phase(p).cand = job.cand
        BY <1>2 DEF Sound, Shaped, IsJob
    <2>2. job.close = NoClose
        BY <1>2 DEF Sound, Sealed, Past, Delivering
    <2>3. CASE Stops(Waits(Phase("waiting_checks")))
        <3> DEFINE j == Phase("waiting_checks")
        <3>1. /\ Shaped(j) /\ j.phase = "waiting_checks" /\ j.close = job.close
              /\ j.pub = job.pub /\ j.published = job.published
              /\ j.integrated = job.integrated /\ j.cand = job.cand
            BY <2>1
        <3> HIDE DEF j
        <3>2. Named(j)
            BY <1>2, <3>1 DEF Sound, Named, Owes, Phases, Active
        <3>3. Sealed(j) /\ Closing(j)
            BY <1>2, <2>2, <3>1 DEF Sound, Sealed, Past, Closing
        <3>4. Sound(j)
            BY <3>1, <3>2, <3>3 DEF Sound
        <3>5. Sound(Waits(j)) /\ Waits(j).phase = "waiting_checks"
            BY <3>1, <3>4, WaitsSound DEF Waits, Shaped, IsJob
        <3>6. Stops(Waits(j))
            BY <2>3 DEF j
        <3>7. QED
            BY <1>1, <3>5, <3>6, StopAdvances
    <2>4. ASSUME NEW p \in {"repairing", "escalating"}, Stops(Phase(p)) PROVE Advances
        <3>1. Sound(Phase(p))
            BY <1>2, <2>1, EarlySound DEF Delivering, Settled
        <3>2. Phase(p).phase # "completed"
            BY <2>1
        <3>3. QED
            BY <1>1, <2>4, <3>1, <3>2, StopAdvances
    <2>5. \/ \E code : Stops(Blocked(job, code))
          \/ Goes(job, "gate")
          \/ Stops(Waits(Phase("waiting_checks")))
          \/ Stops(Phase("repairing")) \/ Stops(Phase("escalating"))
        BY <1>6 DEF Checks
    <2>6. QED
        BY <1>1, <1>2, <1>4, <2>3, <2>4, <2>5, GivesUp DEF Goes, Then
<1>7. CASE Gate
    <2>1. \/ \E code : Stops(Blocked(job, code))
          \/ Goes(job, "final")
        BY <1>7 DEF Gate
    <2>2. QED
        BY <1>1, <1>2, <1>4, <2>1, GivesUp DEF Goes, Then
<1>8. CASE Final
    <2> DEFINE k == [job EXCEPT !.phase = "merging",
                                !.merge = IF @ = NoMerge THEN MergeIntent ELSE @]
               goes == /\ job' = k /\ pc' = "attempt"
                       /\ UNCHANGED <<remote, flight, loc, budgets>>
                       /\ UNCHANGED <<sends, moves, meddled>>
    <2>1. \/ Stops(Invalidated(job)) \/ \E code : Stops(Blocked(job, code))
          \/ goes
        BY <1>8 DEF Final
    <2>2. CASE goes
        <3>1. /\ Shaped(k) /\ k.phase = "merging" /\ k.close = job.close
              /\ k.pub = job.pub /\ k.published = job.published /\ k.pr = job.pr
              /\ k.integrated = job.integrated /\ k.cand = job.cand
            <4>1. "tries" \in DOMAIN NoMerge /\ "tries" \in DOMAIN MergeIntent
                BY DEF NoMerge, MergeIntent
            <4>2. QED
                BY <1>2, <4>1 DEF Sound, Shaped, IsJob
        <3>2. job.close = NoClose
            BY <1>2 DEF Sound, Sealed, Past, Delivering
        <3> HIDE DEF k
        <3>3. Named(k)
            BY <1>2, <3>1 DEF Sound, Named, Owes, Phases, Active
        <3>4. Sealed(k) /\ Closing(k)
            BY <1>2, <3>1, <3>2 DEF Sound, Sealed, Past, Closing
        <3>5. Where(k, "attempt", loc) /\ FirstPr(k, "attempt")
            BY <1>3, <3>1 DEF Where, FirstPr, AtIssue
        <3>6. Settling(k, "attempt", loc)
            BY <3>1, <3>3, <3>4, <3>5 DEF Sound, Settling
        <3>7. Settling(job, pc, loc)'
            BY <2>2, <3>6
            DEF Settling, Sound, Shaped, IsJob, Named, Owes, Sealed, Past, Delivered, Closing,
                ByUs, Where, FirstPr, Commits, remote
        <3>8. (Hub /\ Flights)'
            BY <2>2 DEF CInv, Around, Hub, Flights, Carries, Commits, Open, remote
        <3>9. Bound'
            <4>1. IsFiniteSet(flight) /\ faults \in Nat /\ Cardinality(flight) <= faults
                BY <1>1 DEF CInv, Around, Bound
            <4>2. Cardinality(flight) \in Nat
                BY <4>1, FS_CardinalityType
            <4>3. faults' = faults /\ flight' = flight
                BY <2>2 DEF budgets
            <4>4. QED
                BY <4>1, <4>2, <4>3 DEF Bound
        <3>10. OwnClose /\ NoReplacement
            BY <2>2, <3>1 DEF OwnClose, NoReplacement, remote
        <3>11. QED
            BY <3>7, <3>8, <3>9, <3>10 DEF Around, Advances
    <2>3. QED
        BY <1>1, <1>2, <2>1, <2>2, GivesUp
<1>9. CASE Attempt
    <2>1. Like(job, Attempted(job))
        BY <1>2 DEF Like, Sound, Shaped, IsJob, Attempted
    <2>2. Stops(Waits(job)) \/ Goes(Attempted(job), "merge")
        BY <1>9 DEF Attempt
    <2>3. QED
        BY <1>1, <1>4, <2>1, <2>2, GivesUp DEF Goes, Then
<1>10. CASE SendMerge
    <2>1. Sends(MergeRequest, "merged") /\ pc = "merge"
        BY <1>10 DEF SendMerge
    <2>2. MergeRequest.kind = "merge"
        BY DEF MergeRequest, Request
    <2>3. MergeRequest \in Awaited'
        BY <2>1 DEF Awaited, Sends, MergeRequest
    <2>4. Where(job, "merged", loc)
        BY <1>2, <1>3 DEF Where, AtIssue
    <2>5. QED
        BY <2>1, <2>2, <2>3, <2>4, SendAdvances DEF Waiting, Carries
<1>11. CASE Merged
    <2> DEFINE k == [job EXCEPT !.integrated = pr.merged]
    <2>1. \/ Stops(Waits(job))
          \/ /\ pr.state = "MERGED" /\ Then(k, "sync")
             /\ loc' = [loc EXCEPT !.integrated = pr.merged]
        BY <1>11 DEF Merged
    <2>2. CASE /\ pr.state = "MERGED" /\ Then(k, "sync")
               /\ loc' = [loc EXCEPT !.integrated = pr.merged]
        <3>1. /\ Shaped(k) /\ k.phase = job.phase /\ k.close = job.close
              /\ k.pub = job.pub /\ k.published = job.published /\ k.pr = job.pr
              /\ k.integrated = pr.merged /\ k.cand = job.cand
            BY <1>2 DEF Sound, Shaped, IsJob
        <3>2. pr.merged \in Commits \cup {None}
            BY DEF CInv, Around, Hub
        <3>3. job.close = NoClose
            BY <1>2 DEF Sound, Sealed, Past, Delivering
        <3> HIDE DEF k
        <3>4. Named(k)
            BY <1>2, <3>1, <3>2 DEF Sound, Named, Owes, Delivering
        <3>5. Sealed(k) /\ Closing(k)
            BY <1>2, <3>1, <3>3 DEF Sound, Sealed, Past, Closing, Delivering
        <3>6. Where(k, "sync", loc') /\ FirstPr(k, "sync")
            BY <1>3, <2>2, <3>1 DEF Where, FirstPr, AtIssue
        <3>7. Settling(k, "sync", loc')
            BY <3>1, <3>4, <3>5, <3>6 DEF Sound, Settling
        <3>8. k.phase # "completed"
            BY <1>2, <3>1 DEF Delivering
        <3>9. QED
            BY <1>1, <2>2, <3>7, <3>8, ReadAdvances
    <2>3. QED
        BY <1>1, <2>1, <2>2, GivesUp
<1>12. QED
    BY <1>5, <1>6, <1>7, <1>8, <1>9, <1>10, <1>11

----------------------------------------------------------------------------
(* The end of the delivery *)

\* A part of a sequence that is one element holds an element of the sequence.
LEMMA OnePart ==
    ASSUME NEW S, NEW q \in Seq(S), NEW b \in Nat, NEW x,
           SubSeq(q, b + 1, Len(q)) = <<x>>
    PROVE  \E i \in DOMAIN q : q[i] = x
<1> DEFINE t == SubSeq(q, b + 1, Len(q))
<1>1. Len(q) \in Nat /\ DOMAIN q = 1 .. Len(q) /\ b + 1 \in Int
    OBVIOUS
<1>2. \A i \in b + 1 .. Len(q) : q[i] \in S
    BY <1>1
<1>3. /\ Len(t) = IF b + 1 <= Len(q) THEN Len(q) - (b + 1) + 1 ELSE 0
      /\ \A i \in 1 .. Len(q) - (b + 1) + 1 : t[i] = q[b + 1 + i - 1]
    BY <1>1, <1>2, SubSeqProperties
<1>4. t = <<x>>
    OBVIOUS
<1> HIDE DEF t
<1>5. Len(t) = 1 /\ t[1] = x
    BY <1>4
<1>6. b + 1 \in 1 .. Len(q) /\ Len(q) - (b + 1) + 1 = 1
    <2>1. 1 = IF b + 1 <= Len(q) THEN Len(q) - (b + 1) + 1 ELSE 0
        BY <1>3, <1>5
    <2>2. b + 1 <= Len(q)
        BY <2>1
    <2>3. Len(q) \in Nat /\ 1 = Len(q) - (b + 1) + 1
        BY <1>1, <2>1, <2>2
    <2>4. QED
        BY <2>2, <2>3
<1>7. t[1] = q[b + 1]
    BY <1>1, <1>3, <1>6
<1>8. QED
    BY <1>1, <1>5, <1>6, <1>7

\* The Run Branch is brought up to the merge, which is compared with what was
\* published.
LEMMA MergedAdvances ==
    ASSUME CInv, Sync \/ After
    PROVE  Advances
<1>1. /\ pc \in {"sync", "after"} /\ Answered
      /\ pc \notin Boundary \cup {"idle"}
    BY NotWaiting DEF Sync, After, Waiting, Boundary
<1>2. Sound(job) /\ Like(job, job) /\ job.phase \in Delivering
    BY <1>1, AtWork, LikeSelf
<1>3. /\ job.pr /\ "integrated" \in DOMAIN loc
      /\ pr.state = "MERGED" /\ loc.integrated = pr.merged
    BY <1>1 DEF CInv, Settling, Where
<1>4. Hub
    BY DEF CInv, Around
<1>5. CASE Sync
    <2>1. \/ Stops(Waits(job)) \/ \E code : Stops(Blocked(job, code))
          \/ Goes(job, "after")
        BY <1>5 DEF Sync, Fails
    <2>2. CASE Goes(job, "after")
        <3>1. Where(job, "after", loc') /\ FirstPr(job, "after")
            BY <1>3, <2>2 DEF Where, FirstPr, AtIssue, Goes
        <3>2. QED
            BY <1>1, <1>2, <2>2, <3>1, GoesOn DEF Goes
    <2>3. QED
        BY <1>1, <2>1, <2>2, GivesUp
<1>6. CASE After
    <2> DEFINE j == [job EXCEPT !.integrated = loc.integrated]
               k == [j EXCEPT !.phase = "merged"]
    <2>1. /\ Shaped(j) /\ j.phase = job.phase /\ j.reason = job.reason
          /\ j.resume = job.resume /\ j.close = job.close /\ j.cand = job.cand
          /\ j.pub = job.pub /\ j.published = job.published /\ j.pr = job.pr
          /\ j.record = job.record /\ j.integrated = pr.merged
        BY <1>2, <1>3 DEF Sound, Shaped, IsJob
    <2>2. \/ Stops(Ends(j, "merged_result_mismatch"))
          \/ Stops(Ends(j, "merged_revision_mismatch"))
          \/ Goes(k, "prepare") /\ Exact(j, loc.integrated)
        BY <1>6 DEF After
    <2>3. /\ Shaped(k) /\ k.phase = "merged" /\ k.close = j.close /\ k.cand = j.cand
          /\ k.pub = j.pub /\ k.published = j.published /\ k.pr = j.pr
          /\ k.record = j.record /\ k.integrated = j.integrated
        <3> HIDE DEF j
        <3>1. QED
            BY <2>1 DEF Shaped, IsJob
    <2> HIDE DEF j, k
    <2>4. Named(j)
        BY <1>2, <1>4, <2>1 DEF Sound, Named, Owes, Hub, Delivering
    <2>5. Sealed(j) /\ Closing(j)
        BY <1>2, <2>1 DEF Sound, Sealed, Past, Delivered, Closing, Delivering
    <2>6. ASSUME NEW code, code \notin Resumable, Stops(Ends(j, code)) PROVE Advances
        <3>1. Sound(j) /\ j.phase \in Delivering
            BY <1>2, <2>1, <2>4, <2>5 DEF Sound
        <3>2. Sound(Ends(j, code)) /\ Ends(j, code).phase = "blocked"
            BY <2>6, <3>1, EndsSound DEF Ends, Sound, Shaped, IsJob
        <3>3. QED
            BY <1>1, <2>6, <3>2, StopAdvances
    <2>7. CASE Goes(k, "prepare") /\ Exact(j, loc.integrated)
        <3>1. job.pub \in Commits /\ commits[job.pub].cand = job.cand
            BY <1>2 DEF Sound, Named, Owes
        <3>2. Delivered(k)
            BY <1>3, <1>4, <2>1, <2>3, <2>7, <3>1 DEF Delivered, Exact, Hub
        <3>3. Named(k)
            BY <2>1, <2>3, <2>4, <3>1 DEF Named, Owes, Phases, Active
        <3>4. Sealed(k) /\ Closing(k)
            BY <1>2, <1>3, <2>1, <2>3, <3>2 DEF Sound, Sealed, Past, Closing
        <3>5. Where(k, "prepare", loc') /\ FirstPr(k, "prepare")
            BY <1>3, <2>3, <2>7 DEF Where, FirstPr, AtIssue, Goes
        <3>6. Settling(k, "prepare", loc') /\ k.phase # "completed"
            BY <2>3, <3>3, <3>4, <3>5 DEF Sound, Settling
        <3>7. QED
            BY <1>1, <2>7, <3>6, ReadAdvances DEF Goes
    <2>8. QED
        BY <2>2, <2>6, <2>7 DEF Resumable
<1>7. QED
    BY <1>5, <1>6

\* The comment that binds the close is found or made.
LEMMA PrepareAdvances ==
    ASSUME CInv, Prepare \/ Commented
    PROVE  Advances
<1>1. /\ pc \in {"prepare", "commented"} /\ Answered
      /\ pc \notin Boundary \cup {"idle"}
    BY NotWaiting DEF Prepare, Commented, Waiting, Boundary
<1>2. Sound(job) /\ Like(job, job) /\ job.phase = "merged" /\ job.phase \in Delivering
      /\ "integrated" \in DOMAIN loc
    BY <1>1, AtWork, LikeSelf DEF CInv, Settling, Where, AtIssue
<1>3. issue.comment \in Nat \cup {-1} /\ Len(issue.events) \in Nat
    BY DEF CInv, Around, Hub
<1>4. ASSUME Goes(Prepared(job), "close"), job.close = NoClose, issue.comment >= 0
      PROVE  Advances
    <2> DEFINE k == Prepared(job)
    <2>1. /\ Shaped(k) /\ k.phase = job.phase /\ k.reason = job.reason
          /\ k.resume = job.resume /\ k.cand = job.cand /\ k.pub = job.pub
          /\ k.published = job.published /\ k.pr = job.pr /\ k.record = job.record
          /\ k.integrated = job.integrated
          /\ k.close = [baseline |-> issue.comment, sent |-> FALSE]
        BY <1>2, <1>3 DEF Sound, Shaped, IsJob, Prepared
    <2> HIDE DEF k
    <2>2. k.close.baseline \in Nat /\ ~k.close.sent /\ k.close # NoClose
        BY <1>3, <1>4, <2>1 DEF NoClose
    <2>3. ~ByUs /\ ~\E r \in flight : r.kind = "close"
        BY <1>2, <1>4 DEF Sound, Closing, NoClose
    <2>4. Named(k)
        BY <1>2, <2>1 DEF Sound, Named, Owes
    <2>5. Sealed(k) /\ Closing(k)
        BY <1>2, <2>1, <2>2, <2>3 DEF Sound, Sealed, Past, Delivered, Closing
    <2>6. Where(k, "close", loc') /\ FirstPr(k, "close")
        BY <1>2, <1>4, <2>1, <2>2 DEF Where, FirstPr, AtIssue, Goes
    <2>7. Settling(k, "close", loc') /\ k.phase # "completed"
        BY <1>2, <2>1, <2>4, <2>5, <2>6 DEF Sound, Settling
    <2>8. Then(k, "close")
        BY <1>4 DEF Goes, k
    <2>9. QED
        BY <1>1, <2>7, <2>8, ReadAdvances
<1>5. CASE Prepare
    <2>1. \/ job.close # NoClose /\ Goes(job, "close")
          \/ Stops(Waits(job))
          \/ job.close = NoClose /\ issue.comment >= 0 /\ Goes(Prepared(job), "close")
          \/ job.close = NoClose /\ Sends(CommentRequest, "commented")
        BY <1>5 DEF Prepare
    <2>2. CASE job.close # NoClose /\ Goes(job, "close")
        <3>1. Where(job, "close", loc') /\ FirstPr(job, "close")
            BY <1>2, <2>2 DEF Where, FirstPr, AtIssue, Goes
        <3>2. QED
            BY <1>1, <1>2, <2>2, <3>1, GoesOn DEF Goes
    <2>3. CASE job.close = NoClose /\ Sends(CommentRequest, "commented")
        <3>1. CommentRequest.kind = "comment" /\ CommentRequest.head \in Nat
            BY <1>3 DEF CommentRequest, Request
        <3>2. Carries(CommentRequest)
            BY <3>1 DEF Carries
        <3>3. CommentRequest \in Awaited'
            BY <2>3, <3>1 DEF Awaited, Sends
        <3>4. Where(job, "commented", loc)
            BY <1>2, <2>3 DEF Where, AtIssue
        <3>5. pc \notin Waiting \cup {"idle"}
            BY <1>5 DEF Prepare, Waiting
        <3>6. QED
            BY <2>3, <3>1, <3>2, <3>3, <3>4, <3>5, SendAdvances
    <2>4. QED
        BY <1>1, <1>4, <2>1, <2>2, <2>3, GivesUp
<1>6. CASE Commented
    <2>1. job.close = NoClose
        BY <1>6 DEF Commented, CInv, Settling, Where
    <2>2. \/ issue.comment >= 0 /\ Goes(Prepared(job), "close")
          \/ Stops(Waits(job))
        BY <1>6 DEF Commented
    <2>3. QED
        BY <1>1, <1>4, <2>1, <2>2, GivesUp
<1>7. QED
    BY <1>5, <1>6

\* The close is sent once the Job says so, and completes the delivery only if
\* it is the one transition since the comment.
LEMMA CloseAdvances ==
    ASSUME CInv, Close \/ SendClose \/ Closed
    PROVE  Advances
<1>1. /\ pc \in {"close", "dispatch", "closed"} /\ Answered
      /\ pc \notin Boundary \cup {"idle"}
    BY NotWaiting DEF Close, SendClose, Closed, Waiting, Boundary
<1>2. Sound(job) /\ Like(job, job) /\ job.phase = "merged" /\ job.phase \in Delivering
      /\ "integrated" \in DOMAIN loc
    BY <1>1, AtWork, LikeSelf DEF CInv, Settling, Where, AtIssue
<1>3. job.close # NoClose /\ job.close.baseline \in Nat
    BY <1>1, <1>2 DEF CInv, Settling, Where, Sound, Closing
<1> DEFINE after == SubSeq(issue.events, job.close.baseline + 1, Len(issue.events))
<1>4. ASSUME Stops(Completed(job)), after = <<"us">> PROVE Advances
    <2> DEFINE k == Completed(job)
    <2>1. /\ Shaped(k) /\ k.phase = "completed" /\ k.reason = "none"
          /\ k.cand = job.cand /\ k.pub = job.pub /\ k.published = job.published
          /\ k.pr = job.pr /\ k.record = job.record /\ k.integrated = job.integrated
          /\ k.close = job.close
        BY <1>2 DEF Sound, Shaped, IsJob, Completed
    <2> HIDE DEF k
    <2>2. ByUs
        <3>1. issue.events \in Seq({"us", "them"})
            BY DEF CInv, Around, Hub
        <3>2. QED
            BY <1>3, <1>4, <3>1, OnePart DEF ByUs
    <2>3. Named(k)
        BY <1>2, <2>1 DEF Sound, Named, Owes, Phases, Settled, Delivering
    <2>4. Sealed(k) /\ Closing(k)
        BY <1>2, <2>1, <2>2 DEF Sound, Sealed, Past, Delivered, Closing
    <2>5. Sound(k)
        BY <2>1, <2>3, <2>4 DEF Sound
    <2>6. Then(k, "idle") /\ loc' = NoLoc
        BY <1>4 DEF Stops, k
    <2>7. Settling(k, "idle", loc')
        BY <2>5, <2>6, IdleSettles DEF NoLoc
    <2>8. QED
        BY <1>1, <1>4, <2>6, <2>7, ReadAdvances
<1>5. ASSUME Stops(Conflicted(job)) PROVE Advances
    <2>1. Sound(Conflicted(job)) /\ Conflicted(job).phase = "blocked"
        BY <1>2, EndsSound DEF Conflicted, Resumable, Ends, Sound, Shaped, IsJob
    <2>2. QED
        BY <1>1, <1>5, <2>1, StopAdvances
<1>6. CloseOwner(job.close.baseline) = "ours" => after = <<"us">>
    BY DEF CloseOwner
<1> HIDE DEF after
<1>7. CASE Close
    <2> DEFINE k == [job EXCEPT !.close.sent = TRUE]
    <2>1. \/ Stops(Completed(job)) /\ after = <<"us">>
          \/ Stops(Conflicted(job))
          \/ Goes(k, "dispatch")
        BY <1>6, <1>7 DEF Close
    <2>2. /\ Shaped(k) /\ k.phase = job.phase /\ k.reason = job.reason
          /\ k.resume = job.resume /\ k.cand = job.cand /\ k.pub = job.pub
          /\ k.published = job.published /\ k.pr = job.pr /\ k.record = job.record
          /\ k.integrated = job.integrated
          /\ k.close.sent /\ k.close.baseline = job.close.baseline
        BY <1>2 DEF Sound, Shaped, IsJob
    <2> HIDE DEF k
    <2>3. k.close # NoClose
        BY <2>2 DEF NoClose
    <2>4. Named(k)
        BY <1>2, <2>2 DEF Sound, Named, Owes
    <2>5. Sealed(k) /\ Closing(k)
        BY <1>2, <1>3, <2>2 DEF Sound, Sealed, Past, Delivered, Closing
    <2>6. CASE Goes(k, "dispatch")
        <3>1. Where(k, "dispatch", loc') /\ FirstPr(k, "dispatch")
            BY <1>2, <2>2, <2>3, <2>6 DEF Where, FirstPr, AtIssue, Goes
        <3>2. Settling(k, "dispatch", loc') /\ k.phase # "completed"
            BY <1>2, <2>2, <2>4, <2>5, <3>1 DEF Sound, Settling
        <3>3. QED
            BY <1>1, <2>6, <3>2, ReadAdvances DEF Goes
    <2>7. QED
        BY <1>4, <1>5, <2>1, <2>6
<1>8. CASE SendClose
    <2>1. Sends(CloseRequest, "closed") /\ pc = "dispatch"
        BY <1>8 DEF SendClose
    <2>2. CloseRequest.kind = "close"
        BY DEF CloseRequest, Request
    <2>3. CloseRequest \in Awaited'
        BY <2>1 DEF Awaited, Sends, CloseRequest
    <2>4. job.close.sent
        BY <2>1 DEF CInv, Settling, Where
    <2>5. Where(job, "closed", loc)
        BY <1>2, <1>3, <2>4 DEF Where, AtIssue
    <2>6. QED
        BY <2>1, <2>2, <2>3, <2>4, <2>5, SendAdvances DEF Waiting, Carries
<1>9. CASE Closed
    <2>1. \/ Stops(Completed(job)) /\ after = <<"us">>
          \/ Stops(Conflicted(job)) \/ Stops(Waits(job))
        BY <1>6, <1>9 DEF Closed
    <2>2. QED
        BY <1>1, <1>4, <1>5, <2>1, GivesUp
<1>10. QED
    BY <1>7, <1>8, <1>9

----------------------------------------------------------------------------
(* What happens around the lane *)

\* A step that leaves GitHub as it is, sends nothing, and completes nothing.
LEMMA QuietAdvances ==
    ASSUME CInv, UNCHANGED <<remote, meddled>>, flight' \subseteq flight, Bound',
           Settling(job', pc', loc'), job'.phase # "completed" \/ job.phase = "completed"
    PROVE  Advances
<1> USE DEF remote
<1>1. (Hub /\ Flights)'
    BY DEF CInv, Around, Hub, Flights, Carries, Commits, Open
<1>2. Closing(job)'
    BY DEF Settling, Sound, Closing, ByUs
<1>3. FirstPr(job, pc)'
    BY DEF Settling, FirstPr
<1>4. Settling(job, pc, loc)'
    BY <1>2, <1>3
    DEF Settling, Sound, Shaped, IsJob, Named, Owes, Sealed, Past, Delivered, Where, Commits
<1>5. QED
    BY <1>1, <1>4 DEF Around, Advances, OwnClose, NoReplacement

\* A fault pays for one more request that nobody waits for.
LEMMA FaultBound ==
    ASSUME CInv, flight' \subseteq flight, faults' = faults + 1
    PROVE  Bound'
<1>1. /\ faults \in Nat /\ IsFiniteSet(flight)
      /\ Cardinality(flight) <= faults + (IF Answered THEN 0 ELSE 1)
    BY DEF CInv, Around, Bound
<1>2. /\ IsFiniteSet(flight') /\ Cardinality(flight') <= Cardinality(flight)
      /\ Cardinality(flight) \in Nat /\ Cardinality(flight') \in Nat
    BY <1>1, FS_Subset, FS_CardinalityType
<1>3. Cardinality(flight) <= faults + 1
    BY <1>1, <1>2
<1>4. Cardinality(flight') <= faults' /\ faults' \in Nat
    BY <1>1, <1>2, <1>3
<1>5. QED
    BY <1>2, <1>4 DEF Bound

\* Interruptions, lost requests and Ticket Resumes.
LEMMA FaultAdvances ==
    ASSUME CInv, Interrupted \/ Resume \/ \E r \in flight : Lose(r)
    PROVE  Advances
<1>1. Sound(job) /\ "integrated" \in DOMAIN loc /\ Settling(job, pc, loc)
    BY DEF CInv, Settling, Where
<1>2. Sound(Waits(job)) /\ Waits(job).phase = job.phase
    BY <1>1, WaitsSound DEF Waits, Sound, Shaped, IsJob
<1>3. /\ Settling(job, "idle", NoLoc) /\ Settling(Waits(job), "idle", NoLoc)
    BY <1>1, <1>2, IdleSettles DEF NoLoc
<1>4. CASE Interrupted
    <2>1. /\ job' \in {job, Waits(job)} /\ pc' = "idle" /\ loc' = NoLoc
          /\ flight' = flight /\ faults' = faults + 1 /\ UNCHANGED <<remote, meddled>>
        BY <1>4 DEF Interrupted, history
    <2>2. Settling(job', pc', loc') /\ job'.phase = job.phase
        BY <1>2, <1>3, <2>1
    <2>3. Bound'
        BY <2>1, FaultBound
    <2>4. QED
        BY <2>1, <2>2, <2>3, QuietAdvances
<1>5. CASE Resume
    <2> DEFINE k == [job EXCEPT !.phase = job.resume, !.reason = "none", !.resume = "none"]
    <2>1. /\ pc = "idle" /\ job.phase = "blocked" /\ job.reason \in Resumable
          /\ job' = k /\ UNCHANGED <<remote, flight, pc, loc, meddled, faults>>
        BY <1>5 DEF Resume, history, Resumable
    <2>2. /\ Shaped(k) /\ k.phase = job.resume /\ k.reason = "none" /\ k.close = job.close
          /\ k.cand = job.cand /\ k.pub = job.pub /\ k.published = job.published
          /\ k.pr = job.pr /\ k.record = job.record /\ k.integrated = job.integrated
        BY <1>1 DEF Sound, Shaped, IsJob
    <2> HIDE DEF k
    <2>3. job.resume \in Phases \ Settled
        BY <1>1, <2>1 DEF Sound, Named
    <2>4. Named(k)
        BY <1>1, <2>1, <2>2, <2>3 DEF Sound, Named, Owes, Settled
    <2>5. Sealed(k)
        BY <1>1, <2>1, <2>2, <2>3 DEF Sound, Sealed, Past, Delivered, Settled
    <2>6. Closing(k) /\ k.phase # "completed"
        BY <1>1, <2>2, <2>3 DEF Sound, Closing, Settled
    <2>7. Settling(k, "idle", loc)
        BY <1>1, <2>2, <2>4, <2>5, <2>6, IdleSettles DEF Sound
    <2>8. Bound'
        <3>1. IsFiniteSet(flight) /\ faults \in Nat /\ Cardinality(flight) <= faults
            BY <2>1, NotWaiting DEF CInv, Around, Bound, Waiting
        <3>2. Cardinality(flight) \in Nat
            BY <3>1, FS_CardinalityType
        <3>3. QED
            BY <2>1, <3>1, <3>2 DEF Bound
    <2>9. QED
        BY <2>1, <2>6, <2>7, <2>8, QuietAdvances
<1>6. CASE \E r \in flight : Lose(r)
    <2>1. PICK r \in flight : Lose(r)
        BY <1>6
    <2>2. /\ faults' = faults + 1 /\ UNCHANGED <<remote, meddled>> /\ flight' \subseteq flight
          /\ \/ UNCHANGED <<job, pc, loc>>
             \/ job' = Waits(job) /\ pc' = "idle" /\ loc' = NoLoc
        BY <2>1 DEF Lose, history
    <2>3. Settling(job', pc', loc') /\ job'.phase = job.phase
        BY <1>1, <1>2, <1>3, <2>2
    <2>4. Bound'
        BY <2>2, FaultBound
    <2>5. QED
        BY <2>2, <2>3, <2>4, QuietAdvances
<1>7. QED
    BY <1>4, <1>5, <1>6

----------------------------------------------------------------------------
(* GitHub and its users *)

\* What GitHub changes keeps the Job sound while the merge stays, or while the
\* lane is where no merge is known.
LEMMA RemoteSettles ==
    ASSUME CInv, UNCHANGED <<job, pc, loc>>, \A c \in Commits : Kept(c),
           pc # "confirm" /\ pr.state = "MERGED" =>
              pr'.state = "MERGED" /\ pr'.merged = pr.merged,
           FirstPr(job, pc)', Closing(job)', Hub
    PROVE  Settling(job, pc, loc)'
<1>1. Sound(job) /\ Where(job, pc, loc)
    BY DEF CInv, Settling
<1>2. Named(job)'
    BY <1>1 DEF Sound, Named, Owes, Kept
<1>3. Sealed(job)'
    <2>1. CASE pc = "confirm"
        <3>1. job.phase \in Delivering \ {"merged"}
            BY <2>1, AtWork DEF Boundary, AtIssue
        <3>2. ~Past(job) /\ job.close = NoClose
            BY <1>1, <3>1 DEF Sound, Sealed, Past, Delivering
        <3>3. QED
            BY <3>2 DEF Sealed, Past
    <2>2. CASE pc # "confirm"
        <3>1. ASSUME Past(job) \/ job.close # NoClose
              PROVE  /\ Delivered(job)' /\ job.pr
                     /\ Past(job) \/ (job.phase = "blocked" /\ job.reason \notin Resumable)
            <4>1. /\ Delivered(job) /\ job.pr
                  /\ Past(job) \/ (job.phase = "blocked" /\ job.reason \notin Resumable)
                BY <1>1, <3>1 DEF Sound, Sealed
            <4>2. pr'.state = "MERGED" /\ pr'.merged = pr.merged
                BY <2>2, <4>1 DEF Delivered
            <4>3. pr.merged \in Commits
                BY <4>1 DEF Delivered, Hub
            <4>4. commits'[pr.merged] = commits[pr.merged]
                BY <4>3 DEF Kept
            <4>5. job.pub \in Commits' /\ commits'[job.pub].cand = job.cand
                BY <4>1 DEF Delivered, Kept
            <4>6. QED
                BY <4>1, <4>2, <4>4, <4>5 DEF Delivered
        <3>2. QED
            BY <3>1 DEF Sealed, Past
    <2>3. QED
        BY <2>1, <2>2
<1>4. Where(job, pc, loc)'
    BY <1>1 DEF Where
<1>5. QED
    BY <1>1, <1>2, <1>3, <1>4 DEF Sound, Settling, Shaped, IsJob

\* What GitHub changes keeps what is around the lane as well.
LEMMA RemoteAdvances ==
    ASSUME CInv, UNCHANGED <<job, pc, loc>>, \A c \in Commits : Kept(c),
           flight' \subseteq flight, Hub', Bound',
           pc # "confirm" /\ pr.state = "MERGED" =>
              pr'.state = "MERGED" /\ pr'.merged = pr.merged,
           "late" \in meddled => "late" \in meddled',
           pr.state = "none" =>
              \/ pr'.state = "none" \/ "late" \in meddled'
              \/ job.write.prior # None
              \/ pc = "confirm" /\ Request("create", job.pub, None, job.write.text) \notin flight',
           ByUs' => ByUs \/ job.close.sent, ByUs => ByUs',
           NoReplacement
    PROVE  Advances
<1>1. Hub /\ Flights /\ Sound(job) /\ FirstPr(job, pc)
    BY DEF CInv, Around, Settling
<1>2. Flights'
    BY <1>1 DEF Flights, Carries, Kept
<1>3. FirstPr(job, pc)'
    BY <1>1 DEF FirstPr
<1>4. Closing(job)'
    BY <1>1 DEF Sound, Closing
<1>5. Settling(job, pc, loc)'
    BY <1>1, <1>3, <1>4, RemoteSettles
<1>6. QED
    BY <1>2, <1>5 DEF Around, Advances, OwnClose

\* An event of the issue.
LEMMA EventsGrow ==
    ASSUME Hub, NEW x \in {"us", "them"}, issue' = [issue EXCEPT !.events = Append(@, x)]
    PROVE  /\ issue' \in [events : Seq({"us", "them"}), comment : Nat \cup {-1}]
           /\ ByUs => ByUs'
           /\ ByUs' => ByUs \/ x = "us"
<1> DEFINE q == issue.events
<1>1. /\ q \in Seq({"us", "them"}) /\ issue'.events = Append(q, x)
      /\ issue'.comment = issue.comment /\ issue.comment \in Nat \cup {-1}
      /\ issue' \in [events : {issue'.events}, comment : {issue'.comment}]
    BY DEF Hub
<1>2. /\ Len(issue'.events) = Len(q) + 1 /\ Len(q) \in Nat
      /\ \A i \in 1 .. Len(q) : issue'.events[i] = q[i]
      /\ issue'.events[Len(q) + 1] = x
      /\ DOMAIN q = 1 .. Len(q) /\ DOMAIN issue'.events = 1 .. Len(q) + 1
      /\ issue'.events \in Seq({"us", "them"})
    BY <1>1, AppendFacts
<1>3. \A i \in DOMAIN issue'.events : i \in DOMAIN q \/ i = Len(q) + 1
    BY <1>2
<1>4. ByUs => ByUs'
    BY <1>2 DEF ByUs
<1>5. ByUs' => ByUs \/ x = "us"
    BY <1>2, <1>3 DEF ByUs
<1>6. QED
    BY <1>1, <1>2, <1>4, <1>5

\* A request that arrives leaves room for one.
LEMMA ArrivalBound ==
    ASSUME CInv, NEW r \in flight, flight' = flight \ {r}, faults' = faults
    PROVE  Bound'
<1>1. /\ faults \in Nat /\ IsFiniteSet(flight)
      /\ Cardinality(flight) <= faults + (IF Answered THEN 0 ELSE 1)
    BY DEF CInv, Around, Bound
<1>2. /\ IsFiniteSet(flight \ {r}) /\ Cardinality(flight \ {r}) = Cardinality(flight) - 1
      /\ Cardinality(flight) \in Nat
    BY <1>1, FS_RemoveElement, FS_CardinalityType
<1>3. Cardinality(flight) <= faults + 1
    BY <1>1, <1>2
<1>4. Cardinality(flight') <= faults'
    BY <1>1, <1>2, <1>3
<1>5. Cardinality(flight') \in Int
    BY <1>2
<1>6. QED
    BY <1>1, <1>2, <1>4, <1>5 DEF Bound

\* A request arrives, and GitHub takes it or not.
LEMMA LandAdvances ==
    ASSUME CInv, NEW r \in flight, Land(r)
    PROVE  Advances
<1>1. /\ UNCHANGED <<job, pc, loc, faults>> /\ flight' = flight \ {r}
      /\ flight' \subseteq flight
      /\ "late" \in meddled => "late" \in meddled'
    BY DEF Land, budgets
<1>2. Hub /\ Carries(r) /\ Sound(job) /\ FirstPr(job, pc) /\ IInv
    BY DEF CInv, Around, Flights, Settling
<1>3. Bound'
    BY <1>1, ArrivalBound
<1>4. CASE ~Accepts(r)
    <2>1. UNCHANGED <<commits, source, target, pr, issue, meddled>>
        BY <1>4 DEF Land
    <2>2. Hub' /\ \A c \in Commits : Kept(c)
        BY <1>2, <2>1 DEF Hub, Commits, Open, Kept
    <2>3. (ByUs' => ByUs) /\ (ByUs => ByUs')
        BY <2>1 DEF ByUs
    <2>4. QED
        BY <1>1, <1>3, <2>1, <2>2, <2>3, RemoteAdvances DEF NoReplacement
<1>5. CASE Accepts(r) /\ r.kind \in {"push", "edit"}
    <2>1. /\ UNCHANGED <<commits, target, issue>>
          /\ \/ r.kind = "push" /\ source' = r.head /\ pr' = pr
             \/ r.kind = "edit" /\ source' = source /\ pr' = [pr EXCEPT !.text = r.text]
        BY <1>5 DEF Land, Takes
    <2>2. /\ pr' \in [state : {"none", "OPEN", "CLOSED", "MERGED"}, text : Nat, head : Nat,
                      merged : Nat]
          /\ pr'.state = pr.state /\ pr'.merged = pr.merged /\ pr'.head = pr.head
          /\ pr'.text # None \/ pr'.text = pr.text
        BY <1>2, <2>1 DEF Hub, Carries
    <2>3. source' \in Commits
        BY <1>2, <2>1 DEF Hub, Carries
    <2>4. Hub' /\ \A c \in Commits : Kept(c)
        BY <1>2, <2>1, <2>2, <2>3 DEF Hub, Commits, Open, Kept
    <2>5. (ByUs' => ByUs) /\ (ByUs => ByUs')
        BY <2>1 DEF ByUs
    <2>6. QED
        BY <1>1, <1>3, <2>1, <2>2, <2>4, <2>5, RemoteAdvances DEF NoReplacement
<1>6. CASE Accepts(r) /\ r.kind = "create"
    <2>1. /\ UNCHANGED <<commits, source, target, issue>>
          /\ pr' = [NoPr EXCEPT !.state = "OPEN", !.text = r.text]
          /\ r \in Awaited \/ (pr.state = "none" /\ "late" \in meddled')
        BY <1>6 DEF Land, Takes, Accepts
    <2>2. /\ pr' \in [state : {"none", "OPEN", "CLOSED", "MERGED"}, text : Nat, head : Nat,
                      merged : Nat]
          /\ pr'.state = "OPEN" /\ pr'.merged = None /\ pr'.text # None
        BY <1>2, <1>6, <2>1 DEF NoPr, Carries, None
    <2>3. Hub' /\ \A c \in Commits : Kept(c)
        BY <1>2, <2>1, <2>2 DEF Hub, Commits, Open, Kept
    <2>4. (ByUs' => ByUs) /\ (ByUs => ByUs')
        BY <2>1 DEF ByUs
    <2>5. CASE r \in Awaited
        <3>1. pc = "confirm" /\ r = PrRequest
            BY <1>6, <2>5 DEF Awaited, PushRequest, MergeRequest, CloseRequest, Request
        <3>2. job.write.prior = None /\ r = Request("create", job.pub, None, job.write.text)
            BY <1>6, <3>1 DEF PrRequest, Request
        <3>3. Request("create", job.pub, None, job.write.text) \notin flight'
            BY <1>1, <3>2
        <3>4. pr.state = "none" \/ "late" \in meddled
            BY <1>2, <3>1, <3>2 DEF FirstPr
        <3>5. NoReplacement
            BY <1>1, <3>4 DEF NoReplacement
        <3>6. QED
            BY <1>1, <1>3, <2>2, <2>3, <2>4, <3>1, <3>3, <3>5, RemoteAdvances
    <2>6. CASE pr.state = "none" /\ "late" \in meddled'
        BY <1>1, <1>3, <2>2, <2>3, <2>4, <2>6, RemoteAdvances DEF NoReplacement
    <2>7. QED
        BY <2>1, <2>5, <2>6
<1>7. CASE Accepts(r) /\ r.kind = "merge"
    <2> DEFINE e == Squash("ours", source)
    <2>1. /\ commits' = Append(commits, e) /\ target' = Next1 /\ e.src = source
          /\ pr' = [pr EXCEPT !.state = "MERGED", !.head = source, !.merged = Next1]
          /\ UNCHANGED <<source, issue>> /\ pr.state = "OPEN"
        BY <1>7 DEF Land, Takes, Accepts, Open, Squash
    <2> HIDE DEF e
    <2>2. /\ \A c \in Commits : Kept(c)
          /\ Next1 \in Commits' /\ commits'[Next1] = e
          /\ Next1 \in Nat /\ Next1 # None /\ Commits \subseteq Nat \ {None}
        BY <1>2, <2>1, CommitsGrow
    <2>3. /\ pr' \in [state : {"none", "OPEN", "CLOSED", "MERGED"}, text : Nat, head : Nat,
                      merged : Nat]
          /\ pr'.state = "MERGED" /\ pr'.merged = Next1 /\ pr'.head = source
        BY <1>2, <2>1, <2>2 DEF Hub
    <2>4. Hub'
        BY <1>2, <2>1, <2>2, <2>3 DEF Hub, Open, Kept
    <2>5. (ByUs' => ByUs) /\ (ByUs => ByUs')
        BY <2>1 DEF ByUs
    <2>6. QED
        BY <1>1, <1>3, <2>1, <2>2, <2>4, <2>5, RemoteAdvances DEF NoReplacement
<1>8. CASE Accepts(r) /\ r.kind = "comment"
    <2>1. /\ issue' = [issue EXCEPT !.comment = r.head]
          /\ UNCHANGED <<commits, source, target, pr>> /\ r.head \in Nat
        BY <1>2, <1>8 DEF Land, Takes, Carries
    <2>2. issue' \in [events : Seq({"us", "them"}), comment : Nat \cup {-1}]
          /\ issue'.events = issue.events
        BY <1>2, <2>1 DEF Hub
    <2>3. Hub' /\ \A c \in Commits : Kept(c)
        BY <1>2, <2>1, <2>2 DEF Hub, Commits, Open, Kept
    <2>4. (ByUs' => ByUs) /\ (ByUs => ByUs')
        BY <2>2 DEF ByUs
    <2>5. QED
        BY <1>1, <1>3, <2>1, <2>3, <2>4, RemoteAdvances DEF NoReplacement
<1>9. CASE Accepts(r) /\ r.kind = "close"
    <2>1. /\ issue' = [issue EXCEPT !.events = Append(@, "us")]
          /\ UNCHANGED <<commits, source, target, pr>>
        BY <1>9 DEF Land, Takes
    <2>2. /\ issue' \in [events : Seq({"us", "them"}), comment : Nat \cup {-1}]
          /\ ByUs => ByUs'
        BY <1>2, <2>1, EventsGrow
    <2>3. Hub' /\ \A c \in Commits : Kept(c)
        BY <1>2, <2>1, <2>2 DEF Hub, Commits, Open, Kept
    <2>4. job.close.sent
        BY <1>2, <1>9 DEF Sound, Closing
    <2>5. QED
        BY <1>1, <1>3, <2>1, <2>2, <2>3, <2>4, RemoteAdvances DEF NoReplacement
<1>10. Accepts(r) => r.kind \in {"push", "create", "edit", "merge", "comment", "close"}
    BY DEF Accepts
<1>11. QED
    BY <1>4, <1>5, <1>6, <1>7, <1>8, <1>9, <1>10

\* People change GitHub.
LEMMA PeopleAdvances ==
    ASSUME CInv, People
    PROVE  Advances
<1>1. /\ UNCHANGED <<job, pc, loc, flight, faults>>
      /\ "late" \in meddled => "late" \in meddled'
    BY DEF People, PushSource, PushTarget, MergeByHand, TouchPr, TouchIssue, Revise, Meddle
<1>2. Hub /\ IInv /\ Bound
    BY DEF CInv, Around
<1>3. Bound'
    <2>1. Answered' <=> Answered
        BY <1>1 DEF Answered, Awaited, PushRequest, PrRequest, MergeRequest, CloseRequest, Request
    <2>2. QED
        BY <1>1, <1>2, <2>1 DEF Bound
<1>4. CASE PushSource \/ PushTarget
    <2>1. PICK e : /\ commits' = Append(commits, e) /\ UNCHANGED <<pr, issue>>
                   /\ source' \in {source, Next1} /\ target' \in {target, Next1}
        BY <1>4 DEF PushSource, PushTarget
    <2>2. /\ \A c \in Commits : Kept(c)
          /\ Next1 \in Commits'
        BY <1>2, <2>1, CommitsGrow
    <2>3. Hub'
        BY <1>2, <2>1, <2>2 DEF Hub, Open, Kept, None
    <2>4. (ByUs' => ByUs) /\ (ByUs => ByUs')
        BY <2>1 DEF ByUs
    <2>5. QED
        BY <1>1, <1>3, <2>1, <2>2, <2>3, <2>4, RemoteAdvances DEF NoReplacement
<1>5. CASE MergeByHand
    <2> DEFINE e == Squash("theirs", source)
    <2>1. /\ commits' = Append(commits, e) /\ target' = Next1 /\ e.src = source
          /\ pr' = [pr EXCEPT !.state = "MERGED", !.head = source, !.merged = Next1]
          /\ UNCHANGED <<source, issue>> /\ pr.state = "OPEN"
        BY <1>5 DEF MergeByHand, Open, Squash
    <2> HIDE DEF e
    <2>2. /\ \A c \in Commits : Kept(c)
          /\ Next1 \in Commits' /\ commits'[Next1] = e
          /\ Next1 \in Nat /\ Next1 # None /\ Commits \subseteq Nat \ {None}
        BY <1>2, <2>1, CommitsGrow
    <2>3. /\ pr' \in [state : {"none", "OPEN", "CLOSED", "MERGED"}, text : Nat, head : Nat,
                      merged : Nat]
          /\ pr'.state = "MERGED" /\ pr'.merged = Next1 /\ pr'.head = source
        BY <1>2, <2>1, <2>2 DEF Hub
    <2>4. Hub'
        BY <1>2, <2>1, <2>2, <2>3 DEF Hub, Open, Kept
    <2>5. (ByUs' => ByUs) /\ (ByUs => ByUs')
        BY <2>1 DEF ByUs
    <2>6. QED
        BY <1>1, <1>3, <2>1, <2>2, <2>4, <2>5, RemoteAdvances DEF NoReplacement
<1>6. CASE TouchPr
    <2>1. /\ UNCHANGED <<commits, source, target, issue>> /\ pr.state = "OPEN"
          /\ \/ pr' = [pr EXCEPT !.state = "CLOSED", !.head = source]
             \/ pr' = [pr EXCEPT !.text = Base]
        BY <1>6 DEF TouchPr, Open
    <2>2. Commits \subseteq Nat
        <3>1. PICK S : commits \in Seq(S)
            BY <1>2 DEF IInv, Recorded
        <3>2. QED
            BY <3>1 DEF Commits
    <2>3. /\ pr' \in [state : {"none", "OPEN", "CLOSED", "MERGED"}, text : Nat, head : Nat,
                      merged : Nat]
          /\ pr'.state \in {"OPEN", "CLOSED"} /\ pr'.merged = pr.merged
          /\ pr'.state = "OPEN" => pr'.text # None
        <3>1. source \in Nat /\ pr.text # None
            BY <1>2, <2>1, <2>2 DEF Hub, Open
        <3>2. CASE pr' = [pr EXCEPT !.state = "CLOSED", !.head = source]
            BY <1>2, <3>1, <3>2 DEF Hub
        <3>3. CASE pr' = [pr EXCEPT !.text = Base]
            BY <1>2, <2>1, <3>3 DEF Hub, Base, None
        <3>4. QED
            BY <2>1, <3>2, <3>3
    <2>4. Hub' /\ \A c \in Commits : Kept(c)
        BY <1>2, <2>1, <2>3 DEF Hub, Commits, Open, Kept
    <2>5. (ByUs' => ByUs) /\ (ByUs => ByUs')
        BY <2>1 DEF ByUs
    <2>6. QED
        BY <1>1, <1>3, <2>1, <2>4, <2>5, RemoteAdvances DEF NoReplacement
<1>7. CASE TouchIssue
    <2>1. /\ issue' = [issue EXCEPT !.events = Append(@, "them")]
          /\ UNCHANGED <<commits, source, target, pr>>
        BY <1>7 DEF TouchIssue
    <2>2. /\ issue' \in [events : Seq({"us", "them"}), comment : Nat \cup {-1}]
          /\ (ByUs => ByUs') /\ (ByUs' => ByUs)
        BY <1>2, <2>1, EventsGrow
    <2>3. Hub' /\ \A c \in Commits : Kept(c)
        BY <1>2, <2>1, <2>2 DEF Hub, Commits, Open, Kept
    <2>4. QED
        BY <1>1, <1>3, <2>1, <2>2, <2>3, RemoteAdvances DEF NoReplacement
<1>8. CASE Revise
    <2>1. UNCHANGED <<commits, source, target, pr, issue>>
        BY <1>8 DEF Revise
    <2>2. Hub' /\ \A c \in Commits : Kept(c)
        BY <1>2, <2>1 DEF Hub, Commits, Open, Kept
    <2>3. (ByUs' => ByUs) /\ (ByUs => ByUs')
        BY <2>1 DEF ByUs
    <2>4. QED
        BY <1>1, <1>3, <2>1, <2>2, <2>3, RemoteAdvances DEF NoReplacement
<1>9. QED
    BY <1>4, <1>5, <1>6, <1>7, <1>8 DEF People

----------------------------------------------------------------------------
(* The theorems *)

\* The invariant holds at first.
LEMMA InitSettles == Init => CInv
<1> SUFFICES ASSUME Init PROVE CInv
    OBVIOUS
<1>1. IInv
    BY InitHolds
<1>2. commits \in Seq({Foreign({})}) /\ Len(commits) = 1 /\ Commits = {1}
    BY DEF Init, Commits
<1>3. ~ByUs /\ issue \in [events : Seq({"us", "them"}), comment : Nat \cup {-1}]
    BY DEF Init, ByUs
<1>4. Hub
    BY <1>2, <1>3 DEF Init, Hub, NoPr, Open, Base, None
<1>5. Flights
    BY DEF Init, Flights
<1>6. Bound
    BY FS_EmptySet DEF Init, Bound
<1>7. Shaped(job)
    BY <1>1 DEF Init, Shaped, IInv, Fits, NoWrite, NoClose
<1>8. Named(job) /\ Sealed(job) /\ Closing(job)
    BY <1>3 DEF Init, Named, Owes, Phases, Active, Delivering, Sealed, Past, Closing
<1>9. Sound(job) /\ "integrated" \in DOMAIN loc
    BY <1>7, <1>8 DEF Init, Sound, NoLoc
<1>10. Settling(job, pc, loc)
    BY <1>9, IdleSettles DEF Init
<1>11. QED
    BY <1>1, <1>4, <1>5, <1>6, <1>10 DEF CInv, Around

\* Every step keeps the invariant, completes a delivery only of the Runner's own
\* close, and replaces no pull request unless a request lands late.
LEMMA StepSettles == CInv /\ [Next]_vars => CInv' /\ (Advances \/ UNCHANGED vars)
<1> SUFFICES ASSUME CInv, [Next]_vars PROVE CInv' /\ (Advances \/ UNCHANGED vars)
    OBVIOUS
<1>1. IInv'
    BY StepHolds DEF CInv
<1>2. CASE Lane
    <2>1. Advances
        BY <1>2, EngineAdvances, IntegrationAdvances, PublishAdvances, EnterAdvances,
           PushAdvances, ProposeAdvances, CheckAdvances, MergedAdvances, PrepareAdvances,
           CloseAdvances DEF Lane
    <2>2. QED
        BY <1>1, <2>1 DEF CInv, Advances
<1>3. CASE TimeOut \/ Resume \/ Interrupted \/ \E r \in flight : Lose(r)
    <2>1. Advances
        BY <1>3, EngineAdvances, FaultAdvances
    <2>2. QED
        BY <1>1, <2>1 DEF CInv, Advances
<1>4. CASE GitHub \/ People
    <2>1. Advances
        BY <1>4, LandAdvances, PeopleAdvances DEF GitHub
    <2>2. QED
        BY <1>1, <2>1 DEF CInv, Advances
<1>5. CASE UNCHANGED vars
    <2>1. Around'
        BY <1>5 DEF CInv, Around, Hub, Flights, Carries, Bound, Answered, Awaited, PushRequest,
           PrRequest, MergeRequest, CloseRequest, Commits, Open, vars
    <2>2. Settling(job, pc, loc)'
        BY <1>5 DEF CInv, Settling, Sound, Shaped, IsJob, Named, Owes, Sealed, Past, Delivered,
           Closing, ByUs, Where, FirstPr, Commits, vars
    <2>3. QED
        BY <1>1, <1>5, <2>1, <2>2 DEF CInv
<1>6. QED
    BY <1>2, <1>3, <1>4, <1>5 DEF Next, Over

\* The invariant holds throughout.
LEMMA SettlesAlways == Spec => []CInv
<1>1. CInv /\ [Next]_vars => CInv'
    BY StepSettles
<1>2. QED
    BY InitSettles, <1>1, PTL DEF Spec

\* Every variable of the delivery has its type, and all requests in flight but
\* one cost a fault.
THEOREM DeliveryTypeCorrect == Spec => []TypeOK
<1>1. CInv => TypeOK
    <2> SUFFICES ASSUME CInv PROVE TypeOK
        OBVIOUS
    <2>1. Hub /\ Named(job) /\ Bound
        BY DEF CInv, Around, Settling, Sound
    <2>2. job.phase \in {"publishing", "waiting_checks", "merging", "merged"} => job.pub # None
        <3>1. PICK S : commits \in Seq(S)
            BY DEF CInv, IInv, Recorded
        <3>2. None \notin Commits
            BY <3>1 DEF Commits, None
        <3>3. QED
            BY <2>1, <3>2 DEF Named, Owes, Delivering
    <2>3. Cardinality(flight) <= 1 + faults
        <3>1. Cardinality(flight) \in Nat
            BY <2>1, FS_CardinalityType DEF Bound
        <3>2. QED
            BY <2>1, <3>1 DEF Bound
    <2>4. QED
        BY <2>1, <2>2, <2>3 DEF TypeOK, Hub, Named, Phases
<1>2. QED
    BY SettlesAlways, <1>1, PTL

\* The Runner closes a Ticket only for the merge on record, which is of the
\* candidate's publication, squashed onto the target it was integrated with; a
\* completed delivery sent the close itself.
THEOREM ClosesSafe == Spec => []ClosesDelivered
<1>1. CInv => ClosesDelivered
    <2> SUFFICES ASSUME CInv PROVE ClosesDelivered
        OBVIOUS
    <2>1. Closing(job) /\ Sealed(job)
        BY DEF CInv, Settling, Sound
    <2>2. ByUs => Delivered(job)
        BY <2>1 DEF Closing, Sealed, NoClose
    <2>3. ByUs => "us" \in {issue.events[i] : i \in DOMAIN issue.events}
        BY DEF ByUs
    <2>4. QED
        BY <2>1, <2>2, <2>3 DEF ClosesDelivered, Closing, Delivered, ByUs
<1>2. QED
    BY SettlesAlways, <1>1, PTL

\* A delivery completes only while the Ticket is closed by the one transition
\* the Runner made.
THEOREM CompletionSafe == Spec => CompletesOwnClose
<1>1. CInv /\ [Next]_vars =>
        [job.phase # "completed" /\ job'.phase = "completed"
           => SubSeq(issue.events, job.close.baseline + 1, Len(issue.events)) = <<"us">>]_vars
    BY StepSettles DEF Advances, OwnClose
<1>2. QED
    BY SettlesAlways, <1>1, PTL DEF Spec, CompletesOwnClose

\* A pull request that was closed or merged is not replaced by another, unless a
\* request to create one lands when nobody waits for it any more.
THEOREM ReplacementSafe == Spec => NoReplacementPr
<1>1. CInv /\ [Next]_vars =>
        [pr.state \in {"CLOSED", "MERGED"} /\ pr'.state # pr.state => "late" \in meddled']_vars
    BY StepSettles DEF Advances, NoReplacement
<1>2. QED
    BY SettlesAlways, <1>1, PTL DEF Spec, NoReplacementPr
=============================================================================
