--------------------------- MODULE PublishedHead ---------------------------
(* The delivery of one accepted Ticket: its candidate is integrated with the *)
(* live heads of the Ticket branch and the Run Branch, published, proposed   *)
(* in a pull request, merged through the Published-Head Gate, and its issue  *)
(* is closed.  GitHub is shared with people: they push, merge, close, edit   *)
(* and reopen while the Runner works from what it last read.  Every request  *)
(* of the Runner is in flight for a while; it may land, be lost, or land     *)
(* after the process that sent it stopped waiting.                           *)
(*                                                                           *)
(* A step of the lane is one read or one request with the code up to the     *)
(* next one.  Reads that follow each other with nothing between them but     *)
(* the decision to give up are read at one moment.  job is the Job on disk;  *)
(* what the lane holds only in memory is in loc.                             *)
EXTENDS Integers, Sequences, FiniteSets

CONSTANTS
    MergeAttempts,   \* requests one merge intent may send: 3 in the code
    ResyncLimit,     \* re-integrations the policy snapshot allows
    MaxCandidates,   \* candidates: one, and a repair for each further one
    Changes,         \* what people may do to GitHub in this delivery
    MaxChanges,      \* bound: how often they do it
    MaxFaults,       \* bound: interruptions, lost and late requests
    MaxResumes       \* bound: Ticket Resumes

ASSUME PublishedHeadAssumption ==
    /\ MergeAttempts \in Nat \ {0} /\ ResyncLimit \in Nat
    /\ MaxCandidates \in Nat \ {0} /\ MaxChanges \in Nat
    /\ MaxFaults \in Nat /\ MaxResumes \in Nat
    /\ Changes \subseteq {"push", "rewrite", "target", "merge", "close", "edit",
                          "issue", "revise"}

None == 0            \* no commit, no text; the first commit is the base
Base == 1

VARIABLES
    commits,   \* every commit of the two branches, by number
    source,    \* the head of the Ticket branch
    target,    \* the head of the Run Branch
    pr,        \* the Ticket's pull request
    issue,     \* who closed and reopened the Ticket, and the close intent
    revised,   \* the Ticket's requirements were changed
    flight,    \* requests sent and neither landed nor lost
    job,       \* the Ticket's Job as saved
    pc,        \* what the lane does next
    loc,       \* what the lane remembers and has not saved
    passed,    \* heads that passed the Published-Head Gate
    sends,     \* merge requests sent for the head of the Job
    moves,     \* head moves the Runner could not have expected
    meddled,   \* what people changed, and whether a request landed late
    changes, faults, resumes

remote == <<commits, source, target, pr, issue, revised>>
history == <<passed, sends, moves, meddled>>
budgets == <<changes, faults, resumes>>
vars == <<commits, source, target, pr, issue, revised, flight, job, pc, loc,
          passed, sends, moves, meddled, changes, faults, resumes>>

Active == {"accepted", "publishing", "waiting_checks", "merging", "merged"}
Settled == {"completed", "blocked"}

----------------------------------------------------------------------------
(* GitHub *)

NoPr == [state |-> "none", text |-> None, head |-> None, merged |-> None]
Open == pr.state = "OPEN"
\* The head GitHub shows: the branch's while the pull request is open.
PrHead == IF Open THEN source ELSE pr.head

Lineage(c) == {c} \cup commits[c].anc
Foreign(anc) == [kind |-> "foreign", anc |-> anc, cand |-> 0, src |-> None, tgt |-> None]
Publication(c, s, t) ==
    [kind |-> "publication", anc |-> Lineage(s) \cup Lineage(t),
     cand |-> c, src |-> s, tgt |-> t]
\* A squash of head onto the Run Branch as it is; who pressed the button.
Squash(who, head) ==
    [kind |-> who, anc |-> Lineage(target), cand |-> 0, src |-> head, tgt |-> target]
Next1 == Len(commits) + 1

\* Events alternate: the issue is closed by the first, reopened by the second.
IssueOpen == Len(issue.events) % 2 = 0

----------------------------------------------------------------------------
(* The Job *)

NoRecord == [cand |-> 0, src |-> None, tgt |-> None]
NoWindow == [open |-> FALSE, used |-> 0, src |-> None, tgt |-> None]
NoWrite == [kind |-> "none", head |-> None, prior |-> None, text |-> None]
NoMerge == [head |-> None, base |-> None, tries |-> 0]
NoClose == [baseline |-> -1, sent |-> FALSE]
NoLoc == [head |-> None, base |-> None, observed |-> FALSE, integrated |-> None]

Ends(j, code) == [j EXCEPT !.phase = "blocked", !.reason = code, !.waiting = FALSE]
Blocked(j, code) == [Ends(j, code) EXCEPT !.resume = j.phase]
WaitsForever(j) == j
Waits(j) == [j EXCEPT !.waiting = TRUE]

InvalidatedInPlace(j) ==
    [j EXCEPT !.pub = None, !.merge = NoMerge, !.write = NoWrite]
\* A boundary that no longer holds takes everything made for it along.
Invalidated(j) ==
    [j EXCEPT !.phase = "accepted", !.pub = None, !.merge = NoMerge, !.write = NoWrite]

RefIntent(j) == [kind |-> "ref", head |-> j.pub, prior |-> None, text |-> None]
OwnSettledWrite(j, s) == s = j.published
OwnSourceWrite(j, s) ==
    \/ s = j.published
    \/ j.write.kind = "ref" /\ j.write.head = s /\ s = j.pub

\* The heads are those of the integration record, but for the Runner's own push.
HeadsCurrent(j, s, t) ==
    /\ ~(j.published # None /\ j.published = j.pub /\ s # j.pub)
    /\ s = j.record.src \/ (OwnSourceWrite(j, s) /\ s = j.pub)
    /\ t = j.record.tgt

\* The pushed head was observed, and a record says the push was the Runner's.
PushObserved(j, head) ==
    head = j.pub /\ (j.published = j.pub \/ j.write = RefIntent(j))

PrWritePending(j) == j.write.kind = "pr" /\ j.write.text # None

\* What a read tells of a pull request write: done, not done, or neither.
PrWriteSeen(w) ==
    IF pr.state = "none" THEN IF w.prior = None THEN "absent" ELSE "unknown"
    ELSE IF ~Open \/ source # w.head THEN "unknown"
    ELSE IF pr.text = w.text THEN "done"
    ELSE IF pr.text = w.prior THEN "prior" ELSE "unknown"

CloseOwnerByState(baseline) == IF IssueOpen THEN "nobody" ELSE "ours"
\* Whose the close is: exactly one transition after the baseline, by us.
CloseOwner(baseline) ==
    LET after == SubSeq(issue.events, baseline + 1, Len(issue.events))
    IN  CASE after = <<>> -> "nobody"
          [] after = <<"us">> -> "ours"
          [] OTHER -> "theirs"

----------------------------------------------------------------------------
Init ==
    /\ commits = <<Foreign({})>>
    /\ source = Base /\ target = Base /\ pr = NoPr
    /\ issue = [events |-> <<>>, comment |-> -1]
    /\ revised = FALSE /\ flight = {}
    /\ job = [phase |-> "accepted", reason |-> "none", resume |-> "none",
              waiting |-> FALSE, cand |-> 1, record |-> NoRecord, window |-> NoWindow,
              pub |-> None, published |-> None, write |-> NoWrite, pr |-> FALSE,
              merge |-> NoMerge, integrated |-> None, close |-> NoClose]
    /\ pc = "idle" /\ loc = NoLoc
    /\ passed = {} /\ sends = 0 /\ moves = 0 /\ meddled = {}
    /\ changes = 0 /\ faults = 0 /\ resumes = 0

\* A step of the lane that reads: it saves j and goes on to p.
Then(j, p) ==
    /\ job' = j /\ pc' = p
    /\ UNCHANGED <<remote, flight, history, budgets>>
Stops(j) == Then(j, "idle") /\ loc' = NoLoc
Goes(j, p) == Then(j, p) /\ UNCHANGED loc

\* A request is sent; the lane goes on to read what became of it.
Sends(r, p) ==
    /\ flight' = flight \cup {r} /\ pc' = p
    /\ UNCHANGED <<remote, job, loc, passed, moves, meddled, budgets>>

Request(kind, head, expected, text) ==
    [kind |-> kind, head |-> head, expected |-> expected, text |-> text]
PushRequest == Request("push", job.pub, job.record.src, None)
PrRequest == Request(IF job.write.prior = None THEN "create" ELSE "edit",
                     job.pub, None, job.write.text)
MergeLive == Request("merge", source, None, None)
MergeRequest == Request("merge", job.pub, None, None)
CommentRequest == Request("comment", Len(issue.events), None, None)
CloseRequest == Request("close", job.pub, None, None)

\* What the lane waits for; any other request lands unwatched.
Awaited ==
    CASE pc = "pushed" -> {PushRequest}
      [] pc = "confirm" -> {PrRequest}
      [] pc = "merged" -> {MergeRequest}
      [] pc = "commented" -> {r \in flight : r.kind = "comment"}
      [] pc = "closed" -> {CloseRequest}
      [] OTHER -> {}
Answered == Awaited \cap flight = {}

----------------------------------------------------------------------------
(* The engine: between two stages of the delivery *)

Entry(phase) == IF phase = "accepted" THEN "observe" ELSE "enter"

\* Settle a pull request write that was sent, before anything else.
SettlePrWrite ==
    /\ pc = "idle" /\ job.phase \in Active /\ PrWritePending(job)
    /\ LET seen == PrWriteSeen(job.write)
       IN  IF seen = "unknown"
             THEN Stops(Blocked(job, "change_pr_write_reconciliation_pending"))
             ELSE Goes([job EXCEPT !.write = NoWrite, !.waiting = FALSE,
                                   !.pr = @ \/ seen # "absent"], Entry(job.phase))

Begin ==
    /\ pc = "idle" /\ job.phase \in Active /\ ~PrWritePending(job)
    /\ Goes([job EXCEPT !.waiting = FALSE], Entry(job.phase))

\* Development and Review of a repair; the next candidate is accepted.
Develop ==
    /\ pc = "idle" /\ job.phase \in {"developing", "repairing"}
    /\ IF revised THEN Stops(Blocked(job, "effective_revision_mismatch"))
       ELSE Stops([job EXCEPT !.phase = "accepted", !.cand = @ + 1])

Escalate ==
    /\ pc = "idle" /\ job.phase = "escalating"
    /\ Stops(Blocked(job, "ci_development_budget_exhausted"))

\* External supervision gives a wait up when its window is over.
TimeOut ==
    /\ pc = "idle" /\ job.phase \in Active /\ job.waiting
    /\ Stops(Blocked(job, "ticket_supervision_timeout"))

\* An error that ends the lane blocks the Job, with the phase to resume from; one that
\* may hide a merge already made is another wait for GitHub to converge.
Fails ==
    Stops(IF job.phase \in {"merging", "merged"} THEN Waits(job)
          ELSE Blocked(job, "ticket_execution_failed"))

Resume ==
    /\ pc = "idle" /\ resumes < MaxResumes /\ job.phase = "blocked"
    /\ job.reason \in {"ticket_execution_failed", "ticket_supervision_timeout"}
    /\ job' = [job EXCEPT !.phase = job.resume, !.reason = "none", !.resume = "none"]
    /\ resumes' = resumes + 1
    /\ UNCHANGED <<remote, flight, pc, loc, history, changes, faults>>

\* A read fails, or the process ends; another lane starts from the Job.
Interrupted ==
    /\ pc # "idle" /\ faults < MaxFaults
    /\ faults' = faults + 1 /\ pc' = "idle" /\ loc' = NoLoc
    /\ job' \in {job, Waits(job)}
    /\ UNCHANGED <<remote, flight, history, changes, resumes>>

----------------------------------------------------------------------------
(* Integration with the live heads *)

HistoryKept(s, t) ==
    LET oldSource == IF job.published # None THEN job.published
                     ELSE IF job.record # NoRecord THEN job.record.src ELSE Base
        oldTarget == IF job.record # NoRecord THEN job.record.tgt ELSE Base
    IN  oldSource \in Lineage(s) /\ oldTarget \in Lineage(t)

Integrated(j, s, t) ==
    /\ j.record # NoRecord /\ j.record.cand = j.cand /\ j.record.tgt = t
    /\ j.record.src = s \/ (OwnSourceWrite(j, s) /\ s = j.pub)

\* A move of somebody else opens a window; further ones fold into an open one.
Charged(j, s, t) ==
    /\ j.window # NoWindow /\ ~j.window.open
    /\ \/ s # j.window.src /\ ~OwnSourceWrite(j, s)
       \/ t # j.window.tgt

Exhausted(j, s, t) == Charged(j, s, t) /\ j.window.used >= ResyncLimit

\* The old boundary is dropped, the snapshot is recorded, and a first or a
\* charged one opens the window.
Reopened(j, s, t) ==
    LET k == IF j.record = NoRecord THEN j ELSE Invalidated(j)
        charged == Charged(j, s, t)
    IN  [k EXCEPT !.window = [open |-> j.window = NoWindow \/ @.open \/ charged,
                              src |-> s, tgt |-> t,
                              used |-> @.used + IF charged THEN 1 ELSE 0]]

Observe ==
    /\ pc = "observe"
    /\ \/ /\ ~HistoryKept(source, target)
          /\ Stops(Blocked(job, "integration_history_rewritten"))
       \/ /\ HistoryKept(source, target) /\ Integrated(job, source, target)
          /\ Goes(job, "publication")
       \/ /\ HistoryKept(source, target) /\ ~Integrated(job, source, target)
          /\ IF Exhausted(job, source, target)
                THEN Stops(Blocked(Invalidated(job), "integration_resync_exhausted"))
                ELSE Goes(Reopened(job, source, target), "integrate")

\* The exact commits observed are merged into the candidate.
Integrate ==
    /\ pc = "integrate"
    /\ LET record == [cand |-> job.cand, src |-> job.window.src, tgt |-> job.window.tgt]
       IN  Goes([job EXCEPT !.record = record, !.window.open = FALSE], "recheck")

\* The heads are read again once the integration is recorded.
Recheck ==
    /\ pc = "recheck"
    /\ IF HeadsCurrent(job, source, target) THEN Goes(job, "publication")
       ELSE Stops(Invalidated(job))

\* The publication commit is made; no two are the same.
Publish ==
    /\ pc = "publication" /\ ~revised
    /\ commits' = Append(commits, Publication(job.cand, job.record.src, job.record.tgt))
    /\ job' = [job EXCEPT !.pub = Next1, !.phase = "publishing"]
    /\ sends' = 0 /\ pc' = "idle" /\ loc' = NoLoc
    /\ UNCHANGED <<source, target, pr, issue, revised, flight, passed, moves, meddled, budgets>>

\* Requirements that changed discard the candidate.
Discard ==
    /\ pc = "publication" /\ revised
    /\ Stops([job EXCEPT !.phase = "developing"])

----------------------------------------------------------------------------
(* The Published-Head Gate: up to the push *)

Stale == "effective_revision_mismatch"

\* A merge that the Runner did not make, or not of what it published.
ReadMerged ==
    /\ pr.state = "MERGED"
    /\ IF pr.head # job.pub THEN Stops(Blocked(job, "merged_result_mismatch"))
       ELSE IF job.phase # "merging" /\ job.integrated # pr.merged
         THEN Stops(Blocked(job, "unexpected_external_merge"))
         ELSE Then(job, "sync") /\ loc' = [loc EXCEPT !.integrated = pr.merged]

Enter ==
    /\ pc = "enter"
    /\ IF revised /\ job.phase \notin {"merging", "merged"} THEN Stops(Blocked(job, Stale))
       ELSE IF ~job.pr THEN Goes(job, "heads")
       ELSE \/ ReadMerged
            \/ pr.state = "CLOSED" /\ Stops(Blocked(job, "ticket_pr_closed_unmerged"))
            \/ /\ Open /\ Then(job, "heads")
               /\ loc' = [loc EXCEPT !.head = source, !.base = target]

\* The live pull request was read before the heads: it must fit them still.
LiveFits(head, base) == head \in {job.record.src, job.pub} /\ base = job.record.tgt

Heads ==
    /\ pc = "heads"
    /\ IF ~HeadsCurrent(job, source, target) THEN Stops(Invalidated(job))
       ELSE IF job.pr /\ ~LiveFits(loc.head, loc.base)
         THEN Stops(Blocked(job, "published_head_mismatch"))
       ELSE IF revised THEN Stops(Blocked(job, Stale))
       ELSE /\ Then(job, "verify")
            /\ loc' = [loc EXCEPT !.observed =
                          PushObserved(job, IF job.pr THEN loc.head ELSE source)]

\* The pull request on the branch, if any, stands where the push will find it.
PrStandsAt(head) == pr.state = "none" \/ (Open /\ source = head /\ target = job.record.tgt)

Verify ==
    /\ pc = "verify"
    /\ IF PrStandsAt(IF loc.observed THEN job.pub ELSE job.record.src)
         THEN IF loc.observed THEN Goes(job, "settle")
              ELSE Goes([job EXCEPT !.write = RefIntent(job)], "push")
       ELSE IF ~HeadsCurrent(job, source, target) THEN Stops(Invalidated(job))
       ELSE IF Open THEN Fails
       ELSE Stops(Waits(job))

SendPush ==
    /\ pc = "push" /\ Sends(PushRequest, "pushed") /\ UNCHANGED sends

\* The ref is read back: pushed, not pushed, or somebody else's.
Pushed ==
    /\ pc = "pushed" /\ Answered
    /\ IF source = job.pub THEN Goes(job, "settle")
       ELSE IF source = job.record.src THEN Stops(Waits(job))
       ELSE Stops(Invalidated(job))

SettlePush ==
    /\ pc = "settle"
    /\ Goes([job EXCEPT !.write = IF @ = RefIntent(job) THEN NoWrite ELSE @,
                        !.published = job.pub], "intend")

----------------------------------------------------------------------------
(* The pull request *)

Intend ==
    /\ pc = "intend"
    /\ IF revised THEN Stops(Blocked(job, Stale))
       ELSE Goes([job EXCEPT !.write = [NoWrite EXCEPT !.kind = "pr", !.head = job.pub]], "ensure")

PrMatches == Open /\ source = job.pub /\ target = job.record.tgt

GoneWhenMerged == pr.state = "MERGED"
Gone == pr.state \in {"CLOSED", "MERGED"}

\* The narrative to replace and the one to write are saved before the request.
Ensure ==
    /\ pc = "ensure"
    /\ IF Gone THEN Stops(Waits(job))
       ELSE IF Open /\ ~PrMatches THEN Fails
       ELSE Goes([job EXCEPT !.write.prior = IF Open THEN pr.text ELSE None,
                             !.write.text = job.pub],
                 IF pr.text = job.pub THEN "confirm" ELSE "propose")

SendPr ==
    /\ pc = "propose" /\ Sends(PrRequest, "confirm") /\ UNCHANGED sends

Confirm ==
    /\ pc = "confirm" /\ Answered
    /\ LET seen == PrWriteSeen(job.write)
       IN  IF seen = "done"
             THEN Goes([job EXCEPT !.write = NoWrite, !.pr = TRUE], "live")
           ELSE IF seen = "unknown" THEN Stops(Blocked(job, "github_write_outcome_unknown"))
           ELSE Stops(Waits(job))

----------------------------------------------------------------------------
(* The gate itself, and the merge *)

Live ==
    /\ pc = "live"
    /\ IF revised THEN Stops(Blocked(job, Stale))
       ELSE \/ pr.state = "MERGED" /\ Stops(Blocked(job, "unexpected_external_merge"))
            \/ pr.state = "CLOSED" /\ Stops(Blocked(job, "ticket_pr_closed_unmerged"))
            \/ Open /\ Goes(job, "checks")

\* The Required Checks of the published head, and the pull request around them.
Checks ==
    /\ pc = "checks"
    /\ IF ~PrMatches THEN Stops(Blocked(job, "published_head_mismatch"))
       ELSE IF revised THEN Stops(Blocked(job, Stale))
       ELSE \/ Goes(job, "gate")
            \/ Stops(Waits([job EXCEPT !.phase = "waiting_checks"]))
            \/ Stops([job EXCEPT !.phase =
                        IF job.cand < MaxCandidates THEN "repairing" ELSE "escalating"])

Gate ==
    /\ pc = "gate"
    /\ IF PrMatches THEN Goes(job, "final")
       ELSE Stops(Blocked(job, "published_head_mismatch"))

MergeIntent == [head |-> job.pub, base |-> job.record.tgt, tries |-> 0]
Intended(m) == m = NoMerge \/ (m.head = job.pub /\ m.base = job.record.tgt)

Final ==
    /\ pc = "final"
    /\ IF ~HeadsCurrent(job, source, target) THEN Stops(Invalidated(job))
       ELSE IF ~Intended(job.merge)
         THEN Stops(Blocked(job, "merge_intent_mismatch"))
       ELSE /\ job' = [job EXCEPT !.phase = "merging",
                                  !.merge = IF @ = NoMerge THEN MergeIntent ELSE @]
            /\ passed' = passed \cup {job.pub} /\ pc' = "attempt"
            /\ UNCHANGED <<remote, flight, loc, budgets>>
    /\ UNCHANGED <<sends, moves, meddled>>

AttemptedUnsaved(j) == j
\* The attempt is counted on disk before the request is sent.
Attempted(j) == [j EXCEPT !.merge.tries = @ + 1]
Attempt ==
    /\ pc = "attempt"
    /\ IF job.merge.tries >= MergeAttempts THEN Stops(Waits(job))
       ELSE Goes(Attempted(job), "merge")

SendMerge ==
    /\ pc = "merge" /\ Sends(MergeRequest, "merged") /\ sends' = sends + 1

Merged ==
    /\ pc = "merged" /\ Answered
    /\ IF pr.state = "MERGED"
         THEN /\ Then([job EXCEPT !.integrated = pr.merged], "sync")
              /\ loc' = [loc EXCEPT !.integrated = pr.merged]
         ELSE Stops(Waits(job))

\* The local Run Branch follows the remote one, which must be the merge.
Sync ==
    /\ pc = "sync"
    /\ IF target = loc.integrated THEN Goes(job, "after") ELSE Fails

ExactHead(j, merged) ==
    pr.state = "MERGED" /\ pr.merged = merged /\ pr.head = j.pub
\* What was merged is what was published, on the target it was made for.
Exact(j, merged) ==
    /\ pr.state = "MERGED" /\ pr.merged = merged /\ pr.head = j.pub
    /\ commits[merged].tgt = j.record.tgt

After ==
    /\ pc = "after"
    /\ LET j == [job EXCEPT !.integrated = loc.integrated]
       IN  IF ~Exact(j, loc.integrated) THEN Stops(Ends(j, "merged_result_mismatch"))
           ELSE IF revised THEN Stops(Ends(j, "merged_revision_mismatch"))
           ELSE Goes([j EXCEPT !.phase = "merged"], "prepare")

----------------------------------------------------------------------------
(* The Ticket's issue *)

Prepared(j) == [j EXCEPT !.close = [baseline |-> issue.comment, sent |-> FALSE]]

\* A comment binds the close to the last transition seen before it.
Prepare ==
    /\ pc = "prepare"
    /\ IF job.close # NoClose THEN Goes(job, "close")
       ELSE IF ~IssueOpen THEN Stops(Waits(job))
       ELSE IF issue.comment >= 0 THEN Goes(Prepared(job), "close")
       ELSE Sends(CommentRequest, "commented")
    /\ UNCHANGED sends

Commented ==
    /\ pc = "commented" /\ Answered
    /\ IF issue.comment >= 0 /\ IssueOpen THEN Goes(Prepared(job), "close")
       ELSE Stops(Waits(job))

Completed(j) == [j EXCEPT !.phase = "completed", !.reason = "none"]
Conflicted(j) == Ends(j, "ticket_close_external_conflict")

\* The Ticket is still as the comment found it, or closed by the Runner.
Close ==
    /\ pc = "close"
    /\ LET owner == CloseOwner(job.close.baseline)
       IN  IF owner = "ours" THEN Stops(Completed(job))
           ELSE IF owner = "theirs" THEN Stops(Conflicted(job))
           ELSE Goes([job EXCEPT !.close.sent = TRUE], "dispatch")

SendClose ==
    /\ pc = "dispatch" /\ Sends(CloseRequest, "closed") /\ UNCHANGED sends

Closed ==
    /\ pc = "closed" /\ Answered
    /\ LET owner == CloseOwner(job.close.baseline)
       IN  IF owner = "ours" THEN Stops(Completed(job))
           ELSE IF owner = "theirs" THEN Stops(Conflicted(job))
           ELSE Stops(Waits(job))

----------------------------------------------------------------------------
(* GitHub and its users *)

\* What GitHub accepts when the request arrives.  A late one to create makes no second
\* pull request: the Runner would not look at it.
Accepts(r) ==
    \/ r.kind = "push" /\ source = r.expected
    \/ r.kind = "create" /\ ~Open /\ (r \in Awaited \/ pr.state = "none")
    \/ r.kind = "edit" /\ pr.state # "none"
    \/ r.kind = "merge" /\ Open /\ source = r.head
    \/ r.kind = "comment"
    \/ r.kind = "close" /\ IssueOpen

Takes(r) ==
    \/ /\ r.kind = "push" /\ source' = r.head
       /\ UNCHANGED <<commits, target, pr, issue>>
    \/ /\ r.kind = "create" /\ pr' = [NoPr EXCEPT !.state = "OPEN", !.text = r.text]
       /\ UNCHANGED <<commits, source, target, issue>>
    \/ /\ r.kind = "edit" /\ pr' = [pr EXCEPT !.text = r.text]
       /\ UNCHANGED <<commits, source, target, issue>>
    \/ /\ r.kind = "merge"
       /\ commits' = Append(commits, Squash("ours", source)) /\ target' = Next1
       /\ pr' = [pr EXCEPT !.state = "MERGED", !.head = source, !.merged = Next1]
       /\ UNCHANGED <<source, issue>>
    \/ /\ r.kind = "comment" /\ issue' = [issue EXCEPT !.comment = r.head]
       /\ UNCHANGED <<commits, source, target, pr>>
    \/ /\ r.kind = "close" /\ issue' = [issue EXCEPT !.events = Append(@, "us")]
       /\ UNCHANGED <<commits, source, target, pr>>

Land(r) ==
    /\ flight' = flight \ {r}
    /\ IF Accepts(r)
         THEN /\ Takes(r)
              /\ meddled' = IF r \in Awaited THEN meddled ELSE meddled \cup {"late"}
              /\ moves' = IF r.kind \in {"push", "merge"} /\ r \notin Awaited
                            THEN moves + 1 ELSE moves
         ELSE UNCHANGED <<commits, source, target, pr, issue, meddled, moves>>
    /\ UNCHANGED <<revised, job, pc, loc, passed, sends, budgets>>

\* The request fails, or the lane stops waiting for it.
Lose(r) ==
    /\ faults < MaxFaults /\ faults' = faults + 1
    /\ \/ flight' = flight \ {r} /\ UNCHANGED <<job, pc, loc>>
       \/ /\ r \in Awaited /\ UNCHANGED flight
          /\ job' = Waits(job) /\ pc' = "idle" /\ loc' = NoLoc
    /\ UNCHANGED <<remote, history, changes, resumes>>

Meddle(what) ==
    /\ what \in Changes /\ changes < MaxChanges
    /\ changes' = changes + 1 /\ meddled' = meddled \cup {what}
    /\ UNCHANGED <<flight, job, pc, loc, passed, sends, faults, resumes>>

\* Somebody appends to the Ticket branch, or rewrites it.
PushSource ==
    /\ \/ Meddle("push") /\ commits' = Append(commits, Foreign(Lineage(source)))
       \/ Meddle("rewrite") /\ commits' = Append(commits, Foreign({}))
    /\ source' = Next1 /\ moves' = moves + 1
    /\ UNCHANGED <<target, pr, issue, revised>>

PushTarget ==
    /\ Meddle("target") /\ commits' = Append(commits, Foreign(Lineage(target)))
    /\ target' = Next1 /\ moves' = moves + 1
    /\ UNCHANGED <<source, pr, issue, revised>>

MergeByHand ==
    /\ Open /\ Meddle("merge")
    /\ commits' = Append(commits, Squash("theirs", source)) /\ target' = Next1
    /\ pr' = [pr EXCEPT !.state = "MERGED", !.head = source, !.merged = Next1]
    /\ moves' = moves + 1
    /\ UNCHANGED <<source, issue, revised>>

TouchPr ==
    /\ \/ Open /\ Meddle("close") /\ pr' = [pr EXCEPT !.state = "CLOSED", !.head = source]
       \/ Open /\ Meddle("edit") /\ pr' = [pr EXCEPT !.text = Base]
    /\ UNCHANGED <<commits, source, target, issue, revised, moves>>

TouchIssue ==
    /\ Meddle("issue") /\ issue' = [issue EXCEPT !.events = Append(@, "them")]
    /\ UNCHANGED <<commits, source, target, pr, revised, moves>>

Revise ==
    /\ ~revised /\ Meddle("revise") /\ revised' = TRUE
    /\ UNCHANGED <<commits, source, target, pr, issue, moves>>

----------------------------------------------------------------------------
Lane ==
    \/ SettlePrWrite \/ Begin \/ Develop \/ Escalate
    \/ Observe \/ Integrate \/ Recheck \/ Publish \/ Discard
    \/ Enter \/ Heads \/ Verify \/ SendPush \/ Pushed \/ SettlePush
    \/ Intend \/ Ensure \/ SendPr \/ Confirm
    \/ Live \/ Checks \/ Gate \/ Final \/ Attempt \/ SendMerge \/ Merged
    \/ Sync \/ After \/ Prepare \/ Commented \/ Close \/ SendClose \/ Closed

GitHub == \E r \in flight : Land(r)
People == PushSource \/ PushTarget \/ MergeByHand \/ TouchPr \/ TouchIssue \/ Revise

\* Nothing more happens to a delivery that is over.
Over == job.phase \in Settled /\ pc = "idle" /\ UNCHANGED vars

Next ==
    \/ Lane \/ TimeOut \/ Resume \/ Interrupted \/ GitHub \/ People \/ Over
    \/ \E r \in flight : Lose(r)

Spec == Init /\ [][Next]_vars

\* A live lane goes on, requests arrive, and a wait's window ends.
FairSpec == Spec /\ WF_vars(Lane) /\ WF_vars(GitHub) /\ SF_vars(TimeOut)

----------------------------------------------------------------------------
(* Properties *)

Commits == 1 .. Len(commits)

TypeOK ==
    /\ source \in Commits /\ target \in Commits
    /\ pr.merged \in Commits \cup {None} /\ (pr.merged # None) = (pr.state = "MERGED")
    /\ {job.pub, job.published, job.integrated} \subseteq Commits \cup {None}
    /\ job.phase \in Active \cup Settled \cup {"developing", "repairing", "escalating"}
    /\ job.phase \in {"publishing", "waiting_checks", "merging", "merged"} => job.pub # None
    /\ Cardinality(flight) <= 1 + faults

\* What a merge request of the Runner puts on the Run Branch is a head that it
\* published itself and that passed the gate, whoever pushed to the Ticket
\* branch in the meantime.
MergesWhatPassed ==
    \A c \in Commits : commits[c].kind = "ours" => commits[c].src \in passed

\* One merge intent sends a bounded number of requests, whatever becomes of
\* the answers and of the processes that sent them.
MergeBudget == sends <= MergeAttempts

\* The Runner closes a Ticket only when the Job on disk says what was merged,
\* and that is the candidate's publication, squashed onto the very target it
\* was integrated with; a completed delivery sent the close itself.
ClosesDelivered ==
    /\ (\E i \in DOMAIN issue.events : issue.events[i] = "us")
         => /\ pr.state = "MERGED" /\ job.integrated = pr.merged
            /\ commits[pr.merged].src = job.pub
            /\ commits[pr.merged].tgt = job.record.tgt
            /\ commits[job.pub].cand = job.cand
    /\ job.phase = "completed" => job.close.sent /\ "us" \in {issue.events[i] : i \in DOMAIN issue.events}

\* A delivery completes only while the Ticket is closed by the one transition
\* the Runner made: what people did to the issue is not overruled.
CompletesOwnClose ==
    [][job.phase # "completed" /\ job'.phase = "completed"
         => SubSeq(issue.events, job.close.baseline + 1, Len(issue.events)) = <<"us">>]_vars

\* A pull request that was closed or merged is not replaced by another, unless
\* an earlier request to create one lands when nobody waits for it any more.
NoReplacementPr ==
    [][pr.state \in {"CLOSED", "MERGED"} /\ pr'.state # pr.state
         => "late" \in meddled']_vars

Moves == {"push", "rewrite", "target", "merge", "late"}
Cause(reason) ==
    CASE reason \in {"published_head_mismatch", "merged_result_mismatch"} -> Moves \cup {"close"}
      [] reason \in {"change_pr_write_reconciliation_pending", "github_write_outcome_unknown"} ->
            Moves \cup {"close", "edit"}
      [] reason = "unexpected_external_merge" -> {"merge", "late"}
      [] reason = "ticket_pr_closed_unmerged" -> {"close"}
      [] reason \in {"effective_revision_mismatch", "merged_revision_mismatch"} -> {"revise"}
      [] reason = "ticket_close_external_conflict" -> {"issue"}
      [] reason = "integration_history_rewritten" -> {"rewrite"}
      [] reason \in {"integration_resync_exhausted", "ticket_execution_failed"} -> Moves
      [] reason = "merge_intent_mismatch" -> {}
      [] OTHER -> Changes

\* The Runner takes none of its own writes for somebody else's: a delivery is
\* blocked, and a re-integration charged, only for what people did or for a
\* request that landed when nobody waited for it any more.
OwnWritesKnown ==
    /\ job.phase = "blocked" /\ job.reason \notin {"ticket_supervision_timeout", "ci_development_budget_exhausted"}
         => Cause(job.reason) \cap meddled # {}
    /\ job.window.used <= moves

\* A merge that was the Runner's own, of what it published and where, is never
\* taken for a mismatch or for somebody else's.  The code does not keep this:
\* see the README.
OwnMergeRecovered ==
    pr.state = "MERGED" /\ commits[pr.merged].kind = "ours" /\ meddled \subseteq {"late"}
      => job.reason \notin {"unexpected_external_merge", "merged_result_mismatch"}

\* Every delivery ends: completed, or handed to the operator.
Settles == <>[](job.phase \in Settled)
=============================================================================
