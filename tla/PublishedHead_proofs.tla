----------------------- MODULE PublishedHead_proofs -----------------------
(* The merges of PublishedHead, for any number of changes, faults, repairs   *)
(* and resumes: what the Runner merges has passed the gate, and one merge    *)
(* intent sends a bounded number of requests.                                *)
EXTENDS PublishedHead, TLAPS

Delivering == {"publishing", "waiting_checks", "merging", "merged"}
Boundary == {"observe", "integrate", "recheck", "publication"}

\* The fields of the Job that the argument looks at.
IsJob(j) ==
    /\ {"phase", "resume", "pub", "merge"} \subseteq DOMAIN j
    /\ "tries" \in DOMAIN j.merge

\* The publication is on its way to a merge, or would be after a Resume.
Owes(j) ==
    \/ j.phase \in Delivering
    \/ j.phase = "blocked" /\ j.resume \in Delivering

\* Where the lane may be with Job j.
Placed(j, p) ==
    p # "idle" => j.phase \in (IF p \in Boundary THEN {"accepted"} ELSE Delivering)

\* Requests are counted before they are sent.
Counted(j, p, n) ==
    /\ j.merge.tries \in 0 .. MergeAttempts
    /\ Owes(j) => n <= j.merge.tries
    /\ p = "merge" => n < j.merge.tries

\* Only a head that passed the gate is on its way to a request.
Cleared(j, p) == p \in {"attempt", "merge"} => j.pub \in passed

Fits(j, p) == IsJob(j) /\ Placed(j, p) /\ Counted(j, p, sends) /\ Cleared(j, p)

Requested == \A r \in flight : r.kind = "merge" => r.head \in passed
Recorded == \E S : commits \in Seq(S)

IInv ==
    /\ Fits(job, pc)
    /\ sends \in Nat /\ MergeBudget
    /\ Requested
    /\ Recorded /\ MergesWhatPassed

----------------------------------------------------------------------------
(* Commits *)

\* Appending to a sequence leaves what is there and adds one at its end.
LEMMA AppendFacts ==
    ASSUME NEW S, NEW q \in Seq(S), NEW e
    PROVE  /\ \E T : Append(q, e) \in Seq(T)
           /\ Len(Append(q, e)) = Len(q) + 1
           /\ \A i \in 1 .. Len(q) : Append(q, e)[i] = q[i]
           /\ Append(q, e)[Len(q) + 1] = e
<1> DEFINE T == S \cup {e}
<1>1. q \in Seq(T) /\ e \in T
    OBVIOUS
<1>2. Append(q, e) \in Seq(T)
    BY <1>1
<1>3. /\ Len(Append(q, e)) = Len(q) + 1
      /\ \A i \in 1 .. Len(q) : Append(q, e)[i] = q[i]
      /\ Append(q, e)[Len(q) + 1] = e
    BY <1>1
<1>4. QED
    BY <1>2, <1>3

\* A new commit keeps MergesWhatPassed unless it is a merge of the Runner's of
\* a head that never passed.
LEMMA AppendKeeps ==
    ASSUME Recorded, MergesWhatPassed, NEW e, e.kind = "ours" => e.src \in passed,
           commits' = Append(commits, e), passed' = passed
    PROVE  Recorded' /\ MergesWhatPassed'
<1>1. PICK S : commits \in Seq(S)
    BY DEF Recorded
<1>2. /\ \E T : commits' \in Seq(T)
      /\ Len(commits') = Len(commits) + 1
      /\ \A i \in 1 .. Len(commits) : commits'[i] = commits[i]
      /\ commits'[Len(commits) + 1] = e
    BY <1>1, AppendFacts
<1>3. Len(commits) \in Nat
    BY <1>1
<1>4. \A c \in 1 .. Len(commits') : c \in 1 .. Len(commits) \/ c = Len(commits) + 1
    BY <1>2, <1>3
<1>5. QED
    BY <1>2, <1>4 DEF Recorded, MergesWhatPassed, Commits

----------------------------------------------------------------------------
(* The Job *)

\* What the updates of the Job do to the fields that count.
LEMMA Updates ==
    ASSUME NEW j, IsJob(j), NEW code
    PROVE  /\ IsJob(Ends(j, code)) /\ Ends(j, code).phase = "blocked"
           /\ Ends(j, code).resume = j.resume
           /\ Ends(j, code).merge = j.merge /\ Ends(j, code).pub = j.pub
           /\ IsJob(Blocked(j, code)) /\ Blocked(j, code).phase = "blocked"
           /\ Blocked(j, code).resume = j.phase
           /\ Blocked(j, code).merge = j.merge /\ Blocked(j, code).pub = j.pub
           /\ IsJob(Waits(j)) /\ Waits(j).phase = j.phase /\ Waits(j).resume = j.resume
           /\ Waits(j).merge = j.merge /\ Waits(j).pub = j.pub
           /\ IsJob(Invalidated(j)) /\ Invalidated(j).phase = "accepted"
           /\ Invalidated(j).merge = NoMerge
    BY DEF IsJob, Ends, Blocked, Waits, Invalidated, NoMerge

\* A step that reads, saves j and goes on to p keeps the invariant if j fits p.
LEMMA ReadKeeps ==
    ASSUME IInv, NEW j, NEW p, Then(j, p), Fits(j, p)
    PROVE  IInv'
<1> USE DEF Then, remote, history, budgets
<1>1. Fits(job, pc)'
    BY DEF Fits, IsJob, Placed, Counted, Cleared, Owes
<1>2. (sends \in Nat /\ MergeBudget)'
    BY DEF IInv, MergeBudget
<1>3. Requested'
    BY DEF IInv, Requested
<1>4. (Recorded /\ MergesWhatPassed)'
    BY DEF IInv, Recorded, MergesWhatPassed, Commits
<1>5. QED
    BY <1>1, <1>2, <1>3, <1>4 DEF IInv

\* A lane that gives up may leave the Job as it is, waiting, or blocked.
LEMMA Stopping ==
    ASSUME IInv, NEW code
    PROVE  /\ Fits(job, "idle") /\ Fits(Waits(job), "idle")
           /\ Fits(Ends(job, code), "idle") \/ job.phase \notin Delivering
           /\ Fits(Blocked(job, code), "idle")
           /\ Fits(Invalidated(job), "idle")
           /\ Fits(Blocked(Invalidated(job), code), "idle")
<1>1. IsJob(job) /\ Counted(job, pc, sends)
    BY DEF IInv, Fits
<1>2. IsJob(Invalidated(job))
    BY <1>1, Updates
<1>3. NoMerge.tries = 0 /\ MergeAttempts \in Nat
    BY PublishedHeadAssumption DEF NoMerge
<1> USE DEF Fits, Placed, Counted, Cleared, Owes, Delivering
<1>4. Fits(job, "idle") /\ Fits(Waits(job), "idle")
    BY <1>1, Updates
<1>5. Fits(Ends(job, code), "idle") \/ job.phase \notin Delivering
    BY <1>1, Updates
<1>6. Fits(Blocked(job, code), "idle")
    BY <1>1, Updates
<1>7. Fits(Invalidated(job), "idle")
    BY <1>1, <1>3, Updates
<1>8. Fits(Blocked(Invalidated(job), code), "idle")
    BY <1>1, <1>2, <1>3, Updates
<1>9. QED
    BY <1>4, <1>5, <1>6, <1>7, <1>8

\* A step that sends a request keeps it, if a merge is sent for a cleared head
\* that was counted.
LEMMA SendKeeps ==
    ASSUME IInv, NEW r, NEW p, Sends(r, p), p \notin {"idle", "attempt", "merge"},
           pc # "idle", p \in Boundary <=> pc \in Boundary,
           \/ r.kind # "merge" /\ sends' = sends
           \/ r.kind = "merge" /\ r.head \in passed /\ pc = "merge" /\ sends' = sends + 1
    PROVE  IInv'
<1> USE DEF Sends, remote, budgets
<1>1. Fits(job, pc) /\ sends \in Nat
    BY DEF IInv
<1>2. MergeAttempts \in Nat
    BY PublishedHeadAssumption
<1>3. IsJob(job)' /\ Placed(job, pc)' /\ Cleared(job, pc)'
    BY <1>1 DEF Fits, IsJob, Placed, Cleared
<1>4. CASE r.kind # "merge" /\ sends' = sends
    <2>1. Counted(job, pc, sends)'
        BY <1>1, <1>4 DEF Fits, Counted, Owes
    <2>2. Requested'
        BY <1>4 DEF IInv, Requested
    <2>3. QED
        BY <1>3, <1>4, <2>1, <2>2
        DEF IInv, Fits, MergeBudget, Recorded, MergesWhatPassed, Commits
<1>5. CASE r.kind = "merge" /\ r.head \in passed /\ pc = "merge" /\ sends' = sends + 1
    <2>1. sends < job.merge.tries /\ job.merge.tries \in 0 .. MergeAttempts
        BY <1>1, <1>5 DEF Fits, Counted
    <2>2. sends' \in Nat /\ sends' <= job.merge.tries /\ sends' <= MergeAttempts
        BY <1>1, <1>2, <1>5, <2>1
    <2>3. Counted(job, pc, sends)' /\ MergeBudget'
        BY <2>1, <2>2 DEF Counted, Owes, MergeBudget
    <2>4. Requested'
        BY <1>5 DEF IInv, Requested
    <2>5. QED
        BY <1>3, <2>2, <2>3, <2>4
        DEF IInv, Fits, Recorded, MergesWhatPassed, Commits
<1>6. QED
    BY <1>4, <1>5

----------------------------------------------------------------------------
(* The steps of the lane *)

\* Steps between two stages of the delivery.
LEMMA EngineKeeps ==
    ASSUME IInv, SettlePrWrite \/ Begin \/ Develop \/ Escalate \/ TimeOut
    PROVE  IInv'
<1>1. IsJob(job) /\ Counted(job, pc, sends) /\ sends \in Nat
    BY DEF IInv, Fits
<1> DEFINE Entered(j) == Fits(j, Entry(job.phase))
<1>2. ASSUME job.phase \in Active, NEW j, IsJob(j), j.phase = job.phase,
             j.merge = job.merge, j.resume = job.resume
      PROVE  Entered(j)
    BY <1>1, <1>2 DEF Fits, Placed, Counted, Cleared, Owes, Entry, Active, Delivering, Boundary
<1>3. CASE SettlePrWrite
    <2> DEFINE seen == PrWriteSeen(job.write)
               k == [job EXCEPT !.write = NoWrite, !.waiting = FALSE,
                                !.pr = @ \/ seen # "absent"]
    <2>1. IsJob(k) /\ k.phase = job.phase /\ k.merge = job.merge /\ k.resume = job.resume
        BY <1>1 DEF IsJob
    <2>2. Entered(k)
        BY <1>2, <1>3, <2>1 DEF SettlePrWrite
    <2>3. \/ Then(Blocked(job, "change_pr_write_reconciliation_pending"), "idle")
          \/ Then(k, Entry(job.phase))
        BY <1>3 DEF SettlePrWrite, Stops, Goes
    <2>4. QED
        BY <2>2, <2>3, Stopping, ReadKeeps
<1>4. CASE Begin
    <2> DEFINE k == [job EXCEPT !.waiting = FALSE]
    <2>1. IsJob(k) /\ k.phase = job.phase /\ k.merge = job.merge /\ k.resume = job.resume
        BY <1>1 DEF IsJob
    <2>2. Entered(k) /\ Then(k, Entry(job.phase))
        BY <1>2, <1>4, <2>1 DEF Begin, Goes
    <2>3. QED
        BY <2>2, ReadKeeps
<1>5. CASE Develop
    <2> DEFINE k == [job EXCEPT !.phase = "accepted", !.cand = @ + 1]
    <2>1. IsJob(k) /\ k.phase = "accepted" /\ k.merge = job.merge
        BY <1>1 DEF IsJob
    <2>2. Fits(k, "idle")
        BY <1>1, <2>1 DEF Fits, Placed, Counted, Cleared, Owes, Delivering
    <2>3. Then(Blocked(job, "effective_revision_mismatch"), "idle") \/ Then(k, "idle")
        BY <1>5 DEF Develop, Stops
    <2>4. QED
        BY <2>2, <2>3, Stopping, ReadKeeps
<1>6. CASE Escalate \/ TimeOut
    <2>1. \/ Then(Blocked(job, "ci_development_budget_exhausted"), "idle")
          \/ Then(Blocked(job, "ticket_supervision_timeout"), "idle")
        BY <1>6 DEF Escalate, TimeOut, Stops
    <2>2. QED
        BY <2>1, Stopping, ReadKeeps
<1>7. QED
    BY <1>3, <1>4, <1>5, <1>6

\* A step inside the gate may go on with the Job as it is, or with a Job that
\* differs in what does not count.
LEMMA GoingOn ==
    ASSUME IInv, pc # "idle", NEW p, p \notin {"idle", "attempt", "merge"},
           p \in Boundary <=> pc \in Boundary,
           NEW j, IsJob(j), j.phase = job.phase, j.merge = job.merge
    PROVE  Fits(j, p)
<1>1. Fits(job, pc)
    BY DEF IInv
<1>2. j.phase \in Delivering \cup {"accepted"}
    BY <1>1 DEF Fits, Placed
<1>3. QED
    BY <1>1, <1>2 DEF Fits, Placed, Counted, Cleared, Owes, Delivering

\* Steps of the integration with the live heads, up to the publication.
LEMMA IntegrationKeeps ==
    ASSUME IInv, Observe \/ Integrate \/ Recheck \/ Publish \/ Discard
    PROVE  IInv'
<1>1. IsJob(job) /\ Counted(job, pc, sends) /\ sends \in Nat /\ Placed(job, pc)
    BY DEF IInv, Fits
<1>2. pc # "idle" /\ pc \in Boundary /\ job.phase = "accepted"
    BY <1>1 DEF Observe, Integrate, Recheck, Publish, Discard, Placed, Boundary
<1>3. Fits(job, "publication")
    BY <1>1, <1>2, GoingOn DEF Boundary
<1>4. CASE Observe
    <2>1. IsJob(Reopened(job, source, target))
          /\ Reopened(job, source, target).phase = "accepted"
          /\ Reopened(job, source, target).merge \in {job.merge, NoMerge}
        <3>1. IsJob(Invalidated(job)) /\ Invalidated(job).phase = "accepted"
              /\ Invalidated(job).merge = NoMerge
            BY <1>1, Updates
        <3>2. QED
            BY <1>1, <1>2, <3>1 DEF Reopened, IsJob
    <2>2. Fits(Reopened(job, source, target), "integrate")
        BY <1>1, <2>1, PublishedHeadAssumption
        DEF Fits, Placed, Counted, Cleared, Owes, Delivering, Boundary, NoMerge
    <2>3. \/ Then(Blocked(job, "integration_history_rewritten"), "idle")
          \/ Then(job, "publication")
          \/ Then(Blocked(Invalidated(job), "integration_resync_exhausted"), "idle")
          \/ Then(Reopened(job, source, target), "integrate")
        BY <1>4 DEF Observe, Stops, Goes
    <2>4. QED
        BY <1>3, <2>2, <2>3, Stopping, ReadKeeps
<1>5. CASE Integrate
    <2> DEFINE record == [cand |-> job.cand, src |-> job.window.src, tgt |-> job.window.tgt]
               k == [job EXCEPT !.record = record, !.window.open = FALSE]
    <2>1. IsJob(k) /\ k.phase = job.phase /\ k.merge = job.merge
        BY <1>1 DEF IsJob
    <2>2. Fits(k, "recheck") /\ Then(k, "recheck")
        BY <1>2, <1>5, <2>1, GoingOn DEF Integrate, Goes, Boundary
    <2>3. QED
        BY <2>2, ReadKeeps
<1>6. CASE Recheck
    <2>1. Then(job, "publication") \/ Then(Invalidated(job), "idle")
        BY <1>6 DEF Recheck, Goes, Stops
    <2>2. QED
        BY <1>3, <2>1, Stopping, ReadKeeps
<1>7. CASE Publish
    <2> DEFINE e == Publication(job.cand, job.record.src, job.record.tgt)
    <2>1. IsJob(job)' /\ job'.phase = "publishing" /\ job'.merge = job.merge
          /\ sends' = 0 /\ pc' = "idle" /\ UNCHANGED <<flight, passed>>
        BY <1>1, <1>7 DEF Publish, IsJob
    <2>2. Fits(job, pc)' /\ (sends \in Nat /\ MergeBudget)'
        BY <1>1, <2>1, PublishedHeadAssumption
        DEF Fits, Placed, Counted, Cleared, MergeBudget
    <2>3. Requested'
        BY <2>1 DEF IInv, Requested
    <2>4. e.kind # "ours"
        BY DEF Publication
    <2>5. (Recorded /\ MergesWhatPassed)'
        BY <1>7, <2>1, <2>4, AppendKeeps DEF Publish, IInv
    <2>6. QED
        BY <2>2, <2>3, <2>5 DEF IInv
<1>8. CASE Discard
    <2> DEFINE k == [job EXCEPT !.phase = "developing"]
    <2>1. IsJob(k) /\ k.phase = "developing" /\ k.merge = job.merge
        BY <1>1 DEF IsJob
    <2>2. Fits(k, "idle") /\ Then(k, "idle")
        BY <1>1, <1>8, <2>1 DEF Discard, Stops, Fits, Placed, Counted, Cleared, Owes, Delivering
    <2>3. QED
        BY <2>2, ReadKeeps
<1>9. QED
    BY <1>4, <1>5, <1>6, <1>7, <1>8

\* Inside the gate the phase is one of a publication on its way.
LEMMA InGate ==
    ASSUME IInv, pc \notin Boundary \cup {"idle"}
    PROVE  /\ IsJob(job) /\ job.phase \in Delivering /\ Counted(job, pc, sends)
           /\ sends \in Nat /\ sends <= job.merge.tries
    BY DEF IInv, Fits, Placed, Counted, Owes

\* Inside the gate a lane stops with the Job as it is, waiting, blocked or
\* invalidated, or goes on with a Job that differs in what does not count.
LEMMA GateRead ==
    ASSUME IInv, pc \notin Boundary \cup {"idle"}, NEW code, NEW j, NEW p,
           \/ Stops(Waits(job)) \/ Stops(Blocked(job, code)) \/ Stops(Ends(job, code))
           \/ Stops(Invalidated(job))
           \/ /\ Then(j, p) /\ p \notin Boundary \cup {"idle", "attempt", "merge"}
              /\ IsJob(j) /\ j.phase = job.phase /\ j.merge = job.merge
    PROVE  IInv'
<1>1. job.phase \in Delivering
    BY InGate
<1>2. /\ Fits(Waits(job), "idle") /\ Fits(Blocked(job, code), "idle")
      /\ Fits(Ends(job, code), "idle") /\ Fits(Invalidated(job), "idle")
    BY <1>1, Stopping
<1>3. ASSUME NEW k, Stops(k), Fits(k, "idle") PROVE IInv'
    BY <1>3, ReadKeeps DEF Stops
<1>4. CASE /\ Then(j, p) /\ p \notin Boundary \cup {"idle", "attempt", "merge"}
           /\ IsJob(j) /\ j.phase = job.phase /\ j.merge = job.merge
    <2>1. Fits(j, p)
        BY <1>4, GoingOn
    <2>2. QED
        BY <1>4, <2>1, ReadKeeps
<1>5. QED
    BY <1>2, <1>3, <1>4

\* Steps of the gate up to the push.
LEMMA PushKeeps ==
    ASSUME IInv, Enter \/ Heads \/ Verify \/ SendPush \/ Pushed \/ SettlePush
    PROVE  IInv'
<1>1. pc \in {"enter", "heads", "verify", "push", "pushed", "settle"}
    BY DEF Enter, Heads, Verify, SendPush, Pushed, SettlePush
<1>2. pc \notin Boundary \cup {"idle"} /\ IsJob(job)
    BY <1>1, InGate DEF Boundary
<1>3. CASE Enter
    <2>1. \/ \E code : Stops(Blocked(job, code))
          \/ Then(job, "heads") \/ Then(job, "sync")
        BY <1>3 DEF Enter, ReadMerged, Goes
    <2>2. QED
        BY <1>2, <2>1, GateRead DEF Boundary
<1>4. CASE Heads
    <2>1. \/ Stops(Invalidated(job)) \/ \E code : Stops(Blocked(job, code))
          \/ Then(job, "verify")
        BY <1>4 DEF Heads
    <2>2. QED
        BY <1>2, <2>1, GateRead DEF Boundary
<1>5. CASE Verify
    <2> DEFINE k == [job EXCEPT !.write = RefIntent(job)]
    <2>1. IsJob(k) /\ k.phase = job.phase /\ k.merge = job.merge
        BY <1>2 DEF IsJob
    <2>2. \/ Stops(Invalidated(job)) \/ Stops(Waits(job))
          \/ \E code : Stops(Blocked(job, code))
          \/ Then(job, "settle") \/ Then(k, "push")
        BY <1>5 DEF Verify, Goes, Fails
    <2>3. QED
        BY <1>2, <2>1, <2>2, GateRead DEF Boundary
<1>6. CASE SendPush
    <2>1. PushRequest.kind = "push" /\ Sends(PushRequest, "pushed") /\ sends' = sends
        BY <1>6 DEF SendPush, PushRequest, Request
    <2>2. QED
        BY <1>2, <2>1, SendKeeps DEF Boundary
<1>7. CASE Pushed
    <2>1. \/ Stops(Invalidated(job)) \/ Stops(Waits(job)) \/ Then(job, "settle")
        BY <1>7 DEF Pushed, Goes
    <2>2. QED
        BY <1>2, <2>1, GateRead DEF Boundary
<1>8. CASE SettlePush
    <2> DEFINE k == [job EXCEPT !.write = IF @ = RefIntent(job) THEN NoWrite ELSE @,
                                !.published = job.pub]
    <2>1. IsJob(k) /\ k.phase = job.phase /\ k.merge = job.merge
        BY <1>2 DEF IsJob
    <2>2. Then(k, "intend")
        BY <1>8 DEF SettlePush, Goes
    <2>3. QED
        BY <1>2, <2>1, <2>2, GateRead DEF Boundary
<1>9. QED
    BY <1>3, <1>4, <1>5, <1>6, <1>7, <1>8

\* Steps that propose the pull request.
LEMMA ProposeKeeps ==
    ASSUME IInv, Intend \/ Ensure \/ SendPr \/ Confirm
    PROVE  IInv'
<1>1. pc \in {"intend", "ensure", "propose", "confirm"}
    BY DEF Intend, Ensure, SendPr, Confirm
<1>2. pc \notin Boundary \cup {"idle"} /\ IsJob(job)
    BY <1>1, InGate DEF Boundary
<1>3. CASE Intend
    <2> DEFINE k == [job EXCEPT !.write = [NoWrite EXCEPT !.kind = "pr", !.head = job.pub]]
    <2>1. IsJob(k) /\ k.phase = job.phase /\ k.merge = job.merge
        BY <1>2 DEF IsJob
    <2>2. \/ Stops(Blocked(job, Stale))
          \/ Then(k, "ensure")
        BY <1>3 DEF Intend, Goes
    <2>3. CASE Stops(Blocked(job, Stale))
        BY <1>2, <2>3, GateRead
    <2>4. CASE Then(k, "ensure")
        <3> HIDE DEF k
        <3>1. Fits(k, "ensure")
            BY <1>2, <2>1, GoingOn DEF Boundary
        <3>2. QED
            BY <2>4, <3>1, ReadKeeps
    <2>5. QED
        BY <2>2, <2>3, <2>4
<1>4. CASE Ensure
    <2> DEFINE k == [job EXCEPT !.write.prior = IF Open THEN pr.text ELSE None,
                                !.write.text = job.pub]
    <2>1. IsJob(k) /\ k.phase = job.phase /\ k.merge = job.merge
        BY <1>2 DEF IsJob
    <2>2. \/ Stops(Waits(job)) \/ \E code : Stops(Blocked(job, code))
          \/ Then(k, "confirm") \/ Then(k, "propose")
        BY <1>4 DEF Ensure, Goes, Fails
    <2>3. QED
        BY <1>2, <2>1, <2>2, GateRead DEF Boundary
<1>5. CASE SendPr
    <2>1. PrRequest.kind \in {"create", "edit"} /\ Sends(PrRequest, "confirm") /\ sends' = sends
        BY <1>5 DEF SendPr, PrRequest, Request
    <2>2. QED
        BY <1>2, <2>1, SendKeeps DEF Boundary
<1>6. CASE Confirm
    <2> DEFINE k == [job EXCEPT !.write = NoWrite, !.pr = TRUE]
    <2>1. IsJob(k) /\ k.phase = job.phase /\ k.merge = job.merge
        BY <1>2 DEF IsJob
    <2>2. \/ Stops(Waits(job)) \/ \E code : Stops(Blocked(job, code))
          \/ Then(k, "live")
        BY <1>6 DEF Confirm, Goes
    <2>3. QED
        BY <1>2, <2>1, <2>2, GateRead DEF Boundary
<1>7. QED
    BY <1>3, <1>4, <1>5, <1>6

\* Steps of the gate itself.
LEMMA CheckKeeps ==
    ASSUME IInv, Live \/ Checks \/ Gate
    PROVE  IInv'
<1>1. pc \in {"live", "checks", "gate"}
    BY DEF Live, Checks, Gate
<1>2. pc \notin Boundary \cup {"idle"}
    BY <1>1 DEF Boundary
<1>3. IsJob(job) /\ job.phase \in Delivering /\ Counted(job, pc, sends)
      /\ sends <= job.merge.tries
    BY <1>2, InGate
<1>4. CASE Live
    <2>1. \/ \E code : Stops(Blocked(job, code))
          \/ Then(job, "checks")
        BY <1>4 DEF Live, Goes
    <2>2. QED
        BY <1>2, <1>3, <2>1, GateRead DEF Boundary
<1>5. CASE Checks
    <2> DEFINE Phase(p) == [job EXCEPT !.phase = p]
    <2>1. ASSUME NEW p PROVE IsJob(Phase(p)) /\ Phase(p).phase = p /\ Phase(p).merge = job.merge
        BY <1>3 DEF IsJob
    <2>2. Fits(Waits(Phase("waiting_checks")), "idle")
        <3> DEFINE j == Phase("waiting_checks")
        <3>1. IsJob(j) /\ j.merge = job.merge
            BY <2>1
        <3> HIDE DEF j
        <3>2. IsJob(Waits(j)) /\ Waits(j).merge = job.merge
            BY <3>1, Updates
        <3>3. Fits(Waits(j), "idle")
            BY <1>3, <3>2 DEF Fits, Placed, Counted, Cleared
        <3>4. QED
            BY <3>3 DEF j
    <2>3. ASSUME NEW p \in {"repairing", "escalating"} PROVE Fits(Phase(p), "idle")
        BY <1>3, <2>1, <2>3 DEF Fits, Placed, Counted, Cleared, Owes, Delivering
    <2>4. \/ \E code : Stops(Blocked(job, code))
          \/ Then(job, "gate")
          \/ Then(Waits(Phase("waiting_checks")), "idle")
          \/ Then(Phase("repairing"), "idle") \/ Then(Phase("escalating"), "idle")
        BY <1>5 DEF Checks, Goes, Stops
    <2>5. QED
        BY <1>2, <1>3, <2>2, <2>3, <2>4, GateRead, ReadKeeps DEF Boundary
<1>6. CASE Gate
    <2>1. \/ \E code : Stops(Blocked(job, code))
          \/ Then(job, "final")
        BY <1>6 DEF Gate, Goes
    <2>2. QED
        BY <1>2, <1>3, <2>1, GateRead DEF Boundary
<1>7. QED
    BY <1>4, <1>5, <1>6

\* Steps from the last look at the heads to the merge.
LEMMA MergeKeeps ==
    ASSUME IInv, Final \/ Attempt \/ SendMerge \/ Merged
    PROVE  IInv'
<1>1. pc \in {"final", "attempt", "merge", "merged"}
    BY DEF Final, Attempt, SendMerge, Merged
<1>2. pc \notin Boundary \cup {"idle"}
    BY <1>1 DEF Boundary
<1>3. IsJob(job) /\ job.phase \in Delivering /\ Counted(job, pc, sends)
      /\ sends \in Nat /\ sends <= job.merge.tries /\ Cleared(job, pc)
    BY <1>2, InGate DEF IInv, Fits
<1>4. MergeAttempts \in Nat
    BY PublishedHeadAssumption
<1>5. CASE Final
    <2> DEFINE goes == /\ job' = [job EXCEPT !.phase = "merging",
                                    !.merge = IF @ = NoMerge THEN MergeIntent ELSE @]
                       /\ passed' = passed \cup {job.pub} /\ pc' = "attempt"
                       /\ UNCHANGED <<remote, flight, sends>>
    <2>1. \/ Stops(Invalidated(job)) \/ \E code : Stops(Blocked(job, code))
          \/ goes
        BY <1>5 DEF Final
    <2>2. CASE goes
        <3>1. IsJob(job') /\ job'.phase = "merging" /\ job'.pub = job.pub
              /\ job'.merge.tries = job.merge.tries
            BY <1>3, <2>2 DEF IsJob, NoMerge, MergeIntent
        <3>2. Fits(job, pc)'
            BY <1>3, <2>2, <3>1
            DEF Fits, IsJob, Placed, Counted, Cleared, Owes, Delivering, Boundary
        <3>3. (sends \in Nat /\ MergeBudget)'
            BY <2>2 DEF IInv, MergeBudget
        <3>4. (Requested /\ Recorded /\ MergesWhatPassed)'
            BY <2>2 DEF IInv, Requested, Recorded, MergesWhatPassed, Commits, remote
        <3>5. QED
            BY <3>2, <3>3, <3>4 DEF IInv
    <2>3. QED
        BY <1>2, <2>1, <2>2, GateRead
<1>6. CASE Attempt
    <2> DEFINE k == Attempted(job)
    <2>1. IsJob(k) /\ k.phase = job.phase /\ k.pub = job.pub
          /\ k.merge.tries = job.merge.tries + 1
        BY <1>3 DEF Attempted, IsJob
    <2>2. Stops(Waits(job)) \/ (job.merge.tries < MergeAttempts /\ Then(k, "merge"))
        BY <1>3, <1>4, <1>6 DEF Attempt, Goes, Counted
    <2>3. job.pub \in passed
        BY <1>3, <1>6 DEF Attempt, Cleared
    <2>4. ASSUME job.merge.tries < MergeAttempts PROVE Fits(k, "merge")
        <3>1. job.merge.tries \in 0 .. MergeAttempts
            BY <1>3 DEF Counted
        <3>2. Counted(k, "merge", sends)
            BY <1>3, <1>4, <2>1, <2>4, <3>1 DEF Counted
        <3>3. QED
            BY <1>3, <2>1, <2>3, <3>2 DEF Fits, Placed, Cleared, Boundary
    <2>5. QED
        BY <1>2, <2>2, <2>4, GateRead, ReadKeeps
<1>7. CASE SendMerge
    <2>1. MergeRequest.kind = "merge" /\ MergeRequest.head = job.pub
          /\ Sends(MergeRequest, "merged") /\ sends' = sends + 1 /\ pc = "merge"
        BY <1>7 DEF SendMerge, MergeRequest, Request
    <2>2. job.pub \in passed
        BY <1>3, <2>1 DEF Cleared
    <2>3. QED
        BY <1>2, <2>1, <2>2, SendKeeps DEF Boundary
<1>8. CASE Merged
    <2> DEFINE k == [job EXCEPT !.integrated = pr.merged]
    <2>1. IsJob(k) /\ k.phase = job.phase /\ k.merge = job.merge
        BY <1>3 DEF IsJob
    <2>2. Stops(Waits(job)) \/ Then(k, "sync")
        BY <1>8 DEF Merged
    <2>3. QED
        BY <1>2, <2>1, <2>2, GateRead DEF Boundary
<1>9. QED
    BY <1>5, <1>6, <1>7, <1>8

\* Steps after the merge, to the end of the delivery.
LEMMA CloseKeeps ==
    ASSUME IInv, Sync \/ After \/ Prepare \/ Commented \/ Close \/ SendClose \/ Closed
    PROVE  IInv'
<1>1. pc \in {"sync", "after", "prepare", "commented", "close", "dispatch", "closed"}
    BY DEF Sync, After, Prepare, Commented, Close, SendClose, Closed
<1>2. pc \notin Boundary \cup {"idle"}
    BY <1>1 DEF Boundary
<1>3. IsJob(job) /\ job.phase \in Delivering /\ Counted(job, pc, sends)
      /\ sends \in Nat /\ sends <= job.merge.tries
    BY <1>2, InGate
<1>4. ASSUME Stops(Completed(job)) \/ Stops(Conflicted(job)) PROVE IInv'
    <2>1. Fits(Completed(job), "idle")
        <3>1. IsJob(Completed(job)) /\ Completed(job).phase = "completed"
              /\ Completed(job).merge = job.merge
            BY <1>3 DEF Completed, IsJob
        <3>2. QED
            BY <1>3, <3>1 DEF Fits, Placed, Counted, Cleared
    <2>2. ASSUME Stops(Completed(job)) PROVE IInv'
        BY <2>1, <2>2, ReadKeeps DEF Stops
    <2>3. QED
        BY <1>2, <1>4, <2>2, GateRead DEF Conflicted
<1>5. IsJob(Prepared(job)) /\ Prepared(job).phase = job.phase
      /\ Prepared(job).merge = job.merge
    BY <1>3 DEF Prepared, IsJob
<1>6. CASE Sync
    <2>1. \/ Stops(Waits(job)) \/ \E code : Stops(Blocked(job, code))
          \/ Then(job, "after")
        BY <1>6 DEF Sync, Fails, Goes
    <2>2. QED
        BY <1>2, <1>3, <2>1, GateRead DEF Boundary
<1>7. CASE After
    <2> DEFINE j == [job EXCEPT !.integrated = loc.integrated]
               k == [j EXCEPT !.phase = "merged"]
    <2>1. IsJob(j) /\ j.phase = job.phase /\ j.merge = job.merge /\ j.resume = job.resume
        BY <1>3 DEF IsJob
    <2>2. ASSUME NEW code PROVE Fits(Ends(j, code), "idle")
        <3> HIDE DEF j
        <3>1. IsJob(Ends(j, code)) /\ Ends(j, code).merge = job.merge
            BY <2>1, Updates
        <3>2. QED
            BY <1>3, <3>1 DEF Fits, Placed, Counted, Cleared
    <2>3. IsJob(k) /\ k.phase = "merged" /\ k.merge = job.merge
        BY <2>1 DEF IsJob
    <2>4. Fits(k, "prepare")
        BY <1>3, <2>3 DEF Fits, Placed, Counted, Cleared, Delivering, Boundary
    <2>5. \/ \E code : Then(Ends(j, code), "idle")
          \/ Then(k, "prepare")
        BY <1>7 DEF After, Stops, Goes
    <2>6. QED
        BY <2>2, <2>4, <2>5, ReadKeeps
<1>8. CASE Prepare
    <2>1. CommentRequest.kind = "comment"
        BY DEF CommentRequest, Request
    <2>2. \/ Then(job, "close") \/ Stops(Waits(job)) \/ Then(Prepared(job), "close")
          \/ Sends(CommentRequest, "commented") /\ sends' = sends
        BY <1>8 DEF Prepare, Goes
    <2>3. QED
        BY <1>2, <1>3, <1>5, <2>1, <2>2, GateRead, SendKeeps DEF Boundary
<1>9. CASE Commented
    <2>1. Stops(Waits(job)) \/ Then(Prepared(job), "close")
        BY <1>9 DEF Commented, Goes
    <2>2. QED
        BY <1>2, <1>5, <2>1, GateRead DEF Boundary
<1>10. CASE Close
    <2> DEFINE k == [job EXCEPT !.close.sent = TRUE]
    <2>1. IsJob(k) /\ k.phase = job.phase /\ k.merge = job.merge
        BY <1>3 DEF IsJob
    <2>2. Stops(Completed(job)) \/ Stops(Conflicted(job)) \/ Then(k, "dispatch")
        BY <1>10 DEF Close, Goes
    <2>3. QED
        BY <1>2, <1>4, <2>1, <2>2, GateRead DEF Boundary
<1>11. CASE SendClose
    <2>1. CloseRequest.kind = "close" /\ Sends(CloseRequest, "closed") /\ sends' = sends
        BY <1>11 DEF SendClose, CloseRequest, Request
    <2>2. QED
        BY <1>2, <2>1, SendKeeps DEF Boundary
<1>12. CASE Closed
    <2>1. Stops(Completed(job)) \/ Stops(Conflicted(job)) \/ Stops(Waits(job))
        BY <1>12 DEF Closed
    <2>2. QED
        BY <1>2, <1>4, <2>1, GateRead
<1>13. QED
    BY <1>6, <1>7, <1>8, <1>9, <1>10, <1>11, <1>12

----------------------------------------------------------------------------
(* What happens around the lane *)

\* A step that leaves the commits, what passed, the count of requests, and
\* sends nothing, keeps the invariant if the Job still fits.
LEMMA QuietKeeps ==
    ASSUME IInv, UNCHANGED <<commits, passed, sends>>, flight' \subseteq flight,
           Fits(job', pc')
    PROVE  IInv'
<1>1. Fits(job, pc)'
    BY DEF Fits, IsJob, Placed, Counted, Cleared, Owes
<1>2. QED
    BY <1>1 DEF IInv, MergeBudget, Requested, Recorded, MergesWhatPassed, Commits

\* Interruptions, lost requests and Ticket Resumes.
LEMMA FaultKeeps ==
    ASSUME IInv, Interrupted \/ Resume \/ \E r \in flight : Lose(r)
    PROVE  IInv'
<1>1. /\ Fits(job, pc) /\ sends \in Nat
      /\ Fits(job, "idle") /\ Fits(Waits(job), "idle")
    BY Stopping DEF IInv
<1>2. CASE Interrupted
    BY <1>1, <1>2, QuietKeeps DEF Interrupted, remote, history
<1>3. CASE Resume
    <2> DEFINE k == [job EXCEPT !.phase = job.resume, !.reason = "none", !.resume = "none"]
    <2>1. job.phase = "blocked" /\ pc = "idle" /\ job' = k /\ pc' = "idle"
          /\ UNCHANGED <<commits, passed, sends, flight>>
        BY <1>3 DEF Resume, remote, history
    <2>2. IsJob(k) /\ k.phase = job.resume /\ k.resume = "none" /\ k.merge = job.merge
        BY <1>1 DEF Fits, IsJob
    <2>3. Owes(k) => Owes(job)
        BY <2>1, <2>2 DEF Owes, Delivering
    <2>4. Fits(k, "idle")
        BY <1>1, <2>2, <2>3 DEF Fits, Placed, Counted, Cleared
    <2>5. QED
        BY <2>1, <2>4, QuietKeeps
<1>4. CASE \E r \in flight : Lose(r)
    <2>1. PICK r \in flight : Lose(r)
        BY <1>4
    <2>2. /\ UNCHANGED <<commits, passed, sends>> /\ flight' \subseteq flight
          /\ UNCHANGED <<job, pc>> \/ (job' = Waits(job) /\ pc' = "idle")
        BY <2>1 DEF Lose, remote, history
    <2>3. QED
        BY <1>1, <2>2, QuietKeeps
<1>5. QED
    BY <1>2, <1>3, <1>4

\* What only GitHub sees keeps the invariant, if the commit it appends, if any,
\* is no merge of the Runner's of a head that never passed.
LEMMA RemoteKeeps ==
    ASSUME IInv, UNCHANGED <<job, pc, passed, sends>>, flight' \subseteq flight,
           \/ commits' = commits
           \/ \E e : (e.kind = "ours" => e.src \in passed) /\ commits' = Append(commits, e)
    PROVE  IInv'
<1>1. (Recorded /\ MergesWhatPassed)'
    BY AppendKeeps DEF IInv, Recorded, MergesWhatPassed, Commits
<1>2. Fits(job, pc)'
    BY DEF IInv, Fits, IsJob, Placed, Counted, Cleared, Owes
<1>3. QED
    BY <1>1, <1>2 DEF IInv, MergeBudget, Requested

\* A request lands.
LEMMA LandKeeps ==
    ASSUME IInv, NEW r \in flight, Land(r)
    PROVE  IInv'
<1>1. UNCHANGED <<job, pc, passed, sends>> /\ flight' \subseteq flight
    BY DEF Land
<1>2. CASE Accepts(r) /\ r.kind = "merge"
    <2> DEFINE e == Squash("ours", source)
    <2>1. source = r.head
        BY <1>2 DEF Accepts
    <2>2. e.kind = "ours" /\ e.src = source
        BY DEF Squash
    <2>3. e.src \in passed
        BY <1>2, <2>1, <2>2 DEF IInv, Requested
    <2>4. commits' = Append(commits, e)
        BY <1>2 DEF Land, Takes
    <2>5. QED
        BY <1>1, <2>3, <2>4, RemoteKeeps
<1>3. CASE ~(Accepts(r) /\ r.kind = "merge")
    <2>1. commits' = commits
        BY <1>3 DEF Land, Takes
    <2>2. QED
        BY <1>1, <2>1, RemoteKeeps
<1>4. QED
    BY <1>2, <1>3

\* People change GitHub.
LEMMA PeopleKeeps ==
    ASSUME IInv, People
    PROVE  IInv'
<1>1. UNCHANGED <<job, pc, passed, sends>> /\ flight' \subseteq flight
    BY DEF People, PushSource, PushTarget, MergeByHand, TouchPr, TouchIssue, Revise, Meddle
<1>2. /\ \A anc : Foreign(anc).kind = "foreign"
      /\ Squash("theirs", source).kind = "theirs"
    BY DEF Foreign, Squash
<1>3. \/ commits' = commits
      \/ commits' = Append(commits, Foreign(Lineage(source)))
      \/ commits' = Append(commits, Foreign({}))
      \/ commits' = Append(commits, Foreign(Lineage(target)))
      \/ commits' = Append(commits, Squash("theirs", source))
    BY DEF People, PushSource, PushTarget, MergeByHand, TouchPr, TouchIssue, Revise
<1>4. QED
    BY <1>1, <1>2, <1>3, RemoteKeeps

----------------------------------------------------------------------------
(* The theorems *)

LEMMA InitHolds == Init => IInv
<1> SUFFICES ASSUME Init PROVE IInv
    OBVIOUS
<1>1. commits = <<Foreign({})>> /\ Foreign({}).kind = "foreign"
    BY DEF Init, Foreign
<1>2. Recorded /\ MergesWhatPassed
    <2>1. commits \in Seq({Foreign({})}) /\ Len(commits) = 1 /\ commits[1] = Foreign({})
        BY <1>1
    <2>2. \A c \in Commits : commits[c].kind = "foreign"
        BY <1>1, <2>1 DEF Commits
    <2>3. QED
        BY <2>1, <2>2 DEF Recorded, MergesWhatPassed
<1>3. Fits(job, pc) /\ sends \in Nat /\ MergeBudget /\ Requested
    BY PublishedHeadAssumption
    DEF Init, Fits, IsJob, Placed, Counted, Cleared, Owes, Delivering, NoMerge,
        MergeBudget, Requested
<1>4. QED
    BY <1>2, <1>3 DEF IInv

LEMMA StepHolds == IInv /\ [Next]_vars => IInv'
<1> SUFFICES ASSUME IInv, [Next]_vars PROVE IInv'
    OBVIOUS
<1>1. CASE Lane
    BY <1>1, EngineKeeps, IntegrationKeeps, PushKeeps, ProposeKeeps, CheckKeeps,
       MergeKeeps, CloseKeeps DEF Lane
<1>2. CASE TimeOut
    BY <1>2, EngineKeeps
<1>3. CASE Resume \/ Interrupted \/ \E r \in flight : Lose(r)
    BY <1>3, FaultKeeps
<1>4. CASE GitHub
    BY <1>4, LandKeeps DEF GitHub
<1>5. CASE People
    BY <1>5, PeopleKeeps
<1>6. CASE UNCHANGED vars
    BY <1>6 DEF vars, IInv, Fits, IsJob, Placed, Counted, Cleared, Owes,
       MergeBudget, Requested, Recorded, MergesWhatPassed, Commits
<1>7. QED
    BY <1>1, <1>2, <1>3, <1>4, <1>5, <1>6 DEF Next, Over

\* What a merge request of the Runner puts on the Run Branch has passed the
\* gate, for any number of changes, faults, candidates and resumes.
THEOREM MergesSafe == Spec => []MergesWhatPassed
<1>1. IInv => MergesWhatPassed
    BY DEF IInv
<1>2. QED
    BY InitHolds, StepHolds, <1>1, PTL DEF Spec

\* One merge intent sends at most MergeAttempts requests, whatever becomes of
\* the processes that send them.
THEOREM MergeBudgetSafe == Spec => []MergeBudget
<1>1. IInv => MergeBudget
    BY DEF IInv
<1>2. QED
    BY InitHolds, StepHolds, <1>1, PTL DEF Spec
=============================================================================
