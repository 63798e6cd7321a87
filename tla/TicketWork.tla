----------------------------- MODULE TicketWork -----------------------------
(***************************************************************************)
(* How one Executor develops the Tickets of a Delivery Run: the durable    *)
(* FIFO of Agent work and its leases (ticket_work.py), the single          *)
(* integration seat and its queue (ticket_queue.py), the dispatcher and    *)
(* the supervision thread (ticket_scheduling.py, ticket_supervision.py),   *)
(* the lanes that carry one Ticket from stage to stage (change_delivery.py *)
(* and ticket_state.py), `stop --ticket' (ticket_pause.py) and             *)
(* `resume --ticket' (ticket_resume.py).                                   *)
(*                                                                         *)
(* Several threads of the Executor and two commands of the operator change *)
(* one Run state, each in short transactions.  A lane works on the Job it  *)
(* last read or saved; a save compares that copy with the durable Job and  *)
(* refuses to overwrite anybody else's change.                             *)
(*                                                                         *)
(* Data are abstracted to what the transitions test.  Development, repair, *)
(* candidate and review are one phase "developing", whose next step is     *)
(* one Agent unit; "checks" is waiting_checks; the two writes of a         *)
(* publication (ref and PR) are one; the graph is fixed and every Ticket   *)
(* is in the frontier until it completes.                                  *)
(***************************************************************************)
EXTENDS Integers, Sequences, FiniteSets

CONSTANTS Ticket,       \* the Tickets of the Run
          Observer,     \* the supervision thread, a lane without a fixed Ticket
          None,
          Capacity,     \* ticket_development_workers
          MaxRounds,    \* Agent units of one development budget window
          MaxPauses,    \* bound: accepted `stop --ticket' commands
          MaxResumes,   \* bound: accepted `resume --ticket' commands
          MaxRestarts,  \* bound: Executors started after the first
          Faults        \* which of "fail", "unknown", "crash", "stop" occur

ASSUME CapacityAssumption == Capacity \in Nat \ {0}
ASSUME BoundsAssumption == MaxRounds \in Nat
ASSUME TicketAssumption == /\ IsFiniteSet(Ticket)
                           /\ Observer \notin Ticket
                           /\ None \notin Ticket
                           /\ None # Observer

VARIABLES
  jobs,           \* ticket_jobs: the durable Job of each Ticket
  workQueue,      \* ticket_work_queue: at most one item a Ticket, in FIFO order
  leased,         \* the Tickets whose item has a lease_id
  holder,         \* ticket_integration_holder
  seatQueue,      \* ticket_integration_queue, by readiness time
  pauseRequests,  \* ticket_pause_requests
  status,         \* Run status: "active", or one of RUN_STOP_STATUSES
  executor,       \* "up"; "failing" once admission is closed; "down"
  pc,             \* where each lane is
  seen,           \* the Job each lane last read or saved
  observed,       \* the Ticket the supervision thread has claimed
  avoid,          \* the lanes that were running when supervision was submitted
  agents,         \* Tickets with a live Agent process
  refused,        \* the commits the state contract has rejected
  count           \* what the bounds count: pauses, resumes, restarts

store == <<jobs, workQueue, leased, holder, seatQueue, pauseRequests>>
lanes == <<pc, seen, observed, avoid>>
vars == <<store, status, executor, lanes, agents, refused, count>>

LaneId == Ticket \cup {Observer}

DevPhase == {"none", "developing", "committing"}
SeatPhase == {"accepted", "publishing", "checks", "merging", "merged"}
Phase == DevPhase \cup SeatPhase
           \cup {"escalating", "ready", "blocked", "completed"}
Reason == {"-", "paused", "failed", "human", "budget"}
Job == [phase : Phase, reason : Reason, back : Phase, slot : Phase,
        returned : BOOLEAN, intent : BOOLEAN, sent : BOOLEAN,
        rounds : 0 .. MaxRounds]

\* No Job yet.  back is pause_resume_phase or execution_resume_phase, slot is
\* integration_resume_phase ("none": the key is absent), returned a saved Agent
\* result, intent an unsettled ticket_write_intent, sent a merge attempt made.
NoJob == [phase |-> "none", reason |-> "-", back |-> "none", slot |-> "none",
          returned |-> FALSE, intent |-> FALSE, sent |-> FALSE, rounds |-> 0]

Items(q) == {q[i] : i \in DOMAIN q}

\* The elements of q that are in S, in their order.
Kept(q, S) ==
  LET f[i \in 0 .. Len(q)] ==
        IF i = 0 THEN <<>>
        ELSE IF q[i] \in S THEN Append(f[i - 1], q[i]) ELSE f[i - 1]
  IN f[Len(q)]
Without(q, S) == Kept(q, Ticket \ S)

-----------------------------------------------------------------------------
(* What a Job says of itself.                                              *)

\* ticket_program_ready: saved results are consumed before any Agent starts.
ProgramReady(j) == j.returned \/ j.phase = "committing"

\* Mutant: a blocked publication gives the seat back although its write is unsettled.
RequiresSeatByPhase(j) == j.phase \in SeatPhase

\* requires_integration_seat: a sent write keeps the exact boundary.
RequiresSeat(j) == j.intent \/ j.phase \in SeatPhase

\* can_pause_ticket: neither a settled gate nor a write that cannot be recalled.
CanPause(j) ==
  /\ j.phase \notin {"completed", "merged", "blocked", "escalating"}
  /\ ~j.intent
  /\ j.phase = "merging" => ~j.sent

Paused(j) == [j EXCEPT !.phase = "blocked", !.reason = "paused",
                       !.back = IF j.phase = "merging" THEN "checks" ELSE j.phase]
Failed(j) == [j EXCEPT !.phase = "blocked", !.reason = "failed", !.back = j.phase]
IsPaused(j) == j.phase = "blocked" /\ j.reason = "paused"

-----------------------------------------------------------------------------
(* The two queues.                                                         *)

\* Mutant: a Ticket that blocks keeps its place among the waiters.
ReconciledLoosely(js, q, held, asked) ==
  Kept(q, held \cup {t \in Ticket \ asked :
    /\ ~ProgramReady(js[t])
    /\ js[t].phase \notin {"completed", "ready", "checks", "merged"}})

\* ticket_work.reconcile: leased work stays; an obsolete waiter is cancelled.
Reconciled(js, q, held, asked) ==
  Kept(q, held \cup {t \in Ticket \ asked :
    /\ ~ProgramReady(js[t])
    /\ js[t].phase \notin {"blocked", "completed", "ready", "checks", "merged"}})

Enqueued(q, t) == IF t \in Items(q) THEN q ELSE Append(q, t)
Waiting(q) == Without(q, leased)

\* ticket_queue.reconcile and enqueue, for the Job j that Ticket t now has.
HolderAfter(t, j) ==
  IF RequiresSeat(j) THEN IF holder = None THEN t ELSE holder
  ELSE IF holder = t THEN None ELSE holder
SeatQueueAfter(t, j) ==
  IF j.phase = "ready" /\ HolderAfter(t, j) # t THEN Enqueued(seatQueue, t)
  ELSE IF j.phase = "ready" THEN seatQueue ELSE Without(seatQueue, {t})

\* _require_ticket_integration_queue and require_queue: what a commit must
\* leave behind; a commit that would not raises and changes nothing.
Contract(js, h, sq, held) ==
  /\ \A t \in Items(sq) : js[t].phase = "ready" /\ t # h
  /\ h # None => RequiresSeat(js[h])
  /\ \A t \in Ticket : /\ js[t].slot # "none" => js[t].phase = "ready"
                       /\ js[t].phase = "ready" => t \in Items(sq)
                       /\ RequiresSeat(js[t]) => t = h
  /\ Cardinality(held) <= Capacity

\* A commit that gives Ticket t the Job j, under pause requests `asked'.
Holds(t, j) ==
  Contract([jobs EXCEPT ![t] = j], HolderAfter(t, j), SeatQueueAfter(t, j), leased)
Store(t, j, q, asked) ==
  /\ jobs' = [jobs EXCEPT ![t] = j]
  /\ holder' = HolderAfter(t, j)
  /\ seatQueue' = SeatQueueAfter(t, j)
  /\ pauseRequests' = asked
  /\ workQueue' = Reconciled(jobs', q, leased, asked)
  /\ UNCHANGED leased

-----------------------------------------------------------------------------
(* Lanes.  A Ticket's own lane is development_only; the Observer's lane    *)
(* runs every stage.                                                       *)

On(l) == IF l = Observer THEN observed ELSE l
Full(l) == l = Observer
Active == {t \in Ticket : pc[t] # "off"}
HasLease(l) == pc[l] \in {"admitted", "agent"}

\* Lane l continues at p with the Job j in memory.
Goto(l, p, j) ==
  /\ pc' = [pc EXCEPT ![l] = p]
  /\ seen' = [seen EXCEPT ![l] = IF p = "off" THEN NoJob ELSE j]
  /\ observed' = IF l = Observer /\ p = "off" THEN None ELSE observed
  /\ UNCHANGED avoid

\* TicketState.save_run: the reasons for which a commit of j is not made.
Refuses(l, j) ==
  LET t == On(l) IN
  \/ status # "active"
  \/ HasLease(l) /\ t \notin leased
  \/ t \in pauseRequests /\ CanPause(jobs[t]) /\ ~IsPaused(j)
  \/ jobs[t] # seen[l]

Saves(l, j) == ~Refuses(l, j) /\ Holds(On(l), j)

\* One save of a lane, that goes on at p; a refused one unwinds the lane.
LaneSave(l, j, p) ==
  LET t == On(l) IN
  \/ /\ Saves(l, j)
     /\ Store(t, j, workQueue,
              IF j.phase \in {"blocked", "completed"}
                THEN pauseRequests \ {t} ELSE pauseRequests)
     /\ Goto(l, p, j)
     /\ UNCHANGED refused
  \/ /\ ~Saves(l, j)
     /\ Goto(l, IF HasLease(l) THEN "unwind" ELSE "failing", seen[l])
     /\ refused' = IF Refuses(l, j) THEN refused ELSE refused \cup {"lane"}
     /\ UNCHANGED store

\* Mutant: the resume phase stays in the Job that has consumed it.
PlacedKeepingSlot(l, j) ==
  LET t == On(l) IN
  IF j.phase # "accepted" \/ (Full(l) /\ holder = t) THEN j
  ELSE IF Full(l) /\ holder = None /\ Head(Enqueued(seatQueue, t)) = t
         THEN [j EXCEPT !.phase = IF j.slot = "none" THEN "accepted" ELSE j.slot]
         ELSE [j EXCEPT !.phase = "ready"]

\* ChangeDeliveryEngine.save: accepted work queues for the seat, or takes it.
Placed(l, j) ==
  LET t == On(l) IN
  IF j.phase # "accepted" \/ (Full(l) /\ holder = t) THEN j
  ELSE IF Full(l) /\ holder = None /\ Head(Enqueued(seatQueue, t)) = t
         THEN [j EXCEPT !.phase = IF j.slot = "none" THEN "accepted" ELSE j.slot,
                        !.slot = "none"]
         ELSE [j EXCEPT !.phase = "ready"]

\* The lane is between stages, with a Job in phase ph in memory.
At(l, ph) == pc[l] = "stage" /\ seen[l].phase = ph
outside == <<status, executor, agents, count>>

\* A lane reads its Job; a stopped Run ends it.
LoadLane(t) ==
  /\ pc[t] = "load"
  /\ IF status = "active" THEN Goto(t, "stage", jobs[t]) ELSE Goto(t, "off", NoJob)
  /\ UNCHANGED <<store, outside, refused>>

\* _supervise_loaded: the holder, else the head of the seat queue, unless one
\* of the lanes known when supervision was submitted works on it.
LoadObserver ==
  LET number == IF holder # None THEN holder
                ELSE IF seatQueue # <<>> THEN Head(seatQueue) ELSE None
  IN /\ pc[Observer] = "load"
     /\ avoid' = {}
     /\ IF status = "active" /\ number \in Ticket \ avoid
          THEN /\ pc' = [pc EXCEPT ![Observer] = "stage"]
               /\ seen' = [seen EXCEPT ![Observer] = jobs[number]]
               /\ observed' = number
          ELSE /\ pc' = [pc EXCEPT ![Observer] = "off"]
               /\ UNCHANGED <<seen, observed>>
     /\ UNCHANGED <<store, outside, refused>>

\* _pause_ticket_if_requested, before any stage.
PauseStage(l) ==
  /\ pc[l] = "stage"
  /\ seen[l].phase # "none"
  /\ On(l) \in pauseRequests
  /\ CanPause(seen[l])
  /\ LaneSave(l, Paused(seen[l]), "off")
  /\ UNCHANGED outside

\* _new_job_fields; a pause that came before the Job is applied to it at once.
CreateJob(l) ==
  LET j == [NoJob EXCEPT !.phase = "developing"]
      ask == On(l) \in pauseRequests
  IN /\ At(l, "none")
     /\ LaneSave(l, IF ask THEN Paused(j) ELSE j, IF ask THEN "off" ELSE "stage")
     /\ UNCHANGED outside

\* An ordinary error in a stage: Git, the file system, an invalid result.
StageError(l) ==
  /\ "fail" \in Faults
  /\ pc[l] = "stage"
  /\ Goto(l, "failing", seen[l])
  /\ UNCHANGED <<store, outside, refused>>

\* The seat is free and t is the first that waits for it.
SeatIsFor(t) == holder = None /\ t \in Items(seatQueue) /\ Head(seatQueue) = t

-----------------------------------------------------------------------------
(* Agent work.                                                             *)

\* The next step of the Job in memory needs an Agent.
NeedsAgent(l) ==
  /\ ~seen[l].returned
  /\ \/ At(l, "developing") /\ seen[l].rounds < MaxRounds
     \/ At(l, "accepted") /\ Full(l)

\* TicketWorkAdmission.acquire: wait in the FIFO, and start only as its first
\* waiter and only below capacity.  A lane that must wait ends.
Acquire(l) ==
  LET t == On(l)
      kept == Reconciled(jobs, workQueue, leased, pauseRequests)
      queued == Enqueued(kept, t)
      granted == Head(Waiting(queued)) = t /\ Cardinality(leased) < Capacity
      lost == \/ executor # "up" \/ status # "active"
              \/ jobs[t].phase \in {"blocked", "completed"}
              \/ t \notin pauseRequests /\ t \in leased
  IN /\ NeedsAgent(l)
     /\ \/ lost /\ Goto(l, "failing", seen[l]) /\ UNCHANGED store
        \/ /\ ~lost /\ t \in pauseRequests
           /\ workQueue' = kept
           /\ Goto(l, "off", NoJob)
           /\ UNCHANGED <<jobs, leased, holder, seatQueue, pauseRequests>>
        \/ /\ ~lost /\ t \notin pauseRequests
           /\ leased' = IF granted THEN leased \cup {t} ELSE leased
           /\ workQueue' = Reconciled(jobs, queued, leased', pauseRequests)
           /\ IF granted THEN Goto(l, "admitted", seen[l]) ELSE Goto(l, "off", NoJob)
           /\ UNCHANGED <<jobs, holder, seatQueue, pauseRequests>>
     /\ UNCHANGED <<outside, refused>>

\* Mutant: a publication Agent is charged to the development budget too.
StartAgentCharged(l) ==
  LET j == [seen[l] EXCEPT !.rounds = @ + 1]
  IN /\ pc[l] = "admitted"
     /\ LaneSave(l, j, "agent")
     /\ agents' = IF Saves(l, j) THEN agents \cup {On(l)} ELSE agents
     /\ UNCHANGED <<status, executor, count>>

\* The invocation is charged and saved before its process starts.
StartAgent(l) ==
  LET j == [seen[l] EXCEPT !.rounds = IF @ < MaxRounds /\ seen[l].phase = "developing"
                                        THEN @ + 1 ELSE @]
  IN /\ pc[l] = "admitted"
     /\ LaneSave(l, j, "agent")
     /\ agents' = IF Saves(l, j) THEN agents \cup {On(l)} ELSE agents
     /\ UNCHANGED <<status, executor, count>>

\* The Agent ends in good order; its result is saved under the lease.  A pause
\* request, a stopped Run or a lost lease that comes this late refuses the save,
\* and the result is not taken.
EndAgent(l) ==
  /\ pc[l] = "agent"
  /\ agents' = agents \ {On(l)}
  /\ LaneSave(l, [seen[l] EXCEPT !.returned = TRUE], "release")
  /\ UNCHANGED <<status, executor, count>>

\* What a failure makes of the Job in memory: paused if that was asked.
Stopped(l) == IF On(l) \in pauseRequests THEN Paused(seen[l]) ELSE Failed(seen[l])

\* The failure of an Agent is recorded under its lease, and the same commit
\* blocks its Job.  When the Run, the lease or the Job is no longer the lane's,
\* nothing is recorded.
SaveFailure(l, p) ==
  LET t == On(l)
      lost == status # "active" \/ t \notin leased \/ jobs[t] # seen[l]
  IN \/ /\ ~lost /\ Holds(t, Stopped(l))
        /\ Store(t, Stopped(l), workQueue, pauseRequests \ {t})
        /\ Goto(l, p, Stopped(l))
        /\ UNCHANGED refused
     \/ /\ lost \/ ~Holds(t, Stopped(l))
        /\ Goto(l, p, seen[l])
        /\ refused' = IF lost THEN refused ELSE refused \cup {"lane"}
        /\ UNCHANGED store

\* Mutant: a stopped Agent is unwound past the release of its lease.
FailAgentUnreleased(l) ==
  /\ pc[l] = "agent"
  /\ "fail" \in Faults \/ On(l) \in pauseRequests \/ status # "active"
  /\ agents' = agents \ {On(l)}
  /\ SaveFailure(l, "failing")
  /\ UNCHANGED <<status, executor, count>>

\* The Agent fails, or is stopped by a pause request or the end of its Run;
\* its process is known to have ended.
FailAgent(l) ==
  /\ pc[l] = "agent"
  /\ "fail" \in Faults \/ On(l) \in pauseRequests \/ status # "active"
  /\ agents' = agents \ {On(l)}
  /\ SaveFailure(l, "unwind")
  /\ UNCHANGED <<status, executor, count>>

\* Mutant: the lease is released although the process may live.
LoseAgentReleased(l) ==
  /\ "unknown" \in Faults
  /\ pc[l] = "agent"
  /\ SaveFailure(l, "unwind")
  /\ UNCHANGED outside

\* WorkerExitUnknownError: the failure is recorded too, but the lease stays
\* with a process nobody saw end, and the lane raises.
LoseAgent(l) ==
  /\ "unknown" \in Faults
  /\ pc[l] = "agent"
  /\ SaveFailure(l, "raised")
  /\ UNCHANGED outside

\* AgentWorkScope.release, in a transaction of its own.
Release(l) ==
  LET t == On(l) IN
  /\ pc[l] \in {"release", "unwind"}
  /\ leased' = leased \ {t}
  /\ workQueue' = Reconciled(jobs, Without(workQueue, {t}), leased', pauseRequests)
  /\ Goto(l, IF pc[l] = "release" THEN "stage" ELSE "failing", seen[l])
  /\ UNCHANGED <<jobs, holder, seatQueue, pauseRequests, outside, refused>>

-----------------------------------------------------------------------------
(* Development and review.                                                 *)

Consumed(l) == [seen[l] EXCEPT !.returned = FALSE]

\* A saved result is consumed: a candidate to commit,
TakeCandidate(l) == LaneSave(l, [Consumed(l) EXCEPT !.phase = "committing"], "stage")

\* findings to repair or an accepted candidate,
TakeReview(l) ==
  \/ LaneSave(l, Consumed(l), "stage")
  \/ LaneSave(l, Placed(l, [Consumed(l) EXCEPT !.phase = "accepted"]), "stage")

\* or a question to a human.
AskHuman(l) ==
  LaneSave(l, [Consumed(l) EXCEPT !.phase = "blocked", !.reason = "human",
                                  !.back = "developing"], "off")

ConsumeDevelopment(l) ==
  /\ At(l, "developing") /\ seen[l].returned
  /\ TakeCandidate(l) \/ TakeReview(l) \/ AskHuman(l)
  /\ UNCHANGED outside

CommitCandidate(l) ==
  /\ At(l, "committing")
  /\ LaneSave(l, [seen[l] EXCEPT !.phase = "developing"], "stage")
  /\ UNCHANGED outside

\* _checkpoint_budget: the exhausted budget is recorded before any admission.
CheckpointBudget(l) ==
  /\ At(l, "developing") /\ ~seen[l].returned /\ seen[l].rounds = MaxRounds
  /\ LaneSave(l, [seen[l] EXCEPT !.phase = "escalating"], "stage")
  /\ UNCHANGED outside

Escalate(l) ==
  /\ At(l, "escalating")
  /\ LaneSave(l, [seen[l] EXCEPT !.phase = "blocked", !.reason = "budget"], "off")
  /\ UNCHANGED outside

\* Nothing to do for this lane: development is complete, the seat is taken, or
\* the merge has not been confirmed.
EndLane(l) ==
  /\ \/ ~Full(l) /\ pc[l] = "stage" /\ seen[l].phase \in SeatPhase \cup {"ready"}
     \/ Full(l) /\ At(l, "merging") /\ seen[l].sent
     \/ Full(l) /\ At(l, "ready") /\ ~SeatIsFor(observed)
     \/ pc[l] = "stage" /\ seen[l].phase = "completed"
  /\ Goto(l, "off", NoJob)
  /\ UNCHANGED <<store, outside, refused>>

\* _restore_blocked_projection saves a blocked Job as it was read.
StageBlocked(l) ==
  /\ At(l, "blocked")
  /\ LaneSave(l, seen[l], "off")
  /\ UNCHANGED outside

-----------------------------------------------------------------------------
(* The integration owner: seat, publication, checks, merge.                *)

TakeSeat(l) ==
  /\ Full(l) /\ At(l, "ready")
  /\ \/ jobs[observed] # seen[l]
     \/ SeatIsFor(observed)
  /\ LaneSave(l, Placed(l, [seen[l] EXCEPT !.phase = "accepted"]), "stage")
  /\ UNCHANGED outside

ConsumePublication(l) ==
  /\ Full(l) /\ At(l, "accepted") /\ seen[l].returned
  /\ LaneSave(l, [seen[l] EXCEPT !.phase = "publishing", !.returned = FALSE,
                                 !.sent = FALSE], "stage")
  /\ UNCHANGED outside

\* The write is announced, sent, and settled by what GitHub answers.
SaveIntent(l) ==
  /\ Full(l) /\ At(l, "publishing") /\ ~seen[l].intent
  /\ LaneSave(l, [seen[l] EXCEPT !.intent = TRUE], "stage")
  /\ UNCHANGED outside

SettleWrite(l) ==
  /\ Full(l) /\ At(l, "publishing") /\ seen[l].intent
  /\ LaneSave(l, [seen[l] EXCEPT !.intent = FALSE, !.phase = "checks"], "stage")
  /\ UNCHANGED outside

OthersHaveWork(t) ==
  \E u \in Ticket \ {t} : jobs[u].phase \notin {"blocked", "completed"}

\* Required checks pass,
ChecksPass(l) == LaneSave(l, [seen[l] EXCEPT !.phase = "merging"], "stage")

\* or are running, also those that had passed before the merge was sent,
ChecksPending(l) == LaneSave(l, [seen[l] EXCEPT !.phase = "checks"], "off")

\* or fail, which gives the seat back.
ChecksFail(l) == LaneSave(l, [seen[l] EXCEPT !.phase = "developing"],
                          IF OthersHaveWork(On(l)) THEN "off" ELSE "stage")

\* Every entry observes the open pull request again, a Job in merging included,
\* unless it only waits for the answer to a merge before it pauses.
Observes(l, phases) ==
  /\ Full(l) /\ pc[l] = "stage" /\ seen[l].phase \in phases
  /\ seen[l].phase = "merging" => On(l) \notin pauseRequests

ObserveChecks(l) ==
  /\ Observes(l, {"checks", "merging"})
  /\ ChecksPass(l) \/ ChecksPending(l) \/ ChecksFail(l)
  /\ UNCHANGED outside

\* The source or the base has moved: the publication is made anew, and what it
\* had announced is forgotten.
BaseMoved(l) ==
  /\ Observes(l, {"publishing", "checks", "merging"})
  /\ LaneSave(l, [seen[l] EXCEPT !.phase = "accepted", !.intent = FALSE,
                                 !.sent = FALSE], "stage")
  /\ UNCHANGED outside

SendMerge(l) ==
  /\ Full(l) /\ At(l, "merging") /\ ~seen[l].sent
  /\ LaneSave(l, [seen[l] EXCEPT !.sent = TRUE], "stage")
  /\ UNCHANGED outside

ConfirmMerge(l) ==
  /\ Full(l) /\ At(l, "merging") /\ seen[l].sent
  /\ LaneSave(l, [seen[l] EXCEPT !.phase = "merged"], "stage")
  /\ UNCHANGED outside

CloseTicket(l) ==
  /\ Full(l) /\ At(l, "merged")
  /\ LaneSave(l, [NoJob EXCEPT !.phase = "completed"], "off")
  /\ UNCHANGED outside

-----------------------------------------------------------------------------
(* Failures of a lane and of the Executor.                                 *)

\* block_execution_failure: the failed lane blocks its own Ticket, unless the
\* merge must be read back, or somebody else changed the Job.
LaneFails(l) ==
  LET t == On(l)
      m == seen[l]
      j == Stopped(l)
      lost == status # "active" \/ jobs[t] # m \/ m.phase = "none"
      raise == Goto(l, "raised", m) /\ UNCHANGED store
  IN /\ pc[l] = "failing"
     /\ \/ /\ m.phase \in {"merging", "merged"}
           /\ \/ Saves(l, m) /\ Store(t, m, Without(workQueue, {t} \ leased), pauseRequests)
                 /\ Goto(l, "off", NoJob)
              \/ ~Saves(l, m) /\ raise
           /\ UNCHANGED refused
        \/ /\ m.phase \notin {"merging", "merged"}
           /\ m.phase = "completed" \/ lost
           /\ raise /\ UNCHANGED refused
        \/ /\ ~lost /\ m.phase = "blocked"
           /\ Goto(l, "off", NoJob) /\ UNCHANGED <<store, refused>>
        \/ /\ ~lost /\ m.phase \notin {"merging", "merged", "blocked", "completed"}
           /\ IF Holds(t, j)
                THEN /\ Store(t, j, workQueue, pauseRequests \ {t})
                     /\ Goto(l, "off", NoJob) /\ UNCHANGED refused
                ELSE raise /\ refused' = refused \cup {"fail"}
     /\ UNCHANGED outside

\* A lane that raises closes the admission of the whole Executor, which
\* reports the failure as the Run's and drains.
FailExecutor(l) ==
  /\ pc[l] = "raised"
  /\ Goto(l, "off", NoJob)
  /\ executor' = "failing"
  /\ status' = "stopped"
  /\ UNCHANGED <<store, agents, count, refused>>

\* The dispatcher sees the stopped Run and closes admission.
SeeStop ==
  /\ executor = "up" /\ status = "stopped"
  /\ executor' = "failing"
  /\ UNCHANGED <<store, lanes, status, agents, refused, count>>

Drain ==
  /\ executor = "failing"
  /\ \A l \in LaneId : pc[l] = "off"
  /\ executor' = "down"
  /\ UNCHANGED <<store, lanes, status, agents, refused, count>>

\* The process dies.  Its Agents may outlive it.
Crash ==
  /\ "crash" \in Faults
  /\ executor # "down"
  /\ executor' = "down"
  /\ pc' = [l \in LaneId |-> "off"]
  /\ seen' = [l \in LaneId |-> NoJob]
  /\ observed' = None
  /\ avoid' = {}
  /\ UNCHANGED <<store, status, agents, refused, count>>

\* A new Executor starts once the exit of the old one is proven, Agents
\* included; it frees the leases and keeps the places in the queue.
Restart ==
  /\ executor = "down"
  /\ count.restarts < MaxRestarts
  /\ executor' = "up"
  /\ status' = "active"
  /\ agents' = {}
  /\ leased' = {}
  /\ workQueue' = Reconciled(jobs, workQueue, {}, pauseRequests)
  /\ count' = [count EXCEPT !.restarts = @ + 1]
  /\ UNCHANGED <<jobs, holder, seatQueue, pauseRequests, lanes, refused>>

-----------------------------------------------------------------------------
(* The dispatcher: one pass seeds the FIFO and submits lanes.              *)

Pipeline == 2 * Capacity

\* Mutant: the dispatcher forgets what supervision has claimed.
ReadyUnclaimed == {t \in Ticket : /\ jobs[t].phase \in DevPhase
                                 /\ holder # t /\ t \notin Active}

\* candidates(): development work no lane and no supervision owns.
Ready == {t \in Ticket : /\ jobs[t].phase \in DevPhase
                         /\ holder # t /\ observed # t /\ t \notin Active}

\* Mutant: a Ticket asked to pause waits for a turn that never comes.
ProgramWorkOnly == {t \in Ready : ProgramReady(jobs[t])}

\* Started whatever the FIFO says: returned results, commits and pauses.
ProgramWork == {t \in Ready : ProgramReady(jobs[t]) \/ t \in pauseRequests}

Orders(S) == {s \in [1 .. Cardinality(S) -> S] : Items(s) = S}

\* Agent capacity in use: leases, and the lanes on their way to one.
Occupied(q) == Cardinality({t \in Items(q) :
                  t \in leased \/ (t \in Active /\ ~ProgramReady(jobs[t]))})

\* The waiters of q a pass starts: in queue order, up to the first that is
\* neither running nor ready, and up to the limits.  `going' already run.
Started(q, going) ==
  LET w == Waiting(q)
      before(i) == {k \in 1 .. i - 1 : w[k] \notin going}
  IN {w[i] : i \in {k \in DOMAIN w :
        /\ \A m \in 1 .. k - 1 : w[m] \in going \cup Ready
        /\ w[k] \in Ready \ going
        /\ Occupied(q) + Cardinality(before(k)) < Capacity
        /\ Cardinality(going) + Cardinality(before(k)) < Pipeline}}

Dispatch ==
  LET kept == Reconciled(jobs, workQueue, leased, pauseRequests)
      new == {t \in Ready \ Items(kept) :
                t \notin pauseRequests /\ ~ProgramReady(jobs[t])}
  IN /\ executor = "up" /\ status = "active"
     /\ \E order \in Orders(new), chosen \in SUBSET ProgramWork :
          LET q == kept \o order
              going == Active \cup chosen
              submitted == chosen \cup Started(q, going)
          IN /\ Cardinality(going) <= Pipeline
             /\ chosen = ProgramWork \/ Cardinality(going) = Pipeline
             /\ workQueue' = q
             /\ pc' = [l \in LaneId |-> IF l \in submitted THEN "load" ELSE pc[l]]
     /\ UNCHANGED <<jobs, leased, holder, seatQueue, pauseRequests, seen, observed,
                    avoid, outside, refused>>

\* The supervision thread is submitted with the lanes that run at that time.
Observe ==
  /\ executor = "up" /\ status = "active"
  /\ pc[Observer] = "off"
  /\ holder # None \/ seatQueue # <<>>
  /\ pc' = [pc EXCEPT ![Observer] = "load"]
  /\ avoid' = Active
  /\ UNCHANGED <<store, seen, observed, outside, refused>>

\* develop_frontier declines when nothing develops and nobody wants the seat:
\* the Driver then delivers the selected Ticket itself, with every stage.
Foreground(t) ==
  /\ executor = "up" /\ status = "active"
  /\ \A l \in LaneId : pc[l] = "off"
  /\ holder = None /\ seatQueue = <<>>
  /\ \A u \in Ticket : jobs[u].phase \notin DevPhase
  /\ jobs[t].phase \notin {"blocked", "completed"}
  /\ pc' = [pc EXCEPT ![Observer] = "stage"]
  /\ seen' = [seen EXCEPT ![Observer] = jobs[t]]
  /\ observed' = t
  /\ UNCHANGED <<store, avoid, outside, refused>>

-----------------------------------------------------------------------------
(* Commands.                                                               *)

\* request_ticket_pause: only the request is recorded, unless the Ticket
\* waits for the seat and can be paused at once.
RequestPause(t) ==
  LET asked == pauseRequests \cup {t}
      q == Without(workQueue, {t} \ leased)
      now == jobs[t].phase = "ready" /\ holder # t
  IN /\ status = "active"
     /\ count.pauses < MaxPauses
     /\ t \notin pauseRequests
     /\ jobs[t].phase \notin {"blocked", "completed"}
     /\ jobs[t].phase = "none" => t \in Items(workQueue)
     /\ IF now /\ ~Holds(t, Paused(jobs[t]))
          THEN refused' = refused \cup {"pause"} /\ UNCHANGED <<store, count>>
          ELSE /\ Store(t, IF now THEN Paused(jobs[t]) ELSE jobs[t], q,
                        IF now THEN pauseRequests ELSE asked)
               /\ count' = [count EXCEPT !.pauses = @ + 1]
               /\ UNCHANGED refused
     /\ UNCHANGED <<status, executor, lanes, agents>>

Unblocked(j) == [j EXCEPT !.reason = "-", !.back = "none"]
Queued(j) == [Unblocked(j) EXCEPT !.phase = "ready", !.slot = j.back]
Returned(j) == [Unblocked(j) EXCEPT !.phase = j.back]

\* A paused Ticket goes back to its phase, through the queue if that needs the seat;
ResumedPause(j) ==
  IF j.back \in {"accepted", "checks", "publishing"} THEN Queued(j) ELSE Returned(j)

\* so does a failed one that has lost the seat;
ResumedFailure(t, j) ==
  IF j.back \in SeatPhase /\ holder # t THEN Queued(j) ELSE Returned(j)

\* and an exhausted budget starts a new window.
ResumedBudget(j) == [Unblocked(j) EXCEPT !.phase = "developing", !.rounds = 0]

\* The Job that resuming the blocked Job of t produces.
Resumed(t) ==
  LET j == jobs[t]
  IN CASE j.reason = "paused" -> ResumedPause(j)
       [] j.reason = "failed" -> ResumedFailure(t, j)
       [] j.reason = "budget" -> ResumedBudget(j)
       [] j.reason = "human" -> Returned(j)

\* admit_ticket_resume: while the Executor runs, for a Ticket without a lease;
\* development work goes to the end of the FIFO.
Resume(t) ==
  LET j == Resumed(t)
      asked == pauseRequests \ {t}
  IN /\ executor = "up" /\ status = "active"
     /\ count.resumes < MaxResumes
     /\ jobs[t].phase = "blocked"
     /\ t \notin leased
     /\ jobs[t].reason = "failed" => jobs[t].back # "escalating"
     /\ IF Holds(t, j)
          THEN /\ Store(t, j, IF j.phase \in DevPhase THEN Enqueued(workQueue, t)
                              ELSE workQueue, asked)
               /\ count' = [count EXCEPT !.resumes = @ + 1]
               /\ UNCHANGED refused
          ELSE refused' = refused \cup {"resume"} /\ UNCHANGED <<store, count>>
     /\ UNCHANGED <<status, executor, lanes, agents>>

\* `stop' of the Run: from now on no save is accepted.
StopRun ==
  /\ "stop" \in Faults
  /\ status = "active"
  /\ status' = "stopped"
  /\ UNCHANGED <<store, executor, lanes, agents, refused, count>>

-----------------------------------------------------------------------------
Init ==
  /\ jobs = [t \in Ticket |-> NoJob]
  /\ workQueue = <<>> /\ leased = {}
  /\ holder = None /\ seatQueue = <<>>
  /\ pauseRequests = {}
  /\ status = "active" /\ executor = "up"
  /\ pc = [l \in LaneId |-> "off"]
  /\ seen = [l \in LaneId |-> NoJob]
  /\ observed = None /\ avoid = {}
  /\ agents = {}
  /\ refused = {}
  /\ count = [pauses |-> 0, resumes |-> 0, restarts |-> 0]

Stage(l) ==
  \/ PauseStage(l) \/ CreateJob(l) \/ ConsumeDevelopment(l) \/ CommitCandidate(l)
  \/ CheckpointBudget(l) \/ Escalate(l) \/ EndLane(l) \/ StageBlocked(l)
  \/ TakeSeat(l) \/ ConsumePublication(l) \/ SaveIntent(l) \/ SettleWrite(l)
  \/ ObserveChecks(l) \/ BaseMoved(l) \/ SendMerge(l) \/ ConfirmMerge(l) \/ CloseTicket(l)

\* What the threads of the Executor do when nothing goes wrong outside.
LaneStep(l) ==
  \/ Stage(l) \/ Acquire(l) \/ StartAgent(l) \/ EndAgent(l) \/ Release(l)
  \/ LaneFails(l)

Next ==
  \/ Dispatch \/ Observe \/ LoadObserver \/ SeeStop \/ Drain \/ Crash \/ Restart \/ StopRun
  \/ \E l \in LaneId : \/ LaneStep(l) \/ FailExecutor(l)
                       \/ StageError(l) \/ FailAgent(l) \/ LoseAgent(l)
  \/ \E t \in Ticket : LoadLane(t) \/ Foreground(t) \/ RequestPause(t) \/ Resume(t)

Spec == Init /\ [][Next]_vars

\* The threads keep running: the dispatcher polls, a submitted lane runs, an
\* Agent ends by its deadline.  A lane looks for a pause request before every
\* stage, so one that stays recorded is seen.  Commands and faults are not owed.
Fairness ==
  /\ WF_vars(Dispatch) /\ WF_vars(Observe) /\ WF_vars(LoadObserver)
  /\ WF_vars(SeeStop) /\ WF_vars(Drain)
  /\ \A l \in LaneId : /\ WF_vars(LaneStep(l)) /\ WF_vars(FailExecutor(l))
                       /\ SF_vars(PauseStage(l))
  /\ \A t \in Ticket : WF_vars(LoadLane(t)) /\ WF_vars(Foreground(t))

FairSpec == Spec /\ Fairness

-----------------------------------------------------------------------------
TypeOK ==
  /\ jobs \in [Ticket -> Job]
  /\ workQueue \in Seq(Ticket)
  /\ leased \subseteq Ticket
  /\ holder \in Ticket \cup {None}
  /\ seatQueue \in Seq(Ticket)
  /\ pauseRequests \subseteq Ticket
  /\ status \in {"active", "stopped"}
  /\ executor \in {"up", "failing", "down"}
  /\ pc \in [LaneId -> {"off", "load", "stage", "admitted", "agent", "release",
                        "unwind", "failing", "raised"}]
  /\ seen \in [LaneId -> Job]
  /\ observed \in Ticket \cup {None}
  /\ avoid \subseteq Ticket
  /\ agents \subseteq Ticket
  /\ refused \subseteq {"lane", "fail", "pause", "resume"}

\* Agent capacity comes only from durable leases (ticket_scheduling.py:115),
\* so it must also count the Agents an exited Executor or a lost Worker left
\* behind: every live Agent holds a lease, and there are at most Capacity.
WithinCapacity ==
  /\ agents \subseteq leased
  /\ Cardinality(agents) <= Capacity

\* A paused Ticket comes to rest (pause_ticket, AgentWorkScope.release): no lane
\* admits or runs an Agent for it, it waits in no queue, and only an unsettled
\* write leaves it the seat.  An Agent that stops is paused under its lease: that
\* lease is on its way back with the lane that unwinds, and a Worker nobody saw
\* end keeps it only in an Executor that is going down.
PausedIsQuiet ==
  \A t \in Ticket : IsPaused(jobs[t]) =>
    /\ t \notin Items(seatQueue)
    /\ t \in Items(workQueue) => t \in leased
    /\ holder = t => jobs[t].intent
    /\ \A l \in LaneId : On(l) = t => pc[l] \notin {"admitted", "agent"}
    /\ t \in leased =>
         executor # "up" \/ \E l \in LaneId : On(l) = t /\ pc[l] \in {"unwind", "raised"}
    /\ t \in agents =>
         executor # "up" \/ \E l \in LaneId : On(l) = t /\ pc[l] = "raised"

\* No lane ever computes a Job, seat and queues that the state contract would
\* reject: the contract never stops delivery that goes on by itself.
LaneCommitsAccepted == "lane" \notin refused

\* The dispatcher and supervision never both develop a Ticket: while supervision
\* has claimed it, its own lane runs no Agent and has no development stage left.
OneDriverPerTicket ==
  \A t \in Ticket : observed = t =>
    /\ pc[t] \notin {"admitted", "agent", "release", "unwind"}
    /\ pc[t] = "stage" => seen[t].phase \notin DevPhase

\* A write or a merge is on its way.
InFlight(j) == j.intent \/ (j.phase = "merging" /\ j.sent)

\* "Retain the exact integration boundary until a sent write is settled"
\* (requires_integration_seat): pauses, failures, crashes and resumptions
\* never take the seat from a Ticket with a write or a merge in flight; only
\* its own lane gives it up, after it has read checks that fail.
SeatKept ==
  \A t \in Ticket : holder = t /\ InFlight(jobs[t]) =>
    \/ holder' = t
    \/ /\ observed = t /\ pc[Observer] = "stage"
       /\ ~jobs[t].intent /\ jobs'[t].phase = "developing"
SeatOutlivesWrite == [][SeatKept]_vars

\* A waiter is served: it gets a lease, or leaves the queue because it no
\* longer has Agent work, unless the Executor itself stops.
WaitersServed ==
  \A t \in Ticket :
    (t \in Items(workQueue) \ leased) ~> (t \notin Items(workQueue) \ leased
                                            \/ executor # "up")

\* A recorded pause request is settled: the Ticket pauses or reaches a gate of
\* its own, unless its merge is sent and unconfirmed, or the Executor stops.
PausesSettle ==
  \A t \in Ticket :
    t \in pauseRequests ~> \/ t \notin pauseRequests
                           \/ jobs[t].phase = "merging" /\ jobs[t].sent
                           \/ executor # "up"

\* "Other Tickets and their supervision go on" when one is stopped (ADR 0019,
\* 30): the pause of a Ticket never makes its lane fail the whole Executor.
PauseSparesExecutor ==
  \A l \in LaneId : pc[l] = "raised" =>
    On(l) \notin pauseRequests /\ ~IsPaused(jobs[On(l)])

\* A Ticket that may be paused can be stopped, and a blocked one resumed: the
\* state contract rejects neither `stop --ticket' nor `resume --ticket'.
CommandsAccepted == refused \cap {"pause", "resume"} = {}
=============================================================================
