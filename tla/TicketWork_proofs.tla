------------------------- MODULE TicketWork_proofs -------------------------
(***************************************************************************)
(* Proofs about Ticket work for any number of Tickets, any capacity, any   *)
(* bounds and any faults: live Agents are covered by leases within the     *)
(* capacity, and the integration seat outlives a sent write.               *)
(***************************************************************************)
EXTENDS TicketWork, FiniteSetTheorems, TLAPS

-----------------------------------------------------------------------------
(* The invariants.                                                         *)

Point == {"off", "load", "stage", "admitted", "agent", "release", "unwind",
          "failing", "raised"}
LeasePoint == {"admitted", "agent", "release", "unwind"}
AgentPhase == {"developing", "accepted"}

\* Where the lanes are: nothing runs in an Executor that is down, supervision
\* has claimed a Ticket whenever it works, and an Agent has a Job for it.
ControlInv ==
  /\ pc \in [LaneId -> Point]
  /\ seen \in [LaneId -> Job]
  /\ observed \in Ticket \cup {None}
  /\ pc[Observer] \notin {"off", "load"} => observed \in Ticket
  /\ executor = "down" => \A l \in LaneId : pc[l] = "off"
  /\ \A l \in LaneId : pc[l] \in {"admitted", "agent"} => seen[l].phase \in AgentPhase

\* Which lane answers for which lease: one lane at most, and only the lane at
\* "agent" may have a live process; a lane that lost its Agent answers no more.
LeaseInv ==
  /\ IsFiniteSet(leased)
  /\ Cardinality(leased) <= Capacity
  /\ agents \subseteq leased
  /\ \A l \in LaneId : pc[l] \in LeasePoint => On(l) \in leased
  /\ \A l \in LaneId : pc[l] \in LeasePoint \ {"agent"} => On(l) \notin agents
  /\ \A l, m \in LaneId :
       l # m /\ pc[l] \in LeasePoint /\ pc[m] \in LeasePoint => On(l) # On(m)

\* A write is announced only by a Job that publishes, or one that stopped there;
\* no Job returns to a phase that blocks, and only seat phases wait for the seat.
SoundJob(j) ==
  /\ j.phase = "blocked" => j.reason # "-"
  /\ j.back # "blocked"
  /\ j.slot \in SeatPhase \cup {"none"}
  /\ j.intent => \/ j.phase = "publishing"
                 \/ /\ j.phase = "blocked" /\ j.reason \in {"failed", "paused"}
                    /\ j.back = "publishing"

JobInv ==
  /\ jobs \in [Ticket -> Job]
  /\ \A t \in Ticket : SoundJob(jobs[t])
  /\ holder \in Ticket \cup {None}

IInv == ControlInv /\ LeaseInv /\ JobInv

\* What a save must do to the Job it replaces so that a seat is not lost.
Continues(l, j) ==
  /\ SoundJob(seen[l]) => SoundJob(j)
  /\ SoundJob(seen[l]) /\ InFlight(seen[l]) =>
       \/ RequiresSeat(j)
       \/ /\ l = Observer /\ pc[Observer] = "stage"
          /\ ~seen[l].intent /\ j.phase = "developing"

-----------------------------------------------------------------------------
(* Lemmas on the helpers.                                                  *)

\* A lane that moves changes no other lane, and keeps its Ticket while it works.
LEMMA GotoFact ==
  ASSUME ControlInv, NEW l \in LaneId, NEW p \in Point, NEW j \in Job,
         pc[l] # "off", l = Observer => pc[l] # "load", p # "load",
         p \in {"admitted", "agent"} => j.phase \in AgentPhase,
         Goto(l, p, j), executor' = executor \/ executor' # "down"
  PROVE  /\ ControlInv'
         /\ pc'[l] = p
         /\ \A m \in LaneId \ {l} : pc'[m] = pc[m]
         /\ \A m \in LaneId : pc'[m] # "off" => On(m)' = On(m)
<1>1. /\ pc' \in [LaneId -> Point] /\ seen' \in [LaneId -> Job]
      /\ pc'[l] = p
      /\ \A m \in LaneId \ {l} : pc'[m] = pc[m]
  <2>1. NoJob \in Job
    BY BoundsAssumption DEF NoJob, Job, Phase, DevPhase, SeatPhase, Reason
  <2> QED
    BY <2>1 DEF Goto, ControlInv
<1>2. Observer \in LaneId
  BY DEF LaneId
<1>3. executor # "down" /\ executor' # "down"
  BY DEF ControlInv
<1>4. observed' \in Ticket \cup {None}
  BY DEF Goto, ControlInv
<1>5. pc'[Observer] \notin {"off", "load"} => observed' \in Ticket
  <2>1. CASE l = Observer
    BY <1>1, <1>2, <2>1 DEF Goto, ControlInv
  <2>2. CASE l # Observer
    BY <1>1, <1>2, <2>2 DEF Goto, ControlInv
  <2> QED
    BY <2>1, <2>2
<1>6. \A m \in LaneId : pc'[m] # "off" => On(m)' = On(m)
  BY <1>1 DEF Goto, On
<1>7. \A m \in LaneId : pc'[m] \in {"admitted", "agent"} => seen'[m].phase \in AgentPhase
  <2>1. p # "off" => seen'[l] = j
    BY DEF Goto, ControlInv
  <2>2. \A m \in LaneId \ {l} : seen'[m] = seen[m]
    BY DEF Goto, ControlInv
  <2> QED
    BY <1>1, <2>1, <2>2 DEF ControlInv
<1> QED
  BY <1>1, <1>3, <1>4, <1>5, <1>6, <1>7 DEF ControlInv

\* A working lane works on a Ticket.
LEMMA OnTicket ==
  ASSUME ControlInv, NEW l \in LaneId, pc[l] # "off", l = Observer => pc[l] # "load"
  PROVE  On(l) \in Ticket
BY DEF ControlInv, On, LaneId

\* A lane that neither holds nor gets a lease disturbs none.
LEMMA LeaseKept ==
  ASSUME ControlInv, LeaseInv, NEW l \in LaneId,
         NEW p \in Point \ LeasePoint, NEW j \in Job,
         pc[l] # "off", l = Observer => pc[l] # "load", p # "load",
         pc[l] \notin LeasePoint,
         Goto(l, p, j), executor' = executor \/ executor' # "down",
         UNCHANGED <<leased, agents>>
  PROVE  ControlInv' /\ LeaseInv'
<1>1. /\ ControlInv'
      /\ pc'[l] = p
      /\ \A m \in LaneId \ {l} : pc'[m] = pc[m]
      /\ \A m \in LaneId : pc'[m] # "off" => On(m)' = On(m)
  BY GotoFact DEF LeasePoint
<1>2. \A m \in LaneId : pc'[m] \in LeasePoint =>
        m # l /\ pc[m] = pc'[m] /\ On(m)' = On(m)
  BY <1>1 DEF LeasePoint
<1> QED
  BY <1>1, <1>2 DEF LeaseInv

\* Pausing and failing give Jobs.
LEMMA BlockedJobs ==
  ASSUME NEW j \in Job
  PROVE  Paused(j) \in Job /\ Failed(j) \in Job
<1> DEFINE back == IF j.phase = "merging" THEN "checks" ELSE j.phase
<1>1. back \in Phase /\ j.phase \in Phase
  BY DEF Job, Phase, SeatPhase
<1>2. {"blocked"} \subseteq Phase /\ {"paused", "failed"} \subseteq Reason
  BY DEF Phase, Reason
<1>3. Paused(j) = [j EXCEPT !.phase = "blocked", !.reason = "paused", !.back = back]
  BY DEF Paused
<1> HIDE DEF back
<1> QED
  BY <1>1, <1>2, <1>3 DEF Failed, Job

\* So does placing an accepted Job.
LEMMA PlacedJob ==
  ASSUME NEW l \in LaneId, NEW j \in Job
  PROVE  Placed(l, j) \in Job
<1>1. j.slot \in Phase /\ {"accepted", "ready", "none"} \subseteq Phase
  BY DEF Job, Phase, DevPhase, SeatPhase
<1>2. ASSUME NEW ph \in Phase
      PROVE  [j EXCEPT !.phase = ph] \in Job /\ [j EXCEPT !.phase = ph, !.slot = "none"] \in Job
  BY <1>1 DEF Job
<1> DEFINE ph == IF j.slot = "none" THEN "accepted" ELSE j.slot
<1>3. ph \in Phase
  BY <1>1
<1>4. \/ Placed(l, j) = j \/ Placed(l, j) = [j EXCEPT !.phase = "ready"]
      \/ Placed(l, j) = [j EXCEPT !.phase = ph, !.slot = "none"]
  BY DEF Placed
<1> HIDE DEF ph
<1> QED
  BY <1>1, <1>2, <1>3, <1>4

\* A new Job for a Ticket takes the seat from no other Ticket, and not from
\* this one while the Job requires it.
LEMMA StoreFact ==
  ASSUME JobInv, NEW t \in Ticket, NEW j \in Job, SoundJob(j),
         NEW q, NEW asked, Store(t, j, q, asked)
  PROVE  /\ JobInv'
         /\ jobs'[t] = j
         /\ \A u \in Ticket \ {t} : jobs'[u] = jobs[u]
         /\ leased' = leased
         /\ \A u \in Ticket : holder = u /\ (u = t => RequiresSeat(j)) => holder' = u
<1>1. /\ jobs' \in [Ticket -> Job] /\ jobs'[t] = j
      /\ \A u \in Ticket \ {t} : jobs'[u] = jobs[u]
      /\ leased' = leased
      /\ holder' = HolderAfter(t, j)
  BY DEF Store, JobInv
<1>2. \A u \in Ticket : SoundJob(jobs'[u])
  BY <1>1 DEF JobInv
<1>3. holder' \in Ticket \cup {None}
  BY <1>1 DEF HolderAfter, JobInv
<1>4. \A u \in Ticket : holder = u /\ (u = t => RequiresSeat(j)) => holder' = u
  BY <1>1, TicketAssumption DEF HolderAfter
<1> QED
  BY <1>1, <1>2, <1>3, <1>4 DEF JobInv

-----------------------------------------------------------------------------
(* Steps of a lane.                                                        *)

\* A step that leaves Jobs and the seat alone keeps what is said about them.
LEMMA JobsKept ==
  ASSUME JobInv, UNCHANGED <<jobs, holder>>
  PROVE  JobInv' /\ SeatKept
BY DEF JobInv, SeatKept

\* A save between two stages, at any place of the code.
LEMMA SaveStep ==
  ASSUME IInv, NEW l \in LaneId, pc[l] = "stage",
         NEW j \in Job, NEW p \in {"off", "stage"},
         Continues(l, j), LaneSave(l, j, p), UNCHANGED outside
  PROVE  IInv' /\ SeatKept
<1> DEFINE t == On(l)
<1>1. t \in Ticket /\ seen[l] \in Job
  BY OnTicket DEF IInv, ControlInv
<1>2. UNCHANGED <<status, executor, agents, count>>
  BY DEF outside
<1>3. ~HasLease(l)
  BY DEF HasLease
<1>4. CASE Saves(l, j)
  <2>1. jobs[t] = seen[l]
    BY <1>4 DEF Saves, Refuses
  <2>2. SoundJob(seen[l])
    BY <1>1, <2>1 DEF IInv, JobInv
  <2>3. SoundJob(j)
    BY <2>2 DEF Continues
  <2>4. PICK asked : Store(t, j, workQueue, asked)
    BY <1>4 DEF LaneSave
  <2>5. Goto(l, p, j)
    BY <1>4 DEF LaneSave
  <2>6. /\ JobInv' /\ jobs'[t] = j
        /\ \A u \in Ticket \ {t} : jobs'[u] = jobs[u]
        /\ leased' = leased
        /\ \A u \in Ticket : holder = u /\ (u = t => RequiresSeat(j)) => holder' = u
    BY <1>1, <2>3, <2>4, StoreFact DEF IInv
  <2>7. ControlInv' /\ LeaseInv'
    BY <1>2, <2>5, <2>6, LeaseKept DEF IInv, LeasePoint, Point
  <2>8. SeatKept
    <3> SUFFICES ASSUME NEW u \in Ticket, holder = u, InFlight(jobs[u])
                 PROVE  \/ holder' = u
                        \/ /\ observed = u /\ pc[Observer] = "stage"
                           /\ ~jobs[u].intent /\ jobs'[u].phase = "developing"
      BY DEF SeatKept
    <3>1. CASE u # t
      BY <2>6, <3>1
    <3>2. CASE u = t /\ RequiresSeat(j)
      BY <2>6, <3>2
    <3>3. CASE u = t /\ ~RequiresSeat(j)
      BY <2>1, <2>2, <2>6, <3>3 DEF Continues, On
    <3> QED
      BY <3>1, <3>2, <3>3
  <2> QED
    BY <2>6, <2>7, <2>8 DEF IInv
<1>5. CASE ~Saves(l, j)
  <2>1. Goto(l, "failing", seen[l]) /\ UNCHANGED store
    BY <1>3, <1>5 DEF LaneSave
  <2>2. ControlInv' /\ LeaseInv'
    BY <1>1, <1>2, <2>1, LeaseKept DEF IInv, LeasePoint, Point, store
  <2>3. JobInv' /\ SeatKept
    BY <2>1, JobsKept DEF IInv, store
  <2> QED
    BY <2>2, <2>3 DEF IInv
<1> QED
  BY <1>4, <1>5

\* A lane that moves without a save and holds no lease.
LEMMA MoveStep ==
  ASSUME IInv, NEW l \in LaneId, NEW p \in Point \ LeasePoint, NEW j \in Job,
         pc[l] \notin LeasePoint \cup {"off"}, l = Observer => pc[l] # "load",
         p # "load", Goto(l, p, j), executor' = executor \/ executor' # "down",
         UNCHANGED <<jobs, holder, leased, agents>>
  PROVE  IInv' /\ SeatKept
<1>1. ControlInv' /\ LeaseInv'
  BY LeaseKept DEF IInv
<1>2. JobInv' /\ SeatKept
  BY JobsKept DEF IInv
<1> QED
  BY <1>1, <1>2 DEF IInv

USE DEF Full, At

\* Stages before the integration seat.
LEMMA DevelopmentSteps ==
  ASSUME IInv, NEW l \in LaneId,
         \/ PauseStage(l) \/ CreateJob(l) \/ ConsumeDevelopment(l)
         \/ CommitCandidate(l) \/ CheckpointBudget(l) \/ Escalate(l)
         \/ StageBlocked(l)
  PROVE  IInv' /\ SeatKept
<1> USE DEF Job, Phase, DevPhase, SeatPhase, Reason
<1>0. seen[l] \in Job /\ NoJob \in Job
  BY BoundsAssumption DEF IInv, ControlInv, NoJob
<1>1. CASE PauseStage(l)
  <2>1. Paused(seen[l]) \in Job
    BY <1>0, BlockedJobs
  <2>2. Continues(l, Paused(seen[l]))
    BY <1>0, <1>1 DEF PauseStage, Continues, SoundJob, InFlight, Paused, CanPause
  <2> QED
    BY <1>1, <2>1, <2>2, SaveStep DEF PauseStage
<1>2. CASE CreateJob(l)
  <2> DEFINE j == [NoJob EXCEPT !.phase = "developing"]
             k == IF On(l) \in pauseRequests THEN Paused(j) ELSE j
  <2>1. k \in Job
    BY <1>0 DEF Paused
  <2>2. Continues(l, k)
    BY <1>0, <1>2 DEF CreateJob, Continues, SoundJob, InFlight, Paused, NoJob
  <2>3. LaneSave(l, k, IF On(l) \in pauseRequests THEN "off" ELSE "stage")
    BY <1>2 DEF CreateJob
  <2> HIDE DEF k
  <2> QED
    BY <1>2, <2>1, <2>2, <2>3, SaveStep DEF CreateJob
<1>3. CASE ConsumeDevelopment(l)
  <2> DEFINE c == Consumed(l)
  <2>1. c \in Job /\ c = [seen[l] EXCEPT !.returned = FALSE]
    BY <1>0 DEF Consumed
  <2>2. CASE TakeCandidate(l)
    <3>1. [c EXCEPT !.phase = "committing"] \in Job
      BY <2>1
    <3>2. Continues(l, [c EXCEPT !.phase = "committing"])
      BY <1>0, <1>3, <2>1 DEF ConsumeDevelopment, Continues, SoundJob, InFlight
    <3> QED
      BY <1>3, <2>2, <3>1, <3>2, SaveStep DEF ConsumeDevelopment, TakeCandidate
  <2>3. CASE TakeReview(l)
    <3>1. CASE LaneSave(l, c, "stage")
      <4>1. Continues(l, c)
        BY <1>0, <1>3, <2>1 DEF ConsumeDevelopment, Continues, SoundJob, InFlight
      <4> QED
        BY <1>3, <2>1, <3>1, <4>1, SaveStep DEF ConsumeDevelopment
    <3>2. CASE LaneSave(l, Placed(l, [c EXCEPT !.phase = "accepted"]), "stage")
      <4> DEFINE k == Placed(l, [c EXCEPT !.phase = "accepted"])
      <4>1. k \in Job
        BY <2>1 DEF Placed
      <4>2. Continues(l, k)
        BY <1>0, <1>3, <2>1 DEF ConsumeDevelopment, Continues, SoundJob, InFlight, Placed
      <4> HIDE DEF k
      <4> QED
        BY <1>3, <3>2, <4>1, <4>2, SaveStep DEF ConsumeDevelopment, k
    <3> QED
      BY <2>3, <3>1, <3>2 DEF TakeReview
  <2>4. CASE AskHuman(l)
    <3> DEFINE k == [c EXCEPT !.phase = "blocked", !.reason = "human",
                              !.back = "developing"]
    <3>1. k \in Job
      BY <2>1
    <3>2. Continues(l, k)
      BY <1>0, <1>3, <2>1 DEF ConsumeDevelopment, Continues, SoundJob, InFlight
    <3> QED
      BY <1>3, <2>4, <3>1, <3>2, SaveStep DEF ConsumeDevelopment, AskHuman
  <2> QED
    BY <1>3, <2>2, <2>3, <2>4 DEF ConsumeDevelopment
<1>4. CASE CommitCandidate(l)
  <2>1. [seen[l] EXCEPT !.phase = "developing"] \in Job
    BY <1>0
  <2>2. Continues(l, [seen[l] EXCEPT !.phase = "developing"])
    BY <1>0, <1>4 DEF CommitCandidate, Continues, SoundJob, InFlight
  <2> QED
    BY <1>4, <2>1, <2>2, SaveStep DEF CommitCandidate
<1>5. CASE CheckpointBudget(l)
  <2>1. [seen[l] EXCEPT !.phase = "escalating"] \in Job
    BY <1>0
  <2>2. Continues(l, [seen[l] EXCEPT !.phase = "escalating"])
    BY <1>0, <1>5 DEF CheckpointBudget, Continues, SoundJob, InFlight
  <2> QED
    BY <1>5, <2>1, <2>2, SaveStep DEF CheckpointBudget
<1>6. CASE Escalate(l)
  <2> DEFINE k == [seen[l] EXCEPT !.phase = "blocked", !.reason = "budget"]
  <2>1. k \in Job
    BY <1>0
  <2>2. Continues(l, k)
    BY <1>0, <1>6 DEF Escalate, Continues, SoundJob, InFlight
  <2> QED
    BY <1>6, <2>1, <2>2, SaveStep DEF Escalate
<1>7. CASE StageBlocked(l)
  <2>1. Continues(l, seen[l])
    BY <1>0, <1>7 DEF StageBlocked, Continues, InFlight, RequiresSeat
  <2> QED
    BY <1>0, <1>7, <2>1, SaveStep DEF StageBlocked
<1> QED
  BY <1>1, <1>2, <1>3, <1>4, <1>5, <1>6, <1>7

\* Stages of the integration owner, and the end of a lane.
LEMMA SeatSteps ==
  ASSUME IInv, NEW l \in LaneId,
         \/ EndLane(l) \/ TakeSeat(l) \/ ConsumePublication(l)
         \/ SaveIntent(l) \/ SettleWrite(l) \/ ObserveChecks(l) \/ BaseMoved(l)
         \/ SendMerge(l) \/ ConfirmMerge(l) \/ CloseTicket(l)
  PROVE  IInv' /\ SeatKept
<1> USE DEF Job, Phase, DevPhase, SeatPhase, Reason
<1>0. seen[l] \in Job /\ NoJob \in Job
  BY BoundsAssumption DEF IInv, ControlInv, NoJob
<1>1. CASE EndLane(l)
  BY <1>0, <1>1, MoveStep DEF EndLane, Point, LeasePoint, store, outside
<1>2. CASE TakeSeat(l)
  <2> DEFINE k == Placed(l, [seen[l] EXCEPT !.phase = "accepted"])
  <2>1. k \in Job
    <3>1. [seen[l] EXCEPT !.phase = "accepted"] \in Job
      BY <1>0
    <3> QED
      BY <3>1, PlacedJob
  <2>2. Continues(l, k)
    BY <1>0, <1>2 DEF TakeSeat, Placed, Continues, SoundJob, InFlight,
       RequiresSeat
  <2>3. LaneSave(l, k, "stage")
    BY <1>2 DEF TakeSeat
  <2> HIDE DEF k
  <2> QED
    BY <1>2, <2>1, <2>2, <2>3, SaveStep DEF TakeSeat
<1>3. CASE ConsumePublication(l)
  <2> DEFINE k == [seen[l] EXCEPT !.phase = "publishing", !.returned = FALSE,
                                  !.sent = FALSE]
  <2>1. k \in Job
    <3>1. "publishing" \in Phase
      OBVIOUS
    <3> QED
      BY <1>0, <3>1
  <2>2. /\ k.phase = "publishing" /\ k.intent = seen[l].intent
        /\ k.back = seen[l].back /\ k.slot = seen[l].slot /\ k.reason = seen[l].reason
    BY <1>0
  <2>3. seen[l].phase = "accepted"
    BY <1>3 DEF ConsumePublication
  <2> HIDE DEF k
  <2>4. Continues(l, k)
    BY <1>0, <2>1, <2>2, <2>3 DEF Continues, SoundJob, InFlight, RequiresSeat
  <2>5. LaneSave(l, k, "stage") /\ pc[l] = "stage" /\ UNCHANGED outside
    BY <1>3 DEF ConsumePublication, k
  <2> QED
    BY <2>1, <2>4, <2>5, SaveStep
<1>4. CASE SaveIntent(l)
  <2>1. [seen[l] EXCEPT !.intent = TRUE] \in Job
    BY <1>0
  <2>2. Continues(l, [seen[l] EXCEPT !.intent = TRUE])
    BY <1>0, <1>4 DEF SaveIntent, Continues, SoundJob, InFlight,
       RequiresSeat
  <2> QED
    BY <1>4, <2>1, <2>2, SaveStep DEF SaveIntent
<1>5. CASE SettleWrite(l)
  <2> DEFINE k == [seen[l] EXCEPT !.intent = FALSE, !.phase = "checks"]
  <2>1. k \in Job
    BY <1>0
  <2>2. Continues(l, k)
    BY <1>0, <1>5 DEF SettleWrite, Continues, SoundJob, InFlight,
       RequiresSeat
  <2> QED
    BY <1>5, <2>1, <2>2, SaveStep DEF SettleWrite
<1>6. CASE ObserveChecks(l)
  <2>0. /\ l = Observer /\ pc[Observer] = "stage"
        /\ seen[l].phase \in {"checks", "merging"}
    BY <1>6 DEF ObserveChecks, Observes
  <2>1. ASSUME NEW ph \in {"merging", "checks", "developing"}
        PROVE  [seen[l] EXCEPT !.phase = ph] \in Job
    BY <1>0
  <2>2. ASSUME NEW ph \in {"merging", "checks", "developing"}
        PROVE  Continues(l, [seen[l] EXCEPT !.phase = ph])
    BY <1>0, <2>0 DEF Continues, SoundJob, InFlight,
       RequiresSeat
  <2>3. PICK ph \in {"merging", "checks", "developing"}, p \in {"off", "stage"} :
          LaneSave(l, [seen[l] EXCEPT !.phase = ph], p)
    BY <1>6 DEF ObserveChecks, ChecksPass, ChecksPending, ChecksFail
  <2> QED
    BY <1>6, <2>0, <2>1, <2>2, <2>3, SaveStep DEF ObserveChecks
<1>7. CASE BaseMoved(l)
  <2> DEFINE k == [seen[l] EXCEPT !.phase = "accepted", !.intent = FALSE, !.sent = FALSE]
  <2>1. k \in Job
    <3>1. "accepted" \in Phase
      OBVIOUS
    <3> QED
      BY <1>0, <3>1
  <2>2. /\ k.phase = "accepted" /\ k.intent = FALSE
        /\ k.back = seen[l].back /\ k.slot = seen[l].slot /\ k.reason = seen[l].reason
    BY <1>0
  <2> HIDE DEF k
  <2>4. Continues(l, k)
    BY <1>0, <2>1, <2>2 DEF Continues, SoundJob, InFlight, RequiresSeat
  <2>5. LaneSave(l, k, "stage") /\ pc[l] = "stage" /\ UNCHANGED outside
    BY <1>7 DEF BaseMoved, Observes, k
  <2> QED
    BY <2>1, <2>4, <2>5, SaveStep
<1>8. CASE SendMerge(l)
  <2>1. [seen[l] EXCEPT !.sent = TRUE] \in Job
    BY <1>0
  <2>2. Continues(l, [seen[l] EXCEPT !.sent = TRUE])
    BY <1>0, <1>8 DEF SendMerge, Continues, SoundJob, InFlight,
       RequiresSeat
  <2> QED
    BY <1>8, <2>1, <2>2, SaveStep DEF SendMerge
<1>9. CASE ConfirmMerge(l)
  <2>1. [seen[l] EXCEPT !.phase = "merged"] \in Job
    BY <1>0
  <2>2. Continues(l, [seen[l] EXCEPT !.phase = "merged"])
    BY <1>0, <1>9 DEF ConfirmMerge, Continues, SoundJob, InFlight,
       RequiresSeat
  <2> QED
    BY <1>9, <2>1, <2>2, SaveStep DEF ConfirmMerge
<1>10. CASE CloseTicket(l)
  <2>1. [NoJob EXCEPT !.phase = "completed"] \in Job
    BY <1>0
  <2>2. Continues(l, [NoJob EXCEPT !.phase = "completed"])
    BY <1>0, <1>10 DEF CloseTicket, NoJob, Continues, SoundJob, InFlight,
       RequiresSeat
  <2> QED
    BY <1>10, <2>1, <2>2, SaveStep DEF CloseTicket
<1> QED
  BY <1>1, <1>2, <1>3, <1>4, <1>5, <1>6, <1>7, <1>8, <1>9, <1>10

\* The same Jobs, seat and Agents; leases change only for lane l.
LEMMA Acquires ==
  ASSUME IInv, NEW l \in LaneId, Acquire(l)
  PROVE  IInv' /\ SeatKept
<1> DEFINE t == On(l)
<1>0. pc[l] = "stage" /\ seen[l] \in Job /\ NoJob \in Job /\ t \in Ticket
  BY OnTicket, BoundsAssumption
  DEF Acquire, NeedsAgent, IInv, ControlInv, NoJob, Job, Phase, DevPhase, SeatPhase, Reason
<1>1. seen[l].phase \in AgentPhase
  BY DEF Acquire, NeedsAgent, AgentPhase
<1>2. UNCHANGED <<jobs, holder, executor, agents>>
  BY DEF Acquire, store, outside
<1>3. CASE UNCHANGED leased /\ \E p \in {"failing", "off"}, j \in {seen[l], NoJob} : Goto(l, p, j)
  BY <1>0, <1>2, <1>3, MoveStep DEF Point, LeasePoint
<1>4. CASE /\ t \notin leased /\ Cardinality(leased) < Capacity
           /\ leased' = leased \cup {t} /\ Goto(l, "admitted", seen[l])
  <2>1. /\ ControlInv' /\ pc'[l] = "admitted"
        /\ \A m \in LaneId \ {l} : pc'[m] = pc[m]
        /\ \A m \in LaneId : pc'[m] # "off" => On(m)' = On(m)
    BY <1>0, <1>1, <1>2, <1>4, GotoFact DEF IInv, Point
  <2>2. IsFiniteSet(leased') /\ Cardinality(leased') <= Capacity
    <3>1. IsFiniteSet(leased) /\ Cardinality(leased) \in Nat
      BY FS_CardinalityType DEF IInv, LeaseInv
    <3>2. IsFiniteSet(leased \cup {t}) /\ Cardinality(leased \cup {t}) = Cardinality(leased) + 1
      BY <1>4, <3>1, FS_AddElement
    <3> QED
      BY <1>4, <3>1, <3>2, CapacityAssumption
  <2>3. LeaseInv'
    BY <1>0, <1>2, <1>4, <2>1, <2>2 DEF IInv, LeaseInv, LeasePoint
  <2> QED
    BY <1>2, <2>1, <2>3, JobsKept DEF IInv
<1>5. \/ UNCHANGED leased /\ \E p \in {"failing", "off"}, j \in {seen[l], NoJob} : Goto(l, p, j)
      \/ /\ t \notin leased /\ Cardinality(leased) < Capacity
         /\ leased' = leased \cup {t} /\ Goto(l, "admitted", seen[l])
  BY DEF Acquire, store
<1> QED
  BY <1>3, <1>4, <1>5

\* A lane under its lease: the start, the end and the loss of its Agent.
LEMMA AgentSteps ==
  ASSUME IInv, NEW l \in LaneId,
         StartAgent(l) \/ EndAgent(l) \/ FailAgent(l) \/ LoseAgent(l) \/ Release(l)
  PROVE  IInv' /\ SeatKept
<1> DEFINE t == On(l)
<1>0. pc[l] \in LeasePoint /\ seen[l] \in Job /\ t \in Ticket
  BY OnTicket
  DEF StartAgent, EndAgent, FailAgent, LoseAgent, Release, LeasePoint, IInv, ControlInv
<1>1. t \in leased /\ UNCHANGED executor
  BY <1>0 DEF StartAgent, EndAgent, FailAgent, LoseAgent, Release, outside, IInv, LeaseInv
<1>2. ASSUME NEW p \in Point \ {"load"}, NEW j \in Job, Goto(l, p, j),
             p \in {"admitted", "agent"} => j.phase \in AgentPhase
      PROVE  /\ ControlInv' /\ pc'[l] = p
             /\ \A m \in LaneId \ {l} : pc'[m] = pc[m]
             /\ \A m \in LaneId : pc'[m] # "off" => On(m)' = On(m)
  BY <1>0, <1>1, <1>2, GotoFact DEF IInv, LeasePoint
\* The lane goes on under its lease; its process lives afterwards only at "agent".
<1>3. ASSUME NEW p \in LeasePoint, NEW j \in Job, Goto(l, p, j), leased' = leased,
             p \in {"admitted", "agent"} => j.phase \in AgentPhase,
             \/ agents' = agents /\ (t \in agents => p = "agent")
             \/ agents' = agents \cup {t} /\ p = "agent"
             \/ agents' = agents \ {t}
      PROVE  ControlInv' /\ LeaseInv'
  BY <1>0, <1>1, <1>2, <1>3 DEF IInv, LeaseInv, LeasePoint, Point
\* A save under the lease, followed by p or by the unwinding of the lane.
<1>4. ASSUME NEW j \in Job, NEW p \in {"agent", "release"},
             jobs[t] = seen[l] => SoundJob(j) /\ (InFlight(jobs[t]) => RequiresSeat(j)),
             pc[l] \in {"admitted", "agent"}, LaneSave(l, j, p)
      PROVE  /\ JobInv' /\ SeatKept /\ leased' = leased
             /\ \/ Saves(l, j) /\ Goto(l, p, j)
                \/ ~Saves(l, j) /\ Goto(l, "unwind", seen[l])
  <2>1. CASE Saves(l, j)
    <3>1. jobs[t] = seen[l]
      BY <2>1 DEF Saves, Refuses
    <3>2. PICK asked : Store(t, j, workQueue, asked)
      BY <1>4, <2>1 DEF LaneSave
    <3>3. /\ JobInv' /\ leased' = leased
          /\ \A u \in Ticket : holder = u /\ (u = t => RequiresSeat(j)) => holder' = u
      BY <1>0, <1>4, <3>1, <3>2, StoreFact DEF IInv
    <3>4. SeatKept
      BY <1>4, <3>1, <3>3 DEF SeatKept
    <3> QED
      BY <1>4, <2>1, <3>3, <3>4 DEF LaneSave
  <2>2. CASE ~Saves(l, j)
    <3>1. Goto(l, "unwind", seen[l]) /\ UNCHANGED store
      BY <1>4, <2>2 DEF LaneSave, HasLease
    <3> QED
      BY <2>2, <3>1, JobsKept DEF IInv, store
  <2> QED
    BY <2>1, <2>2
<1>5. jobs[t] = seen[l] => SoundJob(seen[l])
  BY <1>0 DEF IInv, JobInv
<1>6. CASE StartAgent(l)
  <2> DEFINE r == IF seen[l].rounds < MaxRounds /\ seen[l].phase = "developing"
                    THEN seen[l].rounds + 1 ELSE seen[l].rounds
             j == [seen[l] EXCEPT !.rounds = r]
  <2>1. r \in 0 .. MaxRounds
    BY <1>0, BoundsAssumption DEF Job
  <2>2. LaneSave(l, j, "agent") /\ pc[l] = "admitted"
    BY <1>0, <1>6 DEF StartAgent, Job
  <2> HIDE DEF r
  <2>3. j \in Job
    BY <1>0, <2>1 DEF Job
  <2>4. /\ j.phase = seen[l].phase /\ j.intent = seen[l].intent /\ j.back = seen[l].back
        /\ j.slot = seen[l].slot /\ j.reason = seen[l].reason /\ j.sent = seen[l].sent
    BY <1>0 DEF Job
  <2>5. agents' = IF Saves(l, j) THEN agents \cup {t} ELSE agents
    BY <1>0, <1>6 DEF StartAgent, Job, r
  <2> HIDE DEF j
  <2>6. jobs[t] = seen[l] => SoundJob(j) /\ (InFlight(jobs[t]) => RequiresSeat(j))
    BY <1>0, <1>5, <2>3, <2>4 DEF SoundJob, InFlight, RequiresSeat, SeatPhase
  <2>7. /\ JobInv' /\ SeatKept /\ leased' = leased
        /\ \/ Saves(l, j) /\ Goto(l, "agent", j)
           \/ ~Saves(l, j) /\ Goto(l, "unwind", seen[l])
    BY <1>4, <2>2, <2>3, <2>6
  <2>8. t \notin agents /\ j.phase \in AgentPhase
    BY <2>2, <2>4 DEF IInv, LeaseInv, LeasePoint, ControlInv
  <2>9. ControlInv' /\ LeaseInv'
    BY <1>0, <1>3, <2>3, <2>5, <2>7, <2>8 DEF LeasePoint
  <2> QED
    BY <2>7, <2>9 DEF IInv
<1>7. CASE EndAgent(l)
  <2> DEFINE j == [seen[l] EXCEPT !.returned = TRUE]
  <2>1. j \in Job
    BY <1>0 DEF Job
  <2>2. /\ j.phase = seen[l].phase /\ j.intent = seen[l].intent /\ j.back = seen[l].back
        /\ j.slot = seen[l].slot /\ j.reason = seen[l].reason /\ j.sent = seen[l].sent
    BY <1>0 DEF Job
  <2>3. /\ LaneSave(l, j, "release") /\ pc[l] = "agent"
        /\ agents' = agents \ {t}
    BY <1>7 DEF EndAgent
  <2> HIDE DEF j
  <2>4. jobs[t] = seen[l] => SoundJob(j) /\ (InFlight(jobs[t]) => RequiresSeat(j))
    BY <1>0, <1>5, <2>1, <2>2 DEF SoundJob, InFlight, RequiresSeat, SeatPhase
  <2>5. /\ JobInv' /\ SeatKept /\ leased' = leased
        /\ \/ Saves(l, j) /\ Goto(l, "release", j)
           \/ ~Saves(l, j) /\ Goto(l, "unwind", seen[l])
    BY <1>4, <2>1, <2>3, <2>4
  <2>6. ControlInv' /\ LeaseInv'
    BY <1>0, <1>3, <2>1, <2>3, <2>5 DEF LeasePoint
  <2> QED
    BY <2>5, <2>6 DEF IInv
\* A failure is saved as a blocked Job, which keeps the seat of a write.
<1>8. ASSUME NEW p \in {"unwind", "raised"}, pc[l] = "agent", SaveFailure(l, p)
      PROVE  /\ JobInv' /\ SeatKept /\ leased' = leased
             /\ \E j \in Job : Goto(l, p, j)
  <2> DEFINE b == Stopped(l)
  <2>1. b \in Job
    BY <1>0, BlockedJobs DEF Stopped
  <2>2. CASE /\ jobs[t] = seen[l] /\ Store(t, b, workQueue, pauseRequests \ {t})
             /\ Goto(l, p, b)
    <3>1. SoundJob(seen[l]) /\ seen[l].phase \in AgentPhase
      BY <1>5, <1>8, <2>2 DEF IInv, ControlInv
    <3>2. SoundJob(b) /\ ~InFlight(jobs[t])
      BY <1>0, <2>2, <3>1
      DEF Stopped, Paused, Failed, SoundJob, InFlight, Job, AgentPhase
    <3> HIDE DEF b
    <3>3. /\ JobInv' /\ leased' = leased
          /\ \A u \in Ticket : holder = u /\ (u = t => RequiresSeat(b)) => holder' = u
      BY <1>0, <2>1, <2>2, <3>2, StoreFact DEF IInv
    <3>4. SeatKept
      BY <3>2, <3>3 DEF SeatKept
    <3> QED
      BY <2>1, <2>2, <3>3, <3>4
  <2>3. CASE UNCHANGED store /\ Goto(l, p, seen[l])
    BY <1>0, <2>3, JobsKept DEF IInv, store
  <2> QED
    BY <1>8, <2>2, <2>3 DEF SaveFailure
<1>9. CASE FailAgent(l) \/ LoseAgent(l)
  <2>1. PICK p \in {"unwind", "raised"} : SaveFailure(l, p) /\ pc[l] = "agent"
                /\ \/ p = "unwind" /\ agents' = agents \ {t}
                   \/ p = "raised" /\ agents' = agents
    BY <1>9 DEF FailAgent, LoseAgent, outside
  <2>2. JobInv' /\ SeatKept /\ leased' = leased
    BY <1>8, <2>1
  <2>3. PICK j \in Job : Goto(l, p, j)
    BY <1>8, <2>1
  <2>4. CASE p = "unwind"
    <3>1. ControlInv' /\ LeaseInv'
      BY <1>3, <2>1, <2>2, <2>3, <2>4 DEF LeasePoint
    <3> QED
      BY <2>2, <3>1 DEF IInv
  <2>5. CASE p = "raised"
    <3>1. LeaseInv' /\ ControlInv'
      BY <1>0, <1>2, <2>1, <2>2, <2>3, <2>5 DEF IInv, LeaseInv, LeasePoint, Point
    <3> QED
      BY <2>2, <3>1 DEF IInv
  <2> QED
    BY <2>4, <2>5
<1>10. CASE Release(l)
  <2>1. /\ pc[l] \in {"release", "unwind"} /\ UNCHANGED <<jobs, holder, agents>>
        /\ leased' = leased \ {t}
        /\ \E p \in {"stage", "failing"} : Goto(l, p, seen[l])
    BY <1>10 DEF Release, outside
  <2>2. IsFiniteSet(leased') /\ Cardinality(leased') <= Capacity
    <3>1. IsFiniteSet(leased) /\ Cardinality(leased) \in Nat
      BY FS_CardinalityType DEF IInv, LeaseInv
    <3>2. IsFiniteSet(leased \ {t}) /\ Cardinality(leased \ {t}) = Cardinality(leased) - 1
      BY <1>1, <3>1, FS_RemoveElement
    <3> QED
      BY <2>1, <3>1, <3>2, CapacityAssumption DEF IInv, LeaseInv
  <2>3. PICK p \in {"stage", "failing"} : Goto(l, p, seen[l])
    BY <2>1
  <2>4. /\ ControlInv' /\ pc'[l] = p
        /\ \A m \in LaneId \ {l} : pc'[m] = pc[m]
        /\ \A m \in LaneId : pc'[m] # "off" => On(m)' = On(m)
    BY <1>0, <1>2, <2>3 DEF Point
  <2>5. t \notin agents
    BY <2>1 DEF IInv, LeaseInv, LeasePoint
  <2>6. LeaseInv'
    BY <2>1, <2>2, <2>4, <2>5 DEF IInv, LeaseInv, LeasePoint
  <2> QED
    BY <2>1, <2>4, <2>6, JobsKept DEF IInv
<1> QED
  BY <1>6, <1>7, <1>9, <1>10

\* A lane that fails blocks its own Ticket, goes on later, or fails the Executor.
LEMMA FailureSteps ==
  ASSUME IInv, NEW l \in LaneId, StageError(l) \/ LaneFails(l) \/ FailExecutor(l)
  PROVE  IInv' /\ SeatKept
<1> DEFINE t == On(l)
           m == seen[l]
           b == Stopped(l)
<1>0. /\ m \in Job /\ NoJob \in Job /\ t \in Ticket
      /\ pc[l] \in {"stage", "failing", "raised"}
  BY OnTicket, BoundsAssumption
  DEF StageError, LaneFails, FailExecutor, IInv, ControlInv, NoJob, Job, Phase,
      DevPhase, SeatPhase, Reason
<1>1. ASSUME NEW p \in {"off", "failing", "raised"}, NEW j \in {m, NoJob}, Goto(l, p, j),
             executor' = executor \/ executor' # "down",
             UNCHANGED <<jobs, holder, leased, agents>>
      PROVE  IInv' /\ SeatKept
  BY <1>0, <1>1, MoveStep DEF Point, LeasePoint
<1>2. CASE StageError(l)
  BY <1>1, <1>2 DEF StageError, store, outside
<1>3. CASE FailExecutor(l)
  BY <1>1, <1>3 DEF FailExecutor, store
<1>4. CASE LaneFails(l)
  <2>1. \/ UNCHANGED <<jobs, holder, leased>> /\ \E p \in {"off", "raised"}, j \in {m, NoJob} : Goto(l, p, j)
        \/ /\ Goto(l, "off", NoJob)
           /\ \/ Saves(l, m) /\ \E q, asked : Store(t, m, q, asked)
              \/ /\ jobs[t] = m /\ m.phase \notin {"merging", "merged", "blocked", "completed"}
                 /\ \E q, asked : Store(t, b, q, asked)
    <3> HIDE DEF b
    <3>1. CASE m.phase \in {"merging", "merged"}
      BY <1>4, <3>1 DEF LaneFails, store
    <3>2. CASE m.phase \notin {"merging", "merged"}
      BY <1>4, <3>2 DEF LaneFails, store, b
    <3> QED
      BY <3>1, <3>2
  <2>2. UNCHANGED <<executor, agents>>
    BY <1>4 DEF LaneFails, outside
  <2>3. CASE UNCHANGED <<jobs, holder, leased>> /\ \E p \in {"off", "raised"}, j \in {m, NoJob} : Goto(l, p, j)
    BY <1>1, <2>2, <2>3
  <2>4. ASSUME NEW j \in Job, NEW q, NEW asked, Store(t, j, q, asked), jobs[t] = m,
               Goto(l, "off", NoJob),
               SoundJob(m) => SoundJob(j) /\ (InFlight(m) => RequiresSeat(j))
        PROVE  IInv' /\ SeatKept
    <3>1. SoundJob(m)
      BY <1>0, <2>4 DEF IInv, JobInv
    <3>2. /\ JobInv' /\ leased' = leased
          /\ \A u \in Ticket : holder = u /\ (u = t => RequiresSeat(j)) => holder' = u
      BY <1>0, <2>4, <3>1, StoreFact DEF IInv
    <3>3. SeatKept
      BY <2>4, <3>1, <3>2 DEF SeatKept
    <3>4. ControlInv' /\ LeaseInv'
      BY <1>0, <2>2, <2>4, <3>2, LeaseKept DEF IInv, Point, LeasePoint
    <3> QED
      BY <3>2, <3>3, <3>4 DEF IInv
  <2>5. CASE Goto(l, "off", NoJob) /\ Saves(l, m) /\ \E q, asked : Store(t, m, q, asked)
    <3>1. jobs[t] = m
      BY <2>5 DEF Saves, Refuses
    <3>2. InFlight(m) => RequiresSeat(m)
      BY DEF InFlight, RequiresSeat, SeatPhase
    <3> QED
      BY <1>0, <2>4, <2>5, <3>1, <3>2
  <2>6. CASE /\ Goto(l, "off", NoJob) /\ jobs[t] = m
             /\ m.phase \notin {"merging", "merged", "blocked", "completed"}
             /\ \E q, asked : Store(t, b, q, asked)
    <3>1. b \in Job
      BY <1>0, BlockedJobs DEF Stopped
    <3>2. SoundJob(m) => SoundJob(b) /\ (InFlight(m) => RequiresSeat(b))
      BY <1>0, <2>6 DEF Stopped, SoundJob, InFlight, RequiresSeat, Paused, Failed, Job
    <3> HIDE DEF b
    <3> QED
      BY <2>4, <2>6, <3>1, <3>2
  <2> QED
    BY <2>1, <2>3, <2>5, <2>6
<1> QED
  BY <1>2, <1>3, <1>4

\* A lane starts.
LEMMA StartSteps ==
  ASSUME IInv,
         \/ Dispatch \/ Observe \/ LoadObserver
         \/ \E t \in Ticket : LoadLane(t) \/ Foreground(t)
  PROVE  IInv' /\ SeatKept
<1>0. /\ NoJob \in Job /\ Observer \in LaneId /\ Ticket \subseteq LaneId
      /\ jobs \in [Ticket -> Job]
  BY BoundsAssumption
  DEF NoJob, Job, Phase, DevPhase, SeatPhase, Reason, LaneId, IInv, JobInv
<1>1. /\ UNCHANGED <<jobs, holder, leased, agents, executor>>
  BY DEF Dispatch, Observe, LoadObserver, LoadLane, Foreground, store, outside
<1>2. JobInv' /\ SeatKept
  BY <1>1, JobsKept DEF IInv
\* Whoever starts leaves the lanes with a lease where they are.
<1>3. ASSUME ControlInv',
             \A m \in LaneId : pc'[m] \in LeasePoint => pc'[m] = pc[m] /\ On(m)' = On(m)
      PROVE  LeaseInv'
  BY <1>1, <1>3 DEF IInv, LeaseInv
<1>4. CASE Dispatch
  <2>1. PICK S : pc' = [l \in LaneId |-> IF l \in S THEN "load" ELSE pc[l]]
    BY <1>4 DEF Dispatch
  <2>2. executor = "up" /\ UNCHANGED <<seen, observed>>
    BY <1>4 DEF Dispatch
  <2>3. ControlInv'
    BY <1>0, <1>1, <2>1, <2>2 DEF IInv, ControlInv, Point
  <2>4. \A m \in LaneId : pc'[m] \in LeasePoint => pc'[m] = pc[m] /\ On(m)' = On(m)
    BY <2>1, <2>2 DEF LeasePoint, On
  <2> QED
    BY <1>2, <1>3, <2>3, <2>4 DEF IInv
<1>5. CASE Observe
  <2>1. ControlInv'
    BY <1>0, <1>1, <1>5 DEF Observe, IInv, ControlInv, Point
  <2>2. \A m \in LaneId : pc'[m] \in LeasePoint => pc'[m] = pc[m] /\ On(m)' = On(m)
    BY <1>0, <1>5 DEF Observe, LeasePoint, On, IInv, ControlInv
  <2> QED
    BY <1>2, <1>3, <2>1, <2>2 DEF IInv
<1>6. CASE LoadObserver
  <2> DEFINE number == IF holder # None THEN holder
                       ELSE IF seatQueue # <<>> THEN Head(seatQueue) ELSE None
  <2>1. /\ pc[Observer] = "load"
        /\ \/ /\ number \in Ticket
              /\ pc' = [pc EXCEPT ![Observer] = "stage"]
              /\ seen' = [seen EXCEPT ![Observer] = jobs[number]]
              /\ observed' = number
           \/ /\ pc' = [pc EXCEPT ![Observer] = "off"]
              /\ UNCHANGED <<seen, observed>>
    BY <1>6 DEF LoadObserver
  <2> HIDE DEF number
  <2>2. ControlInv'
    BY <1>0, <1>1, <2>1 DEF IInv, ControlInv, Point
  <2>3. \A m \in LaneId : pc'[m] \in LeasePoint => pc'[m] = pc[m] /\ On(m)' = On(m)
    BY <1>0, <2>1 DEF LeasePoint, On, IInv, ControlInv
  <2> QED
    BY <1>2, <1>3, <2>2, <2>3 DEF IInv
<1>7. ASSUME NEW t \in Ticket, LoadLane(t) PROVE IInv' /\ SeatKept
  <2>1. \E p \in {"stage", "off"}, j \in Job : Goto(t, p, j)
    BY <1>0, <1>7 DEF LoadLane
  <2>2. t \in LaneId /\ t # Observer /\ pc[t] = "load"
    BY <1>0, <1>7, TicketAssumption DEF LoadLane
  <2> QED
    BY <1>1, <2>1, <2>2, MoveStep DEF Point, LeasePoint
<1>8. ASSUME NEW t \in Ticket, Foreground(t) PROVE IInv' /\ SeatKept
  <2>1. /\ executor = "up" /\ observed' = t
        /\ pc' = [pc EXCEPT ![Observer] = "stage"]
        /\ seen' = [seen EXCEPT ![Observer] = jobs[t]]
        /\ \A l \in LaneId : pc[l] = "off"
    BY <1>8 DEF Foreground
  <2>2. ControlInv'
    BY <1>0, <1>1, <2>1 DEF IInv, ControlInv, Point
  <2>3. \A m \in LaneId : pc'[m] \in LeasePoint => pc'[m] = pc[m] /\ On(m)' = On(m)
    BY <1>0, <2>1 DEF LeasePoint, IInv, ControlInv
  <2> QED
    BY <1>2, <1>3, <2>2, <2>3 DEF IInv
<1> QED
  BY <1>4, <1>5, <1>6, <1>7, <1>8

\* The Executor ends, dies or starts anew; the Run stops.
LEMMA ExecutorSteps ==
  ASSUME IInv, SeeStop \/ Drain \/ Crash \/ Restart \/ StopRun
  PROVE  IInv' /\ SeatKept
<1>1. UNCHANGED <<jobs, holder>>
  BY DEF SeeStop, Drain, Crash, Restart, StopRun, store
<1>2. JobInv' /\ SeatKept
  BY <1>1, JobsKept DEF IInv
<1>3. CASE SeeStop \/ Drain \/ StopRun
  BY <1>2, <1>3 DEF SeeStop, Drain, StopRun, store, lanes, IInv, ControlInv, LeaseInv, On
<1>4. CASE Crash
  <2>1. NoJob \in Job /\ Observer \in LaneId
    BY BoundsAssumption DEF NoJob, Job, Phase, DevPhase, SeatPhase, Reason, LaneId
  <2>2. ControlInv'
    BY <1>4, <2>1 DEF Crash, ControlInv, Point
  <2>3. LeaseInv'
    BY <1>4 DEF Crash, store, IInv, LeaseInv, LeasePoint
  <2> QED
    BY <1>2, <2>2, <2>3 DEF IInv
<1>5. CASE Restart
  <2>1. \A l \in LaneId : pc[l] = "off"
    BY <1>5 DEF Restart, IInv, ControlInv
  <2>2. ControlInv'
    BY <1>5 DEF Restart, lanes, IInv, ControlInv
  <2>3. IsFiniteSet({}) /\ Cardinality({}) = 0
    BY FS_EmptySet
  <2>4. LeaseInv'
    BY <1>5, <2>1, <2>3, CapacityAssumption DEF Restart, lanes, LeaseInv, LeasePoint
  <2> QED
    BY <1>2, <2>2, <2>4 DEF IInv
<1> QED
  BY <1>3, <1>4, <1>5

\* The Job that a Resume puts back: a sent write keeps the seat, or the
\* contract refuses the command.
LEMMA ResumedFact ==
  ASSUME JobInv, NEW t \in Ticket, jobs[t].phase = "blocked", Holds(t, Resumed(t))
  PROVE  /\ Resumed(t) \in Job /\ SoundJob(Resumed(t))
         /\ InFlight(jobs[t]) => RequiresSeat(Resumed(t))
<1> DEFINE j == jobs[t]
           r == Resumed(t)
<1> USE DEF Phase, DevPhase, SeatPhase, Reason
<1>1. j \in Job /\ SoundJob(j) /\ j.phase = "blocked" /\ j.reason # "-"
  BY DEF JobInv, SoundJob
<1>2. \/ r = Queued(j) /\ j.reason \in {"paused", "failed"} /\ j.back \in SeatPhase
      \/ r = Returned(j) /\ j.reason \in {"paused", "failed", "human"}
      \/ r = ResumedBudget(j) /\ j.reason = "budget"
  BY <1>1 DEF Resumed, ResumedPause, ResumedFailure, Job
<1>3. CASE r = Queued(j) /\ j.reason \in {"paused", "failed"} /\ j.back \in SeatPhase
  <2>1. r \in Job /\ r.phase = "ready" /\ r.intent = j.intent
        /\ r.back = "none" /\ r.slot = j.back
    BY <1>1, <1>3 DEF Queued, Unblocked, Job
  <2> HIDE DEF r
  <2>2. ~r.intent
    <3> DEFINE js == [jobs EXCEPT ![t] = r]
               h == HolderAfter(t, r)
               sq == SeatQueueAfter(t, r)
    <3>1. js[t] = r
      BY DEF JobInv
    <3>2. Contract(js, h, sq, leased)
      BY DEF Holds, r
    <3> HIDE DEF js, h, sq
    <3>3. t \in Items(sq) /\ t # h
      BY <2>1, <3>1, <3>2 DEF Contract
    <3>4. ~RequiresSeat(r)
      BY <3>1, <3>2, <3>3 DEF Contract
    <3> QED
      BY <3>4 DEF RequiresSeat
  <2>3. SoundJob(r)
    BY <1>3, <2>1, <2>2 DEF SoundJob
  <2>4. ~InFlight(j)
    BY <1>1, <2>1, <2>2 DEF InFlight
  <2> QED
    BY <2>1, <2>3, <2>4 DEF r
<1>4. CASE r = Returned(j) /\ j.reason \in {"paused", "failed", "human"}
  <2>1. r \in Job /\ r.phase = j.back /\ r.intent = j.intent
        /\ r.back = "none" /\ r.slot = j.slot
    BY <1>1, <1>4 DEF Returned, Unblocked, Job
  <2> HIDE DEF r
  <2>2. SoundJob(r)
    BY <1>1, <2>1 DEF SoundJob
  <2>3. InFlight(j) => RequiresSeat(r)
    BY <1>1, <2>1 DEF InFlight, RequiresSeat
  <2> QED
    BY <2>1, <2>2, <2>3 DEF r
<1>5. CASE r = ResumedBudget(j) /\ j.reason = "budget"
  <2>1. r \in Job /\ r.phase = "developing" /\ r.intent = j.intent
        /\ r.back = "none" /\ r.slot = j.slot
    <3> DEFINE u == Unblocked(j)
    <3>1. u \in Job /\ u.intent = j.intent /\ u.back = "none" /\ u.slot = j.slot
      BY <1>1 DEF Unblocked, Job
    <3>2. 0 \in 0 .. MaxRounds
      BY BoundsAssumption
    <3>3. r = [u EXCEPT !.phase = "developing", !.rounds = 0]
      BY <1>5 DEF ResumedBudget
    <3> HIDE DEF u, r
    <3> QED
      BY <3>1, <3>2, <3>3 DEF Job
  <2> HIDE DEF r
  <2>2. ~j.intent
    BY <1>1, <1>5 DEF SoundJob
  <2>3. SoundJob(r) /\ ~InFlight(j)
    BY <1>1, <2>1, <2>2 DEF SoundJob, InFlight
  <2> QED
    BY <2>1, <2>3 DEF r
<1> QED
  BY <1>2, <1>3, <1>4, <1>5

\* The commands of the operator, and who may answer them.
LEMMA CommandSteps ==
  ASSUME IInv, NEW t \in Ticket, RequestPause(t) \/ Resume(t)
  PROVE  IInv' /\ SeatKept
<1>1. UNCHANGED <<executor, pc, seen, observed, agents>>
  BY DEF RequestPause, Resume, lanes
<1>2. CASE UNCHANGED store
  <2>1. JobInv' /\ SeatKept
    BY <1>2, JobsKept DEF store, IInv
  <2> QED
    BY <1>1, <1>2, <2>1 DEF store, IInv, ControlInv, LeaseInv, On
<1>3. ASSUME NEW j \in Job, NEW q, NEW asked, Store(t, j, q, asked), SoundJob(j),
             InFlight(jobs[t]) => RequiresSeat(j)
      PROVE  IInv' /\ SeatKept
  <2>1. /\ JobInv' /\ leased' = leased
        /\ \A u \in Ticket : holder = u /\ (u = t => RequiresSeat(j)) => holder' = u
    BY <1>3, StoreFact DEF IInv
  <2>2. SeatKept
    BY <1>3, <2>1 DEF SeatKept
  <2> QED
    BY <1>1, <2>1, <2>2 DEF IInv, ControlInv, LeaseInv, On
<1>4. CASE RequestPause(t)
  <2> DEFINE m == jobs[t]
  <2>1. m \in Job /\ SoundJob(m)
    BY DEF IInv, JobInv
  <2>2. \/ UNCHANGED store
        \/ \E q, asked : Store(t, m, q, asked)
        \/ m.phase = "ready" /\ \E q, asked : Store(t, Paused(m), q, asked)
    BY <1>4 DEF RequestPause
  <2>3. InFlight(m) => RequiresSeat(m)
    BY DEF InFlight, RequiresSeat, SeatPhase
  <2>4. m.phase = "ready" =>
          Paused(m) \in Job /\ SoundJob(Paused(m)) /\ ~InFlight(m)
    BY <2>1, BlockedJobs DEF SoundJob, Paused, InFlight, Job
  <2> QED
    BY <1>2, <1>3, <2>1, <2>2, <2>3, <2>4
<1>5. CASE Resume(t)
  <2>1. \/ UNCHANGED store
        \/ /\ Holds(t, Resumed(t)) /\ jobs[t].phase = "blocked"
           /\ \E q, asked : Store(t, Resumed(t), q, asked)
    BY <1>5 DEF Resume
  <2> QED
    BY <1>2, <1>3, <2>1, ResumedFact DEF IInv
<1> QED
  BY <1>4, <1>5

-----------------------------------------------------------------------------
(* The theorems.                                                           *)

LEMMA InitInv == Init => IInv
<1> SUFFICES ASSUME Init PROVE IInv
  OBVIOUS
<1>1. NoJob \in Job /\ SoundJob(NoJob) /\ Observer \in LaneId
  BY BoundsAssumption
  DEF NoJob, Job, Phase, DevPhase, SeatPhase, Reason, LaneId, SoundJob
<1>2. ControlInv
  BY <1>1 DEF Init, ControlInv, Point
<1>3. IsFiniteSet({}) /\ Cardinality({}) = 0
  BY FS_EmptySet
<1>4. LeaseInv
  BY <1>3, CapacityAssumption DEF Init, LeaseInv, LeasePoint
<1>5. JobInv
  BY <1>1 DEF Init, JobInv
<1> QED
  BY <1>2, <1>4, <1>5 DEF IInv

LEMMA StepInv == IInv /\ [Next]_vars => IInv' /\ SeatKept
<1> SUFFICES ASSUME IInv, [Next]_vars PROVE IInv' /\ SeatKept
  OBVIOUS
<1>1. CASE UNCHANGED vars
  <2>1. JobInv' /\ SeatKept
    BY <1>1, JobsKept DEF vars, store, IInv
  <2> QED
    BY <1>1, <2>1 DEF vars, store, lanes, IInv, ControlInv, LeaseInv, On
<1>2. ASSUME NEW l \in LaneId,
             LaneStep(l) \/ FailExecutor(l) \/ StageError(l) \/ FailAgent(l) \/ LoseAgent(l)
      PROVE  IInv' /\ SeatKept
  BY <1>2, DevelopmentSteps, SeatSteps, Acquires, AgentSteps, FailureSteps
  DEF LaneStep, Stage
<1>3. ASSUME NEW t \in Ticket,
             LoadLane(t) \/ Foreground(t) \/ RequestPause(t) \/ Resume(t)
      PROVE  IInv' /\ SeatKept
  BY <1>3, StartSteps, CommandSteps
<1> QED
  BY <1>1, <1>2, <1>3, StartSteps, ExecutorSteps DEF Next

\* Live Agents hold leases, and no sequence of admissions, failures, lost
\* Workers, crashes and restarts ever lets more than Capacity of them live
\* (ticket_work.py, agent_work.py).
THEOREM CapacitySafe == Spec => []WithinCapacity
<1>1. IInv => WithinCapacity
  <2> SUFFICES ASSUME IInv PROVE WithinCapacity
    OBVIOUS
  <2>1. IsFiniteSet(leased) /\ Cardinality(leased) <= Capacity /\ agents \subseteq leased
    BY DEF IInv, LeaseInv
  <2>2. /\ IsFiniteSet(agents)
        /\ Cardinality(agents) <= Cardinality(leased)
        /\ Cardinality(agents) \in Nat /\ Cardinality(leased) \in Nat
    BY <2>1, FS_Subset, FS_CardinalityType
  <2> QED
    BY <2>1, <2>2, CapacityAssumption DEF WithinCapacity
<1> QED
  BY <1>1, InitInv, StepInv, PTL DEF Spec

\* No pause, failure, crash, restart or resumption takes the integration seat
\* from a Ticket whose write or merge is on its way (ticket_queue.py).
THEOREM SeatSafe == Spec => SeatOutlivesWrite
<1>1. IInv /\ [Next]_vars => IInv' /\ [SeatKept]_vars
  BY StepInv
<1> QED
  BY <1>1, InitInv, PTL DEF Spec, SeatOutlivesWrite
=============================================================================
