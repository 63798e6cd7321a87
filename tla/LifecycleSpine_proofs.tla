----------------------- MODULE LifecycleSpine_proofs -----------------------
(***************************************************************************)
(* Proofs about the lifecycle spine for every value of the constants, for  *)
(* behaviours in which the Task Control Record is not lost.                *)
(***************************************************************************)
EXTENDS LifecycleSpine, TaskControl_proofs

-----------------------------------------------------------------------------
(* The invariant.  It is about behaviours in which the record is not lost. *)

Kept == "loss" \notin Fault

\* The slot names the launch of t.
Names(e, t) == e # None /\ e.id = t[1] /\ e.gen = t[2]
Holds(t)    == Names(executor, t)

\* t has been reserved: its Action is an older one, or has reached it.
Reserved(t) ==
  /\ t[1] \in issued
  /\ action # None /\ action.id = t[1] => executor # None /\ t[2] <= action.gen

Launching(c) == client[c].pc \in {"reserved", "launch"}

\* t works, or something is still on its way that will make it work.
Able(t) ==
  \/ Working(t)
  \/ unit[t] = "none" /\ t \in carrier
  \/ \E c \in Client : Launching(c) /\ Held(c) = t

\* What the record of a kept task never shows.
RecordInv ==
  /\ executor # None =>
       /\ executor.origin = "reserved"
       /\ action.run # None => executor.run = action.run
  /\ action # None =>
       /\ action.gen <= MaxGeneration
       /\ PayloadRun[action.payload] = None <=> action.kind = "run"
       /\ action.target # None => action.kind \in ControlKind
       /\ action.kind \in ControlKind => action.run \in RunId
       /\ action.status = "failed" => ~Live(executor)

\* A command carries an intent of its own once it was submitted.
ClientInv ==
  \A c \in Client : client[c].pc # "idle" =>
    /\ client[c].kind \in Kind /\ client[c].payload \in Payload
    /\ PayloadRun[client[c].payload] = None <=> client[c].kind = "run"
    /\ client[c].pc \notin {"submit", "admit"} => client[c].id \in ActionId

\* The startup lease covers a launch from the reservation on; a process is
\* alive exactly while its unit is up.
HostInv ==
  /\ \A c \in Client : Launching(c) <=> lease = c
  /\ \A c \in Client : Launching(c) =>
       Held(c) \in Token /\ unit[Held(c)] = "none" /\ Held(c) \notin inflight
  /\ \A t \in Token : Alive(t) <=> unit[t] = "up"
  /\ \A t \in carrier : unit[t] = "none" => t \in pending

\* Nothing is known of a token before its reservation.
FreshInv ==
  \A t \in Token : ~Reserved(t) =>
    /\ unit[t] = "none"
    /\ t \notin pending /\ t \notin carrier /\ t \notin inflight
    /\ stray[t] = 0
    /\ \A c \in Client : Launching(c) => Held(c) # t

\* Whatever can still work was fenced off or is the live Executor in the slot.
SessionInv ==
  \A t \in Token : Able(t) =>
    /\ t \in fenced \/ Holds(t)
    /\ Holds(t) => Live(executor)

ControlPc == {"none", "boot", "start", "shake", "receipt", "apply",
              "terminate", "outcome", "finish", "tail"}
BoundPc   == {"apply", "complete", "terminate", "outcome", "drive", "external",
              "close"}
RunPc     == ExecStep \ {"none", "boot", "start", "shake", "select", "tail"}
DrivePc   == {"drive", "external", "failing"}

\* Where the process in the slot may be, and which Run it works on.
ExecOk(t) ==
  /\ exec[t].pc \in RunPc => exec[t].run \in RunId
  /\ Holds(t) =>
       /\ exec[t].pc \in {"start", "shake"} =>
            (action.kind # "run" \/ action.run # None => exec[t].run \in RunId)
       /\ IF action.kind \in ControlKind THEN exec[t].pc \in ControlPc
          ELSE exec[t].pc \notin {"terminate", "outcome"}
       /\ exec[t].pc \in BoundPc =>
            action.run = exec[t].run /\ executor.run = exec[t].run

ExecInv == \A t \in Token : ExecOk(t)

\* An external step that ran past a fence was the last one.
StrayOk(t) ==
  stray[t] # 0 =>
    /\ stray[t] = 1 /\ unit[t] # "none"
    /\ exec[t].pc \in {"drive", "close", "failing", "tail", "none"}
    /\ exec[t].pc \in {"drive", "close"} => ~Current(t)

StrayInv == \A t \in Token : StrayOk(t)

WriterInv == writer # 0 => action # None /\ writer <= action.gen

\* A Worker belongs to the live Executor in the slot or to the target of a
\* Stop, and is registered there.
OwnedInv ==
  \A w \in Worker : worker[w] # None =>
    /\ exec[worker[w]].pc \in DrivePc
    /\ \/ Holds(worker[w]) /\ Live(executor) /\ w \in executor.workers
       \/ /\ action # None /\ Names(action.target, worker[w])
          /\ w \in action.target.workers

ControlIdle ==
  executor # None /\ action.kind \in ControlKind => executor.workers = {}

\* Every Worker of the fenced target is dead.
TargetQuiet ==
  \A w \in Worker : worker[w] # None => ~Names(action.target, worker[w])

TargetOpen ==
  /\ action.status # "completed"
  /\ runs[action.run].status \notin ClosedRun
  /\ \A t \in Token : Holds(t) => exec[t].pc \notin {"outcome", "finish"}

TargetInv ==
  action # None /\ action.target # None => TargetQuiet \/ TargetOpen

\* A closed admission has left no accepted Ticket Resume behind.
AdmissionInv ==
  executor # None /\ executor.closed =>
    /\ executor.run \in RunId
    /\ executor.failure = "none" => served[executor.run] = total[executor.run]

SeenOk(t) ==
  exec[t].pc = "close" /\ Current(t) => exec[t].seen = served[exec[t].run]

SeenInv == \A t \in Token : SeenOk(t)

SpineInv ==
  /\ RecordInv /\ ClientInv /\ HostInv /\ FreshInv /\ SessionInv /\ ExecInv
  /\ StrayInv /\ WriterInv /\ OwnedInv /\ ControlIdle /\ TargetInv
  /\ AdmissionInv /\ SeenInv

Recorded  == TypeOK /\ OwnershipInv /\ KeptInv /\ RecordInv
SpineIInv == Recorded /\ SpineTypeOK /\ SpineInv

USE DEF Unfinished, Terminal, Live, Gone, ActiveStatus, TerminalStatus,
        LiveStatus, GoneStatus, Generation, HasReceipt, RunExists

-----------------------------------------------------------------------------
(* Tokens.                                                                 *)

\* A token is an identity and a generation, and nothing else.
LEMMA TokenFact ==
  ASSUME NEW t \in Token
  PROVE  /\ t[1] \in ActionId /\ t[2] \in 1..MaxGeneration
         /\ t = <<t[1], t[2]>> /\ t # None
         /\ \A u \in Token : u[1] = t[1] /\ u[2] = t[2] => u = t
<1>1. t # None
  BY SpineAssumption, ConstantsAssumption
<1> QED
  BY <1>1 DEF Token

\* An executor names at most one token.
LEMMA NamesFact ==
  ASSUME NEW e, NEW t \in Token
  PROVE  Names(e, t) <=> e # None /\ TokenOf(e) = t
BY TokenFact DEF Names, TokenOf

LEMMA NamesOne ==
  ASSUME NEW e, NEW t \in Token, NEW u \in Token, Names(e, t), Names(e, u)
  PROVE  t = u
BY TokenFact DEF Names

\* The Executor in the slot is a token, that of the current Action, and reserved.
LEMMA SlotToken ==
  ASSUME Recorded, executor # None
  PROVE  /\ TokenOf(executor) \in Token /\ Holds(TokenOf(executor))
         /\ present /\ action # None
         /\ executor.id = action.id /\ executor.gen = action.gen
         /\ Reserved(TokenOf(executor))
<1>1. /\ present /\ action # None
      /\ executor.id = action.id /\ executor.gen = action.gen
  BY SlotFact DEF Recorded
<1>2. /\ executor \in Executor /\ action \in Action
  BY <1>1 DEF Recorded, TypeOK
<1>3. executor.id \in ActionId /\ executor.gen \in 1..MaxGeneration
  <2>1. action.gen <= MaxGeneration /\ action.gen \in Nat \ {0}
    BY <1>1, <1>2 DEF Recorded, RecordInv, Action
  <2>2. MaxGeneration \in Nat
    BY ConstantsAssumption
  <2> QED
    BY <1>1, <1>2, <2>1, <2>2 DEF Executor
<1>4. action.id \in issued /\ action.gen \in Nat
  BY <1>1, <1>2 DEF Recorded, OwnershipInv, ReceiptsGenuine, Action
<1> QED
  BY <1>1, <1>3, <1>4 DEF Token, TokenOf, Holds, Names, Reserved

-----------------------------------------------------------------------------
(* What each transaction does to the record.                               *)

\* The record still names the same Action and the same Executor.
SameRecord ==
  /\ KeepsOwner
  /\ action'.kind = action.kind /\ action'.payload = action.payload
  /\ executor # None => executor'.origin = executor.origin

\* Of the Executor only its Run may have changed.
SameSlot ==
  /\ executor'.status = executor.status /\ executor'.workers = executor.workers
  /\ executor'.closed = executor.closed /\ executor'.failure = executor.failure

\* Who is meant stays who is meant: the slot, the target, what is reserved.
Steady ==
  /\ \A u \in Token : Holds(u)' <=> Holds(u)
  /\ \A u \in Token : Reserved(u)' <=> Reserved(u)
  /\ action' # None <=> action # None
  /\ action # None =>
       /\ action'.id = action.id /\ action'.gen = action.gen
       /\ action'.kind = action.kind /\ action'.target = action.target
  /\ executor' # None <=> executor # None

LEMMA SameIsSteady ==
  ASSUME SameRecord PROVE Steady
<1>1. \A u \in Token : Holds(u)' <=> Holds(u)
  BY DEF SameRecord, KeepsOwner, Holds, Names
<1>2. \A u \in Token : Reserved(u)' <=> Reserved(u)
  BY DEF SameRecord, KeepsOwner, Reserved
<1> QED
  BY <1>1, <1>2 DEF SameRecord, KeepsOwner, Steady

LEMMA UnchangedIsSteady ==
  ASSUME UNCHANGED vars PROVE Steady
BY DEF vars, Steady, Holds, Names, Reserved

LEMMA UnchangedRecord ==
  ASSUME Recorded, UNCHANGED vars PROVE Recorded'
<1>1. TypeOK'
  BY DEF Recorded, vars, TypeOK
<1>2. OwnershipInv'
  BY DEF Recorded, vars, OwnershipInv, MissingIsEmpty, SlotIsActions,
         GenerationsSpent, ReceiptsGenuine, UnstartedUnreceipted, OneOpenRun
<1>3. KeptInv'
  BY DEF Recorded, vars, KeptInv
<1>4. RecordInv'
  BY DEF Recorded, vars, RecordInv
<1> QED
  BY <1>1, <1>2, <1>3, <1>4 DEF Recorded

\* The Action and the Executor of a record that names both.
LEMMA RecordFact ==
  ASSUME Recorded
  PROVE  /\ action # None => action \in Action
         /\ executor # None => executor \in Executor /\ action # None /\ present
BY SlotFact DEF Recorded, TypeOK

LEMMA RecordedKept ==
  ASSUME Recorded, TypeOK', OwnershipInv', SameRecord,
         action'.run \in RunId \/ action'.run = action.run,
         \/ executor = None /\ action'.run = action.run
         \/ action'.run = None
         \/ executor'.run = action'.run
         \/ executor'.run = executor.run /\ action'.run = action.run,
         action'.status = "failed" => ~Live(executor)'
  PROVE  Recorded'
<1>1. KeptInv'
  BY DEF SameRecord, KeepsOwner, KeptInv
<1>2. RecordInv'
  BY RecordFact DEF SameRecord, KeepsOwner, Recorded, RecordInv
<1> QED
  BY <1>1, <1>2 DEF Recorded

LEMMA BindRunEffect ==
  ASSUME Recorded, NEW t \in Token, NEW r \in RunId, Holds(t),
         BindRun(t[1], t[2], r)
  PROVE  /\ Recorded' /\ SameRecord /\ SameSlot /\ runs' = runs
         /\ action.run \in {None, r} /\ executor.run \in {None, r}
         /\ action'.run = r /\ executor'.run = r
         /\ action'.status = action.status
<1>1. Application
  BY TokenFact DEF Application
<1>2. KeepsOwner /\ runs' = runs /\ TypeOK' /\ OwnershipInv'
  BY <1>1, ApplicationKeeps, ApplicationType, KeptOwnerAndRuns DEF Recorded
<1>3. executor # None /\ executor.id = t[1]
  BY DEF Holds, Names
<1>4. action \in Action /\ executor \in Executor
  BY <1>3, RecordFact
<1>5. /\ action' = [action EXCEPT !.run = r]
      /\ executor' = [executor EXCEPT !.run = r]
      /\ action.run \in {None, r} /\ executor.run \in {None, r}
  BY <1>3 DEF BindRun
<1>6. /\ action'.run = r /\ action'.status = action.status
      /\ action'.kind = action.kind /\ action'.payload = action.payload
  BY <1>4, <1>5 DEF Action
<1>7. /\ executor'.run = r /\ executor'.status = executor.status
      /\ executor'.workers = executor.workers /\ executor'.closed = executor.closed
      /\ executor'.failure = executor.failure /\ executor'.origin = executor.origin
  BY <1>4, <1>5 DEF Executor
<1>8. SameRecord /\ SameSlot
  BY <1>2, <1>6, <1>7 DEF SameRecord, SameSlot
<1>9. action'.status = "failed" => ~Live(executor)'
  BY <1>4, <1>6, <1>7, RecordFact DEF Recorded, RecordInv, BindRun, RequireActive
<1> QED
  BY <1>2, <1>5, <1>6, <1>7, <1>8, <1>9, RecordedKept

LEMMA RecordApplicationEffect ==
  ASSUME Recorded, NEW t \in Token, NEW r \in RunId, NEW p \in Payload,
         RecordApplication(t[1], t[2], r, p), executor.run = r
  PROVE  /\ Recorded' /\ SameRecord /\ executor' = executor /\ runs' = runs
         /\ action.run \in {None, r} /\ action'.run = r
         /\ action'.status = action.status
<1>1. Application
  BY TokenFact DEF Application
<1>2. KeepsOwner /\ runs' = runs /\ TypeOK' /\ OwnershipInv'
  BY <1>1, ApplicationKeeps, ApplicationType, KeptOwnerAndRuns DEF Recorded
<1>3. /\ action' = [action EXCEPT !.run = r, !.applied = TRUE]
      /\ executor' = executor /\ action.run \in {None, r}
      /\ action # None /\ action.status # "failed"
  BY DEF RecordApplication, RequireActive
<1>4. action \in Action
  BY <1>3, RecordFact
<1>5. /\ action'.run = r /\ action'.status = action.status
      /\ action'.kind = action.kind /\ action'.payload = action.payload
  BY <1>3, <1>4 DEF Action
<1>6. SameRecord
  BY <1>2, <1>3, <1>5 DEF SameRecord
<1> QED
  BY <1>2, <1>3, <1>5, <1>6, RecordedKept

LEMMA CompleteActionEffect ==
  ASSUME Recorded, NEW t \in Token, CompleteAction(t[1], t[2], "completed")
  PROVE  /\ Recorded' /\ SameRecord /\ executor' = executor /\ runs' = runs
         /\ action'.run = action.run /\ action'.status = "completed"
<1>1. Application
  BY TokenFact DEF Application
<1>2. KeepsOwner /\ runs' = runs /\ TypeOK' /\ OwnershipInv'
  BY <1>1, ApplicationKeeps, ApplicationType, KeptOwnerAndRuns DEF Recorded
<1>3. /\ action' = [action EXCEPT !.status = "completed"]
      /\ executor' = executor /\ action # None
  BY DEF CompleteAction, RequireActive
<1>4. action \in Action
  BY <1>3, RecordFact
<1>5. /\ action'.run = action.run /\ action'.status = "completed"
      /\ action'.kind = action.kind /\ action'.payload = action.payload
  BY <1>3, <1>4 DEF Action
<1>6. SameRecord
  BY <1>2, <1>3, <1>5 DEF SameRecord
<1> QED
  BY <1>2, <1>3, <1>5, <1>6, RecordedKept

\* The steps of a holder keep the record sound and the owner.
LEMMA HolderEffect ==
  ASSUME Recorded, NEW t \in Token, HolderStep(t[1], t[2])
  PROVE  KeepsOwner /\ runs' = runs /\ TypeOK' /\ OwnershipInv'
<1>1. Slot
  BY TokenFact DEF Slot, HolderStep
<1>2. KeepsOwner /\ runs' = runs
  BY TokenFact, HolderKeeps DEF Recorded
<1> QED
  BY <1>1, <1>2, SlotType, SlotOwns DEF Recorded

LEMMA ProcessStartedEffect ==
  ASSUME Recorded, NEW t \in Token, MarkProcessStarted(t[1], t[2], t)
  PROVE  /\ Recorded' /\ SameRecord /\ SameSlot /\ runs' = runs
         /\ action' = action /\ executor'.run = executor.run
<1>1. HolderStep(t[1], t[2])
  BY SpineAssumption DEF HolderStep
<1>2. KeepsOwner /\ runs' = runs /\ TypeOK' /\ OwnershipInv'
  BY <1>1, HolderEffect
<1>3. /\ executor' = [executor EXCEPT !.pid = t]
      /\ action' = action /\ executor # None
  BY DEF MarkProcessStarted, RequireExecutor
<1>4. executor \in Executor
  BY <1>3, RecordFact
<1>5. /\ executor'.run = executor.run /\ executor'.status = executor.status
      /\ executor'.workers = executor.workers /\ executor'.closed = executor.closed
      /\ executor'.failure = executor.failure /\ executor'.origin = executor.origin
  BY <1>3, <1>4 DEF Executor
<1>6. SameRecord /\ SameSlot
  BY <1>2, <1>3, <1>5 DEF SameRecord, SameSlot
<1>7. action'.status = "failed" => ~Live(executor)'
  BY <1>3, <1>5, RecordFact DEF Recorded, RecordInv
<1> QED
  BY <1>2, <1>3, <1>5, <1>6, <1>7, RecordedKept

LEMMA HandshakeEffect ==
  ASSUME Recorded, NEW t \in Token, MarkHandshake(t[1], t[2], t)
  PROVE  /\ Recorded' /\ SameRecord /\ runs' = runs
         /\ Live(executor)' /\ executor'.run = executor.run
         /\ executor'.workers = executor.workers
         /\ executor'.closed = executor.closed
         /\ executor'.failure = executor.failure
         /\ action'.run = action.run /\ action'.status = "applying"
<1>1. HolderStep(t[1], t[2])
  BY SpineAssumption DEF HolderStep
<1>2. KeepsOwner /\ runs' = runs /\ TypeOK' /\ OwnershipInv'
  BY <1>1, HolderEffect
<1>3. /\ executor' = [executor EXCEPT !.status = "running", !.pid = t,
                                      !.handshake = TRUE]
      /\ action' = [action EXCEPT !.status = "applying"]
      /\ executor # None
  BY DEF MarkHandshake, RequireExecutor
<1>4. executor \in Executor /\ action \in Action
  BY <1>3, RecordFact
<1>5. /\ executor'.run = executor.run /\ executor'.status = "running"
      /\ executor'.workers = executor.workers /\ executor'.closed = executor.closed
      /\ executor'.failure = executor.failure /\ executor'.origin = executor.origin
  BY <1>3, <1>4 DEF Executor
<1>6. /\ action'.run = action.run /\ action'.status = "applying"
      /\ action'.kind = action.kind /\ action'.payload = action.payload
  BY <1>3, <1>4 DEF Action
<1>7. SameRecord
  BY <1>2, <1>5, <1>6 DEF SameRecord
<1>8. Live(executor)'
  BY <1>2, <1>3, <1>5 DEF KeepsOwner
<1> QED
  BY <1>2, <1>5, <1>6, <1>7, <1>8, RecordedKept

LEMMA WorkerEffect ==
  ASSUME Recorded, NEW t \in Token, NEW w \in Worker,
         MarkWorkerStarted(t[1], t[2], w) \/ MarkWorkerFinished(t[1], t[2], w)
  PROVE  /\ Recorded' /\ SameRecord /\ runs' = runs /\ action' = action
         /\ executor'.status = executor.status /\ executor'.run = executor.run
         /\ executor'.closed = executor.closed
         /\ executor'.failure = executor.failure
         /\ \A ws : executor' = [executor EXCEPT !.workers = ws] =>
                     executor'.workers = ws
<1>1. HolderStep(t[1], t[2])
  BY DEF HolderStep
<1>2. KeepsOwner /\ runs' = runs /\ TypeOK' /\ OwnershipInv'
  BY <1>1, HolderEffect
<1>3. action' = action /\ executor # None
  BY DEF MarkWorkerStarted, MarkWorkerFinished, RequireExecutor
<1>4. executor \in Executor
  BY <1>3, RecordFact
<1>5. \A ws : executor' = [executor EXCEPT !.workers = ws] =>
               /\ executor'.run = executor.run /\ executor'.status = executor.status
               /\ executor'.workers = ws /\ executor'.closed = executor.closed
               /\ executor'.failure = executor.failure
               /\ executor'.origin = executor.origin
  BY <1>4 DEF Executor
<1>6. \E ws : executor' = [executor EXCEPT !.workers = ws]
  <2>1. \/ executor' = [executor EXCEPT !.workers = executor.workers \cup {w}]
        \/ executor' = [executor EXCEPT !.workers = executor.workers \ {w}]
    BY DEF MarkWorkerStarted, MarkWorkerFinished
  <2> QED
    BY <2>1
<1>7. /\ executor'.run = executor.run /\ executor'.status = executor.status
      /\ executor'.closed = executor.closed
      /\ executor'.failure = executor.failure
      /\ executor'.origin = executor.origin
  BY <1>5, <1>6
<1>8. SameRecord
  BY <1>2, <1>3, <1>7 DEF SameRecord
<1>9. action'.status = "failed" => ~Live(executor)'
  BY <1>3, <1>7, RecordFact DEF Recorded, RecordInv
<1> QED
  BY <1>2, <1>3, <1>5, <1>7, <1>8, <1>9, RecordedKept

LEMMA CloseEffect ==
  ASSUME Recorded, NEW t \in Token, NEW r \in RunId, NEW failed \in BOOLEAN,
         CloseTicketResume(t[1], t[2], r, failed)
  PROVE  /\ Recorded' /\ SameRecord /\ runs' = runs /\ action' = action
         /\ executor'.status = executor.status /\ executor'.run = executor.run
         /\ executor'.workers = executor.workers /\ executor'.closed
         /\ executor'.failure = IF failed THEN "failed" ELSE executor.failure
<1>1. HolderStep(t[1], t[2])
  BY DEF HolderStep
<1>2. KeepsOwner /\ runs' = runs /\ TypeOK' /\ OwnershipInv'
  BY <1>1, HolderEffect
<1>3. action' = action /\ executor # None
  BY DEF CloseTicketResume, ExecutorCurrent, RequireExecutor
<1>4. executor \in Executor
  BY <1>3, RecordFact
<1>5. /\ executor'.run = executor.run /\ executor'.status = executor.status
      /\ executor'.workers = executor.workers /\ executor'.closed
      /\ executor'.failure = IF failed THEN "failed" ELSE executor.failure
      /\ executor'.origin = executor.origin
  BY <1>4 DEF CloseTicketResume, Executor
<1>6. SameRecord
  BY <1>2, <1>3, <1>5 DEF SameRecord
<1>7. action'.status = "failed" => ~Live(executor)'
  BY <1>3, <1>5, RecordFact DEF Recorded, RecordInv
<1> QED
  BY <1>2, <1>3, <1>5, <1>6, <1>7, RecordedKept

LEMMA FinishEffect ==
  ASSUME Recorded, NEW t \in Token, NEW failed \in BOOLEAN,
         FinishExecutor(t[1], t[2], failed)
  PROVE  /\ Recorded' /\ SameRecord /\ runs' = runs
         /\ executor'.status = "exited" /\ executor'.run = executor.run
         /\ executor'.workers = executor.workers
         /\ executor'.closed = executor.closed
         /\ executor'.failure \in {"failed", executor.failure}
         /\ action'.run = action.run
         /\ action'.status = IF action.status \in ActiveStatus
                             THEN IF failed THEN "failed" ELSE "completed"
                             ELSE action.status
<1>1. HolderStep(t[1], t[2])
  BY DEF HolderStep
<1>2. KeepsOwner /\ runs' = runs /\ TypeOK' /\ OwnershipInv'
  BY <1>1, HolderEffect
<1>3. action # None /\ executor # None
  BY DEF FinishExecutor, RequireExecutor
<1>4. executor \in Executor /\ action \in Action
  BY <1>3, RecordFact
<1>5. /\ executor'.run = executor.run /\ executor'.status = "exited"
      /\ executor'.workers = executor.workers /\ executor'.closed = executor.closed
      /\ executor'.failure \in {"failed", executor.failure}
      /\ executor'.origin = executor.origin
  BY <1>4 DEF FinishExecutor, Executor
<1>6. /\ action'.run = action.run
      /\ action'.kind = action.kind /\ action'.payload = action.payload
      /\ action'.status = IF action.status \in ActiveStatus
                          THEN IF failed THEN "failed" ELSE "completed"
                          ELSE action.status
  BY <1>4 DEF FinishExecutor, Closed, Action
<1>7. SameRecord
  BY <1>2, <1>5, <1>6 DEF SameRecord
<1>8. ~Live(executor)'
  BY <1>5
<1> QED
  BY <1>2, <1>5, <1>6, <1>7, <1>8, RecordedKept

\* The slot of an Executor that is gone, closed on its receipt.
LEMMA FailSessionEffect ==
  ASSUME Recorded, NEW t \in Token, NEW r \in RunId, FailSession(t[1], t[2], r)
  PROVE  /\ Recorded' /\ SameRecord /\ ~Live(executor) /\ ~Live(executor)'
         /\ executor'.run = r /\ executor.run \in {None, r}
         /\ executor'.workers = executor.workers
         /\ executor'.closed = executor.closed
         /\ executor'.failure = "session_interrupted"
         /\ action'.run = r /\ action.run \in {None, r}
         /\ action.status = "completed" <=> action'.status = "completed"
         /\ \A q \in RunId : runs'[q].status \in {"failed", runs[q].status}
<1>1. ReceiptStep(t[1], t[2], r) /\ FromReceipt
  BY TokenFact DEF ReceiptStep, FromReceipt
<1>2. KeepsOwner /\ TypeOK' /\ OwnershipInv'
  BY <1>1, TokenFact, ReceiptKeeps, RecoveryType, RecoveryOwns DEF Recorded, Recovery
<1>3. action # None /\ executor # None
  BY DEF FailSession, RequireExecutor
<1>4. executor \in Executor /\ action \in Action
  BY <1>3, RecordFact
<1>5. /\ executor'.run = r /\ executor'.status = "exited"
      /\ executor'.workers = executor.workers /\ executor'.closed = executor.closed
      /\ executor'.failure = "session_interrupted"
      /\ executor'.origin = executor.origin
  BY <1>4 DEF FailSession, Executor
<1>6. /\ action'.run = r /\ action.run \in {None, r} /\ executor.run \in {None, r}
      /\ action'.kind = action.kind /\ action'.payload = action.payload
      /\ action.status = "completed" <=> action'.status = "completed"
  <2> DEFINE a == Closed(action, TRUE)
  <2>1. /\ a \in Action /\ a.kind = action.kind /\ a.payload = action.payload
        /\ a.status = "completed" <=> action.status = "completed"
    BY <1>4 DEF Closed, Action
  <2>2. action' = [a EXCEPT !.run = r, !.applied = TRUE]
    BY DEF FailSession
  <2> HIDE DEF a
  <2>3. /\ action'.run = r
        /\ action'.kind = a.kind /\ action'.payload = a.payload
        /\ action'.status = a.status
    BY <2>1, <2>2 DEF Action
  <2> QED
    BY <2>1, <2>3 DEF FailSession, ReceiptProves
<1>7. SameRecord
  BY <1>2, <1>5, <1>6 DEF SameRecord
<1>8. ~Live(executor)' /\ ~Live(executor)
  BY <1>5 DEF FailSession
<1>9. \A q \in RunId : runs'[q].status \in {"failed", runs[q].status}
  BY DEF FailSession, Recorded, TypeOK, Run
<1> QED
  BY <1>2, <1>5, <1>6, <1>7, <1>8, <1>9, RecordedKept

LEMMA CompleteReceiptEffect ==
  ASSUME Recorded, NEW t \in Token, NEW r \in RunId,
         CompleteFromReceipt(t[1], t[2], r, FALSE)
  PROVE  /\ Recorded' /\ SameRecord /\ ~Live(executor) /\ SameSlot
         /\ executor'.run = r /\ executor.run \in {None, r}
         /\ action'.run = r /\ action.run \in {None, r} /\ runs' = runs
<1>1. ReceiptStep(t[1], t[2], r) /\ FromReceipt
  BY TokenFact DEF ReceiptStep, FromReceipt
<1>2. KeepsOwner /\ TypeOK' /\ OwnershipInv'
  BY <1>1, TokenFact, ReceiptKeeps, RecoveryType, RecoveryOwns DEF Recorded, Recovery
<1>3. action # None /\ executor # None
  BY DEF CompleteFromReceipt, RequireExecutor
<1>4. executor \in Executor /\ action \in Action
  BY <1>3, RecordFact
<1>5. /\ executor'.run = r /\ executor'.status = executor.status
      /\ executor'.workers = executor.workers /\ executor'.closed = executor.closed
      /\ executor'.failure = executor.failure
      /\ executor'.origin = executor.origin
  BY <1>4 DEF CompleteFromReceipt, Executor
<1>6. /\ action'.run = r /\ action.run \in {None, r} /\ executor.run \in {None, r}
      /\ action'.kind = action.kind /\ action'.payload = action.payload
      /\ action'.status = "completed"
  BY <1>4 DEF CompleteFromReceipt, ReceiptProves, Action
<1>7. SameRecord /\ SameSlot
  BY <1>2, <1>5, <1>6 DEF SameRecord, SameSlot
<1>8. ~Live(executor) /\ runs' = runs
  BY DEF CompleteFromReceipt
<1> QED
  BY <1>2, <1>5, <1>6, <1>7, <1>8, RecordedKept

\* The Run store under an unchanged record.
LEMMA SameIsSteadyToo ==
  ASSUME UNCHANGED <<record, issued>> PROVE Steady
BY DEF record, Steady, Holds, Names, Reserved

LEMMA StoreRecorded ==
  ASSUME Recorded, present, UNCHANGED <<record, issued>>, TypeOK', OwnershipInv'
  PROVE  Recorded'
<1>1. KeptInv'
  BY DEF record, KeptInv
<1>2. RecordInv'
  BY DEF record, Recorded, RecordInv
<1> QED
  BY <1>1, <1>2 DEF Recorded

LEMMA SaveEffect ==
  ASSUME Recorded, NEW t \in Token, NEW r \in RunId,
         NEW status \in RunStatus \ {"none"}, SaveRun(t[1], t[2], r, status)
  PROVE  /\ Recorded' /\ UNCHANGED <<record, issued>>
         /\ \A q \in RunId : runs'[q].status = IF q = r THEN status
                                               ELSE runs[q].status
         /\ \A q \in RunId : runs'[q].receipt = runs[q].receipt
<1>1. TypeOK' /\ OwnershipInv'
  BY TokenFact, SaveType, SaveOwns DEF Recorded
<1>2. present /\ UNCHANGED <<record, issued>>
  BY DEF SaveRun, ExecutorCurrent, RequireExecutor
<1>3. PICK grant \in BOOLEAN :
        runs' = [runs EXCEPT ![r].status = status, ![r].granted = @ \/ grant]
  BY DEF SaveRun
<1>4. \A q \in RunId : /\ runs'[q].status = IF q = r THEN status ELSE runs[q].status
                       /\ runs'[q].receipt = runs[q].receipt
  BY <1>3 DEF Recorded, TypeOK, Run
<1> QED
  BY <1>1, <1>2, <1>4, StoreRecorded

LEMMA CreateEffect ==
  ASSUME Recorded, NEW t \in Token, NEW r \in RunId, CreateRun(t[1], t[2], r)
  PROVE  /\ Recorded' /\ UNCHANGED <<record, issued>>
         /\ \A q \in RunId : runs'[q].status \in {"active", runs[q].status}
<1>1. TypeOK'
  BY DEF CreateRun, record, Recorded, TypeOK, Run, RunStatus
<1>2. OwnershipInv'
  BY TokenFact, CreateOwns DEF Recorded
<1>3. present /\ UNCHANGED <<record, issued>>
  BY DEF CreateRun, ExecutorCurrent, RequireExecutor
<1>4. \A q \in RunId : runs'[q].status \in {"active", runs[q].status}
  BY DEF CreateRun, Recorded, TypeOK, Run
<1> QED
  BY <1>1, <1>2, <1>3, <1>4, StoreRecorded

LEMMA PersistEffect ==
  ASSUME Recorded, NEW t \in Token, NEW r \in RunId, NEW owner,
         PersistReceipt(t[1], t[2], r, owner)
  PROVE  /\ Recorded' /\ UNCHANGED <<record, issued>>
         /\ \A q \in RunId : runs'[q].status = runs[q].status
<1>1. TypeOK' /\ OwnershipInv'
  BY TokenFact, PersistType, PersistOwns DEF Recorded
<1>2. present /\ UNCHANGED <<record, issued>>
  BY DEF PersistReceipt, ExecutorCurrent, RequireExecutor
<1>3. \A q \in RunId : runs'[q].status = runs[q].status
  BY DEF PersistReceipt, Recorded, TypeOK, Run
<1> QED
  BY <1>1, <1>2, <1>3, StoreRecorded

\* A claim: who it names was never named before, and nothing else is kept.
Claimed(id) ==
  /\ TypeOK' /\ OwnershipInv' /\ KeptInv'
  /\ id \notin issued /\ issued' = issued \cup {id}
  /\ executor' = None /\ runs' = runs /\ ~Unfinished(action)
  /\ action' # None /\ action'.id = id
  /\ action'.gen \in 1..MaxGeneration
  /\ action # None => action.gen < action'.gen

LEMMA ClaimedFact ==
  ASSUME Recorded, Admission, NEW id \in ActionId, action'.id = id,
         action'.gen <= MaxGeneration, ~Unfinished(action)
  PROVE  Claimed(id)
<1>1. PICK i \in ActionId, g \in Nat :
        /\ i \notin issued /\ issued' = issued \cup {i}
        /\ g >= next /\ next' = g + 1
        /\ action' # None /\ action'.id = i /\ action'.gen = g
  BY AdmissionFact DEF Recorded
<1>2. present' /\ runs' = runs /\ executor' = None
  BY AdmissionFact DEF Recorded
<1>3. TypeOK' /\ OwnershipInv'
  BY AdmissionType, AdmissionOwns DEF Recorded
<1>4. action # None => action.gen < action'.gen
  <2>1. next \in Nat
    BY DEF Recorded, TypeOK
  <2>2. action # None => action.gen \in Nat /\ action.gen < next
    BY RecordFact DEF Action, Recorded, OwnershipInv, GenerationsSpent
  <2> QED
    BY <1>1, <2>1, <2>2
<1>5. action'.gen \in 1..MaxGeneration
  <2>1. action' \in Action
    BY <1>1, <1>3 DEF TypeOK
  <2> QED
    BY <2>1, ConstantsAssumption DEF Action
<1> QED
  BY <1>1, <1>2, <1>3, <1>4, <1>5 DEF Claimed, KeptInv

LEMMA ClaimActionEffect ==
  ASSUME Recorded, NEW id \in ActionId, NEW k \in Kind, NEW p \in Payload,
         PayloadRun[p] = None <=> k = "run", ClaimAction(id, k, p)
  PROVE  /\ Claimed(id) /\ RecordInv'
         /\ ~Live(executor) /\ UnresolvedTarget(action) = None
         /\ action'.target = None
<1>1. Admission
  BY DEF Admission
<1>2. /\ action'.id = id /\ action'.gen <= MaxGeneration
      /\ action'.kind = k /\ action'.payload = p /\ action'.target = None
      /\ action'.status = "accepted" /\ action'.run = None
      /\ k \notin ControlKind
  BY DEF ClaimAction, NewAction, LifecycleKind, ControlKind
<1>3. ~Unfinished(action) /\ ~Live(executor)
  BY DEF ClaimAction, NoPendingWork
<1>4. Claimed(id)
  BY <1>1, <1>2, <1>3, ClaimedFact
<1>5. UnresolvedTarget(action) = None
  BY DEF ClaimAction, TargetAccounted, ReconciledExit, Recorded, RecordInv
<1>6. RecordInv'
  BY <1>2, <1>4 DEF Claimed, RecordInv
<1> QED
  BY <1>2, <1>3, <1>4, <1>5, <1>6

LEMMA ClaimControlEffect ==
  ASSUME Recorded, NEW id \in ActionId, NEW k \in Kind, NEW p \in Payload,
         PayloadRun[p] = None <=> k = "run",
         ClaimControl(id, k, p, PayloadRun[p])
  PROVE  /\ Claimed(id) /\ RecordInv'
         /\ action'.target = ControlTarget /\ action'.status = "applying"
         /\ action'.run = PayloadRun[p] /\ PayloadRun[p] \in RunId
         /\ UnresolvedTarget(action) # None => action.run = PayloadRun[p]
<1>1. k \in ControlKind /\ PayloadRun[p] \in RunId
  <2>1. k \in ControlKind
    BY DEF ClaimControl
  <2> QED
    BY <2>1, ConstantsAssumption DEF ControlKind
<1>2. Admission
  BY <1>1 DEF Admission
<1>3. /\ action'.id = id /\ action'.gen <= MaxGeneration
      /\ action'.kind = k /\ action'.payload = p
      /\ action'.target = ControlTarget
      /\ action'.status = "applying" /\ action'.run = PayloadRun[p]
  BY DEF ClaimControl, NewAction
<1>4. /\ ~Unfinished(action)
      /\ UnresolvedTarget(action) # None => action.run = PayloadRun[p]
  BY DEF ClaimControl
<1>5. Claimed(id)
  BY <1>2, <1>3, <1>4, ClaimedFact
<1>6. RecordInv'
  <2>1. k # "run"
    BY <1>1 DEF ControlKind
  <2> QED
    BY <1>1, <1>3, <1>5, <2>1 DEF Claimed, RecordInv
<1> QED
  BY <1>1, <1>3, <1>4, <1>5, <1>6

\* What was reserved before a claim stays so: it is of an older Action.
LEMMA ClaimReserved ==
  ASSUME NEW id, Claimed(id), NEW u \in Token, Reserved(u)
  PROVE  Reserved(u)' /\ ~Holds(u)'
BY DEF Claimed, Reserved, Holds, Names

\* A reservation names a token nobody was given before.
LEMMA BeginEffect ==
  ASSUME Recorded, NEW id \in ActionId, NEW r \in RunId \cup {None},
         NEW reclaim \in BOOLEAN, BeginExecutor(id, r, reclaim)
  PROVE  /\ Recorded' /\ ~Live(executor) /\ Live(executor)'
         /\ \E t \in Token : /\ t = <<id, executor'.gen>>
                             /\ Holds(t)' /\ ~Reserved(t) /\ Reserved(t)'
                             /\ \A u \in Token : Holds(u)' => u = t
         /\ \A u \in Token : Reserved(u) => Reserved(u)'
         /\ action # None /\ action' # None /\ action.gen <= action'.gen
         /\ action'.id = id
         /\ action'.kind = action.kind /\ action'.target = action.target
         /\ action'.status = action.status /\ action'.run = action.run
         /\ executor'.workers = {} /\ ~executor'.closed /\ executor'.run = r
         /\ action.run \in {None, r} /\ runs' = runs /\ executor' # None
<1> DEFINE replaced == Gone(executor) /\ executor.id = id
           h == IF replaced THEN Larger(action.gen + 1, next) ELSE action.gen
<1>1. /\ action \in Action /\ action # None /\ action.id = id
      /\ ~Live(executor) /\ action.run \in {None, r}
      /\ action.status # "failed"
  BY RecordFact DEF BeginExecutor, RequireActive
<1>2. /\ action' = [action EXCEPT !.gen = h]
      /\ executor' = [status |-> "starting", id |-> id, run |-> r, gen |-> h,
                pid |-> None, handshake |-> FALSE, workers |-> {},
                origin |-> "reserved", closed |-> FALSE, failure |-> "none"]
      /\ h <= MaxGeneration
      /\ present /\ present' = present /\ issued' = issued /\ runs' = runs
  BY DEF BeginExecutor, RequireActive
<1>3. /\ action' # None /\ executor' # None
      /\ action' \in Action /\ executor' \in Executor
  BY BeginFact DEF Recorded
<1>4. /\ h \in Nat \ {0}
      /\ IF executor = None THEN h = action.gen ELSE h > action.gen
  <2>1. action.gen \in Nat \ {0} /\ next \in Nat /\ action.gen + 1 \in Nat
    BY <1>1 DEF Action, Recorded, TypeOK
  <2>2. CASE replaced
    <3>1. h = Larger(action.gen + 1, next)
      BY <2>2
    <3>2. h \in Nat /\ h >= action.gen + 1
      BY <2>1, <3>1, LargerFact
    <3>3. executor # None
      BY <2>2
    <3> HIDE DEF h, replaced
    <3> QED
      BY <2>1, <3>2, <3>3
  <2>3. CASE ~replaced
    <3>1. executor = None
      BY <1>1, <2>3, RecordFact, SlotToken DEF Executor
    <3>2. h = action.gen
      BY <2>3
    <3> HIDE DEF h, replaced
    <3> QED
      BY <2>1, <3>1, <3>2
  <2> QED
    BY <2>2, <2>3
<1> HIDE DEF h, replaced
<1>5. /\ action'.gen = h /\ action'.id = id
      /\ action'.kind = action.kind /\ action'.target = action.target
      /\ action'.payload = action.payload
      /\ action'.status = action.status /\ action'.run = action.run
  BY <1>1, <1>2 DEF Action
<1>6. /\ executor'.id = id /\ executor'.gen = h /\ executor'.run = r
      /\ executor'.workers = {} /\ ~executor'.closed
      /\ executor'.origin = "reserved" /\ executor'.status = "starting"
  BY <1>2
<1>7. Slot /\ TypeOK' /\ OwnershipInv'
  <2>1. \E g \in 1..MaxGeneration : TRUE
    BY <1>2, <1>4, ConstantsAssumption
  <2>2. Slot
    BY <2>1 DEF Slot
  <2> QED
    BY <2>2, SlotType, SlotOwns DEF Recorded
<1>8. Recorded'
  <2>1. KeptInv'
    BY <1>2 DEF KeptInv
  <2>2. RecordInv'
    BY <1>1, <1>2, <1>3, <1>5, <1>6 DEF Recorded, RecordInv
  <2> QED
    BY <1>7, <2>1, <2>2 DEF Recorded
<1>9. PICK t \in Token : t = <<id, h>>
  <2>1. <<id, h>> \in Token
    BY <1>2, <1>4, ConstantsAssumption DEF Token
  <2> QED
    BY <2>1
<1>10. ~Reserved(t)
  BY <1>1, <1>4, <1>9 DEF Reserved, Action
<1>11. ASSUME NEW u \in Token PROVE Reserved(u) => Reserved(u)'
  <2>1. u[2] \in Nat /\ action.gen \in Nat
    BY <1>1, TokenFact DEF Action
  <2>2. action.gen <= h
    BY <1>4, <2>1
  <2> QED
    BY <1>1, <1>2, <1>3, <1>4, <1>5, <2>1, <2>2 DEF Reserved
<1>12. ASSUME NEW u \in Token, Holds(u)' PROVE u = t
  BY <1>6, <1>9, <1>12, TokenFact DEF Holds, Names
<1>13. action.gen <= h
  BY <1>1, <1>4 DEF Action
<1>14. Live(executor)'
  BY <1>3, <1>6
<1>15. Holds(t)'
  BY <1>3, <1>6, <1>9 DEF Holds, Names
<1>16. executor'.gen = h
  BY <1>6
<1>17. Reserved(t)'
  <2>1. action.id \in issued /\ h \in Nat
    BY <1>1, <1>4 DEF Recorded, OwnershipInv, ReceiptsGenuine
  <2> QED
    BY <1>1, <1>2, <1>3, <1>5, <1>9, <2>1 DEF Reserved
<1> QED
  BY <1>1, <1>2, <1>3, <1>5, <1>6, <1>8, <1>9, <1>10, <1>11, <1>12, <1>13, <1>14,
     <1>15, <1>16, <1>17

-----------------------------------------------------------------------------
(* The steps of a process.                                                 *)

Process == [pc: ExecStep, run: RunId \cup {None}, owner: ActionId \cup {None},
            seen: 0..MaxResumes]

\* No process but that of t moves.
OnlyMoves(t) ==
  /\ exec' \in [Token -> Process]
  /\ \A u \in Token : u # t => exec'[u] = exec[u]

LEMMA ExecFact ==
  ASSUME SpineTypeOK PROVE exec \in [Token -> Process]
BY DEF SpineTypeOK, Process

LEMMA StepFact ==
  ASSUME SpineTypeOK, NEW t \in Token, NEW pc \in ExecStep, Step(t, pc)
  PROVE  /\ OnlyMoves(t)
         /\ exec'[t].pc = pc /\ exec'[t].run = exec[t].run
         /\ exec'[t].seen = exec[t].seen
<1>1. exec \in [Token -> Process]
  BY ExecFact
<1>2. exec' = [exec EXCEPT ![t].pc = pc]
  BY DEF Step
<1> QED
  BY <1>1, <1>2 DEF OnlyMoves, Process

LEMMA StayFact ==
  ASSUME SpineTypeOK, NEW t \in Token, exec' = exec
  PROVE  OnlyMoves(t)
BY ExecFact DEF OnlyMoves

\* A process that is alive was reserved and is in no client's launch.
LEMMA AliveFact ==
  ASSUME SpineIInv, NEW t \in Token, exec[t].pc # "none"
  PROVE  /\ unit[t] = "up" /\ Reserved(t)
         /\ \A c \in Client : Launching(c) => Held(c) # t
BY DEF SpineIInv, SpineInv, HostInv, FreshInv, Alive

\* The slot of the live process of a reserved token cannot be empty while its
\* Action is the current one.
LEMMA AliveHolds ==
  ASSUME SpineIInv, NEW t \in Token, exec[t].pc # "none",
         action # None, action.id = t[1], action.gen = t[2]
  PROVE  Holds(t)
<1>1. executor # None
  BY AliveFact DEF Reserved
<1> QED
  BY <1>1, RecordFact DEF SpineIInv, Recorded, OwnershipInv, SlotIsActions, Holds, Names

\* The process in the slot is the only one the record knows.
LEMMA OneHolder ==
  ASSUME NEW t \in Token, NEW u \in Token, Holds(t), Holds(u)
  PROVE  t = u
BY NamesOne DEF Holds

LEMMA CurrentHolds ==
  ASSUME NEW t \in Token, Current(t) PROVE Holds(t) /\ Live(executor) /\ present
BY DEF Current, ExecutorCurrent, RequireExecutor, Holds, Names

\* What a step of the process of t, alone or on the record that names it, must
\* show for itself; all the rest of the invariant is kept.
ProcessStep(t) ==
  /\ OnlyMoves(t) /\ exec[t].pc # "none" /\ exec'[t].pc # "none"
  /\ Working(t)' => Working(t)
  /\ UNCHANGED <<client, lease, unit, pending, inflight, worker, released, fenced>>
  /\ carrier' \subseteq carrier
  /\ total' \in [RunId -> 0..MaxResumes] /\ served' \in [RunId -> 0..MaxResumes]
  /\ Recorded' /\ Steady /\ (Holds(t) \/ UNCHANGED vars)
  /\ executor # None => executor'.workers = executor.workers
  /\ \/ Live(executor) => Live(executor)'
     \/ exec'[t].pc = "tail" /\ Holds(t)
  /\ exec[t].pc \in DrivePc => exec'[t].pc \in DrivePc \/ WorkersOf(t) = {}
  /\ \/ writer' = writer
     \/ writer' = t[2] /\ Holds(t)
  /\ stray' \in [Token -> Nat] /\ \A u \in Token : u # t => stray'[u] = stray[u]
  /\ ExecOk(t)' /\ StrayOk(t)' /\ TargetInv' /\ AdmissionInv' /\ SeenOk(t)'
  /\ \A u \in Token : u # t => SeenOk(u)'

LEMMA ProcessHost ==
  ASSUME SpineIInv, NEW t \in Token, ProcessStep(t)
  PROVE  ClientInv' /\ HostInv' /\ FreshInv'
<1>1. /\ client' = client /\ lease' = lease /\ unit' = unit /\ pending' = pending
      /\ inflight' = inflight /\ carrier' \subseteq carrier
  BY DEF ProcessStep
<1>2. ClientInv'
  BY <1>1 DEF SpineIInv, SpineInv, ClientInv
<1>3. \A c \in Client : (Launching(c)' <=> Launching(c)) /\ Held(c)' = Held(c)
  BY <1>1 DEF Launching, Held
<1>4. \A u \in Token : Alive(u)' <=> Alive(u)
  BY DEF ProcessStep, OnlyMoves, Alive
<1>5. HostInv'
  BY <1>1, <1>3, <1>4 DEF SpineIInv, SpineInv, HostInv
<1>6. \A u \in Token : Reserved(u)' <=> Reserved(u)
  BY DEF ProcessStep, Steady
<1>7. \A u \in Token : ~Reserved(u) => stray'[u] = 0
  BY AliveFact DEF ProcessStep, SpineIInv, SpineInv, FreshInv
<1>8. FreshInv'
  BY <1>1, <1>3, <1>6, <1>7 DEF SpineIInv, SpineInv, FreshInv
<1> QED
  BY <1>2, <1>5, <1>8

LEMMA ProcessSession ==
  ASSUME SpineIInv, NEW t \in Token, ProcessStep(t)
  PROVE  SessionInv'
<1>1. /\ client' = client /\ unit' = unit /\ fenced' = fenced
      /\ carrier' \subseteq carrier
  BY DEF ProcessStep
<1>2. \A c \in Client : (Launching(c)' <=> Launching(c)) /\ Held(c)' = Held(c)
  BY <1>1 DEF Launching, Held
<1>3. ASSUME NEW u \in Token, Able(u)' PROVE Able(u)
  <2>1. Working(u)' => Working(u)
    BY <1>1 DEF ProcessStep, OnlyMoves, Working
  <2> QED
    BY <1>1, <1>2, <1>3, <2>1 DEF Able
<1>4. \A u \in Token : Holds(u)' <=> Holds(u)
  BY DEF ProcessStep, Steady
<1>5. ASSUME NEW u \in Token, Able(u)', Holds(u)' PROVE Live(executor)'
  <2>1. Live(executor)
    BY <1>3, <1>4, <1>5 DEF SpineIInv, SpineInv, SessionInv
  <2>2. CASE exec'[t].pc = "tail" /\ Holds(t)
    <3>1. u = t
      BY <1>4, <1>5, <2>2, OneHolder
    <3>2. ~Working(t)'
      BY <2>2 DEF Working
    <3>3. unit[t] = "up" /\ \A c \in Client : Launching(c) => Held(c) # t
      BY AliveFact DEF ProcessStep
    <3> QED
      BY <1>1, <1>2, <1>5, <3>1, <3>2, <3>3 DEF Able
  <2> QED
    BY <2>1, <2>2 DEF ProcessStep
<1> QED
  BY <1>1, <1>3, <1>4, <1>5 DEF SpineIInv, SpineInv, SessionInv

LEMMA ProcessOthers ==
  ASSUME SpineIInv, NEW t \in Token, ProcessStep(t), NEW u \in Token, u # t
  PROVE  ExecOk(u)' /\ StrayOk(u)'
<1>1. /\ exec'[u] = exec[u] /\ stray'[u] = stray[u] /\ unit'[u] = unit[u]
      /\ ExecOk(u) /\ StrayOk(u)
  BY DEF ProcessStep, OnlyMoves, SpineIInv, SpineInv, ExecInv, StrayInv
<1>2. CASE Holds(t)
  <2>1. ~Holds(u)'
    BY <1>2, OneHolder DEF ProcessStep, Steady
  <2>2. ~Current(u)'
    BY <2>1 DEF Current, ExecutorCurrent, RequireExecutor, Holds, Names
  <2> QED
    BY <1>1, <2>1, <2>2 DEF ExecOk, StrayOk
<1>3. CASE UNCHANGED vars
  <2>1. (Current(u)' <=> Current(u)) /\ (Holds(u)' <=> Holds(u))
    BY <1>1, <1>3 DEF vars, Current, ExecutorCurrent, RequireExecutor, Holds, Names
  <2> QED
    BY <1>1, <1>3, <2>1 DEF vars, ExecOk, StrayOk
<1> QED
  BY <1>2, <1>3 DEF ProcessStep

LEMMA ProcessWorkers ==
  ASSUME SpineIInv, NEW t \in Token, ProcessStep(t)
  PROVE  OwnedInv' /\ ControlIdle'
<1>1. /\ worker' = worker
      /\ executor # None => executor'.workers = executor.workers
      /\ \A u \in Token : Holds(u)' <=> Holds(u)
      /\ action' # None <=> action # None
      /\ action # None => action'.target = action.target /\ action'.kind = action.kind
      /\ executor' # None <=> executor # None
  BY DEF ProcessStep, Steady
<1>2. ControlIdle'
  <2>1. executor # None => action # None
    BY RecordFact DEF SpineIInv
  <2> QED
    BY <1>1, <2>1 DEF SpineIInv, SpineInv, ControlIdle
<1>3. ASSUME NEW w \in Worker, worker[w] # None
      PROVE  /\ exec'[worker[w]].pc \in DrivePc
             /\ \/ Holds(worker[w])' /\ Live(executor)' /\ w \in executor'.workers
                \/ /\ action' # None /\ Names(action'.target, worker[w])
                   /\ w \in action'.target.workers
  <2>1. worker[w] \in Token
    BY <1>3 DEF SpineIInv, SpineTypeOK
  <2>2. /\ exec[worker[w]].pc \in DrivePc
        /\ \/ Holds(worker[w]) /\ Live(executor) /\ w \in executor.workers
           \/ /\ action # None /\ Names(action.target, worker[w])
              /\ w \in action.target.workers
    BY <1>3 DEF SpineIInv, SpineInv, OwnedInv
  <2>3. exec'[worker[w]].pc \in DrivePc
    <3>1. CASE worker[w] # t
      BY <2>1, <2>2, <3>1 DEF ProcessStep, OnlyMoves
    <3>2. CASE worker[w] = t
      BY <2>2, <3>2 DEF ProcessStep, WorkersOf
    <3> QED
      BY <3>1, <3>2
  <2>4. Holds(worker[w]) /\ Live(executor) => Live(executor)'
    <3>1. CASE exec'[t].pc = "tail" /\ Holds(t) /\ Holds(worker[w])
      <4>1. worker[w] = t
        BY <2>1, <3>1, OneHolder
      <4> QED
        BY <2>3, <3>1, <4>1 DEF DrivePc
    <3> QED
      BY <3>1 DEF ProcessStep
  <2>5. executor' # None => executor # None
    BY <1>1
  <2>6. Holds(worker[w]) => executor # None
    BY DEF Holds, Names
  <2>7. Holds(worker[w])' <=> Holds(worker[w])
    BY <1>1, <2>1
  <2> QED
    BY <1>1, <2>2, <2>3, <2>4, <2>6, <2>7
<1>4. OwnedInv'
  <2>1. \A w \in Worker : worker'[w] = worker[w]
    BY <1>1
  <2> QED
    BY <1>1, <1>3 DEF OwnedInv
<1> QED
  BY <1>2, <1>4

LEMMA ProcessKeeps ==
  ASSUME SpineIInv, NEW t \in Token, ProcessStep(t)
  PROVE  SpineIInv'
<1>1. SpineTypeOK'
  <2>1. /\ client' = client /\ lease' = lease /\ unit' = unit /\ pending' = pending
        /\ inflight' = inflight /\ worker' = worker /\ released' = released
        /\ fenced' = fenced /\ carrier' \subseteq carrier
        /\ total' \in [RunId -> 0..MaxResumes] /\ served' \in [RunId -> 0..MaxResumes]
        /\ exec' \in [Token -> Process] /\ stray' \in [Token -> Nat]
    BY DEF ProcessStep, OnlyMoves
  <2>2. writer' \in 0..MaxGeneration
    <3>1. t[2] \in 0..MaxGeneration
      BY TokenFact, ConstantsAssumption
    <3> QED
      BY <3>1 DEF ProcessStep, SpineIInv, SpineTypeOK
  <2> QED
    BY <2>1, <2>2 DEF SpineIInv, SpineTypeOK, Process
<1>2. WriterInv'
  <2>1. /\ action' # None <=> action # None
        /\ action # None => action'.gen = action.gen
    BY DEF ProcessStep, Steady
  <2>2. Holds(t) => action # None /\ t[2] = action.gen /\ action.gen \in Nat
    BY RecordFact, SlotToken DEF Holds, Names, SpineIInv, Action
  <2> QED
    BY <2>1, <2>2 DEF ProcessStep, SpineIInv, SpineInv, WriterInv
<1>3. ExecInv' /\ StrayInv'
  BY ProcessOthers DEF ProcessStep, ExecInv, StrayInv
<1>4. SeenInv' /\ TargetInv' /\ AdmissionInv' /\ Recorded'
  BY DEF ProcessStep, SeenInv
<1>5. RecordInv'
  BY <1>4 DEF Recorded
<1> QED
  BY <1>1, <1>2, <1>3, <1>4, <1>5, ProcessHost, ProcessSession, ProcessWorkers
  DEF SpineIInv, SpineInv

\* Where nobody else is touched, what others have seen stays as it was.
LEMMA SeenOthers ==
  ASSUME SpineIInv, NEW t \in Token, OnlyMoves(t), Steady,
         Holds(t) \/ UNCHANGED <<vars, served>>,
         NEW u \in Token, u # t
  PROVE  SeenOk(u)'
<1>1. exec'[u] = exec[u] /\ SeenOk(u)
  BY DEF OnlyMoves, SpineIInv, SpineInv, SeenInv
<1>2. CASE Holds(t)
  <2>1. ~Holds(u)'
    BY <1>2, OneHolder DEF Steady
  <2>2. ~Current(u)'
    BY <2>1 DEF Current, ExecutorCurrent, RequireExecutor, Holds, Names
  <2> QED
    BY <2>2 DEF SeenOk
<1>3. CASE UNCHANGED <<vars, served>>
  <2>1. Current(u)' <=> Current(u)
    BY <1>1, <1>3 DEF vars, Current, ExecutorCurrent, RequireExecutor
  <2> QED
    BY <1>1, <1>3, <2>1 DEF SeenOk
<1> QED
  BY <1>2, <1>3

\* The end of the target is not forgotten, and only a control Executor that
\* has gone past it, or a closed Run, needs it.
LEMMA TargetKept ==
  ASSUME SpineIInv, NEW t \in Token, OnlyMoves(t), Steady, worker' = worker,
         action # None /\ action.target # None =>
           \/ TargetQuiet
           \/ /\ TargetOpen => /\ action'.status # "completed"
                               /\ runs'[action'.run].status \notin ClosedRun
              /\ Holds(t) => exec'[t].pc \notin {"outcome", "finish"}
  PROVE  TargetInv'
<1>1. /\ action' # None <=> action # None
      /\ action # None => action'.target = action.target
      /\ \A u \in Token : Holds(u)' <=> Holds(u)
  BY DEF Steady
<1>2. SUFFICES ASSUME action # None, action.target # None
               PROVE  (TargetQuiet \/ TargetOpen)'
  BY <1>1 DEF TargetInv
<1>3. CASE TargetQuiet
  BY <1>1, <1>2, <1>3 DEF TargetQuiet
<1>4. CASE ~TargetQuiet
  <2>1. TargetOpen
    BY <1>2, <1>4 DEF SpineIInv, SpineInv, TargetInv
  <2>2. \A u \in Token : Holds(u)' => exec'[u].pc \notin {"outcome", "finish"}
    <3>1. ASSUME NEW u \in Token, Holds(u)', u # t
          PROVE  exec'[u].pc \notin {"outcome", "finish"}
      BY <1>1, <2>1, <3>1 DEF TargetOpen, OnlyMoves
    <3> QED
      BY <1>1, <1>2, <1>4, <3>1
  <2> QED
    BY <1>2, <1>4, <2>1, <2>2 DEF TargetOpen
<1> QED
  BY <1>3, <1>4

\* A process that is where no control Executor goes works without a target.
LEMMA NoTarget ==
  ASSUME SpineIInv, NEW t \in Token, Holds(t), exec[t].pc \notin ControlPc
  PROVE  /\ action # None /\ action.kind \notin ControlKind
         /\ action.target = None
<1>1. action # None
  BY RecordFact DEF Holds, Names, SpineIInv
<1>2. action.kind \notin ControlKind
  BY DEF SpineIInv, SpineInv, ExecInv, ExecOk
<1> QED
  BY <1>1, <1>2 DEF SpineIInv, Recorded, RecordInv

\* A slot whose admission, Run and failure stay keeps its promise.
LEMMA AdmissionKept ==
  ASSUME SpineIInv, Steady, served' = served, total' = total,
         executor # None =>
           /\ executor'.closed = executor.closed /\ executor'.run = executor.run
           /\ executor'.failure \in {"failed", "session_interrupted",
                                     executor.failure}
  PROVE  AdmissionInv'
<1>1. executor' # None <=> executor # None
  BY DEF Steady
<1> QED
  BY <1>1 DEF SpineIInv, SpineInv, AdmissionInv

\* A step of the process that leaves the record and the counters alone.
LEMMA PlainStep ==
  ASSUME SpineIInv, NEW t \in Token, OnlyMoves(t),
         exec[t].pc # "none", exec'[t].pc # "none", Working(t)' => Working(t),
         UNCHANGED <<client, lease, unit, pending, inflight, worker, released,
                     fenced, vars, total, served, writer>>,
         carrier' \subseteq carrier,
         exec[t].pc \in DrivePc => exec'[t].pc \in DrivePc \/ WorkersOf(t) = {},
         stray' \in [Token -> Nat],
         \A u \in Token : u # t => stray'[u] = stray[u],
         ExecOk(t)', StrayOk(t)', SeenOk(t)',
         Holds(t) /\ exec'[t].pc \in {"outcome", "finish"} =>
           exec[t].pc \in {"outcome", "finish"} \/ action.target = None
  PROVE  SpineIInv'
<1>1. Steady /\ Recorded'
  BY UnchangedIsSteady, UnchangedRecord DEF SpineIInv
<1>2. TargetInv'
  <2>1. TargetOpen => /\ action'.status # "completed"
                      /\ runs'[action'.run].status \notin ClosedRun
    BY DEF vars, TargetOpen
  <2>2. action # None /\ action.target # None =>
          TargetQuiet \/ (Holds(t) => exec'[t].pc \notin {"outcome", "finish"})
    BY DEF SpineIInv, SpineInv, TargetInv, TargetOpen
  <2> QED
    BY <1>1, <2>1, <2>2, TargetKept
<1>3. AdmissionInv'
  BY <1>1, AdmissionKept DEF vars
<1>4. \A u \in Token : u # t => SeenOk(u)'
  BY <1>1, SeenOthers
<1>5. /\ total' \in [RunId -> 0..MaxResumes] /\ served' \in [RunId -> 0..MaxResumes]
  BY DEF SpineIInv, SpineTypeOK
<1>6. /\ executor # None => executor'.workers = executor.workers
      /\ Live(executor) => Live(executor)'
  BY DEF vars
<1>7. ProcessStep(t)
  BY <1>1, <1>2, <1>3, <1>4, <1>5, <1>6 DEF ProcessStep
<1> QED
  BY <1>7, ProcessKeeps

\* Only the record, the Run store and the process have moved.
Still == UNCHANGED <<client, host, worker, released, total, served, stray, fenced>>

\* A step of the process in the slot on the record that names it.
LEMMA HeldStep ==
  ASSUME SpineIInv, NEW t \in Token, OnlyMoves(t), Holds(t),
         exec[t].pc # "none", exec'[t].pc # "none", Working(t)' => Working(t),
         Still, Recorded', Steady,
         executor'.workers = executor.workers,
         executor'.closed = executor.closed, executor.run \in {None, executor'.run},
         executor'.failure \in {"failed", "session_interrupted", executor.failure},
         (Live(executor) => Live(executor)') \/ exec'[t].pc = "tail",
         exec[t].pc \in DrivePc => exec'[t].pc \in DrivePc \/ WorkersOf(t) = {},
         writer' = writer \/ writer' = t[2],
         ExecOk(t)', StrayOk(t)', SeenOk(t)', TargetInv'
  PROVE  SpineIInv'
<1>1. executor # None
  BY DEF Holds, Names
<1>2. AdmissionInv'
  <2>1. executor' # None /\ served' = served /\ total' = total
    BY <1>1 DEF Steady, Still
  <2>2. executor.closed =>
          /\ executor.run \in RunId
          /\ executor.failure = "none" => served[executor.run] = total[executor.run]
    BY <1>1 DEF SpineIInv, SpineInv, AdmissionInv
  <2>3. executor.closed => executor'.run = executor.run
    BY <2>2, ConstantsAssumption
  <2> QED
    BY <2>1, <2>2, <2>3 DEF AdmissionInv
<1>3. \A u \in Token : u # t => SeenOk(u)'
  BY SeenOthers
<1>4. /\ total' \in [RunId -> 0..MaxResumes] /\ served' \in [RunId -> 0..MaxResumes]
      /\ stray' \in [Token -> Nat] /\ \A u \in Token : stray'[u] = stray[u]
  BY DEF SpineIInv, SpineTypeOK, Still
<1>5. UNCHANGED <<client, worker, released, fenced, lease, unit, pending,
                  inflight, carrier>>
  BY DEF host, Still
<1>6. ProcessStep(t)
  BY <1>2, <1>3, <1>4, <1>5 DEF ProcessStep
<1> QED
  BY <1>6, ProcessKeeps

-----------------------------------------------------------------------------
(* The steps of an Executor process, one by one.                           *)

\* A receipt is owned by an Action or by nobody.
LEMMA OwnerFact ==
  ASSUME Recorded, NEW r \in RunId, HasReceipt(r)
  PROVE  ReceiptOwner(r) \in ActionId \cup {None}
<1>1. runs[r].receipt \in Receipt
  BY DEF Recorded, TypeOK, Run
<1> QED
  BY <1>1 DEF ReceiptOwner, Receipt

\* No stray step is on the account of a process that has yet to drive.
LEMMA StrayFree ==
  ASSUME SpineIInv, NEW t \in Token, stray' = stray,
         exec[t].pc \notin {"none", "drive", "close", "failing", "tail"}
  PROVE  StrayOk(t)' /\ stray[t] = 0 /\ stray' \in [Token -> Nat]
BY DEF SpineIInv, SpineTypeOK, SpineInv, StrayInv, StrayOk

LEMMA BootKeeps ==
  ASSUME SpineIInv, NEW t \in Token, Boot(t) PROVE SpineIInv'
<1> DEFINE r == IF action.kind = "run" THEN action.run
                ELSE PayloadRun[action.payload]
           o == IF r # None /\ HasReceipt(r) THEN ReceiptOwner(r) ELSE None
<1>1. Holds(t) /\ action # None
  BY DEF Boot, ExecutorCurrent, RequireExecutor, Holds, Names
<1>2. action \in Action
  BY <1>1, RecordFact DEF SpineIInv
<1>3. /\ r \in RunId \cup {None}
      /\ action.kind # "run" \/ action.run # None => r \in RunId
  BY <1>2, <1>1, ConstantsAssumption DEF Action, SpineIInv, Recorded, RecordInv
<1>4. o \in ActionId \cup {None}
  BY <1>3, OwnerFact DEF SpineIInv
<1>5. exec' = [exec EXCEPT ![t] = [pc |-> "start", run |-> r, seen |-> 0, owner |-> o]]
  BY DEF Boot
<1> HIDE DEF r, o
<1>6. OnlyMoves(t) /\ exec'[t].pc = "start" /\ exec'[t].run = r
  BY <1>3, <1>4, <1>5, ExecFact, SpineAssumption
  DEF OnlyMoves, Process, ExecStep, SpineIInv
<1>7. exec[t].pc = "boot" /\ t \in carrier /\ UNCHANGED vars /\ carrier' \subseteq carrier
      /\ UNCHANGED <<client, lease, unit, pending, inflight, worker, released,
                     fenced, total, served, writer, stray>>
  BY DEF Boot, At, work, ghosts
<1>8. ExecOk(t)'
  BY <1>3, <1>6, <1>7 DEF vars, ExecOk, RunPc, ExecStep, ControlPc, BoundPc, Holds, Names
<1>9. SeenOk(t)'
  BY <1>6 DEF SeenOk
<1>10. Working(t)
  BY <1>7 DEF Working
<1>11. StrayOk(t)' /\ stray' \in [Token -> Nat]
  BY <1>7, StrayFree
<1> QED
  BY <1>6, <1>7, <1>8, <1>9, <1>10, <1>11, PlainStep DEF DrivePc

\* What is the same for every step of a process that has started.
LEMMA StepKeeps ==
  ASSUME KeepProcs
  PROVE  /\ Still
         /\ UNCHANGED <<client, lease, unit, pending, inflight, worker, released,
                        fenced, total, served, writer>>
         /\ carrier' = carrier /\ stray' = stray
BY DEF KeepProcs, Still, host, work, ghosts

LEMMA SameIfUnchanged ==
  ASSUME SpineIInv, NEW t \in Token, Holds(t), UNCHANGED vars
  PROVE  /\ Recorded' /\ SameRecord /\ SameSlot /\ Steady
         /\ action' = action /\ executor' = executor /\ runs' = runs
<1>1. executor # None /\ action # None /\ present
  BY RecordFact DEF Holds, Names, SpineIInv
<1>2. Recorded'
  BY UnchangedRecord DEF SpineIInv
<1>3. SameRecord
  BY <1>1 DEF vars, SameRecord, KeepsOwner
<1> QED
  BY <1>1, <1>2, <1>3, SameIsSteady DEF vars, SameSlot

LEMMA StartKeeps ==
  ASSUME SpineIInv, NEW t \in Token, Start(t) PROVE SpineIInv'
<1>1. /\ OnlyMoves(t) /\ exec[t].pc = "start" /\ exec'[t].pc = "shake"
      /\ exec'[t].run = exec[t].run
  BY StepFact DEF Start, At, ExecStep, SpineIInv
<1>2. Holds(t) /\ KeepProcs
  BY DEF Start, RequireExecutor, Holds, Names
<1>3. /\ Recorded' /\ SameRecord /\ SameSlot /\ executor'.run = executor.run
      /\ action' = action /\ runs' = runs
  <2>1. CASE MarkProcessStarted(t[1], t[2], t)
    BY <2>1, ProcessStartedEffect DEF SpineIInv
  <2>2. CASE UNCHANGED vars
    BY <2>2, <1>2, SameIfUnchanged
  <2> QED
    BY <2>1, <2>2 DEF Start
<1>4. Steady /\ action # None
  BY <1>2, <1>3, SameIsSteady, RecordFact DEF Holds, Names, SpineIInv
<1>5. ExecOk(t)'
  <2>1. ExecOk(t) /\ action'.kind = action.kind
    BY <1>4 DEF SpineIInv, SpineInv, ExecInv, Steady
  <2> QED
    BY <1>1, <1>2, <1>3, <2>1 DEF ExecOk, RunPc, ExecStep, ControlPc, BoundPc
<1>6. TargetInv'
  BY <1>1, <1>2, <1>3, <1>4, StepKeeps, TargetKept DEF TargetOpen
<1>7. StrayOk(t)' /\ SeenOk(t)' /\ Working(t) /\ exec[t].pc \notin DrivePc
  BY <1>1, <1>2, StepKeeps, StrayFree DEF SeenOk, Working, DrivePc
<1>8. /\ executor'.workers = executor.workers /\ executor'.closed = executor.closed
      /\ executor'.failure = executor.failure
      /\ (Live(executor) => Live(executor)')
  BY <1>2, <1>3, <1>4 DEF SameSlot, Steady
<1>9. Still /\ writer' = writer
  BY <1>2, StepKeeps
<1> QED
  BY <1>1, <1>2, <1>3, <1>4, <1>5, <1>6, <1>7, <1>8, <1>9, HeldStep

\* Without a target there is nothing to end.
LEMMA NoTargetKept ==
  ASSUME Steady, action # None, action.target = None PROVE TargetInv'
BY DEF Steady, TargetInv

LEMMA ShakeKeeps ==
  ASSUME SpineIInv, NEW t \in Token, Shake(t) PROVE SpineIInv'
<1> DEFINE pc == IF \/ action.kind \in ControlKind
                    \/ action.kind = "run" /\ action.run # None
                    \/ action.run # None /\ ReceiptBound(action.run)
                 THEN "receipt"
                 ELSE IF action.kind = "run" THEN "select" ELSE "claim"
<1>1. pc \in ExecStep \ {"none", "drive", "close", "failing", "tail", "outcome", "finish"}
  BY DEF ExecStep
<1>2. MarkHandshake(t[1], t[2], t) /\ Step(t, pc) /\ exec[t].pc = "shake" /\ KeepProcs
  BY DEF Shake, At
<1>3. /\ pc \in {"receipt", "select", "claim"}
      /\ pc = "claim" => action.kind # "run" /\ action.kind \notin ControlKind
      /\ pc = "receipt" => action.kind # "run" \/ action.run # None
      /\ action.kind \in ControlKind => pc = "receipt"
  BY DEF ControlKind
<1> HIDE DEF pc
<1>4. /\ OnlyMoves(t) /\ exec'[t].pc = pc /\ exec'[t].run = exec[t].run
  BY <1>1, <1>2, StepFact DEF SpineIInv
<1>5. Holds(t) /\ executor # None
  BY <1>2 DEF MarkHandshake, RequireExecutor, Holds, Names
<1>6. /\ Recorded' /\ SameRecord /\ runs' = runs
      /\ Live(executor)' /\ executor'.run = executor.run
      /\ executor'.workers = executor.workers
      /\ executor'.closed = executor.closed
      /\ executor'.failure = executor.failure
      /\ action'.run = action.run /\ action'.status = "applying"
  BY <1>2, HandshakeEffect DEF SpineIInv
<1>7. Steady
  BY <1>6, SameIsSteady
<1>8. ExecOk(t)'
  <2>1. ExecOk(t) /\ action'.kind = action.kind
    BY <1>5, <1>7, RecordFact DEF SpineIInv, SpineInv, ExecInv, Steady
  <2> QED
    BY <1>2, <1>3, <1>4, <1>5, <2>1 DEF ExecOk, RunPc, ExecStep, ControlPc, BoundPc
<1>9. TargetInv'
  BY <1>1, <1>2, <1>4, <1>6, <1>7, StepKeeps, TargetKept DEF TargetOpen
<1>10. StrayOk(t)' /\ SeenOk(t)' /\ Working(t) /\ exec[t].pc \notin DrivePc
  BY <1>1, <1>2, <1>4, StepKeeps, StrayFree DEF SeenOk, Working, DrivePc
<1>11. Still /\ writer' = writer
  BY <1>2, StepKeeps
<1> QED
  BY <1>1, <1>2, <1>4, <1>5, <1>6, <1>7, <1>8, <1>9, <1>10, <1>11, HeldStep

LEMMA ClaimKeeps ==
  ASSUME SpineIInv, NEW t \in Token, Claim(t) PROVE SpineIInv'
<1>1. /\ OnlyMoves(t) /\ exec[t].pc = "claim" /\ exec'[t].pc = "select"
      /\ exec'[t].run = exec[t].run
  BY StepFact DEF Claim, At, ExecStep, SpineIInv
<1>2. Holds(t) /\ KeepProcs /\ BindRun(t[1], t[2], exec[t].run)
  BY DEF Claim, ExecutorCurrent, RequireExecutor, Holds, Names
<1>3. exec[t].run \in RunId
  BY <1>1 DEF SpineIInv, SpineInv, ExecInv, ExecOk, RunPc, ExecStep
<1>4. /\ Recorded' /\ SameRecord /\ SameSlot /\ runs' = runs
      /\ executor.run \in {None, executor'.run}
  BY <1>2, <1>3, BindRunEffect DEF SpineIInv
<1>5. Steady
  BY <1>4, SameIsSteady
<1>6. action # None /\ action.target = None /\ action.kind \notin ControlKind
  BY <1>1, <1>2, NoTarget DEF ControlPc
<1>7. ExecOk(t)'
  BY <1>1, <1>3, <1>5, <1>6 DEF ExecOk, RunPc, ExecStep, ControlPc, BoundPc, Steady
<1>8. TargetInv'
  BY <1>5, <1>6, NoTargetKept
<1>9. StrayOk(t)' /\ SeenOk(t)' /\ Working(t) /\ exec[t].pc \notin DrivePc
  BY <1>1, <1>2, StepKeeps, StrayFree DEF SeenOk, Working, DrivePc
<1>10. /\ executor'.workers = executor.workers /\ executor'.closed = executor.closed
       /\ executor'.failure = executor.failure
       /\ (Live(executor) => Live(executor)')
  BY <1>2, <1>4, <1>5 DEF SameSlot, Steady
<1>11. Still /\ writer' = writer
  BY <1>2, StepKeeps
<1> QED
  BY <1>1, <1>2, <1>4, <1>5, <1>7, <1>8, <1>9, <1>10, <1>11, HeldStep

LEMMA AttachKeeps ==
  ASSUME SpineIInv, NEW t \in Token, Attach(t) PROVE SpineIInv'
<1>1. /\ OnlyMoves(t) /\ exec[t].pc = "attach" /\ exec'[t].pc = "receipt"
      /\ exec'[t].run = exec[t].run
  BY StepFact DEF Attach, At, ExecStep, SpineIInv
<1>2. Holds(t) /\ KeepProcs /\ BindRun(t[1], t[2], exec[t].run)
  BY <1>1, AliveHolds DEF Attach, BindRun, RequireActive
<1>3. exec[t].run \in RunId
  BY <1>1 DEF SpineIInv, SpineInv, ExecInv, ExecOk, RunPc, ExecStep
<1>4. /\ Recorded' /\ SameRecord /\ SameSlot /\ runs' = runs
      /\ executor.run \in {None, executor'.run}
  BY <1>2, <1>3, BindRunEffect DEF SpineIInv
<1>5. Steady
  BY <1>4, SameIsSteady
<1>6. action # None /\ action.target = None /\ action.kind \notin ControlKind
  BY <1>1, <1>2, NoTarget DEF ControlPc
<1>7. ExecOk(t)'
  BY <1>1, <1>3, <1>5, <1>6 DEF ExecOk, RunPc, ExecStep, ControlPc, BoundPc, Steady
<1>8. TargetInv'
  BY <1>5, <1>6, NoTargetKept
<1>9. StrayOk(t)' /\ SeenOk(t)' /\ Working(t) /\ exec[t].pc \notin DrivePc
  BY <1>1, <1>2, StepKeeps, StrayFree DEF SeenOk, Working, DrivePc
<1>10. /\ executor'.workers = executor.workers /\ executor'.closed = executor.closed
       /\ executor'.failure = executor.failure
       /\ (Live(executor) => Live(executor)')
  BY <1>2, <1>4, <1>5 DEF SameSlot, Steady
<1>11. Still /\ writer' = writer
  BY <1>2, StepKeeps
<1> QED
  BY <1>1, <1>2, <1>4, <1>5, <1>7, <1>8, <1>9, <1>10, <1>11, HeldStep

LEMMA ApplyKeeps ==
  ASSUME SpineIInv, NEW t \in Token, Apply(t) PROVE SpineIInv'
<1>1. PICK pc \in {"terminate", "complete"} :
        /\ exec[t].pc = "apply" /\ Step(t, pc) /\ KeepProcs
        /\ RecordApplication(t[1], t[2], exec[t].run, action.payload)
        /\ pc = "terminate" <=> action.kind \in ControlKind
  BY DEF Apply, At
<1>2. OnlyMoves(t) /\ exec'[t].pc = pc /\ exec'[t].run = exec[t].run
  BY <1>1, StepFact DEF ExecStep, SpineIInv
<1>3. Holds(t) /\ executor # None /\ action # None
  BY <1>1, RecordFact
  DEF RecordApplication, RequireExecutor, Holds, Names, SpineIInv
<1>4. /\ exec[t].run \in RunId /\ executor.run = exec[t].run
      /\ action.run = exec[t].run
  BY <1>1, <1>3 DEF SpineIInv, SpineInv, ExecInv, ExecOk, RunPc, BoundPc, ExecStep
<1>5. action.payload \in Payload
  BY <1>3, RecordFact DEF SpineIInv, Action
<1>6. /\ Recorded' /\ SameRecord /\ executor' = executor /\ runs' = runs
      /\ action'.run = exec[t].run /\ action'.status = action.status
  BY <1>1, <1>4, <1>5, RecordApplicationEffect DEF SpineIInv
<1>7. Steady
  BY <1>6, SameIsSteady
<1>8. ExecOk(t)'
  BY <1>1, <1>2, <1>3, <1>4, <1>6, <1>7
  DEF ExecOk, RunPc, ExecStep, ControlPc, BoundPc, Steady
<1>9. TargetInv'
  BY <1>1, <1>2, <1>4, <1>6, <1>7, StepKeeps, TargetKept DEF TargetOpen
<1>10. StrayOk(t)' /\ SeenOk(t)' /\ Working(t) /\ exec[t].pc \notin DrivePc
  BY <1>1, <1>2, StepKeeps, StrayFree DEF SeenOk, Working, DrivePc
<1>11. Still /\ writer' = writer
  BY <1>1, StepKeeps
<1> QED
  BY <1>1, <1>2, <1>3, <1>6, <1>7, <1>8, <1>9, <1>10, <1>11, HeldStep

LEMMA CompleteKeeps ==
  ASSUME SpineIInv, NEW t \in Token, Complete(t) PROVE SpineIInv'
<1>1. /\ OnlyMoves(t) /\ exec[t].pc = "complete" /\ exec'[t].pc = "drive"
      /\ exec'[t].run = exec[t].run
  BY StepFact DEF Complete, At, ExecStep, SpineIInv
<1>2. Holds(t) /\ KeepProcs /\ CompleteAction(t[1], t[2], "completed")
  BY DEF Complete, CompleteAction, RequireExecutor, Holds, Names
<1>3. /\ Recorded' /\ SameRecord /\ executor' = executor /\ runs' = runs
      /\ action'.run = action.run
  BY <1>2, CompleteActionEffect DEF SpineIInv
<1>4. Steady
  BY <1>3, SameIsSteady
<1>5. action # None /\ action.target = None /\ action.kind \notin ControlKind
  BY <1>1, <1>2, NoTarget DEF ControlPc
<1>6. ExecOk(t)'
  <2>1. ExecOk(t)
    BY DEF SpineIInv, SpineInv, ExecInv
  <2> QED
    BY <1>1, <1>2, <1>3, <1>4, <1>5, <2>1
    DEF ExecOk, RunPc, ExecStep, ControlPc, BoundPc, Steady
<1>7. TargetInv'
  BY <1>4, <1>5, NoTargetKept
<1>8. StrayOk(t)' /\ SeenOk(t)' /\ Working(t) /\ exec[t].pc \notin DrivePc
  BY <1>1, <1>2, StepKeeps, StrayFree DEF SeenOk, Working, DrivePc
<1>9. Still /\ writer' = writer
  BY <1>2, StepKeeps
<1> QED
  BY <1>1, <1>2, <1>3, <1>4, <1>6, <1>7, <1>8, <1>9, HeldStep

LEMMA FinishKeeps ==
  ASSUME SpineIInv, NEW t \in Token, Finish(t) PROVE SpineIInv'
<1>1. /\ OnlyMoves(t) /\ exec[t].pc = "finish" /\ exec'[t].pc = "tail"
      /\ exec'[t].run = exec[t].run
  BY StepFact DEF Finish, At, ExecStep, SpineIInv
<1>2. Holds(t) /\ KeepProcs /\ FinishExecutor(t[1], t[2], FALSE)
  BY DEF Finish, FinishExecutor, RequireExecutor, Holds, Names
<1>3. /\ Recorded' /\ SameRecord
      /\ executor'.run = executor.run /\ executor'.workers = executor.workers
      /\ executor'.closed = executor.closed
      /\ executor'.failure \in {"failed", executor.failure}
  BY <1>2, FinishEffect DEF SpineIInv
<1>4. Steady
  BY <1>3, SameIsSteady
<1>5. ExecOk(t)'
  BY <1>1 DEF ExecOk, RunPc, ExecStep, ControlPc, BoundPc
<1>6. TargetInv'
  <2>1. action # None /\ action.target # None => TargetQuiet
    BY <1>1, <1>2 DEF SpineIInv, SpineInv, TargetInv, TargetOpen
  <2> QED
    BY <1>1, <1>2, <1>4, <2>1, StepKeeps, TargetKept
<1>7. StrayOk(t)' /\ SeenOk(t)' /\ Working(t) /\ exec[t].pc \notin DrivePc
  BY <1>1, <1>2, StepKeeps, StrayFree DEF SeenOk, Working, DrivePc
<1>8. Still /\ writer' = writer
  BY <1>2, StepKeeps
<1> QED
  BY <1>1, <1>2, <1>3, <1>4, <1>5, <1>6, <1>7, <1>8, HeldStep

LEMMA SelectKeeps ==
  ASSUME SpineIInv, NEW t \in Token, Select(t) PROVE SpineIInv'
<1>1. exec[t].pc = "select" /\ Holds(t)
  BY DEF Select, At, ExecutorCurrent, RequireExecutor, Holds, Names
<1>2. PICK r \in RunId :
        /\ \/ SaveRun(t[1], t[2], r, "active") /\ writer' = t[2]
           \/ UNCHANGED <<vars, writer>>
           \/ CreateRun(t[1], t[2], r) /\ writer' = t[2]
        /\ exec' = [exec EXCEPT ![t].pc = "attach", ![t].run = r,
             ![t].owner = IF @ = None /\ HasReceipt(r) THEN ReceiptOwner(r) ELSE @]
  BY DEF Select
<1> DEFINE o == IF exec[t].owner = None /\ HasReceipt(r) THEN ReceiptOwner(r)
                ELSE exec[t].owner
<1>3. o \in ActionId \cup {None}
  <2>1. exec[t].owner \in ActionId \cup {None}
    BY ExecFact DEF SpineIInv, Process
  <2> QED
    BY <2>1, OwnerFact DEF SpineIInv
<1>4. exec' = [exec EXCEPT ![t].pc = "attach", ![t].run = r, ![t].owner = o]
  BY <1>2
<1> HIDE DEF o
<1>5. OnlyMoves(t) /\ exec'[t].pc = "attach" /\ exec'[t].run = r
  BY <1>3, <1>4, ExecFact DEF OnlyMoves, Process, ExecStep, SpineIInv
<1>6. Recorded' /\ UNCHANGED <<record, issued>>
  <2>1. CASE SaveRun(t[1], t[2], r, "active")
    <3>1. "active" \in RunStatus \ {"none"}
      BY DEF RunStatus
    <3> QED
      BY <2>1, <3>1, SaveEffect DEF SpineIInv
  <2>2. CASE CreateRun(t[1], t[2], r)
    BY <2>2, CreateEffect DEF SpineIInv
  <2>3. CASE UNCHANGED vars
    BY <2>3, UnchangedRecord DEF SpineIInv, vars, record
  <2> QED
    BY <1>2, <2>1, <2>2, <2>3
<1>7. Steady /\ action' = action /\ executor' = executor
  BY <1>6, SameIsSteadyToo DEF record
<1>8. action # None /\ action.target = None /\ action.kind \notin ControlKind
  BY <1>1, NoTarget DEF ControlPc
<1>9. ExecOk(t)'
  BY <1>5, <1>7, <1>8 DEF ExecOk, RunPc, ExecStep, ControlPc, BoundPc
<1>10. TargetInv'
  BY <1>7, <1>8, NoTargetKept
<1>11. Still
  BY DEF Select, Still, work
<1>12. StrayOk(t)' /\ SeenOk(t)' /\ Working(t) /\ exec[t].pc \notin DrivePc
  BY <1>1, <1>5, <1>11, StrayFree DEF SeenOk, Working, DrivePc, Still
<1>13. writer' = writer \/ writer' = t[2]
  BY <1>2
<1> QED
  BY <1>1, <1>5, <1>6, <1>7, <1>9, <1>10, <1>11, <1>12, <1>13, HeldStep

LEMMA WriteReceiptKeeps ==
  ASSUME SpineIInv, NEW t \in Token, WriteReceipt(t) PROVE SpineIInv'
<1> DEFINE r == exec[t].run
<1>1. /\ OnlyMoves(t) /\ exec[t].pc = "receipt" /\ exec'[t].pc = "apply"
      /\ exec'[t].run = r
  BY StepFact DEF WriteReceipt, At, ExecStep, SpineIInv
<1>2. r \in RunId /\ r # None
  BY <1>1, ConstantsAssumption
  DEF SpineIInv, SpineInv, ExecInv, ExecOk, RunPc, ExecStep
<1>5. /\ Holds(t) /\ executor.run \in {None, r} /\ action.run = r
      /\ Recorded' /\ UNCHANGED <<record, issued>>
      /\ \A q \in RunId : runs'[q].status = runs[q].status
  <2>1. CASE PersistReceipt(t[1], t[2], r, exec[t].owner)
    <3>1. Holds(t) /\ executor.run \in {None, r} /\ action.run = r
      BY <1>2, <2>1
      DEF PersistReceipt, ExecutorCurrent, RequireExecutor, Holds, Names
    <3>2. /\ Recorded' /\ UNCHANGED <<record, issued>>
          /\ \A q \in RunId : runs'[q].status = runs[q].status
      BY <1>2, <2>1, PersistEffect DEF SpineIInv
    <3> QED
      BY <3>1, <3>2
  <2>2. CASE Current(t) /\ ReceiptBound(r) /\ UNCHANGED vars
    <3>1. Holds(t) /\ executor.run \in {None, r}
      BY <1>2, <2>2, CurrentHolds DEF Current, ExecutorCurrent
    <3>2. action.run = r
      BY <1>2, <2>2 DEF ReceiptBound, ReceiptOf, SpineIInv, Recorded,
         OwnershipInv, ReceiptsGenuine
    <3>3. /\ Recorded' /\ UNCHANGED <<record, issued>>
          /\ \A q \in RunId : runs'[q].status = runs[q].status
      BY <2>2, UnchangedRecord DEF SpineIInv, vars, record
    <3> QED
      BY <3>1, <3>2, <3>3
  <2> QED
    BY <2>1, <2>2 DEF WriteReceipt
<1>6. /\ Steady /\ action' = action /\ executor' = executor
      /\ executor # None /\ action # None
  BY <1>5, SameIsSteadyToo, RecordFact DEF record, Holds, Names, SpineIInv
<1>7. executor.run = r
  BY <1>2, <1>5, <1>6 DEF SpineIInv, Recorded, RecordInv
<1>8. ExecOk(t)'
  <2>1. ExecOk(t)
    BY DEF SpineIInv, SpineInv, ExecInv
  <2> QED
    BY <1>1, <1>2, <1>5, <1>6, <1>7, <2>1
    DEF ExecOk, RunPc, ExecStep, ControlPc, BoundPc
<1>9. Still /\ (writer' = writer \/ writer' = t[2])
  BY DEF WriteReceipt, Still, work
<1>10. TargetInv'
  <2>1. worker' = worker
    BY <1>9 DEF Still
  <2> QED
    BY <1>1, <1>2, <1>5, <1>6, <2>1, TargetKept DEF TargetOpen
<1>11. StrayOk(t)' /\ SeenOk(t)' /\ Working(t) /\ exec[t].pc \notin DrivePc
  BY <1>1, <1>9, StrayFree DEF SeenOk, Working, DrivePc, Still
<1> QED
  BY <1>1, <1>5, <1>6, <1>8, <1>9, <1>10, <1>11, HeldStep

LEMMA SaveOutcomeKeeps ==
  ASSUME SpineIInv, NEW t \in Token, SaveOutcome(t) PROVE SpineIInv'
<1> DEFINE r == exec[t].run
<1>1. /\ OnlyMoves(t) /\ exec[t].pc = "outcome" /\ exec'[t].pc = "finish"
      /\ exec'[t].run = r
  BY StepFact DEF SaveOutcome, At, ExecStep, SpineIInv
<1>2. r \in RunId
  BY <1>1 DEF SpineIInv, SpineInv, ExecInv, ExecOk, RunPc, ExecStep
<1>3. Holds(t)
  BY CurrentHolds DEF SaveOutcome
<1>4. Recorded' /\ UNCHANGED <<record, issued>>
  <2>1. CASE SaveRun(t[1], t[2], r, FinalStatus(action.kind))
    <3>1. FinalStatus(action.kind) \in RunStatus \ {"none"}
      BY DEF RunStatus, FinalStatus
    <3> QED
      BY <1>2, <2>1, <3>1, SaveEffect DEF SpineIInv
  <2>2. CASE UNCHANGED vars
    BY <2>2, UnchangedRecord DEF SpineIInv, vars, record
  <2> QED
    BY <2>1, <2>2 DEF SaveOutcome
<1>5. /\ Steady /\ action' = action /\ executor' = executor
  BY <1>4, SameIsSteadyToo DEF record
<1>6. ExecOk(t)'
  <2>1. ExecOk(t)
    BY DEF SpineIInv, SpineInv, ExecInv
  <2> QED
    BY <1>1, <1>2, <1>3, <1>5, <2>1 DEF ExecOk, RunPc, ExecStep, ControlPc, BoundPc
<1>7. Still /\ (writer' = writer \/ writer' = t[2])
  BY DEF SaveOutcome, Still, work
<1>8. TargetInv'
  <2>1. action # None /\ action.target # None => TargetQuiet
    BY <1>1, <1>3 DEF SpineIInv, SpineInv, TargetInv, TargetOpen
  <2>2. worker' = worker
    BY <1>7 DEF Still
  <2> QED
    BY <1>1, <1>3, <1>5, <2>1, <2>2, TargetKept
<1>9. StrayOk(t)' /\ SeenOk(t)' /\ Working(t) /\ exec[t].pc \notin DrivePc
  BY <1>1, <1>7, StrayFree DEF SeenOk, Working, DrivePc, Still
<1> QED
  BY <1>1, <1>3, <1>4, <1>5, <1>6, <1>7, <1>8, <1>9, HeldStep

\* A process that ends keeps its account of stray steps.
LEMMA StrayEnds ==
  ASSUME SpineIInv, NEW t \in Token, stray' = stray, unit' = unit,
         exec'[t].pc \in {"failing", "tail"}
  PROVE  StrayOk(t)'
BY DEF SpineIInv, SpineInv, StrayInv, StrayOk

\* The fence a process reads is that of the record it read.
LEMMA SameFence ==
  ASSUME UNCHANGED vars, NEW t \in Token, exec'[t].run = exec[t].run
  PROVE  /\ Current(t)' <=> Current(t)
         /\ Holds(t)' <=> Holds(t)
         /\ action' = action /\ executor' = executor /\ runs' = runs
BY DEF vars, Current, ExecutorCurrent, RequireExecutor, Holds, Names

\* Where a driving process stands: on the Run its Action is bound to.
LEMMA DriveFact ==
  ASSUME SpineIInv, NEW t \in Token,
         exec[t].pc \in {"drive", "external", "close"}
  PROVE  /\ exec[t].run \in RunId
         /\ Holds(t) => /\ action # None /\ action.kind \notin ControlKind
                        /\ action.target = None
                        /\ action.run = exec[t].run /\ executor.run = exec[t].run
         /\ Current(t) => stray[t] = 0
<1>1. ExecOk(t) /\ StrayOk(t)
  BY DEF SpineIInv, SpineInv, ExecInv, StrayInv
<1>2. exec[t].run \in RunId
  BY <1>1 DEF ExecOk, RunPc, ExecStep
<1>3. Holds(t) => action.run = exec[t].run /\ executor.run = exec[t].run
  BY <1>1 DEF ExecOk, BoundPc
<1>4. Holds(t) => action # None /\ action.kind \notin ControlKind /\ action.target = None
  BY NoTarget DEF ControlPc
<1>5. Current(t) => stray[t] = 0
  BY <1>1 DEF StrayOk
<1> QED
  BY <1>2, <1>3, <1>4, <1>5

\* A process that holds no target and is on its Run may be anywhere it drives.
LEMMA DriveOk ==
  ASSUME SpineIInv, NEW t \in Token,
         exec[t].pc \in {"drive", "external", "close"},
         exec'[t].pc \in {"drive", "external", "close", "failing", "finish"},
         exec'[t].run = exec[t].run, Holds(t)' <=> Holds(t),
         Holds(t) => /\ action'.kind = action.kind /\ action'.run = action.run
                     /\ executor'.run = executor.run
  PROVE  ExecOk(t)'
BY DriveFact DEF ExecOk, RunPc, ExecStep, ControlPc, BoundPc

LEMMA FenceExternalKeeps ==
  ASSUME SpineIInv, NEW t \in Token, FenceExternal(t) PROVE SpineIInv'
<1>1. /\ OnlyMoves(t) /\ exec[t].pc = "drive" /\ exec'[t].pc = "external"
      /\ exec'[t].run = exec[t].run
  BY StepFact DEF FenceExternal, At, ExecStep, SpineIInv
<1>2. Current(t) /\ UNCHANGED vars /\ KeepProcs
  BY DEF FenceExternal
<1>3. ExecOk(t)'
  BY <1>1, <1>2, SameFence, DriveOk
<1>4. StrayOk(t)' /\ SeenOk(t)' /\ Working(t) /\ exec'[t].pc \in DrivePc
  BY <1>1, <1>2, DriveFact, StepKeeps DEF StrayOk, SeenOk, Working, DrivePc
<1>5. stray' \in [Token -> Nat] /\ \A u \in Token : u # t => stray'[u] = stray[u]
  BY <1>2, StepKeeps DEF SpineIInv, SpineTypeOK
<1> QED
  BY <1>1, <1>2, <1>3, <1>4, <1>5, StepKeeps, PlainStep

LEMMA ExternalKeeps ==
  ASSUME SpineIInv, NEW t \in Token, External(t) PROVE SpineIInv'
<1>1. /\ OnlyMoves(t) /\ exec[t].pc = "external" /\ exec'[t].pc = "drive"
      /\ exec'[t].run = exec[t].run
  BY StepFact DEF External, At, ExecStep, SpineIInv
<1>2. /\ UNCHANGED vars
      /\ UNCHANGED <<client, lease, unit, pending, inflight, worker, released,
                     fenced, vars, total, served, writer>>
      /\ carrier' \subseteq carrier
      /\ stray' = IF Current(t) THEN stray ELSE [stray EXCEPT ![t] = @ + 1]
  BY DEF External, host, work
<1>3. ExecOk(t)'
  BY <1>1, <1>2, SameFence, DriveOk
<1>4. stray \in [Token -> Nat] /\ stray[t] = 0
  BY <1>1 DEF SpineIInv, SpineTypeOK, SpineInv, StrayInv, StrayOk
<1>5. /\ stray' \in [Token -> Nat]
      /\ \A u \in Token : u # t => stray'[u] = stray[u]
      /\ stray'[t] = IF Current(t) THEN 0 ELSE 1
  BY <1>2, <1>4
<1>6. StrayOk(t)'
  <2>1. unit'[t] # "none"
    BY <1>1, <1>2, AliveFact
  <2>2. Current(t)' <=> Current(t)
    BY <1>1, <1>2, SameFence
  <2> QED
    BY <1>1, <1>5, <2>1, <2>2 DEF StrayOk
<1>7. SeenOk(t)' /\ Working(t) /\ exec'[t].pc \in DrivePc
  BY <1>1 DEF SeenOk, Working, DrivePc
<1> QED
  BY <1>1, <1>2, <1>3, <1>5, <1>6, <1>7, PlainStep

LEMMA DriveReturnsKeeps ==
  ASSUME SpineIInv, NEW t \in Token, DriveReturns(t) PROVE SpineIInv'
<1>1. exec[t].pc = "drive" /\ UNCHANGED vars /\ KeepProcs /\ WorkersOf(t) = {}
  BY DEF DriveReturns, At
<1>2. exec[t].run \in RunId
  BY <1>1, DriveFact
<1>3. served[exec[t].run] \in 0..MaxResumes
  BY <1>2 DEF SpineIInv, SpineTypeOK
<1>4. /\ OnlyMoves(t) /\ exec'[t].pc = "close" /\ exec'[t].run = exec[t].run
      /\ exec'[t].seen = served[exec[t].run]
  <2>1. exec' = [exec EXCEPT ![t].pc = "close", ![t].seen = served[exec[t].run]]
    BY DEF DriveReturns
  <2> QED
    BY <1>3, <2>1, ExecFact DEF OnlyMoves, Process, ExecStep, SpineIInv
<1>5. ExecOk(t)'
  BY <1>1, <1>4, SameFence, DriveOk
<1>6. SeenOk(t)' /\ Working(t)
  BY <1>1, <1>4, StepKeeps DEF SeenOk, Working
<1>7. StrayOk(t)'
  <2>1. /\ stray' = stray /\ unit' = unit /\ (Current(t)' <=> Current(t))
        /\ StrayOk(t)
    BY <1>1, <1>4, StepKeeps, SameFence DEF SpineIInv, SpineInv, StrayInv
  <2> QED
    BY <1>1, <1>4, <2>1 DEF StrayOk
<1>8. stray' \in [Token -> Nat] /\ \A u \in Token : u # t => stray'[u] = stray[u]
  BY <1>1, StepKeeps DEF SpineIInv, SpineTypeOK
<1> QED
  BY <1>1, <1>4, <1>5, <1>6, <1>7, <1>8, StepKeeps, PlainStep

LEMMA DriveSaveKeeps ==
  ASSUME SpineIInv, NEW t \in Token, NEW status \in Outcome, DriveSave(t, status)
  PROVE  SpineIInv'
<1> DEFINE r == exec[t].run
<1>1. exec[t].pc = "drive" /\ exec' = exec
      /\ SaveRun(t[1], t[2], r, status) /\ writer' = t[2]
      /\ served' = [served EXCEPT ![r] = total[r]] /\ total' = total
      /\ stray' = stray
  BY DEF DriveSave, At, procs
<1>2. UNCHANGED <<client, lease, unit, pending, inflight, worker, released,
                  fenced>> /\ carrier' \subseteq carrier
  BY DEF DriveSave, procs, host
<1>3. Current(t) /\ Holds(t)
  BY <1>1, CurrentHolds DEF SaveRun, Current
<1>4. r \in RunId
  BY <1>1, DriveFact
<1>5. Recorded' /\ UNCHANGED <<record, issued>>
  <2>1. status \in RunStatus \ {"none"}
    BY ConstantsAssumption
  <2> QED
    BY <1>1, <1>4, <2>1, SaveEffect DEF SpineIInv
<1>6. Steady /\ action' = action /\ executor' = executor
  BY <1>5, SameIsSteadyToo DEF record
<1>7. OnlyMoves(t)
  BY <1>1, StayFact DEF SpineIInv
<1>8. ExecOk(t)'
  BY <1>1, <1>3, <1>6, DriveOk DEF Steady
<1>9. StrayOk(t)' /\ SeenOk(t)'
  <2>1. stray'[t] = 0
    BY <1>1, <1>3, DriveFact
  <2> QED
    BY <1>1, <2>1 DEF StrayOk, SeenOk
<1>10. TargetInv'
  BY <1>1, <1>3, <1>6, DriveFact, NoTargetKept
<1>11. served \in [RunId -> 0..MaxResumes] /\ total \in [RunId -> 0..MaxResumes]
       /\ stray \in [Token -> Nat]
  BY DEF SpineIInv, SpineTypeOK
<1>12. served' \in [RunId -> 0..MaxResumes] /\ served'[r] = total[r]
  BY <1>1, <1>4, <1>11
<1>13. AdmissionInv'
  BY <1>1, <1>3, <1>4, <1>6, <1>12, DriveFact
  DEF SpineIInv, SpineInv, AdmissionInv
<1>14. \A u \in Token : u # t => SeenOk(u)'
  BY <1>3, <1>6, <1>7, SeenOthers
<1>15. /\ exec'[t].pc = "drive" /\ Working(t) /\ exec'[t].pc \in DrivePc
       /\ (Live(executor) => Live(executor)')
       /\ executor'.workers = executor.workers
  BY <1>1, <1>6 DEF Working, DrivePc
<1>16. total' \in [RunId -> 0..MaxResumes] /\ stray' \in [Token -> Nat]
       /\ \A u \in Token : u # t => stray'[u] = stray[u]
  BY <1>1, <1>11
<1>17. ProcessStep(t)
  BY <1>1, <1>2, <1>3, <1>5, <1>6, <1>7, <1>8, <1>9, <1>10, <1>12, <1>13, <1>14,
     <1>15, <1>16 DEF ProcessStep
<1> QED
  BY <1>17, ProcessKeeps

LEMMA CloseAdmissionKeeps ==
  ASSUME SpineIInv, NEW t \in Token, CloseAdmission(t) PROVE SpineIInv'
<1> DEFINE r == exec[t].run
<1>1. exec[t].pc = "close" /\ Current(t) /\ Holds(t) /\ KeepProcs
  BY CurrentHolds DEF CloseAdmission, At
<1>2. /\ r \in RunId /\ executor.run = r /\ action # None /\ action.target = None
      /\ action.run = r /\ stray[t] = 0
  BY <1>1, DriveFact
<1>3. CASE total[r] # exec[t].seen
  <2>1. UNCHANGED vars /\ Step(t, "drive")
    BY <1>3 DEF CloseAdmission
  <2>2. OnlyMoves(t) /\ exec'[t].pc = "drive" /\ exec'[t].run = r
    BY <2>1, StepFact DEF ExecStep, SpineIInv
  <2>3. ExecOk(t)'
    BY <1>1, <2>1, <2>2, SameFence, DriveOk
  <2>4. StrayOk(t)' /\ SeenOk(t)' /\ Working(t) /\ exec'[t].pc \in DrivePc
    BY <1>1, <1>2, <2>2, StepKeeps DEF StrayOk, SeenOk, Working, DrivePc
  <2>5. stray' \in [Token -> Nat] /\ \A u \in Token : u # t => stray'[u] = stray[u]
    BY <1>1, StepKeeps DEF SpineIInv, SpineTypeOK
  <2> QED
    BY <1>1, <2>1, <2>2, <2>3, <2>4, <2>5, StepKeeps, PlainStep
<1>4. CASE total[r] = exec[t].seen
  <2>1. CloseTicketResume(t[1], t[2], r, FALSE) /\ Step(t, "finish")
    BY <1>4 DEF CloseAdmission
  <2>2. OnlyMoves(t) /\ exec'[t].pc = "finish" /\ exec'[t].run = r
    BY <2>1, StepFact DEF ExecStep, SpineIInv
  <2>3. /\ Recorded' /\ SameRecord /\ runs' = runs /\ action' = action
        /\ executor'.status = executor.status /\ executor'.run = r
        /\ executor'.workers = executor.workers
        /\ executor'.failure = executor.failure
    BY <1>2, <2>1, CloseEffect DEF SpineIInv
  <2>4. Steady /\ executor # None /\ executor' # None
    BY <1>1, <2>3, SameIsSteady DEF Steady, Holds, Names
  <2>5. ExecOk(t)'
    BY <1>1, <1>2, <2>2, <2>3, <2>4, DriveOk DEF Steady
  <2>6. StrayOk(t)' /\ SeenOk(t)' /\ Working(t)
    BY <1>1, <1>2, <2>2, StepKeeps DEF StrayOk, SeenOk, Working
  <2>7. TargetInv'
    BY <1>2, <2>4, NoTargetKept
  <2>8. total' = total /\ served' = served /\ total[r] = served[r]
    <3>1. exec[t].seen = served[r]
      BY <1>1 DEF SpineIInv, SpineInv, SeenInv, SeenOk
    <3> QED
      BY <1>1, <1>4, <3>1, StepKeeps
  <2>9. AdmissionInv'
    BY <1>2, <2>3, <2>8 DEF AdmissionInv
  <2>10. \A u \in Token : u # t => SeenOk(u)'
    BY <1>1, <2>2, <2>4, SeenOthers
  <2>11. /\ stray' \in [Token -> Nat] /\ \A u \in Token : stray'[u] = stray[u]
         /\ total' \in [RunId -> 0..MaxResumes] /\ served' \in [RunId -> 0..MaxResumes]
    BY <1>1, <2>8, StepKeeps DEF SpineIInv, SpineTypeOK
  <2>12. /\ exec'[t].pc # "none" /\ exec[t].pc # "none" /\ exec[t].pc \notin DrivePc
         /\ (Live(executor) => Live(executor)')
    BY <1>1, <2>2, <2>3, <2>4 DEF DrivePc
  <2>13. UNCHANGED <<client, lease, unit, pending, inflight, worker, released,
                     fenced>> /\ carrier' \subseteq carrier /\ writer' = writer
    BY <1>1, StepKeeps
  <2>14. ProcessStep(t)
    BY <1>1, <2>2, <2>3, <2>4, <2>5, <2>6, <2>7, <2>9, <2>10, <2>11, <2>12, <2>13
    DEF ProcessStep
  <2> QED
    BY <2>14, ProcessKeeps
<1> QED
  BY <1>3, <1>4

LEMMA DriveFailsKeeps ==
  ASSUME SpineIInv, NEW t \in Token, DriveFails(t) PROVE SpineIInv'
<1> DEFINE r == exec[t].run
<1>1. /\ exec[t].pc \in {"drive", "external"} /\ KeepProcs
      /\ OnlyMoves(t) /\ exec'[t].pc = "failing" /\ exec'[t].run = r
  BY StepFact DEF DriveFails, ExecStep, SpineIInv
<1>2. /\ StrayOk(t)' /\ SeenOk(t)' /\ Working(t) /\ exec'[t].pc \in DrivePc
      /\ exec[t].pc # "none"
  <2>1. StrayOk(t)'
    BY <1>1, StepKeeps, StrayEnds
  <2> QED
    BY <1>1, <2>1 DEF SeenOk, Working, DrivePc
<1>3. stray' \in [Token -> Nat] /\ \A u \in Token : u # t => stray'[u] = stray[u]
  BY <1>1, StepKeeps DEF SpineIInv, SpineTypeOK
<1>4. CASE ~Current(t)
  <2>1. UNCHANGED vars
    BY <1>4 DEF DriveFails
  <2>2. ExecOk(t)'
    BY <1>1, <2>1, SameFence, DriveOk
  <2> QED
    BY <1>1, <1>2, <1>3, <2>1, <2>2, StepKeeps, PlainStep
<1>5. CASE Current(t)
  <2>1. CloseTicketResume(t[1], t[2], r, TRUE) /\ Holds(t)
    BY <1>5, CurrentHolds DEF DriveFails
  <2>2. /\ r \in RunId /\ executor.run = r /\ action # None /\ action.target = None
    BY <1>1, <2>1, DriveFact
  <2>3. /\ Recorded' /\ SameRecord /\ runs' = runs /\ action' = action
        /\ executor'.status = executor.status /\ executor'.run = r
        /\ executor'.workers = executor.workers
        /\ executor'.failure = "failed"
    BY <2>1, <2>2, CloseEffect DEF SpineIInv
  <2>4. Steady /\ executor # None /\ executor' # None
    BY <2>1, <2>3, SameIsSteady DEF Steady, Holds, Names
  <2>5. ExecOk(t)'
    BY <1>1, <2>2, <2>3, <2>4, DriveOk DEF Steady
  <2>6. TargetInv'
    BY <2>2, <2>4, NoTargetKept
  <2>7. AdmissionInv'
    BY <2>2, <2>3 DEF AdmissionInv
  <2>8. \A u \in Token : u # t => SeenOk(u)'
    BY <1>1, <2>1, <2>4, SeenOthers
  <2>9. total' \in [RunId -> 0..MaxResumes] /\ served' \in [RunId -> 0..MaxResumes]
    BY <1>1, StepKeeps DEF SpineIInv, SpineTypeOK
  <2>10. (Live(executor) => Live(executor)') /\ exec'[t].pc # "none"
    BY <1>1, <2>3, <2>4
  <2>11. UNCHANGED <<client, lease, unit, pending, inflight, worker, released,
                     fenced>> /\ carrier' \subseteq carrier /\ writer' = writer
    BY <1>1, StepKeeps
  <2>12. ProcessStep(t)
    BY <1>1, <1>2, <1>3, <2>1, <2>3, <2>4, <2>5, <2>6, <2>7, <2>8, <2>9, <2>10, <2>11
    DEF ProcessStep
  <2> QED
    BY <2>12, ProcessKeeps
<1> QED
  BY <1>4, <1>5

LEMMA RaiseKeeps ==
  ASSUME SpineIInv, NEW t \in Token, Raise(t) PROVE SpineIInv'
<1>1. /\ exec[t].pc \notin {"none", "tail"} /\ KeepProcs /\ WorkersOf(t) = {}
      /\ OnlyMoves(t) /\ exec'[t].pc = "tail"
  BY StepFact DEF Raise, ExecStep, SpineIInv
<1>2. /\ StrayOk(t)' /\ SeenOk(t)' /\ ExecOk(t)'
  <2>1. StrayOk(t)'
    BY <1>1, StepKeeps, StrayEnds
  <2> QED
    BY <1>1, <2>1 DEF SeenOk, ExecOk, RunPc, ControlPc, BoundPc
<1>3. stray' \in [Token -> Nat] /\ \A u \in Token : u # t => stray'[u] = stray[u]
  BY <1>1, StepKeeps DEF SpineIInv, SpineTypeOK
<1>4. ~Working(t)' /\ exec'[t].pc # "none"
  BY <1>1 DEF Working
<1>5. CASE UNCHANGED vars
  BY <1>1, <1>2, <1>3, <1>4, <1>5, StepKeeps, PlainStep
<1>6. CASE FinishExecutor(t[1], t[2], TRUE)
  <2>1. Holds(t)
    BY <1>6 DEF FinishExecutor, RequireExecutor, Holds, Names
  <2>2. /\ Recorded' /\ SameRecord /\ runs' = runs
        /\ executor'.run = executor.run /\ executor'.workers = executor.workers
        /\ executor'.closed = executor.closed
        /\ executor'.failure \in {"failed", executor.failure}
        /\ action'.run = action.run
        /\ action.status # "completed" => action'.status # "completed"
    BY <1>6, FinishEffect DEF SpineIInv
  <2>3. Steady
    BY <2>2, SameIsSteady
  <2>4. TargetInv'
    BY <1>1, <2>2, <2>3, StepKeeps, TargetKept DEF TargetOpen
  <2>5. Still /\ writer' = writer
    BY <1>1, StepKeeps
  <2> QED
    BY <1>1, <1>2, <1>4, <2>1, <2>2, <2>3, <2>4, <2>5, HeldStep
<1> QED
  BY <1>5, <1>6 DEF Raise

-----------------------------------------------------------------------------
(* The steps of Workers and of the host.                                   *)

\* A process that stays, dies or starts on an unchanged record is in order.
LEMMA ProcessKept ==
  ASSUME SpineIInv, UNCHANGED <<vars, served, stray>>, NEW u \in Token,
         unit'[u] = unit[u] \/ unit'[u] # "none",
         \/ exec'[u] = exec[u]
         \/ exec'[u].pc = "none"
         \/ exec'[u].pc = "boot" /\ unit[u] = "none"
  PROVE  ExecOk(u)' /\ StrayOk(u)' /\ SeenOk(u)'
<1>1. ExecOk(u) /\ StrayOk(u) /\ SeenOk(u)
  BY DEF SpineIInv, SpineInv, ExecInv, StrayInv, SeenInv
<1>2. stray' = stray /\ served' = served /\ UNCHANGED vars
  OBVIOUS
<1>3. CASE exec'[u] = exec[u]
  <2>1. /\ Current(u)' <=> Current(u)
        /\ Holds(u)' <=> Holds(u)
        /\ action' = action /\ executor' = executor
    BY <1>2, <1>3, SameFence
  <2> QED
    BY <1>1, <1>2, <1>3, <2>1 DEF ExecOk, StrayOk, SeenOk
<1>4. CASE exec'[u].pc \in {"none", "boot"} /\ (exec'[u].pc = "boot" => unit[u] = "none")
  BY <1>1, <1>2, <1>4 DEF ExecOk, StrayOk, SeenOk, RunPc, ControlPc, BoundPc
<1> QED
  BY <1>3, <1>4

\* A step that leaves the record, the commands and the counters alone.
LEMMA HostStepKeeps ==
  ASSUME SpineIInv, SpineTypeOK',
         UNCHANGED <<vars, client, lease, total, served, writer, stray, fenced>>,
         pending' \subseteq pending, carrier' \subseteq carrier,
         inflight' \subseteq inflight,
         \A u \in Token : unit'[u] # unit[u] => Reserved(u),
         \A u \in Token : Able(u)' => Able(u),
         HostInv', ExecInv', StrayInv', SeenInv', OwnedInv', TargetInv'
  PROVE  SpineIInv'
<1>1. /\ UNCHANGED vars
      /\ client' = client /\ served' = served /\ total' = total
      /\ writer' = writer /\ stray' = stray /\ fenced' = fenced
  OBVIOUS
<1>2. Recorded' /\ Steady
  BY <1>1, UnchangedRecord, UnchangedIsSteady DEF SpineIInv
<1>3. action' = action /\ executor' = executor
  BY <1>1 DEF vars
<1>4. RecordInv' /\ ClientInv' /\ WriterInv' /\ ControlIdle' /\ AdmissionInv'
  <2>1. ClientInv'
    BY <1>1 DEF SpineIInv, SpineInv, ClientInv
  <2>2. WriterInv' /\ ControlIdle' /\ AdmissionInv'
    BY <1>1, <1>3 DEF SpineIInv, SpineInv, WriterInv, ControlIdle, AdmissionInv
  <2> QED
    BY <1>2, <2>1, <2>2 DEF Recorded
<1>5. \A c \in Client : (Launching(c)' <=> Launching(c)) /\ Held(c)' = Held(c)
  BY <1>1 DEF Launching, Held
<1>6. FreshInv'
  <2>1. ASSUME NEW u \in Token, ~Reserved(u)'
        PROVE  ~Reserved(u) /\ unit'[u] = unit[u]
    BY <1>2, <2>1 DEF Steady
  <2> QED
    BY <1>1, <1>5, <2>1 DEF SpineIInv, SpineInv, FreshInv
<1>7. SessionInv'
  BY <1>1, <1>2, <1>3 DEF SpineIInv, SpineInv, SessionInv, Steady
<1> QED
  BY <1>2, <1>4, <1>6, <1>7 DEF SpineIInv, SpineInv

LEMMA DropsKeeps ==
  ASSUME SpineIInv, NEW t \in Token, SystemdDrops(t) PROVE SpineIInv'
<1>1. /\ UNCHANGED <<vars, client, lease, unit, pending, carrier, exec, worker,
                     released, total, served, writer, stray, fenced>>
      /\ inflight' \subseteq inflight
  BY DEF SystemdDrops, procs, work, ghosts
<1>2. SpineTypeOK'
  BY <1>1 DEF SpineIInv, SpineTypeOK
<1>3. ExecInv' /\ StrayInv' /\ SeenInv'
  BY <1>1, ProcessKept DEF ExecInv, StrayInv, SeenInv
<1>4. HostInv'
  BY <1>1 DEF SpineIInv, SpineInv, HostInv, Launching, Held, Alive
<1>5. \A u \in Token : Able(u)' => Able(u)
  BY <1>1 DEF Able, Working, Launching, Held
<1>6. OwnedInv' /\ TargetInv'
  BY <1>1 DEF SpineIInv, SpineInv, OwnedInv, TargetInv, TargetQuiet, TargetOpen,
     vars, Holds, Names
<1> QED
  BY <1>1, <1>2, <1>3, <1>4, <1>5, <1>6, HostStepKeeps

LEMMA ExpiresKeeps ==
  ASSUME SpineIInv, NEW t \in Token, CarrierExpires(t) PROVE SpineIInv'
<1>1. /\ UNCHANGED <<vars, client, lease, unit, inflight, exec, worker,
                     released, total, served, writer, stray, fenced>>
      /\ pending' = pending \ {t} /\ carrier' = carrier \ {t}
  BY DEF CarrierExpires, procs, work, ghosts
<1>2. SpineTypeOK'
  BY <1>1 DEF SpineIInv, SpineTypeOK
<1>3. ExecInv' /\ StrayInv' /\ SeenInv'
  BY <1>1, ProcessKept DEF ExecInv, StrayInv, SeenInv
<1>4. HostInv'
  BY <1>1 DEF SpineIInv, SpineInv, HostInv, Launching, Held, Alive
<1>5. \A u \in Token : Able(u)' => Able(u)
  BY <1>1 DEF Able, Working, Launching, Held
<1>6. OwnedInv' /\ TargetInv'
  BY <1>1 DEF SpineIInv, SpineInv, OwnedInv, TargetInv, TargetQuiet, TargetOpen,
     vars, Holds, Names
<1> QED
  BY <1>1, <1>2, <1>3, <1>4, <1>5, <1>6, HostStepKeeps

\* What a unit that comes up does to the process table.
LEMMA BootedFact ==
  ASSUME SpineIInv, NEW t \in Token, Booted(t)
  PROVE  /\ OnlyMoves(t) /\ exec'[t].pc = "boot"
         /\ unit' \in [Token -> UnitState] /\ unit'[t] = "up"
         /\ \A u \in Token : u # t => unit'[u] = unit[u]
<1>1. exec' = [exec EXCEPT ![t].pc = "boot"] /\ unit' = [unit EXCEPT ![t] = "up"]
  BY DEF Booted
<1>2. exec \in [Token -> Process] /\ unit \in [Token -> UnitState]
  BY ExecFact DEF SpineIInv, SpineTypeOK
<1> QED
  BY <1>1, <1>2 DEF OnlyMoves, Process, ExecStep, UnitState

LEMMA StartsKeeps ==
  ASSUME SpineIInv, NEW t \in Token, SystemdStarts(t) PROVE SpineIInv'
<1>1. /\ UNCHANGED <<vars, client, lease, pending, carrier, worker,
                     released, total, served, writer, stray, fenced>>
      /\ inflight' = inflight \ {t} /\ t \in inflight /\ unit[t] = "none"
  BY DEF SystemdStarts, work, ghosts
<1>2. /\ OnlyMoves(t) /\ exec'[t].pc = "boot"
      /\ unit' \in [Token -> UnitState] /\ unit'[t] = "up"
      /\ \A u \in Token : u # t => unit'[u] = unit[u]
  BY BootedFact DEF SystemdStarts
<1>3. SpineTypeOK'
  BY <1>1, <1>2 DEF SpineIInv, SpineTypeOK, OnlyMoves, Process
<1>4. ExecInv' /\ StrayInv' /\ SeenInv'
  BY <1>1, <1>2, ProcessKept DEF ExecInv, StrayInv, SeenInv, OnlyMoves
<1>5. HostInv'
  <2>1. \A c \in Client : (Launching(c)' <=> Launching(c)) /\ Held(c)' = Held(c)
    BY <1>1 DEF Launching, Held
  <2>2. \A u \in Token : Alive(u)' <=> unit'[u] = "up"
    BY <1>2 DEF SpineIInv, SpineInv, HostInv, Alive, OnlyMoves
  <2>3. \A c \in Client : Launching(c) => Held(c) \in Token /\ Held(c) # t
    BY <1>1 DEF SpineIInv, SpineInv, HostInv
  <2>4. \A u \in carrier : u \in Token
    BY DEF SpineIInv, SpineTypeOK
  <2> QED
    BY <1>1, <1>2, <2>1, <2>2, <2>3, <2>4 DEF SpineIInv, SpineInv, HostInv
<1>6. \A u \in Token : Able(u)' => Able(u)
  BY <1>1, <1>2 DEF Able, Working, Launching, Held, OnlyMoves
<1>7. exec[t].pc = "none"
  BY <1>1 DEF SpineIInv, SpineInv, HostInv, Alive
<1>8. OwnedInv'
  <2>1. \A w \in Worker : worker[w] # None => worker[w] \in Token /\ worker[w] # t
    BY <1>7 DEF SpineIInv, SpineTypeOK, SpineInv, OwnedInv, DrivePc
  <2> QED
    BY <1>1, <1>2, <2>1 DEF SpineIInv, SpineInv, OwnedInv, vars, Holds, Names, OnlyMoves
<1>9. TargetInv'
  BY <1>1, <1>2, UnchangedIsSteady, TargetKept DEF vars, TargetOpen
<1>10. \A u \in Token : unit'[u] # unit[u] => Reserved(u)
  BY <1>1, <1>2 DEF SpineIInv, SpineInv, FreshInv
<1> QED
  BY <1>1, <1>3, <1>4, <1>5, <1>6, <1>8, <1>9, <1>10, HostStepKeeps

\* What the end of processes does to the tables.
LEMMA EndedFact ==
  ASSUME SpineIInv, NEW t \in Token, NEW how \in {"collected", "exited"},
         Ended({t}, how), exec[t].pc # "none"
  PROVE  /\ OnlyMoves(t) /\ exec'[t] = Dead
         /\ unit' \in [Token -> UnitState] /\ unit'[t] = how
         /\ \A u \in Token : u # t => unit'[u] = unit[u]
         /\ worker' = [w \in Worker |-> IF worker[w] = t THEN None ELSE worker[w]]
         /\ worker' \in [Worker -> Token \cup {None}]
         /\ released' \subseteq {w \in Worker : worker'[w] # None}
<1>1. /\ exec' = [u \in Token |-> IF u = t THEN Dead ELSE exec[u]]
      /\ unit' = [u \in Token |-> IF u = t THEN how ELSE unit[u]]
      /\ worker' = [w \in Worker |-> IF worker[w] = t THEN None ELSE worker[w]]
      /\ released' = {w \in released : worker[w] # t}
  BY DEF Ended
<1>2. /\ exec \in [Token -> Process] /\ unit \in [Token -> UnitState]
      /\ worker \in [Worker -> Token \cup {None}]
      /\ released \subseteq {w \in Worker : worker[w] # None}
  BY ExecFact DEF SpineIInv, SpineTypeOK
<1>3. Dead \in Process /\ how \in UnitState
  BY SpineAssumption DEF Dead, Process, ExecStep, UnitState
<1>4. OnlyMoves(t) /\ exec'[t] = Dead
  BY <1>1, <1>2, <1>3 DEF OnlyMoves
<1>5. /\ unit' \in [Token -> UnitState] /\ unit'[t] = how
      /\ \A u \in Token : u # t => unit'[u] = unit[u]
  BY <1>1, <1>2, <1>3
<1>6. /\ worker' \in [Worker -> Token \cup {None}]
      /\ released' \subseteq {w \in Worker : worker'[w] # None}
  BY <1>1, <1>2
<1> QED
  BY <1>1, <1>4, <1>5, <1>6

\* With the process of one token gone, what remains is in order.
LEMMA EndKeeps ==
  ASSUME SpineIInv, NEW t \in Token, NEW how \in {"collected", "exited"},
         Ended({t}, how), exec[t].pc # "none",
         UNCHANGED <<vars, client, lease, pending, carrier, inflight, work, ghosts>>
  PROVE  SpineIInv'
<1>1. /\ UNCHANGED <<vars, client, lease, pending, carrier, inflight, total,
                     served, writer, stray, fenced>>
  BY DEF work, ghosts
<1>2. /\ OnlyMoves(t) /\ exec'[t].pc = "none"
      /\ unit' \in [Token -> UnitState] /\ unit'[t] \in {"collected", "exited"}
      /\ \A u \in Token : u # t => unit'[u] = unit[u]
      /\ worker' = [w \in Worker |-> IF worker[w] = t THEN None ELSE worker[w]]
      /\ worker' \in [Worker -> Token \cup {None}]
      /\ released' \subseteq {w \in Worker : worker'[w] # None}
  BY EndedFact DEF Dead
<1>3. unit[t] = "up" /\ Reserved(t) /\ \A c \in Client : Launching(c) => Held(c) # t
  BY AliveFact
<1>4. SpineTypeOK'
  BY <1>1, <1>2 DEF SpineIInv, SpineTypeOK, OnlyMoves, Process
<1>5. ExecInv' /\ StrayInv' /\ SeenInv'
  <2>1. \A u \in Token : /\ unit'[u] = unit[u] \/ unit'[u] # "none"
                         /\ exec'[u] = exec[u] \/ exec'[u].pc = "none"
    BY <1>2 DEF OnlyMoves
  <2> QED
    BY <1>1, <2>1, ProcessKept DEF ExecInv, StrayInv, SeenInv
<1>6. HostInv'
  <2>1. \A c \in Client : (Launching(c)' <=> Launching(c)) /\ Held(c)' = Held(c)
    BY <1>1 DEF Launching, Held
  <2>2. \A u \in Token : Alive(u)' <=> unit'[u] = "up"
    BY <1>2 DEF SpineIInv, SpineInv, HostInv, Alive, OnlyMoves
  <2>3. \A c \in Client : Launching(c) => Held(c) \in Token /\ Held(c) # t
    BY <1>3 DEF SpineIInv, SpineInv, HostInv
  <2>4. \A u \in carrier : u \in Token
    BY DEF SpineIInv, SpineTypeOK
  <2> QED
    BY <1>1, <1>2, <2>1, <2>2, <2>3, <2>4 DEF SpineIInv, SpineInv, HostInv
<1>7. \A u \in Token : Able(u)' => Able(u)
  BY <1>1, <1>2, <1>3 DEF Able, Working, Launching, Held, OnlyMoves
<1>8. OwnedInv'
  <2>1. ASSUME NEW w \in Worker, worker'[w] # None
        PROVE  /\ worker'[w] = worker[w] /\ worker[w] \in Token
               /\ exec'[worker[w]] = exec[worker[w]]
    <3>1. worker'[w] = worker[w] /\ worker[w] # t
      BY <1>2, <2>1
    <3>2. worker[w] \in Token
      BY <2>1, <3>1 DEF SpineIInv, SpineTypeOK
    <3> QED
      BY <1>2, <3>1, <3>2 DEF OnlyMoves
  <2> QED
    BY <1>1, <2>1 DEF SpineIInv, SpineInv, OwnedInv, vars, Holds, Names
<1>9. TargetInv'
  <2>1. /\ action' = action /\ runs' = runs
        /\ \A u \in Token : Holds(u)' <=> Holds(u)
    BY <1>1 DEF vars, Holds, Names
  <2>2. TargetQuiet => TargetQuiet'
    BY <1>2, <2>1 DEF TargetQuiet
  <2>3. TargetOpen => TargetOpen'
    BY <1>2, <2>1 DEF TargetOpen, OnlyMoves
  <2> QED
    BY <2>1, <2>2, <2>3 DEF SpineIInv, SpineInv, TargetInv
<1>10. \A u \in Token : unit'[u] # unit[u] => Reserved(u)
  BY <1>2, <1>3
<1> QED
  BY <1>1, <1>4, <1>5, <1>6, <1>7, <1>8, <1>9, <1>10, HostStepKeeps

LEMMA ExitKeeps ==
  ASSUME SpineIInv, NEW t \in Token, Exit(t) PROVE SpineIInv'
BY EndKeeps DEF Exit, At

LEMMA CrashKeeps ==
  ASSUME SpineIInv, NEW t \in Token, Crash(t) PROVE SpineIInv'
BY EndKeeps DEF Crash, Alive

\* Of the record only what the slot says of Workers may have changed.
SameMind ==
  /\ Recorded' /\ Steady /\ action' = action
  /\ executor # None =>
       /\ executor'.status = executor.status /\ executor'.run = executor.run
       /\ executor'.closed = executor.closed
       /\ executor'.failure = executor.failure

\* A step that leaves the processes and the host alone.
LEMMA RecordStepKeeps ==
  ASSUME SpineIInv, SpineTypeOK', SameMind,
         UNCHANGED <<client, host, exec, served, stray, fenced>>,
         OwnedInv', ControlIdle', TargetInv', AdmissionInv', WriterInv'
  PROVE  SpineIInv'
<1>1. /\ client' = client /\ lease' = lease /\ unit' = unit /\ pending' = pending
      /\ carrier' = carrier /\ inflight' = inflight /\ exec' = exec
      /\ served' = served /\ stray' = stray /\ fenced' = fenced
  BY DEF host
<1>2. /\ action' = action /\ Steady /\ Recorded'
      /\ executor' # None <=> executor # None
      /\ \A u \in Token : Holds(u)' <=> Holds(u)
      /\ \A u \in Token : Reserved(u)' <=> Reserved(u)
  BY DEF SameMind, Steady
<1>3. Live(executor)' <=> Live(executor)
  BY <1>2 DEF SameMind
<1>4. ASSUME NEW u \in Token, Current(u)' PROVE Current(u)
  <2>1. Holds(u)' /\ Live(executor)'
    BY <1>4 DEF Current, ExecutorCurrent, RequireExecutor, Holds, Names
  <2>2. Holds(u) /\ Live(executor) /\ present /\ executor'.run = executor.run
    BY <1>2, <1>3, <2>1, RecordFact DEF SameMind, SpineIInv, Holds, Names
  <2> QED
    BY <1>1, <1>2, <1>4, <2>1, <2>2
    DEF Current, ExecutorCurrent, RequireExecutor, Holds, Names
<1>5. ExecInv' /\ StrayInv' /\ SeenInv'
  <2>1. ASSUME NEW u \in Token PROVE ExecOk(u)'
    <3>1. ExecOk(u) /\ (Holds(u) => executor'.run = executor.run)
      BY DEF SpineIInv, SpineInv, ExecInv, SameMind, Holds, Names
    <3> QED
      BY <1>1, <1>2, <3>1 DEF ExecOk
  <2>2. ASSUME NEW u \in Token PROVE StrayOk(u)' /\ SeenOk(u)'
    <3>1. StrayOk(u) /\ SeenOk(u)
      BY DEF SpineIInv, SpineInv, StrayInv, SeenInv
    <3> QED
      BY <1>1, <1>4, <3>1 DEF StrayOk, SeenOk
  <2> QED
    BY <2>1, <2>2 DEF ExecInv, StrayInv, SeenInv
<1>6. \A c \in Client : (Launching(c)' <=> Launching(c)) /\ Held(c)' = Held(c)
  BY <1>1 DEF Launching, Held
<1>7. ClientInv' /\ HostInv'
  BY <1>1, <1>6 DEF SpineIInv, SpineInv, ClientInv, HostInv, Alive
<1>8. FreshInv'
  BY <1>1, <1>2, <1>6 DEF SpineIInv, SpineInv, FreshInv
<1>9. SessionInv'
  <2>1. \A u \in Token : Able(u)' <=> Able(u)
    BY <1>1, <1>6 DEF Able, Working
  <2> QED
    BY <1>1, <1>2, <1>3, <2>1 DEF SpineIInv, SpineInv, SessionInv
<1> QED
  BY <1>2, <1>5, <1>7, <1>8, <1>9 DEF SpineIInv, SpineInv, Recorded

LEMMA SameMindIfUnchanged ==
  ASSUME SpineIInv, UNCHANGED vars PROVE SameMind
<1>1. Recorded' /\ Steady
  BY UnchangedRecord, UnchangedIsSteady DEF SpineIInv
<1> QED
  BY <1>1 DEF SameMind, vars

LEMMA ReleaseKeeps ==
  ASSUME SpineIInv, NEW w \in Worker, ReleaseWorker(w) PROVE SpineIInv'
<1>1. /\ UNCHANGED <<vars, client, host, exec, worker, total, served, writer,
                     stray, fenced>>
      /\ released' = released \cup {w} /\ worker[w] # None
  BY DEF ReleaseWorker, work, ghosts
<1>2. SpineTypeOK'
  BY <1>1 DEF SpineIInv, SpineTypeOK, host
<1>3. OwnedInv' /\ ControlIdle' /\ TargetInv' /\ AdmissionInv' /\ WriterInv'
  BY <1>1 DEF SpineIInv, SpineInv, OwnedInv, ControlIdle, TargetInv, AdmissionInv,
     WriterInv, TargetQuiet, TargetOpen, vars, Holds, Names
<1> QED
  BY <1>1, <1>2, <1>3, SameMindIfUnchanged, RecordStepKeeps

LEMMA RegisterKeeps ==
  ASSUME SpineIInv, NEW t \in Token, NEW w \in Worker, RegisterWorker(t, w)
  PROVE  SpineIInv'
<1>1. /\ exec[t].pc = "drive" /\ worker[w] = None
      /\ MarkWorkerStarted(t[1], t[2], w) /\ worker' = [worker EXCEPT ![w] = t]
      /\ UNCHANGED <<client, host, exec, released, total, served, writer, stray,
                     fenced>>
  BY DEF RegisterWorker, At, work, ghosts
<1>2. /\ Holds(t) /\ Live(executor) /\ executor # None
      /\ executor' = [executor EXCEPT !.workers = executor.workers \cup {w}]
  BY <1>1 DEF MarkWorkerStarted, RequireExecutor, Holds, Names
<1>3. /\ Recorded' /\ SameRecord /\ runs' = runs /\ action' = action
      /\ executor'.status = executor.status /\ executor'.run = executor.run
      /\ executor'.closed = executor.closed /\ executor'.failure = executor.failure
      /\ executor'.workers = executor.workers \cup {w}
  BY <1>1, <1>2, WorkerEffect DEF SpineIInv
<1>4. Steady /\ SameMind /\ executor' # None
  BY <1>2, <1>3, SameIsSteady DEF SameMind, Steady
<1>5. /\ worker \in [Worker -> Token \cup {None}] /\ w \notin released
      /\ released \subseteq {v \in Worker : worker[v] # None}
  BY <1>1 DEF SpineIInv, SpineTypeOK
<1>6. /\ worker' \in [Worker -> Token \cup {None}] /\ worker'[w] = t
      /\ \A v \in Worker : v # w => worker'[v] = worker[v]
      /\ released' \subseteq {v \in Worker : worker'[v] # None}
  BY <1>1, <1>5, TokenFact
<1>7. SpineTypeOK'
  BY <1>1, <1>6 DEF SpineIInv, SpineTypeOK, host
<1>8. OwnedInv'
  <2>1. Live(executor)' /\ Holds(t)' /\ exec'[t].pc \in DrivePc
    BY <1>1, <1>2, <1>3, <1>4 DEF Steady, DrivePc
  <2>2. ASSUME NEW v \in Worker, NEW u \in Token, worker'[v] = u
        PROVE  /\ exec'[u].pc \in DrivePc
               /\ \/ Holds(u)' /\ Live(executor)' /\ v \in executor'.workers
                  \/ /\ action' # None /\ Names(action'.target, u)
                     /\ v \in action'.target.workers
    <3>1. CASE v = w
      BY <1>3, <1>6, <2>1, <2>2, <3>1
    <3>2. CASE v # w
      <4>1. worker[v] = u /\ u # None
        BY <1>6, <2>2, <3>2, TokenFact
      <4>2. /\ exec[u].pc \in DrivePc
            /\ \/ Holds(u) /\ Live(executor) /\ v \in executor.workers
               \/ /\ action # None /\ Names(action.target, u)
                  /\ v \in action.target.workers
        BY <4>1 DEF SpineIInv, SpineInv, OwnedInv
      <4>3. Holds(u)' <=> Holds(u)
        BY <1>4 DEF Steady
      <4> QED
        BY <1>1, <1>3, <2>1, <4>2, <4>3
    <3> QED
      BY <3>1, <3>2
  <2> QED
    BY <1>6, <2>2 DEF OwnedInv, Holds
<1>9. action # None /\ action.target = None /\ action.kind \notin ControlKind
  BY <1>1, <1>2, DriveFact
<1>10. ControlIdle' /\ TargetInv'
  BY <1>3, <1>4, <1>9, NoTargetKept DEF ControlIdle
<1>11. AdmissionInv' /\ WriterInv'
  BY <1>1, <1>3, <1>4 DEF SpineIInv, SpineInv, AdmissionInv, WriterInv, Steady
<1> QED
  BY <1>1, <1>4, <1>7, <1>8, <1>10, <1>11, RecordStepKeeps

LEMMA WorkerEndsKeeps ==
  ASSUME SpineIInv, NEW w \in Worker, WorkerEnds(w) PROVE SpineIInv'
<1>1. /\ worker[w] # None /\ worker' = [worker EXCEPT ![w] = None]
      /\ released' = released \ {w}
      /\ UNCHANGED <<client, host, exec, total, served, writer, stray, fenced>>
  BY DEF WorkerEnds, work, ghosts
<1>2. PICK t \in Token : worker[w] = t
  BY <1>1 DEF SpineIInv, SpineTypeOK
<1>3. UNCHANGED vars \/ MarkWorkerFinished(t[1], t[2], w)
  BY <1>2 DEF WorkerEnds
<1>4. /\ SameMind /\ runs' = runs
      /\ executor # None => executor'.workers \in {executor.workers, executor.workers \ {w}}
  <2>1. CASE UNCHANGED vars
    BY <2>1, SameMindIfUnchanged DEF vars
  <2>2. CASE MarkWorkerFinished(t[1], t[2], w)
    <3>1. executor' = [executor EXCEPT !.workers = executor.workers \ {w}]
      BY <2>2 DEF MarkWorkerFinished
    <3>2. /\ Recorded' /\ SameRecord /\ runs' = runs /\ action' = action
          /\ executor'.status = executor.status /\ executor'.run = executor.run
          /\ executor'.closed = executor.closed
          /\ executor'.failure = executor.failure
          /\ executor'.workers = executor.workers \ {w}
      BY <2>2, <3>1, WorkerEffect DEF SpineIInv
    <3> QED
      BY <3>2, SameIsSteady DEF SameMind
  <2> QED
    BY <1>3, <2>1, <2>2
<1>5. /\ Steady /\ action' = action
      /\ executor' # None <=> executor # None
      /\ Live(executor)' <=> Live(executor)
  BY <1>4 DEF SameMind, Steady
<1>6. /\ worker \in [Worker -> Token \cup {None}]
      /\ released \subseteq {v \in Worker : worker[v] # None}
  BY DEF SpineIInv, SpineTypeOK
<1>7. /\ worker' \in [Worker -> Token \cup {None}] /\ worker'[w] = None
      /\ \A v \in Worker : v # w => worker'[v] = worker[v]
      /\ released' \subseteq {v \in Worker : worker'[v] # None}
  BY <1>1, <1>6
<1>8. SpineTypeOK'
  BY <1>1, <1>7 DEF SpineIInv, SpineTypeOK, host
<1>9. OwnedInv'
  <2>1. ASSUME NEW v \in Worker, NEW u \in Token, worker'[v] = u
        PROVE  /\ exec'[u].pc \in DrivePc
               /\ \/ Holds(u)' /\ Live(executor)' /\ v \in executor'.workers
                  \/ /\ action' # None /\ Names(action'.target, u)
                     /\ v \in action'.target.workers
    <3>1. worker[v] = u /\ u # None /\ v # w
      BY <1>7, <2>1, TokenFact
    <3>2. /\ exec[u].pc \in DrivePc
          /\ \/ Holds(u) /\ Live(executor) /\ v \in executor.workers
             \/ /\ action # None /\ Names(action.target, u)
                /\ v \in action.target.workers
      BY <3>1 DEF SpineIInv, SpineInv, OwnedInv
    <3>3. Holds(u)' <=> Holds(u)
      BY <1>5 DEF Steady
    <3>4. v \in executor.workers /\ executor # None => v \in executor'.workers
      BY <1>4, <3>1
    <3> QED
      BY <1>1, <1>5, <3>2, <3>3, <3>4
  <2> QED
    BY <1>7, <2>1 DEF OwnedInv, Holds
<1>10. ControlIdle'
  BY <1>4, <1>5 DEF SpineIInv, SpineInv, ControlIdle
<1>11. TargetInv'
  <2>1. TargetQuiet => TargetQuiet'
    BY <1>5, <1>7 DEF TargetQuiet
  <2>2. TargetOpen => TargetOpen'
    <3>1. \A u \in Token : Holds(u)' <=> Holds(u)
      BY <1>5 DEF Steady
    <3> QED
      BY <1>1, <1>4, <1>5, <3>1 DEF TargetOpen
  <2> QED
    BY <1>5, <2>1, <2>2 DEF SpineIInv, SpineInv, TargetInv
<1>12. AdmissionInv' /\ WriterInv'
  BY <1>1, <1>4, <1>5 DEF SpineIInv, SpineInv, AdmissionInv, WriterInv, SameMind
<1> QED
  BY <1>1, <1>4, <1>8, <1>9, <1>10, <1>11, <1>12, RecordStepKeeps

LEMMA AcceptKeeps ==
  ASSUME SpineIInv, NEW r \in RunId, AcceptTicketResume(r) PROVE SpineIInv'
<1>1. /\ executor # None /\ action.status = "completed" /\ ~executor.closed
      /\ total[r] < MaxResumes /\ total' = [total EXCEPT ![r] = @ + 1]
      /\ SaveRun(executor.id, executor.gen, r, "active")
      /\ writer' = executor.gen
      /\ UNCHANGED <<client, host, exec, worker, released, served, stray, fenced>>
  BY DEF AcceptTicketResume, procs
<1>2. PICK t \in Token : t = TokenOf(executor)
  BY <1>1, SlotToken DEF SpineIInv
<1>3. /\ t[1] = executor.id /\ t[2] = executor.gen /\ action # None
      /\ executor.gen = action.gen
  BY <1>1, <1>2, SlotToken DEF TokenOf, SpineIInv
<1>4. Recorded' /\ UNCHANGED <<record, issued>>
  <2>1. "active" \in RunStatus \ {"none"}
    BY DEF RunStatus
  <2>2. SaveRun(t[1], t[2], r, "active")
    BY <1>1, <1>3
  <2> QED
    BY <2>1, <2>2, SaveEffect DEF SpineIInv
<1>5. SameMind /\ action' = action /\ executor' = executor
  BY <1>4, SameIsSteadyToo DEF SameMind, record
<1>6. SpineTypeOK'
  <2>1. total' \in [RunId -> 0..MaxResumes]
    <3>1. total[r] + 1 \in 0..MaxResumes /\ total \in [RunId -> 0..MaxResumes]
      BY <1>1, SpineAssumption DEF SpineIInv, SpineTypeOK
    <3> QED
      BY <1>1, <3>1
  <2>2. writer' \in 0..MaxGeneration
    BY <1>1, <1>3, TokenFact, ConstantsAssumption
  <2> QED
    BY <1>1, <2>1, <2>2 DEF SpineIInv, SpineTypeOK, host
<1>7. OwnedInv' /\ ControlIdle'
  BY <1>1, <1>5 DEF SpineIInv, SpineInv, OwnedInv, ControlIdle, Holds, Names
<1>8. TargetInv'
  BY <1>1, <1>5 DEF SpineIInv, SpineInv, TargetInv, TargetOpen, TargetQuiet
<1>9. AdmissionInv'
  BY <1>1, <1>5 DEF AdmissionInv
<1>10. WriterInv'
  BY <1>1, <1>3, <1>5, RecordFact DEF WriterInv, SpineIInv, Action
<1> QED
  BY <1>1, <1>5, <1>6, <1>7, <1>8, <1>9, <1>10, RecordStepKeeps

\* The target of a control Action is a token of an older Action.
LEMMA TargetFact ==
  ASSUME Recorded, action # None, action.target # None
  PROVE  /\ TokenOf(action.target) \in Token
         /\ action.target.gen < action.gen
         /\ ~Holds(TokenOf(action.target))
<1>1. action \in Action /\ action.target \in Executor /\ action.gen <= MaxGeneration
  BY RecordFact DEF Recorded, RecordInv, Action
<1>2. action.target.gen < action.gen
  BY DEF Recorded, OwnershipInv, GenerationsSpent
<1>3. /\ action.target.id \in ActionId
      /\ action.target.gen \in Nat \ {0} /\ action.gen \in Nat
  BY <1>1 DEF Action, Executor
<1>4. action.target.gen \in 1..MaxGeneration
  BY <1>1, <1>2, <1>3, ConstantsAssumption
<1>5. executor # None => executor.gen = action.gen
  BY SlotFact DEF Recorded
<1> QED
  BY <1>2, <1>3, <1>4, <1>5 DEF Token, TokenOf, Holds, Names

\* The Workers of the target that are still alive.
LiveOfTarget == {w \in action.target.workers : worker[w] # None}

\* A Worker of the target that still lives is one the target registered.
LEMMA TargetWorkers ==
  ASSUME SpineIInv, action # None, action.target # None,
         NEW w \in Worker, worker[w] = TokenOf(action.target)
  PROVE  w \in LiveOfTarget
<1>1. TokenOf(action.target) \in Token /\ ~Holds(TokenOf(action.target))
  BY TargetFact DEF SpineIInv
<1>2. worker[w] # None /\ ~Holds(worker[w])
  BY <1>1, TokenFact
<1> QED
  BY <1>2 DEF SpineIInv, SpineInv, OwnedInv, LiveOfTarget

LEMMA TerminateKeeps ==
  ASSUME SpineIInv, NEW t \in Token, Terminate(t) PROVE SpineIInv'
<1> DEFINE live == LiveOfTarget
<1>1. /\ exec[t].pc = "terminate" /\ Current(t) /\ Holds(t) /\ action # None
      /\ UNCHANGED vars
      /\ UNCHANGED <<vars, client, lease, pending, carrier, inflight, total,
                     served, writer, stray, fenced>>
  BY CurrentHolds, RecordFact
  DEF Terminate, At, work, ghosts, Holds, Names, SpineIInv
<1>2. stray[t] = 0 /\ ExecOk(t)
  BY <1>1 DEF SpineIInv, SpineInv, StrayInv, StrayOk, ExecInv
<1>3. CASE action.target = None
  <2>1. Step(t, "outcome") /\ UNCHANGED <<unit, worker, released>>
    BY <1>3 DEF Terminate
  <2>2. OnlyMoves(t) /\ exec'[t].pc = "outcome" /\ exec'[t].run = exec[t].run
    BY <2>1, StepFact DEF ExecStep, SpineIInv
  <2>3. ExecOk(t)'
    BY <1>1, <1>2, <2>2, SameFence DEF ExecOk, RunPc, ExecStep, ControlPc, BoundPc
  <2>4. StrayOk(t)' /\ SeenOk(t)' /\ Working(t) /\ exec[t].pc \notin DrivePc
    BY <1>1, <1>2, <2>2 DEF StrayOk, SeenOk, Working, DrivePc
  <2>5. stray' \in [Token -> Nat] /\ \A u \in Token : u # t => stray'[u] = stray[u]
    BY <1>1 DEF SpineIInv, SpineTypeOK
  <2> QED
    BY <1>1, <1>3, <2>1, <2>2, <2>3, <2>4, <2>5, PlainStep
<1>4. CASE action.target # None
  <2>1. PICK u \in Token : u = TokenOf(action.target)
    BY <1>1, <1>4, TargetFact DEF SpineIInv
  <2>2. u # t
    BY <1>1, <1>4, <2>1, TargetFact DEF SpineIInv
  <2>3. PICK killed :
          /\ killed = IF live # {} THEN live
                      ELSE IF Alive(u) THEN WorkersOf(u) ELSE {}
          /\ exec' = [exec EXCEPT ![t].pc = "outcome",
                        ![u] = IF live = {} THEN Dead ELSE @]
          /\ unit' = IF live = {} /\ Alive(u) THEN [unit EXCEPT ![u] = "exited"]
                     ELSE unit
          /\ worker' = [w \in Worker |-> IF w \in killed THEN None ELSE worker[w]]
          /\ released' = released \ killed
    BY <1>4, <2>1 DEF Terminate, LiveOfTarget
  <2>4. /\ exec \in [Token -> Process] /\ unit \in [Token -> UnitState]
        /\ worker \in [Worker -> Token \cup {None}]
        /\ released \subseteq {w \in Worker : worker[w] # None}
    BY ExecFact DEF SpineIInv, SpineTypeOK
  <2>5. /\ exec' \in [Token -> Process]
        /\ exec'[t].pc = "outcome" /\ exec'[t].run = exec[t].run
        /\ exec'[u] = IF live = {} THEN Dead ELSE exec[u]
        /\ \A v \in Token : v # t /\ v # u => exec'[v] = exec[v]
    <3>1. Dead \in Process
      BY SpineAssumption DEF Dead, Process, ExecStep
    <3> HIDE DEF live
    <3> QED
      BY <2>2, <2>3, <2>4, <3>1 DEF Process, ExecStep
  <2>6. /\ unit' \in [Token -> UnitState]
        /\ unit'[u] = IF live = {} /\ Alive(u) THEN "exited" ELSE unit[u]
        /\ \A v \in Token : v # u => unit'[v] = unit[v]
    BY <2>3, <2>4 DEF UnitState
  <2>7. /\ worker' \in [Worker -> Token \cup {None}]
        /\ \A w \in Worker : worker'[w] # None => worker'[w] = worker[w] /\ w \notin killed
        /\ released' \subseteq {w \in Worker : worker'[w] # None}
    BY <2>3, <2>4
  <2>8. \A w \in Worker : worker'[w] # None => worker'[w] # u /\ worker'[w] # t
    <3>1. ASSUME NEW w \in Worker, worker'[w] = u PROVE FALSE
      <4>1. worker[w] = u /\ w \notin killed
        BY <2>7, <3>1, TokenFact
      <4>2. w \in live
        BY <1>1, <1>4, <2>1, <4>1, TargetWorkers
      <4> QED
        BY <2>3, <4>1, <4>2
    <3>2. ASSUME NEW w \in Worker, worker'[w] = t PROVE FALSE
      <4>1. worker[w] = t
        BY <2>7, <3>2, TokenFact
      <4> QED
        BY <1>1, <4>1, TokenFact DEF SpineIInv, SpineInv, OwnedInv, DrivePc
    <3> QED
      BY <3>1, <3>2
  <2>9. SpineTypeOK'
    BY <1>1, <2>5, <2>6, <2>7 DEF SpineIInv, SpineTypeOK, Process
  <2>10. ExecInv' /\ StrayInv' /\ SeenInv'
    <3>1. ExecOk(t)'
      BY <1>1, <1>2, <2>5, SameFence DEF ExecOk, RunPc, ExecStep, ControlPc, BoundPc
    <3>2. StrayOk(t)' /\ SeenOk(t)'
      BY <1>1, <1>2, <2>5 DEF StrayOk, SeenOk
    <3>3. ASSUME NEW v \in Token, v # t PROVE ExecOk(v)' /\ StrayOk(v)' /\ SeenOk(v)'
      <4>1. /\ unit'[v] = unit[v] \/ unit'[v] # "none"
            /\ exec'[v] = exec[v] \/ exec'[v].pc = "none"
        BY <2>5, <2>6, <3>3 DEF Dead
      <4> QED
        BY <1>1, <4>1, ProcessKept
    <3> QED
      BY <3>1, <3>2, <3>3 DEF ExecInv, StrayInv, SeenInv
  <2>11. \A v \in Token : Alive(v)' <=> unit'[v] = "up"
    <3>1. \A v \in Token : Alive(v) <=> unit[v] = "up"
      BY DEF SpineIInv, SpineInv, HostInv
    <3>2. exec[t].pc # "none" /\ exec'[t].pc # "none" /\ unit'[t] = unit[t]
      BY <1>1, <2>2, <2>5, <2>6
    <3>3. exec'[u].pc # "none" <=> unit'[u] = "up"
      <4>1. CASE live = {}
        BY <2>5, <2>6, <3>1, <4>1 DEF Alive, Dead
      <4>2. CASE live # {}
        BY <2>5, <2>6, <3>1, <4>2 DEF Alive
      <4> QED
        BY <4>1, <4>2
    <3> QED
      BY <2>5, <2>6, <3>1, <3>2, <3>3 DEF Alive
  <2>12. \A v \in Token : /\ unit'[v] = "none" <=> unit[v] = "none"
                          /\ unit'[v] # unit[v] => Reserved(v) /\ unit[v] = "up"
    BY <2>6, AliveFact DEF Alive
  <2>13. \A c \in Client : (Launching(c)' <=> Launching(c)) /\ Held(c)' = Held(c)
    BY <1>1 DEF Launching, Held
  <2>14. HostInv'
    <3>1. \A c \in Client : Launching(c) => Held(c) \in Token
      BY DEF SpineIInv, SpineInv, HostInv
    <3>2. \A v \in carrier : v \in Token
      BY DEF SpineIInv, SpineTypeOK
    <3> QED
      BY <1>1, <2>11, <2>12, <2>13, <3>1, <3>2 DEF SpineIInv, SpineInv, HostInv
  <2>15. ASSUME NEW v \in Token, Able(v)' PROVE Able(v)
    <3>1. Working(v)' => Working(v)
      BY <1>1, <2>5 DEF Working, Dead
    <3> QED
      BY <1>1, <2>12, <2>13, <2>15, <3>1 DEF Able
  <2>16. OwnedInv'
    <3>1. ASSUME NEW w \in Worker, worker'[w] # None
          PROVE  /\ worker'[w] = worker[w] /\ worker[w] \in Token
                 /\ exec'[worker[w]] = exec[worker[w]]
      BY <2>4, <2>5, <2>7, <2>8, <3>1
    <3> QED
      BY <1>1, <3>1 DEF SpineIInv, SpineInv, OwnedInv, vars, Holds, Names
  <2>17. TargetInv'
    <3>1. action' = action
      BY <1>1 DEF vars
    <3>2. ASSUME NEW v \in Token, Names(action.target, v) PROVE v = u
      BY <2>1, <3>2, NamesFact
    <3>3. TargetQuiet'
      BY <2>7, <2>8, <3>1, <3>2 DEF TargetQuiet
    <3> QED
      BY <3>3 DEF TargetInv
  <2> QED
    BY <1>1, <2>9, <2>10, <2>12, <2>14, <2>15, <2>16, <2>17, HostStepKeeps
<1> QED
  BY <1>3, <1>4

-----------------------------------------------------------------------------
(* The steps of commands.                                                  *)

Command == [pc: ClientStep, kind: Kind \cup {None}, payload: Payload \cup {None},
            id: ActionId \cup {None}, gen: 0..MaxGeneration,
            run: RunId \cup {None}]

ClientOk(c) ==
  client[c].pc # "idle" =>
    /\ client[c].kind \in Kind /\ client[c].payload \in Payload
    /\ PayloadRun[client[c].payload] = None <=> client[c].kind = "run"
    /\ client[c].pc \notin {"submit", "admit"} => client[c].id \in ActionId

\* No command but c moves.
OnlyCommand(c) ==
  /\ client' \in [Client -> Command]
  /\ \A d \in Client : d # c => client'[d] = client[d]

\* The command c takes a step outside of a launch.
Talks(c) ==
  /\ OnlyCommand(c) /\ ~Launching(c) /\ ~Launching(c)' /\ ClientOk(c)'
  /\ UNCHANGED <<lease, unit, carrier, inflight, exec, worker, released, total,
                 served, writer, stray>>
  /\ fenced \subseteq fenced' /\ fenced' \subseteq Token
  /\ pending' \subseteq pending
  /\ \A u \in pending : u \in pending' \/ unit[u] # "none"

LEMMA CommandFact ==
  ASSUME SpineTypeOK PROVE client \in [Client -> Command]
BY DEF SpineTypeOK, Command

LEMMA GotoFact ==
  ASSUME SpineIInv, NEW c \in Client, NEW pc \in ClientStep, Goto(c, pc),
         client[c].pc # "idle",
         client[c].pc \in {"submit", "admit"} => pc \in {"idle", "submit", "admit"}
  PROVE  /\ OnlyCommand(c) /\ ClientOk(c)' /\ client'[c].pc = pc
         /\ client'[c].id = client[c].id /\ client'[c].gen = client[c].gen
         /\ client'[c].run = client[c].run
<1>1. client \in [Client -> Command] /\ client' = [client EXCEPT ![c].pc = pc]
  BY CommandFact DEF Goto, SpineIInv
<1>2. /\ OnlyCommand(c) /\ client'[c].pc = pc
      /\ client'[c].id = client[c].id /\ client'[c].gen = client[c].gen
      /\ client'[c].run = client[c].run
      /\ client'[c].kind = client[c].kind /\ client'[c].payload = client[c].payload
  BY <1>1 DEF OnlyCommand, Command
<1>3. ClientOk(c)
  BY DEF SpineIInv, SpineInv, ClientInv, ClientOk
<1> QED
  BY <1>2, <1>3 DEF ClientOk

\* What a step of a command outside of a launch leaves as it is.
LEMMA TalksHost ==
  ASSUME SpineIInv, NEW c \in Client, Talks(c)
  PROVE  /\ ClientInv' /\ HostInv' /\ SpineTypeOK'
         /\ \A u \in Token : Able(u)' <=> Able(u)
         /\ \A d \in Client : /\ Launching(d)' <=> Launching(d)
                              /\ Launching(d) => Held(d)' = Held(d)
<1>1. /\ client' \in [Client -> Command] /\ ~Launching(c) /\ ~Launching(c)'
      /\ \A d \in Client : d # c => client'[d] = client[d]
      /\ ClientOk(c)'
      /\ UNCHANGED <<lease, unit, carrier, inflight, exec, worker, released, total,
                     served, writer, stray>>
      /\ fenced' \subseteq Token /\ pending' \subseteq pending
      /\ \A u \in pending : u \in pending' \/ unit[u] # "none"
  BY DEF Talks, OnlyCommand
<1>2. ClientInv'
  <2>1. ASSUME NEW d \in Client PROVE ClientOk(d)'
    BY <1>1 DEF ClientOk, SpineIInv, SpineInv, ClientInv
  <2> QED
    BY <2>1 DEF ClientInv, ClientOk
<1>3. \A d \in Client : /\ Launching(d)' <=> Launching(d)
                        /\ Launching(d) => Held(d)' = Held(d)
  BY <1>1 DEF Launching, Held
<1>4. HostInv'
  BY <1>1, <1>3 DEF SpineIInv, SpineInv, HostInv, Alive
<1>5. SpineTypeOK'
  BY <1>1 DEF SpineIInv, SpineTypeOK, Command
<1>6. \A u \in Token : Able(u)' <=> Able(u)
  BY <1>1, <1>3 DEF Able, Working
<1> QED
  BY <1>2, <1>3, <1>4, <1>5, <1>6

\* What such a step may do to the record it read.
Settles ==
  /\ Recorded' /\ Steady
  /\ Live(executor)' => Live(executor)
  /\ \A u \in Token : Current(u)' => Current(u)
  /\ executor # None =>
       /\ executor'.workers = executor.workers
       /\ executor'.closed = executor.closed
       /\ executor.run \in {None, executor'.run}
       /\ executor'.failure \in {"failed", "session_interrupted", executor.failure}
  /\ action # None =>
       /\ action.run \in {None, action'.run}
       /\ Live(executor) => action'.run = action.run /\ executor'.run = executor.run
  /\ action # None /\ action.target # None =>
       TargetQuiet
         \/ (TargetOpen => /\ action'.status # "completed"
                           /\ runs'[action'.run].status \notin ClosedRun)

LEMMA SettlesProcesses ==
  ASSUME SpineIInv, Settles, UNCHANGED <<exec, unit, stray, served>>
  PROVE  ExecInv' /\ StrayInv' /\ SeenInv'
<1>1. exec' = exec /\ unit' = unit /\ stray' = stray /\ served' = served
  OBVIOUS
<1>2. ASSUME NEW u \in Token PROVE StrayOk(u)' /\ SeenOk(u)'
  <2>1. StrayOk(u) /\ SeenOk(u) /\ (Current(u)' => Current(u))
    BY DEF SpineIInv, SpineInv, StrayInv, SeenInv, Settles
  <2> QED
    BY <1>1, <2>1 DEF StrayOk, SeenOk
<1>3. ASSUME NEW u \in Token PROVE ExecOk(u)'
  <2>1. ExecOk(u) /\ (Holds(u)' <=> Holds(u))
    BY DEF SpineIInv, SpineInv, ExecInv, Settles, Steady
  <2>2. CASE ~Holds(u)
    BY <1>1, <2>1, <2>2 DEF ExecOk
  <2>3. CASE Holds(u)
    <3>1. /\ action # None /\ executor # None /\ action'.kind = action.kind
          /\ action.run \in {None, action'.run}
          /\ executor.run \in {None, executor'.run}
      BY <2>3, RecordFact DEF Holds, Names, SpineIInv, Settles, Steady
    <3>2. exec[u].pc \in {"start", "shake"} => action'.run = action.run
      <4>1. exec[u].pc \in {"start", "shake"} => Able(u)
        BY DEF Able, Working
      <4>2. Able(u) => Live(executor)
        BY <2>3 DEF SpineIInv, SpineInv, SessionInv
      <4> QED
        BY <3>1, <4>1, <4>2 DEF Settles
    <3>3. exec[u].pc \in BoundPc => exec[u].run \in RunId
      BY <2>1 DEF ExecOk, BoundPc, RunPc, ExecStep
    <3>4. exec[u].pc \in BoundPc =>
            action'.run = exec[u].run /\ executor'.run = exec[u].run
      BY <2>1, <2>3, <3>1, <3>3, ConstantsAssumption DEF ExecOk
    <3> QED
      BY <1>1, <2>1, <2>3, <3>1, <3>2, <3>4 DEF ExecOk
  <2> QED
    BY <2>2, <2>3
<1> QED
  BY <1>2, <1>3 DEF ExecInv, StrayInv, SeenInv

\* A step that settles what it found, with nobody left to be surprised.
LEMMA SettleKeeps ==
  ASSUME SpineIInv, SpineTypeOK', Settles,
         UNCHANGED <<exec, unit, worker, total, served, writer, stray>>,
         fenced \subseteq fenced', ClientInv', HostInv', FreshInv',
         \A u \in Token : Able(u)' => Able(u),
         Live(executor) =>
           \/ Live(executor)'
           \/ /\ \A u \in Token : Able(u)' => ~Holds(u)
              /\ \A w \in Worker : worker[w] # None => ~Holds(worker[w])
  PROVE  SpineIInv'
<1>2. /\ UNCHANGED <<exec, unit, stray, served>>
      /\ unit' = unit /\ exec' = exec /\ worker' = worker /\ served' = served
      /\ total' = total /\ writer' = writer /\ stray' = stray
  OBVIOUS
<1>3. ExecInv' /\ StrayInv' /\ SeenInv'
  BY <1>2, SettlesProcesses
<1>4. Recorded' /\ Steady
  BY DEF Settles
<1>6. SessionInv'
  <2>1. ASSUME NEW u \in Token, Able(u)', Holds(u)' PROVE Live(executor)'
    <3>1. Able(u) /\ Holds(u) /\ Live(executor)
      BY <1>4, <2>1 DEF Steady, SpineIInv, SpineInv, SessionInv
    <3> QED
      BY <2>1, <3>1
  <2>2. \A u \in Token : Able(u)' => u \in fenced' \/ Holds(u)'
    BY <1>4 DEF Steady, SpineIInv, SpineInv, SessionInv
  <2> QED
    BY <2>1, <2>2 DEF SessionInv
<1>7. /\ action' # None <=> action # None
      /\ action # None => /\ action'.gen = action.gen /\ action'.kind = action.kind
                          /\ action'.target = action.target
      /\ executor' # None <=> executor # None
      /\ \A u \in Token : Holds(u)' <=> Holds(u)
  BY <1>4 DEF Steady
<1>8. WriterInv' /\ ControlIdle' /\ AdmissionInv'
  <2>1. WriterInv'
    BY <1>2, <1>7 DEF SpineIInv, SpineInv, WriterInv
  <2>2. ControlIdle'
    <3>1. executor # None => action # None /\ executor'.workers = executor.workers
      BY RecordFact DEF SpineIInv, Settles
    <3> QED
      BY <1>7, <3>1 DEF SpineIInv, SpineInv, ControlIdle
  <2>3. AdmissionInv'
    <3>1. SUFFICES ASSUME executor # None, executor'.closed
                   PROVE  /\ executor'.run \in RunId
                          /\ executor'.failure = "none" =>
                               served'[executor'.run] = total'[executor'.run]
      BY <1>7 DEF AdmissionInv
    <3>2. /\ executor.run \in RunId
          /\ executor.failure = "none" => served[executor.run] = total[executor.run]
      BY <3>1 DEF Settles, SpineIInv, SpineInv, AdmissionInv
    <3>3. executor'.run = executor.run
      BY <3>1, <3>2, ConstantsAssumption DEF Settles
    <3> QED
      BY <1>2, <3>1, <3>2, <3>3 DEF Settles
  <2> QED
    BY <2>1, <2>2, <2>3
<1>9. OwnedInv'
  <2>1. ASSUME NEW w \in Worker, NEW u \in Token, worker[w] = u
        PROVE  /\ exec'[u].pc \in DrivePc
               /\ \/ Holds(u)' /\ Live(executor)' /\ w \in executor'.workers
                  \/ /\ action' # None /\ Names(action'.target, u)
                     /\ w \in action'.target.workers
    <3>1. /\ exec[u].pc \in DrivePc
          /\ \/ Holds(u) /\ Live(executor) /\ w \in executor.workers
             \/ /\ action # None /\ Names(action.target, u)
                /\ w \in action.target.workers
      BY <2>1, TokenFact DEF SpineIInv, SpineInv, OwnedInv
    <3>2. Holds(u) => Live(executor)' \/ ~Live(executor)
      BY <2>1, TokenFact
    <3>3. Holds(u) => executor'.workers = executor.workers
      BY DEF Settles, Holds, Names
    <3> QED
      BY <1>2, <1>7, <3>1, <3>2, <3>3
  <2>2. worker \in [Worker -> Token \cup {None}]
    BY DEF SpineIInv, SpineTypeOK
  <2> QED
    BY <1>2, <2>1, <2>2 DEF OwnedInv
<1>10. TargetInv'
  <2>1. SUFFICES ASSUME action # None, action.target # None
                 PROVE  (TargetQuiet \/ TargetOpen)'
    BY <1>7 DEF TargetInv
  <2>2. TargetQuiet => TargetQuiet'
    BY <1>2, <1>7, <2>1 DEF TargetQuiet
  <2>3. CASE ~TargetQuiet
    <3>1. /\ TargetOpen /\ action'.status # "completed"
          /\ runs'[action'.run].status \notin ClosedRun
      BY <2>1, <2>3 DEF SpineIInv, SpineInv, TargetInv, Settles
    <3> QED
      BY <1>2, <1>7, <3>1 DEF TargetOpen
  <2> QED
    BY <2>2, <2>3
<1> QED
  BY <1>3, <1>4, <1>6, <1>8, <1>9, <1>10 DEF SpineIInv, SpineInv, Recorded

\* A command that settles what it found outside of a launch.
LEMMA TalkKeeps ==
  ASSUME SpineIInv, NEW c \in Client, Talks(c), Settles,
         Live(executor) =>
           \/ Live(executor)'
           \/ /\ \A u \in Token : Able(u) => ~Holds(u)
              /\ \A w \in Worker : worker[w] # None => ~Holds(worker[w])
  PROVE  SpineIInv'
<1>1. /\ ClientInv' /\ HostInv' /\ SpineTypeOK'
      /\ \A u \in Token : Able(u)' <=> Able(u)
      /\ \A d \in Client : /\ Launching(d)' <=> Launching(d)
                           /\ Launching(d) => Held(d)' = Held(d)
  BY TalksHost
<1>2. /\ UNCHANGED <<exec, unit, worker, total, served, writer, stray>>
      /\ fenced \subseteq fenced' /\ unit' = unit /\ carrier' = carrier
      /\ inflight' = inflight /\ stray' = stray /\ pending' \subseteq pending
  BY DEF Talks
<1>3. FreshInv'
  <2>1. \A u \in Token : Reserved(u)' <=> Reserved(u)
    BY DEF Settles, Steady
  <2> QED
    BY <1>1, <1>2, <2>1 DEF SpineIInv, SpineInv, FreshInv
<1> QED
  BY <1>1, <1>2, <1>3, SettleKeeps

\* A command that only reads.
LEMMA SettlesIfUnchanged ==
  ASSUME SpineIInv, UNCHANGED <<vars, exec>> PROVE Settles
<1>1. Recorded' /\ Steady
  BY UnchangedRecord, UnchangedIsSteady DEF SpineIInv
<1>2. \A u \in Token : Current(u)' => Current(u)
  BY SameFence
<1> QED
  BY <1>1, <1>2 DEF Settles, vars, TargetOpen

LEMMA ReadKeeps ==
  ASSUME SpineIInv, NEW c \in Client, Talks(c), UNCHANGED vars
  PROVE  SpineIInv'
<1>1. UNCHANGED <<vars, exec>>
  BY DEF Talks
<1>2. Settles /\ executor' = executor
  BY <1>1, SettlesIfUnchanged DEF vars
<1> QED
  BY <1>2, TalkKeeps

\* A command in the middle of its work steps on: the host is as it was.
LEMMA GotoTalks ==
  ASSUME SpineIInv, NEW c \in Client, NEW pc \in ClientStep \ {"reserved", "launch"},
         Goto(c, pc), client[c].pc \notin {"idle", "reserved", "launch"},
         client[c].pc \in {"submit", "admit"} => pc \in {"idle", "submit", "admit"},
         UNCHANGED <<lease, unit, carrier, inflight, procs, work, ghosts>>,
         pending' \subseteq pending,
         \A u \in pending : u \in pending' \/ unit[u] # "none"
  PROVE  Talks(c)
<1>1. OnlyCommand(c) /\ ClientOk(c)' /\ client'[c].pc = pc
  BY GotoFact
<1>2. ~Launching(c) /\ ~Launching(c)'
  BY <1>1 DEF Launching
<1>3. UNCHANGED <<lease, unit, carrier, inflight, exec, worker, released, total,
                  served, writer, stray, fenced>>
  BY DEF procs, work, ghosts
<1>4. fenced \subseteq fenced' /\ fenced' \subseteq Token
  BY <1>3 DEF SpineIInv, SpineTypeOK
<1> QED
  BY <1>1, <1>2, <1>3, <1>4 DEF Talks

LEMMA SubmitKeeps ==
  ASSUME SpineIInv, NEW c \in Client, NEW k \in Kind, NEW p \in Payload,
         Submit(c, k, p)
  PROVE  SpineIInv'
<1>1. /\ client[c].pc = "idle" /\ (PayloadRun[p] = None <=> k = "run")
      /\ client' = [client EXCEPT ![c] = [Idle EXCEPT !.pc = "submit", !.kind = k,
                                                      !.payload = p]]
      /\ UNCHANGED <<vars, lease, unit, pending, carrier, inflight, exec, worker,
                     released, total, served, writer, stray, fenced>>
  BY DEF Submit, host, procs, work, ghosts
<1>2. client \in [Client -> Command]
  BY CommandFact DEF SpineIInv
<1>3. Idle \in Command
  BY ConstantsAssumption DEF Idle, Command, ClientStep
<1>4. /\ [Idle EXCEPT !.pc = "submit", !.kind = k, !.payload = p] \in Command
      /\ [Idle EXCEPT !.pc = "submit", !.kind = k, !.payload = p].pc = "submit"
      /\ [Idle EXCEPT !.pc = "submit", !.kind = k, !.payload = p].kind = k
      /\ [Idle EXCEPT !.pc = "submit", !.kind = k, !.payload = p].payload = p
  BY <1>3 DEF Command, ClientStep
<1>5. /\ OnlyCommand(c) /\ client'[c].pc = "submit" /\ client'[c].kind = k
      /\ client'[c].payload = p
  BY <1>1, <1>2, <1>4 DEF OnlyCommand
<1>6. ClientOk(c)' /\ ~Launching(c) /\ ~Launching(c)'
  BY <1>1, <1>5 DEF ClientOk, Launching
<1>7. fenced \subseteq fenced' /\ fenced' \subseteq Token
  BY <1>1 DEF SpineIInv, SpineTypeOK
<1>8. Talks(c)
  BY <1>1, <1>5, <1>6, <1>7 DEF Talks
<1> QED
  BY <1>1, <1>8, ReadKeeps

LEMMA CheckKeeps ==
  ASSUME SpineIInv, NEW c \in Client, Check(c) PROVE SpineIInv'
<1>1. /\ client[c].pc = "submit" /\ Goto(c, "admit")
      /\ UNCHANGED vars
      /\ UNCHANGED <<lease, unit, carrier, inflight, procs, work, ghosts>>
      /\ pending' = pending
  BY DEF Check, host
<1>2. Talks(c)
  BY <1>1, GotoTalks DEF ClientStep
<1> QED
  BY <1>1, <1>2, ReadKeeps

\* The Run a request is about is a Run of the task, or none.
LEMMA SubjectFact ==
  ASSUME SpineIInv, NEW c \in Client, client[c].pc # "idle"
  PROVE  Req(c) \in RunId \cup {None} /\ Subject(c) \in RunId \cup {None}
<1>1. client[c].payload \in Payload /\ client[c].run \in RunId \cup {None}
  BY DEF SpineIInv, SpineInv, ClientInv, SpineTypeOK
<1>2. Req(c) \in RunId \cup {None}
  BY <1>1, ConstantsAssumption DEF Req, CurrentRun
<1> QED
  BY <1>1, <1>2 DEF Subject

\* Where no unit of t runs and none is on its way, nothing of t is left.
LEMMA GoneFact ==
  ASSUME SpineIInv, NEW t \in Token, lease = None, UnitGone(t)
  PROVE  /\ ~Able(t)
         /\ \A w \in Worker : worker[w] # t
<1>1. unit[t] # "up" /\ exec[t].pc = "none"
  BY DEF UnitGone, Exited, Unlaunched, SpineIInv, SpineInv, HostInv, Alive
<1>2. \A c \in Client : ~Launching(c)
  BY SpineAssumption DEF SpineIInv, SpineInv, HostInv
<1>3. ~(unit[t] = "none" /\ t \in carrier)
  BY DEF UnitGone, Exited, Unlaunched, SpineIInv, SpineInv, HostInv
<1>4. \A w \in Worker : worker[w] # t
  BY <1>1, TokenFact DEF SpineIInv, SpineInv, OwnedInv, DrivePc
<1> QED
  BY <1>1, <1>2, <1>3, <1>4 DEF Able, Working

\* The recorded end of an Executor that is gone surprises nobody.
LEMMA HostExitKeeps ==
  ASSUME SpineIInv, NEW c \in Client, NEW pc \in {"decide", "idle"},
         client[c].pc \in {"inspect", "wait"}, RecordHostExit(c, pc)
  PROVE  SpineIInv'
<1> DEFINE t == Held(c)
<1>1. /\ lease = None /\ UnitGone(t) /\ pending' = pending \ {t}
      /\ UNCHANGED <<lease, unit, carrier, inflight, procs, work, ghosts>>
  BY DEF RecordHostExit
<1>2. PICK p \in {"decide", "idle"} : Goto(c, p)
  BY DEF RecordHostExit
<1>3. \A u \in pending : u \in pending' \/ unit[u] # "none"
  BY <1>1 DEF UnitGone, Exited, Unlaunched
<1>4. Talks(c)
  BY <1>1, <1>2, <1>3, GotoTalks DEF ClientStep
<1>5. CASE UNCHANGED vars
  BY <1>4, <1>5, ReadKeeps
<1>6. CASE FinishExecutorFromHost(t[1], t[2], client[c].run,
                                  Exited(t) \/ Unfinished(action))
  <2>1. PICK failed \in BOOLEAN :
          /\ Unfinished(action) => failed
          /\ FinishExecutor(t[1], t[2], failed)
    BY <1>6 DEF FinishExecutorFromHost
  <2>2. executor # None /\ executor.id = t[1] /\ executor.gen = t[2] /\ action # None
    BY <2>1 DEF FinishExecutor, RequireExecutor
  <2>3. t \in Token /\ Holds(t)
    BY <2>2, SlotToken DEF TokenOf, Held, SpineIInv
  <2>4. /\ Recorded' /\ SameRecord /\ runs' = runs
        /\ executor'.status = "exited" /\ executor'.run = executor.run
        /\ executor'.workers = executor.workers
        /\ executor'.closed = executor.closed
        /\ executor'.failure \in {"failed", executor.failure}
        /\ action'.run = action.run
        /\ action'.status = IF action.status \in ActiveStatus
                            THEN IF failed THEN "failed" ELSE "completed"
                            ELSE action.status
    BY <2>1, <2>3, FinishEffect DEF SpineIInv
  <2>5. Steady
    BY <2>4, SameIsSteady
  <2>6. ~Live(executor)' /\ \A u \in Token : ~Current(u)'
    BY <2>4 DEF Current, ExecutorCurrent
  <2>7. action.status # "completed" => action'.status # "completed"
    BY <2>1, <2>2, <2>4
  <2>8. Settles
    BY <2>4, <2>5, <2>6, <2>7 DEF Settles, TargetOpen
  <2>9. /\ ~Able(t) /\ \A w \in Worker : worker[w] # t
        /\ \A u \in Token : Holds(u) => u = t
    BY <1>1, <2>3, GoneFact, OneHolder
  <2>10. /\ \A u \in Token : Able(u) => ~Holds(u)
         /\ \A w \in Worker : worker[w] # None => ~Holds(worker[w])
    BY <2>9 DEF SpineIInv, SpineTypeOK
  <2> QED
    BY <1>4, <2>8, <2>10, TalkKeeps
<1> QED
  BY <1>5, <1>6 DEF RecordHostExit

LEMMA InspectKeeps ==
  ASSUME SpineIInv, NEW c \in Client, Inspect(c) PROVE SpineIInv'
<1>1. client[c].pc = "inspect"
  BY DEF Inspect
<1>2. CASE RecordHostExit(c, "decide")
  BY <1>1, <1>2, HostExitKeeps
<1>3. CASE /\ UNCHANGED <<vars, host, procs, work, ghosts>>
           /\ \E pc \in {"wait", "idle", "decide", "ensure", "renew"} : Goto(c, pc)
  <2>1. PICK pc \in {"wait", "idle", "decide", "ensure", "renew"} : Goto(c, pc)
    BY <1>3
  <2>2. /\ UNCHANGED <<lease, unit, carrier, inflight, procs, work, ghosts>>
        /\ pending' = pending /\ UNCHANGED vars
    BY <1>3 DEF host
  <2>3. Talks(c)
    BY <1>1, <2>1, <2>2, GotoTalks DEF ClientStep
  <2> QED
    BY <2>2, <2>3, ReadKeeps
<1> QED
  BY <1>2, <1>3 DEF Inspect

LEMMA ObserveKeeps ==
  ASSUME SpineIInv, NEW c \in Client, Observe(c) PROVE SpineIInv'
<1>1. client[c].pc = "wait"
  BY DEF Observe
<1>2. CASE RecordHostExit(c, "idle")
  BY <1>1, <1>2, HostExitKeeps
<1>3. CASE Goto(c, "idle") /\ UNCHANGED <<vars, host, procs, work, ghosts>>
  <2>1. /\ UNCHANGED <<lease, unit, carrier, inflight, procs, work, ghosts>>
        /\ pending' = pending /\ UNCHANGED vars
    BY <1>3 DEF host
  <2>2. Talks(c)
    BY <1>1, <1>3, <2>1, GotoTalks DEF ClientStep
  <2> QED
    BY <2>1, <2>2, ReadKeeps
<1> QED
  BY <1>2, <1>3 DEF Observe

\* The Run of a control Action is the one its receipt may complete.
LEMMA ControlRun ==
  ASSUME Recorded, action # None, action.target # None, NEW r \in RunId,
         action.run \in {None, r}
  PROVE  action.kind \in ControlKind /\ action.run = r
BY ConstantsAssumption DEF Recorded, RecordInv

\* A Session failed on its receipt never comes out completed.
LEMMA FailedSettles ==
  ASSUME SpineIInv, NEW r \in RunId, executor # None,
         FailSession(action.id, action.gen, r)
  PROVE  Settles /\ ~Live(executor)
<1>1. PICK t \in Token : t[1] = action.id /\ t[2] = action.gen
  BY SlotToken DEF SpineIInv, TokenOf
<1>2. /\ Recorded' /\ SameRecord /\ ~Live(executor) /\ ~Live(executor)'
      /\ executor'.run = r /\ executor.run \in {None, r}
      /\ executor'.workers = executor.workers
      /\ executor'.closed = executor.closed
      /\ executor'.failure = "session_interrupted"
      /\ action'.run = r /\ action.run \in {None, r}
      /\ action.status = "completed" <=> action'.status = "completed"
      /\ \A q \in RunId : runs'[q].status \in {"failed", runs[q].status}
  BY <1>1, FailSessionEffect DEF SpineIInv
<1>3. Steady
  BY <1>2, SameIsSteady
<1>4. \A u \in Token : ~Current(u)'
  BY <1>2 DEF Current, ExecutorCurrent
<1>5. action # None /\ action.target # None /\ TargetOpen =>
        /\ action'.status # "completed"
        /\ runs'[action'.run].status \notin ClosedRun
  <2>1. SUFFICES ASSUME action # None, action.target # None, TargetOpen
                 PROVE  /\ action'.status # "completed"
                        /\ runs'[action'.run].status \notin ClosedRun
    OBVIOUS
  <2>2. action.run = r
    BY <1>2, <2>1, ControlRun DEF SpineIInv
  <2>3. runs'[r].status \in {"failed", runs[r].status}
    BY <1>2
  <2> QED
    BY <1>2, <2>1, <2>2, <2>3 DEF TargetOpen, ClosedRun
<1> QED
  BY <1>2, <1>3, <1>4, <1>5 DEF Settles

LEMMA RecordInterruptionKeeps ==
  ASSUME SpineIInv, NEW c \in Client, RecordInterruption(c) PROVE SpineIInv'
<1>1. /\ client[c].pc = "submit" /\ Goto(c, "idle")
      /\ FailSession(action.id, action.gen, Req(c))
      /\ Req(c) # None /\ executor # None
      /\ UNCHANGED <<lease, unit, carrier, inflight, procs, work, ghosts>>
      /\ pending' = pending
  BY DEF RecordInterruption, MustInterrupt, ReceiptBound, host
<1>2. Req(c) \in RunId
  BY <1>1, SubjectFact
<1>3. Settles /\ ~Live(executor)
  BY <1>1, <1>2, FailedSettles
<1>4. Talks(c)
  BY <1>1, GotoTalks DEF ClientStep
<1> QED
  BY <1>3, <1>4, TalkKeeps

LEMMA DecideKeeps ==
  ASSUME SpineIInv, NEW c \in Client, Decide(c) PROVE SpineIInv'
<1> DEFINE r == Subject(c)
<1>1. /\ client[c].pc = "decide" /\ executor # None /\ Mine(c)
      /\ executor.id = client[c].id /\ executor.gen = client[c].gen
      /\ UNCHANGED <<lease, unit, carrier, inflight, procs, work, ghosts>>
      /\ pending' = pending
  BY DEF Decide, host
<1>2. \E pc \in {"idle", "renew", "submit"} : Goto(c, pc)
  BY DEF Decide
<1>3. Talks(c)
  BY <1>1, <1>2, GotoTalks DEF ClientStep
<1>4. CASE UNCHANGED vars
  BY <1>3, <1>4, ReadKeeps
<1>5. CASE r # None /\ FailSession(action.id, action.gen, r)
  <2>1. r \in RunId
    BY <1>1, <1>5, SubjectFact
  <2>2. Settles /\ ~Live(executor)
    BY <1>1, <1>5, <2>1, FailedSettles
  <2> QED
    BY <1>3, <2>2, TalkKeeps
<1>6. CASE /\ r # None /\ CompleteFromReceipt(action.id, action.gen, r, FALSE)
           /\ \/ NonReplayable(c)
              \/ runs[r].status \in ClosedRun /\ action.status # "completed"
  <2>1. r \in RunId
    BY <1>1, <1>6, SubjectFact
  <2>2. PICK t \in Token : t[1] = action.id /\ t[2] = action.gen
    BY <1>1, SlotToken DEF SpineIInv, TokenOf
  <2>3. /\ Recorded' /\ SameRecord /\ ~Live(executor) /\ SameSlot
        /\ executor'.run = r /\ executor.run \in {None, r}
        /\ action'.run = r /\ action.run \in {None, r} /\ runs' = runs
    BY <1>6, <2>1, <2>2, CompleteReceiptEffect DEF SpineIInv
  <2>4. Steady /\ executor' # None /\ ~Live(executor)'
    BY <1>1, <2>3, SameIsSteady DEF Steady, SameSlot
  <2>5. \A u \in Token : ~Current(u)'
    BY <2>4 DEF Current, ExecutorCurrent
  <2>6. action # None /\ action.target # None => ~TargetOpen
    <3>1. SUFFICES ASSUME action # None, action.target # None, TargetOpen
                   PROVE  FALSE
      OBVIOUS
    <3>2. action.kind \in ControlKind /\ action.run = r
      BY <2>1, <2>3, <3>1, ControlRun DEF SpineIInv
    <3>3. ~NonReplayable(c)
      BY <3>2 DEF NonReplayable, ControlKind
    <3> QED
      BY <1>6, <3>1, <3>2, <3>3 DEF TargetOpen
  <2>7. Settles
    BY <2>3, <2>4, <2>5, <2>6 DEF Settles, SameSlot
  <2> QED
    BY <1>3, <2>3, <2>7, TalkKeeps
<1> QED
  BY <1>4, <1>5, <1>6 DEF Decide

\* A step of a launch on an unchanged record.
LEMMA LaunchStepKeeps ==
  ASSUME SpineIInv, SpineTypeOK',
         UNCHANGED <<vars, worker, total, served, writer, stray, fenced>>,
         \A u \in Token :
           u \in pending' \cup carrier' \cup inflight' \/ unit'[u] # unit[u] =>
             Reserved(u),
         \A d \in Client : Launching(d)' => Launching(d) /\ Held(d)' = Held(d),
         \A u \in Token : Able(u)' => Able(u),
         \A u \in Token :
           \/ exec'[u] = exec[u]
           \/ exec'[u].pc = "boot" /\ unit[u] = "none",
         \A u \in Token : unit'[u] = unit[u] \/ unit'[u] # "none",
         ClientInv', HostInv'
  PROVE  SpineIInv'
<1>1. /\ UNCHANGED vars /\ worker' = worker
      /\ served' = served /\ total' = total
      /\ writer' = writer /\ stray' = stray /\ fenced' = fenced
  OBVIOUS
<1>2. Recorded' /\ Steady
  BY <1>1, UnchangedRecord, UnchangedIsSteady DEF SpineIInv
<1>3. action' = action /\ executor' = executor /\ runs' = runs
  BY <1>1 DEF vars
<1>4. WriterInv' /\ ControlIdle' /\ AdmissionInv'
  BY <1>1, <1>3 DEF SpineIInv, SpineInv, WriterInv, ControlIdle, AdmissionInv
<1>5. FreshInv'
  <2>1. ASSUME NEW u \in Token, ~Reserved(u)'
        PROVE  /\ ~Reserved(u) /\ unit'[u] = unit[u]
               /\ u \notin pending' \cup carrier' \cup inflight'
    BY <1>2, <2>1 DEF Steady
  <2> QED
    BY <1>1, <2>1 DEF SpineIInv, SpineInv, FreshInv
<1>6. SessionInv'
  BY <1>1, <1>2, <1>3 DEF SpineIInv, SpineInv, SessionInv, Steady
<1>7. ExecInv' /\ StrayInv' /\ SeenInv'
  BY <1>1, ProcessKept DEF ExecInv, StrayInv, SeenInv
<1>8. \A u \in Token : exec[u].pc # "none" => exec'[u] = exec[u]
  BY AliveFact
<1>9. OwnedInv'
  <2>1. ASSUME NEW w \in Worker, worker[w] # None
        PROVE  worker[w] \in Token /\ exec'[worker[w]] = exec[worker[w]]
    BY <1>8, <2>1 DEF SpineIInv, SpineTypeOK, SpineInv, OwnedInv, DrivePc
  <2> QED
    BY <1>1, <2>1 DEF SpineIInv, SpineInv, OwnedInv, vars, Holds, Names
<1>10. TargetInv'
  <2>1. \A u \in Token : exec'[u].pc \in {"outcome", "finish"} => exec'[u] = exec[u]
    OBVIOUS
  <2>2. TargetQuiet => TargetQuiet'
    BY <1>1, <1>3 DEF TargetQuiet
  <2>3. TargetOpen => TargetOpen'
    BY <1>3, <2>1 DEF TargetOpen, Holds, Names
  <2> QED
    BY <1>3, <2>2, <2>3 DEF SpineIInv, SpineInv, TargetInv
<1> QED
  BY <1>2, <1>4, <1>5, <1>6, <1>7, <1>9, <1>10 DEF SpineIInv, SpineInv, Recorded

\* What a command in a launch has in hand.
LEMMA LaunchFact ==
  ASSUME SpineIInv, NEW c \in Client, Launching(c)
  PROVE  /\ lease = c /\ \A d \in Client : d # c => ~Launching(d)
         /\ Held(c) \in Token /\ unit[Held(c)] = "none" /\ Held(c) \notin inflight
         /\ Reserved(Held(c)) /\ Able(Held(c)) /\ exec[Held(c)].pc = "none"
<1>1. /\ lease = c /\ \A d \in Client : d # c => ~Launching(d)
      /\ Held(c) \in Token /\ unit[Held(c)] = "none" /\ Held(c) \notin inflight
  BY DEF SpineIInv, SpineInv, HostInv
<1>2. Reserved(Held(c))
  BY <1>1 DEF SpineIInv, SpineInv, FreshInv
<1>3. exec[Held(c)].pc = "none"
  BY <1>1 DEF SpineIInv, SpineInv, HostInv, Alive
<1> QED
  BY <1>1, <1>2, <1>3 DEF Able

\* The end of a launch: the lease is free and no command launches.
LEMMA LaunchOver ==
  ASSUME SpineIInv, NEW c \in Client, Launching(c), OnlyCommand(c), ~Launching(c)',
         ClientOk(c)', lease' = None
  PROVE  /\ ClientInv' /\ \A d \in Client : ~Launching(d)' /\ ~(lease' = d)
         /\ client' \in [Client -> Command]
<1>1. \A d \in Client : ~Launching(d)'
  BY LaunchFact DEF OnlyCommand, Launching
<1>2. \A d \in Client : ClientOk(d)'
  BY DEF OnlyCommand, ClientOk, SpineIInv, SpineInv, ClientInv
<1> QED
  BY <1>1, <1>2, SpineAssumption DEF ClientInv, ClientOk, OnlyCommand

LEMMA LeaveKeeps ==
  ASSUME SpineIInv, NEW c \in Client, Leave(c) PROVE SpineIInv'
<1>1. /\ client' = [client EXCEPT ![c] = Idle]
      /\ lease' = IF lease = c THEN None ELSE lease
      /\ UNCHANGED <<vars, unit, pending, carrier, inflight, exec, worker, released,
                     total, served, writer, stray, fenced>>
  BY DEF Leave, procs, work, ghosts
<1>2. client \in [Client -> Command] /\ Idle \in Command /\ Idle.pc = "idle"
  BY CommandFact, ConstantsAssumption DEF SpineIInv, Idle, Command, ClientStep
<1>3. /\ OnlyCommand(c) /\ client'[c].pc = "idle" /\ ClientOk(c)' /\ ~Launching(c)'
  BY <1>1, <1>2 DEF OnlyCommand, ClientOk, Launching
<1>4. \A d \in Client : Launching(d)' => Launching(d) /\ d # c /\ Held(d)' = Held(d)
  BY <1>3 DEF OnlyCommand, Launching, Held
<1>5. ClientInv'
  <2>1. \A d \in Client : ClientOk(d)'
    BY <1>3 DEF OnlyCommand, ClientOk, SpineIInv, SpineInv, ClientInv
  <2> QED
    BY <2>1 DEF ClientInv, ClientOk
<1>6. HostInv'
  <2>1. \A d \in Client : d # c => (Launching(d)' <=> Launching(d))
    BY <1>3 DEF OnlyCommand, Launching
  <2>2. \A d \in Client : Launching(d) <=> lease = d
    BY DEF SpineIInv, SpineInv, HostInv
  <2>3. \A d \in Client : Launching(d)' <=> lease' = d
    BY <1>1, <1>3, <2>1, <2>2, SpineAssumption
  <2> QED
    BY <1>1, <1>4, <2>3 DEF SpineIInv, SpineInv, HostInv, Alive
<1>7. SpineTypeOK'
  BY <1>1, <1>3 DEF SpineIInv, SpineTypeOK, OnlyCommand, Command
<1>8. \A u \in Token : Able(u)' => Able(u)
  BY <1>1, <1>4 DEF Able, Working
<1>9. \A u \in Token :
        u \in pending' \cup carrier' \cup inflight' \/ unit'[u] # unit[u] =>
          Reserved(u)
  BY <1>1 DEF SpineIInv, SpineInv, FreshInv
<1>10. UNCHANGED <<vars, worker, total, served, writer, stray, fenced>>
  BY <1>1
<1>11. /\ \A u \in Token :
            \/ exec'[u] = exec[u]
            \/ exec'[u].pc = "boot" /\ unit[u] = "none"
       /\ \A u \in Token : unit'[u] = unit[u] \/ unit'[u] # "none"
  BY <1>1
<1>12. \A d \in Client : Launching(d)' => Launching(d) /\ Held(d)' = Held(d)
  BY <1>4
<1> QED
  BY <1>5, <1>6, <1>7, <1>8, <1>9, <1>10, <1>11, <1>12, LaunchStepKeeps

LEMMA MarkLaunchPendingKeeps ==
  ASSUME SpineIInv, NEW c \in Client, MarkLaunchPending(c) PROVE SpineIInv'
<1> DEFINE t == Held(c)
<1>1. /\ client[c].pc = "reserved" /\ Launching(c)
      /\ UNCHANGED <<vars, unit, inflight, procs, work, ghosts>>
  BY DEF MarkLaunchPending, Launching
<1>2. /\ UNCHANGED <<vars, worker, total, served, writer, stray, fenced>>
      /\ exec' = exec /\ unit' = unit /\ inflight' = inflight /\ released' = released
      /\ UNCHANGED <<unit, exec, worker, released, total, served, writer, stray>>
      /\ fenced' = fenced
  BY <1>1 DEF procs, work, ghosts
<1>3. /\ lease = c /\ \A d \in Client : d # c => ~Launching(d)
      /\ t \in Token /\ unit[t] = "none" /\ t \notin inflight
      /\ Reserved(t) /\ Able(t) /\ exec[t].pc = "none"
  BY <1>1, LaunchFact
<1>4. /\ \A u \in Token : \/ exec'[u] = exec[u]
                          \/ exec'[u].pc = "boot" /\ unit[u] = "none"
      /\ \A u \in Token : unit'[u] = unit[u] \/ unit'[u] # "none"
  BY <1>2
<1>5. CASE /\ lease' = None /\ UNCHANGED <<pending, carrier>>
           /\ \E pc \in {"idle", "wait"} : Goto(c, pc)
  <2>1. PICK pc \in {"idle", "wait"} : Goto(c, pc)
    BY <1>5
  <2>2. /\ OnlyCommand(c) /\ ClientOk(c)' /\ client'[c].pc = pc
    BY <1>1, <2>1, GotoFact DEF ClientStep
  <2>3. ~Launching(c)'
    BY <2>2 DEF Launching
  <2>4. /\ ClientInv' /\ \A d \in Client : ~Launching(d)' /\ ~(lease' = d)
        /\ client' \in [Client -> Command]
    BY <1>1, <1>5, <2>2, <2>3, LaunchOver
  <2>5. SpineTypeOK'
    BY <1>2, <1>5, <2>4 DEF SpineIInv, SpineTypeOK, Command
  <2>6. HostInv'
    BY <1>2, <1>5, <2>4 DEF SpineIInv, SpineInv, HostInv, Alive
  <2>7. \A u \in Token : Able(u)' => Able(u)
    BY <1>2, <1>5, <2>4 DEF Able, Working
  <2>8. \A u \in Token :
          u \in pending' \cup carrier' \cup inflight' \/ unit'[u] # unit[u] =>
            Reserved(u)
    BY <1>2, <1>5 DEF SpineIInv, SpineInv, FreshInv
  <2>9. \A d \in Client : Launching(d)' => Launching(d) /\ Held(d)' = Held(d)
    BY <2>4
  <2> QED
    BY <1>2, <1>4, <2>4, <2>5, <2>6, <2>7, <2>8, <2>9, LaunchStepKeeps
<1>6. CASE /\ UnitGone(t) /\ pending' = pending \cup {t}
           /\ carrier' = carrier \cup {t} /\ Goto(c, "launch") /\ UNCHANGED lease
  <2>1. /\ OnlyCommand(c) /\ ClientOk(c)' /\ client'[c].pc = "launch"
        /\ Held(c)' = t
    BY <1>1, <1>6, GotoFact DEF ClientStep, Held
  <2>2. /\ Launching(c)'
        /\ \A d \in Client : d # c => client'[d] = client[d] /\ ~Launching(d)'
    BY <1>3, <2>1 DEF OnlyCommand, Launching
  <2>3. ClientInv'
    <3>1. \A d \in Client : ClientOk(d)'
      BY <2>1 DEF OnlyCommand, ClientOk, SpineIInv, SpineInv, ClientInv
    <3> QED
      BY <3>1 DEF ClientInv, ClientOk
  <2>4. SpineTypeOK'
    BY <1>2, <1>3, <1>6, <2>1 DEF SpineIInv, SpineTypeOK, Command, OnlyCommand
  <2>5. HostInv'
    <3>1. \A d \in Client : Launching(d)' <=> lease' = d
      BY <1>3, <1>6, <2>2
    <3>2. \A d \in Client : Launching(d)' =>
            Held(d)' \in Token /\ unit'[Held(d)'] = "none" /\ Held(d)' \notin inflight'
      BY <1>2, <1>3, <2>1, <2>2
    <3>3. \A u \in carrier' : unit'[u] = "none" => u \in pending'
      BY <1>2, <1>6 DEF SpineIInv, SpineInv, HostInv
    <3>4. \A u \in Token : Alive(u)' <=> unit'[u] = "up"
      BY <1>2 DEF SpineIInv, SpineInv, HostInv, Alive
    <3> QED
      BY <3>1, <3>2, <3>3, <3>4 DEF HostInv
  <2>6. \A u \in Token : Able(u)' => Able(u)
    <3>1. \A u \in Token : u # t => (Working(u)' => Working(u))
      BY <1>2, <1>6 DEF Working
    <3>2. \A u \in Token : u # t =>
            ~(\E d \in Client : Launching(d)' /\ Held(d)' = u)
      BY <2>1, <2>2
    <3>3. \A u \in Token : u # t =>
            (unit'[u] = "none" /\ u \in carrier' => unit[u] = "none" /\ u \in carrier)
      BY <1>2, <1>6
    <3>4. ASSUME NEW u \in Token, Able(u)', u # t PROVE Able(u)
      BY <3>1, <3>2, <3>3, <3>4 DEF Able
    <3> QED
      BY <1>3, <3>4
  <2>7. \A u \in Token :
          u \in pending' \cup carrier' \cup inflight' \/ unit'[u] # unit[u] =>
            Reserved(u)
    BY <1>2, <1>3, <1>6 DEF SpineIInv, SpineInv, FreshInv
  <2>8. \A d \in Client : Launching(d)' => Launching(d) /\ Held(d)' = Held(d)
    BY <1>1, <2>1, <2>2
  <2> QED
    BY <1>2, <1>4, <2>3, <2>4, <2>5, <2>6, <2>7, <2>8, LaunchStepKeeps
<1> QED
  BY <1>5, <1>6 DEF MarkLaunchPending

\* A start that systemd refused ends the reservation, which nobody serves.
LEMMA RejectedKeeps ==
  ASSUME SpineIInv, NEW c \in Client, Launching(c), Goto(c, "idle"), lease' = None,
         pending' = pending \ {Held(c)}, carrier' = carrier \ {Held(c)},
         FinishExecutor(Held(c)[1], Held(c)[2], TRUE),
         UNCHANGED <<unit, inflight, exec, worker, released, total, served, writer,
                     stray, fenced>>
  PROVE  SpineIInv'
<1> DEFINE t == Held(c)
<1>1. /\ lease = c /\ \A d \in Client : d # c => ~Launching(d)
      /\ t \in Token /\ unit[t] = "none" /\ t \notin inflight
      /\ Reserved(t) /\ Able(t) /\ exec[t].pc = "none"
  BY LaunchFact
<1>2. /\ UNCHANGED <<exec, unit, worker, total, served, writer, stray>>
      /\ exec' = exec /\ unit' = unit /\ inflight' = inflight /\ released' = released
      /\ worker' = worker /\ total' = total /\ served' = served /\ writer' = writer
      /\ stray' = stray /\ fenced' = fenced
  OBVIOUS
<1>3. /\ OnlyCommand(c) /\ ClientOk(c)' /\ client'[c].pc = "idle" /\ ~Launching(c)'
  <2>1. client[c].pc \in {"reserved", "launch"}
    BY DEF Launching
  <2> QED
    BY <2>1, GotoFact DEF ClientStep, Launching
<1>4. /\ ClientInv' /\ \A d \in Client : ~Launching(d)' /\ ~(lease' = d)
      /\ client' \in [Client -> Command]
  BY <1>3, LaunchOver
<1>5. Holds(t)
  BY DEF FinishExecutor, RequireExecutor, Holds, Names
<1>6. /\ Recorded' /\ SameRecord /\ runs' = runs
      /\ executor'.status = "exited" /\ executor'.run = executor.run
      /\ executor'.workers = executor.workers
      /\ executor'.closed = executor.closed
      /\ executor'.failure \in {"failed", executor.failure}
      /\ action'.run = action.run
      /\ action'.status = IF action.status \in ActiveStatus THEN "failed"
                          ELSE action.status
  <2> HIDE DEF t
  <2>1. FinishExecutor(t[1], t[2], TRUE)
    BY DEF t
  <2> QED
    BY <1>1, <2>1, FinishEffect DEF SpineIInv
<1>7. Steady
  BY <1>6, SameIsSteady
<1>8. ~Live(executor)' /\ \A u \in Token : ~Current(u)'
  BY <1>6 DEF Current, ExecutorCurrent
<1>9. action.status # "completed" => action'.status # "completed"
  BY <1>6
<1>10. Settles
  BY <1>6, <1>7, <1>8, <1>9 DEF Settles, TargetOpen
<1>11. SpineTypeOK'
  BY <1>2, <1>4 DEF SpineIInv, SpineTypeOK, Command
<1>12. HostInv'
  BY <1>2, <1>4 DEF SpineIInv, SpineInv, HostInv, Alive
<1>13. FreshInv'
  BY <1>2, <1>4, <1>7 DEF SpineIInv, SpineInv, FreshInv, Steady
<1>14. \A u \in Token : Able(u)' => Able(u) /\ u # t
  BY <1>1, <1>2, <1>4 DEF Able, Working
<1>15. \A u \in Token : Holds(u) => u = t
  BY <1>1, <1>5, OneHolder
<1>16. \A w \in Worker : worker[w] # None => worker[w] \in Token /\ worker[w] # t
  BY <1>1, TokenFact DEF SpineIInv, SpineTypeOK, SpineInv, OwnedInv, DrivePc
<1>17. fenced \subseteq fenced'
  BY <1>2
<1>18. /\ \A u \in Token : Able(u)' => Able(u)
       /\ \A u \in Token : Able(u)' => ~Holds(u)
       /\ \A w \in Worker : worker[w] # None => ~Holds(worker[w])
  BY <1>14, <1>15, <1>16
<1> QED
  BY <1>2, <1>4, <1>10, <1>11, <1>12, <1>13, <1>17, <1>18, SettleKeeps

LEMMA StartUnitKeeps ==
  ASSUME SpineIInv, NEW c \in Client, StartUnit(c) PROVE SpineIInv'
<1> DEFINE t == Held(c)
<1>1. /\ client[c].pc = "launch" /\ Launching(c) /\ lease' = None
      /\ UNCHANGED <<worker, released, work, ghosts>>
  BY DEF StartUnit, Launching
<1>2. /\ worker' = worker /\ released' = released /\ total' = total
      /\ served' = served /\ writer' = writer /\ stray' = stray /\ fenced' = fenced
  BY <1>1 DEF work, ghosts
<1>3. /\ lease = c /\ \A d \in Client : d # c => ~Launching(d)
      /\ t \in Token /\ unit[t] = "none" /\ t \notin inflight
      /\ Reserved(t) /\ Able(t) /\ exec[t].pc = "none"
  BY <1>1, LaunchFact
<1>4. ASSUME Goto(c, "wait")
      PROVE  /\ ClientInv' /\ \A d \in Client : ~Launching(d)' /\ ~(lease' = d)
             /\ client' \in [Client -> Command]
  <2>1. /\ OnlyCommand(c) /\ ClientOk(c)' /\ ~Launching(c)'
    BY <1>1, <1>4, GotoFact DEF ClientStep, Launching
  <2> QED
    BY <1>1, <2>1, LaunchOver
<1>5. CASE /\ Booted(t) /\ pending' = pending \ {t} /\ Goto(c, "wait")
           /\ UNCHANGED <<vars, carrier, inflight>>
  <2>1. /\ OnlyMoves(t) /\ exec'[t].pc = "boot"
        /\ unit' \in [Token -> UnitState] /\ unit'[t] = "up"
        /\ \A u \in Token : u # t => unit'[u] = unit[u]
        /\ exec' \in [Token -> Process] /\ \A u \in Token : u # t => exec'[u] = exec[u]
    BY <1>3, <1>5, BootedFact DEF OnlyMoves
  <2>2. /\ ClientInv' /\ \A d \in Client : ~Launching(d)' /\ ~(lease' = d)
        /\ client' \in [Client -> Command]
    BY <1>4, <1>5
  <2>3. SpineTypeOK'
    BY <1>1, <1>2, <1>5, <2>1, <2>2 DEF SpineIInv, SpineTypeOK, Command, Process
  <2>4. HostInv'
    <3>1. \A u \in Token : Alive(u)' <=> unit'[u] = "up"
      BY <1>2, <2>1 DEF SpineIInv, SpineInv, HostInv, Alive
    <3>2. \A u \in carrier' : unit'[u] = "none" => u \in pending'
      BY <1>5, <2>1 DEF SpineIInv, SpineTypeOK, SpineInv, HostInv
    <3> QED
      BY <1>1, <2>2, <3>1, <3>2 DEF HostInv
  <2>5. \A u \in Token : Able(u)' => Able(u)
    <3>1. ASSUME NEW u \in Token, u # t, Able(u)' PROVE Able(u)
      BY <1>5, <2>1, <2>2, <3>1 DEF Able, Working
    <3> QED
      BY <1>3, <3>1
  <2>6. \A u \in Token :
          u \in pending' \cup carrier' \cup inflight' \/ unit'[u] # unit[u] =>
            Reserved(u)
    BY <1>3, <1>5, <2>1 DEF SpineIInv, SpineInv, FreshInv
  <2>7. \A d \in Client : Launching(d)' => Launching(d) /\ Held(d)' = Held(d)
    BY <2>2
  <2>8. /\ \A u \in Token : \/ exec'[u] = exec[u]
                            \/ exec'[u].pc = "boot" /\ unit[u] = "none"
        /\ \A u \in Token : unit'[u] = unit[u] \/ unit'[u] # "none"
    BY <1>3, <2>1
  <2>9. UNCHANGED <<vars, worker, total, served, writer, stray, fenced>>
    BY <1>2, <1>5
  <2> QED
    BY <2>2, <2>3, <2>4, <2>5, <2>6, <2>7, <2>8, <2>9, LaunchStepKeeps
<1>6. CASE /\ inflight' = inflight \cup {t} /\ Goto(c, "wait")
           /\ UNCHANGED <<vars, unit, pending, carrier, exec>>
  <2>1. /\ ClientInv' /\ \A d \in Client : ~Launching(d)' /\ ~(lease' = d)
        /\ client' \in [Client -> Command]
    BY <1>4, <1>6
  <2>2. SpineTypeOK'
    BY <1>1, <1>2, <1>3, <1>6, <2>1 DEF SpineIInv, SpineTypeOK, Command
  <2>3. HostInv'
    BY <1>6, <2>1 DEF SpineIInv, SpineInv, HostInv, Alive
  <2>4. \A u \in Token : Able(u)' => Able(u)
    BY <1>6, <2>1 DEF Able, Working
  <2>5. \A u \in Token :
          u \in pending' \cup carrier' \cup inflight' \/ unit'[u] # unit[u] =>
            Reserved(u)
    BY <1>3, <1>6 DEF SpineIInv, SpineInv, FreshInv
  <2>6. \A d \in Client : Launching(d)' => Launching(d) /\ Held(d)' = Held(d)
    BY <2>1
  <2>7. /\ \A u \in Token : \/ exec'[u] = exec[u]
                            \/ exec'[u].pc = "boot" /\ unit[u] = "none"
        /\ \A u \in Token : unit'[u] = unit[u] \/ unit'[u] # "none"
    BY <1>6
  <2>8. UNCHANGED <<vars, worker, total, served, writer, stray, fenced>>
    BY <1>2, <1>6
  <2> QED
    BY <2>1, <2>2, <2>3, <2>4, <2>5, <2>6, <2>7, <2>8, LaunchStepKeeps
<1>7. CASE /\ pending' = pending \ {t} /\ carrier' = carrier \ {t}
           /\ FinishExecutor(t[1], t[2], TRUE) /\ Goto(c, "idle")
           /\ UNCHANGED <<unit, inflight, exec>>
  BY <1>1, <1>2, <1>7, RejectedKeeps
<1> QED
  BY <1>1, <1>5, <1>6, <1>7 DEF StartUnit

-----------------------------------------------------------------------------
(* A reservation.                                                          *)

\* Nothing is known of the token that is reserved, and nobody else is launching.
LEMMA GrantKeeps ==
  ASSUME SpineIInv, NEW c \in Client, client[c].pc \in {"ensure", "renew"}, lease = None,
         NEW reclaim \in BOOLEAN,
         BeginExecutor(client[c].id, client[c].run, reclaim), lease' = c,
         client' = [client EXCEPT ![c].pc = "reserved", ![c].gen = executor'.gen],
         UNCHANGED <<unit, pending, carrier, inflight, exec, worker, released, total,
                     served, writer, stray, fenced>>
  PROVE  SpineIInv'
<1>1. /\ unit' = unit /\ pending' = pending /\ carrier' = carrier
      /\ inflight' = inflight /\ exec' = exec /\ worker' = worker
      /\ released' = released /\ total' = total /\ served' = served
      /\ writer' = writer /\ stray' = stray /\ fenced' = fenced
  OBVIOUS
<1>2. client \in [Client -> Command]
  BY CommandFact DEF SpineIInv
<1>3. client[c].id \in ActionId /\ client[c].run \in RunId \cup {None}
  BY <1>2 DEF SpineIInv, SpineInv, ClientInv, Command
<1>4. /\ Recorded' /\ ~Live(executor) /\ Live(executor)'
      /\ \E t \in Token : /\ t = <<client[c].id, executor'.gen>>
                          /\ Holds(t)' /\ ~Reserved(t) /\ Reserved(t)'
                          /\ \A u \in Token : Holds(u)' => u = t
      /\ \A u \in Token : Reserved(u) => Reserved(u)'
      /\ action # None /\ action' # None /\ action.gen <= action'.gen
      /\ action'.kind = action.kind /\ action'.target = action.target
      /\ action'.status = action.status /\ action'.run = action.run
      /\ executor'.workers = {} /\ ~executor'.closed
      /\ runs' = runs /\ executor' # None
  BY <1>3, BeginEffect DEF SpineIInv
<1>5. PICK t \in Token :
        /\ t = <<client[c].id, executor'.gen>>
        /\ Holds(t)' /\ ~Reserved(t) /\ Reserved(t)'
        /\ \A u \in Token : Holds(u)' => u = t
  BY <1>4
<1>6. /\ unit[t] = "none" /\ t \notin pending \cup carrier \cup inflight
      /\ exec[t].pc = "none"
  BY <1>5 DEF SpineIInv, SpineInv, FreshInv, HostInv, Alive
<1>7. executor'.gen \in 1..MaxGeneration
  BY <1>5, TokenFact
<1>8. /\ client' \in [Client -> Command] /\ client'[c].pc = "reserved"
      /\ client'[c].gen = executor'.gen /\ client'[c].id = client[c].id
      /\ client'[c].kind = client[c].kind /\ client'[c].payload = client[c].payload
      /\ \A d \in Client : d # c => client'[d] = client[d]
  <2>1. client[c] \in Command /\ executor'.gen \in 0..MaxGeneration
    BY <1>2, <1>7
  <2>2. [client[c] EXCEPT !.pc = "reserved", !.gen = executor'.gen] \in Command
    BY <2>1 DEF Command, ClientStep
  <2>3. client' = [client EXCEPT ![c] =
                     [client[c] EXCEPT !.pc = "reserved", !.gen = executor'.gen]]
    BY <1>2
  <2> QED
    BY <1>2, <2>1, <2>2, <2>3 DEF Command
<1>9. /\ \A d \in Client : ~Launching(d)
      /\ Launching(c)' /\ Held(c)' = t
      /\ \A d \in Client : d # c => ~Launching(d)'
  <2>1. \A d \in Client : ~Launching(d)
    BY SpineAssumption DEF SpineIInv, SpineInv, HostInv
  <2> QED
    BY <1>5, <1>8, <2>1 DEF Launching, Held
<1>10. SpineTypeOK'
  BY <1>1, <1>8 DEF SpineIInv, SpineTypeOK, Command
<1>11. ClientInv'
  <2>1. ClientOk(c)'
    BY <1>3, <1>8 DEF ClientOk, SpineIInv, SpineInv, ClientInv
  <2>2. \A d \in Client : ClientOk(d)'
    BY <1>8, <2>1 DEF ClientOk, SpineIInv, SpineInv, ClientInv
  <2> QED
    BY <2>2 DEF ClientInv, ClientOk
<1>12. HostInv'
  <2>1. \A u \in Token : Alive(u)' <=> unit'[u] = "up"
    BY <1>1 DEF SpineIInv, SpineInv, HostInv, Alive
  <2>2. \A u \in carrier' : unit'[u] = "none" => u \in pending'
    BY <1>1 DEF SpineIInv, SpineInv, HostInv
  <2>3. \A d \in Client : Launching(d)' <=> lease' = d
    BY <1>9
  <2>4. \A d \in Client : Launching(d)' =>
          Held(d)' \in Token /\ unit'[Held(d)'] = "none" /\ Held(d)' \notin inflight'
    BY <1>1, <1>6, <1>9
  <2> QED
    BY <2>1, <2>2, <2>3, <2>4 DEF HostInv
<1>13. FreshInv'
  <2>1. ASSUME NEW u \in Token, ~Reserved(u)' PROVE ~Reserved(u) /\ u # t
    BY <1>4, <1>5, <2>1
  <2>2. \A d \in Client : Launching(d)' => Held(d)' = t
    BY <1>9
  <2> QED
    BY <1>1, <2>1, <2>2 DEF SpineIInv, SpineInv, FreshInv
<1>14. SessionInv'
  <2>1. ASSUME NEW u \in Token, Able(u)', u # t PROVE u \in fenced
    <3>1. Able(u)
      BY <1>1, <1>9, <2>1 DEF Able, Working
    <3> QED
      BY <1>4, <3>1 DEF SpineIInv, SpineInv, SessionInv
  <2> QED
    BY <1>1, <1>4, <1>5, <2>1 DEF SessionInv
<1>15. ExecInv' /\ StrayInv' /\ SeenInv'
  <2>1. ASSUME NEW u \in Token PROVE ExecOk(u)'
    BY <1>1, <1>5, <1>6
       DEF ExecOk, SpineIInv, SpineInv, ExecInv, ControlPc, BoundPc
  <2>2. \A u \in Token : Current(u)' => Holds(u)'
    BY DEF Current, ExecutorCurrent, RequireExecutor, Holds, Names
  <2>3. ASSUME NEW u \in Token PROVE StrayOk(u)' /\ SeenOk(u)'
    BY <1>1, <1>5, <1>6, <2>2
       DEF StrayOk, SeenOk, SpineIInv, SpineInv, StrayInv, SeenInv
  <2> QED
    BY <2>1, <2>3 DEF ExecInv, StrayInv, SeenInv
<1>16. WriterInv'
  <2>1. action.gen \in Nat /\ action'.gen \in Nat
    BY <1>4 DEF SpineIInv, Recorded, TypeOK, Action
  <2> QED
    BY <1>1, <1>4, <2>1 DEF SpineIInv, SpineTypeOK, SpineInv, WriterInv
<1>17. OwnedInv'
  BY <1>1, <1>4 DEF SpineIInv, SpineInv, OwnedInv, Names
<1>18. ControlIdle' /\ AdmissionInv'
  BY <1>4 DEF ControlIdle, AdmissionInv
<1>19. TargetInv'
  <2>1. TargetQuiet => TargetQuiet'
    BY <1>1, <1>4 DEF TargetQuiet, Names
  <2>2. TargetOpen => TargetOpen'
    BY <1>1, <1>4, <1>5, <1>6 DEF TargetOpen
  <2> QED
    BY <1>4, <2>1, <2>2 DEF SpineIInv, SpineInv, TargetInv
<1> QED
  BY <1>4, <1>10, <1>11, <1>12, <1>13, <1>14, <1>15, <1>16, <1>17, <1>18, <1>19
     DEF SpineIInv, SpineInv, Recorded

LEMMA ReserveKeeps ==
  ASSUME SpineIInv, NEW c \in Client, Reserve(c) PROVE SpineIInv'
<1>1. /\ client[c].pc \in {"ensure", "renew"}
      /\ UNCHANGED <<unit, pending, carrier, inflight, procs, work, ghosts>>
  BY DEF Reserve
<1>2. CASE Goto(c, "wait") /\ UNCHANGED <<vars, lease>>
  <2>1. /\ UNCHANGED <<lease, unit, carrier, inflight, procs, work, ghosts>>
        /\ pending' = pending /\ UNCHANGED vars
    BY <1>1, <1>2
  <2>2. Talks(c)
    BY <1>1, <1>2, <2>1, GotoTalks DEF ClientStep
  <2> QED
    BY <2>1, <2>2, ReadKeeps
<1>3. CASE /\ lease = None
           /\ BeginExecutor(client[c].id, client[c].run, client[c].pc = "renew")
           /\ lease' = c
           /\ client' = [client EXCEPT ![c].pc = "reserved",
                                       ![c].gen = executor'.gen]
  <2>1. (client[c].pc = "renew") \in BOOLEAN
    OBVIOUS
  <2>2. UNCHANGED <<unit, pending, carrier, inflight, exec, worker, released, total,
                    served, writer, stray, fenced>>
    BY <1>1 DEF procs, work, ghosts
  <2> QED
    BY <1>1, <1>3, <2>1, <2>2, GrantKeeps
<1> QED
  BY <1>2, <1>3 DEF Reserve

-----------------------------------------------------------------------------
(* Admission.                                                              *)

\* The command keeps the answer of its claim and goes on to inspect the host.
LEMMA HoldingFact ==
  ASSUME SpineIInv, NEW c \in Client, client[c].pc = "admit", NEW a,
         a.id \in ActionId, a.gen \in 0..MaxGeneration, a.run \in RunId \cup {None},
         Holding(c, "inspect", a),
         UNCHANGED <<host, procs, work, writer, stray>>,
         fenced \subseteq fenced', fenced' \subseteq Token
  PROVE  Talks(c)
<1>1. client \in [Client -> Command]
  BY CommandFact DEF SpineIInv
<1>2. client[c] \in Command
  BY <1>1
<1>3. /\ client[c].kind \in Kind /\ client[c].payload \in Payload
      /\ PayloadRun[client[c].payload] = None <=> client[c].kind = "run"
  BY DEF SpineIInv, SpineInv, ClientInv
<1>4. [client[c] EXCEPT !.pc = "inspect", !.id = a.id, !.gen = a.gen,
                        !.run = a.run] \in Command
  BY <1>2 DEF Command, ClientStep
<1>5. client' = [client EXCEPT ![c] =
                   [client[c] EXCEPT !.pc = "inspect", !.id = a.id, !.gen = a.gen,
                                     !.run = a.run]]
  BY <1>1 DEF Holding
<1>6. /\ client'[c].pc = "inspect" /\ client'[c].id = a.id
      /\ client'[c].kind = client[c].kind /\ client'[c].payload = client[c].payload
  BY <1>1, <1>2, <1>5 DEF Command
<1>7. OnlyCommand(c)
  BY <1>1, <1>4, <1>5 DEF OnlyCommand
<1>8. ClientOk(c)' /\ ~Launching(c) /\ ~Launching(c)'
  BY <1>3, <1>6 DEF ClientOk, Launching
<1>9. /\ UNCHANGED <<lease, unit, carrier, inflight, exec, worker, released, total,
                     served, writer, stray>>
      /\ pending' = pending
  BY DEF host, procs, work
<1> QED
  BY <1>7, <1>8, <1>9 DEF Talks

\* A new Action: nobody is in the slot, and the generation is a new one.
LEMMA NewActionKeeps ==
  ASSUME SpineIInv, NEW c \in Client, Talks(c), pending' = pending,
         NEW id \in ActionId, Claimed(id), RecordInv',
         Live(executor) => TokenOf(executor) \in fenced',
         OwnedInv', TargetInv'
  PROVE  SpineIInv'
<1>1. /\ UNCHANGED <<lease, unit, carrier, inflight, exec, worker, released, total,
                     served, writer, stray>>
      /\ unit' = unit /\ carrier' = carrier /\ inflight' = inflight
      /\ exec' = exec /\ worker' = worker /\ writer' = writer /\ stray' = stray
      /\ fenced \subseteq fenced'
  BY DEF Talks
<1>2. /\ ClientInv' /\ HostInv' /\ SpineTypeOK'
      /\ \A u \in Token : Able(u)' <=> Able(u)
      /\ \A d \in Client : /\ Launching(d)' <=> Launching(d)
                           /\ Launching(d) => Held(d)' = Held(d)
  BY TalksHost
<1>3. Recorded' /\ executor' = None
  BY DEF Claimed, Recorded
<1>4. \A u \in Token : ~Holds(u)' /\ ~Current(u)'
  BY <1>3 DEF Holds, Names, Current, ExecutorCurrent, RequireExecutor
<1>5. FreshInv'
  <2>1. \A u \in Token : ~Reserved(u)' => ~Reserved(u)
    BY ClaimReserved
  <2> QED
    BY <1>1, <1>2, <2>1 DEF SpineIInv, SpineInv, FreshInv
<1>6. SessionInv'
  <2>1. \A u \in Token : Holds(u) => u = TokenOf(executor)
    BY NamesFact DEF Holds
  <2>2. ASSUME NEW u \in Token, Able(u) PROVE u \in fenced'
    BY <1>1, <2>1, <2>2 DEF SpineIInv, SpineInv, SessionInv
  <2> QED
    BY <1>2, <1>4, <2>2 DEF SessionInv
<1>7. ExecInv'
  <2>1. ASSUME NEW u \in Token PROVE ExecOk(u)'
    BY <1>1, <1>4 DEF ExecOk, SpineIInv, SpineInv, ExecInv
  <2> QED
    BY <2>1 DEF ExecInv
<1>8. StrayInv' /\ SeenInv'
  <2>1. ASSUME NEW u \in Token PROVE StrayOk(u)' /\ SeenOk(u)'
    BY <1>1, <1>4 DEF StrayOk, SeenOk, SpineIInv, SpineInv, StrayInv
  <2> QED
    BY <2>1 DEF StrayInv, SeenInv
<1>9. WriterInv'
  <2>1. /\ action' # None /\ action'.gen \in Nat
        /\ action # None => action.gen \in Nat /\ action.gen < action'.gen
    BY DEF Claimed, SpineIInv, Recorded, TypeOK, Action
  <2>2. writer \in Nat
    BY DEF SpineIInv, SpineTypeOK
  <2> QED
    BY <1>1, <2>1, <2>2 DEF SpineIInv, SpineInv, WriterInv
<1>10. ControlIdle' /\ AdmissionInv'
  BY <1>3 DEF ControlIdle, AdmissionInv
<1> QED
  BY <1>2, <1>3, <1>5, <1>6, <1>7, <1>8, <1>9, <1>10 DEF SpineIInv, SpineInv

\* The target of a control Action that has ended: dead if it completed, carried
\* on if it failed, which nobody is in the slot for.
LEMMA ControlLeft ==
  ASSUME SpineIInv, ~Unfinished(action), action # None, action.target # None
  PROVE  \/ /\ action.status = "completed" /\ TargetQuiet
         \/ /\ action.status = "failed" /\ UnresolvedTarget(action) = action.target
            /\ ~Live(executor) /\ ActiveTarget = None
            /\ ControlTarget = action.target
<1>1. action \in Action /\ action.kind \in ControlKind
  BY RecordFact DEF SpineIInv, Recorded, RecordInv
<1>2. action.status \in {"completed", "failed"}
  BY <1>1 DEF Action
<1>3. CASE action.status = "completed"
  BY <1>3 DEF SpineIInv, SpineInv, TargetInv, TargetOpen
<1>4. CASE action.status = "failed"
  <2>1. ~Live(executor)
    BY <1>4 DEF SpineIInv, Recorded, RecordInv
  <2>2. executor # None => executor.workers = {}
    BY <1>1 DEF SpineIInv, SpineInv, ControlIdle
  <2>3. UnresolvedTarget(action) = action.target
    BY <1>1, <1>4 DEF UnresolvedTarget
  <2>4. ActiveTarget = None
    BY <2>1, <2>2 DEF ActiveTarget
  <2> QED
    BY <1>4, <2>1, <2>3, <2>4 DEF ControlTarget
<1> QED
  BY <1>2, <1>3, <1>4

LEMMA AdmitActionKeeps ==
  ASSUME SpineIInv, NEW c \in Client, Talks(c), pending' = pending,
         NEW id \in ActionId, NEW k \in Kind, NEW p \in Payload,
         PayloadRun[p] = None <=> k = "run", ClaimAction(id, k, p)
  PROVE  SpineIInv'
<1>1. /\ Claimed(id) /\ RecordInv'
      /\ ~Live(executor) /\ UnresolvedTarget(action) = None
      /\ action'.target = None
  BY ClaimActionEffect DEF SpineIInv
<1>2. worker' = worker
  BY DEF Talks
<1>3. \A w \in Worker : worker[w] = None
  <2>1. ASSUME NEW w \in Worker, worker[w] # None PROVE FALSE
    <3>1. /\ action # None /\ Names(action.target, worker[w])
          /\ action.target # None
      BY <1>1, <2>1 DEF SpineIInv, SpineInv, OwnedInv, Names
    <3>2. TargetQuiet
      BY <1>1, <3>1, ControlLeft DEF Claimed
    <3> QED
      BY <2>1, <3>1, <3>2 DEF TargetQuiet
  <2> QED
    BY <2>1
<1>4. OwnedInv' /\ TargetInv'
  BY <1>1, <1>2, <1>3 DEF OwnedInv, TargetInv
<1> QED
  BY <1>1, <1>4, NewActionKeeps

LEMMA AdmitControlKeeps ==
  ASSUME SpineIInv, NEW c \in Client, Talks(c), pending' = pending,
         NEW id \in ActionId, NEW k \in Kind, NEW p \in Payload,
         PayloadRun[p] = None <=> k = "run",
         ClaimControl(id, k, p, PayloadRun[p]),
         runs[PayloadRun[p]].status \notin ControlOutcome(k)
           \/ UnresolvedTarget(action) # None,
         fenced' = fenced \cup
           (IF ControlTarget = None THEN {} ELSE {TokenOf(ControlTarget)})
  PROVE  SpineIInv'
<1>1. /\ Claimed(id) /\ RecordInv'
      /\ action'.target = ControlTarget /\ action'.status = "applying"
      /\ action'.run = PayloadRun[p] /\ PayloadRun[p] \in RunId
      /\ UnresolvedTarget(action) # None => action.run = PayloadRun[p]
  BY ClaimControlEffect DEF SpineIInv
<1>2. /\ worker' = worker /\ exec' = exec
  BY DEF Talks
<1>3. /\ ~Unfinished(action) /\ runs' = runs /\ executor' = None
      /\ action' # None
  BY <1>1 DEF Claimed
<1>4. Live(executor) => TokenOf(executor) \in fenced'
  BY DEF ControlTarget, ActiveTarget
<1>5. OwnedInv'
  <2>1. ASSUME NEW w \in Worker, worker[w] # None
        PROVE  /\ Names(ControlTarget, worker[w])
               /\ w \in ControlTarget.workers
    <3>1. CASE Holds(worker[w]) /\ Live(executor) /\ w \in executor.workers
      BY <3>1 DEF ControlTarget, ActiveTarget, Holds, Names
    <3>2. CASE /\ action # None /\ Names(action.target, worker[w])
               /\ w \in action.target.workers
      <4>1. action.target # None /\ ~TargetQuiet
        BY <2>1, <3>2 DEF Names, TargetQuiet
      <4>2. ControlTarget = action.target
        BY <1>3, <3>2, <4>1, ControlLeft
      <4> QED
        BY <3>2, <4>2
    <3> QED
      BY <2>1, <3>1, <3>2 DEF SpineIInv, SpineInv, OwnedInv
  <2>2. ASSUME NEW w \in Worker, worker[w] # None
        PROVE  exec[worker[w]].pc \in DrivePc
    BY <2>2 DEF SpineIInv, SpineInv, OwnedInv
  <2> QED
    BY <1>1, <1>2, <1>3, <2>1, <2>2 DEF OwnedInv
<1>6. TargetInv'
  <2>1. \A u \in Token : ~Holds(u)'
    BY <1>3 DEF Holds, Names
  <2>2. ClosedRun \subseteq ControlOutcome(k)
    BY DEF ControlOutcome
  <2>3. CASE runs[PayloadRun[p]].status \notin ControlOutcome(k)
    <3>1. TargetOpen'
      BY <1>1, <1>3, <2>1, <2>2, <2>3 DEF TargetOpen
    <3> QED
      BY <3>1 DEF TargetInv
  <2>4. CASE UnresolvedTarget(action) # None
    <3>1. action # None /\ action.target # None /\ action.status = "failed"
      BY <2>4 DEF UnresolvedTarget
    <3>2. ControlTarget = action.target
      BY <1>3, <3>1, ControlLeft
    <3>3. CASE TargetQuiet
      BY <1>1, <1>2, <3>2, <3>3 DEF TargetQuiet, TargetInv, Names
    <3>4. CASE TargetOpen
      <4>1. TargetOpen'
        BY <1>1, <1>3, <2>1, <2>4, <3>4 DEF TargetOpen
      <4> QED
        BY <4>1 DEF TargetInv
    <3> QED
      BY <3>1, <3>3, <3>4 DEF SpineIInv, SpineInv, TargetInv
  <2> QED
    BY <2>3, <2>4
<1> QED
  BY <1>1, <1>4, <1>5, <1>6, NewActionKeeps

LEMMA AdmitKeeps ==
  ASSUME SpineIInv, NEW c \in Client, NEW id \in ActionId, Admit(c, id)
  PROVE  SpineIInv'
<1> DEFINE k == client[c].kind
           p == client[c].payload
<1>1. /\ client[c].pc = "admit"
      /\ UNCHANGED <<host, procs, work, writer, stray>> /\ pending' = pending
  BY DEF Admit, host
<1>2. /\ k \in Kind /\ p \in Payload
      /\ PayloadRun[p] = None <=> k = "run"
  BY <1>1 DEF SpineIInv, SpineInv, ClientInv
<1>3. fenced \subseteq Token
  BY DEF SpineIInv, SpineTypeOK
<1>4. CASE ClaimAttaches(k, p) /\ Holding(c, "inspect", action) /\ UNCHANGED <<vars, fenced>>
  <2>1. /\ action.id \in ActionId /\ action.gen \in 0..MaxGeneration
        /\ action.run \in RunId \cup {None}
    <3>1. action # None /\ action \in Action /\ action.gen <= MaxGeneration
      BY <1>4, RecordFact DEF ClaimAttaches, SpineIInv, Recorded, RecordInv
    <3> QED
      BY <3>1, ConstantsAssumption DEF Action
  <2>2. Talks(c)
    BY <1>1, <1>3, <1>4, <2>1, HoldingFact
  <2> QED
    BY <1>4, <2>2, ReadKeeps
<1>5. CASE /\ ClaimObserves(k, p) /\ UNCHANGED <<vars, fenced>>
           /\ Holding(c, "inspect", [action EXCEPT !.run = executor.run])
  <2> DEFINE a == [action EXCEPT !.run = executor.run]
  <2>1. /\ action # None /\ action \in Action /\ action.gen <= MaxGeneration
        /\ executor \in Executor
    BY <1>5, RecordFact DEF ClaimObserves, SpineIInv, Recorded, RecordInv
  <2>2. /\ a.id \in ActionId /\ a.gen \in 0..MaxGeneration
        /\ a.run \in RunId \cup {None}
    BY <2>1, ConstantsAssumption DEF Action, Executor
  <2>3. Holding(c, "inspect", a)
    BY <1>5
  <2> HIDE DEF a
  <2>4. Talks(c)
    BY <1>1, <1>3, <1>5, <2>2, <2>3, HoldingFact
  <2> QED
    BY <1>5, <2>4, ReadKeeps
<1>6. CASE /\ ClaimAction(id, k, p) /\ Holding(c, "inspect", action')
           /\ UNCHANGED fenced
  <2>1. Claimed(id)
    BY <1>2, <1>6, ClaimActionEffect DEF SpineIInv
  <2>2. /\ action'.id \in ActionId /\ action'.gen \in 0..MaxGeneration
        /\ action'.run \in RunId \cup {None}
    BY <2>1 DEF Claimed, TypeOK, Action
  <2>3. Talks(c)
    BY <1>1, <1>3, <1>6, <2>2, HoldingFact
  <2> QED
    BY <1>1, <1>2, <1>6, <2>3, AdmitActionKeeps
<1>7. CASE /\ ClaimControl(id, k, p, PayloadRun[p])
           /\ runs[PayloadRun[p]].status \notin ControlOutcome(k)
                \/ UnresolvedTarget(action) # None
           /\ Holding(c, "inspect", action')
           /\ fenced' = fenced \cup
                (IF ControlTarget = None THEN {} ELSE {TokenOf(ControlTarget)})
  <2>1. Claimed(id)
    BY <1>2, <1>7, ClaimControlEffect DEF SpineIInv
  <2>2. /\ action'.id \in ActionId /\ action'.gen \in 0..MaxGeneration
        /\ action'.run \in RunId \cup {None}
    BY <2>1 DEF Claimed, TypeOK, Action
  <2>3. fenced' \subseteq Token
    <3>1. ActiveTarget # None => TokenOf(ActiveTarget) \in Token
      BY SlotToken DEF ActiveTarget, SpineIInv
    <3>2. UnresolvedTarget(action) # None => TokenOf(UnresolvedTarget(action)) \in Token
      BY TargetFact DEF UnresolvedTarget, SpineIInv
    <3> QED
      BY <1>3, <1>7, <3>1, <3>2 DEF ControlTarget
  <2>4. Talks(c)
    BY <1>1, <1>7, <2>2, <2>3, HoldingFact
  <2> QED
    BY <1>1, <1>2, <1>7, <2>4, AdmitControlKeeps
<1> QED
  BY <1>4, <1>5, <1>6, <1>7 DEF Admit

-----------------------------------------------------------------------------
(* What a kept record rules out.                                           *)

\* A kept record is never rebuilt, and it never holds an Executor whose process
\* somebody has to prove or close.
LEMMA NeverRebuilt ==
  ASSUME SpineIInv, NEW c \in Client
  PROVE  ~Rebuild(c) /\ ~ProveExit(c) /\ ~ClosePredecessor(c)
<1>1. ~Rebuild(c)
  <2>1. SUFFICES ASSUME Rebuild(c) PROVE FALSE
    OBVIOUS
  <2>2. client[c].pc # "idle" /\ ~present /\ Req(c) # None /\ HasReceipt(Req(c))
    BY <2>1 DEF Rebuild, MustRebuild
  <2>3. Req(c) \in RunId
    BY <2>2, SubjectFact
  <2> QED
    BY <2>2, <2>3 DEF SpineIInv, Recorded, KeptInv
<1>2. executor # None => executor.origin = "reserved"
  BY DEF SpineIInv, Recorded, RecordInv
<1> QED
  BY <1>1, <1>2 DEF ProveExit, MustProve, ClosePredecessor, MustClose

LEMMA StutterKeeps ==
  ASSUME SpineIInv, UNCHANGED spine PROVE SpineIInv'
<1>1. /\ UNCHANGED <<client, host, exec, served, stray, fenced>> /\ UNCHANGED vars
      /\ UNCHANGED <<lease, unit, pending, carrier, inflight>>
      /\ worker' = worker /\ released' = released /\ total' = total
      /\ writer' = writer
  BY DEF spine, host, procs, work, ghosts
<1>2. action' = action /\ executor' = executor /\ runs' = runs
  BY <1>1 DEF vars
<1>3. SpineTypeOK'
  BY <1>1 DEF SpineIInv, SpineTypeOK
<1>4. OwnedInv' /\ ControlIdle' /\ AdmissionInv' /\ WriterInv'
  BY <1>1, <1>2 DEF SpineIInv, SpineInv, OwnedInv, ControlIdle, AdmissionInv,
                    WriterInv, Holds, Names
<1>5. TargetInv'
  BY <1>1, <1>2 DEF SpineIInv, SpineInv, TargetInv, TargetQuiet, TargetOpen, Holds,
                    Names
<1>6. SameMind
  BY <1>1, SameMindIfUnchanged
<1> QED
  BY <1>1, <1>3, <1>4, <1>5, <1>6, RecordStepKeeps

LEMMA InitInv ==
  ASSUME SpineInit PROVE SpineIInv
<1>1. Recorded
  <2>1. TypeOK /\ OwnershipInv
    BY InitType, InitOwns DEF SpineInit
  <2> QED
    BY <2>1 DEF SpineInit, Init, Recorded, KeptInv, RecordInv
<1>2. SpineTypeOK
  <2>1. Idle \in Command /\ Dead \in Process
    BY SpineAssumption, ConstantsAssumption
       DEF Idle, Dead, Command, Process, ClientStep, ExecStep
  <2>2. client \in [Client -> Command] /\ exec \in [Token -> Process]
    BY <2>1 DEF SpineInit
  <2>3. /\ unit \in [Token -> UnitState] /\ stray \in [Token -> Nat]
        /\ worker \in [Worker -> Token \cup {None}]
    BY DEF SpineInit, UnitState
  <2>4. /\ total \in [RunId -> 0..MaxResumes] /\ served \in [RunId -> 0..MaxResumes]
        /\ writer \in 0..MaxGeneration
    BY SpineAssumption, ConstantsAssumption DEF SpineInit
  <2>5. /\ lease \in Client \cup {None} /\ pending \subseteq Token
        /\ carrier \subseteq Token /\ inflight \subseteq Token
        /\ released \subseteq {w \in Worker : worker[w] # None}
        /\ fenced \subseteq Token
    BY DEF SpineInit
  <2> QED
    BY <2>2, <2>3, <2>4, <2>5 DEF SpineTypeOK, Command, Process
<1>3. /\ \A c \in Client : client[c].pc = "idle" /\ ~Launching(c)
      /\ \A t \in Token : exec[t].pc = "none" /\ ~Holds(t)
  BY DEF SpineInit, Init, Idle, Dead, Launching, Holds, Names
<1>4. ClientInv /\ HostInv /\ FreshInv
  BY <1>3, SpineAssumption DEF SpineInit, ClientInv, HostInv, FreshInv, Alive
<1>5. SessionInv
  BY <1>3 DEF SpineInit, SessionInv, Able, Working
<1>6. ExecInv /\ StrayInv /\ SeenInv
  BY <1>3 DEF SpineInit, ExecInv, ExecOk, StrayInv, StrayOk, SeenInv, SeenOk, RunPc
<1>7. WriterInv /\ OwnedInv /\ ControlIdle /\ TargetInv /\ AdmissionInv
  BY DEF SpineInit, Init, WriterInv, OwnedInv, ControlIdle, TargetInv, AdmissionInv
<1> QED
  BY <1>1, <1>2, <1>4, <1>5, <1>6, <1>7 DEF SpineIInv, SpineInv, Recorded

LEMMA CommandKeeps ==
  ASSUME SpineIInv, NEW c \in Client, CommandStep(c) \/ Leave(c) PROVE SpineIInv'
BY NeverRebuilt, SubmitKeeps, RecordInterruptionKeeps, CheckKeeps, AdmitKeeps,
   InspectKeeps, DecideKeeps, ReserveKeeps, MarkLaunchPendingKeeps, StartUnitKeeps,
   ObserveKeeps, LeaveKeeps DEF CommandStep

LEMMA ExecutorKeeps ==
  ASSUME SpineIInv, NEW t \in Token, ExecutorStep(t) PROVE SpineIInv'
<1>1. CASE \/ Boot(t) \/ Start(t) \/ Shake(t) \/ Claim(t) \/ Select(t) \/ Attach(t)
           \/ WriteReceipt(t) \/ Apply(t) \/ Complete(t)
  BY <1>1, BootKeeps, StartKeeps, ShakeKeeps, ClaimKeeps, SelectKeeps, AttachKeeps,
     WriteReceiptKeeps, ApplyKeeps, CompleteKeeps
<1>2. CASE \/ Terminate(t) \/ SaveOutcome(t)
           \/ \E w \in Worker : RegisterWorker(t, w)
           \/ \E status \in Outcome : DriveSave(t, status)
  BY <1>2, TerminateKeeps, SaveOutcomeKeeps, RegisterKeeps, DriveSaveKeeps
<1>3. CASE \/ FenceExternal(t) \/ External(t) \/ DriveReturns(t)
           \/ CloseAdmission(t) \/ Finish(t) \/ Exit(t)
  BY <1>3, FenceExternalKeeps, ExternalKeeps, DriveReturnsKeeps, CloseAdmissionKeeps,
     FinishKeeps, ExitKeeps
<1> QED
  BY <1>1, <1>2, <1>3 DEF ExecutorStep

\* As long as the record cannot be lost, every step keeps the invariant.
LEMMA SpineNextKeeps ==
  ASSUME Kept, SpineIInv, [SpineNext]_spine PROVE SpineIInv'
<1>1. CASE UNCHANGED spine
  BY <1>1, StutterKeeps
<1>2. CASE \E c \in Client : CommandStep(c) \/ Leave(c)
  BY <1>2, CommandKeeps
<1>3. CASE \E t \in Token : HostStep(t) \/ ExecutorStep(t) \/ DriveFails(t)
                            \/ Raise(t) \/ Crash(t)
  BY <1>3, StartsKeeps, DropsKeeps, ExpiresKeeps, ExecutorKeeps, DriveFailsKeeps,
     RaiseKeeps, CrashKeeps DEF HostStep
<1>4. CASE \E w \in Worker : ReleaseWorker(w) \/ WorkerEnds(w)
  BY <1>4, ReleaseKeeps, WorkerEndsKeeps
<1>5. CASE \E r \in RunId : AcceptTicketResume(r)
  BY <1>5, AcceptKeeps
<1>6. ~RecordLost
  BY DEF Kept, RecordLost
<1> QED
  BY <1>1, <1>2, <1>3, <1>4, <1>5, <1>6 DEF SpineNext

-----------------------------------------------------------------------------
(* What the invariant says of the sessions and their Workers.              *)

LEMMA SessionFact ==
  ASSUME SpineIInv PROVE OneSession
<1>1. ASSUME NEW t \in Token, NEW u \in Token, t # u, Working(t), Working(u)
      PROVE  Fenced(t) \/ Fenced(u)
  <2>1. Able(t) /\ Able(u)
    BY <1>1 DEF Able
  <2>2. /\ t \in fenced \/ Holds(t)
        /\ u \in fenced \/ Holds(u)
    BY <2>1 DEF SpineIInv, SpineInv, SessionInv
  <2> QED
    BY <1>1, <2>2, OneHolder DEF Fenced
<1> QED
  BY <1>1 DEF OneSession

LEMMA StrayFact ==
  ASSUME SpineIInv PROVE OneStrayStep
BY DEF SpineIInv, SpineInv, StrayInv, StrayOk, OneStrayStep

\* A completed Stop found its target open no longer, so the target is quiet.
LEMMA StopFact ==
  ASSUME SpineIInv PROVE StopEndsWorkers
<1>1. SUFFICES ASSUME action # None, action.status = "completed",
                      action.target # None, NEW w \in released
               PROVE  worker[w] # TokenOf(action.target)
  BY DEF StopEndsWorkers
<1>2. TargetQuiet
  BY <1>1 DEF SpineIInv, SpineInv, TargetInv, TargetOpen
<1>3. w \in Worker /\ worker[w] # None
  BY <1>1 DEF SpineIInv, SpineTypeOK
<1>4. /\ TokenOf(action.target) \in Token
      /\ Names(action.target, TokenOf(action.target))
  BY <1>1, TargetFact, NamesFact DEF SpineIInv
<1> QED
  BY <1>2, <1>3, <1>4 DEF TargetQuiet

\* The Executor of a control Action has no Worker of its own, so the Workers of
\* its target are the only ones.
LEMMA OwnerOfWorkers ==
  ASSUME SpineIInv PROVE OneWorkerOwner
<1>1. SUFFICES ASSUME NEW v \in released, NEW w \in released
               PROVE  worker[v] = worker[w]
  BY DEF OneWorkerOwner
<1>2. /\ v \in Worker /\ worker[v] # None /\ worker[v] \in Token
      /\ w \in Worker /\ worker[w] # None /\ worker[w] \in Token
  BY <1>1 DEF SpineIInv, SpineTypeOK
<1>3. ASSUME NEW x \in Worker, worker[x] # None,
             NEW y \in Worker, worker[y] # None,
             Holds(worker[x]), Live(executor), x \in executor.workers,
             action # None, Names(action.target, worker[y])
      PROVE  FALSE
  <2>1. action.kind \in ControlKind
    BY <1>3 DEF Names, SpineIInv, Recorded, RecordInv
  <2> QED
    BY <1>3, <2>1 DEF SpineIInv, SpineInv, ControlIdle
<1>4. \/ Holds(worker[v]) /\ Holds(worker[w])
      \/ Names(action.target, worker[v]) /\ Names(action.target, worker[w])
  BY <1>2, <1>3 DEF SpineIInv, SpineInv, OwnedInv
<1> QED
  BY <1>2, <1>4, NamesOne DEF Holds

LEMMA ServedFact ==
  ASSUME SpineIInv PROVE ResumesServed
BY DEF SpineIInv, SpineInv, AdmissionInv, ResumesServed

-----------------------------------------------------------------------------
(* Saves, in the order of their generations.                               *)

\* A transaction on a Run is made by the Executor in the slot, whose generation
\* nobody has saved beyond.
LEMMA SaveAdvances ==
  ASSUME SpineIInv, NEW id, NEW g, RequireExecutor(id, g)
  PROVE  g >= writer
<1>1. action # None /\ action.gen = g /\ action \in Action
  BY SlotFact, RecordFact DEF RequireExecutor, SpineIInv, Recorded
<1>2. g \in Nat /\ writer \in Nat
  BY <1>1 DEF Action, SpineIInv, SpineTypeOK
<1> QED
  BY <1>1, <1>2 DEF SpineIInv, SpineInv, WriterInv

LEMMA CommandsDoNotSave ==
  ASSUME NEW c \in Client, CommandStep(c) \/ Leave(c) PROVE writer' = writer
<1>1. CASE \/ \E k \in Kind, p \in Payload : Submit(c, k, p)
           \/ Rebuild(c) \/ ProveExit(c) \/ ClosePredecessor(c)
           \/ RecordInterruption(c) \/ Check(c)
  BY <1>1 DEF Submit, Rebuild, ProveExit, ClosePredecessor, RecordInterruption, Check,
              ghosts
<1>2. CASE \E id \in ActionId : Admit(c, id)
  BY <1>2 DEF Admit
<1>3. CASE Inspect(c) \/ Decide(c) \/ Reserve(c) \/ Observe(c)
  BY <1>3 DEF Inspect, Decide, Reserve, Observe, RecordHostExit, ghosts
<1>4. CASE MarkLaunchPending(c) \/ StartUnit(c) \/ Leave(c)
  BY <1>4 DEF MarkLaunchPending, StartUnit, Leave, ghosts
<1> QED
  BY <1>1, <1>2, <1>3, <1>4 DEF CommandStep

LEMMA ExecutorSaves ==
  ASSUME SpineIInv, NEW t \in Token, ExecutorStep(t)
  PROVE  writer' = writer \/ writer' >= writer
<1>1. CASE \/ Boot(t) \/ Start(t) \/ Shake(t) \/ Claim(t) \/ Attach(t)
           \/ Apply(t) \/ Complete(t) \/ Terminate(t)
  BY <1>1 DEF Boot, Start, Shake, Claim, Attach, Apply, Complete, Terminate,
              KeepProcs, ghosts
<1>2. CASE \/ FenceExternal(t) \/ External(t) \/ DriveReturns(t)
           \/ CloseAdmission(t) \/ Finish(t) \/ Exit(t)
           \/ \E w \in Worker : RegisterWorker(t, w)
  BY <1>2 DEF FenceExternal, External, DriveReturns, CloseAdmission, Finish, Exit,
              RegisterWorker, KeepProcs, ghosts
<1>3. CASE writer' = t[2] /\ RequireExecutor(t[1], t[2])
  BY <1>3, SaveAdvances
<1>4. CASE Select(t)
  BY <1>3, <1>4 DEF Select, SaveRun, CreateRun, ExecutorCurrent
<1>5. CASE WriteReceipt(t)
  BY <1>3, <1>5 DEF WriteReceipt, PersistReceipt, ExecutorCurrent
<1>6. CASE SaveOutcome(t)
  BY <1>3, <1>6 DEF SaveOutcome, SaveRun, ExecutorCurrent
<1>7. CASE \E status \in Outcome : DriveSave(t, status)
  BY <1>3, <1>7 DEF DriveSave, SaveRun, ExecutorCurrent
<1> QED
  BY <1>1, <1>2, <1>4, <1>5, <1>6, <1>7 DEF ExecutorStep

LEMMA SavesAdvance ==
  ASSUME SpineIInv, [SpineNext]_spine PROVE writer' = writer \/ writer' >= writer
<1>1. CASE UNCHANGED spine
  BY <1>1 DEF spine, ghosts
<1>2. CASE \E c \in Client : CommandStep(c) \/ Leave(c)
  BY <1>2, CommandsDoNotSave
<1>3. CASE \E t \in Token : HostStep(t) \/ DriveFails(t) \/ Raise(t) \/ Crash(t)
  BY <1>3 DEF HostStep, SystemdStarts, SystemdDrops, CarrierExpires, DriveFails,
              Raise, Crash, KeepProcs, ghosts
<1>4. CASE \E t \in Token : ExecutorStep(t)
  BY <1>4, ExecutorSaves
<1>5. CASE \E w \in Worker : ReleaseWorker(w) \/ WorkerEnds(w)
  BY <1>5 DEF ReleaseWorker, WorkerEnds, ghosts
<1>6. CASE \E r \in RunId : AcceptTicketResume(r)
  BY <1>6, SaveAdvances DEF AcceptTicketResume, ExecutorCurrent
<1>7. CASE RecordLost
  BY <1>7 DEF RecordLost, ghosts
<1> QED
  BY <1>1, <1>2, <1>3, <1>4, <1>5, <1>6, <1>7 DEF SpineNext

-----------------------------------------------------------------------------
(* The composed system on the abstract record.                             *)

\* A transaction of the Executor t, or on the evidence of its exit.
Transaction(t) ==
  \/ HolderStep(t[1], t[2])
  \/ CompleteAction(t[1], t[2], "completed")
  \/ \E r \in RunId : \/ BindRun(t[1], t[2], r)
                      \/ ReceiptStep(t[1], t[2], r)
                      \/ \E p \in Payload : RecordApplication(t[1], t[2], r, p)

\* A step leaves the owner of the record alone, or grants, suspends or fences.
RecordStep ==
  \/ UNCHANGED <<next, action, executor>>
  \/ \E t \in Token : Transaction(t)
  \/ Admission
  \/ \E id \in ActionId, r \in RunId \cup {None}, reclaim \in BOOLEAN :
       BeginExecutor(id, r, reclaim)

LEMMA RecordStepMaps ==
  ASSUME SpineIInv, SpineIInv', RecordStep PROVE AbstractStep
<1>1. IInv /\ TypeOK'
  BY DEF IInv, SpineIInv, Recorded
<1>2. CASE UNCHANGED <<next, action, executor>>
  <2>1. LastHolder' = LastHolder /\ FencedOff' = FencedOff
    BY <1>2 DEF LastHolder, FencedOff
  <2> QED
    BY <1>1, <2>1, SameHolder
<1>3. ASSUME NEW t \in Token, Transaction(t) PROVE AbstractStep
  <2>1. t[1] \in ActionId /\ t[2] \in 1..MaxGeneration
    BY TokenFact
  <2>2. CASE HolderStep(t[1], t[2])
    BY <1>1, <2>1, <2>2, HolderKeeps, KeptOwnerStep DEF IInv
  <2>3. CASE \E r \in RunId : ReceiptStep(t[1], t[2], r)
    BY <1>1, <2>1, <2>3, ReceiptKeeps, KeptOwnerStep DEF IInv
  <2>4. CASE \/ CompleteAction(t[1], t[2], "completed")
             \/ \E r \in RunId :
                  \/ BindRun(t[1], t[2], r)
                  \/ \E p \in Payload : RecordApplication(t[1], t[2], r, p)
    <3>1. Application
      BY <2>1, <2>4 DEF Application
    <3> QED
      BY <1>1, <3>1, ApplicationKeeps, KeptOwnerStep DEF IInv
  <2> QED
    BY <1>3, <2>2, <2>3, <2>4 DEF Transaction
<1>4. CASE Admission
  BY <1>1, <1>4, ClaimFences
<1>5. CASE \E id \in ActionId, r \in RunId \cup {None}, reclaim \in BOOLEAN :
             BeginExecutor(id, r, reclaim)
  BY <1>1, <1>5, BeginGrants
<1> QED
  BY <1>2, <1>3, <1>4, <1>5 DEF RecordStep

\* Whoever passes require_executor carries the token of the slot.
LEMMA SlotHolder ==
  ASSUME SpineIInv, NEW id, NEW g, RequireExecutor(id, g)
  PROVE  \E t \in Token : t[1] = id /\ t[2] = g
<1>1. executor # None /\ executor.id = id /\ executor.gen = g
  BY DEF RequireExecutor
<1>2. TokenOf(executor) \in Token
  BY <1>1, SlotToken DEF SpineIInv
<1>3. TokenOf(executor)[1] = id /\ TokenOf(executor)[2] = g
  BY <1>1 DEF TokenOf
<1> QED
  BY <1>2, <1>3

LEMMA FinishIsTransaction ==
  ASSUME SpineIInv, NEW id, NEW g, NEW failed \in BOOLEAN,
         FinishExecutor(id, g, failed)
  PROVE  RecordStep
<1>1. PICK t \in Token : t[1] = id /\ t[2] = g
  BY SlotHolder DEF FinishExecutor
<1>2. FinishExecutor(t[1], t[2], failed)
  BY <1>1
<1>3. Transaction(t)
  BY <1>2 DEF Transaction, HolderStep
<1> QED
  BY <1>3 DEF RecordStep

LEMMA ReceiptIsTransaction ==
  ASSUME SpineIInv, NEW r \in RunId,
         \/ FailSession(action.id, action.gen, r)
         \/ CompleteFromReceipt(action.id, action.gen, r, FALSE)
  PROVE  RecordStep
<1>1. PICK t \in Token : t[1] = action.id /\ t[2] = action.gen
  BY SlotHolder DEF FailSession, CompleteFromReceipt
<1>2. FailSession(t[1], t[2], r) \/ CompleteFromReceipt(t[1], t[2], r, FALSE)
  BY <1>1
<1>3. Transaction(t)
  BY <1>2 DEF Transaction, ReceiptStep
<1> QED
  BY <1>3 DEF RecordStep

LEMMA ReadIsStep ==
  ASSUME UNCHANGED vars PROVE RecordStep
BY DEF vars, RecordStep

LEMMA HostExitIsStep ==
  ASSUME SpineIInv, NEW c \in Client, NEW pc, RecordHostExit(c, pc)
  PROVE  RecordStep
<1> DEFINE t == Held(c)
<1>1. CASE UNCHANGED vars
  BY <1>1, ReadIsStep
<1>2. CASE FinishExecutorFromHost(t[1], t[2], client[c].run,
                                  Exited(t) \/ Unfinished(action))
  <2>1. (Exited(t) \/ Unfinished(action)) \in BOOLEAN
    BY DEF Exited
  <2> QED
    BY <1>2, <2>1, FinishIsTransaction DEF FinishExecutorFromHost
<1> QED
  BY <1>1, <1>2 DEF RecordHostExit

LEMMA CommandIsStep ==
  ASSUME SpineIInv, NEW c \in Client, CommandStep(c) \/ Leave(c) PROVE RecordStep
<1>1. CASE \/ \E k \in Kind, p \in Payload : Submit(c, k, p)
           \/ Check(c) \/ MarkLaunchPending(c) \/ Leave(c)
  BY <1>1, ReadIsStep DEF Submit, Check, MarkLaunchPending, Leave
<1>2. CASE Rebuild(c) \/ ProveExit(c) \/ ClosePredecessor(c)
  BY <1>2, NeverRebuilt
<1>3. CASE RecordInterruption(c)
  <2>1. /\ client[c].pc # "idle" /\ Req(c) # None
        /\ FailSession(action.id, action.gen, Req(c))
    BY <1>3 DEF RecordInterruption, MustInterrupt, ReceiptBound
  <2>2. Req(c) \in RunId
    BY <2>1, SubjectFact
  <2> QED
    BY <2>1, <2>2, ReceiptIsTransaction
<1>4. ASSUME NEW id \in ActionId, Admit(c, id) PROVE RecordStep
  <2> DEFINE k == client[c].kind
             p == client[c].payload
  <2>1. /\ k \in Kind /\ p \in Payload
        /\ PayloadRun[p] = None <=> k = "run"
    BY <1>4 DEF Admit, SpineIInv, SpineInv, ClientInv
  <2>2. CASE UNCHANGED vars
    BY <2>2, ReadIsStep
  <2>3. CASE ClaimAction(id, k, p)
    BY <2>1, <2>3 DEF Admission, RecordStep
  <2>4. CASE ClaimControl(id, k, p, PayloadRun[p])
    <3>1. PayloadRun[p] \in RunId
      BY <2>1, <2>4, ClaimControlEffect DEF SpineIInv
    <3> QED
      BY <2>1, <2>4, <3>1 DEF Admission, RecordStep
  <2> QED
    BY <1>4, <2>2, <2>3, <2>4 DEF Admit
<1>5. CASE Inspect(c)
  BY <1>5, HostExitIsStep, ReadIsStep DEF Inspect
<1>6. CASE Observe(c)
  BY <1>6, HostExitIsStep, ReadIsStep DEF Observe
<1>7. CASE Decide(c)
  <2>1. CASE UNCHANGED vars
    BY <2>1, ReadIsStep
  <2>2. CASE /\ client[c].pc # "idle" /\ Subject(c) # None
             /\ \/ FailSession(action.id, action.gen, Subject(c))
                \/ CompleteFromReceipt(action.id, action.gen, Subject(c), FALSE)
    <3>1. Subject(c) \in RunId
      BY <2>2, SubjectFact
    <3> QED
      BY <2>2, <3>1, ReceiptIsTransaction
  <2> QED
    BY <1>7, <2>1, <2>2 DEF Decide
<1>8. CASE Reserve(c)
  <2>1. CASE UNCHANGED vars
    BY <2>1, ReadIsStep
  <2>2. CASE BeginExecutor(client[c].id, client[c].run, client[c].pc = "renew")
    <3>1. client[c].id \in ActionId
      BY <1>8 DEF Reserve, SpineIInv, SpineInv, ClientInv
    <3>2. client[c].run \in RunId \cup {None}
      BY CommandFact DEF SpineIInv, Command
    <3>3. (client[c].pc = "renew") \in BOOLEAN
      OBVIOUS
    <3> QED
      BY <2>2, <3>1, <3>2, <3>3 DEF RecordStep
  <2> QED
    BY <1>8, <2>1, <2>2 DEF Reserve
<1>9. CASE StartUnit(c)
  BY <1>9, FinishIsTransaction, ReadIsStep DEF StartUnit
<1> QED
  BY <1>1, <1>2, <1>3, <1>4, <1>5, <1>6, <1>7, <1>8, <1>9 DEF CommandStep

LEMMA TransactionIsStep ==
  ASSUME NEW t \in Token, Transaction(t) PROVE RecordStep
BY DEF RecordStep

\* What an Executor does before it drives.
LEMMA StartupIsStep ==
  ASSUME SpineIInv, NEW t \in Token,
         \/ Boot(t) \/ Start(t) \/ Shake(t) \/ Claim(t) \/ Select(t) \/ Attach(t)
         \/ WriteReceipt(t) \/ Apply(t) \/ Complete(t)
  PROVE  RecordStep
<1>1. exec[t].pc \in RunPc => exec[t].run \in RunId
  BY DEF SpineIInv, SpineInv, ExecInv, ExecOk
<1>2. CASE Boot(t)
  BY <1>2, ReadIsStep DEF Boot
<1>3. CASE Start(t)
  <2>1. UNCHANGED vars \/ MarkProcessStarted(t[1], t[2], t)
    BY <1>3 DEF Start
  <2> QED
    BY <2>1, ReadIsStep, TransactionIsStep, SpineAssumption DEF Transaction, HolderStep
<1>4. CASE Shake(t)
  <2>1. MarkHandshake(t[1], t[2], t)
    BY <1>4 DEF Shake
  <2> QED
    BY <2>1, TransactionIsStep, SpineAssumption DEF Transaction, HolderStep
<1>5. CASE Claim(t) \/ Attach(t)
  <2>1. BindRun(t[1], t[2], exec[t].run) /\ exec[t].run \in RunId
    BY <1>1, <1>5 DEF Claim, Attach, At, RunPc, ExecStep
  <2> QED
    BY <2>1, TransactionIsStep DEF Transaction
<1>6. CASE Select(t) \/ WriteReceipt(t)
  <2>1. UNCHANGED vars \/ UNCHANGED record
    BY <1>6 DEF Select, WriteReceipt, SaveRun, CreateRun, PersistReceipt
  <2> QED
    BY <2>1 DEF vars, record, RecordStep
<1>7. CASE Apply(t)
  <2>1. /\ RecordApplication(t[1], t[2], exec[t].run, action.payload)
        /\ exec[t].run \in RunId
    BY <1>1, <1>7 DEF Apply, At, RunPc, ExecStep
  <2>2. action.payload \in Payload
    BY <2>1, RecordFact DEF RecordApplication, RequireActive, SpineIInv, Action
  <2> QED
    BY <2>1, <2>2, TransactionIsStep DEF Transaction
<1>8. CASE Complete(t)
  BY <1>8, TransactionIsStep DEF Complete, Transaction
<1> QED
  BY <1>2, <1>3, <1>4, <1>5, <1>6, <1>7, <1>8

\* What it does from there on, and how it ends.
LEMMA DrivingIsStep ==
  ASSUME SpineIInv, NEW t \in Token,
         \/ Terminate(t) \/ SaveOutcome(t)
         \/ \E w \in Worker : RegisterWorker(t, w)
         \/ \E status \in Outcome : DriveSave(t, status)
         \/ FenceExternal(t) \/ External(t) \/ DriveReturns(t) \/ CloseAdmission(t)
         \/ Finish(t) \/ Exit(t) \/ DriveFails(t) \/ Raise(t) \/ Crash(t)
  PROVE  RecordStep
<1>1. exec[t].pc \in RunPc => exec[t].run \in RunId
  BY DEF SpineIInv, SpineInv, ExecInv, ExecOk
<1>2. CASE Terminate(t) \/ FenceExternal(t) \/ External(t) \/ DriveReturns(t)
             \/ Exit(t) \/ Crash(t)
  BY <1>2, ReadIsStep
     DEF Terminate, FenceExternal, External, DriveReturns, Exit, Crash
<1>3. CASE SaveOutcome(t) \/ \E status \in Outcome : DriveSave(t, status)
  <2>1. UNCHANGED vars \/ UNCHANGED record
    BY <1>3 DEF SaveOutcome, DriveSave, SaveRun
  <2> QED
    BY <2>1 DEF vars, record, RecordStep
<1>4. ASSUME NEW w \in Worker, RegisterWorker(t, w) PROVE RecordStep
  <2>1. MarkWorkerStarted(t[1], t[2], w)
    BY <1>4 DEF RegisterWorker
  <2> QED
    BY <2>1, TransactionIsStep DEF Transaction, HolderStep
<1>5. CASE CloseAdmission(t) \/ DriveFails(t)
  <2>1. /\ exec[t].run \in RunId
        /\ \/ UNCHANGED vars
           \/ \E failed \in BOOLEAN : CloseTicketResume(t[1], t[2], exec[t].run, failed)
    BY <1>1, <1>5 DEF CloseAdmission, DriveFails, At, RunPc, ExecStep
  <2> QED
    BY <2>1, ReadIsStep, TransactionIsStep DEF Transaction, HolderStep
<1>6. CASE Finish(t) \/ Raise(t)
  BY <1>6, FinishIsTransaction, ReadIsStep DEF Finish, Raise
<1> QED
  BY <1>2, <1>3, <1>4, <1>5, <1>6

LEMMA SpineIsRecordStep ==
  ASSUME Kept, SpineIInv, [SpineNext]_spine PROVE RecordStep
<1>1. CASE UNCHANGED spine
  BY <1>1, ReadIsStep DEF spine
<1>2. CASE \E c \in Client : CommandStep(c) \/ Leave(c)
  BY <1>2, CommandIsStep
<1>3. ASSUME NEW t \in Token, HostStep(t) PROVE RecordStep
  BY <1>3, ReadIsStep DEF HostStep, SystemdStarts, SystemdDrops, CarrierExpires
<1>4. ASSUME NEW t \in Token, ExecutorStep(t) \/ DriveFails(t) \/ Raise(t) \/ Crash(t)
      PROVE  RecordStep
  BY <1>4, StartupIsStep, DrivingIsStep DEF ExecutorStep
<1>5. ASSUME NEW w \in Worker, ReleaseWorker(w) \/ WorkerEnds(w) PROVE RecordStep
  <2>1. UNCHANGED vars
        \/ (worker[w] # None /\ MarkWorkerFinished(worker[w][1], worker[w][2], w))
    BY <1>5 DEF ReleaseWorker, WorkerEnds
  <2>2. worker[w] # None => worker[w] \in Token
    BY DEF SpineIInv, SpineTypeOK
  <2> QED
    BY <2>1, <2>2, ReadIsStep, TransactionIsStep DEF Transaction, HolderStep
<1>6. CASE \E r \in RunId : AcceptTicketResume(r)
  BY <1>6 DEF AcceptTicketResume, SaveRun, record, RecordStep
<1>7. ~RecordLost
  BY DEF Kept, RecordLost
<1> QED
  BY <1>1, <1>2, <1>3, <1>4, <1>5, <1>6, <1>7 DEF SpineNext

-----------------------------------------------------------------------------
(* The record next to the Run it belongs to.                               *)

\* The task and the slot are bound to the Run of the Action, and an Executor
\* that is gone has ended its Action.
BoundInv ==
  /\ taskRun = IF action = None THEN None ELSE action.run
  /\ executor # None =>
       /\ executor.run = action.run
       /\ Gone(executor) => Terminal(action)

\* How far an Action came, and that its receipt is in its Run once applied.
ActionInv ==
  action # None =>
    /\ action.held
    /\ action.status = "failed" => Gone(executor)
    /\ action.status = "completed" => action.applied
    /\ action.kind # "run" => action.run \in {None, PayloadRun[action.payload]}
    /\ action.applied =>
         /\ action.run # None
         /\ HasReceipt(action.run) /\ runs[action.run].receipt.id = action.id

\* A receipt is of the current Action, or of one in the history unless the
\* history had no room.
ReceiptInv ==
  \A r \in RunId : HasReceipt(r) =>
    LET c == runs[r].receipt
    IN  IF action # None /\ action.id = c.id
        THEN MatchesReceipt(action, c) /\ action.gen = c.gen
        ELSE InHistory(c) \/ PushedOut(c)

\* The history is in the order of the generations.
OrderInv ==
  \A i, j \in 1..Len(history) :
    i < j => history[i].action.gen < history[j].action.gen

ReadInv == BoundInv /\ ActionInv /\ ReceiptInv /\ OrderInv

\* The Run a command has in mind is that of its Action.
MindOk(c) ==
  client[c].id # None =>
    /\ client[c].id \in issued
    /\ action # None /\ client[c].id = action.id =>
         client[c].run \in {None, action.run}

MindInv == \A c \in Client : MindOk(c)

QuietPc   == {"none", "boot", "tail"}
AppliedPc == {"complete", "terminate", "outcome", "drive", "external", "failing",
              "close", "finish"}

\* The Executor in the slot works on the Run its Action names, and drives or
\* finishes only what it applied.
DoneOk(t) ==
  Holds(t) =>
    /\ exec[t].pc \notin QuietPc /\ action.kind # "run" =>
         exec[t].run = PayloadRun[action.payload]
    /\ exec[t].pc = "apply" =>
         HasReceipt(exec[t].run) /\ runs[exec[t].run].receipt.id = action.id
    /\ exec[t].pc \in AppliedPc => action.applied

DoneInv == \A t \in Token : DoneOk(t)

ReadIInv == SpineIInv /\ ReadInv /\ MindInv /\ DoneInv

\* The Action goes on under what it carries.
MovesOn ==
  /\ SameRecord
  /\ action'.held = action.held
  /\ action.applied => action'.applied

-----------------------------------------------------------------------------
(* What the steps of the record keep.                                      *)

LEMMA ReadMoves ==
  ASSUME Recorded, ReadInv, MovesOn,
         taskRun' = action'.run,
         executor # None =>
           executor'.run = action'.run /\ (Gone(executor)' => Terminal(action)'),
         action'.status = "failed" => Gone(executor)',
         action'.status = "completed" => action'.applied,
         action'.run = action.run
           \/ (action.kind # "run" => action'.run = PayloadRun[action.payload]),
         action'.applied =>
           \/ action.applied
           \/ /\ action'.run \in RunId /\ runs[action'.run].receipt # None
              /\ runs[action'.run].receipt.id = action.id
  PROVE  ReadInv'
<1>1. /\ action # None /\ action' # None /\ action'.id = action.id
      /\ action'.gen = action.gen /\ action'.kind = action.kind
      /\ action'.payload = action.payload /\ history' = history
      /\ action.run # None => action'.run = action.run
      /\ executor' = None <=> executor = None
      /\ \A r \in RunId : runs'[r].receipt = runs[r].receipt
  BY DEF MovesOn, SameRecord, KeepsOwner
<1>2. BoundInv'
  BY <1>1 DEF BoundInv
<1>3. ActionInv'
  <2>1. action.run \in RunId \cup {None}
    BY <1>1, RecordFact DEF Action
  <2>2. action.applied => /\ action.run # None /\ HasReceipt(action.run)
                          /\ runs[action.run].receipt.id = action.id
    BY <1>1 DEF ReadInv, ActionInv
  <2>3. action'.applied => /\ action'.run # None /\ runs'[action'.run].receipt # None
                           /\ runs'[action'.run].receipt.id = action.id
    BY <1>1, <2>1, <2>2, ConstantsAssumption
  <2>4. action'.kind # "run" => action'.run \in {None, PayloadRun[action'.payload]}
    BY <1>1 DEF ReadInv, ActionInv
  <2> QED
    BY <1>1, <2>3, <2>4 DEF ReadInv, ActionInv, MovesOn
<1>4. ReceiptInv'
  <2>1. ASSUME NEW r \in RunId, HasReceipt(r)'
        PROVE  LET c == runs[r].receipt IN
               IF action' # None /\ action'.id = c.id
               THEN MatchesReceipt(action', c) /\ action'.gen = c.gen
               ELSE InHistory(c)' \/ PushedOut(c)'
    <3>1. HasReceipt(r)
      BY <1>1, <2>1
    <3> DEFINE c == runs[r].receipt
    <3>2. IF action # None /\ action.id = c.id
          THEN MatchesReceipt(action, c) /\ action.gen = c.gen
          ELSE InHistory(c) \/ PushedOut(c)
      BY <3>1 DEF ReadInv, ReceiptInv
    <3>3. /\ MatchesReceipt(action, c) <=> MatchesReceipt(action', c)
          /\ InHistory(c) => InHistory(runs[r].receipt)'
          /\ PushedOut(c) => PushedOut(runs[r].receipt)'
      BY <1>1 DEF MatchesReceipt, InHistory, PushedOut
    <3> QED
      BY <1>1, <3>2, <3>3
  <2> QED
    BY <1>1, <2>1 DEF ReceiptInv
<1>5. OrderInv'
  BY <1>1 DEF ReadInv, OrderInv
<1> QED
  BY <1>2, <1>3, <1>4, <1>5 DEF ReadInv

\* Of the slot only what does not tell a story has changed.
LEMMA SlotReads ==
  ASSUME Recorded, ReadInv, SameRecord, action' = action, taskRun' = taskRun,
         executor # None => executor'.status = executor.status
                            /\ executor'.run = executor.run
  PROVE  ReadInv' /\ MovesOn
<1>1. MovesOn
  BY DEF MovesOn
<1>2. executor' = None <=> executor = None
  BY DEF SameRecord, KeepsOwner
<1>3. action # None
  BY DEF SameRecord, KeepsOwner
<1> QED
  BY <1>1, <1>2, <1>3, ReadMoves DEF ReadInv, BoundInv, ActionInv

LEMMA BindReads ==
  ASSUME Recorded, ReadInv, NEW t \in Token, NEW r \in RunId, Holds(t),
         BindRun(t[1], t[2], r),
         action.kind # "run" => r = PayloadRun[action.payload]
  PROVE  ReadInv' /\ MovesOn
<1>1. /\ SameRecord /\ SameSlot /\ action'.run = r /\ executor'.run = r
      /\ action'.status = action.status
  BY BindRunEffect
<1>2. /\ action' = [action EXCEPT !.run = r] /\ taskRun' = r
      /\ Unfinished(action) /\ action \in Action
  BY RecordFact DEF BindRun, RequireActive
<1>3. action'.held = action.held /\ action'.applied = action.applied
  BY <1>2 DEF Action
<1>4. MovesOn
  BY <1>1, <1>3 DEF MovesOn
<1>5. executor # None => ~Gone(executor) /\ executor' # None
  BY <1>1, <1>2 DEF ReadInv, BoundInv, SameRecord, KeepsOwner
<1> QED
  BY <1>1, <1>2, <1>3, <1>4, <1>5, ReadMoves DEF SameSlot

LEMMA ApplicationReads ==
  ASSUME Recorded, ReadInv, NEW t \in Token, NEW r \in RunId, NEW p \in Payload,
         RecordApplication(t[1], t[2], r, p), executor.run = r,
         runs[r].receipt # None, runs[r].receipt.id = action.id
  PROVE  ReadInv' /\ MovesOn /\ action'.applied
<1>1. /\ SameRecord /\ executor' = executor /\ action'.run = r
      /\ action'.status = action.status
  BY RecordApplicationEffect
<1>2. /\ action' = [action EXCEPT !.run = r, !.applied = TRUE] /\ taskRun' = r
      /\ Unfinished(action) /\ action \in Action /\ executor # None
  BY RecordFact DEF RecordApplication, RequireActive, RequireExecutor
<1>3. action'.held = action.held /\ action'.applied
  BY <1>2 DEF Action
<1>4. MovesOn
  BY <1>1, <1>3 DEF MovesOn
<1>5. action.run = r /\ ~Gone(executor)
  BY <1>2 DEF ReadInv, BoundInv
<1> QED
  BY <1>1, <1>2, <1>3, <1>4, <1>5, ReadMoves

LEMMA CompletionReads ==
  ASSUME Recorded, ReadInv, NEW t \in Token, CompleteAction(t[1], t[2], "completed")
  PROVE  ReadInv' /\ MovesOn
<1>1. /\ SameRecord /\ executor' = executor /\ action'.run = action.run
      /\ action'.status = "completed"
  BY CompleteActionEffect
<1>2. /\ action' = [action EXCEPT !.status = "completed"] /\ taskRun' = taskRun
      /\ action.applied /\ action # None /\ action \in Action
  BY RecordFact DEF CompleteAction, RequireActive
<1>3. action'.held = action.held /\ action'.applied = action.applied
  BY <1>2 DEF Action
<1>4. MovesOn
  BY <1>1, <1>3 DEF MovesOn
<1>5. Terminal(action)'
  BY <1>1 DEF SameRecord, KeepsOwner
<1>6. taskRun = action.run /\ (executor # None => executor.run = action.run)
  BY <1>2 DEF ReadInv, BoundInv
<1> QED
  BY <1>1, <1>2, <1>3, <1>4, <1>5, <1>6, ReadMoves

LEMMA HandshakeReads ==
  ASSUME Recorded, ReadInv, NEW t \in Token, MarkHandshake(t[1], t[2], t)
  PROVE  ReadInv' /\ MovesOn
<1>1. /\ SameRecord /\ Live(executor)' /\ executor'.run = executor.run
      /\ action'.run = action.run /\ action'.status = "applying"
  BY HandshakeEffect
<1>2. /\ action' = [action EXCEPT !.status = "applying"] /\ taskRun' = taskRun
      /\ action # None /\ action \in Action /\ executor # None
  BY RecordFact DEF MarkHandshake, RequireActive, RequireExecutor
<1>3. action'.held = action.held /\ action'.applied = action.applied
  BY <1>2 DEF Action
<1>4. MovesOn
  BY <1>1, <1>3 DEF MovesOn
<1>5. taskRun = action.run /\ executor.run = action.run
  BY <1>2 DEF ReadInv, BoundInv
<1> QED
  BY <1>1, <1>2, <1>3, <1>4, <1>5, ReadMoves

LEMMA FinishReads ==
  ASSUME Recorded, ReadInv, NEW t \in Token, NEW failed \in BOOLEAN,
         FinishExecutor(t[1], t[2], failed),
         failed \/ ~Unfinished(action) \/ action.applied
  PROVE  ReadInv' /\ MovesOn
<1>1. /\ SameRecord /\ executor'.status = "exited" /\ executor'.run = executor.run
      /\ action'.run = action.run
      /\ action'.status = IF action.status \in ActiveStatus
                          THEN IF failed THEN "failed" ELSE "completed"
                          ELSE action.status
  BY FinishEffect
<1>2. /\ action' = Closed(action, failed) /\ taskRun' = taskRun
      /\ action # None /\ action \in Action /\ executor # None
  BY RecordFact DEF FinishExecutor, RequireExecutor
<1>3. action'.held = action.held /\ action'.applied = action.applied
  BY <1>2 DEF Closed, Action
<1>4. MovesOn
  BY <1>1, <1>3 DEF MovesOn
<1>5. taskRun = action.run /\ executor.run = action.run
  BY <1>2 DEF ReadInv, BoundInv
<1>6. action' # None /\ executor' # None
  BY <1>1, <1>2 DEF SameRecord, KeepsOwner
<1>7. Terminal(action)' /\ Gone(executor)'
  BY <1>1, <1>2, <1>6 DEF Action
<1>8. action'.status = "completed" => action'.applied
  BY <1>1, <1>2, <1>3 DEF ReadInv, ActionInv
<1> QED
  BY <1>1, <1>2, <1>3, <1>4, <1>5, <1>7, <1>8, ReadMoves

\* The receipt that closes an Action is of the Run the Action is bound to.
LEMMA ProvenRun ==
  ASSUME Recorded, NEW id, NEW g, NEW r \in RunId,
         action # None, HasReceipt(r), ReceiptProves(id, g, r)
  PROVE  action.run = r /\ runs[r].receipt # None
         /\ runs[r].receipt.id = action.id
BY DEF ReceiptProves, MatchesReceipt, Recorded, OwnershipInv, ReceiptsGenuine

LEMMA FailReads ==
  ASSUME Recorded, ReadInv, NEW t \in Token, NEW r \in RunId,
         FailSession(t[1], t[2], r)
  PROVE  ReadInv' /\ MovesOn
<1>1. /\ SameRecord /\ executor'.run = r /\ action'.run = r
      /\ action.status = "completed" <=> action'.status = "completed"
  BY FailSessionEffect
<1>2. /\ action' = [Closed(action, TRUE) EXCEPT !.run = r, !.applied = TRUE]
      /\ taskRun' = r /\ executor'.status = "exited"
      /\ action # None /\ action \in Action /\ executor # None
  BY RecordFact DEF FailSession, RequireExecutor, Executor
<1>3. /\ action'.held = action.held /\ action'.applied
      /\ action'.status \in TerminalStatus
  <2> DEFINE a == Closed(action, TRUE)
  <2>1. a \in Action /\ a.held = action.held /\ a.status \in TerminalStatus
    BY <1>2 DEF Closed, Action
  <2>2. action' = [a EXCEPT !.run = r, !.applied = TRUE]
    BY <1>2
  <2> HIDE DEF a
  <2> QED
    BY <2>1, <2>2 DEF Action
<1>4. MovesOn
  BY <1>1, <1>3 DEF MovesOn
<1>5. action.run = r /\ runs[r].receipt # None /\ runs[r].receipt.id = action.id
  BY <1>2, ProvenRun DEF FailSession
<1>6. action' # None /\ executor' # None
  BY <1>1, <1>2 DEF SameRecord, KeepsOwner
<1> QED
  BY <1>1, <1>2, <1>3, <1>4, <1>5, <1>6, ReadMoves

LEMMA ReceiptReads ==
  ASSUME Recorded, ReadInv, NEW t \in Token, NEW r \in RunId,
         CompleteFromReceipt(t[1], t[2], r, FALSE)
  PROVE  ReadInv' /\ MovesOn
<1>1. SameRecord /\ SameSlot /\ executor'.run = r /\ action'.run = r
  BY CompleteReceiptEffect
<1>2. /\ action' = [action EXCEPT !.run = r, !.applied = TRUE, !.status = "completed"]
      /\ taskRun' = r /\ action # None /\ action \in Action /\ executor # None
  BY RecordFact DEF CompleteFromReceipt, RequireExecutor
<1>3. action'.held = action.held /\ action'.applied /\ action'.status = "completed"
  BY <1>2 DEF Action
<1>4. MovesOn
  BY <1>1, <1>3 DEF MovesOn
<1>5. action.run = r /\ runs[r].receipt # None /\ runs[r].receipt.id = action.id
  BY <1>2, ProvenRun DEF CompleteFromReceipt
<1>6. action' # None
  BY <1>1 DEF SameRecord, KeepsOwner
<1> QED
  BY <1>1, <1>2, <1>3, <1>4, <1>5, <1>6, ReadMoves

\* Archiving appends the Action, and drops the oldest entry of a full history.
LEMMA ArchiveShifts ==
  ASSUME TypeOK, action \in Action
  PROVE  \E k \in {0, 1} :
           /\ k = 1 => Len(history) = MaxHistory
           /\ Len(Archived) = Len(history) + 1 - k
           /\ \A i \in 1..Len(Archived) :
                Archived[i].action = IF i + k = Len(history) + 1 THEN action
                                     ELSE history[i + k].action
<1> DEFINE e == [run |-> taskRun, action |-> action, executor |-> executor]
           all == Append(history, e)
<1>1. e \in Entry /\ e.action = action
  BY DEF TypeOK, Entry
<1>2. /\ history \in Seq(Entry) /\ Len(history) \in Nat /\ Len(history) <= MaxHistory
      /\ MaxHistory \in Nat \ {0}
  BY ConstantsAssumption DEF TypeOK
<1>3. /\ all \in Seq(Entry) /\ Len(all) = Len(history) + 1
      /\ \A i \in 1..Len(all) :
           all[i].action = IF i = Len(history) + 1 THEN action ELSE history[i].action
  BY <1>1, <1>2
<1>4. Archived = IF Len(all) > MaxHistory
                 THEN SubSeq(all, Len(all) - MaxHistory + 1, Len(all)) ELSE all
  BY DEF Archived
<1> HIDE DEF e, all
<1>5. CASE Len(all) > MaxHistory
  <2>1. Len(history) = MaxHistory
    BY <1>2, <1>3, <1>5
  <2>2. Archived = SubSeq(all, 2, Len(all))
    BY <1>2, <1>3, <1>4, <1>5, <2>1
  <2>3. Len(Archived) = Len(history)
    BY <1>2, <1>3, <2>2
  <2>4. \A i \in 1..Len(Archived) : Archived[i] = all[i + 1] /\ i + 1 \in 1..Len(all)
    BY <1>2, <1>3, <2>2, <2>3
  <2>5. WITNESS 1 \in {0, 1}
  <2> QED
    BY <1>2, <1>3, <2>1, <2>3, <2>4
<1>6. CASE ~(Len(all) > MaxHistory)
  <2>1. Archived = all
    BY <1>4, <1>6
  <2>2. WITNESS 0 \in {0, 1}
  <2> QED
    BY <1>2, <1>3, <2>1
<1> QED
  BY <1>5, <1>6

LEMMA ArchiveReads ==
  ASSUME Recorded, OrderInv, action # None, history' = Archived
  PROVE  /\ OrderInv'
         /\ \A c : c.gen \in Nat =>
              /\ ReceiptOf(action, c) /\ action.gen = c.gen => InHistory(c)'
              /\ InHistory(c) => InHistory(c)' \/ PushedOut(c)'
              /\ PushedOut(c) => PushedOut(c)'
<1>1. TypeOK /\ action \in Action /\ action.gen \in Nat
  BY RecordFact DEF Recorded, Action
<1>2. PICK k \in {0, 1} :
        /\ k = 1 => Len(history) = MaxHistory
        /\ Len(Archived) = Len(history) + 1 - k
        /\ \A i \in 1..Len(Archived) :
             Archived[i].action = IF i + k = Len(history) + 1 THEN action
                                  ELSE history[i + k].action
  BY <1>1, ArchiveShifts
<1> DEFINE n == Len(history)
           h(i) == history[i].action
           g(i) == history'[i].action
<1>3. /\ n \in Nat /\ n <= MaxHistory /\ MaxHistory \in Nat \ {0}
      /\ Len(history') = n + 1 - k
      /\ \A i \in 1..Len(history') : g(i) = IF i + k = n + 1 THEN action ELSE h(i + k)
  BY <1>1, <1>2, ConstantsAssumption DEF TypeOK
<1>4. \A i \in 1..n : h(i).gen \in Nat /\ h(i).gen < action.gen
  BY <1>1, HistoryFact DEF Recorded, OwnershipInv, GenerationsSpent
<1>5. \A i, j \in 1..n : i < j => h(i).gen < h(j).gen
  BY DEF OrderInv
<1> HIDE DEF h
<1>6. \A i, j \in 1..Len(history') : i < j => g(i).gen < g(j).gen
  <2> HIDE DEF g, n
  <2>1. TAKE i, j \in 1..Len(history')
  <2>2. HAVE i < j
  <2>3. i + k \in 1..n /\ g(i) = h(i + k)
    BY <1>3, <2>2
  <2>4. CASE j + k = n + 1
    BY <1>3, <1>4, <2>3, <2>4
  <2>5. CASE j + k # n + 1
    <3>1. j + k \in 1..n /\ g(j) = h(j + k) /\ i + k < j + k
      BY <1>3, <2>2, <2>5
    <3> QED
      BY <1>5, <2>3, <3>1
  <2> QED
    BY <2>4, <2>5
<1>7. OrderInv'
  BY <1>6 DEF OrderInv
<1>8. ASSUME NEW c, c.gen \in Nat, ReceiptOf(action, c), action.gen = c.gen
      PROVE  InHistory(c)'
  <2>1. n + 1 - k \in 1..Len(history')
    BY <1>3, <1>2
  <2>2. g(n + 1 - k) = action
    BY <1>3, <2>1
  <2> QED
    BY <1>8, <2>1, <2>2 DEF InHistory
<1>9. ASSUME NEW c, c.gen \in Nat, InHistory(c)
      PROVE  InHistory(c)' \/ PushedOut(c)'
  <2>1. PICK i \in 1..n : ReceiptOf(h(i), c) /\ h(i).gen = c.gen
    BY <1>9 DEF InHistory, h
  <2>2. CASE i > k
    <3>1. /\ i - k \in 1..Len(history')
          /\ g(i - k) = h(i)
      BY <1>3, <2>1, <2>2
    <3> QED
      BY <2>1, <3>1 DEF InHistory
  <2>3. CASE ~(i > k)
    <3>1. k = 1 /\ i = 1 /\ n = MaxHistory
      BY <1>2, <1>3, <2>1, <2>3
    <3>2. ASSUME NEW j \in 1..MaxHistory PROVE g(j).gen > c.gen
      <4>1. j \in 1..Len(history')
        BY <1>3, <3>1
      <4>2. CASE j + 1 = n + 1
        BY <1>1, <1>3, <1>4, <2>1, <3>1, <4>1, <4>2
      <4>3. CASE j + 1 # n + 1
        <5>1. j + 1 \in 1..n /\ g(j) = h(j + 1) /\ 1 < j + 1
          BY <1>3, <3>1, <4>1, <4>3
        <5> QED
          BY <1>4, <1>5, <2>1, <3>1, <5>1
      <4> QED
        BY <4>2, <4>3
    <3>3. Len(history') = MaxHistory
      BY <1>3, <3>1
    <3> QED
      BY <3>2, <3>3 DEF PushedOut
  <2> QED
    BY <2>2, <2>3
<1>10. ASSUME NEW c, c.gen \in Nat, PushedOut(c)
       PROVE  PushedOut(c)'
  <2>1. n = MaxHistory /\ \A i \in 1..n : h(i).gen > c.gen
    BY <1>10 DEF PushedOut, h
  <2>2. k = 1
    <3>1. Len(history') <= MaxHistory
      BY <1>1, ArchivedFact
    <3> QED
      BY <1>3, <2>1, <3>1
  <2>3. ASSUME NEW j \in 1..MaxHistory PROVE g(j).gen > c.gen
    <3>1. j \in 1..Len(history')
      BY <1>3, <2>1, <2>2
    <3>2. CASE j + 1 = n + 1
      <4>1. n \in 1..n
        BY <1>3, <2>1
      <4>2. h(n).gen > c.gen /\ h(n).gen < action.gen /\ h(n).gen \in Nat
        BY <1>4, <2>1, <4>1
      <4>3. g(j) = action
        BY <1>3, <2>2, <3>1, <3>2
      <4> QED
        BY <1>1, <1>10, <4>2, <4>3
    <3>3. CASE j + 1 # n + 1
      BY <1>3, <2>1, <2>2, <3>1, <3>3
    <3> QED
      BY <3>2, <3>3
  <2>4. Len(history') = MaxHistory
    BY <1>3, <2>1, <2>2
  <2> QED
    BY <2>3, <2>4 DEF PushedOut
<1> QED
  BY <1>7, <1>8, <1>9, <1>10

\* The Run store under an unchanged record, and receipts that stay.
LEMMA StoreReads ==
  ASSUME Recorded, ReadInv, UNCHANGED <<record, issued>>,
         \A r \in RunId : runs'[r].receipt = runs[r].receipt
  PROVE  ReadInv'
<1>1. /\ taskRun' = taskRun /\ action' = action /\ executor' = executor
      /\ history' = history
  BY DEF record
<1>2. BoundInv' /\ OrderInv'
  BY <1>1 DEF ReadInv, BoundInv, OrderInv
<1>3. ActionInv'
  <2>1. action # None => action.run \in RunId \cup {None}
    BY RecordFact DEF Action
  <2> QED
    BY <1>1, <2>1 DEF ReadInv, ActionInv
<1>4. ReceiptInv'
  <2>1. \A c : /\ InHistory(c)' <=> InHistory(c)
               /\ PushedOut(c)' <=> PushedOut(c)
               /\ MatchesReceipt(action, c)' <=> MatchesReceipt(action, c)
    BY <1>1 DEF InHistory, PushedOut, MatchesReceipt
  <2> QED
    BY <1>1, <2>1 DEF ReadInv, ReceiptInv
<1> QED
  BY <1>2, <1>3, <1>4 DEF ReadInv

\* The receipt saved is that of the Action, under the generation in the slot.
LEMMA PersistReads ==
  ASSUME Recorded, ReadInv, NEW t \in Token, NEW r \in RunId, NEW owner,
         PersistReceipt(t[1], t[2], r, owner)
  PROVE  ReadInv' /\ runs'[r].receipt # None /\ runs'[r].receipt.id = action.id
<1>1. UNCHANGED <<record, issued>> /\ Recorded'
  BY PersistEffect
<1>2. /\ taskRun' = taskRun /\ action' = action /\ executor' = executor
      /\ history' = history
  BY <1>1 DEF record
<1>3. /\ action # None /\ action.id = t[1] /\ action.run = r /\ executor # None
      /\ executor.gen = t[2]
  BY DEF PersistReceipt, ExecutorCurrent, RequireExecutor
<1>4. action.gen = t[2]
  BY <1>3, SlotToken
<1>5. /\ runs'[r].receipt =
           [id |-> t[1], kind |-> action.kind, payload |-> action.payload, run |-> r,
            gen |-> t[2],
            target |-> IF action.kind \in ControlKind THEN action.target ELSE None]
      /\ \A q \in RunId : q # r => runs'[q] = runs[q]
  BY DEF PersistReceipt, Recorded, TypeOK, Run
<1>6. runs'[r].receipt \in Receipt \cup {None}
  BY <1>1 DEF Recorded, TypeOK, Run
<1>7. runs'[r].receipt # None
  <2>1. [id |-> t[1], kind |-> action.kind, payload |-> action.payload, run |-> r,
         gen |-> t[2],
         target |-> IF action.kind \in ControlKind THEN action.target ELSE None]
          \in Receipt
    <3>1. action \in Action /\ t[1] \in ActionId /\ t[2] \in Nat \ {0}
      BY <1>3, <1>4, RecordFact, TokenFact DEF Action
    <3> QED
      BY <3>1 DEF Action, Receipt
  <2> QED
    BY <1>5, <2>1, NoneAssumption
<1>8. BoundInv' /\ OrderInv'
  BY <1>2 DEF ReadInv, BoundInv, OrderInv
<1>9. ActionInv'
  BY <1>2, <1>3, <1>5, <1>7 DEF ReadInv, ActionInv
<1>10. ReceiptInv'
  <2>1. \A c : /\ InHistory(c)' <=> InHistory(c)
               /\ PushedOut(c)' <=> PushedOut(c)
               /\ MatchesReceipt(action, c)' <=> MatchesReceipt(action, c)
    BY <1>2 DEF InHistory, PushedOut, MatchesReceipt
  <2>2. MatchesReceipt(action, runs'[r].receipt) /\ action.gen = runs'[r].receipt.gen
    BY <1>3, <1>4, <1>5, <1>7 DEF MatchesReceipt
  <2>3. ASSUME NEW q \in RunId, HasReceipt(q)'
        PROVE  LET c == runs'[q].receipt
               IN  IF action # None /\ action.id = c.id
                   THEN MatchesReceipt(action, c) /\ action.gen = c.gen
                   ELSE InHistory(c) \/ PushedOut(c)
    <3>1. CASE q = r
      BY <1>3, <1>5, <2>2, <3>1
    <3>2. CASE q # r
      <4>1. runs'[q] = runs[q] /\ HasReceipt(q)
        BY <1>5, <2>3, <3>2
      <4> QED
        BY <4>1 DEF ReadInv, ReceiptInv
    <3> QED
      BY <3>1, <3>2
  <2> QED
    BY <1>2, <2>1, <2>3 DEF ReceiptInv
<1> QED
  BY <1>3, <1>5, <1>7, <1>8, <1>9, <1>10 DEF ReadInv

\* A claim archives the Action that ended, and its own is nobody's yet.
LEMMA ClaimReads ==
  ASSUME Recorded, ReadInv, NEW id, Claimed(id),
         history' = IF Terminal(action) THEN Archived ELSE history,
         BoundInv', ActionInv'
  PROVE  ReadInv'
<1>1. /\ runs' = runs /\ action' # None /\ action'.id \notin issued
      /\ ~Unfinished(action)
  BY DEF Claimed
<1>2. ASSUME NEW r \in RunId, HasReceipt(r)
      PROVE  /\ runs[r].receipt.id # action'.id
             /\ runs[r].receipt.gen \in Nat
             /\ action # None /\ action.id = runs[r].receipt.id =>
                  /\ ReceiptOf(action, runs[r].receipt)
                  /\ action.gen = runs[r].receipt.gen
             /\ ~(action # None /\ action.id = runs[r].receipt.id) =>
                  InHistory(runs[r].receipt) \/ PushedOut(runs[r].receipt)
  <2> DEFINE c == runs[r].receipt
  <2>1. /\ c \in Receipt /\ c.id \in issued /\ c.run = r
        /\ action # None /\ action.id = c.id => action.run = r
    BY <1>2 DEF Recorded, TypeOK, Run, OwnershipInv, ReceiptsGenuine
  <2>2. IF action # None /\ action.id = c.id
        THEN MatchesReceipt(action, c) /\ action.gen = c.gen
        ELSE InHistory(c) \/ PushedOut(c)
    BY <1>2 DEF ReadInv, ReceiptInv
  <2> QED
    BY <1>1, <2>1, <2>2 DEF ReceiptOf, Receipt
<1>3. CASE action = None
  <2>1. history' = history
    BY <1>3
  <2>2. \A c : (InHistory(c)' <=> InHistory(c)) /\ (PushedOut(c)' <=> PushedOut(c))
    BY <2>1 DEF InHistory, PushedOut
  <2>3. OrderInv'
    BY <2>1 DEF ReadInv, OrderInv
  <2>4. ReceiptInv'
    BY <1>1, <1>2, <1>3, <2>2 DEF ReceiptInv
  <2> QED
    BY <2>3, <2>4 DEF ReadInv
<1>4. CASE action # None
  <2>1. Terminal(action)
    BY <1>1, <1>4, RecordFact DEF Action
  <2>2. /\ OrderInv'
        /\ \A c : c.gen \in Nat =>
             /\ ReceiptOf(action, c) /\ action.gen = c.gen => InHistory(c)'
             /\ InHistory(c) => InHistory(c)' \/ PushedOut(c)'
             /\ PushedOut(c) => PushedOut(c)'
    BY <1>4, <2>1, ArchiveReads DEF ReadInv
  <2>3. ReceiptInv'
    BY <1>1, <1>2, <2>2 DEF ReceiptInv
  <2> QED
    BY <2>2, <2>3 DEF ReadInv
<1> QED
  BY <1>3, <1>4

LEMMA ClaimActionReads ==
  ASSUME Recorded, ReadInv, NEW id \in ActionId, NEW k \in Kind, NEW p \in Payload,
         PayloadRun[p] = None <=> k = "run", ClaimAction(id, k, p)
  PROVE  ReadInv' /\ Claimed(id)
<1>1. Claimed(id)
  BY ClaimActionEffect
<1>2. /\ action' = [id |-> id, kind |-> k, payload |-> p, held |-> TRUE,
                    status |-> "accepted", run |-> None, gen |-> ClaimGeneration,
                    applied |-> FALSE, target |-> None, final |-> FALSE]
      /\ history' = IF Terminal(action) THEN Archived ELSE history
      /\ Terminal(action) => taskRun' = None
      /\ ~Terminal(action) => taskRun' = taskRun
  BY DEF ClaimAction, NewAction
<1>3. action = None \/ Terminal(action)
  BY <1>1, RecordFact DEF Claimed, Action
<1>4. BoundInv' /\ ActionInv'
  BY <1>1, <1>2, <1>3 DEF ReadInv, BoundInv, ActionInv, Claimed
<1> QED
  BY <1>1, <1>2, <1>4, ClaimReads

LEMMA ClaimControlReads ==
  ASSUME Recorded, ReadInv, NEW id \in ActionId, NEW k \in Kind, NEW p \in Payload,
         PayloadRun[p] = None <=> k = "run",
         ClaimControl(id, k, p, PayloadRun[p])
  PROVE  ReadInv' /\ Claimed(id)
<1>1. Claimed(id)
  BY ClaimControlEffect
<1>2. /\ \E g : action' =
           [id |-> id, kind |-> k, payload |-> p, held |-> TRUE,
            status |-> "applying", run |-> PayloadRun[p], gen |-> g,
            applied |-> FALSE, target |-> ControlTarget, final |-> FALSE]
      /\ history' = IF Terminal(action) THEN Archived ELSE history
      /\ taskRun' = PayloadRun[p]
  BY DEF ClaimControl, NewAction
<1>3. BoundInv' /\ ActionInv'
  BY <1>1, <1>2 DEF BoundInv, ActionInv, Claimed
<1> QED
  BY <1>1, <1>2, <1>3, ClaimReads

\* A kept record never renews a generation: an Executor that is gone has ended
\* its Action.
LEMMA BeginReads ==
  ASSUME Recorded, ReadInv, NEW id \in ActionId, NEW r \in RunId \cup {None},
         NEW reclaim \in BOOLEAN, BeginExecutor(id, r, reclaim),
         r \in {None, action.run}
  PROVE  ReadInv' /\ action' = action /\ executor = None
<1>1. /\ action # None /\ action \in Action /\ Unfinished(action) /\ ~Live(executor)
      /\ action.run \in {None, r} /\ runs' = runs /\ history' = history
      /\ taskRun' = taskRun /\ executor'.run = r
      /\ executor'.status = "starting"
  BY RecordFact DEF BeginExecutor, RequireActive
<1>2. executor = None
  BY <1>1, RecordFact DEF ReadInv, BoundInv, Executor
<1>3. action' = [action EXCEPT !.gen = action.gen]
  BY <1>2 DEF BeginExecutor
<1>4. action' = action
  BY <1>1, <1>3 DEF Action
<1>5. BoundInv' /\ ActionInv' /\ OrderInv'
  BY <1>1, <1>4 DEF ReadInv, BoundInv, ActionInv, OrderInv
<1>6. ReceiptInv'
  BY <1>1, <1>4 DEF ReadInv, ReceiptInv, InHistory, PushedOut
<1> QED
  BY <1>2, <1>4, <1>5, <1>6 DEF ReadInv

-----------------------------------------------------------------------------
(* What the steps of commands and processes keep.                          *)

\* The Action, its application and the receipts of the Runs are not taken back.
Goes ==
  /\ action' # None <=> action # None
  /\ action # None =>
       /\ action'.id = action.id
       /\ action'.kind = action.kind /\ action'.payload = action.payload
       /\ action.run \in {None, action'.run}
       /\ action.applied => action'.applied
  /\ issued' = issued

SameReceipts == \A q \in RunId : runs'[q].receipt = runs[q].receipt

\* A command d keeps in mind what it had, or nothing.
SameThought(d) ==
  \/ client'[d].id = None
  \/ client'[d].id = client[d].id /\ client'[d].run = client[d].run

\* A process u stays, is new or ends, or goes on with the Run it has.
Carries(u) ==
  \/ exec'[u] = exec[u]
  \/ exec'[u].pc \in QuietPc
  \/ /\ exec'[u].run = exec[u].run
     /\ exec[u].pc \notin QuietPc /\ exec'[u].pc # "apply"
     /\ exec'[u].pc \in AppliedPc => exec[u].pc \in AppliedPc

LEMMA MovesGo ==
  ASSUME MovesOn PROVE Goes /\ SameReceipts /\ Steady
<1>1. Steady
  BY SameIsSteady DEF MovesOn
<1> QED
  BY <1>1 DEF MovesOn, SameRecord, KeepsOwner, Goes, SameReceipts

LEMMA StoreGoes ==
  ASSUME UNCHANGED <<record, issued>> PROVE Goes /\ Steady
BY SameIsSteadyToo DEF record, Goes

LEMMA VarsGo ==
  ASSUME ReadIInv, UNCHANGED vars
  PROVE  ReadInv' /\ Goes /\ SameReceipts /\ Steady
<1>1. UNCHANGED <<record, issued>> /\ runs' = runs
  BY DEF vars, record
<1>2. SameReceipts
  BY <1>1 DEF SameReceipts
<1> QED
  BY <1>1, <1>2, StoreGoes, StoreReads DEF ReadIInv, SpineIInv, SameReceipts

LEMMA MindStays ==
  ASSUME MindInv, Goes, \A d \in Client : SameThought(d) PROVE MindInv'
<1>1. ASSUME NEW d \in Client PROVE MindOk(d)'
  <2>1. MindOk(d) /\ SameThought(d)
    BY DEF MindInv
  <2> QED
    BY <2>1 DEF MindOk, SameThought, Goes
<1> QED
  BY <1>1 DEF MindInv

LEMMA DoneStays ==
  ASSUME ReadIInv, Goes, SameReceipts, NEW u \in Token, Carries(u),
         Holds(u)' => Holds(u) \/ exec'[u].pc = "none"
  PROVE  DoneOk(u)'
<1>1. CASE exec'[u].pc \in QuietPc
  BY <1>1 DEF DoneOk, QuietPc, AppliedPc
<1>2. CASE ~Holds(u)'
  BY <1>2 DEF DoneOk
<1>3. CASE Holds(u)' /\ exec'[u].pc \notin QuietPc
  <2>1. Holds(u) /\ action # None
    BY <1>3, RecordFact DEF QuietPc, Holds, Names, ReadIInv, SpineIInv
  <2>2. DoneOk(u) /\ exec'[u].run = exec[u].run /\ exec[u].pc \notin QuietPc
    BY <1>3 DEF Carries, ReadIInv, DoneInv
  <2>3. action'.kind # "run" => exec'[u].run = PayloadRun[action'.payload]
    BY <2>1, <2>2 DEF DoneOk, Goes
  <2>4. exec'[u].pc = "apply" =>
          /\ runs'[exec'[u].run].receipt # None
          /\ runs'[exec'[u].run].receipt.id = action'.id
    <3>1. SUFFICES ASSUME exec'[u].pc = "apply"
                   PROVE  /\ runs'[exec'[u].run].receipt # None
                          /\ runs'[exec'[u].run].receipt.id = action'.id
      OBVIOUS
    <3>2. exec[u].pc = "apply"
      BY <1>3, <3>1 DEF Carries
    <3>3. exec[u].run \in RunId
      BY <3>2 DEF ReadIInv, SpineIInv, SpineInv, ExecInv, ExecOk, RunPc, ExecStep
    <3> QED
      BY <2>1, <2>2, <3>2, <3>3 DEF DoneOk, Goes, SameReceipts
  <2>5. exec'[u].pc \in AppliedPc => action'.applied
    BY <1>3, <2>1, <2>2 DEF DoneOk, Goes, Carries
  <2> QED
    BY <2>3, <2>4, <2>5 DEF DoneOk
<1> QED
  BY <1>1, <1>2, <1>3

\* A step in which every process goes on with what it has.
LEMMA QuietReads ==
  ASSUME ReadIInv, Goes, SameReceipts,
         \A u \in Token : Holds(u)' => Holds(u) \/ exec'[u].pc = "none",
         \A u \in Token : Carries(u),
         \A d \in Client : SameThought(d)
  PROVE  MindInv' /\ DoneInv'
<1>1. MindInv'
  BY MindStays DEF ReadIInv
<1>2. DoneInv'
  BY DoneStays DEF DoneInv
<1> QED
  BY <1>1, <1>2

\* The same of the process of t, on the record that names it.
LEMMA MoveReads ==
  ASSUME ReadIInv, NEW t \in Token, OnlyMoves(t), client' = client,
         Goes, SameReceipts, Steady, Carries(t)
  PROVE  MindInv' /\ DoneInv'
<1>1. \A u \in Token : Carries(u)
  BY DEF OnlyMoves, Carries
<1>2. \A d \in Client : SameThought(d)
  BY DEF SameThought
<1>3. \A u \in Token : Holds(u)' => Holds(u)
  BY DEF Steady
<1> QED
  BY <1>1, <1>2, <1>3, QuietReads

\* A step of the process of t that must show for itself what it works on.
LEMMA ProcessReads ==
  ASSUME ReadIInv, NEW t \in Token, OnlyMoves(t), client' = client, Goes, Steady,
         Holds(t) \/ SameReceipts, DoneOk(t)'
  PROVE  MindInv' /\ DoneInv'
<1>1. MindInv'
  BY MindStays DEF ReadIInv, SameThought
<1>2. ASSUME NEW u \in Token PROVE DoneOk(u)'
  <2>1. CASE u = t
    BY <2>1
  <2>2. CASE u # t /\ Holds(t)
    <3>1. ~Holds(u)'
      BY <2>2, OneHolder DEF Steady
    <3> QED
      BY <3>1 DEF DoneOk
  <2>3. CASE u # t /\ SameReceipts
    <3>1. Carries(u) /\ (Holds(u)' => Holds(u))
      BY <2>3 DEF OnlyMoves, Carries, Steady
    <3> QED
      BY <2>3, <3>1, DoneStays
  <2> QED
    BY <2>1, <2>2, <2>3
<1> QED
  BY <1>1, <1>2 DEF DoneInv

-----------------------------------------------------------------------------
(* The steps of a process keep the record readable.                        *)

ReadsOn == ReadInv' /\ MindInv' /\ DoneInv'

LEMMA GoesOn ==
  ASSUME ReadIInv, NEW t \in Token, OnlyMoves(t), client' = client,
         ReadInv', MovesOn, Carries(t)
  PROVE  ReadsOn
BY MovesGo, MoveReads DEF ReadsOn

LEMMA VarsStay ==
  ASSUME ReadIInv, NEW t \in Token, OnlyMoves(t), client' = client, UNCHANGED vars,
         Carries(t)
  PROVE  ReadsOn
BY VarsGo, MoveReads DEF ReadsOn

LEMMA StoreStays ==
  ASSUME ReadIInv, NEW t \in Token, OnlyMoves(t), client' = client,
         UNCHANGED <<record, issued>>, SameReceipts, Carries(t)
  PROVE  ReadsOn
<1>1. ReadInv'
  BY StoreReads DEF SameReceipts, ReadIInv, SpineIInv
<1> QED
  BY <1>1, StoreGoes, MoveReads DEF ReadsOn

\* A process that started takes a step to pc with the Run it has.
LEMMA CarriesOn ==
  ASSUME SpineTypeOK, NEW t \in Token, NEW pc \in ExecStep, Step(t, pc),
         exec[t].pc \notin QuietPc, pc # "apply",
         pc \in AppliedPc => exec[t].pc \in AppliedPc
  PROVE  OnlyMoves(t) /\ Carries(t) /\ exec'[t].pc = pc
         /\ exec'[t].run = exec[t].run
BY StepFact DEF Carries

LEMMA StartReads ==
  ASSUME ReadIInv, NEW t \in Token, Start(t) PROVE ReadsOn
<1>1. OnlyMoves(t) /\ Carries(t)
  BY CarriesOn DEF Start, At, ExecStep, QuietPc, AppliedPc, ReadIInv, SpineIInv
<1>2. client' = client /\ Recorded /\ ReadInv
  BY DEF Start, KeepProcs, ReadIInv, SpineIInv
<1>3. CASE MarkProcessStarted(t[1], t[2], t)
  <2>1. SameRecord /\ SameSlot /\ action' = action /\ executor'.run = executor.run
    BY <1>2, <1>3, ProcessStartedEffect
  <2>2. taskRun' = taskRun /\ executor # None
    BY <1>3 DEF MarkProcessStarted, RequireExecutor
  <2> QED
    BY <1>1, <1>2, <2>1, <2>2, SlotReads, GoesOn DEF SameSlot
<1>4. CASE UNCHANGED vars
  BY <1>1, <1>2, <1>4, VarsStay
<1> QED
  BY <1>3, <1>4 DEF Start

LEMMA ShakeReads ==
  ASSUME ReadIInv, NEW t \in Token, Shake(t) PROVE ReadsOn
<1>1. PICK pc \in {"receipt", "select", "claim"} : Step(t, pc)
  BY DEF Shake
<1>2. OnlyMoves(t) /\ Carries(t)
  BY <1>1, CarriesOn DEF Shake, At, ExecStep, QuietPc, AppliedPc, ReadIInv, SpineIInv
<1>3. client' = client /\ Recorded /\ ReadInv /\ MarkHandshake(t[1], t[2], t)
  BY DEF Shake, KeepProcs, ReadIInv, SpineIInv
<1> QED
  BY <1>2, <1>3, HandshakeReads, GoesOn

\* The Run an Executor binds is the one its command names.
LEMMA BindsNamed ==
  ASSUME ReadIInv, NEW t \in Token, exec[t].pc \in {"claim", "attach"},
         OnlyMoves(t), Carries(t), client' = client, Holds(t),
         BindRun(t[1], t[2], exec[t].run)
  PROVE  ReadsOn
<1>1. exec[t].run \in RunId
  BY DEF ReadIInv, SpineIInv, SpineInv, ExecInv, ExecOk, RunPc, ExecStep
<1>2. action.kind # "run" => exec[t].run = PayloadRun[action.payload]
  BY DEF ReadIInv, DoneInv, DoneOk, QuietPc
<1>3. ReadInv' /\ MovesOn
  BY <1>1, <1>2, BindReads DEF ReadIInv, SpineIInv
<1> QED
  BY <1>3, GoesOn

LEMMA ClaimStepReads ==
  ASSUME ReadIInv, NEW t \in Token, Claim(t) PROVE ReadsOn
<1>1. OnlyMoves(t) /\ Carries(t) /\ exec[t].pc = "claim"
  BY CarriesOn DEF Claim, At, ExecStep, QuietPc, AppliedPc, ReadIInv, SpineIInv
<1>2. Holds(t) /\ client' = client /\ BindRun(t[1], t[2], exec[t].run)
  BY DEF Claim, KeepProcs, ExecutorCurrent, RequireExecutor, Holds, Names
<1> QED
  BY <1>1, <1>2, BindsNamed

LEMMA AttachReads ==
  ASSUME ReadIInv, NEW t \in Token, Attach(t) PROVE ReadsOn
<1>1. OnlyMoves(t) /\ Carries(t) /\ exec[t].pc = "attach"
  BY CarriesOn DEF Attach, At, ExecStep, QuietPc, AppliedPc, ReadIInv, SpineIInv
<1>2. client' = client /\ BindRun(t[1], t[2], exec[t].run)
  BY DEF Attach, KeepProcs
<1>3. Holds(t)
  BY <1>1, <1>2, AliveHolds DEF BindRun, RequireActive, ReadIInv
<1> QED
  BY <1>1, <1>2, <1>3, BindsNamed

LEMMA CompleteReads ==
  ASSUME ReadIInv, NEW t \in Token, Complete(t) PROVE ReadsOn
<1>1. OnlyMoves(t) /\ Carries(t)
  BY CarriesOn DEF Complete, At, ExecStep, QuietPc, AppliedPc, ReadIInv, SpineIInv
<1>2. client' = client /\ Recorded /\ ReadInv /\ CompleteAction(t[1], t[2], "completed")
  BY DEF Complete, KeepProcs, ReadIInv, SpineIInv
<1> QED
  BY <1>1, <1>2, CompletionReads, GoesOn

LEMMA SaveOutcomeReads ==
  ASSUME ReadIInv, NEW t \in Token, SaveOutcome(t) PROVE ReadsOn
<1> DEFINE r == exec[t].run
<1>1. OnlyMoves(t) /\ Carries(t) /\ exec[t].pc = "outcome"
  BY CarriesOn DEF SaveOutcome, At, ExecStep, QuietPc, AppliedPc, ReadIInv, SpineIInv
<1>2. client' = client /\ Recorded /\ r \in RunId
  BY <1>1 DEF SaveOutcome, ReadIInv, SpineIInv, SpineInv, ExecInv, ExecOk, RunPc,
     ExecStep
<1>3. CASE SaveRun(t[1], t[2], r, FinalStatus(action.kind))
  <2>1. FinalStatus(action.kind) \in RunStatus \ {"none"}
    BY DEF RunStatus, FinalStatus
  <2>2. UNCHANGED <<record, issued>> /\ SameReceipts
    BY <1>2, <1>3, <2>1, SaveEffect DEF SameReceipts
  <2> QED
    BY <1>1, <1>2, <2>2, StoreStays
<1>4. CASE UNCHANGED vars
  BY <1>1, <1>2, <1>4, VarsStay
<1> QED
  BY <1>3, <1>4 DEF SaveOutcome

LEMMA DriveSaveReads ==
  ASSUME ReadIInv, NEW t \in Token, NEW status \in Outcome, DriveSave(t, status)
  PROVE  ReadsOn
<1>1. /\ exec' = exec /\ client' = client /\ exec[t].pc = "drive"
      /\ SaveRun(t[1], t[2], exec[t].run, status)
  BY DEF DriveSave, At, procs
<1>2. OnlyMoves(t) /\ Carries(t)
  BY <1>1, StayFact DEF Carries, ReadIInv, SpineIInv
<1>3. exec[t].run \in RunId /\ status \in RunStatus \ {"none"}
  BY <1>1, ConstantsAssumption DEF ReadIInv, SpineIInv, SpineInv, ExecInv, ExecOk, RunPc,
     ExecStep
<1>4. UNCHANGED <<record, issued>> /\ SameReceipts
  BY <1>1, <1>3, SaveEffect DEF SameReceipts, ReadIInv, SpineIInv
<1> QED
  BY <1>1, <1>2, <1>4, StoreStays

LEMMA AcceptReads ==
  ASSUME ReadIInv, NEW r \in RunId, AcceptTicketResume(r) PROVE ReadsOn
<1>1. /\ exec' = exec /\ client' = client /\ executor # None
      /\ SaveRun(executor.id, executor.gen, r, "active")
  BY DEF AcceptTicketResume, procs
<1>2. PICK t \in Token : t[1] = executor.id /\ t[2] = executor.gen
  BY <1>1, SlotToken DEF TokenOf, ReadIInv, SpineIInv
<1>3. OnlyMoves(t) /\ Carries(t)
  BY <1>1, StayFact DEF Carries, ReadIInv, SpineIInv
<1>4. "active" \in RunStatus \ {"none"}
  BY DEF RunStatus
<1>5. UNCHANGED <<record, issued>> /\ SameReceipts
  BY <1>1, <1>2, <1>4, SaveEffect DEF SameReceipts, ReadIInv, SpineIInv
<1> QED
  BY <1>1, <1>3, <1>5, StoreStays

\* The steps of a driver that leave the record as it is.
LEMMA DriverReads ==
  ASSUME ReadIInv, NEW t \in Token,
         FenceExternal(t) \/ External(t) \/ DriveReturns(t)
  PROVE  ReadsOn
<1>1. CASE FenceExternal(t) \/ External(t)
  <2>1. PICK pc \in {"drive", "external"} : Step(t, pc)
    BY <1>1 DEF FenceExternal, External
  <2>2. OnlyMoves(t) /\ Carries(t)
    BY <1>1, <2>1, CarriesOn DEF FenceExternal, External, At, ExecStep, QuietPc,
       AppliedPc, ReadIInv, SpineIInv
  <2> QED
    BY <1>1, <2>2, VarsStay DEF FenceExternal, External, KeepProcs
<1>2. CASE DriveReturns(t)
  <2>1. /\ exec[t].pc = "drive"
        /\ exec' = [exec EXCEPT ![t].pc = "close", ![t].seen = served[exec[t].run]]
        /\ client' = client /\ UNCHANGED vars
    BY <1>2 DEF DriveReturns, At, KeepProcs
  <2>2. exec \in [Token -> Process] /\ exec[t].run \in RunId
    BY <2>1, ExecFact DEF ReadIInv, SpineIInv, SpineInv, ExecInv, ExecOk, RunPc, ExecStep
  <2>3. served[exec[t].run] \in 0..MaxResumes
    BY <2>2 DEF ReadIInv, SpineIInv, SpineTypeOK
  <2>4. OnlyMoves(t) /\ exec'[t].pc = "close" /\ exec'[t].run = exec[t].run
    BY <2>1, <2>2, <2>3 DEF OnlyMoves, Process, ExecStep
  <2> QED
    BY <2>1, <2>4, VarsStay DEF Carries, QuietPc, AppliedPc
<1> QED
  BY <1>1, <1>2

LEMMA CloseReads ==
  ASSUME ReadIInv, NEW t \in Token, OnlyMoves(t), Carries(t), client' = client,
         exec[t].run \in RunId, NEW failed \in BOOLEAN,
         CloseTicketResume(t[1], t[2], exec[t].run, failed)
  PROVE  ReadsOn
<1>1. /\ SameRecord /\ action' = action
      /\ executor'.status = executor.status /\ executor'.run = executor.run
  BY CloseEffect DEF ReadIInv, SpineIInv
<1>2. taskRun' = taskRun
  BY DEF CloseTicketResume
<1>3. ReadInv' /\ MovesOn
  BY <1>1, <1>2, SlotReads DEF ReadIInv, SpineIInv
<1> QED
  BY <1>3, GoesOn

LEMMA CloseAdmissionReads ==
  ASSUME ReadIInv, NEW t \in Token, CloseAdmission(t) PROVE ReadsOn
<1>1. /\ exec[t].pc = "close" /\ client' = client /\ exec[t].run \in RunId
  BY DEF CloseAdmission, At, KeepProcs, ReadIInv, SpineIInv, SpineInv, ExecInv, ExecOk,
     RunPc, ExecStep
<1>2. CASE CloseTicketResume(t[1], t[2], exec[t].run, FALSE) /\ Step(t, "finish")
  <2>1. OnlyMoves(t) /\ Carries(t)
    BY <1>1, <1>2, CarriesOn DEF ExecStep, QuietPc, AppliedPc, ReadIInv, SpineIInv
  <2> QED
    BY <1>1, <1>2, <2>1, CloseReads
<1>3. CASE UNCHANGED vars /\ Step(t, "drive")
  <2>1. OnlyMoves(t) /\ Carries(t)
    BY <1>1, <1>3, CarriesOn DEF ExecStep, QuietPc, AppliedPc, ReadIInv, SpineIInv
  <2> QED
    BY <1>1, <1>3, <2>1, VarsStay
<1> QED
  BY <1>2, <1>3 DEF CloseAdmission

LEMMA DriveFailsReads ==
  ASSUME ReadIInv, NEW t \in Token, DriveFails(t) PROVE ReadsOn
<1>1. /\ exec[t].pc \in {"drive", "external"} /\ client' = client
      /\ exec[t].run \in RunId
  BY DEF DriveFails, KeepProcs, ReadIInv, SpineIInv, SpineInv, ExecInv, ExecOk, RunPc,
     ExecStep
<1>2. OnlyMoves(t) /\ Carries(t)
  BY <1>1, CarriesOn DEF DriveFails, ExecStep, QuietPc, AppliedPc, ReadIInv, SpineIInv
<1>3. CASE CloseTicketResume(t[1], t[2], exec[t].run, TRUE)
  BY <1>1, <1>2, <1>3, CloseReads
<1>4. CASE UNCHANGED vars
  BY <1>1, <1>2, <1>4, VarsStay
<1> QED
  BY <1>3, <1>4 DEF DriveFails

\* Registering or clearing a Worker touches nothing but the slot.
LEMMA WorkerReads ==
  ASSUME ReadIInv, NEW t \in Token, NEW w \in Worker,
         exec' = exec, client' = client,
         \/ MarkWorkerStarted(t[1], t[2], w) \/ MarkWorkerFinished(t[1], t[2], w)
         \/ UNCHANGED vars
  PROVE  ReadsOn
<1>1. OnlyMoves(t) /\ Carries(t)
  BY StayFact DEF Carries, ReadIInv, SpineIInv
<1>2. CASE MarkWorkerStarted(t[1], t[2], w) \/ MarkWorkerFinished(t[1], t[2], w)
  <2>1. /\ SameRecord /\ action' = action
        /\ executor'.status = executor.status /\ executor'.run = executor.run
    BY <1>2, WorkerEffect DEF ReadIInv, SpineIInv
  <2>2. taskRun' = taskRun
    BY <1>2 DEF MarkWorkerStarted, MarkWorkerFinished
  <2>3. ReadInv' /\ MovesOn
    BY <2>1, <2>2, SlotReads DEF ReadIInv, SpineIInv
  <2> QED
    BY <1>1, <2>3, GoesOn
<1> QED
  BY <1>1, <1>2, VarsStay

LEMMA WorkerStepReads ==
  ASSUME ReadIInv, NEW w \in Worker,
         WorkerEnds(w) \/ \E t \in Token : RegisterWorker(t, w)
  PROVE  ReadsOn
<1>1. CASE \E t \in Token : RegisterWorker(t, w)
  BY <1>1, WorkerReads DEF RegisterWorker
<1>2. CASE WorkerEnds(w)
  <2>1. PICK t \in Token : worker[w] = t
    BY <1>2 DEF WorkerEnds, ReadIInv, SpineIInv, SpineTypeOK
  <2>2. exec' = exec /\ client' = client
        /\ (UNCHANGED vars \/ MarkWorkerFinished(t[1], t[2], w))
    BY <1>2, <2>1 DEF WorkerEnds
  <2> QED
    BY <2>2, WorkerReads
<1> QED
  BY <1>1, <1>2

LEMMA FinishStepReads ==
  ASSUME ReadIInv, NEW t \in Token, Finish(t) PROVE ReadsOn
<1>1. OnlyMoves(t) /\ Carries(t)
  BY CarriesOn DEF Finish, At, ExecStep, QuietPc, AppliedPc, ReadIInv, SpineIInv
<1>2. /\ client' = client /\ Recorded /\ ReadInv /\ FinishExecutor(t[1], t[2], FALSE)
      /\ exec[t].pc = "finish"
  BY DEF Finish, At, KeepProcs, ReadIInv, SpineIInv
<1>3. Holds(t)
  BY <1>2 DEF FinishExecutor, RequireExecutor, Holds, Names
<1>4. action.applied
  BY <1>2, <1>3 DEF ReadIInv, DoneInv, DoneOk, AppliedPc
<1>5. ReadInv' /\ MovesOn
  BY <1>2, <1>4, FinishReads
<1> QED
  BY <1>1, <1>2, <1>5, GoesOn

LEMMA RaiseReads ==
  ASSUME ReadIInv, NEW t \in Token, Raise(t) PROVE ReadsOn
<1>1. OnlyMoves(t) /\ exec'[t].pc = "tail"
  BY StepFact DEF Raise, ExecStep, ReadIInv, SpineIInv
<1>2. Carries(t) /\ client' = client /\ Recorded /\ ReadInv
  BY <1>1 DEF Raise, KeepProcs, Carries, QuietPc, ReadIInv, SpineIInv
<1>3. CASE FinishExecutor(t[1], t[2], TRUE)
  BY <1>1, <1>2, <1>3, FinishReads, GoesOn
<1>4. CASE UNCHANGED vars
  BY <1>1, <1>2, <1>4, VarsStay
<1> QED
  BY <1>3, <1>4 DEF Raise

\* On an unchanged record every process goes on, starts or ends.
LEMMA QuietStep ==
  ASSUME ReadIInv, UNCHANGED vars,
         \A u \in Token : Carries(u), \A d \in Client : SameThought(d)
  PROVE  ReadsOn
<1>1. ReadInv' /\ Goes /\ SameReceipts /\ Steady
  BY VarsGo
<1>2. \A u \in Token : Holds(u)' => Holds(u)
  BY <1>1 DEF Steady
<1> QED
  BY <1>1, <1>2, QuietReads DEF ReadsOn

LEMMA TerminateReads ==
  ASSUME ReadIInv, NEW t \in Token, Terminate(t) PROVE ReadsOn
<1>1. exec[t].pc = "terminate" /\ client' = client /\ UNCHANGED vars
      /\ exec \in [Token -> Process]
  BY ExecFact DEF Terminate, At, ReadIInv, SpineIInv
<1>2. \A u \in Token : \/ exec'[u] = exec[u]
                       \/ exec'[u].pc = "none"
                       \/ u = t /\ exec'[u].pc = "outcome" /\ exec'[u].run = exec[u].run
  <2>1. CASE action.target = None
    BY <1>1, <2>1 DEF Terminate, Step, Process
  <2>2. CASE action.target # None
    <3>1. PICK v, d : /\ exec' = [exec EXCEPT ![t].pc = "outcome",
                                             ![v] = IF d THEN Dead ELSE @]
      BY <2>2 DEF Terminate
    <3>2. exec[t] \in Process
      BY <1>1
    <3>3. /\ [exec[t] EXCEPT !.pc = "outcome"].pc = "outcome"
          /\ [exec[t] EXCEPT !.pc = "outcome"].run = exec[t].run
          /\ Dead.pc = "none"
      BY <3>2 DEF Process, Dead
    <3> QED
      BY <1>1, <3>1, <3>3
  <2> QED
    BY <2>1, <2>2
<1>3. \A u \in Token : Carries(u)
  BY <1>1, <1>2 DEF Carries, QuietPc, AppliedPc
<1>4. \A d \in Client : SameThought(d)
  BY <1>1 DEF SameThought
<1> QED
  BY <1>1, <1>3, <1>4, QuietStep

LEMMA BootReads ==
  ASSUME ReadIInv, NEW t \in Token, Boot(t) PROVE ReadsOn
<1> DEFINE r == IF action.kind = "run" THEN action.run
                ELSE PayloadRun[action.payload]
           o == IF r # None /\ HasReceipt(r) THEN ReceiptOwner(r) ELSE None
<1>1. /\ Holds(t) /\ action # None /\ action \in Action
      /\ UNCHANGED vars /\ client' = client
  BY RecordFact DEF Boot, ExecutorCurrent, RequireExecutor, Holds, Names, ReadIInv,
     SpineIInv
<1>2. r \in RunId \cup {None}
  BY <1>1, ConstantsAssumption DEF Action
<1>3. o \in ActionId \cup {None}
  BY <1>2, OwnerFact DEF ReadIInv, SpineIInv
<1>4. exec' = [exec EXCEPT ![t] = [pc |-> "start", run |-> r, seen |-> 0, owner |-> o]]
  BY DEF Boot
<1>5. action.kind # "run" => r = PayloadRun[action.payload]
  OBVIOUS
<1> HIDE DEF r, o
<1>6. OnlyMoves(t) /\ exec'[t].pc = "start" /\ exec'[t].run = r
  BY <1>2, <1>3, <1>4, ExecFact, SpineAssumption
  DEF OnlyMoves, Process, ExecStep, ReadIInv, SpineIInv
<1>7. ReadInv' /\ Goes /\ SameReceipts /\ Steady
  BY <1>1, VarsGo
<1>8. DoneOk(t)'
  BY <1>1, <1>5, <1>6 DEF DoneOk, AppliedPc, vars
<1> QED
  BY <1>1, <1>6, <1>7, <1>8, ProcessReads DEF ReadsOn

LEMMA SelectReads ==
  ASSUME ReadIInv, NEW t \in Token, Select(t) PROVE ReadsOn
<1>1. exec[t].pc = "select" /\ Holds(t) /\ client' = client
  BY DEF Select, At, ExecutorCurrent, RequireExecutor, Holds, Names
<1>2. PICK r \in RunId :
        /\ \/ SaveRun(t[1], t[2], r, "active")
           \/ UNCHANGED vars
           \/ CreateRun(t[1], t[2], r)
        /\ action.kind # "run" => r = exec[t].run
        /\ exec' = [exec EXCEPT ![t].pc = "attach", ![t].run = r,
             ![t].owner = IF @ = None /\ HasReceipt(r) THEN ReceiptOwner(r) ELSE @]
  BY DEF Select
<1> DEFINE o == IF exec[t].owner = None /\ HasReceipt(r) THEN ReceiptOwner(r)
                ELSE exec[t].owner
<1>3. o \in ActionId \cup {None}
  <2>1. exec[t].owner \in ActionId \cup {None}
    BY ExecFact DEF ReadIInv, SpineIInv, Process
  <2> QED
    BY <2>1, OwnerFact DEF ReadIInv, SpineIInv
<1>4. exec' = [exec EXCEPT ![t].pc = "attach", ![t].run = r, ![t].owner = o]
  BY <1>2
<1> HIDE DEF o
<1>5. OnlyMoves(t) /\ exec'[t].pc = "attach" /\ exec'[t].run = r
  BY <1>3, <1>4, ExecFact DEF OnlyMoves, Process, ExecStep, ReadIInv, SpineIInv
<1>6. UNCHANGED <<record, issued>> /\ SameReceipts
  <2>1. CASE SaveRun(t[1], t[2], r, "active")
    <3>1. "active" \in RunStatus \ {"none"}
      BY DEF RunStatus
    <3> QED
      BY <2>1, <3>1, SaveEffect DEF SameReceipts, ReadIInv, SpineIInv
  <2>2. CASE CreateRun(t[1], t[2], r)
    BY <2>2 DEF CreateRun, SameReceipts, Recorded, TypeOK, Run, ReadIInv, SpineIInv
  <2>3. CASE UNCHANGED vars
    BY <2>3 DEF vars, record, SameReceipts
  <2> QED
    BY <1>2, <2>1, <2>2, <2>3
<1>7. ReadInv' /\ Goes /\ Steady
  BY <1>6, StoreReads, StoreGoes DEF SameReceipts, ReadIInv, SpineIInv
<1>8. DoneOk(t)'
  <2>1. action' = action
    BY <1>6 DEF record
  <2>2. action.kind # "run" => exec[t].run = PayloadRun[action.payload]
    BY <1>1 DEF ReadIInv, DoneInv, DoneOk, QuietPc
  <2> QED
    BY <1>2, <1>5, <2>1, <2>2 DEF DoneOk, AppliedPc
<1> QED
  BY <1>1, <1>5, <1>6, <1>7, <1>8, ProcessReads DEF ReadsOn

LEMMA WriteReceiptReads ==
  ASSUME ReadIInv, NEW t \in Token, WriteReceipt(t) PROVE ReadsOn
<1> DEFINE r == exec[t].run
<1>1. /\ OnlyMoves(t) /\ exec[t].pc = "receipt" /\ exec'[t].pc = "apply"
      /\ exec'[t].run = r /\ client' = client
  BY StepFact DEF WriteReceipt, At, ExecStep, ReadIInv, SpineIInv
<1>2. r \in RunId
  BY <1>1 DEF ReadIInv, SpineIInv, SpineInv, ExecInv, ExecOk, RunPc, ExecStep
<1>3. /\ ReadInv' /\ Goes /\ Steady /\ Holds(t) /\ action' = action
      /\ runs'[r].receipt # None /\ runs'[r].receipt.id = action.id
  <2>1. CASE PersistReceipt(t[1], t[2], r, exec[t].owner)
    <3>1. Holds(t)
      BY <2>1 DEF PersistReceipt, ExecutorCurrent, RequireExecutor, Holds, Names
    <3>2. UNCHANGED <<record, issued>>
      BY <1>2, <2>1, PersistEffect DEF ReadIInv, SpineIInv
    <3>3. ReadInv' /\ runs'[r].receipt # None /\ runs'[r].receipt.id = action.id
      BY <1>2, <2>1, PersistReads DEF ReadIInv, SpineIInv
    <3> QED
      BY <3>1, <3>2, <3>3, StoreGoes DEF record
  <2>2. CASE Current(t) /\ ReceiptBound(r) /\ UNCHANGED vars
    <3>1. Holds(t)
      BY <2>2, CurrentHolds
    <3>2. runs[r].receipt # None /\ runs[r].receipt.id = action.id
      BY <2>2 DEF ReceiptBound, ReceiptOf, MatchesReceipt
    <3>3. ReadInv' /\ Goes /\ Steady
      BY <2>2, VarsGo
    <3> QED
      BY <2>2, <3>1, <3>2, <3>3 DEF vars
  <2> QED
    BY <2>1, <2>2 DEF WriteReceipt
<1>4. DoneOk(t)'
  <2>1. action.kind # "run" => exec[t].run = PayloadRun[action.payload]
    BY <1>1, <1>3 DEF ReadIInv, DoneInv, DoneOk, QuietPc
  <2> QED
    BY <1>1, <1>3, <2>1 DEF DoneOk, AppliedPc
<1> QED
  BY <1>1, <1>3, <1>4, ProcessReads DEF ReadsOn

LEMMA ApplyReads ==
  ASSUME ReadIInv, NEW t \in Token, Apply(t) PROVE ReadsOn
<1>1. PICK pc \in {"terminate", "complete"} :
        /\ exec[t].pc = "apply" /\ Step(t, pc) /\ client' = client
        /\ RecordApplication(t[1], t[2], exec[t].run, action.payload)
  BY DEF Apply, At, KeepProcs
<1>2. OnlyMoves(t) /\ exec'[t].pc = pc /\ exec'[t].run = exec[t].run
  BY <1>1, StepFact DEF ExecStep, ReadIInv, SpineIInv
<1>3. Holds(t) /\ action # None
  BY <1>1, RecordFact
  DEF RecordApplication, RequireExecutor, Holds, Names, ReadIInv, SpineIInv
<1>4. /\ exec[t].run \in RunId /\ executor.run = exec[t].run
  BY <1>1, <1>3 DEF ReadIInv, SpineIInv, SpineInv, ExecInv, ExecOk, RunPc, BoundPc,
     ExecStep
<1>5. action.payload \in Payload
  BY <1>3, RecordFact DEF ReadIInv, SpineIInv, Action
<1>6. /\ HasReceipt(exec[t].run) /\ runs[exec[t].run].receipt.id = action.id
      /\ action.kind # "run" => exec[t].run = PayloadRun[action.payload]
  BY <1>1, <1>3 DEF ReadIInv, DoneInv, DoneOk, QuietPc
<1>7. ReadInv' /\ MovesOn /\ action'.applied
  BY <1>1, <1>4, <1>5, <1>6, ApplicationReads DEF ReadIInv, SpineIInv
<1>8. Goes /\ SameReceipts /\ Steady
  BY <1>7, MovesGo
<1>9. DoneOk(t)'
  BY <1>1, <1>2, <1>3, <1>6, <1>7, <1>8 DEF DoneOk, Goes
<1> QED
  BY <1>1, <1>2, <1>7, <1>8, <1>9, ProcessReads DEF ReadsOn

-----------------------------------------------------------------------------
(* The steps of the host and of commands keep the record readable.         *)

LEMMA HostStepReads ==
  ASSUME ReadIInv, NEW t \in Token, HostStep(t) \/ Exit(t) \/ Crash(t)
  PROVE  ReadsOn
<1>1. UNCHANGED vars /\ client' = client
  BY DEF HostStep, SystemdStarts, SystemdDrops, CarrierExpires, Exit, Crash
<1>2. \A u \in Token : exec'[u] = exec[u] \/ exec'[u].pc \in QuietPc
  <2>1. CASE Booted(t)
    BY <2>1, BootedFact DEF OnlyMoves, QuietPc, ReadIInv
  <2>2. CASE \E how : Ended({t}, how)
    BY <2>2 DEF Ended, Dead, QuietPc
  <2>3. CASE exec' = exec
    BY <2>3
  <2> QED
    BY <2>1, <2>2, <2>3 DEF HostStep, SystemdStarts, SystemdDrops, CarrierExpires,
       Exit, Crash, procs
<1> QED
  BY <1>1, <1>2, QuietStep DEF Carries, SameThought

\* A step that changes neither the record nor what anyone works on.
LEMMA IdleReads ==
  ASSUME ReadIInv, UNCHANGED vars, exec' = exec,
         \A d \in Client : SameThought(d)
  PROVE  ReadsOn
BY QuietStep DEF Carries

\* What a command does to the record while it keeps its Action in mind.
LEMMA SettleReads ==
  ASSUME ReadIInv, exec' = exec, \A d \in Client : SameThought(d),
         ReadInv', MovesOn
  PROVE  ReadsOn
<1>1. Goes /\ SameReceipts /\ Steady
  BY MovesGo
<1>2. \A u \in Token : Holds(u)' => Holds(u)
  BY <1>1 DEF Steady
<1> QED
  BY <1>1, <1>2, QuietReads DEF Carries, ReadsOn

LEMMA GotoThinks ==
  ASSUME ReadIInv, NEW c \in Client, NEW pc, Goto(c, pc)
  PROVE  \A d \in Client : SameThought(d)
BY CommandFact DEF Goto, SameThought, Command, ReadIInv, SpineIInv

LEMMA NewThoughts ==
  ASSUME ReadIInv, NEW c \in Client, NEW k \in Kind, NEW p \in Payload,
         Submit(c, k, p) \/ Leave(c)
  PROVE  ReadsOn
<1>1. UNCHANGED vars /\ exec' = exec
  BY DEF Submit, Leave, procs
<1>2. client \in [Client -> Command]
  BY CommandFact DEF ReadIInv, SpineIInv
<1>3. CASE Submit(c, k, p)
  <2> DEFINE v == [Idle EXCEPT !.pc = "submit", !.kind = k, !.payload = p]
  <2>1. client' = [client EXCEPT ![c] = v] /\ v.id = None
    BY <1>3 DEF Submit, Idle
  <2> HIDE DEF v
  <2> QED
    BY <1>1, <1>2, <2>1, IdleReads DEF SameThought
<1>4. CASE Leave(c)
  <2>1. client' = [client EXCEPT ![c] = Idle] /\ Idle.id = None
    BY <1>4 DEF Leave, Idle
  <2> QED
    BY <1>1, <1>2, <2>1, IdleReads DEF SameThought
<1> QED
  BY <1>3, <1>4

LEMMA LookReads ==
  ASSUME ReadIInv, NEW c \in Client, Check(c) \/ MarkLaunchPending(c) PROVE ReadsOn
<1>1. UNCHANGED vars /\ exec' = exec /\ \E pc : Goto(c, pc)
  BY DEF Check, MarkLaunchPending, procs
<1> QED
  BY <1>1, GotoThinks, IdleReads

LEMMA InterruptReads ==
  ASSUME ReadIInv, NEW c \in Client, RecordInterruption(c) PROVE ReadsOn
<1>1. /\ client[c].pc = "submit" /\ Goto(c, "idle") /\ exec' = exec
      /\ FailSession(action.id, action.gen, Req(c))
      /\ Req(c) # None /\ executor # None
  BY DEF RecordInterruption, MustInterrupt, ReceiptBound, procs
<1>2. Req(c) \in RunId
  BY <1>1, SubjectFact DEF ReadIInv
<1>3. PICK t \in Token : t[1] = action.id /\ t[2] = action.gen
  BY <1>1, SlotToken DEF TokenOf, ReadIInv, SpineIInv
<1>4. ReadInv' /\ MovesOn
  BY <1>1, <1>2, <1>3, FailReads DEF ReadIInv, SpineIInv
<1> QED
  BY <1>1, <1>4, GotoThinks, SettleReads

LEMMA DecideReads ==
  ASSUME ReadIInv, NEW c \in Client, Decide(c) PROVE ReadsOn
<1> DEFINE r == Subject(c)
<1>1. /\ client[c].pc = "decide" /\ exec' = exec /\ executor # None
      /\ \E pc : Goto(c, pc)
  BY DEF Decide, procs
<1>2. PICK t \in Token : t[1] = action.id /\ t[2] = action.gen
  BY <1>1, SlotToken DEF TokenOf, ReadIInv, SpineIInv
<1>3. CASE UNCHANGED vars
  BY <1>1, <1>3, GotoThinks, IdleReads
<1>4. CASE /\ r # None
           /\ \/ CompleteFromReceipt(action.id, action.gen, r, FALSE)
              \/ FailSession(action.id, action.gen, r)
  <2>1. r \in RunId
    BY <1>1, <1>4, SubjectFact DEF ReadIInv
  <2>2. ReadInv' /\ MovesOn
    BY <1>2, <1>4, <2>1, ReceiptReads, FailReads DEF ReadIInv, SpineIInv
  <2> QED
    BY <1>1, <2>2, GotoThinks, SettleReads
<1> QED
  BY <1>3, <1>4 DEF Decide

\* An exit the host reports fails what is unfinished.
LEMMA HostExitReads ==
  ASSUME ReadIInv, NEW c \in Client, NEW pc, RecordHostExit(c, pc) PROVE ReadsOn
<1> DEFINE t == Held(c)
<1>1. exec' = exec /\ \E p : Goto(c, p)
  BY DEF RecordHostExit, procs
<1>2. CASE UNCHANGED vars
  BY <1>1, <1>2, GotoThinks, IdleReads
<1>3. CASE FinishExecutorFromHost(t[1], t[2], client[c].run,
                                  Exited(t) \/ Unfinished(action))
  <2>1. PICK failed \in BOOLEAN :
          /\ Unfinished(action) => failed
          /\ FinishExecutor(t[1], t[2], failed)
    BY <1>3 DEF FinishExecutorFromHost
  <2>2. executor # None /\ executor.id = t[1] /\ executor.gen = t[2]
    BY <2>1 DEF FinishExecutor, RequireExecutor
  <2>3. t \in Token
    BY <2>2, SlotToken DEF TokenOf, Held, ReadIInv, SpineIInv
  <2>4. failed \/ ~Unfinished(action) \/ action.applied
    BY <2>1
  <2>5. ReadInv' /\ MovesOn
    BY <2>1, <2>3, <2>4, FinishReads DEF ReadIInv, SpineIInv
  <2> QED
    BY <1>1, <2>5, GotoThinks, SettleReads
<1> QED
  BY <1>2, <1>3 DEF RecordHostExit

LEMMA InspectReads ==
  ASSUME ReadIInv, NEW c \in Client, Inspect(c) \/ Observe(c) PROVE ReadsOn
<1>1. CASE \E pc : RecordHostExit(c, pc)
  BY <1>1, HostExitReads
<1>2. CASE UNCHANGED vars /\ exec' = exec /\ \E pc : Goto(c, pc)
  BY <1>2, GotoThinks, IdleReads
<1> QED
  BY <1>1, <1>2 DEF Inspect, Observe, procs

LEMMA StartUnitReads ==
  ASSUME ReadIInv, NEW c \in Client, StartUnit(c) PROVE ReadsOn
<1> DEFINE t == Held(c)
<1>1. t \in Token /\ \E pc : Goto(c, pc)
  BY LaunchFact DEF StartUnit, Launching, ReadIInv
<1>2. CASE UNCHANGED vars /\ (Booted(t) \/ exec' = exec)
  <2>1. \A u \in Token : Carries(u)
    BY <1>1, <1>2, BootedFact DEF OnlyMoves, Carries, QuietPc, ReadIInv
  <2> QED
    BY <1>1, <1>2, <2>1, GotoThinks, QuietStep
<1>3. CASE FinishExecutor(t[1], t[2], TRUE) /\ exec' = exec
  <2>1. ReadInv' /\ MovesOn
    BY <1>1, <1>3, FinishReads DEF ReadIInv, SpineIInv
  <2> QED
    BY <1>1, <1>3, <2>1, GotoThinks, SettleReads
<1> QED
  BY <1>2, <1>3 DEF StartUnit

\* A command that reserves keeps the Run it has in mind, that of its Action.
LEMMA GrantReads ==
  ASSUME ReadIInv, NEW c \in Client, client[c].pc \in {"ensure", "renew"},
         NEW reclaim \in BOOLEAN, exec' = exec,
         BeginExecutor(client[c].id, client[c].run, reclaim),
         client' = [client EXCEPT ![c].pc = "reserved", ![c].gen = executor'.gen]
  PROVE  ReadsOn
<1> DEFINE i == client[c].id
           r == client[c].run
<1>1. /\ i \in ActionId /\ r \in RunId \cup {None} /\ i # None
      /\ client \in [Client -> Command] /\ Recorded /\ ReadInv
  BY CommandFact, ConstantsAssumption
     DEF ReadIInv, SpineIInv, SpineInv, ClientInv, SpineTypeOK
<1>2. action # None /\ action.id = i
  BY DEF BeginExecutor, RequireActive
<1>3. r \in {None, action.run}
  BY <1>1, <1>2 DEF ReadIInv, MindInv, MindOk
<1>4. ReadInv' /\ action' = action /\ issued' = issued /\ runs' = runs
  BY <1>1, <1>3, BeginReads DEF BeginExecutor
<1>5. Goes /\ SameReceipts
  BY <1>4 DEF Goes, SameReceipts
<1>6. \A d \in Client : SameThought(d)
  BY <1>1 DEF SameThought, Command
<1>7. ASSUME NEW u \in Token, Holds(u)' PROVE exec'[u].pc = "none"
  <2>1. ~Reserved(u)
    BY <1>1, <1>7, BeginEffect
  <2>2. unit[u] = "none"
    BY <2>1 DEF ReadIInv, SpineIInv, SpineInv, FreshInv
  <2> QED
    BY <2>2 DEF ReadIInv, SpineIInv, SpineInv, HostInv, Alive
<1> QED
  BY <1>4, <1>5, <1>6, <1>7, QuietReads DEF Carries, ReadsOn

LEMMA ReserveReads ==
  ASSUME ReadIInv, NEW c \in Client, Reserve(c) PROVE ReadsOn
<1>1. exec' = exec /\ client[c].pc \in {"ensure", "renew"}
  BY DEF Reserve, procs
<1>2. CASE Goto(c, "wait") /\ UNCHANGED vars
  BY <1>1, <1>2, GotoThinks, IdleReads
<1>3. CASE /\ BeginExecutor(client[c].id, client[c].run, client[c].pc = "renew")
           /\ client' = [client EXCEPT ![c].pc = "reserved",
                                       ![c].gen = executor'.gen]
  <2>1. (client[c].pc = "renew") \in BOOLEAN
    OBVIOUS
  <2> QED
    BY <1>1, <1>3, <2>1, GrantReads
<1> QED
  BY <1>2, <1>3 DEF Reserve

\* What a command has in mind once its claim was answered.
LEMMA HeldInMind ==
  ASSUME ReadIInv, NEW c \in Client, NEW a, Holding(c, "inspect", a)
  PROVE  /\ client'[c].id = a.id /\ client'[c].run = a.run
         /\ \A d \in Client : d # c => client'[d] = client[d]
BY CommandFact DEF Holding, Command, ReadIInv, SpineIInv

\* A command that joins a running Action takes over its Run.
LEMMA JoinReads ==
  ASSUME ReadIInv, NEW c \in Client, UNCHANGED vars, exec' = exec, action # None,
         NEW a, Holding(c, "inspect", a), a.id = action.id,
         a.run \in {None, action.run}
  PROVE  ReadsOn
<1>1. ReadInv' /\ Goes /\ SameReceipts /\ Steady
  BY VarsGo
<1>2. MindInv'
  <2>1. action.id \in issued
    BY DEF ReadIInv, SpineIInv, Recorded, OwnershipInv, ReceiptsGenuine
  <2>2. action' = action /\ issued' = issued
    BY DEF vars
  <2>3. MindOk(c)'
    BY <2>1, <2>2, HeldInMind DEF MindOk
  <2>4. \A d \in Client : d # c => MindOk(d)'
    BY <2>2, HeldInMind DEF MindOk, ReadIInv, MindInv
  <2> QED
    BY <2>3, <2>4 DEF MindInv
<1>3. DoneInv'
  <2>1. \A u \in Token : Carries(u) /\ (Holds(u)' => Holds(u))
    BY <1>1 DEF Carries, Steady
  <2> QED
    BY <1>1, <2>1, DoneStays DEF DoneInv
<1> QED
  BY <1>1, <1>2, <1>3 DEF ReadsOn

\* Nobody else has a new Action in mind, and nothing works on it yet.
LEMMA NewActionReads ==
  ASSUME ReadIInv, NEW c \in Client, NEW id \in ActionId, Claimed(id), ReadInv',
         Holding(c, "inspect", action')
  PROVE  ReadsOn
<1>1. /\ id \notin issued /\ issued' = issued \cup {id} /\ executor' = None
      /\ action' # None /\ action'.id = id
  BY DEF Claimed
<1>2. MindOk(c)'
  BY <1>1, HeldInMind DEF MindOk
<1>3. ASSUME NEW d \in Client, d # c PROVE MindOk(d)'
  BY <1>1, <1>3, HeldInMind DEF MindOk, ReadIInv, MindInv
<1>4. DoneInv'
  BY <1>1 DEF DoneInv, DoneOk, Holds, Names
<1> QED
  BY <1>2, <1>3, <1>4 DEF ReadsOn, MindInv

LEMMA AdmitReads ==
  ASSUME ReadIInv, NEW c \in Client, NEW id \in ActionId, Admit(c, id) PROVE ReadsOn
<1> DEFINE k == client[c].kind
           p == client[c].payload
<1>1. /\ client[c].pc = "admit" /\ exec' = exec /\ Recorded /\ ReadInv
  BY DEF Admit, procs, ReadIInv, SpineIInv
<1>2. /\ k \in Kind /\ p \in Payload
      /\ PayloadRun[p] = None <=> k = "run"
  BY <1>1 DEF ReadIInv, SpineIInv, SpineInv, ClientInv
<1>3. CASE ClaimAttaches(k, p) /\ Holding(c, "inspect", action) /\ UNCHANGED vars
  BY <1>1, <1>3, JoinReads DEF ClaimAttaches
<1>4. CASE /\ ClaimObserves(k, p) /\ UNCHANGED vars
           /\ Holding(c, "inspect", [action EXCEPT !.run = executor.run])
  <2> DEFINE a == [action EXCEPT !.run = executor.run]
  <2>1. /\ action # None /\ action \in Action /\ executor # None
    BY <1>1, <1>4, RecordFact DEF ClaimObserves
  <2>2. a.id = action.id /\ a.run = action.run
    BY <1>1, <2>1 DEF Action, ReadInv, BoundInv
  <2>3. Holding(c, "inspect", a)
    BY <1>4
  <2> HIDE DEF a
  <2> QED
    BY <1>1, <1>4, <2>1, <2>2, <2>3, JoinReads
<1>5. CASE ClaimAction(id, k, p) /\ Holding(c, "inspect", action')
  <2>1. ReadInv' /\ Claimed(id)
    BY <1>1, <1>2, <1>5, ClaimActionReads
  <2> QED
    BY <1>5, <2>1, NewActionReads
<1>6. CASE ClaimControl(id, k, p, PayloadRun[p]) /\ Holding(c, "inspect", action')
  <2>1. ReadInv' /\ Claimed(id)
    BY <1>1, <1>2, <1>6, ClaimControlReads
  <2> QED
    BY <1>6, <2>1, NewActionReads
<1> QED
  BY <1>3, <1>4, <1>5, <1>6 DEF Admit

-----------------------------------------------------------------------------
(* Every step keeps the record readable next to the Run its command names.  *)

LEMMA CommandReads ==
  ASSUME ReadIInv, NEW c \in Client, CommandStep(c) \/ Leave(c) PROVE ReadsOn
<1>1. ~Rebuild(c) /\ ~ProveExit(c) /\ ~ClosePredecessor(c)
  BY NeverRebuilt DEF ReadIInv
<1>2. CASE Leave(c)
  <2>1. PICK k \in Kind, p \in Payload : TRUE
    BY <1>2 DEF Leave, ReadIInv, SpineIInv, SpineInv, ClientInv
  <2> QED
    BY <1>2, <2>1, NewThoughts
<1>3. CASE CommandStep(c)
  BY <1>1, <1>3, NewThoughts, InterruptReads, LookReads, AdmitReads, InspectReads,
     DecideReads, ReserveReads, StartUnitReads DEF CommandStep
<1> QED
  BY <1>2, <1>3

LEMMA ExecutorReads ==
  ASSUME ReadIInv, NEW t \in Token, ExecutorStep(t) PROVE ReadsOn
<1>1. CASE \/ Boot(t) \/ Start(t) \/ Shake(t) \/ Claim(t) \/ Select(t) \/ Attach(t)
           \/ WriteReceipt(t) \/ Apply(t) \/ Complete(t)
  BY <1>1, BootReads, StartReads, ShakeReads, ClaimStepReads, SelectReads, AttachReads,
     WriteReceiptReads, ApplyReads, CompleteReads
<1>2. CASE \/ Terminate(t) \/ SaveOutcome(t)
           \/ \E w \in Worker : RegisterWorker(t, w)
           \/ \E status \in Outcome : DriveSave(t, status)
  BY <1>2, TerminateReads, SaveOutcomeReads, WorkerStepReads, DriveSaveReads
<1>3. CASE \/ FenceExternal(t) \/ External(t) \/ DriveReturns(t)
           \/ CloseAdmission(t) \/ Finish(t) \/ Exit(t)
  BY <1>3, DriverReads, CloseAdmissionReads, FinishStepReads, HostStepReads
<1> QED
  BY <1>1, <1>2, <1>3 DEF ExecutorStep

LEMMA ReadNext ==
  ASSUME Kept, ReadIInv, [SpineNext]_spine PROVE ReadsOn
<1>1. CASE UNCHANGED spine
  BY <1>1, IdleReads DEF spine, procs, SameThought
<1>2. CASE \E c \in Client : CommandStep(c) \/ Leave(c)
  BY <1>2, CommandReads
<1>3. CASE \E t \in Token : HostStep(t) \/ ExecutorStep(t) \/ DriveFails(t)
                            \/ Raise(t) \/ Crash(t)
  BY <1>3, HostStepReads, ExecutorReads, DriveFailsReads, RaiseReads
<1>4. CASE \E w \in Worker : ReleaseWorker(w) \/ WorkerEnds(w)
  BY <1>4, WorkerStepReads, IdleReads DEF ReleaseWorker, SameThought
<1>5. CASE \E r \in RunId : AcceptTicketResume(r)
  BY <1>5, AcceptReads
<1>6. ~RecordLost
  BY DEF Kept, RecordLost
<1> QED
  BY <1>1, <1>2, <1>3, <1>4, <1>5, <1>6 DEF SpineNext

LEMMA ReadNextKeeps ==
  ASSUME Kept, ReadIInv, [SpineNext]_spine PROVE ReadIInv'
BY ReadNext, SpineNextKeeps DEF ReadIInv, ReadsOn

LEMMA ReadInit ==
  ASSUME SpineInit PROVE ReadIInv
<1>1. /\ action = None /\ executor = None /\ taskRun = None /\ history = <<>>
      /\ \A r \in RunId : ~HasReceipt(r)
      /\ \A c \in Client : client[c].id = None
  BY DEF SpineInit, Init, Idle
<1>2. ReadInv
  BY <1>1 DEF ReadInv, BoundInv, ActionInv, ReceiptInv, OrderInv
<1>3. MindInv /\ DoneInv
  BY <1>1 DEF MindInv, MindOk, DoneInv, DoneOk, Holds, Names
<1> QED
  BY <1>2, <1>3, InitInv DEF ReadIInv

\* What the invariant says of a command that names its Run.
LEMMA SuccessorFact ==
  ASSUME ReadIInv PROVE SuccessorReadable
<1> DEFINE r == PayloadRun[action.payload]
           c == runs[r].receipt
<1>1. SUFFICES ASSUME action # None, action.kind \in LifecycleKind \ {"run"}, OpenRun(r)
               PROVE  RecordMatchesRun(r) \/ (HasReceipt(r) /\ PushedOut(c))
  BY DEF SuccessorReadable
<1>2. /\ action \in Action /\ Recorded /\ ReadInv /\ r # None
      /\ executor # None => executor \in Executor /\ executor.origin = "reserved"
  BY <1>1, RecordFact DEF ReadIInv, SpineIInv, Recorded, RecordInv
<1>3. r \in RunId
  BY <1>2, ConstantsAssumption DEF Action
<1>4. BoundTo(r)
  BY <1>1, <1>2 DEF BoundTo, ReadInv, BoundInv, ActionInv
<1>5. CASE c = None
  BY <1>4, <1>5 DEF RecordMatchesRun
<1>6. CASE c # None /\ action.id = c.id
  <2>1. MatchesReceipt(action, c) /\ action.gen = c.gen
    BY <1>1, <1>2, <1>3, <1>6 DEF ReadInv, ReceiptInv
  <2>2. executor # None => executor.gen = action.gen
    BY <1>2, SlotToken
  <2> QED
    BY <1>1, <1>4, <1>6, <2>1, <2>2 DEF RecordMatchesRun
<1>7. CASE c # None /\ action.id # c.id
  <2>1. InHistory(c) \/ PushedOut(c)
    BY <1>1, <1>2, <1>3, <1>7 DEF ReadInv, ReceiptInv
  <2>2. c.run = r
    BY <1>2, <1>3, <1>7 DEF Recorded, OwnershipInv, ReceiptsGenuine
  <2>3. action.run # None => action.run = r /\ taskRun = r
    BY <1>1, <1>2 DEF ReadInv, BoundInv, ActionInv
  <2>4. ~action.applied
    BY <1>1, <1>2, <1>7, <2>3 DEF ReadInv, ActionInv
  <2>5. executor # None =>
          executor.id = action.id /\ executor.gen = action.gen
          /\ executor.run = action.run
    BY <1>2, SlotToken DEF ReadInv, BoundInv
  <2>6. action.status \in ActiveStatus \/ (action.status = "failed" /\ Gone(executor))
    BY <1>1, <1>2, <2>4 DEF ReadInv, ActionInv, Action
  <2>7. action.held
    BY <1>1, <1>2 DEF ReadInv, ActionInv
  <2>8. InHistory(c) => UnappliedSuccessor(c)
    BY <1>1, <1>2, <2>2, <2>3, <2>4, <2>5, <2>6, <2>7
       DEF UnappliedSuccessor, LifecycleKind
  <2>9. ~MatchesReceipt(action, c)
    BY <1>7 DEF MatchesReceipt
  <2> QED
    BY <1>1, <1>4, <1>7, <2>1, <2>8, <2>9 DEF RecordMatchesRun
<1> QED
  BY <1>5, <1>6, <1>7

-----------------------------------------------------------------------------
(* Theorems.                                                               *)

\* The invariant of the composed system, from which the rest follows.
THEOREM SpineInvariant == ASSUME Kept PROVE SpineSpec => []SpineIInv
<1>1. SpineInit => SpineIInv
  BY InitInv
<1>2. SpineIInv /\ [SpineNext]_spine => SpineIInv'
  BY SpineNextKeeps
<1> QED
  BY <1>1, <1>2, PTL DEF SpineSpec

\* Every variable keeps its type, and a Worker past its gate is alive.
THEOREM SpineTypeCorrect == ASSUME Kept PROVE SpineSpec => []SpineTypeOK
<1>1. SpineIInv => SpineTypeOK
  BY DEF SpineIInv
<1> QED
  BY <1>1, SpineInvariant, PTL

\* One Executor Session per task: of two processes that can both still work, one
\* is the fenced target of a Stop or Abandon.
THEOREM OneSessionSafe == ASSUME Kept PROVE SpineSpec => []OneSession
<1>1. SpineIInv => OneSession
  BY SessionFact
<1> QED
  BY <1>1, SpineInvariant, PTL

\* Two processes never drive the task at once, a fenced target apart; here for
\* behaviours that keep the record.
THEOREM OneDriverKept == ASSUME Kept PROVE SpineSpec => []OneDriver
<1>1. \A t \in Token : Driving(t) => Working(t)
  BY DEF Driving, Working
<1>2. SpineIInv => OneDriver
  BY <1>1, SessionFact DEF OneSession, OneDriver
<1> QED
  BY <1>2, SpineInvariant, PTL

\* After a fence at most the external step already under way completes: the
\* driver reads the record before each of them.
THEOREM OneStraySafe == ASSUME Kept PROVE SpineSpec => []OneStrayStep
<1>1. SpineIInv => OneStrayStep
  BY StrayFact
<1> QED
  BY <1>1, SpineInvariant, PTL

\* A Stop or Abandon is completed only with every Worker of its target dead,
\* however often it failed and was taken up again before.
THEOREM StopSafe == ASSUME Kept PROVE SpineSpec => []StopEndsWorkers
<1>1. SpineIInv => StopEndsWorkers
  BY StopFact
<1> QED
  BY <1>1, SpineInvariant, PTL

\* The Workers of two Executors never run past their gates at the same time;
\* here for behaviours that keep the record.
THEOREM OneWorkerOwnerKept == ASSUME Kept PROVE SpineSpec => []OneWorkerOwner
<1>1. SpineIInv => OneWorkerOwner
  BY OwnerOfWorkers
<1> QED
  BY <1>1, SpineInvariant, PTL

\* An Executor that closed its admission in good order has taken up every
\* Ticket Resume it accepted.
THEOREM ResumesSafe == ASSUME Kept PROVE SpineSpec => []ResumesServed
<1>1. SpineIInv => ResumesServed
  BY ServedFact
<1> QED
  BY <1>1, SpineInvariant, PTL

\* However far the attempt of a command that names its Run came, or wherever it
\* was cut off, the next command finds a record it can reconcile with that Run, as
\* long as the history has room for the predecessor; here for behaviours that keep
\* the record.
THEOREM SuccessorSafe == ASSUME Kept PROVE SpineSpec => []SuccessorReadable
<1>1. SpineInit => ReadIInv
  BY ReadInit
<1>2. ReadIInv /\ [SpineNext]_spine => ReadIInv'
  BY ReadNextKeeps
<1>3. ReadIInv => SuccessorReadable
  BY SuccessorFact
<1> QED
  BY <1>1, <1>2, <1>3, PTL DEF SpineSpec

\* A Run is never saved by an older generation after a newer one saved it.
THEOREM WritesSafe == ASSUME Kept PROVE SpineSpec => WritesAdvance
<1>1. SpineIInv /\ [SpineNext]_spine => [writer' >= writer]_writer
  BY SavesAdvance
<1> QED
  BY <1>1, SpineInvariant, PTL DEF SpineSpec, WritesAdvance

\* The record the commands and the Executors share implements ExecutorOwnership:
\* write authority has one holder at a time, each beyond every generation used or
\* fenced off before.
THEOREM SpineImplements == ASSUME Kept PROVE SpineSpec => ImplementsOwnership
<1>1. SpineInit => Ownership!OwnershipInit
  BY InitMaps DEF SpineInit
<1>2. SpineIInv /\ SpineIInv' /\ [SpineNext]_spine
        => [Ownership!OwnershipNext]_(Ownership!ownership)
  BY SpineIsRecordStep, RecordStepMaps DEF AbstractStep
<1> QED
  BY <1>1, <1>2, SpineInvariant, PTL
  DEF SpineSpec, ImplementsOwnership, Ownership!OwnershipSpec
=============================================================================
