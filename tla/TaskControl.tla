---------------------------- MODULE TaskControl ----------------------------
(***************************************************************************)
(* The Task Control Record of one Delivery Task (task_control.py).         *)
(*                                                                         *)
(* The record is one file, read and atomically replaced inside one flock'd *)
(* transaction.  Every action below is one such transaction of             *)
(* TaskControlStore: its guard is the method's checks and early returns,   *)
(* its primed variables the record it writes.  A method that refuses       *)
(* (Busy, Reconciliation error, lock contention) or only returns what it   *)
(* read writes nothing and is a stuttering step.                           *)
(*                                                                         *)
(* This module is the store under its most general client: any caller may  *)
(* present any (action, generation) pair at any time.  LifecycleSpine      *)
(* composes the same transactions with the callers the program really has. *)
(***************************************************************************)
EXTENDS Naturals, Sequences, FiniteSets

CONSTANTS
  ActionId,        \* uuid4 identities; a claim takes one never issued before
  Kind,            \* lifecycle intents that are submitted
  Payload,         \* semantic payloads; a payload stands for its digest
  PayloadRun,      \* the Delivery Run a payload names, or None
  RunId,           \* Delivery Runs of this task
  Worker,          \* worker process identities (pid and start token)
  Proc,            \* executor process identities (pid and start token)
  None,            \* JSON null / missing file
  Outcome,         \* the statuses a Run save may leave behind
  MaxHistory,      \* _MAX_ACTION_HISTORY
  MaxGeneration    \* bound on generations, for model checking

LifecycleKind == {"run", "resume", "approve", "revise", "requeue"}
ControlKind   == {"stop", "abandon"}

RunStatus   == {"none", "active", "waiting", "failed", "operator_stopped",
                "completed", "abandoned"}
ClosedRun   == {"completed", "abandoned"}

ASSUME ConstantsAssumption ==
  /\ Outcome \subseteq RunStatus \ {"none"}
  /\ Kind \subseteq LifecycleKind \cup ControlKind
  /\ PayloadRun \in [Payload -> RunId \cup {None}]
  /\ None \notin ActionId \cup Payload \cup RunId \cup Worker \cup Proc
  /\ MaxHistory \in Nat \ {0}
  /\ MaxGeneration \in Nat

ActiveStatus   == {"accepted", "applying"}
TerminalStatus == {"completed", "failed"}
LiveStatus     == {"starting", "running"}
GoneStatus     == {"exited", "absent"}

VARIABLES
  present,     \* the record file exists
  taskRun,     \* record.run_id
  next,        \* record.next_generation
  action,      \* record.action
  history,     \* record.action_history
  executor,    \* record.executor
  runs,        \* the Run store: status and Action Application Receipt
  issued       \* identities handed out so far (uuid4 never repeats)

record == <<present, taskRun, next, action, history, executor>>
vars   == <<present, taskRun, next, action, history, executor, runs, issued>>

-----------------------------------------------------------------------------
(* The shapes that _validate_record accepts.                               *)

Generation == Nat \ {0}

Executor ==
  [status: LiveStatus \cup GoneStatus, id: ActionId, run: RunId \cup {None},
   gen: Generation, pid: Proc \cup {None}, handshake: BOOLEAN,
   workers: SUBSET Worker, origin: {"reserved", "unproven", "proven"},
   closed: BOOLEAN, failure: {"none", "failed", "session_interrupted"}]

Action ==
  [id: ActionId, kind: Kind, payload: Payload, held: BOOLEAN,
   status: ActiveStatus \cup TerminalStatus, run: RunId \cup {None},
   gen: Generation, applied: BOOLEAN, target: Executor \cup {None},
   final: BOOLEAN]

Receipt ==
  [id: ActionId, kind: Kind, payload: Payload, run: RunId, gen: Generation,
   target: Executor \cup {None}]

Entry == [run: RunId \cup {None}, action: Action, executor: Executor \cup {None}]

\* None, a missing record, is not itself one.
ASSUME NoneAssumption == None \notin Executor \cup Action \cup Receipt

Run == [status: RunStatus, receipt: Receipt \cup {None}, granted: BOOLEAN]

\* Every field keeps the shape _validate_record accepts, and the history its bound.
TypeOK ==
  /\ present \in BOOLEAN
  /\ taskRun \in RunId \cup {None}
  /\ next \in Generation
  /\ action \in Action \cup {None}
  /\ history \in Seq(Entry) /\ Len(history) <= MaxHistory
  /\ executor \in Executor \cup {None}
  /\ runs \in [RunId -> Run]
  /\ issued \subseteq ActionId

-----------------------------------------------------------------------------
Larger(a, b) == IF a < b THEN b ELSE a

Unfinished(a) == a # None /\ a.status \in ActiveStatus
Terminal(a)   == a # None /\ a.status \in TerminalStatus
Live(e)       == e # None /\ e.status \in LiveStatus
Gone(e)       == e # None /\ e.status \in GoneStatus

SameIntent(a, k, p) == a.kind = k /\ a.payload = p

\* The target a failed Stop or Abandon has not accounted for.
UnresolvedTarget(a) ==
  IF a # None /\ a.status = "failed" /\ a.kind \in ControlKind
  THEN a.target ELSE None

\* A synthesised executor whose exit the Host has since proved.
ReconciledExit(e) == e # None /\ e.origin = "proven" /\ e.status = "exited"

RequireActive(id) ==
  present /\ Unfinished(action) /\ action.id = id

RequireExecutor(id, g) ==
  present /\ executor # None /\ executor.id = id /\ executor.gen = g

\* Mutant: some executor of an unfinished action is live, not this one.
ExecutorCurrentUnnamed(id, g, r) ==
  /\ present
  /\ Live(executor)
  /\ r # None => executor.run \in {None, r}
  /\ action # None
  /\ action.status \in ActiveStatus \cup {"completed"}

\* The fence every Run save and every external step is checked against.
ExecutorCurrent(id, g, r) ==
  /\ RequireExecutor(id, g)
  /\ Live(executor)
  /\ r # None => executor.run \in {None, r}
  /\ action # None
  /\ action.id = id
  /\ action.status \in ActiveStatus \cup {"completed"}

RunExists(r)  == runs[r].status # "none"
HasReceipt(r) == runs[r].receipt # None

MatchesReceipt(a, c) ==
  c # None /\ a.id = c.id /\ a.kind = c.kind /\ a.payload = c.payload

\* action_receipt_matches: the fields a receipt and its own action share.
ReceiptOf(a, c) == MatchesReceipt(a, c) /\ a.run = c.run

\* Mutant: the bound is applied one entry late.
ArchivedLate ==
  LET all == Append(history, [run |-> taskRun, action |-> action,
                              executor |-> executor])
  IN  IF Len(all) > MaxHistory + 1
      THEN SubSeq(all, Len(all) - MaxHistory + 1, Len(all)) ELSE all

\* Keep the newest MaxHistory entries of what was archived.
Archived ==
  LET all == Append(history, [run |-> taskRun, action |-> action,
                              executor |-> executor])
  IN  IF Len(all) > MaxHistory
      THEN SubSeq(all, Len(all) - MaxHistory + 1, Len(all)) ELSE all

-----------------------------------------------------------------------------
(* Consistency of the record with a Run's receipt.                         *)

\* Mutant: only the newest archived Action is looked at.
InHistoryNewest(c) ==
  /\ history # <<>>
  /\ LET a == history[Len(history)].action
     IN  ReceiptOf(a, c) /\ a.gen = c.gen

InHistory(c) ==
  \E i \in 1..Len(history) :
    LET a == history[i].action
    IN  ReceiptOf(a, c) /\ a.gen = c.gen

\* The current action never reached its own receipt, so the Run still carries
\* that of an archived predecessor.
UnappliedSuccessor(c) ==
  /\ action.run # None =>
       /\ action.run = c.run
       /\ taskRun = c.run
       /\ action.kind \in {"resume", "approve", "revise", "requeue"}
       /\ action.held
       /\ PayloadRun[action.payload] = c.run
  /\ executor # None =>
       /\ executor.id = action.id
       /\ executor.gen = action.gen
       /\ executor.run = action.run
  /\ \/ action.status \in ActiveStatus
     \/ /\ action.status = "failed"
        /\ Gone(executor)
        /\ executor.origin # "unproven"
  /\ ~action.applied
  /\ InHistory(c)

BoundTo(r) ==
  /\ taskRun \in {None, r}
  /\ action # None => action.run \in {None, r}
  /\ executor # None => executor.run \in {None, r}

RecordMatchesRun(r) ==
  LET c == runs[r].receipt IN
  IF c = None
  THEN Unfinished(action) \/ Live(executor) => BoundTo(r)
  ELSE /\ BoundTo(r)
       /\ action # None
       /\ IF MatchesReceipt(action, c)
          THEN /\ action.gen = c.gen
               /\ executor # None => executor.gen = c.gen
          ELSE UnappliedSuccessor(c)

-----------------------------------------------------------------------------
(* Admission.                                                              *)

\* Mutant: an Executor that outlives its completed Action is not asked about.
NoPendingAction == ~Unfinished(action)

NoPendingWork == ~Unfinished(action) /\ ~Live(executor)

ClaimAttaches(k, p) == Unfinished(action) /\ SameIntent(action, k, p)

TargetAccounted ==
  UnresolvedTarget(action) = None \/ ReconciledExit(executor)

\* A caller may watch the running executor instead of getting an action.
ClaimObserves(k, p) ==
  /\ ~Unfinished(action)
  /\ TargetAccounted
  /\ Live(executor)
  /\ action # None
  /\ action.id = executor.id
  /\ SameIntent(action, k, p) \/ (k = "run" /\ action.status = "completed")

NewAction(id, k, p, s, r, g, t) ==
  [id |-> id, kind |-> k, payload |-> p, held |-> TRUE, status |-> s,
   run |-> r, gen |-> g, applied |-> FALSE, target |-> t, final |-> FALSE]

\* Mutant: the generation of a gone executor is handed out again.
ClaimGenerationReused == IF Gone(executor) THEN executor.gen ELSE next

ClaimGeneration ==
  IF Gone(executor) THEN Larger(next, executor.gen + 1) ELSE next

\* claim_action creates the action.  A missing record is simply a new one: the
\* callers reconcile from the Run before, in a transaction of its own, and a
\* record lost in between starts again at generation 1.
ClaimAction(id, k, p) ==
  LET g == ClaimGeneration IN
  /\ k \in LifecycleKind
  /\ id \notin issued
  /\ NoPendingWork
  /\ TargetAccounted
  /\ g <= MaxGeneration
  /\ present' = TRUE
  /\ next' = g + 1
  /\ action' = NewAction(id, k, p, "accepted", None, g, None)
  /\ IF Terminal(action)
     THEN history' = Archived /\ taskRun' = None /\ executor' = None
     ELSE UNCHANGED <<history, taskRun, executor>>
  /\ issued' = issued \cup {id}
  /\ UNCHANGED runs

\* The executor, or the workers it left behind, that a Stop must end.
ActiveTarget ==
  IF Live(executor) \/ (executor # None /\ executor.workers # {})
  THEN executor ELSE None

ControlTarget ==
  IF ActiveTarget # None THEN ActiveTarget ELSE UnresolvedTarget(action)

\* claim_control_action: the new action and the fence are one write.  A Stop
\* needs the record, an Abandon takes a missing one for a new one.
ClaimControl(id, k, p, r) ==
  LET g == IF ControlTarget = None THEN next
           ELSE Larger(next, ControlTarget.gen + 1)
  IN
  /\ k \in ControlKind
  /\ id \notin issued
  /\ present \/ k = "abandon"
  /\ BoundTo(r)
  /\ ~Unfinished(action)
  /\ UnresolvedTarget(action) # None =>
       action.run = r /\ UnresolvedTarget(action).run = r
  /\ ActiveTarget # None =>
       /\ Terminal(action)
       /\ action.id = executor.id
       /\ action.gen = executor.gen
       /\ executor.run = r
  /\ g <= MaxGeneration
  /\ present' = TRUE
  /\ taskRun' = r
  /\ next' = g + 1
  /\ action' = NewAction(id, k, p, "applying", r, g, ControlTarget)
  /\ history' = IF Terminal(action) THEN Archived ELSE history
  /\ executor' = None
  /\ issued' = issued \cup {id}
  /\ UNCHANGED runs

-----------------------------------------------------------------------------
(* Binding and application.                                                *)

BindRun(id, g, r) ==
  /\ RequireActive(id)
  /\ action.gen = g
  /\ action.run \in {None, r}
  /\ action.run # None => taskRun \in {None, r}
  /\ executor # None /\ executor.id = id =>
       executor.gen = g /\ executor.run \in {None, r}
  /\ action' = [action EXCEPT !.run = r]
  /\ taskRun' = r
  /\ executor' = IF executor # None /\ executor.id = id
                 THEN [executor EXCEPT !.run = r] ELSE executor
  /\ UNCHANGED <<present, next, history, runs, issued>>

MarkFinalApproval(id, g) ==
  /\ RequireActive(id)
  /\ action.kind \in {"approve", "resume"}
  /\ action.gen = g
  /\ action' = [action EXCEPT !.final = TRUE]
  /\ UNCHANGED <<present, taskRun, next, history, executor, runs, issued>>

RecordApplication(id, g, r, p) ==
  /\ RequireExecutor(id, g)
  /\ Live(executor)
  /\ RequireActive(id)
  /\ action.payload = p
  /\ action.run \in {None, r}
  /\ action' = [action EXCEPT !.run = r, !.applied = TRUE]
  /\ taskRun' = r
  /\ UNCHANGED <<present, next, history, executor, runs, issued>>

\* Release admission once the intent is durable and the executor has shaken
\* hands.
CompleteAction(id, g, outcome) ==
  /\ RequireActive(id)
  /\ RequireExecutor(id, g)
  /\ executor.status = "running"
  /\ executor.handshake
  /\ action.applied
  /\ outcome \in TerminalStatus
  /\ action' = [action EXCEPT !.status = outcome]
  /\ UNCHANGED <<present, taskRun, next, history, executor, runs, issued>>

\* The Run already holds the Stop or Abandon outcome.
CompleteControl(id) ==
  /\ RequireActive(id)
  /\ action.kind \in ControlKind
  /\ executor = None
  /\ action' = [action EXCEPT !.applied = TRUE, !.status = "completed"]
  /\ UNCHANGED <<present, taskRun, next, history, executor, runs, issued>>

FailAction(id) ==
  /\ RequireActive(id)
  /\ action' = [action EXCEPT !.status = "failed"]
  /\ UNCHANGED <<present, taskRun, next, history, executor, runs, issued>>

-----------------------------------------------------------------------------
(* The executor slot.                                                      *)

\* begin_executor returns the reservation it already made to the same caller.
BeginJoins(id, r) ==
  /\ RequireActive(id)
  /\ action.run \in {None, r}
  /\ Live(executor)
  /\ executor.id = id
  /\ executor.run = r

BeginExecutor(id, r, reclaim) ==
  LET replaced == Gone(executor) /\ executor.id = id
      g == IF replaced THEN Larger(action.gen + 1, next) ELSE action.gen
  IN
  /\ RequireActive(id)
  /\ action.run \in {None, r}
  /\ ~Live(executor)
  /\ replaced => reclaim
  /\ g <= MaxGeneration
  /\ action' = [action EXCEPT !.gen = g]
  /\ next' = IF replaced THEN g + 1 ELSE next
  /\ executor' = [status |-> "starting", id |-> id, run |-> r, gen |-> g,
                  pid |-> None, handshake |-> FALSE, workers |-> {},
                  origin |-> "reserved", closed |-> FALSE, failure |-> "none"]
  /\ UNCHANGED <<present, taskRun, history, runs, issued>>

MarkProcessStarted(id, g, pid) ==
  /\ RequireExecutor(id, g)
  /\ executor.status = "starting"
  /\ executor' = [executor EXCEPT !.pid = pid]
  /\ UNCHANGED <<present, taskRun, next, action, history, runs, issued>>

MarkHandshake(id, g, pid) ==
  /\ RequireExecutor(id, g)
  /\ executor.pid \in {None, pid}
  /\ RequireActive(id)
  /\ executor' = [executor EXCEPT !.status = "running", !.pid = pid,
                                  !.handshake = TRUE]
  /\ action' = [action EXCEPT !.status = "applying"]
  /\ UNCHANGED <<present, taskRun, next, history, runs, issued>>

MarkWorkerStarted(id, g, w) ==
  /\ RequireExecutor(id, g)
  /\ Live(executor)
  /\ executor' = [executor EXCEPT !.workers = @ \cup {w}]
  /\ UNCHANGED <<present, taskRun, next, action, history, runs, issued>>

\* Allowed whatever the executor's status: it only forgets a finished worker.
MarkWorkerFinished(id, g, w) ==
  /\ RequireExecutor(id, g)
  /\ w \in executor.workers
  /\ executor' = [executor EXCEPT !.workers = @ \ {w}]
  /\ UNCHANGED <<present, taskRun, next, action, history, runs, issued>>

CloseTicketResume(id, g, r, failed) ==
  /\ ExecutorCurrent(id, g, r)
  /\ executor' = [executor EXCEPT !.closed = TRUE,
                     !.failure = IF failed THEN "failed" ELSE @]
  /\ UNCHANGED <<present, taskRun, next, action, history, runs, issued>>

Closed(a, failed) ==
  IF a.status \in ActiveStatus
  THEN [a EXCEPT !.status = IF failed THEN "failed" ELSE "completed"] ELSE a

\* finish_executor, called by the executor itself when its work returns.
FinishExecutor(id, g, failed) ==
  /\ RequireExecutor(id, g)
  /\ action # None /\ action.id = id
  /\ executor' = [executor EXCEPT !.status = "exited",
                     !.failure = IF failed THEN "failed" ELSE @]
  /\ action' = Closed(action, failed)
  /\ UNCHANGED <<present, taskRun, next, history, runs, issued>>

\* finish_executor, called by the Host that observed the exit: bound to the
\* Run it launched for, and never a second write over a recorded exit.
HostBound(id, g, r) ==
  /\ RequireExecutor(id, g)
  /\ executor.run = r
  /\ action # None /\ action.id = id
  /\ {action.run, taskRun} \subseteq
       {r} \cup (IF action.applied THEN {} ELSE {None})

FinishExecutorFromHost(id, g, r, failed) ==
  /\ HostBound(id, g, r)
  /\ ~Gone(executor)
  /\ Unfinished(action) => failed
  /\ FinishExecutor(id, g, failed)

MarkExecutorAbsent(id, g) ==
  /\ RequireExecutor(id, g)
  /\ Live(executor)
  /\ executor' = [executor EXCEPT !.status = "absent", !.failure = "failed"]
  /\ UNCHANGED <<present, taskRun, next, action, history, runs, issued>>

-----------------------------------------------------------------------------
(* The Run store.  Each of these commits inside the control transaction     *)
(* that checked ExecutorCurrent, so check and save are one step.            *)

\* Mutant: another unfinished Run is not looked for.
CreateRunBeside(id, g, r) ==
  /\ ExecutorCurrent(id, g, None)
  /\ ~RunExists(r)
  /\ runs' = [runs EXCEPT ![r].status = "active"]
  /\ UNCHANGED <<record, issued>>

CreateRun(id, g, r) ==
  /\ ExecutorCurrent(id, g, None)
  /\ ~RunExists(r)
  /\ \A q \in RunId : RunExists(q) => runs[q].status \in ClosedRun
  /\ runs' = [runs EXCEPT ![r].status = "active"]
  /\ UNCHANGED <<record, issued>>

\* The action whose receipt the current one may replace.
ReceiptOwner(r) ==
  LET c == runs[r].receipt
      owned == {a \in {action} \cup {history[i].action : i \in 1..Len(history)} :
                  a # None /\ ReceiptOf(a, c)}
  IN  IF owned = {} THEN None ELSE c.id

\* _persist_application, for the Run the caller bound the action to.  owner is
\* what the caller read before it began.
PersistReceipt(id, g, r, owner) ==
  LET c == runs[r].receipt
      same == MatchesReceipt(action, c)
  IN
  /\ ExecutorCurrent(id, g, r)
  /\ action.run = r
  /\ RunExists(r)
  /\ c # None /\ ~same => owner = c.id
  /\ same => c.gen # g
  /\ runs' = [runs EXCEPT ![r].receipt =
       [id |-> id, kind |-> action.kind, payload |-> action.payload, run |-> r,
        gen |-> g,
        target |-> IF action.kind \in ControlKind THEN action.target ELSE None]]
  /\ UNCHANGED <<record, issued>>

SaveRun(id, g, r, status) ==
  /\ ExecutorCurrent(id, g, r)
  /\ RunExists(r)
  /\ runs[r].status \notin ClosedRun
  /\ \E grant \in {FALSE, action.kind = "approve"} :
       runs' = [runs EXCEPT ![r].status = status, ![r].granted = @ \/ grant]
  /\ UNCHANGED <<record, issued>>

-----------------------------------------------------------------------------
(* Reconciliation after an exit, and after the record itself is lost.      *)

ReceiptProves(id, g, r) ==
  LET c == runs[r].receipt IN
  /\ MatchesReceipt(action, c)
  /\ c.gen = g
  /\ action.run \in {None, r}
  /\ executor.run \in {None, r}
  /\ taskRun \in {None, r}

\* complete_action_from_application_receipt
CompleteFromReceipt(id, g, r, failed) ==
  /\ RequireExecutor(id, g)
  /\ action # None /\ action.id = id
  /\ action.status \in ActiveStatus \cup {"failed"}
  /\ executor.origin # "unproven"
  /\ Gone(executor)
  /\ HasReceipt(r) /\ ReceiptProves(id, g, r)
  /\ action.run = None => /\ action.kind \in {"approve", "resume"}
                          /\ action.held
                          /\ PayloadRun[action.payload] = r
  /\ action' = [action EXCEPT !.run = r, !.applied = TRUE,
                   !.status = IF failed THEN "failed" ELSE "completed"]
  /\ executor' = [executor EXCEPT !.run = r]
  /\ taskRun' = r
  /\ UNCHANGED <<present, next, history, runs, issued>>

\* fail_session_from_application_receipt: the Run failure and the closed
\* action are saved under the one control lock.
FailSession(id, g, r) ==
  /\ RequireExecutor(id, g)
  /\ action # None /\ action.id = id
  /\ executor.origin # "unproven"
  /\ Gone(executor)
  /\ HasReceipt(r) /\ ReceiptProves(id, g, r)
  /\ runs[r].status \notin ClosedRun
  /\ runs' = [runs EXCEPT ![r].status = "failed"]
  /\ action' = [Closed(action, TRUE) EXCEPT !.run = r, !.applied = TRUE]
  /\ executor' = [executor EXCEPT !.status = "exited", !.run = r,
                                  !.failure = "session_interrupted"]
  /\ taskRun' = r
  /\ UNCHANGED <<present, next, history, issued>>

\* The file is deleted or damaged from outside.
LoseRecord ==
  /\ present
  /\ present' = FALSE
  /\ taskRun' = None
  /\ next' = 1
  /\ action' = None
  /\ history' = <<>>
  /\ executor' = None
  /\ UNCHANGED <<runs, issued>>

TargetIdentified(t) ==
  t # None => t.workers # {} \/ t.pid # None

\* Mutant: the generations of a rebuilt record start anew.
ReconcileAnew(r, held) ==
  LET c == runs[r].receipt IN
  /\ ~present
  /\ HasReceipt(r)
  /\ TargetIdentified(c.target)
  /\ c.target # None => c.target.run = c.run /\ c.target.gen < c.gen
  /\ present' = TRUE
  /\ taskRun' = c.run
  /\ next' = 2
  /\ action' = [NewAction(c.id, c.kind, c.payload, "accepted", c.run, 1,
                          c.target)
                EXCEPT !.held = held, !.applied = TRUE]
  /\ executor' = [status |-> "absent", id |-> c.id, run |-> c.run,
                  gen |-> 1, pid |-> None, handshake |-> FALSE,
                  workers |-> {}, origin |-> "unproven", closed |-> FALSE,
                  failure |-> "failed"]
  /\ UNCHANGED <<history, runs, issued>>

\* reconcile_from_run: only the Run's receipt can rebuild the record, and the
\* executor it implies is one nobody has yet proved gone.  held is FALSE when
\* the caller did not present the receipt's own payload.
Reconcile(r, held) ==
  LET c == runs[r].receipt IN
  /\ ~present
  /\ HasReceipt(r)
  /\ TargetIdentified(c.target)
  /\ c.target # None => c.target.run = c.run /\ c.target.gen < c.gen
  /\ present' = TRUE
  /\ taskRun' = c.run
  /\ next' = Larger(2, c.gen + 1)
  /\ action' = [NewAction(c.id, c.kind, c.payload, "accepted", c.run, c.gen,
                          c.target)
                EXCEPT !.held = held, !.applied = TRUE,
                       !.final = \/ c.kind = "approve"
                                 \/ c.kind = "resume" /\ runs[r].granted]
  /\ executor' = [status |-> "absent", id |-> c.id, run |-> c.run,
                  gen |-> c.gen, pid |-> None, handshake |-> FALSE,
                  workers |-> {}, origin |-> "unproven", closed |-> FALSE,
                  failure |-> "failed"]
  /\ UNCHANGED <<history, runs, issued>>

RecordReconciledExit(id, g, r) ==
  /\ RequireActive(id)
  /\ RequireExecutor(id, g)
  /\ taskRun = r /\ action.run = r /\ executor.run = r
  /\ action.gen = g
  /\ executor.status = "absent"
  /\ executor.origin = "unproven"
  /\ executor.pid = None /\ ~executor.handshake
  /\ executor' = [executor EXCEPT !.status = "exited", !.origin = "proven",
                                  !.failure = "failed"]
  /\ UNCHANGED <<present, taskRun, next, action, history, runs, issued>>

-----------------------------------------------------------------------------
Init ==
  /\ present = FALSE
  /\ taskRun = None
  /\ next = 1
  /\ action = None
  /\ history = <<>>
  /\ executor = None
  /\ runs = [r \in RunId |-> [status |-> "none", receipt |-> None,
                             granted |-> FALSE]]
  /\ issued = {}

Admission ==
  \E id \in ActionId, k \in Kind, p \in Payload :
    ClaimAction(id, k, p) \/ \E r \in RunId : ClaimControl(id, k, p, r)

Application ==
  \E id \in ActionId, g \in 1..MaxGeneration :
    \/ \E r \in RunId : BindRun(id, g, r)
    \/ MarkFinalApproval(id, g)
    \/ \E r \in RunId, p \in Payload : RecordApplication(id, g, r, p)
    \/ \E outcome \in TerminalStatus : CompleteAction(id, g, outcome)
    \/ CompleteControl(id)
    \/ FailAction(id)

Slot ==
  \E id \in ActionId, g \in 1..MaxGeneration :
    \/ \E r \in RunId \cup {None}, reclaim \in BOOLEAN :
         BeginExecutor(id, r, reclaim)
    \/ \E pid \in Proc : MarkProcessStarted(id, g, pid)
                        \/ MarkHandshake(id, g, pid)
    \/ \E w \in Worker : MarkWorkerStarted(id, g, w)
                        \/ MarkWorkerFinished(id, g, w)
    \/ \E r \in RunId, failed \in BOOLEAN : CloseTicketResume(id, g, r, failed)
    \/ \E failed \in BOOLEAN : FinishExecutor(id, g, failed)
    \/ \E r \in RunId \cup {None}, failed \in BOOLEAN :
         FinishExecutorFromHost(id, g, r, failed)
    \/ MarkExecutorAbsent(id, g)

RunStore ==
  \E id \in ActionId, g \in 1..MaxGeneration, r \in RunId :
    \/ CreateRun(id, g, r)
    \/ PersistReceipt(id, g, r, ReceiptOwner(r))
    \/ \E status \in Outcome : SaveRun(id, g, r, status)

FromReceipt ==
  \/ \E r \in RunId, held \in BOOLEAN : Reconcile(r, held)
  \/ \E id \in ActionId, g \in 1..MaxGeneration, r \in RunId :
       \/ \E failed \in BOOLEAN : CompleteFromReceipt(id, g, r, failed)
       \/ FailSession(id, g, r)
       \/ RecordReconciledExit(id, g, r)

Recovery == LoseRecord \/ FromReceipt

Next == Admission \/ Application \/ Slot \/ RunStore \/ Recovery

Spec == Init /\ [][Next]_vars

-----------------------------------------------------------------------------
(* Ownership.                                                              *)

\* A missing record leaves no binding behind.
MissingIsEmpty ==
  ~present => /\ taskRun = None /\ next = 1 /\ action = None
              /\ history = <<>> /\ executor = None

\* The executor slot always holds the current action's own generation: the record
\* names one owner, by its (id, generation) pair.
SlotIsActions ==
  executor # None => /\ action # None
                     /\ executor.id = action.id
                     /\ executor.gen = action.gen

\* No generation the record as it stands, or its history, mentions can be handed
\* out again.  What a lost record mentioned is not remembered.
GenerationsSpent ==
  /\ action # None => action.gen < next
  /\ action # None /\ action.target # None => action.target.gen < action.gen
  /\ \A i \in 1..Len(history) : /\ history[i].action.gen < next
                                /\ action # None =>
                                     history[i].action.gen < action.gen

\* A receipt sits in the one Run its action was bound to and never runs ahead
\* of that action; no two Runs carry the receipt of the same action.
ReceiptsGenuine ==
  /\ action # None => action.id \in issued
  /\ \A r \in RunId : LET c == runs[r].receipt IN
       c # None => /\ c.id \in issued
                   /\ c.run = r
                   /\ RunExists(r)
                   /\ c.target # None => c.target.gen < c.gen
                   /\ action # None /\ action.id = c.id =>
                        action.run = r /\ c.gen <= action.gen
  /\ \A q, r \in RunId :
       HasReceipt(q) /\ HasReceipt(r)
         /\ runs[q].receipt.id = runs[r].receipt.id => q = r

\* At most one Run of the task is unfinished.
OneOpenRun ==
  \A q, r \in RunId :
    RunExists(q) /\ RunExists(r) /\ q # r =>
      runs[q].status \in ClosedRun \/ runs[r].status \in ClosedRun

\* A slot still empty: the action it is kept for has left no receipt.
UnstartedUnreceipted ==
  action # None /\ executor = None =>
    \A r \in RunId : HasReceipt(r) => runs[r].receipt.id # action.id

\* The store's ownership: the slot, the current action, the generations spent
\* and the Runs' receipts agree, through the loss and rebuilding of the record.
OwnershipInv ==
  /\ MissingIsEmpty /\ SlotIsActions /\ GenerationsSpent /\ ReceiptsGenuine
  /\ UnstartedUnreceipted /\ OneOpenRun

\* An Executor is reserved in the slot (begin_executor).
Reserves ==
  ~Live(executor) /\ executor' # None /\ executor'.status = "starting"

\* A reservation takes a generation beyond the one it replaces, the target of its
\* action, every one in the history, and every receipt of its action in any Run,
\* also of a record lost and rebuilt.  So a process that got as far as its
\* receipt never shares its generation with a later one (task_control.py 330,
\* 559-706).
ReservationsFresh ==
  [][Reserves =>
       LET g == executor'.gen IN
       /\ executor # None => executor.gen < g
       /\ action.target # None => action.target.gen < g
       /\ \A i \in 1..Len(history) : history[i].action.gen < g
       /\ \A r \in RunId :
            HasReceipt(r) /\ runs[r].receipt.id = executor'.id
              => runs[r].receipt.gen < g]_vars
=============================================================================
