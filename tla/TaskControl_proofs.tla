------------------------- MODULE TaskControl_proofs -------------------------
(***************************************************************************)
(* Proofs about the Task Control Record for every value of the constants.  *)
(***************************************************************************)
EXTENDS TaskControlOwnership, TLAPS

IInv == TypeOK /\ OwnershipInv

-----------------------------------------------------------------------------
(* Lemmas on the helpers.                                                  *)

\* The larger of two numbers is one of them and at least each.
LEMMA LargerFact ==
  ASSUME NEW a \in Nat, NEW b \in Nat
  PROVE  /\ Larger(a, b) \in Nat
         /\ Larger(a, b) >= a
         /\ Larger(a, b) >= b
BY DEF Larger

\* Shifting a generation up, or taking the larger of two, gives a generation.
LEMMA GenerationFact ==
  ASSUME NEW a \in Nat \ {0}, NEW b \in Nat \ {0}
  PROVE  Larger(a, b) \in Nat \ {0} /\ a + 1 \in Nat \ {0}
BY DEF Larger

\* Archiving keeps history well formed and adds nothing but the current entry.
LEMMA ArchivedFact ==
  ASSUME TypeOK, action \in Action
  PROVE  /\ Archived \in Seq(Entry)
         /\ Len(Archived) <= MaxHistory
         /\ \A i \in 1..Len(Archived) :
              \/ Archived[i].action = action
              \/ \E j \in 1..Len(history) : Archived[i] = history[j]
<1> DEFINE e == [run |-> taskRun, action |-> action, executor |-> executor]
           all == Append(history, e)
<1>1. e \in Entry /\ e.action = action
  BY DEF TypeOK, Entry
<1>2. history \in Seq(Entry)
  BY DEF TypeOK
<1>3. /\ all \in Seq(Entry)
      /\ Len(all) = Len(history) + 1
      /\ \A i \in 1..Len(all) : all[i] = e \/ \E j \in 1..Len(history) : all[i] = history[j]
  BY <1>1, <1>2
<1> HIDE DEF e, all
<1>4. CASE Len(all) > MaxHistory
  <2>1. /\ MaxHistory \in Nat \ {0}
        /\ Len(all) \in Nat
    BY <1>3, ConstantsAssumption
  <2>2. Archived = SubSeq(all, Len(all) - MaxHistory + 1, Len(all))
    BY <1>4 DEF Archived, all, e
  <2>3. Archived \in Seq(Entry)
    BY <1>3, <1>4, <2>1, <2>2
  <2>4. \A i \in 1..Len(Archived) : \E k \in 1..Len(all) : Archived[i] = all[k]
    BY <1>3, <1>4, <2>1, <2>2
  <2>5. Len(Archived) <= MaxHistory
    BY <1>3, <1>4, <2>1, <2>2
  <2> QED
    BY <1>1, <1>3, <2>3, <2>4, <2>5
<1>5. CASE ~(Len(all) > MaxHistory)
  <2>1. Archived = all
    BY <1>5 DEF Archived, all, e
  <2>2. Len(all) <= MaxHistory
    BY <1>3, <1>5, ConstantsAssumption
  <2> QED
    BY <1>1, <1>3, <2>1, <2>2
<1> QED
  BY <1>4, <1>5

\* Replacing the receipt-bearing part of one Run keeps the store well formed.
USE DEF Unfinished, Terminal, Live, Gone, ActiveStatus, TerminalStatus,
        LiveStatus, GoneStatus, Generation

-----------------------------------------------------------------------------
(* Type correctness, one lemma per group of operations.                    *)

LEMMA InitType == Init => TypeOK
<1> SUFFICES ASSUME Init PROVE TypeOK
  OBVIOUS
<1>1. next \in Generation /\ history \in Seq(Entry) /\ Len(history) <= MaxHistory
  BY ConstantsAssumption DEF Init
<1>2. runs \in [RunId -> Run]
  BY DEF Init, Run, RunStatus
<1> QED
  BY <1>1, <1>2 DEF Init, TypeOK

LEMMA AdmissionType ==
  ASSUME TypeOK, Admission PROVE TypeOK'
<1>1. ASSUME NEW id \in ActionId, NEW k \in Kind, NEW p \in Payload,
             ClaimAction(id, k, p)
      PROVE  TypeOK'
  <2> DEFINE g == IF Gone(executor) THEN Larger(next, executor.gen + 1) ELSE next
  <2>1. g \in Generation
    <3>1. next \in Generation
      BY DEF TypeOK
    <3>2. CASE Gone(executor)
      <4>1. executor.gen + 1 \in Generation
        BY <3>2 DEF TypeOK, Executor
      <4>2. g = Larger(next, executor.gen + 1)
        BY <3>2
      <4> HIDE DEF g
      <4> QED
        BY <3>1, <4>1, <4>2, GenerationFact
    <3> QED
      BY <3>1, <3>2
  <2> HIDE DEF g
  <2>2. next' = g + 1 /\ action' = NewAction(id, k, p, "accepted", None, g, None)
    BY <1>1 DEF ClaimAction, ClaimGeneration, g
  <2>3. next' \in Generation /\ action' \in Action
    BY <2>1, <2>2 DEF NewAction, Action
  <2>4. CASE Terminal(action)
    <3>1. history' = Archived /\ taskRun' = None /\ executor' = None
      BY <1>1, <2>4 DEF ClaimAction
    <3>2. Archived \in Seq(Entry) /\ Len(Archived) <= MaxHistory
      BY <2>4, ArchivedFact DEF TypeOK
    <3> QED
      BY <1>1, <2>3, <3>1, <3>2 DEF ClaimAction, TypeOK
  <2>5. CASE ~Terminal(action)
    BY <1>1, <2>3, <2>5 DEF ClaimAction, TypeOK
  <2> QED
    BY <2>4, <2>5
<1>2. ASSUME NEW id \in ActionId, NEW k \in Kind, NEW p \in Payload,
             NEW r \in RunId, ClaimControl(id, k, p, r)
      PROVE  TypeOK'
  <2> DEFINE t == ControlTarget
             g == IF t = None THEN next ELSE Larger(next, t.gen + 1)
  <2>1. t \in Executor \cup {None}
    BY DEF ControlTarget, ActiveTarget, UnresolvedTarget, TypeOK, Action
  <2>2. g \in Generation
    <3>1. next \in Generation
      BY DEF TypeOK
    <3>2. CASE t # None
      <4>1. t.gen + 1 \in Generation
        BY <2>1, <3>2 DEF Executor
      <4>2. g = Larger(next, t.gen + 1)
        BY <3>2
      <4> HIDE DEF g, t
      <4> QED
        BY <3>1, <4>1, <4>2, GenerationFact
    <3> QED
      BY <3>1, <3>2
  <2>3. /\ next' = g + 1
        /\ action' = NewAction(id, k, p, "applying", r, g, t)
    BY <1>2 DEF ClaimControl
  <2> HIDE DEF g, t
  <2>4. next' \in Generation /\ action' \in Action
    BY <2>1, <2>2, <2>3 DEF NewAction, Action
  <2>5. history' \in Seq(Entry) /\ Len(history') <= MaxHistory
    BY <1>2, ArchivedFact DEF ClaimControl, TypeOK
  <2> QED
    BY <1>2, <2>4, <2>5 DEF ClaimControl, TypeOK
<1> QED
  BY <1>1, <1>2 DEF Admission

LEMMA ApplicationType ==
  ASSUME TypeOK, Application PROVE TypeOK'
<1>1. PICK id \in ActionId, g \in 1..MaxGeneration :
        \/ \E r \in RunId : BindRun(id, g, r)
        \/ MarkFinalApproval(id, g)
        \/ \E r \in RunId, p \in Payload : RecordApplication(id, g, r, p)
        \/ \E outcome \in TerminalStatus : CompleteAction(id, g, outcome)
        \/ CompleteControl(id)
        \/ FailAction(id)
  BY DEF Application
<1>2. action \in Action
  BY <1>1 DEF TypeOK, BindRun, MarkFinalApproval, RecordApplication,
              CompleteAction, CompleteControl, FailAction, RequireActive
<1>3. ASSUME NEW r \in RunId, BindRun(id, g, r) PROVE TypeOK'
  <2>1. action' \in Action
    BY <1>2, <1>3 DEF BindRun, Action
  <2>2. executor' \in Executor \cup {None}
    <3>1. CASE executor # None /\ executor.id = id
      BY <1>3, <3>1 DEF BindRun, TypeOK, Executor
    <3>2. CASE ~(executor # None /\ executor.id = id)
      BY <1>3, <3>2 DEF BindRun, TypeOK
    <3> QED
      BY <3>1, <3>2
  <2> QED
    BY <1>3, <2>1, <2>2 DEF BindRun, TypeOK
<1>4. CASE MarkFinalApproval(id, g)
  BY <1>2, <1>4 DEF MarkFinalApproval, TypeOK, Action
<1>5. ASSUME NEW r \in RunId, NEW p \in Payload, RecordApplication(id, g, r, p)
      PROVE  TypeOK'
  BY <1>2, <1>5 DEF RecordApplication, TypeOK, Action
<1>6. ASSUME NEW outcome \in TerminalStatus, CompleteAction(id, g, outcome)
      PROVE  TypeOK'
  BY <1>2, <1>6 DEF CompleteAction, TypeOK, Action
<1>7. CASE CompleteControl(id)
  BY <1>2, <1>7 DEF CompleteControl, TypeOK, Action
<1>8. CASE FailAction(id)
  BY <1>2, <1>8 DEF FailAction, TypeOK, Action
<1> QED
  BY <1>1, <1>3, <1>4, <1>5, <1>6, <1>7, <1>8

LEMMA ClosedFact ==
  ASSUME NEW a \in Action, NEW failed \in BOOLEAN
  PROVE  /\ Closed(a, failed) \in Action
         /\ Closed(a, failed).id = a.id
         /\ Closed(a, failed).gen = a.gen
         /\ Closed(a, failed).run = a.run
         /\ Closed(a, failed).target = a.target
BY DEF Closed, Action

\* A reservation and the action it serves are well formed.
LEMMA BeginFact ==
  ASSUME TypeOK, NEW id \in ActionId, NEW r \in RunId \cup {None},
         NEW reclaim \in BOOLEAN, BeginExecutor(id, r, reclaim)
  PROVE  /\ action' \in Action /\ action' # None
         /\ executor' \in Executor /\ executor' # None
         /\ next' \in Generation
<1> DEFINE replaced == Gone(executor) /\ executor.id = id
           h == IF replaced THEN Larger(action.gen + 1, next) ELSE action.gen
<1>1. action \in Action
  BY DEF BeginExecutor, RequireActive, TypeOK
<1>2. h \in Generation
  <2>1. next \in Generation /\ action.gen \in Generation
    BY <1>1 DEF TypeOK, Action
  <2>2. action.gen + 1 \in Generation
    BY <2>1
  <2>3. Larger(action.gen + 1, next) \in Generation
    BY <2>1, <2>2, GenerationFact
  <2> QED
    BY <2>1, <2>3
<1>3. /\ action' = [action EXCEPT !.gen = h]
      /\ next' = IF replaced THEN h + 1 ELSE next
      /\ executor' = [status |-> "starting", id |-> id, run |-> r, gen |-> h,
                pid |-> None, handshake |-> FALSE, workers |-> {},
                origin |-> "reserved", closed |-> FALSE, failure |-> "none"]
  BY DEF BeginExecutor
<1> HIDE DEF h, replaced
<1>4. action' \in Action
  BY <1>1, <1>2, <1>3 DEF Action
<1>5. next' \in Generation
  BY <1>2, <1>3 DEF TypeOK
<1>6. executor' \in Executor
  BY <1>2, <1>3 DEF Executor
<1> QED
  BY <1>4, <1>5, <1>6, NoneAssumption

LEMMA SlotType ==
  ASSUME TypeOK, Slot PROVE TypeOK'
<1>1. PICK id \in ActionId, g \in 1..MaxGeneration :
        \/ \E r \in RunId \cup {None}, reclaim \in BOOLEAN :
             BeginExecutor(id, r, reclaim)
        \/ \E pid \in Proc : MarkProcessStarted(id, g, pid)
                            \/ MarkHandshake(id, g, pid)
        \/ \E w \in Worker : MarkWorkerStarted(id, g, w)
                            \/ MarkWorkerFinished(id, g, w)
        \/ \E r \in RunId, failed \in BOOLEAN :
             CloseTicketResume(id, g, r, failed)
        \/ \E failed \in BOOLEAN : FinishExecutor(id, g, failed)
        \/ \E r \in RunId \cup {None}, failed \in BOOLEAN :
             FinishExecutorFromHost(id, g, r, failed)
        \/ MarkExecutorAbsent(id, g)
  BY DEF Slot
<1>2. ASSUME NEW r \in RunId \cup {None}, NEW reclaim \in BOOLEAN,
             BeginExecutor(id, r, reclaim)
      PROVE  TypeOK'
  BY <1>2, BeginFact DEF BeginExecutor, TypeOK
<1>3. ASSUME NEW pid \in Proc, MarkProcessStarted(id, g, pid) PROVE TypeOK'
  BY <1>3 DEF MarkProcessStarted, RequireExecutor, TypeOK, Executor
<1>4. ASSUME NEW pid \in Proc, MarkHandshake(id, g, pid) PROVE TypeOK'
  <2>1. action \in Action /\ executor \in Executor
    BY <1>4 DEF MarkHandshake, RequireExecutor, RequireActive, TypeOK
  <2>2. action' \in Action
    BY <1>4, <2>1 DEF MarkHandshake, Action
  <2>3. executor' \in Executor
    BY <1>4, <2>1 DEF MarkHandshake, Executor
  <2> QED
    BY <1>4, <2>2, <2>3 DEF MarkHandshake, TypeOK
<1>5. ASSUME NEW w \in Worker,
             MarkWorkerStarted(id, g, w) \/ MarkWorkerFinished(id, g, w)
      PROVE  TypeOK'
  BY <1>5 DEF MarkWorkerStarted, MarkWorkerFinished, RequireExecutor, TypeOK,
              Executor
<1>6. ASSUME NEW r \in RunId, NEW failed \in BOOLEAN,
             CloseTicketResume(id, g, r, failed)
      PROVE  TypeOK'
  BY <1>6 DEF CloseTicketResume, ExecutorCurrent, RequireExecutor, TypeOK,
              Executor
<1>7. ASSUME NEW failed \in BOOLEAN, FinishExecutor(id, g, failed) PROVE TypeOK'
  <2>1. action \in Action /\ executor \in Executor
    BY <1>7 DEF FinishExecutor, RequireExecutor, TypeOK
  <2>2. executor' \in Executor
    BY <1>7, <2>1 DEF FinishExecutor, Executor
  <2> QED
    BY <1>7, <2>1, <2>2, ClosedFact DEF FinishExecutor, TypeOK
<1>8. ASSUME NEW r \in RunId \cup {None}, NEW failed \in BOOLEAN,
             FinishExecutorFromHost(id, g, r, failed)
      PROVE  TypeOK'
  BY <1>7, <1>8 DEF FinishExecutorFromHost
<1>9. CASE MarkExecutorAbsent(id, g)
  BY <1>9 DEF MarkExecutorAbsent, RequireExecutor, TypeOK, Executor
<1> QED
  BY <1>1, <1>2, <1>3, <1>4, <1>5, <1>6, <1>7, <1>8, <1>9

\* A save may leave any status behind, a receipt take any owner along.
LEMMA PersistType ==
  ASSUME TypeOK, NEW id \in ActionId, NEW g \in 1..MaxGeneration,
         NEW r \in RunId, NEW owner, PersistReceipt(id, g, r, owner)
  PROVE  TypeOK'
<1> DEFINE c == [id |-> id, kind |-> action.kind, payload |-> action.payload,
                 run |-> r, gen |-> g,
                 target |-> IF action.kind \in ControlKind THEN action.target
                            ELSE None]
<1>1. c \in Receipt
  <2>1. action \in Action
    BY DEF PersistReceipt, ExecutorCurrent, TypeOK
  <2> QED
    BY <2>1 DEF Action, Receipt
<1>2. runs' = [runs EXCEPT ![r].receipt = c]
  BY DEF PersistReceipt
<1> HIDE DEF c
<1>3. runs' \in [RunId -> Run]
  BY <1>1, <1>2 DEF TypeOK, Run
<1> QED
  BY <1>3 DEF PersistReceipt, record, TypeOK

LEMMA SaveType ==
  ASSUME TypeOK, NEW id \in ActionId, NEW g \in 1..MaxGeneration,
         NEW r \in RunId, NEW status \in RunStatus, SaveRun(id, g, r, status)
  PROVE  TypeOK'
<1>1. PICK grant \in BOOLEAN :
        runs' = [runs EXCEPT ![r].status = status, ![r].granted = @ \/ grant]
  BY DEF SaveRun
<1>2. runs' \in [RunId -> Run]
  BY <1>1 DEF TypeOK, Run
<1> QED
  BY <1>2 DEF SaveRun, record, TypeOK

LEMMA RunStoreType ==
  ASSUME TypeOK, RunStore PROVE TypeOK'
<1>1. PICK id \in ActionId, g \in 1..MaxGeneration, r \in RunId :
        \/ CreateRun(id, g, r)
        \/ PersistReceipt(id, g, r, ReceiptOwner(r))
        \/ \E status \in Outcome : SaveRun(id, g, r, status)
  BY DEF RunStore
<1>2. CASE CreateRun(id, g, r)
  BY <1>2 DEF CreateRun, record, TypeOK, Run, RunStatus
<1>3. CASE \E status \in Outcome : SaveRun(id, g, r, status)
  BY <1>3, SaveType, ConstantsAssumption
<1> QED
  BY <1>1, <1>2, <1>3, PersistType

LEMMA RecoveryType ==
  ASSUME TypeOK, Recovery PROVE TypeOK'
<1>1. CASE LoseRecord
  <2>1. /\ next' \in Generation
        /\ history' \in Seq(Entry) /\ Len(history') <= MaxHistory
    BY <1>1, ConstantsAssumption DEF LoseRecord
  <2> QED
    BY <1>1, <2>1 DEF LoseRecord, TypeOK
<1>2. ASSUME NEW r \in RunId, NEW held \in BOOLEAN, Reconcile(r, held)
      PROVE  TypeOK'
  <2> DEFINE c == runs[r].receipt
  <2>1. c \in Receipt
    BY <1>2 DEF Reconcile, HasReceipt, TypeOK, Run
  <2>2. c.gen + 1 \in Generation /\ runs[r].granted \in BOOLEAN
    BY <2>1 DEF TypeOK, Run, Receipt
  <2>3. next' \in Generation
    <3>1. next' = Larger(2, c.gen + 1)
      BY <1>2 DEF Reconcile
    <3>2. 2 \in Generation /\ c.gen + 1 \in Generation
      BY <2>2
    <3> HIDE DEF c
    <3> QED
      BY <3>1, <3>2, GenerationFact
  <2>4. action' \in Action
    <3> DEFINE f == \/ c.kind = "approve"
                    \/ c.kind = "resume" /\ runs[r].granted
    <3>1. action' = [NewAction(c.id, c.kind, c.payload, "accepted", c.run, c.gen,
                               c.target)
                     EXCEPT !.held = held, !.applied = TRUE, !.final = f]
      BY <1>2 DEF Reconcile
    <3>2. f \in BOOLEAN
      OBVIOUS
    <3> HIDE DEF f, c
    <3> QED
      BY <2>1, <3>1, <3>2 DEF NewAction, Action, Receipt
  <2>5. executor' \in Executor
    BY <1>2, <2>1 DEF Reconcile, Executor, Receipt
  <2>6. present' \in BOOLEAN /\ taskRun' \in RunId
    BY <1>2, <2>1 DEF Reconcile, Receipt
  <2> QED
    BY <1>2, <2>3, <2>4, <2>5, <2>6 DEF Reconcile, TypeOK
<1>3. ASSUME NEW id \in ActionId, NEW g \in 1..MaxGeneration, NEW r \in RunId,
             NEW failed \in BOOLEAN, CompleteFromReceipt(id, g, r, failed)
      PROVE  TypeOK'
  <2>1. action \in Action /\ executor \in Executor
    BY <1>3 DEF CompleteFromReceipt, RequireExecutor, TypeOK
  <2>2. action' \in Action
    BY <1>3, <2>1 DEF CompleteFromReceipt, Action
  <2>3. executor' \in Executor
    BY <1>3, <2>1 DEF CompleteFromReceipt, Executor
  <2> QED
    BY <1>3, <2>2, <2>3 DEF CompleteFromReceipt, TypeOK
<1>4. ASSUME NEW id \in ActionId, NEW g \in 1..MaxGeneration, NEW r \in RunId,
             FailSession(id, g, r)
      PROVE  TypeOK'
  <2>1. action \in Action /\ executor \in Executor
    BY <1>4 DEF FailSession, RequireExecutor, TypeOK
  <2>2. action' \in Action
    <3>1. Closed(action, TRUE) \in Action
      BY <2>1, ClosedFact
    <3>2. action' = [Closed(action, TRUE) EXCEPT !.run = r, !.applied = TRUE]
      BY <1>4 DEF FailSession
    <3> QED
      BY <3>1, <3>2 DEF Action
  <2>3. executor' \in Executor
    BY <1>4, <2>1 DEF FailSession, Executor
  <2>4. runs' \in [RunId -> Run]
    BY <1>4 DEF FailSession, TypeOK, Run, RunStatus
  <2> QED
    BY <1>4, <2>2, <2>3, <2>4 DEF FailSession, TypeOK
<1>5. ASSUME NEW id \in ActionId, NEW g \in 1..MaxGeneration, NEW r \in RunId,
             RecordReconciledExit(id, g, r)
      PROVE  TypeOK'
  BY <1>5 DEF RecordReconciledExit, RequireExecutor, TypeOK, Executor
<1> QED
  BY <1>1, <1>2, <1>3, <1>4, <1>5 DEF Recovery, FromReceipt

LEMMA NextType ==
  ASSUME TypeOK, [Next]_vars PROVE TypeOK'
<1>1. CASE UNCHANGED vars
  BY <1>1 DEF vars, TypeOK
<1> QED
  BY <1>1, AdmissionType, ApplicationType, SlotType, RunStoreType, RecoveryType
  DEF Next

\* The record, its history and the Run store always have the shape that
\* _validate_record accepts.
THEOREM TypeCorrect == Spec => []TypeOK
<1>1. Init => TypeOK
  BY InitType
<1>2. TypeOK /\ [Next]_vars => TypeOK'
  BY NextType
<1> QED
  BY <1>1, <1>2, PTL DEF Spec

-----------------------------------------------------------------------------
(* Ownership.  Most transactions keep the owner the record already names;   *)
(* the others are the claims, the reservation of an executor, the receipt   *)
(* and the loss and rebuilding of the record.                               *)

USE DEF HasReceipt, RunExists

\* What a transaction that keeps the record's owner leaves alone.
KeepsOwner ==
  /\ present /\ present'
  /\ next' = next /\ history' = history /\ issued' = issued
  /\ action # None /\ action' # None
  /\ action'.id = action.id
  /\ action'.gen = action.gen
  /\ action'.target = action.target
  /\ action.run # None => action'.run = action.run
  /\ executor' = None <=> executor = None
  /\ executor # None => /\ executor'.id = executor.id
                        /\ executor'.gen = executor.gen
  /\ \A r \in RunId : /\ runs'[r].receipt = runs[r].receipt
                      /\ RunExists(r) => RunExists(r)'

\* Keeping the owner keeps everything but the uniqueness of the open Run.
LEMMA KeptOwner ==
  ASSUME TypeOK, OwnershipInv, KeepsOwner
  PROVE  /\ MissingIsEmpty' /\ SlotIsActions' /\ GenerationsSpent'
         /\ ReceiptsGenuine' /\ UnstartedUnreceipted'
<1>1. MissingIsEmpty'
  BY DEF KeepsOwner, MissingIsEmpty
<1>2. SlotIsActions'
  BY DEF KeepsOwner, OwnershipInv, SlotIsActions
<1>3. GenerationsSpent'
  BY DEF KeepsOwner, OwnershipInv, GenerationsSpent
<1>4. ReceiptsGenuine'
  <2>1. action'.id \in issued'
    BY DEF KeepsOwner, OwnershipInv, ReceiptsGenuine
  <2>2. ASSUME NEW r \in RunId, runs[r].receipt # None
        PROVE  LET c == runs[r].receipt IN
               /\ c.id \in issued'
               /\ c.run = r
               /\ RunExists(r)'
               /\ c.target # None => c.target.gen < c.gen
               /\ action'.id = c.id => action'.run = r /\ c.gen <= action'.gen
    <3> DEFINE c == runs[r].receipt
    <3>1. /\ c.id \in issued /\ c.run = r /\ RunExists(r)
          /\ c.target # None => c.target.gen < c.gen
          /\ action # None /\ action.id = c.id =>
               action.run = r /\ c.gen <= action.gen
      BY <2>2 DEF OwnershipInv, ReceiptsGenuine
    <3>2. RunExists(r)' /\ issued' = issued
      BY <3>1 DEF KeepsOwner
    <3>3. r # None
      BY ConstantsAssumption
    <3> HIDE DEF c
    <3>4. action'.id = c.id => action'.run = r /\ c.gen <= action'.gen
      BY <3>1, <3>3 DEF KeepsOwner
    <3> QED
      BY <3>1, <3>2, <3>4 DEF c
  <2>3. ASSUME NEW q \in RunId, NEW r \in RunId, HasReceipt(q)', HasReceipt(r)',
               runs'[q].receipt.id = runs'[r].receipt.id
        PROVE  q = r
    BY <2>3 DEF KeepsOwner, OwnershipInv, ReceiptsGenuine
  <2>4. \A r \in RunId : runs'[r].receipt = runs[r].receipt
    BY DEF KeepsOwner
  <2> QED
    BY <2>1, <2>2, <2>3, <2>4 DEF ReceiptsGenuine
<1>5. UnstartedUnreceipted'
  BY DEF KeepsOwner, OwnershipInv, UnstartedUnreceipted
<1> QED
  BY <1>1, <1>2, <1>3, <1>4, <1>5

\* With the Run store untouched, the open Run is unique as before.
LEMMA KeptOwnerAndRuns ==
  ASSUME TypeOK, OwnershipInv, KeepsOwner, runs' = runs PROVE OwnershipInv'
BY KeptOwner DEF OwnershipInv, OneOpenRun

\* An executor in the slot means the record is there and names its action.
LEMMA SlotFact ==
  ASSUME OwnershipInv, executor # None
  PROVE  present /\ action # None /\ executor.id = action.id
         /\ executor.gen = action.gen
BY DEF OwnershipInv, MissingIsEmpty, SlotIsActions

\* What an archived entry carries.
LEMMA HistoryFact ==
  ASSUME TypeOK, NEW i \in 1..Len(history)
  PROVE  history[i].action \in Action /\ history[i].action.gen \in Nat
<1>1. history \in Seq(Entry)
  BY DEF TypeOK
<1>2. history[i] \in Entry
  BY <1>1
<1>3. history[i].action \in Action
  BY <1>2 DEF Entry
<1> QED
  BY <1>3 DEF Action

LEMMA ApplicationKeeps ==
  ASSUME TypeOK, OwnershipInv, Application PROVE KeepsOwner /\ runs' = runs
<1>1. PICK id \in ActionId, g \in 1..MaxGeneration :
        \/ \E r \in RunId : BindRun(id, g, r)
        \/ MarkFinalApproval(id, g)
        \/ \E r \in RunId, p \in Payload : RecordApplication(id, g, r, p)
        \/ \E outcome \in TerminalStatus : CompleteAction(id, g, outcome)
        \/ CompleteControl(id)
        \/ FailAction(id)
  BY DEF Application
<1>2. present /\ action \in Action /\ action # None
  BY <1>1 DEF TypeOK, BindRun, MarkFinalApproval, RecordApplication,
              CompleteAction, CompleteControl, FailAction, RequireActive
<1>4. /\ present' = present /\ next' = next /\ history' = history
      /\ issued' = issued /\ runs' = runs
  BY <1>1 DEF BindRun, MarkFinalApproval, RecordApplication,
              CompleteAction, CompleteControl, FailAction
<1>5. /\ action' # None
      /\ action'.id = action.id
      /\ action'.gen = action.gen
      /\ action'.target = action.target
      /\ action.run # None => action'.run = action.run
  <2>2. CASE \E r \in RunId : BindRun(id, g, r)
    BY <1>2, <2>2, NoneAssumption DEF BindRun, Action
  <2>3. CASE MarkFinalApproval(id, g)
    BY <1>2, <2>3, NoneAssumption DEF MarkFinalApproval, Action
  <2>4. CASE \E r \in RunId, p \in Payload : RecordApplication(id, g, r, p)
    <3>1. PICK r \in RunId :
            /\ action.run \in {None, r}
            /\ action' = [action EXCEPT !.run = r, !.applied = TRUE]
      BY <2>4 DEF RecordApplication
    <3> QED
      BY <1>2, <3>1, NoneAssumption DEF Action
  <2>5. CASE \E outcome \in TerminalStatus : CompleteAction(id, g, outcome)
    BY <1>2, <2>5, NoneAssumption DEF CompleteAction, Action
  <2>6. CASE CompleteControl(id)
    BY <1>2, <2>6, NoneAssumption DEF CompleteControl, Action
  <2>7. CASE FailAction(id)
    BY <1>2, <2>7, NoneAssumption DEF FailAction, Action
  <2> QED
    BY <1>1, <2>2, <2>3, <2>4, <2>5, <2>6, <2>7
<1>6. \/ executor' = executor
      \/ /\ executor # None /\ executor' # None
         /\ executor'.id = executor.id
         /\ executor'.gen = executor.gen
  <2>1. ASSUME NEW r \in RunId, BindRun(id, g, r), executor' # executor
        PROVE  /\ executor # None /\ executor' # None
               /\ executor'.id = executor.id
               /\ executor'.gen = executor.gen
    <3>1. executor # None /\ executor' = [executor EXCEPT !.run = r]
      BY <2>1 DEF BindRun
    <3> QED
      BY <3>1, NoneAssumption DEF TypeOK, Executor
  <2>2. executor' = executor \/ \E r \in RunId : BindRun(id, g, r)
    BY <1>1 DEF MarkFinalApproval, RecordApplication, CompleteAction,
                CompleteControl, FailAction
  <2> QED
    BY <2>1, <2>2
<1> QED
  BY <1>2, <1>4, <1>5, <1>6 DEF KeepsOwner

\* What an executor, or its Host, does to its own slot.
HolderStep(id, g) ==
  \/ \E pid \in Proc : MarkProcessStarted(id, g, pid) \/ MarkHandshake(id, g, pid)
  \/ \E w \in Worker : MarkWorkerStarted(id, g, w) \/ MarkWorkerFinished(id, g, w)
  \/ \E r \in RunId, failed \in BOOLEAN : CloseTicketResume(id, g, r, failed)
  \/ \E failed \in BOOLEAN : FinishExecutor(id, g, failed)
  \/ MarkExecutorAbsent(id, g)

LEMMA HolderKeeps ==
  ASSUME TypeOK, OwnershipInv, NEW id \in ActionId, NEW g \in 1..MaxGeneration,
         HolderStep(id, g)
  PROVE  KeepsOwner /\ runs' = runs
<1>1. executor # None
  BY DEF HolderStep, MarkProcessStarted, MarkHandshake, MarkWorkerStarted,
         MarkWorkerFinished, CloseTicketResume, FinishExecutor,
         MarkExecutorAbsent, ExecutorCurrent, RequireExecutor
<1>2. /\ present /\ action # None
      /\ action \in Action /\ executor \in Executor
  BY <1>1, SlotFact DEF TypeOK
<1>3. /\ executor' # None
      /\ executor'.id = executor.id
      /\ executor'.gen = executor.gen
  <2> DEFINE Goal == /\ executor' \in Executor
                     /\ executor'.id = executor.id
                     /\ executor'.gen = executor.gen
  <2>1. ASSUME NEW pid \in Proc, MarkProcessStarted(id, g, pid) PROVE Goal
    BY <1>2, <2>1 DEF MarkProcessStarted, Executor
  <2>2. ASSUME NEW pid \in Proc, MarkHandshake(id, g, pid) PROVE Goal
    BY <1>2, <2>2 DEF MarkHandshake, Executor
  <2>3. ASSUME NEW w \in Worker, MarkWorkerStarted(id, g, w)
               \/ MarkWorkerFinished(id, g, w)
        PROVE  Goal
    <3>1. PICK ws \in SUBSET Worker : executor' = [executor EXCEPT !.workers = ws]
      BY <1>2, <2>3 DEF MarkWorkerStarted, MarkWorkerFinished, Executor
    <3> QED
      BY <1>2, <3>1 DEF Executor
  <2>4. ASSUME NEW r \in RunId, NEW failed \in BOOLEAN,
               CloseTicketResume(id, g, r, failed)
        PROVE  Goal
    BY <1>2, <2>4 DEF CloseTicketResume, Executor
  <2>5. ASSUME NEW failed \in BOOLEAN, FinishExecutor(id, g, failed) PROVE Goal
    BY <1>2, <2>5 DEF FinishExecutor, Executor
  <2>6. ASSUME MarkExecutorAbsent(id, g) PROVE Goal
    BY <1>2, <2>6 DEF MarkExecutorAbsent, Executor
  <2> HIDE DEF Goal
  <2>7. Goal
    BY <2>1, <2>2, <2>3, <2>4, <2>5, <2>6 DEF HolderStep
  <2> USE DEF Goal
  <2> QED
    BY <2>7, NoneAssumption
<1>4. /\ action' # None
      /\ action'.id = action.id
      /\ action'.gen = action.gen
      /\ action'.target = action.target
      /\ action'.run = action.run
  <2>1. \/ action' = action
        \/ action' = [action EXCEPT !.status = "applying"]
        \/ \E failed \in BOOLEAN : action' = Closed(action, failed)
    BY DEF HolderStep, MarkProcessStarted, MarkHandshake, MarkWorkerStarted,
           MarkWorkerFinished, CloseTicketResume, FinishExecutor,
           MarkExecutorAbsent
  <2>2. CASE action' = [action EXCEPT !.status = "applying"]
    BY <1>2, <2>2, NoneAssumption DEF Action
  <2>3. CASE \E failed \in BOOLEAN : action' = Closed(action, failed)
    BY <1>2, <2>3, ClosedFact, NoneAssumption
  <2> QED
    BY <1>2, <2>1, <2>2, <2>3
<1>5. /\ present' = present /\ next' = next /\ history' = history
      /\ issued' = issued /\ runs' = runs
  BY DEF HolderStep, MarkProcessStarted, MarkHandshake, MarkWorkerStarted,
         MarkWorkerFinished, CloseTicketResume, FinishExecutor,
         MarkExecutorAbsent
<1> QED
  BY <1>1, <1>2, <1>3, <1>4, <1>5 DEF KeepsOwner

LEMMA SlotOwns ==
  ASSUME TypeOK, OwnershipInv, Slot PROVE OwnershipInv'
<1>1. PICK id \in ActionId, g \in 1..MaxGeneration :
        \/ \E r \in RunId \cup {None}, reclaim \in BOOLEAN :
             BeginExecutor(id, r, reclaim)
        \/ \E pid \in Proc : MarkProcessStarted(id, g, pid)
                            \/ MarkHandshake(id, g, pid)
        \/ \E w \in Worker : MarkWorkerStarted(id, g, w)
                            \/ MarkWorkerFinished(id, g, w)
        \/ \E r \in RunId, failed \in BOOLEAN :
             CloseTicketResume(id, g, r, failed)
        \/ \E failed \in BOOLEAN : FinishExecutor(id, g, failed)
        \/ \E r \in RunId \cup {None}, failed \in BOOLEAN :
             FinishExecutorFromHost(id, g, r, failed)
        \/ MarkExecutorAbsent(id, g)
  BY DEF Slot
<1>2. ASSUME NEW r \in RunId \cup {None}, NEW reclaim \in BOOLEAN,
             BeginExecutor(id, r, reclaim)
      PROVE  OwnershipInv'
  <2> DEFINE replaced == Gone(executor) /\ executor.id = id
             h == IF replaced THEN Larger(action.gen + 1, next) ELSE action.gen
  <2>1. action \in Action /\ action # None /\ action.id = id /\ present
    BY <1>2 DEF BeginExecutor, RequireActive, TypeOK
  <2>2. next \in Nat /\ action.gen \in Nat /\ action.gen < next
    BY <2>1 DEF TypeOK, Action, OwnershipInv, GenerationsSpent
  <2>3. /\ h \in Nat
        /\ h >= action.gen
        /\ replaced => h >= next
    <3>1. action.gen + 1 \in Nat
      BY <2>2
    <3>2. Larger(action.gen + 1, next) \in Nat
          /\ Larger(action.gen + 1, next) >= action.gen + 1
          /\ Larger(action.gen + 1, next) >= next
      BY <2>2, <3>1, LargerFact
    <3> QED
      BY <2>2, <3>2
  <2>4. /\ action' = [action EXCEPT !.gen = h]
        /\ next' = IF replaced THEN h + 1 ELSE next
        /\ executor' = [status |-> "starting", id |-> id, run |-> r, gen |-> h,
                  pid |-> None, handshake |-> FALSE, workers |-> {},
                  origin |-> "reserved", closed |-> FALSE, failure |-> "none"]
        /\ ~replaced => h = action.gen
        /\ present' = present /\ history' = history /\ runs' = runs
        /\ issued' = issued
    BY <1>2 DEF BeginExecutor
  <2> HIDE DEF h, replaced
  <2>5. /\ action' # None
        /\ action'.id = id /\ action'.gen = h
        /\ action'.target = action.target /\ action'.run = action.run
    <3>1. /\ action'.id = id /\ action'.gen = h
          /\ action'.target = action.target /\ action'.run = action.run
      BY <2>1, <2>4 DEF Action
    <3>2. action' # None
      BY <1>2, BeginFact
    <3> QED
      BY <3>1, <3>2
  <2>6. MissingIsEmpty' /\ SlotIsActions'
    BY <2>1, <2>4, <2>5 DEF MissingIsEmpty, SlotIsActions
  <2>7. GenerationsSpent'
    <3>1. next' \in Nat /\ h < next' /\ next <= next'
      BY <2>2, <2>3, <2>4
    <3>2. action.target # None => action.target.gen < h /\ action.target.gen \in Nat
      <4>1. action.target # None => action.target.gen < action.gen
        BY <2>1 DEF OwnershipInv, GenerationsSpent
      <4>2. action.target # None => action.target.gen \in Nat
        BY <2>1 DEF Action, Executor
      <4> QED
        BY <2>2, <2>3, <4>1, <4>2
    <3>3. ASSUME NEW i \in 1..Len(history)
          PROVE  history[i].action.gen < next' /\ history[i].action.gen < h
      <4>1. history[i].action.gen < next /\ history[i].action.gen < action.gen
        BY <2>1 DEF OwnershipInv, GenerationsSpent
      <4>2. history[i].action.gen \in Nat
        BY HistoryFact
      <4> QED
        BY <2>2, <2>3, <3>1, <4>1, <4>2
    <3> QED
      BY <2>4, <2>5, <3>1, <3>2, <3>3 DEF GenerationsSpent
  <2>8. ReceiptsGenuine'
    <3>1. ASSUME NEW q \in RunId, runs[q].receipt # None
          PROVE  id = runs[q].receipt.id => runs[q].receipt.gen <= h
      <4>1. id = runs[q].receipt.id => runs[q].receipt.gen <= action.gen
        BY <2>1, <3>1 DEF OwnershipInv, ReceiptsGenuine
      <4>2. runs[q].receipt.gen \in Nat
        BY <3>1 DEF TypeOK, Run, Receipt
      <4> QED
        BY <2>2, <2>3, <4>1, <4>2
    <3> QED
      BY <2>1, <2>4, <2>5, <3>1 DEF OwnershipInv, ReceiptsGenuine
  <2>9. OneOpenRun'
    BY <2>4 DEF OwnershipInv, OneOpenRun
  <2>10. UnstartedUnreceipted'
    BY <1>2, BeginFact DEF UnstartedUnreceipted
  <2> QED
    BY <2>6, <2>7, <2>8, <2>9, <2>10 DEF OwnershipInv
<1>3. ASSUME HolderStep(id, g) PROVE OwnershipInv'
  BY <1>3, HolderKeeps, KeptOwnerAndRuns
<1>4. ASSUME NEW r \in RunId \cup {None}, NEW failed \in BOOLEAN,
             FinishExecutorFromHost(id, g, r, failed)
      PROVE  OwnershipInv'
  BY <1>3, <1>4 DEF FinishExecutorFromHost, HolderStep
<1> QED
  BY <1>1, <1>2, <1>3, <1>4 DEF HolderStep

\* A new receipt is that of the Action in the record.
LEMMA PersistOwns ==
  ASSUME TypeOK, OwnershipInv, NEW id \in ActionId, NEW g \in 1..MaxGeneration,
         NEW r \in RunId, NEW owner, PersistReceipt(id, g, r, owner)
  PROVE  OwnershipInv'
<1>1. /\ executor # None /\ executor.id = id /\ executor.gen = g
      /\ action # None /\ action.id = id
  BY DEF PersistReceipt, ExecutorCurrent, RequireExecutor
<1>2. /\ present /\ action \in Action /\ action.gen = g
  BY <1>1, SlotFact DEF TypeOK
<1>3. /\ present' = present /\ next' = next /\ history' = history
      /\ action' = action /\ executor' = executor /\ issued' = issued
  BY DEF PersistReceipt, record
<1> DEFINE c == [id |-> id, kind |-> action.kind, payload |-> action.payload,
                 run |-> r, gen |-> g,
                 target |-> IF action.kind \in ControlKind THEN action.target
                            ELSE None]
<1>4. /\ runs' = [runs EXCEPT ![r].receipt = c]
      /\ RunExists(r)
      /\ action.run = r
  BY DEF PersistReceipt
<1>5. /\ c.id = id /\ c.run = r /\ c.gen = g
      /\ c.target # None => c.target = action.target
  OBVIOUS
<1> HIDE DEF c
<1>6. /\ runs'[r].receipt = c
      /\ \A q \in RunId \ {r} : runs'[q] = runs[q]
      /\ \A q \in RunId : runs'[q].status = runs[q].status
  BY <1>4 DEF TypeOK, Run
<1>7. ReceiptsGenuine'
  <2>1. id \in issued
    BY <1>1 DEF OwnershipInv, ReceiptsGenuine
  <2>2. c.target # None => c.target.gen < c.gen
    BY <1>1, <1>2, <1>5 DEF OwnershipInv, GenerationsSpent
  <2>3. g <= action.gen
    BY <1>2 DEF Action
  <2>4. ASSUME NEW q \in RunId, runs'[q].receipt # None
        PROVE  LET d == runs'[q].receipt IN
               /\ d.id \in issued
               /\ d.run = q
               /\ RunExists(q)'
               /\ d.target # None => d.target.gen < d.gen
               /\ action.id = d.id => action.run = q /\ d.gen <= action.gen
    <3>1. CASE q = r
      BY <1>4, <1>5, <1>6, <2>1, <2>2, <2>3, <3>1
    <3>2. CASE q # r
      <4>1. runs'[q] = runs[q]
        BY <1>6, <3>2
      <4> QED
        BY <1>1, <2>4, <4>1 DEF OwnershipInv, ReceiptsGenuine
    <3> QED
      BY <3>1, <3>2
  <2>5. ASSUME NEW p \in RunId, NEW q \in RunId, HasReceipt(p)', HasReceipt(q)',
               runs'[p].receipt.id = runs'[q].receipt.id
        PROVE  p = q
    <3>1. CASE p # r /\ q # r
      <4>1. runs'[p] = runs[p] /\ runs'[q] = runs[q]
        BY <1>6, <3>1
      <4> QED
        BY <2>5, <4>1 DEF OwnershipInv, ReceiptsGenuine
    <3>2. \A x \in RunId : runs'[x].receipt # None /\ runs'[x].receipt.id = id
                            => x = r
      BY <1>1, <1>4, <2>4
    <3>3. runs'[r].receipt.id = id
      BY <1>5, <1>6
    <3> QED
      BY <2>5, <3>1, <3>2, <3>3
  <2> QED
    BY <1>1, <1>3, <2>1, <2>4, <2>5 DEF ReceiptsGenuine
<1>8. OneOpenRun'
  BY <1>6 DEF OwnershipInv, OneOpenRun
<1>9. MissingIsEmpty' /\ SlotIsActions' /\ GenerationsSpent'
  BY <1>2, <1>3 DEF OwnershipInv, MissingIsEmpty, SlotIsActions, GenerationsSpent
<1>10. UnstartedUnreceipted'
  BY <1>1, <1>3 DEF UnstartedUnreceipted
<1> QED
  BY <1>7, <1>8, <1>9, <1>10 DEF OwnershipInv

\* A save touches the status of the Run only.
LEMMA SaveOwns ==
  ASSUME TypeOK, OwnershipInv, NEW id \in ActionId, NEW g \in 1..MaxGeneration,
         NEW r \in RunId, NEW status \in RunStatus \ {"none"},
         SaveRun(id, g, r, status)
  PROVE  OwnershipInv' /\ KeepsOwner
<1>1. /\ executor # None /\ executor.id = id /\ executor.gen = g
      /\ action # None /\ action.id = id
  BY DEF SaveRun, ExecutorCurrent, RequireExecutor
<1>2. /\ present /\ action \in Action /\ action.gen = g
  BY <1>1, SlotFact DEF TypeOK
<1>3. /\ present' = present /\ next' = next /\ history' = history
      /\ action' = action /\ executor' = executor /\ issued' = issued
  BY DEF SaveRun, record
<1>4. PICK grant \in BOOLEAN :
        runs' = [runs EXCEPT ![r].status = status, ![r].granted = @ \/ grant]
  BY DEF SaveRun
<1>5. RunExists(r) /\ runs[r].status \notin ClosedRun
  BY DEF SaveRun
<1>6. KeepsOwner
  BY <1>1, <1>2, <1>3, <1>4 DEF KeepsOwner, TypeOK, Run
<1>7. OneOpenRun'
  BY <1>4, <1>5 DEF OwnershipInv, OneOpenRun, TypeOK, Run
<1> QED
  BY <1>6, <1>7, KeptOwner DEF OwnershipInv

LEMMA CreateOwns ==
  ASSUME TypeOK, OwnershipInv, NEW id \in ActionId, NEW g \in 1..MaxGeneration,
         NEW r \in RunId, CreateRun(id, g, r)
  PROVE  OwnershipInv' /\ KeepsOwner
<1>1. /\ executor # None /\ executor.id = id /\ executor.gen = g
      /\ action # None /\ action.id = id
  BY DEF CreateRun, ExecutorCurrent, RequireExecutor
<1>2. /\ present /\ action \in Action /\ action.gen = g
  BY <1>1, SlotFact DEF TypeOK
<1>3. /\ present' = present /\ next' = next /\ history' = history
      /\ action' = action /\ executor' = executor /\ issued' = issued
  BY DEF CreateRun, record
<1>4. /\ runs' = [runs EXCEPT ![r].status = "active"]
      /\ ~RunExists(r)
      /\ \A q \in RunId : RunExists(q) => runs[q].status \in ClosedRun
  BY DEF CreateRun
<1>5. KeepsOwner
  BY <1>1, <1>2, <1>3, <1>4 DEF KeepsOwner, TypeOK, Run
<1>6. OneOpenRun'
  BY <1>4 DEF OneOpenRun, TypeOK, Run
<1> QED
  BY <1>5, <1>6, KeptOwner DEF OwnershipInv

LEMMA RunStoreOwns ==
  ASSUME TypeOK, OwnershipInv, RunStore PROVE OwnershipInv'
<1>1. PICK id \in ActionId, g \in 1..MaxGeneration, r \in RunId :
        \/ CreateRun(id, g, r)
        \/ PersistReceipt(id, g, r, ReceiptOwner(r))
        \/ \E status \in Outcome : SaveRun(id, g, r, status)
  BY DEF RunStore
<1> QED
  BY <1>1, CreateOwns, PersistOwns, SaveOwns, ConstantsAssumption

\* A claim names a fresh identity and a generation no lower than any spent.
LEMMA AdmissionFact ==
  ASSUME TypeOK, OwnershipInv, Admission
  PROVE  /\ present' /\ runs' = runs /\ executor' = None
         /\ \E id \in ActionId, g \in Nat :
              /\ id \notin issued /\ issued' = issued \cup {id}
              /\ g >= next /\ next' = g + 1
              /\ action' # None /\ action'.id = id /\ action'.gen = g
              /\ action'.target # None => action'.target.gen < g
<1>1. PICK id \in ActionId :
        \E k \in Kind, p \in Payload :
          ClaimAction(id, k, p) \/ \E r \in RunId : ClaimControl(id, k, p, r)
  BY DEF Admission
<1>2. next \in Nat
  BY DEF TypeOK
<1>3. /\ id \notin issued /\ issued' = issued \cup {id}
      /\ present' /\ runs' = runs
  BY <1>1 DEF ClaimAction, ClaimControl
<1>4. PICK g \in Nat :
        /\ g >= next /\ next' = g + 1
        /\ action' # None /\ action'.id = id /\ action'.gen = g
        /\ action'.target # None => action'.target.gen < g
  <2>1. ASSUME NEW k \in Kind, NEW p \in Payload, ClaimAction(id, k, p)
        PROVE  \E g \in Nat :
                 /\ g >= next /\ next' = g + 1
                 /\ action' # None /\ action'.id = id /\ action'.gen = g
                 /\ action'.target = None
    <3> DEFINE g == IF Gone(executor) THEN Larger(next, executor.gen + 1)
                    ELSE next
    <3>1. g \in Nat /\ g >= next
      <4>1. CASE Gone(executor)
        <5>1. executor.gen + 1 \in Nat
          BY <4>1 DEF TypeOK, Executor
        <5> QED
          BY <1>2, <4>1, <5>1, LargerFact
      <4>2. CASE ~Gone(executor)
        BY <1>2, <4>2
      <4> QED
        BY <4>1, <4>2
    <3>2. next' = g + 1 /\ action' = NewAction(id, k, p, "accepted", None, g, None)
      BY <2>1 DEF ClaimAction, ClaimGeneration
    <3> HIDE DEF g
    <3>3. action'.id = id /\ action'.gen = g /\ action'.target = None
      BY <3>2 DEF NewAction
    <3>4. action' # None
      <4>1. action' \in Action
        BY <1>2, <3>1, <3>2 DEF NewAction, Action, TypeOK
      <4> QED
        BY <4>1, NoneAssumption
    <3> QED
      BY <3>1, <3>2, <3>3, <3>4
  <2>2. ASSUME NEW k \in Kind, NEW p \in Payload, NEW r \in RunId,
               ClaimControl(id, k, p, r)
        PROVE  \E g \in Nat :
                 /\ g >= next /\ next' = g + 1
                 /\ action' # None /\ action'.id = id /\ action'.gen = g
                 /\ action'.target # None => action'.target.gen < g
    <3> DEFINE t == ControlTarget
               g == IF t = None THEN next ELSE Larger(next, t.gen + 1)
    <3>1. t \in Executor \cup {None}
      BY DEF ControlTarget, ActiveTarget, UnresolvedTarget, TypeOK, Action
    <3>2. /\ next' = g + 1
          /\ action' = NewAction(id, k, p, "applying", r, g, t)
      BY <2>2 DEF ClaimControl
    <3> HIDE DEF t
    <3>3. g \in Nat /\ g >= next /\ (t # None => t.gen < g)
      <4>1. CASE t # None
        <5>1. t.gen \in Nat /\ t.gen + 1 \in Nat
          BY <3>1, <4>1 DEF Executor
        <5>2. /\ Larger(next, t.gen + 1) \in Nat
              /\ Larger(next, t.gen + 1) >= next
              /\ Larger(next, t.gen + 1) >= t.gen + 1
          BY <1>2, <5>1, LargerFact
        <5> QED
          BY <4>1, <5>1, <5>2
      <4>2. CASE t = None
        BY <1>2, <4>2
      <4> QED
        BY <4>1, <4>2
    <3> HIDE DEF g
    <3>4. action'.id = id /\ action'.gen = g /\ action'.target = t
      BY <3>2 DEF NewAction
    <3>5. action' # None
      <4>1. action' \in Action
        BY <1>2, <3>1, <3>2, <3>3 DEF NewAction, Action, TypeOK
      <4> QED
        BY <4>1, NoneAssumption
    <3> QED
      BY <3>2, <3>3, <3>4, <3>5
  <2> QED
    BY <1>1, <2>1, <2>2
<1>5. executor' = None
  BY <1>1 DEF ClaimAction, ClaimControl, NoPendingWork, OwnershipInv,
              SlotIsActions, TypeOK, Action
<1> QED
  BY <1>3, <1>4, <1>5

LEMMA AdmissionOwns ==
  ASSUME TypeOK, OwnershipInv, Admission PROVE OwnershipInv'
<1>1. /\ present' /\ runs' = runs /\ executor' = None
  BY AdmissionFact
<1>2. next \in Nat
  BY DEF TypeOK
<1>3. PICK id \in ActionId, g \in Nat :
        /\ id \notin issued /\ issued' = issued \cup {id}
        /\ g >= next /\ next' = g + 1
        /\ action' # None /\ action'.id = id /\ action'.gen = g
        /\ action'.target # None => action'.target.gen < g
  BY AdmissionFact
<1>4. \A i \in 1..Len(history') : history'[i].action.gen < next
  <2>1. \A i \in 1..Len(history) : history[i].action.gen < next
    BY DEF OwnershipInv, GenerationsSpent
  <2>2. CASE Terminal(action) /\ history' = Archived
    <3>1. action \in Action /\ action.gen < next
      BY <2>2 DEF TypeOK, OwnershipInv, GenerationsSpent
    <3> QED
      BY <2>1, <2>2, <3>1, ArchivedFact
  <2>3. CASE history' = history
    BY <2>1, <2>3
  <2> QED
    BY <2>2, <2>3 DEF Admission, ClaimAction, ClaimControl
<1>5. MissingIsEmpty' /\ SlotIsActions'
  BY <1>1, <1>3 DEF MissingIsEmpty, SlotIsActions
<1>6. GenerationsSpent'
  <2>1. ASSUME NEW i \in 1..Len(history')
        PROVE  history'[i].action.gen < next' /\ history'[i].action.gen < g
    <3>1. TypeOK'
      BY AdmissionType
    <3>2. history'[i].action.gen \in Nat
      <4>1. history'[i] \in Entry
        BY <3>1 DEF TypeOK
      <4> QED
        BY <4>1 DEF Entry, Action
    <3> QED
      BY <1>2, <1>3, <1>4, <3>2
  <2> QED
    BY <1>3, <2>1 DEF GenerationsSpent
<1>7. ReceiptsGenuine'
  <2>1. \A r \in RunId : runs[r].receipt # None => runs[r].receipt.id # id
    BY <1>3 DEF OwnershipInv, ReceiptsGenuine
  <2> QED
    BY <1>1, <1>3, <2>1 DEF OwnershipInv, ReceiptsGenuine
<1>8. OneOpenRun'
  BY <1>1 DEF OwnershipInv, OneOpenRun
<1>9. UnstartedUnreceipted'
  BY <1>1, <1>3 DEF OwnershipInv, ReceiptsGenuine, UnstartedUnreceipted
<1> QED
  BY <1>5, <1>6, <1>7, <1>8, <1>9 DEF OwnershipInv

\* Closing an exited executor's action on the evidence of its receipt, or of
\* the Host's proof that it is gone.
ReceiptStep(id, g, r) ==
  \/ \E failed \in BOOLEAN : CompleteFromReceipt(id, g, r, failed)
  \/ FailSession(id, g, r)
  \/ RecordReconciledExit(id, g, r)

LEMMA ReceiptKeeps ==
  ASSUME TypeOK, OwnershipInv, NEW id \in ActionId, NEW g \in 1..MaxGeneration,
         NEW r \in RunId, ReceiptStep(id, g, r)
  PROVE  KeepsOwner
<1>1. /\ present /\ action # None /\ executor # None
      /\ action \in Action /\ executor \in Executor
  BY SlotFact DEF ReceiptStep, CompleteFromReceipt, FailSession,
                  RecordReconciledExit, RequireExecutor, TypeOK
<1>2. /\ present' = present /\ next' = next /\ history' = history
      /\ issued' = issued
  BY DEF ReceiptStep, CompleteFromReceipt, FailSession, RecordReconciledExit
<1>3. /\ executor' # None
      /\ executor'.id = executor.id
      /\ executor'.gen = executor.gen
  <2> DEFINE Goal == /\ executor' \in Executor
                     /\ executor'.id = executor.id
                     /\ executor'.gen = executor.gen
  <2>1. CASE executor' = [executor EXCEPT !.run = r]
    <3>1. Goal
      BY <1>1, <2>1 DEF Executor
    <3> QED
      BY <3>1, NoneAssumption
  <2>2. CASE executor' = [executor EXCEPT !.status = "exited", !.run = r,
                                          !.failure = "session_interrupted"]
    <3>1. Goal
      BY <1>1, <2>2 DEF Executor
    <3> QED
      BY <3>1, NoneAssumption
  <2>3. CASE executor' = [executor EXCEPT !.status = "exited",
                                          !.origin = "proven", !.failure = "failed"]
    <3>1. Goal
      BY <1>1, <2>3 DEF Executor
    <3> QED
      BY <3>1, NoneAssumption
  <2> HIDE DEF Goal
  <2> QED
    BY <2>1, <2>2, <2>3 DEF ReceiptStep, CompleteFromReceipt, FailSession,
                            RecordReconciledExit
<1>4. /\ action' # None
      /\ action'.id = action.id /\ action'.gen = action.gen
      /\ action'.target = action.target
      /\ action.run # None => action'.run = action.run
  <2>1. CASE \E failed \in BOOLEAN : CompleteFromReceipt(id, g, r, failed)
    <3>1. PICK st \in {"failed", "completed"} :
            /\ action.run \in {None, r}
            /\ action' = [action EXCEPT !.run = r, !.applied = TRUE, !.status = st]
      BY <2>1 DEF CompleteFromReceipt, ReceiptProves
    <3>2. action' \in Action
      BY <1>1, <3>1 DEF Action
    <3> QED
      BY <1>1, <3>1, <3>2, NoneAssumption DEF Action
  <2>2. CASE FailSession(id, g, r)
    <3> DEFINE a == Closed(action, TRUE)
    <3>1. /\ a \in Action /\ a.id = action.id /\ a.gen = action.gen
          /\ a.target = action.target
      BY <1>1, ClosedFact
    <3>2. /\ action.run \in {None, r}
          /\ action' = [a EXCEPT !.run = r, !.applied = TRUE]
      BY <2>2 DEF FailSession, ReceiptProves
    <3> HIDE DEF a
    <3>3. action' \in Action
      BY <3>1, <3>2 DEF Action
    <3> QED
      BY <3>1, <3>2, <3>3, NoneAssumption DEF Action
  <2>3. CASE RecordReconciledExit(id, g, r)
    BY <1>1, <2>3 DEF RecordReconciledExit
  <2> QED
    BY <2>1, <2>2, <2>3 DEF ReceiptStep
<1>5. \A q \in RunId : /\ runs'[q].receipt = runs[q].receipt
                       /\ RunExists(q) => RunExists(q)'
  <2>1. runs' = runs \/ runs' = [runs EXCEPT ![r].status = "failed"]
    BY DEF ReceiptStep, CompleteFromReceipt, FailSession, RecordReconciledExit
  <2> QED
    BY <2>1 DEF TypeOK, Run
<1> QED
  BY <1>1, <1>2, <1>3, <1>4, <1>5 DEF KeepsOwner

LEMMA RecoveryOwns ==
  ASSUME TypeOK, OwnershipInv, Recovery PROVE OwnershipInv'
<1>1. CASE LoseRecord
  BY <1>1 DEF LoseRecord, OwnershipInv, MissingIsEmpty, SlotIsActions,
              GenerationsSpent, ReceiptsGenuine, UnstartedUnreceipted, OneOpenRun
<1>2. ASSUME NEW r \in RunId, NEW held \in BOOLEAN, Reconcile(r, held)
      PROVE  OwnershipInv'
  <2> DEFINE c == runs[r].receipt
  <2>1. /\ c \in Receipt /\ c # None /\ c.gen \in Nat
        /\ c.id \in issued /\ c.run = r
        /\ c.target # None => c.target.gen < c.gen
    BY <1>2 DEF Reconcile, TypeOK, Run, Receipt, OwnershipInv, ReceiptsGenuine
  <2>2. /\ present' /\ history' = history /\ history = <<>>
        /\ runs' = runs /\ issued' = issued
    BY <1>2 DEF Reconcile, OwnershipInv, MissingIsEmpty
  <2>3. /\ action'.id = c.id /\ action'.gen = c.gen
        /\ action'.target = c.target /\ action'.run = c.run
    BY <1>2 DEF Reconcile, NewAction
  <2>4. action' # None
    <3> DEFINE f == \/ c.kind = "approve"
                    \/ c.kind = "resume" /\ runs[r].granted
    <3>1. action' = [NewAction(c.id, c.kind, c.payload, "accepted", c.run, c.gen,
                               c.target)
                     EXCEPT !.held = held, !.applied = TRUE, !.final = f]
      BY <1>2 DEF Reconcile
    <3>2. f \in BOOLEAN
      OBVIOUS
    <3> HIDE DEF f, c
    <3>3. action' \in Action
      BY <2>1, <3>1, <3>2 DEF NewAction, Action, Receipt
    <3> QED
      BY <3>3, NoneAssumption
  <2>5. executor'.id = c.id /\ executor'.gen = c.gen
    BY <1>2 DEF Reconcile
  <2>6. c.gen < next'
    <3>1. next' = Larger(2, c.gen + 1)
      BY <1>2 DEF Reconcile
    <3> HIDE DEF c
    <3>2. c.gen + 1 \in Nat
      BY <2>1
    <3> QED
      BY <2>1, <3>1, <3>2 DEF Larger
  <2>7. MissingIsEmpty' /\ SlotIsActions'
    BY <2>2, <2>3, <2>4, <2>5 DEF MissingIsEmpty, SlotIsActions
  <2>8. GenerationsSpent'
    BY <2>1, <2>2, <2>3, <2>6 DEF GenerationsSpent
  <2>9. ReceiptsGenuine'
    <3>1. \A q \in RunId : runs[q].receipt # None /\ runs[q].receipt.id = c.id
                            => q = r
      BY <2>1 DEF OwnershipInv, ReceiptsGenuine
    <3>2. c.gen <= c.gen
      BY <2>1
    <3> QED
      BY <2>1, <2>2, <2>3, <3>1, <3>2 DEF OwnershipInv, ReceiptsGenuine
  <2>10. OneOpenRun'
    BY <2>2 DEF OwnershipInv, OneOpenRun
  <2>11. UnstartedUnreceipted'
    <3>1. executor' = [status |-> "absent", id |-> c.id, run |-> c.run,
                       gen |-> c.gen, pid |-> None, handshake |-> FALSE,
                       workers |-> {}, origin |-> "unproven",
                       closed |-> FALSE, failure |-> "failed"]
      BY <1>2 DEF Reconcile
    <3> HIDE DEF c
    <3>2. executor' \in Executor
      BY <2>1, <3>1 DEF Executor, Receipt
    <3> QED
      BY <3>2, NoneAssumption DEF UnstartedUnreceipted
  <2> QED
    BY <2>7, <2>8, <2>9, <2>10, <2>11 DEF OwnershipInv
<1>3. ASSUME NEW id \in ActionId, NEW g \in 1..MaxGeneration, NEW r \in RunId,
             ReceiptStep(id, g, r)
      PROVE  OwnershipInv'
  <2>1. KeepsOwner
    BY <1>3, ReceiptKeeps
  <2>2. OneOpenRun'
    <3>1. CASE runs' = runs
      BY <3>1 DEF OwnershipInv, OneOpenRun
    <3>2. CASE FailSession(id, g, r)
      <4>1. /\ runs[r].receipt # None /\ runs[r].status \notin ClosedRun
            /\ runs' = [runs EXCEPT ![r].status = "failed"]
        BY <3>2 DEF FailSession
      <4>2. RunExists(r)
        BY <4>1 DEF OwnershipInv, ReceiptsGenuine
      <4> QED
        BY <4>1, <4>2 DEF OwnershipInv, OneOpenRun, TypeOK, Run
    <3> QED
      BY <1>3, <3>1, <3>2 DEF ReceiptStep, CompleteFromReceipt, RecordReconciledExit
  <2> QED
    BY <2>1, <2>2, KeptOwner DEF OwnershipInv
<1> QED
  BY <1>1, <1>2, <1>3 DEF Recovery, FromReceipt, ReceiptStep

LEMMA InitOwns == Init => OwnershipInv
BY ConstantsAssumption DEF Init, OwnershipInv, MissingIsEmpty, SlotIsActions,
   GenerationsSpent, ReceiptsGenuine, UnstartedUnreceipted, OneOpenRun

LEMMA NextOwns ==
  ASSUME TypeOK, OwnershipInv, [Next]_vars PROVE OwnershipInv'
<1>1. CASE UNCHANGED vars
  BY <1>1 DEF vars, OwnershipInv, MissingIsEmpty, SlotIsActions,
              GenerationsSpent, ReceiptsGenuine, UnstartedUnreceipted, OneOpenRun
<1> QED
  BY <1>1, AdmissionOwns, ApplicationKeeps, KeptOwnerAndRuns, SlotOwns,
     RunStoreOwns, RecoveryOwns
  DEF Next

\* Whatever callers do, and however often the record is lost and rebuilt: the
\* executor in the slot is the current action's own, the next generation is beyond
\* every one the record mentions, a receipt lies in the one Run its action was
\* bound to and is not ahead of it, and at most one Run of the task is open.
THEOREM OwnershipSafe == Spec => []OwnershipInv
<1>1. Init => IInv
  BY InitType, InitOwns DEF IInv
<1>2. IInv /\ [Next]_vars => IInv'
  BY NextType, NextOwns DEF IInv
<1>3. IInv => OwnershipInv
  BY DEF IInv
<1> QED
  BY <1>1, <1>2, <1>3, PTL DEF Spec

-----------------------------------------------------------------------------
(* A reservation takes a fresh generation.                                  *)

\* Only begin_executor reserves the slot.
LEMMA OnlyBeginReserves ==
  ASSUME TypeOK, OwnershipInv, [Next]_vars, Reserves
  PROVE  \E id \in ActionId, r \in RunId \cup {None}, reclaim \in BOOLEAN :
           BeginExecutor(id, r, reclaim)
<1>1. executor \in Executor \cup {None}
  BY DEF TypeOK
<1>2. executor' # executor
  <2>1. CASE executor = None
    BY <2>1 DEF Reserves
  <2>2. CASE executor # None
    BY <2>2 DEF Reserves
  <2> QED
    BY <2>1, <2>2
<1>3. ~Admission
  BY AdmissionFact DEF Reserves
<1>4. ASSUME Application PROVE FALSE
  <2>1. PICK r \in RunId : executor # None /\ executor' = [executor EXCEPT !.run = r]
    BY <1>2, <1>4 DEF Application, BindRun, MarkFinalApproval, RecordApplication,
                      CompleteAction, CompleteControl, FailAction
  <2>2. executor'.status = executor.status
    BY <1>1, <2>1 DEF Executor
  <2> QED
    BY <2>1, <2>2 DEF Reserves
<1>5. ASSUME NEW id \in ActionId, NEW g \in 1..MaxGeneration, HolderStep(id, g)
      PROVE  FALSE
  <2>1. executor \in Executor /\ executor # None
    BY <1>1, <1>5 DEF HolderStep, MarkProcessStarted, MarkHandshake,
         MarkWorkerStarted, MarkWorkerFinished, CloseTicketResume, FinishExecutor,
         MarkExecutorAbsent, ExecutorCurrent, RequireExecutor
  <2>2. ASSUME NEW w \in Worker, MarkWorkerFinished(id, g, w)
        PROVE  executor'.status = executor.status
    BY <2>1, <2>2 DEF MarkWorkerFinished, Executor
  <2>3. \/ executor.status \in LiveStatus
        \/ executor'.status \in GoneStatus \cup {"running"}
        \/ executor'.status = executor.status
    BY <1>5, <2>1, <2>2 DEF HolderStep, MarkProcessStarted, MarkHandshake,
         MarkWorkerStarted, CloseTicketResume, ExecutorCurrent, FinishExecutor,
         MarkExecutorAbsent, Executor
  <2> QED
    BY <2>1, <2>3 DEF Reserves
<1>6. ~RunStore
  BY <1>2 DEF RunStore, CreateRun, PersistReceipt, SaveRun, record
<1>7. ASSUME Recovery PROVE FALSE
  <2>1. ASSUME NEW id \in ActionId, NEW g \in 1..MaxGeneration, NEW r \in RunId,
               ReceiptStep(id, g, r)
        PROVE  FALSE
    <3>1. executor \in Executor /\ executor # None /\ executor.status \in GoneStatus
      BY <1>1, <2>1 DEF ReceiptStep, CompleteFromReceipt, FailSession,
                        RecordReconciledExit, RequireExecutor
    <3>2. executor'.status \in GoneStatus
      BY <2>1, <3>1 DEF ReceiptStep, CompleteFromReceipt, FailSession,
                        RecordReconciledExit, Executor
    <3> QED
      BY <3>2 DEF Reserves
  <2>2. ASSUME NEW r \in RunId, NEW held \in BOOLEAN, Reconcile(r, held)
        PROVE  FALSE
    BY <2>2 DEF Reconcile, Reserves
  <2>3. ~LoseRecord
    BY DEF LoseRecord, Reserves
  <2> QED
    BY <1>7, <2>1, <2>2, <2>3 DEF Recovery, FromReceipt, ReceiptStep
<1> QED
  <2>1. ~UNCHANGED vars
    BY <1>2 DEF vars
  <2> QED
    BY <1>3, <1>4, <1>5, <1>6, <1>7, <2>1
    DEF Next, Slot, HolderStep, FinishExecutorFromHost

\* What begin_executor reserves is beyond the slot, the target, the history and
\* every receipt of its action.
LEMMA BeginFresh ==
  ASSUME TypeOK, OwnershipInv, NEW id \in ActionId, NEW r \in RunId \cup {None},
         NEW reclaim \in BOOLEAN, BeginExecutor(id, r, reclaim)
  PROVE  LET g == executor'.gen IN
         /\ executor # None => executor.gen < g
         /\ action.target # None => action.target.gen < g
         /\ \A i \in 1..Len(history) : history[i].action.gen < g
         /\ \A q \in RunId :
              HasReceipt(q) /\ runs[q].receipt.id = executor'.id
                => runs[q].receipt.gen < g
<1> DEFINE replaced == Gone(executor) /\ executor.id = id
           g == IF replaced THEN Larger(action.gen + 1, next) ELSE action.gen
<1>1. /\ action \in Action /\ action # None /\ action.id = id
      /\ executor'.gen = g /\ executor'.id = id
      /\ ~Live(executor)
  BY DEF BeginExecutor, RequireActive, TypeOK
<1>2. action.gen \in Nat /\ next \in Nat
  BY <1>1 DEF TypeOK, Action
<1>3. executor # None => replaced /\ executor.gen = action.gen
  BY <1>1, SlotFact DEF TypeOK, Executor
<1>4. g \in Nat /\ g >= action.gen /\ (replaced => g > action.gen)
  <2>1. action.gen + 1 \in Nat
    BY <1>2
  <2>2. Larger(action.gen + 1, next) \in Nat /\ Larger(action.gen + 1, next) >= action.gen + 1
    BY <1>2, <2>1, LargerFact
  <2> QED
    BY <1>2, <2>2
<1>5. executor = None \/ replaced
  BY <1>3
<1> HIDE DEF g, replaced
<1>6. executor # None => executor.gen < g
  BY <1>2, <1>3, <1>4
<1>7. action.target # None => action.target.gen < g
  <2>1. action.target # None => action.target.gen < action.gen /\ action.target.gen \in Nat
    BY <1>1 DEF OwnershipInv, GenerationsSpent, Action, Executor
  <2> QED
    BY <1>2, <1>4, <2>1
<1>8. ASSUME NEW i \in 1..Len(history) PROVE history[i].action.gen < g
  <2>1. history[i].action.gen < action.gen
    BY <1>1 DEF OwnershipInv, GenerationsSpent
  <2> QED
    BY <1>2, <1>4, <2>1, HistoryFact
<1>9. ASSUME NEW q \in RunId, HasReceipt(q), runs[q].receipt.id = id
      PROVE  runs[q].receipt.gen < g
  <2>1. runs[q].receipt.gen \in Nat
    BY <1>9 DEF TypeOK, Run, Receipt
  <2>2. runs[q].receipt.gen <= action.gen
    BY <1>1, <1>9 DEF OwnershipInv, ReceiptsGenuine
  <2>3. replaced
    BY <1>1, <1>5, <1>9 DEF OwnershipInv, UnstartedUnreceipted
  <2> QED
    BY <1>2, <1>4, <2>1, <2>2, <2>3
<1> QED
  BY <1>1, <1>6, <1>7, <1>8, <1>9

\* Whatever callers do, and however often the record is lost and rebuilt: a
\* reservation takes a generation beyond everything its record mentions and
\* beyond every receipt its action has left.
THEOREM ReservesFresh == Spec => ReservationsFresh
<1>1. Init => IInv
  BY InitType, InitOwns DEF IInv
<1>2. IInv /\ [Next]_vars => IInv'
  BY NextType, NextOwns DEF IInv
<1>3. IInv /\ [Next]_vars /\ Reserves =>
        LET g == executor'.gen IN
        /\ executor # None => executor.gen < g
        /\ action.target # None => action.target.gen < g
        /\ \A i \in 1..Len(history) : history[i].action.gen < g
        /\ \A r \in RunId :
             HasReceipt(r) /\ runs[r].receipt.id = executor'.id
               => runs[r].receipt.gen < g
  BY OnlyBeginReserves, BeginFresh DEF IInv
<1> QED
  BY <1>1, <1>2, <1>3, PTL DEF Spec, ReservationsFresh

-----------------------------------------------------------------------------
(* A kept record implements ExecutorOwnership: the mapped initial state is   *)
(* initial, and every step is mapped to a grant, a suspension, a fence or a  *)
(* stutter.                                                                  *)

USE DEF Unfinished, Terminal, Live, Gone, ActiveStatus, TerminalStatus,
        LiveStatus, GoneStatus, Generation, HasReceipt, RunExists

KeptIInv == IInv /\ KeptInv

AbstractStep == [Ownership!OwnershipNext]_(Ownership!ownership)

\* Every kept transaction needs the record or creates it.
LEMMA KeptPresent ==
  ASSUME TypeOK, KeptNext PROVE present'
<1>0. present \in BOOLEAN
  BY DEF TypeOK
<1>1. CASE Admission
  BY <1>1 DEF Admission, ClaimAction, ClaimControl
<1>2. CASE Application
  <2>1. present
    BY <1>2 DEF Application, BindRun, MarkFinalApproval, RecordApplication,
                CompleteAction, CompleteControl, FailAction, RequireActive
  <2>2. present' = present
    BY <1>2 DEF Application, BindRun, MarkFinalApproval, RecordApplication,
                CompleteAction, CompleteControl, FailAction
  <2> QED
    BY <1>0, <2>1, <2>2
<1>3. CASE Slot
  <2>1. ASSUME NEW id \in ActionId, NEW g \in 1..MaxGeneration, HolderStep(id, g)
        PROVE  present'
    BY <1>0, <2>1 DEF HolderStep, MarkProcessStarted, MarkHandshake,
         MarkWorkerStarted, MarkWorkerFinished, CloseTicketResume,
         FinishExecutor, MarkExecutorAbsent, ExecutorCurrent, RequireExecutor
  <2>2. ASSUME NEW id \in ActionId, NEW r \in RunId \cup {None},
               NEW reclaim \in BOOLEAN, BeginExecutor(id, r, reclaim)
        PROVE  present'
    BY <1>0, <2>2 DEF BeginExecutor, RequireActive
  <2> QED
    BY <1>3, <2>1, <2>2 DEF Slot, HolderStep, FinishExecutorFromHost
<1>4. CASE RunStore
  <2>1. present
    BY <1>4 DEF RunStore, CreateRun, PersistReceipt, SaveRun, ExecutorCurrent,
                RequireExecutor
  <2>2. present' = present
    BY <1>4 DEF RunStore, CreateRun, PersistReceipt, SaveRun, record
  <2> QED
    BY <1>0, <2>1, <2>2
<1>5. CASE FromReceipt
  <2>1. ASSUME NEW r \in RunId, NEW held \in BOOLEAN, Reconcile(r, held)
        PROVE  present'
    BY <2>1 DEF Reconcile
  <2>2. ASSUME NEW id \in ActionId, NEW g \in 1..MaxGeneration, NEW r \in RunId,
               ReceiptStep(id, g, r)
        PROVE  present'
    BY <1>0, <2>2 DEF ReceiptStep, CompleteFromReceipt, FailSession,
                      RecordReconciledExit, RequireExecutor, RequireActive
  <2> QED
    BY <1>5, <2>1, <2>2 DEF FromReceipt, ReceiptStep
<1> QED
  BY <1>1, <1>2, <1>3, <1>4, <1>5 DEF KeptNext

LEMMA KeptInvariant ==
  ASSUME KeptIInv, [KeptNext]_vars PROVE KeptIInv'
<1>1. IInv'
  <2>1. [Next]_vars
    BY DEF KeptNext, Next, Recovery
  <2> QED
    BY <2>1, NextType, NextOwns DEF KeptIInv, IInv
<1>2. KeptInv'
  <2>1. CASE KeptNext
    BY <2>1, KeptPresent DEF KeptInv, KeptIInv, IInv
  <2>2. CASE UNCHANGED vars
    BY <2>2 DEF vars, KeptIInv, KeptInv
  <2> QED
    BY <2>1, <2>2
<1> QED
  BY <1>1, <1>2 DEF KeptIInv

-----------------------------------------------------------------------------
(* The steps, by what they do to the holder.                               *)

\* A step that leaves the slot's identity and generation alone can only give
\* its holder authority back or take it away.
LEMMA SameHolder ==
  ASSUME TypeOK', LastHolder' = LastHolder, FencedOff' = FencedOff
  PROVE  AbstractStep
<1>1. CASE Authority' <=> Authority
  <2>1. Authority' = Authority
    BY <1>1 DEF Authority
  <2> QED
    BY <2>1 DEF AbstractStep, Ownership!ownership
<1>2. CASE Authority /\ ~Authority'
  <2>1. Ownership!Suspend
    BY <1>2 DEF Ownership!Suspend
  <2> QED
    BY <2>1 DEF AbstractStep, Ownership!OwnershipNext
<1>3. CASE ~Authority /\ Authority'
  <2>1. executor' # None /\ executor' \in Executor
    BY <1>3 DEF Authority, TypeOK
  <2>2. /\ executor'.id \in ActionId
        /\ FencedOff' = executor'.gen /\ executor'.gen \in Nat
        /\ LastHolder' = {<<executor'.id, executor'.gen>>}
    BY <2>1 DEF Executor, FencedOff, LastHolder
  <2>3. Ownership!Grant(executor'.id)
    BY <1>3, <2>2 DEF Ownership!Grant
  <2> QED
    BY <2>2, <2>3 DEF AbstractStep, Ownership!OwnershipNext
<1> QED
  BY <1>1, <1>2, <1>3

LEMMA KeptOwnerStep ==
  ASSUME TypeOK', KeepsOwner PROVE AbstractStep
<1>1. LastHolder' = LastHolder /\ FencedOff' = FencedOff
  BY DEF KeepsOwner, LastHolder, FencedOff
<1> QED
  BY <1>1, SameHolder

\* A claim retires whoever held authority and fences every generation below
\* its own.
LEMMA ClaimFences ==
  ASSUME IInv, TypeOK', Admission PROVE AbstractStep
<1>1. PICK g \in Nat :
        /\ g >= next /\ executor' = None
        /\ action' # None /\ action'.gen = g
  BY AdmissionFact DEF IInv
<1>2. FencedOff' = g - 1 /\ LastHolder' = {} /\ ~Authority'
  BY <1>1 DEF FencedOff, LastHolder, Authority
<1>3. next \in Nat \ {0}
  BY DEF IInv, TypeOK
<1>4. FencedOff \in Nat /\ FencedOff <= next - 1
  <2>1. CASE executor # None
    <3>1. action # None /\ action \in Action /\ executor.gen = action.gen
      BY <2>1, SlotFact DEF IInv, TypeOK
    <3>2. action.gen < next /\ action.gen \in Nat \ {0}
      BY <3>1 DEF IInv, OwnershipInv, GenerationsSpent, Action
    <3>3. FencedOff = action.gen
      BY <2>1, <3>1 DEF FencedOff
    <3> QED
      BY <1>3, <3>2, <3>3
  <2>2. CASE executor = None /\ action # None
    <3>1. action.gen < next /\ action.gen \in Nat \ {0}
      BY <2>2 DEF IInv, TypeOK, Action, OwnershipInv, GenerationsSpent
    <3>2. FencedOff = action.gen - 1
      BY <2>2 DEF FencedOff
    <3> QED
      BY <1>3, <3>1, <3>2
  <2>3. CASE executor = None /\ action = None
    <3>1. FencedOff = next - 1
      BY <2>3 DEF FencedOff
    <3> QED
      BY <1>3, <3>1
  <2> QED
    BY <2>1, <2>2, <2>3
<1>5. FencedOff' \in Nat /\ FencedOff' >= FencedOff
  BY <1>1, <1>2, <1>3, <1>4
<1>6. Ownership!Fence
  BY <1>2, <1>5 DEF Ownership!Fence, Ownership!Nobody
<1> QED
  BY <1>6 DEF AbstractStep, Ownership!OwnershipNext

\* A reservation grants authority beyond every generation used or fenced off.
LEMMA BeginGrants ==
  ASSUME IInv, TypeOK', NEW id \in ActionId, NEW r \in RunId \cup {None},
         NEW reclaim \in BOOLEAN, BeginExecutor(id, r, reclaim)
  PROVE  AbstractStep
<1> DEFINE replaced == Gone(executor) /\ executor.id = id
           h == IF replaced THEN Larger(action.gen + 1, next) ELSE action.gen
<1>1. /\ action \in Action /\ action # None /\ action.id = id
      /\ ~Live(executor)
  BY DEF BeginExecutor, RequireActive, IInv, TypeOK
<1>2. /\ executor' # None
      /\ executor'.id = id /\ executor'.gen = h
  <2>1. executor'.id = id /\ executor'.gen = h /\ executor'.status = "starting"
    BY DEF BeginExecutor
  <2>2. executor' # None
    BY <1>1, BeginFact DEF IInv
  <2> QED
    BY <2>1, <2>2
<1>3. FencedOff' = h /\ LastHolder' = {<<id, h>>}
  BY <1>2 DEF FencedOff, LastHolder
<1>4. ~Authority
  BY <1>1 DEF Authority
<1>5. Authority'
  <2>1. /\ executor'.status = "starting"
        /\ action'.status = action.status
        /\ action' # None
    BY <1>1, BeginFact DEF BeginExecutor, IInv, Action
  <2> QED
    BY <1>1, <1>2, <2>1 DEF Authority, BeginExecutor, RequireActive
<1>6. h \in Nat /\ h > FencedOff
  <2>1. action.gen \in Nat /\ next \in Nat /\ action.gen + 1 \in Nat
    BY <1>1 DEF Action, IInv, TypeOK
  <2>2. CASE replaced
    <3>1. FencedOff = action.gen
      BY <2>2, SlotFact DEF FencedOff, IInv
    <3>2. h = Larger(action.gen + 1, next)
      BY <2>2
    <3>3. h \in Nat /\ h >= action.gen + 1
      BY <2>1, <3>2, LargerFact
    <3> HIDE DEF h
    <3> QED
      BY <2>1, <3>1, <3>3
  <2>3. CASE ~replaced
    <3>1. executor = None
      BY <1>1, <2>3, SlotFact DEF IInv, TypeOK, Executor
    <3>2. h = action.gen /\ FencedOff = action.gen - 1
      BY <1>1, <2>3, <3>1 DEF FencedOff
    <3> HIDE DEF h
    <3> QED
      BY <2>1, <3>2
  <2> QED
    BY <2>2, <2>3
<1> HIDE DEF h, replaced
<1>7. Ownership!Grant(id)
  BY <1>3, <1>4, <1>5, <1>6 DEF Ownership!Grant
<1> QED
  BY <1>7 DEF AbstractStep, Ownership!OwnershipNext

-----------------------------------------------------------------------------
(* The refinement.                                                         *)

LEMMA InitMaps == Init => Ownership!OwnershipInit
BY DEF Init, Ownership!OwnershipInit, Ownership!Nobody, LastHolder, Authority,
       FencedOff

LEMMA StepMaps ==
  ASSUME KeptIInv, [KeptNext]_vars PROVE AbstractStep
<1>1. IInv /\ TypeOK'
  BY KeptInvariant DEF KeptIInv, IInv
<1>2. CASE UNCHANGED vars
  <2>1. LastHolder' = LastHolder /\ FencedOff' = FencedOff
    BY <1>2 DEF vars, LastHolder, FencedOff
  <2> QED
    BY <1>1, <2>1, SameHolder
<1>3. CASE Admission
  BY <1>1, <1>3, ClaimFences
<1>4. CASE Application
  BY <1>1, <1>4, ApplicationKeeps, KeptOwnerStep DEF IInv
<1>5. CASE Slot
  <2>1. ASSUME NEW id \in ActionId, NEW r \in RunId \cup {None},
               NEW reclaim \in BOOLEAN, BeginExecutor(id, r, reclaim)
        PROVE  AbstractStep
    BY <1>1, <2>1, BeginGrants
  <2>2. ASSUME NEW id \in ActionId, NEW g \in 1..MaxGeneration, HolderStep(id, g)
        PROVE  AbstractStep
    BY <1>1, <2>2, HolderKeeps, KeptOwnerStep DEF IInv
  <2> QED
    BY <1>5, <2>1, <2>2 DEF Slot, HolderStep, FinishExecutorFromHost
<1>6. CASE RunStore
  <2>1. executor' = executor /\ action' = action /\ next' = next
    BY <1>6 DEF RunStore, CreateRun, PersistReceipt, SaveRun, record
  <2>2. LastHolder' = LastHolder /\ FencedOff' = FencedOff
    BY <2>1 DEF LastHolder, FencedOff
  <2> QED
    BY <1>1, <2>2, SameHolder
<1>7. CASE FromReceipt
  <2>1. ASSUME NEW r \in RunId, NEW held \in BOOLEAN PROVE ~Reconcile(r, held)
    BY DEF KeptIInv, KeptInv, Reconcile
  <2>2. PICK id \in ActionId, g \in 1..MaxGeneration, r \in RunId :
          ReceiptStep(id, g, r)
    BY <1>7, <2>1 DEF FromReceipt, ReceiptStep
  <2> QED
    BY <1>1, <2>2, ReceiptKeeps, KeptOwnerStep DEF IInv
<1> QED
  BY <1>2, <1>3, <1>4, <1>5, <1>6, <1>7 DEF KeptNext

\* As long as the record file is kept, write authority has one holder at a
\* time, each new holder is beyond every generation used or fenced off, and a
\* holder fenced off never returns.
THEOREM KeptImplements == KeptSpec => ImplementsOwnership
<1>1. Init => Ownership!OwnershipInit /\ KeptIInv
  BY InitMaps, InitType, InitOwns DEF KeptIInv, IInv, KeptInv, Init
<1>2. KeptIInv /\ [KeptNext]_vars => KeptIInv'
  BY KeptInvariant
<1>3. KeptIInv /\ [KeptNext]_vars
        => [Ownership!OwnershipNext]_(Ownership!ownership)
  BY StepMaps DEF AbstractStep
<1> QED
  BY <1>1, <1>2, <1>3, PTL
  DEF KeptSpec, ImplementsOwnership, Ownership!OwnershipSpec
=============================================================================
