------------------------ MODULE TaskControlOwnership ------------------------
(***************************************************************************)
(* The record, as long as its file is kept, implements ExecutorOwnership.  *)
(***************************************************************************)
EXTENDS TaskControl

\* assert_executor_current holds for the executor in the slot and for no other.
Authority ==
  /\ Live(executor)
  /\ action # None
  /\ action.status \in ActiveStatus \cup {"completed"}

LastHolder == IF executor = None THEN {} ELSE {<<executor.id, executor.gen>>}

\* Generations below a reserved action's own can no longer hold authority.
FencedOff ==
  IF executor # None THEN executor.gen
  ELSE IF action # None THEN action.gen - 1
  ELSE next - 1

Ownership == INSTANCE ExecutorOwnership WITH
  Owner <- ActionId, last <- LastHolder, held <- Authority, fence <- FencedOff

\* Behaviours in which the record file is never deleted.
KeptNext == Admission \/ Application \/ Slot \/ RunStore \/ FromReceipt
KeptSpec == Init /\ [][KeptNext]_vars

\* Every step on a kept record grants, suspends or fences authority as the
\* abstract specification allows, or leaves it alone.
ImplementsOwnership == Ownership!OwnershipSpec

\* Without loss, a missing record means nothing was ever applied to a Run.
KeptInv == ~present => \A r \in RunId : ~HasReceipt(r)
=============================================================================
