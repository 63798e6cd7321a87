--------------------------- MODULE MCTaskControl ---------------------------
(* Small instances of TaskControl for TLC.                                 *)
EXTENDS TaskControlOwnership, TLC

CONSTANTS a1, a2, a3, plain, bound, r1, r2

\* "run" names no Run; the other intents name theirs.
MCPayloadRun == [p \in Payload |-> IF p = bound THEN r1 ELSE None]

Identities == Permutations(ActionId) \cup Permutations(RunId)

\* Leaves aside what never bears on authority: closed Ticket Resume admission
\* and approval grants.
OwnershipOnly ==
  /\ executor # None => ~executor.closed
  /\ \A r \in RunId : ~runs[r].granted

\* Moreover only an Approve has a process.  It follows a "run" that created the
\* Run it names and is the last Action of its behaviour, under one Executor that
\* is not lost; the other Actions end before their Executor starts.
ApproveLast ==
  /\ OwnershipOnly
  /\ action # None => (action.kind = "approve" <=> action.payload = bound)
  /\ action # None /\ action.kind = "approve" =>
       /\ present
       /\ Cardinality(issued) = 2
       /\ runs[r2].status = "none"
       /\ \E i \in 1..Len(history) : /\ history[i].run = r1
                                     /\ history[i].action.kind = "run"
                                     /\ history[i].executor # None
       /\ executor # None => /\ executor.gen = 2
                             /\ executor.failure = "none"
                             /\ executor.status \notin GoneStatus
  /\ executor # None =>
       (executor.pid # None => action # None /\ action.kind = "approve")
  /\ \A i \in 1..Len(history) : history[i].action.kind # "approve"
=============================================================================
