-------------------------- MODULE MCLifecycleSpine --------------------------
(* Small instances of LifecycleSpine for TLC.                              *)
EXTENDS LifecycleSpine, TaskControlOwnership, TLC

CONSTANTS a1, a2, a3, a4, a5, a6, plain, bound, r1

\* "run" names no Run; the other intents name theirs.
MCPayloadRun == [p \in Payload |-> IF p = bound THEN r1 ELSE None]

\* A process identity per launch.
MCProc == Token

Identities == Permutations(ActionId)
ClientsAndIdentities == Identities \cup Permutations(Client)
=============================================================================
