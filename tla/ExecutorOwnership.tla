------------------------- MODULE ExecutorOwnership -------------------------
(***************************************************************************)
(* What the Task Control Record promises to a process that writes a Run or *)
(* acts outside: write authority has one holder at a time, a new holder    *)
(* carries a higher generation than every holder and every fence before    *)
(* it, and authority once taken away returns only to the very holder that  *)
(* lost it, while nobody else has been fenced in.                          *)
(***************************************************************************)
EXTENDS Naturals

CONSTANT Owner          \* identities a holder may have

VARIABLES
  last,    \* the last holder, or {} once a fence has retired it
  held,    \* whether it holds authority now
  fence    \* every generation up to this one has been used or fenced off

ownership == <<last, held, fence>>

\* A holder is the singleton of its identity and generation; {} is nobody.
Nobody == {}

OwnershipInit ==
  /\ last = Nobody
  /\ held = FALSE
  /\ fence = 0

\* Grant authority to a new holder beyond the fence, or back to the last one.
Grant(o) ==
  /\ ~held
  /\ held' = TRUE
  /\ last' = {<<o, fence'>>}
  /\ fence' \in Nat
  /\ fence' > fence \/ (last' = last /\ fence' = fence)

\* Take authority away, keeping the last holder as the only one to return.
Suspend ==
  /\ held
  /\ held' = FALSE
  /\ UNCHANGED <<last, fence>>

\* Retire the last holder for good and raise the fence.
Fence ==
  /\ held' = FALSE
  /\ last' = Nobody
  /\ fence' \in Nat
  /\ fence' >= fence

OwnershipNext ==
  \/ \E o \in Owner : Grant(o)
  \/ Suspend
  \/ Fence

OwnershipSpec == OwnershipInit /\ [][OwnershipNext]_ownership
=============================================================================
