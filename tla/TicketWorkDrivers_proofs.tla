---------------------- MODULE TicketWorkDrivers_proofs ----------------------
(***************************************************************************)
(* Proofs about who works on a Ticket, for any number of Tickets, any      *)
(* capacity, any bounds and any faults.                                    *)
(***************************************************************************)
EXTENDS TicketWork_proofs, SequenceTheorems, WellFoundedInduction

-----------------------------------------------------------------------------
(* The queues as sets.                                                     *)

\* A set of naturals that holds 0 and every successor holds them all.
LEMMA NatSet ==
  ASSUME NEW B \in SUBSET Nat, 0 \in B, \A n \in B : n + 1 \in B
  PROVE  B = Nat
<1> DEFINE R == OpToRel(<, Nat)
           T == Nat \ B
<1>1. \A m, n \in Nat : m < n => <<m, n>> \in R
  BY DEF OpToRel
<1>2. SUFFICES ASSUME T # {} PROVE FALSE
  OBVIOUS
<1>3. IsWellFoundedOn(R, Nat)
  BY NatLessThanWellFounded
<1> HIDE DEF R
<1>4. PICK n \in T : \A m \in T : <<m, n>> \notin R
  BY <1>2, <1>3, WFMin
<1>5. n \in Nat \ {0} /\ n - 1 \in Nat /\ n - 1 < n
  BY <1>4
<1>6. n - 1 \in B
  BY <1>1, <1>4, <1>5
<1> QED
  BY <1>4, <1>5, <1>6

\* Appending adds one element.
LEMMA AppendItems ==
  ASSUME NEW X, NEW q \in Seq(X), NEW t \in X
  PROVE  /\ Append(q, t) \in Seq(X)
         /\ \A x : x \in Items(Append(q, t)) <=> x \in Items(q) \/ x = t
<1> DEFINE r == Append(q, t)
<1>1. /\ r \in Seq(X) /\ Len(r) = Len(q) + 1
      /\ \A i \in 1 .. Len(q) : r[i] = q[i]
      /\ r[Len(q) + 1] = t
  BY AppendProperties
<1>2. /\ Len(q) \in Nat /\ DOMAIN q = 1 .. Len(q)
      /\ DOMAIN r = 1 .. Len(q) + 1
  BY <1>1, LenProperties
<1>3. \A i : i \in DOMAIN r <=> i \in DOMAIN q \/ i = Len(q) + 1
  BY <1>2
<1> HIDE DEF r
<1>4. \A i \in DOMAIN q : r[i] = q[i]
  BY <1>1, <1>2
<1> QED
  BY <1>1, <1>3, <1>4 DEF Items, r

\* What one element adds to what is kept.
KeptStep(q, S, g, i) ==
  IF i = 0 THEN <<>>
  ELSE IF q[i] \in S THEN Append(g[i - 1], q[i]) ELSE g[i - 1]

\* The recursive function behind Kept exists.
LEMMA KeptExists ==
  ASSUME NEW X, NEW q \in Seq(X), NEW S
  PROVE  \E f : f = [i \in 0 .. Len(q) |-> KeptStep(q, S, f, i)]
<1> DEFINE Is(f, n) == f = [i \in 0 .. n |-> KeptStep(q, S, f, i)]
           B == {n \in Nat : \E f : Is(f, n)}
<1>1. 0 \in B
  <2>1. Is([i \in 0 .. 0 |-> <<>>], 0)
    BY DEF KeptStep
  <2> QED
    BY <2>1
<1>2. ASSUME NEW n \in B PROVE n + 1 \in B
  <2>1. PICK f : Is(f, n)
    OBVIOUS
  <2> DEFINE g == [i \in 0 .. n + 1 |-> KeptStep(q, S, f, i)]
  <2>2. n \in Nat
    OBVIOUS
  <2>3. \A i \in 0 .. n : g[i] = f[i]
    BY <2>1, <2>2
  <2>4. \A i \in 0 .. n + 1 : i # 0 => i - 1 \in 0 .. n
    BY <2>2
  <2>5. \A i \in 0 .. n + 1 : KeptStep(q, S, g, i) = KeptStep(q, S, f, i)
    <3> HIDE DEF g
    <3> QED
      BY <2>3, <2>4 DEF KeptStep
  <2>6. Is(g, n + 1)
    BY <2>5
  <2> QED
    BY <2>2, <2>6
<1>3. B = Nat
  <2> HIDE DEF Is
  <2> QED
    BY <1>1, <1>2, NatSet
<1> QED
  BY <1>3, LenProperties

\* What is kept of a queue: a queue, of its elements that are in S.
LEMMA KeptFact ==
  ASSUME NEW X, NEW q \in Seq(X), NEW S
  PROVE  /\ Kept(q, S) \in Seq(X)
         /\ Items(Kept(q, S)) = Items(q) \cap S
<1> DEFINE F == CHOOSE f : f = [i \in 0 .. Len(q) |->
                  IF i = 0 THEN <<>>
                  ELSE IF q[i] \in S THEN Append(f[i - 1], q[i]) ELSE f[i - 1]]
<1>1. Kept(q, S) = F[Len(q)]
  BY Zenon DEF Kept
<1>2. F = [i \in 0 .. Len(q) |->
             IF i = 0 THEN <<>>
             ELSE IF q[i] \in S THEN Append(F[i - 1], q[i]) ELSE F[i - 1]]
  <2>1. \E f : f = [i \in 0 .. Len(q) |->
                   IF i = 0 THEN <<>>
                   ELSE IF q[i] \in S THEN Append(f[i - 1], q[i]) ELSE f[i - 1]]
    BY KeptExists, Zenon DEF KeptStep
  <2> QED
    BY <2>1, Zenon
<1> HIDE DEF F
<1> DEFINE n == Len(q)
           Good(i) == /\ F[i] \in Seq(X)
                      /\ \A x : x \in Items(F[i]) <=> x \in S /\ \E k \in 1 .. i : x = q[k]
           B == {i \in Nat : i <= n => Good(i)}
<1>3. n \in Nat /\ DOMAIN q = 1 .. n /\ \A k \in 1 .. n : q[k] \in X
  BY LenProperties
<1>4. 0 \in B
  <2>1. F[0] = <<>>
    BY <1>2, <1>3
  <2>2. Items(F[0]) = {} /\ F[0] \in Seq(X) /\ ~ \E k \in 1 .. 0 : TRUE
    BY <2>1 DEF Items
  <2> QED
    BY <2>2
<1>5. ASSUME NEW i \in B PROVE i + 1 \in B
  <2>1. i \in Nat
    OBVIOUS
  <2> SUFFICES ASSUME i + 1 <= n PROVE Good(i + 1)
    BY <2>1
  <2>2. Good(i) /\ i + 1 \in 1 .. n
    BY <1>3, <2>1
  <2>3. F[i + 1] = IF q[i + 1] \in S THEN Append(F[i], q[i + 1]) ELSE F[i]
    <3>1. i + 1 \in 0 .. n /\ i + 1 # 0 /\ (i + 1) - 1 = i
      BY <2>1, <2>2
    <3>2. \A k \in 0 .. n : F[k] = IF k = 0 THEN <<>>
                                   ELSE IF q[k] \in S THEN Append(F[k - 1], q[k]) ELSE F[k - 1]
      BY <1>2, Zenon
    <3> QED
      BY <3>1, <3>2
  <2>4. q[i + 1] \in X
    BY <1>3, <2>2
  <2>5. \A k : k \in 1 .. i + 1 <=> k \in 1 .. i \/ k = i + 1
    BY <2>1
  <2>6. CASE q[i + 1] \notin S
    BY <2>2, <2>3, <2>5, <2>6
  <2>7. CASE q[i + 1] \in S
    <3>1. /\ F[i + 1] \in Seq(X)
          /\ \A x : x \in Items(F[i + 1]) <=> x \in Items(F[i]) \/ x = q[i + 1]
      BY <2>2, <2>3, <2>4, <2>7, AppendItems
    <3> QED
      BY <2>2, <2>5, <2>7, <3>1
  <2> QED
    BY <2>6, <2>7
<1>6. B = Nat
  <2> HIDE DEF Good
  <2> QED
    BY <1>4, <1>5, NatSet
<1>7. Good(n)
  <2> HIDE DEF Good
  <2> QED
    BY <1>3, <1>6
<1>8. \A x : x \in Items(q) <=> \E k \in 1 .. n : x = q[k]
  BY <1>3 DEF Items
<1> QED
  BY <1>1, <1>7, <1>8

\* Cancelled waiters leave the queue, blocked Tickets among them.
LEMMA ReconciledFact ==
  ASSUME NEW q \in Seq(Ticket), NEW js, NEW held, NEW asked
  PROVE  /\ Reconciled(js, q, held, asked) \in Seq(Ticket)
         /\ \A t \in Items(Reconciled(js, q, held, asked)) :
              t \in Items(q) /\ (t \in held \/ js[t].phase # "blocked")
<1> DEFINE S == held \cup {t \in Ticket \ asked :
                  /\ ~ProgramReady(js[t])
                  /\ js[t].phase \notin {"blocked", "completed", "ready", "checks", "merged"}}
<1>1. Reconciled(js, q, held, asked) = Kept(q, S)
  BY DEF Reconciled
<1>2. \A t \in S : t \in held \/ js[t].phase # "blocked"
  OBVIOUS
<1> HIDE DEF S
<1> QED
  BY <1>1, <1>2, KeptFact

\* Removal and insertion, as sets.
LEMMA QueueFact ==
  ASSUME NEW q \in Seq(Ticket), NEW t \in Ticket
  PROVE  /\ \A S : Without(q, S) \in Seq(Ticket) /\ Items(Without(q, S)) = Items(q) \ S
         /\ Enqueued(q, t) \in Seq(Ticket)
         /\ \A u : u \in Items(Enqueued(q, t)) <=> u \in Items(q) \/ u = t
<1>1. Items(q) \subseteq Ticket
  BY LenProperties DEF Items
<1>2. ASSUME NEW S PROVE Without(q, S) \in Seq(Ticket) /\ Items(Without(q, S)) = Items(q) \ S
  BY <1>1, KeptFact DEF Without
<1>3. /\ Enqueued(q, t) \in Seq(Ticket)
      /\ \A u : u \in Items(Enqueued(q, t)) <=> u \in Items(q) \/ u = t
  BY AppendItems DEF Enqueued
<1> QED
  BY <1>2, <1>3

-----------------------------------------------------------------------------
(* The invariants.                                                         *)

Busy(l) == pc[l] \notin {"off", "load"}

\* The queues hold Tickets, and no blocked Ticket waits for Agent work: the
\* place of a stopped Agent goes with its lease.
QueueInv ==
  /\ workQueue \in Seq(Ticket) /\ seatQueue \in Seq(Ticket)
  /\ leased \subseteq Ticket /\ pauseRequests \subseteq Ticket /\ avoid \subseteq Ticket
  /\ \A t \in Items(workQueue) : t \in leased \/ jobs[t].phase # "blocked"

\* What every commit establishes; a pause is not asked of a Ticket that waits
\* for the seat, because that one pauses at once.
SeatInv ==
  /\ Contract(jobs, holder, seatQueue, leased)
  /\ \A t \in Ticket : jobs[t].phase = "ready" => t \notin pauseRequests

\* A Job in development or at the seat has one driver, whose copy is the
\* durable one, and so has a lane under a lease; supervision keeps away from what
\* a lane of the Ticket develops or holds a lease for.
DriverInv ==
  /\ \A t \in Ticket : pc[t] = "load" => jobs[t].phase \in DevPhase /\ observed # t
  /\ \A t \in Ticket : Busy(t) =>
       /\ seen[t].phase \notin SeatPhase
       /\ seen[t].phase \in DevPhase \/ pc[t] \in LeasePoint => observed # t
  /\ \A l \in LaneId :
       Busy(l) /\ (seen[l].phase \in DevPhase \cup SeatPhase \/ pc[l] \in LeasePoint) =>
         jobs[On(l)] = seen[l]
  /\ \A l \in LaneId : pc[l] \in LeasePoint =>
       \/ seen[l].phase \in AgentPhase
       \/ pc[l] = "unwind" /\ seen[l].phase = "blocked"

\* A lease is for a Job whose next step is an Agent's, or that was blocked when
\* its Agent stopped; while the Executor is up a lane answers for it, be it one
\* that has lost its Agent and is about to raise.
OwnerInv ==
  /\ \A t \in leased : jobs[t].phase \in AgentPhase \cup {"blocked"} /\ ~jobs[t].intent
  /\ executor = "up" =>
       \A t \in leased : \E l \in LaneId :
         /\ On(l) = t /\ pc[l] \in LeasePoint \cup {"raised"}
         /\ jobs[t].phase = "blocked" \/ seen[l].phase \in AgentPhase

\* An Executor that drains has a stopped Run, and no lane was ever refused.
WordInv ==
  /\ status \in {"active", "stopped"} /\ executor \in {"up", "failing", "down"}
  /\ executor = "failing" => status = "stopped"
  /\ refused \subseteq {"fail", "pause", "resume"}

DInv == IInv /\ QueueInv /\ SeatInv /\ DriverInv /\ OwnerInv /\ WordInv

-----------------------------------------------------------------------------
(* Lemmas on commits.                                                      *)

\* When a commit satisfies the state contract.
LEMMA HoldsWhen ==
  ASSUME IInv, QueueInv, SeatInv, NEW t \in Ticket, NEW j \in Job,
         RequiresSeat(j) => RequiresSeat(jobs[t]) \/ holder = None,
         j.slot # "none" => j.phase = "ready",
         j.phase = "ready" => ~j.intent
  PROVE  Holds(t, j)
<1> DEFINE js == [jobs EXCEPT ![t] = j]
           h == HolderAfter(t, j)
           sq == SeatQueueAfter(t, j)
<1>1. js[t] = j /\ \A u \in Ticket \ {t} : js[u] = jobs[u]
  BY DEF IInv, JobInv
<1>2. t # None /\ holder \in Ticket \cup {None} /\ Items(seatQueue) \subseteq Ticket
  <2>1. Items(seatQueue) \subseteq Ticket
    BY LenProperties DEF QueueInv, Items
  <2> QED
    BY <2>1, TicketAssumption DEF IInv, JobInv
<1>3. j.phase = "ready" => ~RequiresSeat(j)
  BY DEF RequiresSeat, SeatPhase
<1>4. /\ RequiresSeat(j) => h = t /\ holder \in {t, None}
      /\ ~RequiresSeat(j) => h = IF holder = t THEN None ELSE holder
  BY <1>2 DEF HolderAfter, SeatInv, Contract
<1>5. \A u : u \in Items(sq) <=> \/ u \in Items(seatQueue) /\ u # t
                                 \/ u = t /\ j.phase = "ready"
  <2>1. h # t \/ j.phase # "ready"
    BY <1>2, <1>3, <1>4
  <2>2. sq = IF j.phase = "ready" THEN Enqueued(seatQueue, t) ELSE Without(seatQueue, {t})
    BY <2>1 DEF SeatQueueAfter
  <2> HIDE DEF sq
  <2>3. /\ \A u : u \in Items(Enqueued(seatQueue, t)) <=> u \in Items(seatQueue) \/ u = t
        /\ Items(Without(seatQueue, {t})) = Items(seatQueue) \ {t}
    BY QueueFact DEF QueueInv
  <2> QED
    BY <2>2, <2>3
<1> HIDE DEF js, h, sq
<1>6. \A u \in Items(sq) : js[u].phase = "ready" /\ u # h
  <2> SUFFICES ASSUME NEW u \in Items(sq) PROVE js[u].phase = "ready" /\ u # h
    OBVIOUS
  <2>1. CASE u = t
    BY <1>1, <1>2, <1>3, <1>4, <1>5, <2>1
  <2>2. CASE u # t
    <3>1. u \in Items(seatQueue) /\ u \in Ticket
      BY <1>2, <1>5, <2>2
    <3>2. jobs[u].phase = "ready" /\ u # holder
      BY <3>1 DEF SeatInv, Contract
    <3> QED
      BY <1>1, <1>2, <1>4, <2>2, <3>1, <3>2, TicketAssumption
  <2> QED
    BY <2>1, <2>2
<1>7. h # None => RequiresSeat(js[h])
  BY <1>1, <1>2, <1>4 DEF SeatInv, Contract
<1>8. \A u \in Ticket : /\ js[u].slot # "none" => js[u].phase = "ready"
                        /\ js[u].phase = "ready" => u \in Items(sq)
                        /\ RequiresSeat(js[u]) => u = h
  <2> SUFFICES ASSUME NEW u \in Ticket
               PROVE  /\ js[u].slot # "none" => js[u].phase = "ready"
                      /\ js[u].phase = "ready" => u \in Items(sq)
                      /\ RequiresSeat(js[u]) => u = h
    OBVIOUS
  <2>1. CASE u = t
    BY <1>1, <1>4, <1>5, <2>1
  <2>2. CASE u # t
    BY <1>1, <1>2, <1>4, <1>5, <2>2, TicketAssumption DEF SeatInv, Contract
  <2> QED
    BY <2>1, <2>2
<1>9. Cardinality(leased) <= Capacity
  BY DEF IInv, LeaseInv
<1>10. Contract(js, h, sq, leased)
  BY <1>6, <1>7, <1>8, <1>9 DEF Contract
<1> QED
  BY <1>10 DEF Holds, js, h, sq

\* What a commit leaves in the queues.
LEMMA StoreQueues ==
  ASSUME IInv, QueueInv, NEW t \in Ticket, NEW j \in Job,
         NEW q \in Seq(Ticket), NEW asked \in SUBSET Ticket, avoid' = avoid,
         Holds(t, j), Store(t, j, q, asked)
  PROVE  /\ QueueInv'
         /\ Contract(jobs, holder, seatQueue, leased)'
<1>1. /\ jobs' = [jobs EXCEPT ![t] = j] /\ holder' = HolderAfter(t, j)
      /\ seatQueue' = SeatQueueAfter(t, j) /\ pauseRequests' = asked
      /\ workQueue' = Reconciled(jobs', q, leased, asked) /\ leased' = leased
  BY DEF Store
<1>2. seatQueue' \in Seq(Ticket)
  BY <1>1, QueueFact DEF SeatQueueAfter, QueueInv
<1>3. /\ workQueue' \in Seq(Ticket)
      /\ \A u \in Items(workQueue') : u \in leased \/ jobs'[u].phase # "blocked"
  BY <1>1, ReconciledFact
<1>4. QueueInv'
  BY <1>1, <1>2, <1>3 DEF QueueInv
<1>5. Contract(jobs, holder, seatQueue, leased)'
  BY <1>1 DEF Holds
<1> QED
  BY <1>4, <1>5

-----------------------------------------------------------------------------
(* Lemmas on drivers.                                                      *)

\* Two lanes on one Ticket are supervision and the Ticket's own, and a second
\* copy in development or at the seat would make both its driver.
LEMMA OneDriven ==
  ASSUME DriverInv, NEW l \in LaneId, NEW m \in LaneId, l # m, Busy(l), Busy(m),
         On(l) = On(m), jobs[On(l)] = seen[l]
  PROVE  seen[m].phase \notin DevPhase \cup SeatPhase
<1> SUFFICES ASSUME seen[m].phase \in DevPhase \cup SeatPhase PROVE FALSE
  OBVIOUS
<1>1. seen[m] = seen[l]
  BY DEF DriverInv
<1>2. PICK o \in Ticket : /\ o \in {l, m} /\ Busy(o)
                          /\ observed = o
  <2>1. (l = Observer /\ m \in Ticket) \/ (m = Observer /\ l \in Ticket)
    BY DEF On, LaneId
  <2> QED
    BY <2>1, TicketAssumption DEF On
<1>3. seen[o].phase \in DevPhase \cup SeatPhase
  BY <1>1, <1>2
<1> QED
  BY <1>2, <1>3 DEF DriverInv

\* Whoever works on a leased Ticket without its lease is not its driver, unless
\* the Ticket is blocked.
LEMMA OthersLease ==
  ASSUME IInv, DriverInv, OwnerInv, WordInv, status = "active", NEW l \in LaneId, Busy(l),
         pc[l] \notin LeasePoint \cup {"raised"}, jobs[On(l)] = seen[l],
         seen[l].phase # "blocked"
  PROVE  On(l) \notin leased
<1> SUFFICES ASSUME On(l) \in leased PROVE FALSE
  OBVIOUS
<1>1. executor = "up"
  BY DEF IInv, ControlInv, Busy, WordInv
<1>2. PICK m \in LaneId : /\ On(m) = On(l) /\ pc[m] \in LeasePoint \cup {"raised"}
                          /\ seen[m].phase \in AgentPhase
  BY <1>1 DEF OwnerInv
<1>3. m # l /\ Busy(m) /\ seen[m].phase \in DevPhase \cup SeatPhase
  BY <1>2 DEF Busy, LeasePoint, AgentPhase, DevPhase, SeatPhase
<1> QED
  BY <1>2, <1>3, OneDriven

\* What the Job j that lane l saves on its way to p must be: a lane with a lease
\* goes on with its Agent work, or blocks the Job of an Agent that stopped.
Proper(l, j, p) ==
  /\ Holds(On(l), j)
  /\ j.phase = "ready" => seen[l].phase \in {"ready", "developing"}
  /\ l # Observer /\ p # "off" => /\ j.phase \notin SeatPhase
                                  /\ j.phase \in DevPhase => seen[l].phase \in DevPhase
  /\ pc[l] \in LeasePoint =>
       /\ ~j.intent
       /\ \/ p \in LeasePoint /\ j.phase \in AgentPhase
          \/ p \in {"unwind", "raised"} /\ j.phase = "blocked"
  /\ pc[l] \notin LeasePoint =>
       p \notin LeasePoint /\ (seen[l].phase = "blocked" => j = seen[l])

\* A commit of its driver moves a lane.
LEMMA CommitStep ==
  ASSUME DInv, NEW l \in LaneId, NEW j \in Job, NEW p \in Point \ {"load"},
         NEW q \in Seq(Ticket), NEW asked \in SUBSET Ticket,
         Busy(l), pc[l] # "raised", jobs[On(l)] = seen[l], status = "active",
         Proper(l, j, p), Store(On(l), j, q, asked), Goto(l, p, j) \/ (Goto(l, p, NoJob) /\ p = "off"),
         j.phase = "ready" => On(l) \notin asked, asked \subseteq pauseRequests,
         UNCHANGED <<status, executor, refused>>, IInv'
  PROVE  DInv'
<1> DEFINE t == On(l)
<1>1. t \in Ticket /\ executor # "down"
  BY OnTicket DEF Busy, DInv, IInv, ControlInv
<1>2. /\ jobs' \in [Ticket -> Job] /\ jobs'[t] = j
      /\ \A u \in Ticket \ {t} : jobs'[u] = jobs[u]
      /\ leased' = leased /\ pauseRequests' = asked
  BY <1>1 DEF Store, DInv, IInv, JobInv
<1>3. /\ pc' = [pc EXCEPT ![l] = p] /\ avoid' = avoid
      /\ pc'[l] = p /\ \A m \in LaneId \ {l} : pc'[m] = pc[m] /\ seen'[m] = seen[m]
      /\ p # "off" => seen'[l] = j
      /\ observed' = IF l = Observer /\ p = "off" THEN None ELSE observed
  BY DEF Goto, DInv, IInv, ControlInv
<1>4. \A m \in LaneId : pc'[m] # "off" => On(m)' = On(m)
  BY <1>3 DEF On
\* Only the holder of the lease changes a leased Job.
<1>5. t \in leased =>
        pc[l] \in LeasePoint \/ (j = jobs[t] /\ jobs[t].phase = "blocked")
  <2>1. CASE pc[l] \notin LeasePoint /\ seen[l].phase # "blocked"
    BY <2>1, OthersLease DEF DInv
  <2>2. CASE pc[l] \notin LeasePoint /\ seen[l].phase = "blocked"
    BY <2>2 DEF Proper
  <2> QED
    BY <2>1, <2>2
<1>6. QueueInv' /\ Contract(jobs, holder, seatQueue, leased)'
  BY <1>1, <1>3, StoreQueues DEF Proper, DInv
<1>7. SeatInv'
  <2>1. \A u \in Ticket : jobs'[u].phase = "ready" => u \notin pauseRequests'
    BY <1>2 DEF DInv, SeatInv
  <2> QED
    BY <1>6, <2>1 DEF SeatInv
<1>8. DriverInv'
  <2>1. ASSUME NEW u \in Ticket, pc'[u] = "load"
        PROVE  jobs'[u].phase \in DevPhase /\ observed' # u
    <3>1. u # l /\ pc[u] = "load"
      BY <1>3, <2>1 DEF LaneId
    <3>2. jobs[u].phase \in DevPhase /\ observed # u
      BY <3>1 DEF DInv, DriverInv
    <3>3. u # t
      BY <3>1, <3>2 DEF On
    <3> QED
      BY <1>2, <1>3, <3>2, <3>3, TicketAssumption
  <2>2. ASSUME NEW u \in Ticket, Busy(u)'
        PROVE  /\ seen'[u].phase \notin SeatPhase
               /\ seen'[u].phase \in DevPhase \/ pc'[u] \in LeasePoint => observed' # u
    <3>1. CASE u # l
      <4>1. /\ Busy(u) /\ seen'[u] = seen[u] /\ pc'[u] = pc[u]
            /\ observed' = observed \/ observed' = None
        BY <1>3, <2>2, <3>1 DEF LaneId, Busy
      <4> QED
        BY <4>1, TicketAssumption DEF DInv, DriverInv
    <3>2. CASE u = l
      <4>1. /\ l # Observer /\ p # "off" /\ seen'[l] = j /\ observed' = observed
            /\ pc'[l] = p
        BY <1>3, <2>2, <3>2, TicketAssumption DEF Busy
      <4> QED
        BY <2>2, <3>2, <4>1 DEF Proper, DInv, DriverInv
    <3> QED
      BY <3>1, <3>2
  <2>3. ASSUME NEW m \in LaneId, Busy(m)',
               seen'[m].phase \in DevPhase \cup SeatPhase \/ pc'[m] \in LeasePoint
        PROVE  jobs'[On(m)'] = seen'[m]
    <3>1. On(m)' = On(m)
      BY <1>4, <2>3 DEF Busy
    <3>2. CASE m = l
      BY <1>2, <1>3, <2>3, <3>1, <3>2 DEF Busy
    <3>3. CASE m # l
      <4>1. /\ Busy(m) /\ seen'[m] = seen[m] /\ pc'[m] = pc[m]
            /\ seen[m].phase \in DevPhase \cup SeatPhase \/ pc[m] \in LeasePoint
        BY <1>3, <2>3, <3>3 DEF Busy
      <4>2. jobs[On(m)] = seen[m]
        BY <4>1 DEF DInv, DriverInv
      <4>3. On(m) \in Ticket
        BY <4>1, OnTicket DEF Busy, DInv, IInv
      \* The other lane holds the lease, and this one has saved what it read.
      <4>4. On(m) = t => jobs'[t] = jobs[t]
        <5> SUFFICES ASSUME On(m) = t PROVE jobs'[t] = jobs[t]
          OBVIOUS
        <5>1. seen[m].phase \notin DevPhase \cup SeatPhase
          BY <3>3, <4>1, OneDriven DEF DInv
        <5>2. pc[m] \in LeasePoint /\ t \in leased
          BY <4>1, <5>1 DEF DInv, IInv, LeaseInv
        <5>3. pc[l] \notin LeasePoint
          BY <3>3, <5>2 DEF DInv, IInv, LeaseInv
        <5> QED
          BY <1>2, <1>5, <5>2, <5>3
      <4> QED
        BY <1>2, <3>1, <4>1, <4>2, <4>3, <4>4
    <3> QED
      BY <3>2, <3>3
  <2>4. ASSUME NEW m \in LaneId, pc'[m] \in LeasePoint
        PROVE  \/ seen'[m].phase \in AgentPhase
               \/ pc'[m] = "unwind" /\ seen'[m].phase = "blocked"
    <3>1. CASE m = l
      BY <1>3, <2>4, <3>1 DEF Proper, LeasePoint
    <3>2. CASE m # l
      BY <1>3, <2>4, <3>2 DEF DInv, DriverInv
    <3> QED
      BY <3>1, <3>2
  <2> QED
    BY <2>1, <2>2, <2>3, <2>4 DEF DriverInv
<1>9. OwnerInv'
  <2>1. \A u \in leased' : jobs'[u].phase \in AgentPhase \cup {"blocked"} /\ ~jobs'[u].intent
    BY <1>2, <1>5 DEF Proper, DInv, OwnerInv, QueueInv
  <2>2. ASSUME executor = "up", NEW u \in leased
        PROVE  \E m \in LaneId : /\ On(m)' = u /\ pc'[m] \in LeasePoint \cup {"raised"}
                                 /\ jobs'[u].phase = "blocked" \/ seen'[m].phase \in AgentPhase
    <3>1. CASE u = t /\ pc[l] \in LeasePoint
      <4>1. p \in LeasePoint \cup {"raised"} /\ p # "off"
            /\ (j.phase = "blocked" \/ j.phase \in AgentPhase)
        BY <3>1 DEF Proper, LeasePoint
      <4> QED
        BY <1>2, <1>3, <1>4, <3>1, <4>1
    <3>2. CASE ~(u = t /\ pc[l] \in LeasePoint)
      <4>1. PICK m \in LaneId : /\ On(m) = u /\ pc[m] \in LeasePoint \cup {"raised"}
                                /\ jobs[u].phase = "blocked" \/ seen[m].phase \in AgentPhase
        BY <2>2 DEF DInv, OwnerInv
      <4>2. m # l /\ u \in Ticket
        BY <3>2, <4>1 DEF DInv, QueueInv
      <4>3. jobs'[u] = jobs[u]
        BY <1>2, <1>5, <3>2, <4>2
      <4> QED
        BY <1>3, <1>4, <4>1, <4>2, <4>3 DEF LeasePoint
    <3> QED
      BY <3>1, <3>2
  <2> QED
    BY <1>2, <2>1, <2>2 DEF OwnerInv
<1> QED
  BY <1>6, <1>7, <1>8, <1>9 DEF DInv, WordInv

\* A lane moves with the Job it has: no Job and no seat changes, only the leases
\* may, for the Ticket of the lane.
LEMMA MovedStep ==
  ASSUME DInv, NEW l \in LaneId, NEW p \in Point \ {"load"}, Busy(l),
         Goto(l, p, seen[l]) \/ (Goto(l, p, NoJob) /\ p = "off"),
         p \in LeasePoint => seen[l].phase \in AgentPhase,
         UNCHANGED <<jobs, holder, seatQueue, pauseRequests>>,
         workQueue' \in Seq(Ticket),
         \A u \in Items(workQueue') : u \in leased' \/ jobs[u].phase # "blocked",
         \/ leased' = leased /\ \/ pc[l] \notin LeasePoint \cup {"raised"}
                                \/ p \in LeasePoint \cup {"raised"}
                                \/ executor' # "up"
         \/ leased' = leased \ {On(l)}
         \/ leased' = leased \cup {On(l)} /\ p \in LeasePoint,
         executor' = "up" => executor = "up", WordInv', IInv'
  PROVE  DInv'
<1> DEFINE t == On(l)
<1>1. t \in Ticket /\ executor # "down"
  BY OnTicket DEF Busy, DInv, IInv, ControlInv
<1>2. /\ avoid' = avoid
      /\ pc'[l] = p /\ \A m \in LaneId \ {l} : pc'[m] = pc[m] /\ seen'[m] = seen[m]
      /\ p # "off" => seen'[l] = seen[l]
      /\ observed' = observed \/ observed' = None
  BY DEF Goto, DInv, IInv, ControlInv
<1>3. \A m \in LaneId : pc'[m] # "off" => On(m)' = On(m)
  BY DEF Goto, On, DInv, IInv, ControlInv
<1>4. \A m \in LaneId : Busy(m)' => Busy(m) /\ seen'[m] = seen[m]
  BY <1>2 DEF Busy
<1>5. QueueInv'
  BY <1>1, <1>2 DEF DInv, QueueInv
<1>6. SeatInv'
  BY DEF DInv, SeatInv, Contract, IInv, LeaseInv
<1>7. DriverInv'
  <2>1. \A u \in Ticket : pc'[u] = "load" => jobs'[u].phase \in DevPhase /\ observed' # u
    <3>1. \A u \in Ticket : pc'[u] = "load" => pc[u] = "load"
      BY <1>2 DEF LaneId
    <3> QED
      BY <1>2, <3>1, TicketAssumption DEF DInv, DriverInv
\* A lane that has a lease had one before, or has a Job for an Agent.
  <2>0. \A m \in LaneId : Busy(m)' /\ pc'[m] \in LeasePoint =>
          pc[m] \in LeasePoint \/ seen[m].phase \in DevPhase \cup SeatPhase
    BY <1>2 DEF AgentPhase, DevPhase, SeatPhase
  <2>2. \A u \in Ticket : Busy(u)' =>
          /\ seen'[u].phase \notin SeatPhase
          /\ seen'[u].phase \in DevPhase \/ pc'[u] \in LeasePoint => observed' # u
    BY <1>2, <1>4, <2>0, TicketAssumption DEF LaneId, DInv, DriverInv
  <2>3. \A m \in LaneId :
          Busy(m)' /\ (seen'[m].phase \in DevPhase \cup SeatPhase \/ pc'[m] \in LeasePoint) =>
            jobs'[On(m)'] = seen'[m]
    BY <1>3, <1>4, <2>0 DEF Busy, DInv, DriverInv
  <2>4. \A m \in LaneId : pc'[m] \in LeasePoint =>
          \/ seen'[m].phase \in AgentPhase
          \/ pc'[m] = "unwind" /\ seen'[m].phase = "blocked"
    <3>1. ASSUME NEW m \in LaneId, pc'[m] \in LeasePoint
          PROVE  \/ seen'[m].phase \in AgentPhase
                 \/ pc'[m] = "unwind" /\ seen'[m].phase = "blocked"
      <4>1. CASE m = l
        BY <1>2, <3>1, <4>1 DEF LeasePoint
      <4>2. CASE m # l
        BY <1>2, <3>1, <4>2 DEF DInv, DriverInv
      <4> QED
        BY <4>1, <4>2
    <3> QED
      BY <3>1
  <2> QED
    BY <2>1, <2>2, <2>3, <2>4 DEF DriverInv
<1>8. OwnerInv'
  <2>1. \A u \in leased' : jobs'[u].phase \in AgentPhase \cup {"blocked"} /\ ~jobs'[u].intent
    <3>1. p \in LeasePoint => jobs[t].phase \in AgentPhase /\ SoundJob(jobs[t])
      BY <1>1 DEF DInv, DriverInv, AgentPhase, DevPhase, SeatPhase, IInv, JobInv
    <3>2. p \in LeasePoint => ~jobs[t].intent
      BY <3>1 DEF SoundJob, AgentPhase
    <3> QED
      BY <3>1, <3>2 DEF DInv, OwnerInv
  <2>2. ASSUME executor' = "up", NEW u \in leased'
        PROVE  \E m \in LaneId : /\ On(m)' = u /\ pc'[m] \in LeasePoint \cup {"raised"}
                                 /\ jobs'[u].phase = "blocked" \/ seen'[m].phase \in AgentPhase
    <3>1. CASE u = t /\ p \in LeasePoint
      BY <1>2, <1>3, <3>1 DEF LeasePoint
    <3>2. CASE ~(u = t /\ p \in LeasePoint)
      <4>1. u \in leased
        BY <2>2, <3>2
      <4>2. PICK m \in LaneId : /\ On(m) = u /\ pc[m] \in LeasePoint \cup {"raised"}
                                /\ jobs[u].phase = "blocked" \/ seen[m].phase \in AgentPhase
        BY <2>2, <4>1 DEF DInv, OwnerInv
      <4>3. CASE m # l
        BY <1>2, <1>3, <4>2, <4>3 DEF LeasePoint
      <4>4. CASE m = l
        <5>1. p = "raised"
          BY <2>2, <3>2, <4>2, <4>4
        <5> QED
          BY <1>2, <1>3, <4>2, <4>4, <5>1
      <4> QED
        BY <4>3, <4>4
    <3> QED
      BY <3>1, <3>2
  <2> QED
    BY <2>1, <2>2 DEF OwnerInv
<1> QED
  BY <1>5, <1>6, <1>7, <1>8 DEF DInv

\* One save of a lane, accepted or refused for a reason.
LEMMA SavedStep ==
  ASSUME DInv, NEW l \in LaneId, pc[l] \in {"stage", "admitted", "agent"},
         NEW j \in Job, NEW p \in Point \ {"load"},
         jobs[On(l)] = seen[l] => Proper(l, j, p),
         LaneSave(l, j, p), UNCHANGED <<status, executor>>, IInv'
  PROVE  DInv'
<1> DEFINE t == On(l)
<1>1. Busy(l) /\ t \in Ticket
  BY OnTicket DEF Busy, DInv, IInv
<1>2. CASE Saves(l, j)
  <2>1. /\ jobs[t] = seen[l] /\ status = "active" /\ Proper(l, j, p)
        /\ t \in pauseRequests => ~CanPause(jobs[t]) \/ IsPaused(j)
    BY <1>2 DEF Saves, Refuses
  <2>2. PICK asked \in {pauseRequests, pauseRequests \ {t}} : Store(t, j, workQueue, asked)
    BY <1>2 DEF LaneSave
  <2>3. Goto(l, p, j) /\ UNCHANGED refused
    BY <1>2 DEF LaneSave
  <2>4. j.phase = "ready" => t \notin asked
    <3>1. j.phase = "ready" => ~IsPaused(j) /\ seen[l].phase \in {"ready", "developing"}
      BY <2>1 DEF IsPaused, Proper
    <3>2. jobs[t].phase = "developing" => CanPause(jobs[t])
      BY <1>1 DEF CanPause, DInv, IInv, JobInv, SoundJob
    <3> QED
      BY <1>1, <2>1, <2>2, <3>1, <3>2 DEF DInv, SeatInv
  <2>5. /\ workQueue \in Seq(Ticket) /\ asked \in SUBSET Ticket
        /\ asked \subseteq pauseRequests
    BY <2>2 DEF DInv, QueueInv
  <2> QED
    <3>1. /\ pc[l] # "raised" /\ jobs[On(l)] = seen[l]
          /\ Store(On(l), j, workQueue, asked)
          /\ j.phase = "ready" => On(l) \notin asked
          /\ UNCHANGED <<status, executor, refused>>
      BY <2>1, <2>2, <2>3, <2>4
    <3> QED
      BY <1>1, <2>1, <2>3, <2>5, <3>1, CommitStep
<1>3. CASE ~Saves(l, j)
  <2>1. /\ UNCHANGED store
        /\ Goto(l, IF HasLease(l) THEN "unwind" ELSE "failing", seen[l])
        /\ refused' = IF Refuses(l, j) THEN refused ELSE refused \cup {"lane"}
    BY <1>3 DEF LaneSave
  <2>2. Refuses(l, j)
    BY <1>3 DEF Saves, Proper, Refuses
  <2>3. HasLease(l) => seen[l].phase \in AgentPhase
    BY DEF HasLease, DInv, IInv, ControlInv
  <2>4. WordInv'
    BY <2>1, <2>2 DEF DInv, WordInv
  <2>5. /\ UNCHANGED <<jobs, holder, seatQueue, pauseRequests, leased>>
        /\ workQueue' \in Seq(Ticket)
        /\ \A u \in Items(workQueue') : u \in leased' \/ jobs[u].phase # "blocked"
    BY <2>1 DEF store, DInv, QueueInv
  <2>6. CASE HasLease(l)
    <3>1. /\ Goto(l, "unwind", seen[l]) /\ "unwind" \in Point \ {"load"}
          /\ "unwind" \in LeasePoint => seen[l].phase \in AgentPhase
          /\ leased' = leased /\ "unwind" \in LeasePoint \cup {"raised"}
      BY <2>1, <2>3, <2>5, <2>6 DEF HasLease, Point, LeasePoint
    <3> QED
      BY <1>1, <2>4, <2>5, <3>1, MovedStep
  <2>7. CASE ~HasLease(l)
    <3>1. /\ Goto(l, "failing", seen[l]) /\ "failing" \in Point \ {"load"}
          /\ "failing" \notin LeasePoint
          /\ leased' = leased /\ pc[l] \notin LeasePoint \cup {"raised"}
      BY <2>1, <2>5, <2>7 DEF HasLease, Point, LeasePoint
    <3> QED
      BY <1>1, <2>4, <2>5, <3>1, MovedStep
  <2> QED
    BY <2>6, <2>7
<1> QED
  BY <1>2, <1>3

-----------------------------------------------------------------------------
(* Steps of a lane.                                                        *)

USE DEF Full, At

\* What the durable Job is when a lane may replace it.
Clean(m) == SoundJob(m) /\ (m.slot # "none" => m.phase = "ready")

\* What a stage that has read m may leave behind.
Lawful(l, m, j, p) ==
  /\ RequiresSeat(j) => RequiresSeat(m) \/ holder = None
  /\ j.slot # "none" => j.phase = "ready"
  /\ j.phase = "ready" => ~j.intent /\ m.phase \in {"ready", "developing"}
  /\ l # Observer /\ p # "off" => /\ j.phase \notin SeatPhase
                                  /\ j.phase \in DevPhase => m.phase \in DevPhase
  /\ m.phase = "blocked" => j = m

\* A save between two stages.
LEMMA StageSave ==
  ASSUME DInv, NEW l \in LaneId, pc[l] = "stage",
         NEW j \in Job, NEW p \in {"off", "stage"},
         jobs[On(l)] = seen[l] /\ Clean(seen[l]) => Lawful(l, seen[l], j, p),
         LaneSave(l, j, p), UNCHANGED outside, IInv'
  PROVE  DInv'
<1>1. On(l) \in Ticket
  BY OnTicket DEF DInv, IInv
<1>2. ASSUME jobs[On(l)] = seen[l] PROVE Proper(l, j, p)
  <2>1. Clean(seen[l])
    BY <1>1, <1>2 DEF Clean, DInv, IInv, JobInv, SeatInv, Contract
  <2>2. Holds(On(l), j)
    BY <1>1, <1>2, <2>1, HoldsWhen DEF Lawful, DInv
  <2> QED
    BY <1>2, <2>1, <2>2 DEF Lawful, Proper, LeasePoint
<1>3. p \in Point \ {"load"} /\ pc[l] \in {"stage", "admitted", "agent"}
  BY DEF Point
<1> QED
  BY <1>2, <1>3, SavedStep DEF outside

\* Stages before the integration seat keep the drivers.
LEMMA DevelopmentDrivers ==
  ASSUME DInv, IInv', NEW l \in LaneId,
         \/ PauseStage(l) \/ CreateJob(l) \/ ConsumeDevelopment(l)
         \/ CommitCandidate(l) \/ CheckpointBudget(l) \/ Escalate(l)
         \/ StageBlocked(l)
  PROVE  DInv'
<1> USE DEF Phase, DevPhase, SeatPhase, Reason
<1>0. /\ seen[l] \in Job /\ NoJob \in Job /\ On(l) \in Ticket
      /\ seen[l].phase \in Phase
      /\ pc[l] = "stage"
  <2>1. pc[l] = "stage"
    BY DEF PauseStage, CreateJob, ConsumeDevelopment, CommitCandidate, CheckpointBudget,
       Escalate, StageBlocked
  <2> QED
    BY <2>1, OnTicket, BoundsAssumption DEF DInv, IInv, ControlInv, NoJob, Job
\* A stage in development that changes only the phase.
<1>1. ASSUME NEW ph \in {"committing", "developing", "escalating"},
             seen[l].phase \in {"developing", "committing"},
             NEW m \in {seen[l], Consumed(l)}, LaneSave(l, [m EXCEPT !.phase = ph], "stage"),
             UNCHANGED outside
      PROVE  DInv'
  <2> DEFINE k == [m EXCEPT !.phase = ph]
  <2>1. k \in Job /\ k.phase = ph /\ k.intent = seen[l].intent /\ k.slot = seen[l].slot
    BY <1>0, <1>1 DEF Consumed, Job
  <2> HIDE DEF k
  <2>2. jobs[On(l)] = seen[l] /\ Clean(seen[l]) => Lawful(l, seen[l], k, "stage")
    BY <1>1, <2>1 DEF Clean, SoundJob, Lawful, RequiresSeat
  <2> QED
    BY <1>0, <1>1, <2>1, <2>2, StageSave DEF k
<1>2. CASE PauseStage(l)
  <2> DEFINE k == Paused(seen[l])
  <2>1. k \in Job
    BY <1>0, BlockedJobs
  <2>2. k.phase = "blocked" /\ k.intent = seen[l].intent /\ k.slot = seen[l].slot
    BY <1>0 DEF Paused, Job
  <2>3. /\ jobs[On(l)] = seen[l] => seen[l].phase # "ready"
        /\ ~seen[l].intent /\ seen[l].phase # "blocked"
    BY <1>0, <1>2 DEF PauseStage, CanPause, DInv, SeatInv
  <2>4. LaneSave(l, k, "off") /\ UNCHANGED outside
    BY <1>2 DEF PauseStage
  <2> HIDE DEF k
  <2>5. jobs[On(l)] = seen[l] /\ Clean(seen[l]) => Lawful(l, seen[l], k, "off")
    BY <2>2, <2>3 DEF Clean, Lawful, RequiresSeat
  <2> QED
    BY <1>0, <2>1, <2>4, <2>5, StageSave
<1>3. CASE CreateJob(l)
  <2> DEFINE j == [NoJob EXCEPT !.phase = "developing"]
             k == IF On(l) \in pauseRequests THEN Paused(j) ELSE j
             p == IF On(l) \in pauseRequests THEN "off" ELSE "stage"
  <2>1. /\ k \in Job /\ ~k.intent /\ k.slot = "none"
        /\ k.phase \in {"blocked", "developing"}
    BY <1>0 DEF Paused, NoJob, Job
  <2>2. LaneSave(l, k, p) /\ seen[l].phase = "none" /\ UNCHANGED outside /\ p \in {"off", "stage"}
    BY <1>3 DEF CreateJob
  <2> HIDE DEF k, p
  <2>3. jobs[On(l)] = seen[l] /\ Clean(seen[l]) => Lawful(l, seen[l], k, p)
    BY <2>1, <2>2 DEF Lawful, RequiresSeat
  <2> QED
    BY <1>0, <2>1, <2>2, <2>3, StageSave
<1>4. CASE ConsumeDevelopment(l)
  <2> DEFINE c == Consumed(l)
  <2>0. seen[l].phase = "developing" /\ UNCHANGED outside
    BY <1>4 DEF ConsumeDevelopment
  <2>1. /\ c \in Job /\ c.phase = seen[l].phase /\ c.intent = seen[l].intent
        /\ c.slot = seen[l].slot
    BY <1>0 DEF Consumed, Job
  <2>2. CASE TakeCandidate(l)
    BY <1>1, <2>0, <2>2 DEF TakeCandidate
  <2>3. CASE TakeReview(l)
    <3>1. CASE LaneSave(l, c, "stage")
      <4>1. Clean(seen[l]) => Lawful(l, seen[l], c, "stage")
        BY <2>0, <2>1 DEF Clean, SoundJob, Lawful, RequiresSeat
      <4> QED
        BY <1>0, <2>0, <2>1, <3>1, <4>1, StageSave
    <3>2. CASE LaneSave(l, Placed(l, [c EXCEPT !.phase = "accepted"]), "stage")
      <4> DEFINE a == [c EXCEPT !.phase = "accepted"]
                 k == Placed(l, a)
      <4>1. a \in Job /\ a.phase = "accepted" /\ a.intent = c.intent /\ a.slot = c.slot
        BY <2>1 DEF Job
      <4> HIDE DEF a
      <4>2. k \in Job
        BY <4>1, PlacedJob
      <4>3. /\ k.intent = a.intent
            /\ a.slot = "none" => k.slot = "none"
            /\ \/ k.phase = "ready"
               \/ /\ l = Observer /\ k.phase = "accepted"
                  /\ holder = None \/ holder = On(l)
               \/ a.slot # "none"
        BY <4>1 DEF Placed, Job
      <4> HIDE DEF k
      <4>4. ASSUME jobs[On(l)] = seen[l], Clean(seen[l])
            PROVE  Lawful(l, seen[l], k, "stage")
        <5>1. ~a.intent /\ a.slot = "none"
          BY <2>0, <2>1, <4>1, <4>4 DEF Clean, SoundJob
        <5>2. holder # On(l)
          BY <1>0, <2>0, <2>1, <4>4, <5>1, <4>1, TicketAssumption
          DEF DInv, SeatInv, Contract, RequiresSeat
        <5> QED
          BY <2>0, <4>3, <5>1, <5>2 DEF Lawful, RequiresSeat
      <4> QED
        BY <1>0, <2>0, <3>2, <4>2, <4>4, StageSave DEF a, k
    <3> QED
      BY <2>3, <3>1, <3>2 DEF TakeReview
  <2>4. CASE AskHuman(l)
    <3> DEFINE k == [c EXCEPT !.phase = "blocked", !.reason = "human",
                              !.back = "developing"]
    <3>1. k \in Job /\ k.phase = "blocked" /\ k.intent = c.intent /\ k.slot = c.slot
      BY <2>1 DEF Job
    <3>2. LaneSave(l, k, "off")
      BY <2>4 DEF AskHuman
    <3> HIDE DEF k
    <3>3. Clean(seen[l]) => Lawful(l, seen[l], k, "off")
      BY <2>0, <2>1, <3>1 DEF Clean, SoundJob, Lawful, RequiresSeat
    <3> QED
      BY <1>0, <2>0, <3>1, <3>2, <3>3, StageSave
  <2> QED
    BY <1>4, <2>2, <2>3, <2>4 DEF ConsumeDevelopment
<1>5. CASE CommitCandidate(l)
  BY <1>1, <1>5 DEF CommitCandidate
<1>6. CASE CheckpointBudget(l)
  BY <1>1, <1>6 DEF CheckpointBudget
<1>7. CASE Escalate(l)
  <2> DEFINE k == [seen[l] EXCEPT !.phase = "blocked", !.reason = "budget"]
  <2>1. k \in Job /\ k.phase = "blocked" /\ k.intent = seen[l].intent /\ k.slot = seen[l].slot
    BY <1>0 DEF Job
  <2>2. LaneSave(l, k, "off") /\ seen[l].phase = "escalating" /\ UNCHANGED outside
    BY <1>7 DEF Escalate
  <2> HIDE DEF k
  <2>3. Clean(seen[l]) => Lawful(l, seen[l], k, "off")
    BY <2>1, <2>2 DEF Clean, SoundJob, Lawful, RequiresSeat
  <2> QED
    BY <1>0, <2>1, <2>2, <2>3, StageSave
<1>8. CASE StageBlocked(l)
  <2>1. LaneSave(l, seen[l], "off") /\ seen[l].phase = "blocked" /\ UNCHANGED outside
    BY <1>8 DEF StageBlocked
  <2>2. Clean(seen[l]) => Lawful(l, seen[l], seen[l], "off")
    BY <2>1 DEF Clean, SoundJob, Lawful, RequiresSeat
  <2> QED
    BY <1>0, <2>1, <2>2, StageSave
<1> QED
  BY <1>2, <1>3, <1>4, <1>5, <1>6, <1>7, <1>8

\* A lane that moves between two points without a lease.
LEMMA PlainMove ==
  ASSUME DInv, IInv', NEW l \in LaneId, NEW p \in Point \ {"load"}, p \notin LeasePoint,
         pc[l] \notin LeasePoint \cup {"raised", "off", "load"},
         Goto(l, p, seen[l]) \/ (Goto(l, p, NoJob) /\ p = "off"),
         UNCHANGED <<jobs, holder, seatQueue, pauseRequests, leased, status, executor>>,
         workQueue' \in Seq(Ticket),
         \A u \in Items(workQueue') : u \in leased \/ jobs[u].phase # "blocked",
         refused' \in SUBSET {"fail", "pause", "resume"}
  PROVE  DInv'
<1>1. WordInv'
  BY DEF DInv, WordInv
<1>2. Busy(l)
  BY DEF Busy
<1> QED
  BY <1>1, <1>2, MovedStep

\* Stages of the integration owner, and the end of a lane, keep the drivers.
LEMMA SeatDrivers ==
  ASSUME DInv, IInv', NEW l \in LaneId,
         \/ EndLane(l) \/ TakeSeat(l) \/ ConsumePublication(l)
         \/ SaveIntent(l) \/ SettleWrite(l) \/ ObserveChecks(l) \/ BaseMoved(l)
         \/ SendMerge(l) \/ ConfirmMerge(l) \/ CloseTicket(l)
  PROVE  DInv'
<1> USE DEF Phase, DevPhase, SeatPhase, Reason
<1>0. /\ seen[l] \in Job /\ NoJob \in Job /\ On(l) \in Ticket
      /\ seen[l].phase \in Phase
      /\ pc[l] = "stage"
  <2>1. pc[l] = "stage"
    BY DEF EndLane, TakeSeat, ConsumePublication, SaveIntent, SettleWrite, ObserveChecks,
       Observes, BaseMoved, SendMerge, ConfirmMerge, CloseTicket
  <2> QED
    BY <2>1, OnTicket, BoundsAssumption DEF DInv, IInv, ControlInv, NoJob, Job
\* A stage at the seat keeps it, or gives it up for a Job that needs it no more.
<1>1. ASSUME l = Observer, seen[l].phase \in SeatPhase, NEW k \in Job, k.slot = seen[l].slot \/ k.slot = "none",
             \/ k.phase \in SeatPhase
             \/ k.phase \in {"developing", "completed"} /\ (SoundJob(seen[l]) => ~k.intent),
             NEW p \in {"off", "stage"}, LaneSave(l, k, p), UNCHANGED outside
      PROVE  DInv'
  <2>1. Clean(seen[l]) => Lawful(l, seen[l], k, p)
    BY <1>1 DEF Clean, Lawful, RequiresSeat
  <2> QED
    BY <1>0, <1>1, <2>1, StageSave
<1>2. CASE EndLane(l)
  <2>1. /\ UNCHANGED <<jobs, holder, seatQueue, pauseRequests, leased, status, executor>>
        /\ UNCHANGED <<workQueue, refused>> /\ Goto(l, "off", NoJob)
    BY <1>2 DEF EndLane, store, outside
  <2>2. "off" \in Point \ {"load"} /\ "off" \notin LeasePoint
        /\ pc[l] \notin LeasePoint \cup {"raised", "off", "load"}
    BY <1>0 DEF Point, LeasePoint
  <2>3. /\ workQueue \in Seq(Ticket)
        /\ \A u \in Items(workQueue) : u \in leased \/ jobs[u].phase # "blocked"
        /\ refused \in SUBSET {"fail", "pause", "resume"}
    BY DEF DInv, QueueInv, WordInv
  <2> QED
    BY <2>1, <2>2, <2>3, PlainMove
<1>3. CASE TakeSeat(l)
  <2> DEFINE a == [seen[l] EXCEPT !.phase = "accepted"]
             k == Placed(l, a)
  <2>1. a \in Job /\ a.phase = "accepted" /\ a.intent = seen[l].intent /\ a.slot = seen[l].slot
    BY <1>0 DEF Job
  <2>2. /\ l = Observer /\ On(l) = observed /\ seen[l].phase = "ready"
        /\ jobs[observed] # seen[l] \/ SeatIsFor(observed)
        /\ LaneSave(l, k, "stage") /\ UNCHANGED outside
    BY <1>3 DEF TakeSeat, On
  <2> HIDE DEF a
  <2>3. k \in Job
    BY <2>1, PlacedJob
  <2>4. SeatIsFor(observed) /\ SoundJob(seen[l]) =>
          k.phase \in SeatPhase /\ k.slot = "none" /\ holder = None
    <3>1. SeatIsFor(observed) => /\ holder = None /\ Enqueued(seatQueue, observed) = seatQueue
                                 /\ Head(seatQueue) = observed
      BY DEF SeatIsFor, Enqueued
    <3>2. holder # observed \/ holder # None
      BY <1>0, <2>2, TicketAssumption
    <3> QED
      BY <2>1, <2>2, <3>1, <3>2 DEF Placed, SoundJob, Job
  <2> HIDE DEF k
  <2>5. jobs[On(l)] = seen[l] /\ Clean(seen[l]) => Lawful(l, seen[l], k, "stage")
    BY <2>2, <2>4 DEF Clean, Lawful, RequiresSeat
  <2> QED
    BY <1>0, <2>2, <2>3, <2>5, StageSave
<1>4. CASE ConsumePublication(l)
  <2> DEFINE k == [seen[l] EXCEPT !.phase = "publishing", !.returned = FALSE, !.sent = FALSE]
  <2>1. k \in Job /\ k.phase = "publishing" /\ k.slot = seen[l].slot
    BY <1>0 DEF Job
  <2>2. /\ l = Observer /\ seen[l].phase \in SeatPhase
        /\ LaneSave(l, k, "stage") /\ UNCHANGED outside
    BY <1>4 DEF ConsumePublication
  <2> HIDE DEF k
  <2> QED
    BY <1>1, <2>1, <2>2
<1>5. CASE SaveIntent(l)
  <2> DEFINE k == [seen[l] EXCEPT !.intent = TRUE]
  <2>1. k \in Job /\ k.phase = seen[l].phase /\ k.slot = seen[l].slot
    BY <1>0 DEF Job
  <2>2. /\ l = Observer /\ seen[l].phase \in SeatPhase
        /\ LaneSave(l, k, "stage") /\ UNCHANGED outside
    BY <1>5 DEF SaveIntent
  <2> HIDE DEF k
  <2> QED
    BY <1>1, <2>1, <2>2
<1>6. CASE SettleWrite(l)
  <2> DEFINE k == [seen[l] EXCEPT !.intent = FALSE, !.phase = "checks"]
  <2>1. k \in Job /\ k.phase = "checks" /\ k.slot = seen[l].slot
    BY <1>0 DEF Job
  <2>2. /\ l = Observer /\ seen[l].phase \in SeatPhase
        /\ LaneSave(l, k, "stage") /\ UNCHANGED outside
    BY <1>6 DEF SettleWrite
  <2> HIDE DEF k
  <2> QED
    BY <1>1, <2>1, <2>2
<1>7. CASE ObserveChecks(l)
  <2>1. PICK ph \in {"merging", "checks", "developing"}, p \in {"off", "stage"} :
          LaneSave(l, [seen[l] EXCEPT !.phase = ph], p)
    BY <1>7 DEF ObserveChecks, ChecksPass, ChecksPending, ChecksFail
  <2> DEFINE k == [seen[l] EXCEPT !.phase = ph]
  <2>2. k \in Job /\ k.phase = ph /\ k.slot = seen[l].slot /\ k.intent = seen[l].intent
    BY <1>0 DEF Job
  <2>3. /\ l = Observer /\ seen[l].phase \in {"checks", "merging"} /\ UNCHANGED outside
    BY <1>7 DEF ObserveChecks, Observes
  <2>4. LaneSave(l, k, p)
    BY <2>1
  <2> HIDE DEF k
  <2> QED
    BY <1>1, <2>2, <2>3, <2>4 DEF SoundJob
<1>8. CASE BaseMoved(l)
  <2> DEFINE k == [seen[l] EXCEPT !.phase = "accepted", !.intent = FALSE, !.sent = FALSE]
  <2>1. k \in Job /\ k.phase = "accepted" /\ k.slot = seen[l].slot
    BY <1>0 DEF Job
  <2>2. /\ l = Observer /\ seen[l].phase \in SeatPhase
        /\ LaneSave(l, k, "stage") /\ UNCHANGED outside
    BY <1>8 DEF BaseMoved, Observes
  <2> HIDE DEF k
  <2> QED
    BY <1>1, <2>1, <2>2
<1>9. CASE SendMerge(l)
  <2> DEFINE k == [seen[l] EXCEPT !.sent = TRUE]
  <2>1. k \in Job /\ k.phase = seen[l].phase /\ k.slot = seen[l].slot
    BY <1>0 DEF Job
  <2>2. /\ l = Observer /\ seen[l].phase \in SeatPhase
        /\ LaneSave(l, k, "stage") /\ UNCHANGED outside
    BY <1>9 DEF SendMerge
  <2> HIDE DEF k
  <2> QED
    BY <1>1, <2>1, <2>2
<1>10. CASE ConfirmMerge(l)
  <2> DEFINE k == [seen[l] EXCEPT !.phase = "merged"]
  <2>1. k \in Job /\ k.phase = "merged" /\ k.slot = seen[l].slot
    BY <1>0 DEF Job
  <2>2. /\ l = Observer /\ seen[l].phase \in SeatPhase
        /\ LaneSave(l, k, "stage") /\ UNCHANGED outside
    BY <1>10 DEF ConfirmMerge
  <2> HIDE DEF k
  <2> QED
    BY <1>1, <2>1, <2>2
<1>11. CASE CloseTicket(l)
  <2> DEFINE k == [NoJob EXCEPT !.phase = "completed"]
  <2>1. k \in Job /\ k.phase = "completed" /\ k.slot = "none" /\ ~k.intent
    BY <1>0 DEF Job, NoJob
  <2>2. /\ l = Observer /\ seen[l].phase \in SeatPhase
        /\ LaneSave(l, k, "off") /\ UNCHANGED outside
    BY <1>11 DEF CloseTicket
  <2> HIDE DEF k
  <2> QED
    BY <1>1, <2>1, <2>2
<1> QED
  BY <1>2, <1>3, <1>4, <1>5, <1>6, <1>7, <1>8, <1>9, <1>10, <1>11

\* Waiting for a turn, and getting it.
LEMMA AcquireDrivers ==
  ASSUME DInv, IInv', NEW l \in LaneId, Acquire(l)
  PROVE  DInv'
<1> DEFINE t == On(l)
           kept == Reconciled(jobs, workQueue, leased, pauseRequests)
           queued == Enqueued(kept, t)
<1>0. /\ pc[l] = "stage" /\ t \in Ticket /\ workQueue \in Seq(Ticket)
      /\ seen[l].phase \in AgentPhase
  BY OnTicket DEF Acquire, NeedsAgent, DInv, IInv, QueueInv, AgentPhase
<1>1. /\ UNCHANGED <<jobs, holder, seatQueue, pauseRequests, status, executor, refused>>
      /\ refused' \in SUBSET {"fail", "pause", "resume"}
  BY DEF Acquire, store, outside, DInv, WordInv
<1>2. /\ Busy(l) /\ pc[l] \notin LeasePoint \cup {"raised", "off", "load"}
      /\ {"failing", "off"} \subseteq (Point \ {"load"}) \ LeasePoint
      /\ "admitted" \in (Point \ {"load"}) \cap LeasePoint
  BY <1>0 DEF Busy, LeasePoint, Point
<1>3. /\ kept \in Seq(Ticket)
      /\ \A u \in Items(kept) : u \in leased \/ jobs[u].phase # "blocked"
  BY <1>0, ReconciledFact
<1>4. queued \in Seq(Ticket)
  BY <1>0, <1>3, QueueFact
<1> HIDE DEF kept, queued
<1>5. CASE Goto(l, "failing", seen[l]) /\ UNCHANGED store
  <2>1. leased' = leased /\ workQueue' = workQueue
    BY <1>5 DEF store
  <2>2. \A u \in Items(workQueue) : u \in leased \/ jobs[u].phase # "blocked"
    BY DEF DInv, QueueInv
  <2> QED
    BY <1>0, <1>1, <1>2, <1>5, <2>1, <2>2, PlainMove
<1>6. CASE workQueue' = kept /\ Goto(l, "off", NoJob) /\ leased' = leased
  BY <1>1, <1>2, <1>3, <1>6, PlainMove
<1>7. CASE /\ leased' = leased /\ workQueue' = Reconciled(jobs, queued, leased', pauseRequests)
           /\ Goto(l, "off", NoJob)
  <2>1. /\ workQueue' \in Seq(Ticket)
        /\ \A u \in Items(workQueue') : u \in leased \/ jobs[u].phase # "blocked"
    BY <1>4, <1>7, ReconciledFact
  <2> QED
    BY <1>1, <1>2, <1>7, <2>1, PlainMove
<1>8. CASE /\ leased' = leased \cup {t}
           /\ workQueue' = Reconciled(jobs, queued, leased', pauseRequests)
           /\ Goto(l, "admitted", seen[l])
  <2>1. /\ workQueue' \in Seq(Ticket)
        /\ \A u \in Items(workQueue') : u \in leased' \/ jobs[u].phase # "blocked"
    BY <1>4, <1>8, ReconciledFact
  <2>2. WordInv'
    BY <1>1 DEF DInv, WordInv
  <2> QED
    BY <1>0, <1>1, <1>2, <1>8, <2>1, <2>2, MovedStep
<1> QED
  BY <1>5, <1>6, <1>7, <1>8 DEF Acquire, kept, queued

\* A lane under its lease.
LEMMA AgentDrivers ==
  ASSUME DInv, IInv', NEW l \in LaneId,
         StartAgent(l) \/ EndAgent(l) \/ FailAgent(l) \/ LoseAgent(l) \/ Release(l)
  PROVE  DInv'
<1>0. /\ pc[l] \in LeasePoint /\ Busy(l) /\ On(l) \in Ticket
      /\ seen[l] \in Job /\ (pc[l] \in {"admitted", "agent"} => seen[l].phase \in AgentPhase)
      /\ LeasePoint \subseteq Point \ {"load"}
      /\ {"stage", "failing", "raised"} \subseteq (Point \ {"load"}) \ LeasePoint
  BY OnTicket
  DEF StartAgent, EndAgent, FailAgent, LoseAgent, Release, LeasePoint, Point, Busy,
      DInv, DriverInv, IInv, ControlInv
\* A save that changes neither the phase nor what the seat depends on.
<1>1. ASSUME pc[l] \in {"admitted", "agent"}, NEW j \in Job, j.phase = seen[l].phase,
             j.intent = seen[l].intent, j.slot = seen[l].slot,
             NEW p \in {"agent", "release"}, LaneSave(l, j, p),
             UNCHANGED <<status, executor>>
      PROVE  DInv'
  <2>1. ASSUME jobs[On(l)] = seen[l] PROVE Proper(l, j, p)
    <3>1. Holds(On(l), j)
      BY <1>0, <1>1, <2>1, HoldsWhen
      DEF DInv, SeatInv, Contract, RequiresSeat, AgentPhase
    <3>2. l # Observer => seen[l].phase \notin SeatPhase
      BY <1>0 DEF DInv, DriverInv, LaneId
    <3>3. ~seen[l].intent
      BY <1>0, <1>1, <2>1 DEF DInv, IInv, JobInv, SoundJob, AgentPhase
    <3> QED
      BY <1>0, <1>1, <3>1, <3>2, <3>3 DEF Proper, AgentPhase, LeasePoint
  <2>2. p \in Point \ {"load"}
    BY DEF Point
  <2> QED
    BY <1>1, <2>1, <2>2, SavedStep
<1>2. CASE StartAgent(l)
  <2> DEFINE r == IF seen[l].rounds < MaxRounds /\ seen[l].phase = "developing"
                    THEN seen[l].rounds + 1 ELSE seen[l].rounds
             j == [seen[l] EXCEPT !.rounds = r]
  <2>1. r \in 0 .. MaxRounds
    BY <1>0, BoundsAssumption DEF Job
  <2>2. /\ LaneSave(l, j, "agent") /\ pc[l] = "admitted"
        /\ UNCHANGED <<status, executor>>
    BY <1>0, <1>2 DEF StartAgent, Job
  <2> HIDE DEF r
  <2>3. /\ j \in Job /\ j.phase = seen[l].phase
        /\ j.intent = seen[l].intent /\ j.slot = seen[l].slot
    BY <1>0, <2>1 DEF Job
  <2> HIDE DEF j
  <2> QED
    BY <1>1, <2>2, <2>3
<1>3. CASE EndAgent(l)
  <2> DEFINE j == [seen[l] EXCEPT !.returned = TRUE]
  <2>1. /\ j \in Job /\ j.phase = seen[l].phase
        /\ j.intent = seen[l].intent /\ j.slot = seen[l].slot
    BY <1>0 DEF Job
  <2>2. /\ LaneSave(l, j, "release") /\ pc[l] = "agent"
        /\ UNCHANGED <<status, executor>>
    BY <1>3 DEF EndAgent
  <2> HIDE DEF j
  <2> QED
    BY <1>1, <2>1, <2>2
\* The failure is saved, which the contract never refuses, or it is not the lane's.
<1>4. CASE FailAgent(l) \/ LoseAgent(l)
  <2> DEFINE b == Stopped(l)
  <2>1. PICK p \in {"unwind", "raised"} : SaveFailure(l, p)
    BY <1>4 DEF FailAgent, LoseAgent
  <2>2. /\ UNCHANGED <<status, executor>> /\ seen[l].phase \in AgentPhase
        /\ p \in Point \ {"load"} /\ p \in LeasePoint \cup {"raised"}
    BY <1>0, <1>4 DEF FailAgent, LoseAgent, outside, Point, LeasePoint
  <2>3. /\ b \in Job /\ b.phase = "blocked" /\ b.intent = seen[l].intent
        /\ b.slot = seen[l].slot
    BY <1>0, BlockedJobs DEF Stopped, Paused, Failed, Job
  <2> HIDE DEF b
  <2>4. ASSUME jobs[On(l)] = seen[l] PROVE Proper(l, b, p)
    <3>1. ~b.intent /\ b.slot = "none"
      BY <1>0, <2>2, <2>3, <2>4
      DEF DInv, IInv, JobInv, SoundJob, SeatInv, Contract, AgentPhase
    <3>2. Holds(On(l), b)
      BY <1>0, <2>3, <3>1, HoldsWhen DEF DInv, RequiresSeat, SeatPhase
    <3> QED
      BY <1>0, <2>3, <3>1, <3>2 DEF Proper, DevPhase, SeatPhase
  <2>5. CASE /\ jobs[On(l)] = seen[l] /\ status = "active" /\ UNCHANGED refused
             /\ Store(On(l), b, workQueue, pauseRequests \ {On(l)}) /\ Goto(l, p, b)
    <3>1. /\ workQueue \in Seq(Ticket) /\ pauseRequests \ {On(l)} \in SUBSET Ticket
          /\ pauseRequests \ {On(l)} \subseteq pauseRequests /\ pc[l] # "raised"
      BY <1>0 DEF DInv, QueueInv, LeasePoint
    <3>2. Proper(l, b, p) /\ b.phase # "ready"
      BY <2>3, <2>4, <2>5
    <3> QED
      BY <1>0, <2>2, <2>3, <2>5, <3>1, <3>2, CommitStep
  <2>6. CASE UNCHANGED <<store, refused>> /\ Goto(l, p, seen[l])
    <3>1. /\ UNCHANGED <<jobs, holder, seatQueue, pauseRequests>>
          /\ leased' = leased /\ workQueue' = workQueue
      BY <2>6 DEF store
    <3>2. WordInv'
      BY <2>2, <2>6 DEF DInv, WordInv
    <3>3. /\ workQueue' \in Seq(Ticket)
          /\ \A u \in Items(workQueue') : u \in leased' \/ jobs[u].phase # "blocked"
      BY <3>1 DEF DInv, QueueInv
    <3> QED
      BY <1>0, <2>2, <2>6, <3>1, <3>2, <3>3, MovedStep
  <2>7. jobs[On(l)] = seen[l] => Holds(On(l), b)
    BY <2>4 DEF Proper
  <2> QED
    BY <2>1, <2>5, <2>6, <2>7 DEF SaveFailure, b
<1>5. CASE Release(l)
  <2> DEFINE w == Without(workQueue, {On(l)})
  <2>1. /\ UNCHANGED <<jobs, holder, seatQueue, pauseRequests>>
        /\ leased' = leased \ {On(l)}
        /\ workQueue' = Reconciled(jobs, w, leased', pauseRequests)
        /\ UNCHANGED <<status, executor, refused>>
    BY <1>5 DEF Release, outside
  <2>2. PICK p \in {"stage", "failing"} : Goto(l, p, seen[l])
    BY <1>5 DEF Release
  <2>3. WordInv' /\ status' = status
    BY <2>1 DEF DInv, WordInv
  <2>4. w \in Seq(Ticket)
    BY <1>0, QueueFact DEF DInv, QueueInv
  <2> HIDE DEF w
  <2>5. /\ workQueue' \in Seq(Ticket)
        /\ \A u \in Items(workQueue') : u \in leased' \/ jobs[u].phase # "blocked"
    BY <2>1, <2>4, ReconciledFact
  <2> QED
    BY <1>0, <2>1, <2>2, <2>3, <2>5, MovedStep
<1> QED
  BY <1>2, <1>3, <1>4, <1>5

\* A lane that fails.
LEMMA FailureDrivers ==
  ASSUME DInv, IInv', NEW l \in LaneId, StageError(l) \/ LaneFails(l) \/ FailExecutor(l)
  PROVE  DInv'
<1> DEFINE t == On(l)
           m == seen[l]
           b == Stopped(l)
<1>0. /\ pc[l] \in {"stage", "failing", "raised"} /\ Busy(l)
      /\ m \in Job /\ t \in Ticket
      /\ {"failing", "off", "raised"} \subseteq (Point \ {"load"}) \ LeasePoint
      /\ pc[l] \notin LeasePoint \cup {"off", "load"}
  BY OnTicket
  DEF StageError, LaneFails, FailExecutor, Busy, Point, LeasePoint, DInv, IInv, ControlInv
<1>1. /\ workQueue \in Seq(Ticket)
      /\ \A u \in Items(workQueue) : u \in leased \/ jobs[u].phase # "blocked"
      /\ pauseRequests \in SUBSET Ticket
  BY DEF DInv, QueueInv
<1>2. ASSUME pc[l] # "raised", UNCHANGED <<store, status, executor>>,
             refused' \in {refused, refused \cup {"fail"}},
             \/ \E p \in {"failing", "raised"} : Goto(l, p, m)
             \/ Goto(l, "off", NoJob)
      PROVE  DInv'
  <2>1. /\ UNCHANGED <<jobs, holder, seatQueue, pauseRequests, leased, status, executor>>
        /\ workQueue' = workQueue /\ refused' \in SUBSET {"fail", "pause", "resume"}
    BY <1>2 DEF store, DInv, WordInv
  <2> QED
    BY <1>0, <1>1, <1>2, <2>1, PlainMove
<1>3. CASE StageError(l)
  BY <1>2, <1>3 DEF StageError, store, outside
<1>4. CASE FailExecutor(l)
  <2>1. /\ UNCHANGED <<jobs, holder, seatQueue, pauseRequests>>
        /\ leased' = leased /\ workQueue' = workQueue
        /\ status' = "stopped" /\ executor' = "failing" /\ refused' = refused
        /\ Goto(l, "off", NoJob)
    BY <1>4 DEF FailExecutor, store
  <2>2. WordInv' /\ executor' # "up"
    BY <2>1 DEF DInv, WordInv
  <2> QED
    BY <1>0, <1>1, <2>1, <2>2, MovedStep
<1>5. CASE LaneFails(l)
  <2>0. pc[l] = "failing" /\ UNCHANGED <<status, executor>>
    BY <1>5 DEF LaneFails, outside
  <2>1. ASSUME NEW j \in Job, NEW q \in Seq(Ticket), NEW asked \in SUBSET pauseRequests,
               Store(t, j, q, asked), jobs[t] = m, status = "active", Holds(t, j),
               j.phase # "ready", m.phase # "blocked", Goto(l, "off", NoJob),
               UNCHANGED refused
        PROVE  DInv'
    <3>1. Proper(l, j, "off")
      BY <1>0, <2>1 DEF Proper, LeasePoint
    <3>2. asked \in SUBSET Ticket /\ asked \subseteq pauseRequests
      BY <1>1
    <3>3. "off" \in Point \ {"load"} /\ pc[l] # "raised"
      BY <1>0, <2>0
    <3> QED
      BY <1>0, <2>0, <2>1, <3>1, <3>2, <3>3, CommitStep
  <2>2. \/ UNCHANGED store /\ refused' \in {refused, refused \cup {"fail"}}
           /\ \/ Goto(l, "raised", m)
              \/ Goto(l, "off", NoJob)
        \/ /\ m.phase \in {"merging", "merged"} /\ Saves(l, m)
           /\ Store(t, m, Without(workQueue, {t} \ leased), pauseRequests)
           /\ Goto(l, "off", NoJob) /\ UNCHANGED refused
        \/ /\ status = "active" /\ jobs[t] = m /\ Holds(t, b) /\ m.phase # "blocked"
           /\ Store(t, b, workQueue, pauseRequests \ {t})
           /\ Goto(l, "off", NoJob) /\ UNCHANGED refused
    <3> HIDE DEF b
    <3>1. CASE m.phase \in {"merging", "merged"}
      BY <1>5, <3>1 DEF LaneFails
    <3>2. CASE m.phase \notin {"merging", "merged"}
      BY <1>5, <3>2 DEF LaneFails, b
    <3> QED
      BY <3>1, <3>2
  <2>3. CASE UNCHANGED store /\ refused' \in {refused, refused \cup {"fail"}}
             /\ \/ Goto(l, "raised", m)
                \/ Goto(l, "off", NoJob)
    BY <1>2, <2>0, <2>3
  <2>4. CASE /\ m.phase \in {"merging", "merged"} /\ Saves(l, m)
             /\ Store(t, m, Without(workQueue, {t} \ leased), pauseRequests)
             /\ Goto(l, "off", NoJob) /\ UNCHANGED refused
    <3>1. jobs[t] = m /\ status = "active" /\ Holds(t, m)
      BY <2>4 DEF Saves, Refuses
    <3>2. Without(workQueue, {t} \ leased) \in Seq(Ticket)
      BY <1>0, <1>1, QueueFact
    <3> QED
      BY <1>0, <2>1, <2>4, <3>1, <3>2
  <2>5. CASE /\ status = "active" /\ jobs[t] = m /\ Holds(t, b) /\ m.phase # "blocked"
             /\ Store(t, b, workQueue, pauseRequests \ {t})
             /\ Goto(l, "off", NoJob) /\ UNCHANGED refused
    <3>1. b \in Job /\ b.phase = "blocked"
      BY <1>0, BlockedJobs DEF Stopped, Paused, Failed, Job
    <3> HIDE DEF b
    <3>2. pauseRequests \ {t} \in SUBSET pauseRequests
      OBVIOUS
    <3> QED
      BY <1>1, <2>1, <2>5, <3>1, <3>2
  <2> QED
    BY <2>2, <2>3, <2>4, <2>5
<1> QED
  BY <1>3, <1>4, <1>5

\* What the dispatcher starts is ready: development work nobody drives.
LEMMA StartedReady ==
  ASSUME NEW q, NEW going
  PROVE  Started(q, going) \subseteq Ready
BY DEF Started

\* A lane starts.
LEMMA StartDrivers ==
  ASSUME DInv, IInv',
         \/ Dispatch \/ Observe \/ LoadObserver
         \/ \E t \in Ticket : LoadLane(t) \/ Foreground(t)
  PROVE  DInv'
<1>0. /\ Observer \in LaneId /\ Ticket \subseteq LaneId /\ Observer \notin Ticket
      /\ \A l \in LaneId : l # Observer => l \in Ticket
      /\ pc \in [LaneId -> Point] /\ seen \in [LaneId -> Job]
      /\ jobs \in [Ticket -> Job]
      /\ "load" \notin LeasePoint /\ "stage" \notin LeasePoint /\ "off" \notin LeasePoint
  BY TicketAssumption DEF LaneId, DInv, IInv, JobInv, ControlInv, LeasePoint
<1>1. UNCHANGED <<jobs, holder, leased, seatQueue, pauseRequests, status, executor, refused>>
  BY DEF Dispatch, Observe, LoadObserver, LoadLane, Foreground, store, outside
<1>2. WordInv' /\ SeatInv'
  BY <1>1 DEF DInv, WordInv, SeatInv, Contract
<1>3. Items(seatQueue) \subseteq Ticket
  BY LenProperties DEF DInv, QueueInv, Items
\* The lanes that answer for leases stay where they are.
<1>4. ASSUME \A m \in LaneId : pc[m] \in LeasePoint \cup {"raised"} =>
               pc'[m] = pc[m] /\ seen'[m] = seen[m] /\ On(m)' = On(m)
      PROVE  OwnerInv'
  BY <1>1, <1>4 DEF DInv, OwnerInv
<1>5. CASE Dispatch
  <2> DEFINE kept == Reconciled(jobs, workQueue, leased, pauseRequests)
             new == {t \in Ready \ Items(kept) :
                       t \notin pauseRequests /\ ~ProgramReady(jobs[t])}
  <2>1. PICK order \in Orders(new), chosen \in SUBSET ProgramWork :
          /\ workQueue' = kept \o order
          /\ pc' = [l \in LaneId |->
                      IF l \in chosen \cup Started(kept \o order, Active \cup chosen)
                        THEN "load" ELSE pc[l]]
    BY <1>5 DEF Dispatch
  <2> DEFINE S == chosen \cup Started(kept \o order, Active \cup chosen)
  <2>2. S \subseteq Ready
    BY StartedReady DEF ProgramWork
  <2>3. UNCHANGED <<seen, observed, avoid>>
    BY <1>5 DEF Dispatch
  <2>4. /\ kept \in Seq(Ticket)
        /\ \A u \in Items(kept) : u \in leased \/ jobs[u].phase # "blocked"
    BY ReconciledFact DEF DInv, QueueInv
  <2>5. new \subseteq Ready /\ Ready \subseteq Ticket /\ IsFiniteSet(new)
    BY TicketAssumption, FS_Subset DEF Ready
  <2> HIDE DEF kept, new, S
  <2>6. order \in Seq(Ticket) /\ Items(order) = new
    <3>1. Cardinality(new) \in Nat
      BY <2>5, FS_CardinalityType
    <3>2. order \in [1 .. Cardinality(new) -> new] /\ Items(order) = new
      BY DEF Orders
    <3> QED
      BY <2>5, <3>1, <3>2
  <2>7. /\ workQueue' \in Seq(Ticket)
        /\ \A u \in Items(workQueue') : u \in Items(kept) \/ u \in new
    <3>1. /\ kept \o order \in Seq(Ticket)
          /\ Len(kept \o order) = Len(kept) + Len(order)
          /\ \A i \in 1 .. Len(kept) + Len(order) : (kept \o order)[i] =
               IF i <= Len(kept) THEN kept[i] ELSE order[i - Len(kept)]
      BY <2>4, <2>6, ConcatProperties
    <3>2. /\ Len(kept) \in Nat /\ DOMAIN kept = 1 .. Len(kept)
          /\ Len(order) \in Nat /\ DOMAIN order = 1 .. Len(order)
          /\ DOMAIN (kept \o order) = 1 .. Len(kept) + Len(order)
      BY <2>4, <2>6, <3>1, LenProperties
    <3>3. ASSUME NEW i \in 1 .. Len(kept) + Len(order)
          PROVE  (kept \o order)[i] \in Items(kept) \/ (kept \o order)[i] \in Items(order)
      <4>1. CASE i <= Len(kept)
        <5>1. i \in DOMAIN kept
          BY <3>2, <4>1
        <5> QED
          BY <3>1, <4>1, <5>1 DEF Items
      <4>2. CASE ~(i <= Len(kept))
        <5>1. i - Len(kept) \in DOMAIN order
          BY <3>2, <4>2
        <5> QED
          BY <3>1, <4>2, <5>1 DEF Items
      <4> QED
        BY <4>1, <4>2
    <3>4. \A u \in Items(workQueue') : \E i \in DOMAIN (kept \o order) : u = (kept \o order)[i]
      BY <2>1 DEF Items, kept
    <3> QED
      BY <2>1, <2>6, <3>1, <3>2, <3>3, <3>4 DEF kept
  <2>8. QueueInv'
    <3>1. \A u \in Ready : jobs[u].phase # "blocked"
      BY DEF Ready, DevPhase
    <3> QED
      BY <1>1, <2>3, <2>4, <2>5, <2>7, <3>1 DEF DInv, QueueInv
  <2>9. /\ \A l \in LaneId : pc'[l] = IF l \in S THEN "load" ELSE pc[l]
        /\ \A t \in S : t \in Ticket /\ pc[t] = "off" /\ jobs[t].phase \in DevPhase /\ observed # t
    BY <2>1, <2>2 DEF S, Ready, Active, kept
  <2>10. \A m \in LaneId : On(m)' = On(m)
    BY <2>3 DEF On
  <2>11. DriverInv'
    BY <1>0, <1>1, <2>3, <2>9, <2>10 DEF DInv, DriverInv, Busy
  <2>12. OwnerInv'
    BY <1>0, <1>4, <2>3, <2>9, <2>10 DEF LeasePoint
  <2> QED
    BY <1>2, <2>8, <2>11, <2>12 DEF DInv
<1>6. CASE Observe
  <2>1. /\ pc[Observer] = "off" /\ pc' = [pc EXCEPT ![Observer] = "load"]
        /\ UNCHANGED <<seen, observed, workQueue>> /\ avoid' = Active
    BY <1>6 DEF Observe, store
  <2>2. QueueInv'
    BY <1>1, <2>1 DEF DInv, QueueInv, Active
  <2>3. /\ pc'[Observer] = "load"
        /\ \A m \in LaneId \ {Observer} : pc'[m] = pc[m]
        /\ \A m \in LaneId : On(m)' = On(m) /\ seen'[m] = seen[m]
    BY <1>0, <2>1 DEF On
  <2>4. DriverInv'
    BY <1>0, <1>1, <2>1, <2>3 DEF DInv, DriverInv, Busy
  <2>5. OwnerInv'
    BY <1>0, <1>4, <2>1, <2>3
  <2> QED
    BY <1>2, <2>2, <2>4, <2>5 DEF DInv
<1>7. CASE LoadObserver
  <2> DEFINE number == IF holder # None THEN holder
                       ELSE IF seatQueue # <<>> THEN Head(seatQueue) ELSE None
  <2>1. /\ pc[Observer] = "load" /\ workQueue' = workQueue /\ avoid' = {}
        /\ \/ /\ number \in Ticket
              /\ pc' = [pc EXCEPT ![Observer] = "stage"]
              /\ seen' = [seen EXCEPT ![Observer] = jobs[number]]
              /\ observed' = number
           \/ /\ pc' = [pc EXCEPT ![Observer] = "off"]
              /\ UNCHANGED <<seen, observed>>
    BY <1>7 DEF LoadObserver, store
  <2>2. QueueInv'
    BY <1>1, <2>1 DEF DInv, QueueInv
  \* The seat and its queue are not for Jobs in development.
  <2>3. number \in Ticket => /\ jobs[number].phase \notin DevPhase
                             /\ RequiresSeat(jobs[number]) \/ jobs[number].phase = "ready"
    <3>1. CASE holder # None
      <4>1. holder \in Ticket /\ RequiresSeat(jobs[holder]) /\ SoundJob(jobs[holder])
        BY <3>1 DEF DInv, IInv, JobInv, SeatInv, Contract
      <4> QED
        BY <3>1, <4>1 DEF RequiresSeat, SoundJob, SeatPhase, DevPhase
    <3>2. CASE holder = None /\ seatQueue # <<>>
      <4>1. Head(seatQueue) \in Items(seatQueue)
        <5>1. Len(seatQueue) \in Nat \ {0} /\ DOMAIN seatQueue = 1 .. Len(seatQueue)
          BY <3>2, LenProperties, EmptySeq DEF DInv, QueueInv
        <5>2. Head(seatQueue) = seatQueue[1] /\ 1 \in DOMAIN seatQueue
          BY <3>2, <5>1 DEF DInv, QueueInv
        <5> QED
          BY <5>2 DEF Items
      <4> QED
        BY <3>2, <4>1 DEF DInv, SeatInv, Contract, DevPhase
    <3> QED
      BY <3>1, <3>2, TicketAssumption
  <2> HIDE DEF number
  <2>4. /\ pc'[Observer] \in {"stage", "off"}
        /\ \A m \in Ticket : pc'[m] = pc[m] /\ seen'[m] = seen[m] /\ On(m)' = On(m)
    BY <1>0, <2>1 DEF On
  <2>5. pc'[Observer] = "stage" =>
          number \in Ticket /\ seen'[Observer] = jobs[number] /\ observed' = number
    BY <1>0, <2>1
  <2>6. DriverInv'
    <3>1. ASSUME NEW t \in Ticket, pc'[t] = "load"
          PROVE  jobs'[t].phase \in DevPhase /\ observed' # t
      BY <1>0, <1>1, <2>1, <2>3, <2>4, <3>1 DEF DInv, DriverInv
    <3>2. ASSUME NEW t \in Ticket, Busy(t)'
          PROVE  /\ seen'[t].phase \notin SeatPhase
                 /\ seen'[t].phase \in DevPhase \/ pc'[t] \in LeasePoint => observed' # t
      <4>1. Busy(t) /\ seen'[t] = seen[t] /\ pc'[t] = pc[t]
        BY <2>4, <3>2 DEF Busy
      <4>2. seen[t].phase \in DevPhase \/ pc[t] \in LeasePoint =>
              jobs[t] = seen[t] /\ observed # t
        BY <1>0, <4>1 DEF DInv, DriverInv, On
      \* Nor are they for a Job that holds a lease without a seat.
      <4>3. pc[t] \in LeasePoint => number # t
        <5> SUFFICES ASSUME pc[t] \in LeasePoint, number = t PROVE FALSE
          OBVIOUS
        <5>1. t \in leased /\ jobs[t].phase \notin SeatPhase
          BY <1>0, <4>1, <4>2 DEF DInv, IInv, LeaseInv, DriverInv, On
        <5>2. ~RequiresSeat(jobs[t]) /\ jobs[t].phase # "ready"
          BY <5>1 DEF DInv, OwnerInv, RequiresSeat, AgentPhase
        <5> QED
          BY <1>0, <2>3, <5>2
      <4> QED
        BY <2>1, <2>3, <4>1, <4>2, <4>3 DEF DInv, DriverInv
    <3>3. ASSUME NEW m \in LaneId, Busy(m)',
                 seen'[m].phase \in DevPhase \cup SeatPhase \/ pc'[m] \in LeasePoint
          PROVE  jobs'[On(m)'] = seen'[m]
      <4>1. CASE m = Observer
        BY <1>1, <2>4, <2>5, <3>3, <4>1 DEF On, Busy
      <4>2. CASE m # Observer
        BY <1>0, <1>1, <2>4, <3>3, <4>2 DEF DInv, DriverInv, Busy
      <4> QED
        BY <4>1, <4>2
    <3>4. ASSUME NEW m \in LaneId, pc'[m] \in LeasePoint
          PROVE  \/ seen'[m].phase \in AgentPhase
                 \/ pc'[m] = "unwind" /\ seen'[m].phase = "blocked"
      BY <1>0, <2>4, <3>4 DEF DInv, DriverInv
    <3> QED
      BY <3>1, <3>2, <3>3, <3>4 DEF DriverInv
  <2>7. OwnerInv'
    BY <1>0, <1>4, <2>1, <2>4
  <2> QED
    BY <1>2, <2>2, <2>6, <2>7 DEF DInv
<1>8. ASSUME NEW t \in Ticket, LoadLane(t) PROVE DInv'
  <2>1. /\ pc[t] = "load" /\ workQueue' = workQueue /\ avoid' = avoid /\ observed' = observed
        /\ \A m \in LaneId \ {t} : pc'[m] = pc[m] /\ seen'[m] = seen[m]
        /\ \/ pc'[t] = "stage" /\ seen'[t] = jobs[t]
           \/ pc'[t] = "off"
    BY <1>0, <1>8 DEF LoadLane, Goto, store
  <2>2. QueueInv'
    BY <1>1, <2>1 DEF DInv, QueueInv
  <2>3. \A m \in LaneId : On(m)' = On(m)
    BY <2>1 DEF On
  <2>4. On(t) = t /\ jobs[t].phase \in DevPhase /\ observed # t
    BY <1>0, <2>1 DEF On, DInv, DriverInv
  <2>5. DriverInv'
    <3>1. \A u \in Ticket : pc'[u] = "load" => jobs'[u].phase \in DevPhase /\ observed' # u
      BY <1>0, <1>1, <2>1 DEF DInv, DriverInv
    <3>2. \A u \in Ticket : Busy(u)' =>
            /\ seen'[u].phase \notin SeatPhase
            /\ seen'[u].phase \in DevPhase \/ pc'[u] \in LeasePoint => observed' # u
      BY <1>0, <2>1, <2>4 DEF DInv, DriverInv, Busy, DevPhase, SeatPhase
    <3>3. \A m \in LaneId :
            Busy(m)' /\ (seen'[m].phase \in DevPhase \cup SeatPhase \/ pc'[m] \in LeasePoint) =>
              jobs'[On(m)'] = seen'[m]
      BY <1>0, <1>1, <2>1, <2>3, <2>4 DEF DInv, DriverInv, Busy
    <3>4. \A m \in LaneId : pc'[m] \in LeasePoint =>
            \/ seen'[m].phase \in AgentPhase
            \/ pc'[m] = "unwind" /\ seen'[m].phase = "blocked"
      BY <1>0, <2>1 DEF DInv, DriverInv
    <3> QED
      BY <3>1, <3>2, <3>3, <3>4 DEF DriverInv
  <2>6. OwnerInv'
    BY <1>0, <1>4, <2>1, <2>3
  <2> QED
    BY <1>2, <2>2, <2>5, <2>6 DEF DInv
<1>9. ASSUME NEW t \in Ticket, Foreground(t) PROVE DInv'
  <2>1. /\ executor = "up" /\ status = "active" /\ observed' = t
        /\ \A l \in LaneId : pc[l] = "off"
        /\ workQueue' = workQueue /\ avoid' = avoid
        /\ pc'[Observer] = "stage" /\ seen'[Observer] = jobs[t]
        /\ \A m \in LaneId \ {Observer} : pc'[m] = pc[m]
    BY <1>0, <1>9 DEF Foreground, store
  <2>2. QueueInv'
    BY <1>1, <2>1 DEF DInv, QueueInv
  <2>3. On(Observer)' = t
    BY <2>1 DEF On
  <2>4. DriverInv'
    BY <1>0, <1>1, <2>1, <2>3 DEF DriverInv, Busy
  <2>5. OwnerInv'
    <3>1. leased = {}
      BY <2>1 DEF DInv, OwnerInv, LeasePoint
    <3> QED
      BY <1>1, <3>1 DEF OwnerInv
  <2> QED
    BY <1>2, <2>2, <2>4, <2>5 DEF DInv
<1> QED
  BY <1>5, <1>6, <1>7, <1>8, <1>9

\* The Executor ends, dies or starts anew; the Run stops.
LEMMA ExecutorDrivers ==
  ASSUME DInv, IInv', SeeStop \/ Drain \/ Crash \/ Restart \/ StopRun
  PROVE  DInv'
<1>1. UNCHANGED <<jobs, holder, seatQueue, pauseRequests, refused>>
  BY DEF SeeStop, Drain, Crash, Restart, StopRun, store
<1>2. CASE SeeStop \/ Drain \/ StopRun
  <2>1. /\ UNCHANGED <<workQueue, leased, pc, seen, observed, avoid>>
        /\ \/ status' = "stopped" /\ executor' \in {executor, "failing"}
           \/ executor' = "down" /\ status' = status
    BY <1>2 DEF SeeStop, Drain, StopRun, store, lanes, DInv, WordInv
  <2>2. QueueInv' /\ SeatInv'
    BY <1>1, <2>1 DEF DInv, QueueInv, SeatInv, Contract
  <2>3. DriverInv'
    BY <1>1, <2>1 DEF DInv, DriverInv, Busy, On
  <2>4. OwnerInv' /\ WordInv'
    BY <1>1, <2>1 DEF DInv, OwnerInv, WordInv, On
  <2> QED
    BY <2>2, <2>3, <2>4 DEF DInv
<1>3. CASE Crash
  <2>1. /\ UNCHANGED <<workQueue, leased, status>> /\ executor' = "down" /\ avoid' = {}
        /\ \A l \in LaneId : pc'[l] = "off"
    BY <1>3 DEF Crash, store
  <2>2. QueueInv' /\ SeatInv'
    BY <1>1, <2>1 DEF DInv, QueueInv, SeatInv, Contract
  <2>3. DriverInv'
    BY <2>1 DEF DriverInv, Busy, LaneId, LeasePoint
  <2>4. OwnerInv' /\ WordInv'
    BY <1>1, <2>1 DEF DInv, OwnerInv, WordInv
  <2> QED
    BY <2>2, <2>3, <2>4 DEF DInv
<1>4. CASE Restart
  <2>1. /\ leased' = {} /\ UNCHANGED <<pc, seen, observed, avoid>>
        /\ status' = "active" /\ executor' = "up" /\ executor = "down"
        /\ workQueue' = Reconciled(jobs, workQueue, {}, pauseRequests)
    BY <1>4 DEF Restart, lanes
  <2>2. QueueInv'
    BY <1>1, <2>1, ReconciledFact DEF DInv, QueueInv
  <2>3. SeatInv'
    BY <1>1, <2>1, FS_EmptySet, CapacityAssumption DEF DInv, SeatInv, Contract
  <2>4. DriverInv'
    BY <1>1, <2>1 DEF DInv, DriverInv, Busy, On
  <2>5. OwnerInv' /\ WordInv'
    BY <1>1, <2>1 DEF DInv, OwnerInv, WordInv
  <2> QED
    BY <2>2, <2>3, <2>4, <2>5 DEF DInv
<1> QED
  BY <1>2, <1>3, <1>4

\* The commands change a Job that has no driver: one that waits for the seat, or
\* one that is blocked.
LEMMA CommandDrivers ==
  ASSUME DInv, IInv', NEW t \in Ticket, RequestPause(t) \/ Resume(t)
  PROVE  DInv'
<1>1. UNCHANGED <<status, executor, pc, seen, observed, avoid>>
  BY DEF RequestPause, Resume, lanes
<1>2. WordInv'
  BY <1>1 DEF RequestPause, Resume, DInv, WordInv
<1>3. jobs[t] \in Job /\ workQueue \in Seq(Ticket)
  BY DEF DInv, IInv, JobInv, QueueInv
<1>4. CASE UNCHANGED store
  <2>1. QueueInv' /\ SeatInv'
    BY <1>1, <1>4 DEF DInv, QueueInv, SeatInv, Contract, store
  <2>2. DriverInv' /\ OwnerInv'
    BY <1>1, <1>4 DEF DInv, DriverInv, OwnerInv, Busy, On, store
  <2> QED
    BY <1>2, <2>1, <2>2 DEF DInv
<1>5. ASSUME NEW j \in Job, NEW q \in Seq(Ticket), NEW asked \in SUBSET (pauseRequests \cup {t}),
             Holds(t, j), Store(t, j, q, asked),
             j = jobs[t] \/ (t \notin leased /\ jobs[t].phase \in {"ready", "blocked"}),
             j.phase = "ready" => t \notin asked
      PROVE  DInv'
  <2>1. /\ jobs' \in [Ticket -> Job] /\ jobs'[t] = j
        /\ \A u \in Ticket \ {t} : jobs'[u] = jobs[u]
        /\ leased' = leased /\ pauseRequests' = asked
    BY <1>5 DEF Store, DInv, IInv, JobInv
  <2>2. j # jobs[t] => t \notin leased /\ jobs[t].phase \notin DevPhase \cup SeatPhase
    BY <1>5 DEF DevPhase, SeatPhase
  <2>3. QueueInv' /\ Contract(jobs, holder, seatQueue, leased)'
    <3>1. asked \in SUBSET Ticket
      BY DEF DInv, QueueInv
    <3> QED
      BY <1>1, <1>5, <3>1, StoreQueues DEF DInv
  <2>4. SeatInv'
    <3>1. \A u \in Ticket : jobs'[u].phase = "ready" => u \notin pauseRequests'
      BY <1>5, <2>1 DEF DInv, SeatInv
    <3> QED
      BY <2>3, <3>1 DEF SeatInv
  <2>5. \A u \in Ticket : jobs[u].phase \in DevPhase \cup SeatPhase \/ u \in leased =>
          jobs'[u] = jobs[u]
    BY <2>1, <2>2
  <2>6. DriverInv'
    <3>1. \A u \in Ticket : pc'[u] = "load" => jobs'[u].phase \in DevPhase /\ observed' # u
      BY <1>1, <2>5 DEF DInv, DriverInv
    <3>2. \A u \in Ticket : Busy(u)' =>
            /\ seen'[u].phase \notin SeatPhase
            /\ seen'[u].phase \in DevPhase \/ pc'[u] \in LeasePoint => observed' # u
      BY <1>1 DEF DInv, DriverInv, Busy
    <3>3. ASSUME NEW m \in LaneId, Busy(m)',
                 seen'[m].phase \in DevPhase \cup SeatPhase \/ pc'[m] \in LeasePoint
          PROVE  jobs'[On(m)'] = seen'[m]
      <4>1. Busy(m) /\ On(m)' = On(m) /\ seen'[m] = seen[m] /\ pc'[m] = pc[m]
        BY <1>1, <3>3 DEF Busy, On
      <4>2. On(m) \in Ticket /\ jobs[On(m)] = seen[m]
        BY <3>3, <4>1, OnTicket DEF Busy, DInv, IInv, DriverInv
      <4>3. pc[m] \in LeasePoint => On(m) \in leased
        BY DEF DInv, IInv, LeaseInv
      <4> QED
        BY <2>5, <3>3, <4>1, <4>2, <4>3
    <3>4. \A m \in LaneId : pc'[m] \in LeasePoint =>
            \/ seen'[m].phase \in AgentPhase
            \/ pc'[m] = "unwind" /\ seen'[m].phase = "blocked"
      BY <1>1 DEF DInv, DriverInv
    <3> QED
      BY <3>1, <3>2, <3>3, <3>4 DEF DriverInv
  <2>7. OwnerInv'
    <3>1. \A u \in leased : jobs'[u] = jobs[u]
      BY <2>5 DEF DInv, QueueInv
    <3> QED
      BY <1>1, <2>1, <3>1 DEF DInv, OwnerInv, On
  <2> QED
    BY <1>2, <2>3, <2>4, <2>6, <2>7 DEF DInv
<1>6. CASE RequestPause(t)
  <2> DEFINE m == jobs[t]
             q == Without(workQueue, {t} \ leased)
             now == m.phase = "ready" /\ holder # t
  <2>1. q \in Seq(Ticket)
    BY <1>3, QueueFact
  <2>2. Paused(m) \in Job /\ Paused(m).phase = "blocked"
    BY <1>3, BlockedJobs DEF Paused, Job
  <2>3. m.phase = "ready" => holder # t
    BY <1>3 DEF DInv, SeatInv, Contract
  <2>4. Holds(t, m)
    BY <1>3, HoldsWhen DEF DInv, SeatInv, Contract, IInv, JobInv, SoundJob
  <2>5. \/ UNCHANGED store
        \/ now /\ Holds(t, Paused(m)) /\ Store(t, Paused(m), q, pauseRequests)
        \/ ~now /\ Store(t, m, q, pauseRequests \cup {t})
    BY <1>6 DEF RequestPause
  <2> HIDE DEF q
  <2>6. CASE now /\ Holds(t, Paused(m)) /\ Store(t, Paused(m), q, pauseRequests)
    <3>1. pauseRequests \in SUBSET (pauseRequests \cup {t})
      OBVIOUS
    <3>2. t \notin leased
      BY <2>6 DEF DInv, OwnerInv, AgentPhase
    <3> QED
      BY <1>5, <2>1, <2>2, <2>6, <3>1, <3>2
  <2>7. CASE ~now /\ Store(t, m, q, pauseRequests \cup {t})
    <3>1. m.phase # "ready"
      BY <2>3, <2>7
    <3> QED
      BY <1>3, <1>5, <2>1, <2>4, <2>7, <3>1
  <2> QED
    BY <1>4, <2>5, <2>6, <2>7
<1>7. CASE Resume(t)
  <2> DEFINE j == Resumed(t)
  <2>1. \/ UNCHANGED store
        \/ /\ Holds(t, j) /\ jobs[t].phase = "blocked" /\ t \notin leased
           /\ \E q \in {workQueue, Enqueued(workQueue, t)} :
                Store(t, j, q, pauseRequests \ {t})
    BY <1>7 DEF Resume
  <2>2. Holds(t, j) /\ jobs[t].phase = "blocked" => j \in Job
    BY ResumedFact DEF DInv, IInv
  <2>3. Enqueued(workQueue, t) \in Seq(Ticket)
    BY <1>3, QueueFact
  <2>4. pauseRequests \ {t} \in SUBSET (pauseRequests \cup {t})
    OBVIOUS
  <2> HIDE DEF j
  <2> QED
    BY <1>3, <1>4, <1>5, <2>1, <2>2, <2>3, <2>4
<1> QED
  BY <1>6, <1>7

-----------------------------------------------------------------------------
(* The theorems.                                                           *)

LEMMA InitDrivers == Init => DInv
<1> SUFFICES ASSUME Init PROVE DInv
  OBVIOUS
<1>1. IInv
  BY InitInv
<1>2. Items(<<>>) = {} /\ <<>> \in Seq(Ticket)
  BY DEF Items
<1>3. QueueInv /\ WordInv
  BY <1>2 DEF Init, QueueInv, WordInv
<1>4. SeatInv
  BY <1>2, FS_EmptySet, CapacityAssumption
  DEF Init, SeatInv, Contract, NoJob, RequiresSeat, SeatPhase
<1>5. DriverInv /\ OwnerInv
  BY DEF Init, DriverInv, OwnerInv, Busy, LaneId, LeasePoint
<1> QED
  BY <1>1, <1>3, <1>4, <1>5 DEF DInv

LEMMA StepDrivers == DInv /\ [Next]_vars => DInv'
<1> SUFFICES ASSUME DInv, [Next]_vars PROVE DInv'
  OBVIOUS
<1>1. IInv'
  BY StepInv DEF DInv
<1>2. CASE UNCHANGED vars
  <2>1. /\ UNCHANGED <<jobs, workQueue, leased, holder, seatQueue, pauseRequests>>
        /\ UNCHANGED <<status, executor, pc, seen, observed, avoid, refused>>
    BY <1>2 DEF vars, store, lanes
  <2>2. QueueInv' /\ SeatInv' /\ WordInv'
    BY <2>1 DEF DInv, QueueInv, SeatInv, Contract, WordInv
  <2>3. DriverInv' /\ OwnerInv'
    BY <2>1 DEF DInv, DriverInv, OwnerInv, Busy, On
  <2> QED
    BY <1>1, <2>2, <2>3 DEF DInv
<1>3. ASSUME NEW l \in LaneId,
             LaneStep(l) \/ FailExecutor(l) \/ StageError(l) \/ FailAgent(l) \/ LoseAgent(l)
      PROVE  DInv'
  BY <1>1, <1>3, DevelopmentDrivers, SeatDrivers, AcquireDrivers, AgentDrivers, FailureDrivers
  DEF LaneStep, Stage
<1>4. ASSUME NEW t \in Ticket,
             LoadLane(t) \/ Foreground(t) \/ RequestPause(t) \/ Resume(t)
      PROVE  DInv'
  BY <1>1, <1>4, StartDrivers, CommandDrivers
<1> QED
  BY <1>1, <1>2, <1>3, <1>4, StartDrivers, ExecutorDrivers DEF Next

\* Every variable has its type in every state.
THEOREM TicketTypeCorrect == Spec => []TypeOK
<1>1. DInv => TypeOK
  <2> SUFFICES ASSUME DInv PROVE TypeOK
    OBVIOUS
  <2>1. /\ jobs \in [Ticket -> Job] /\ holder \in Ticket \cup {None}
        /\ pc \in [LaneId -> Point] /\ seen \in [LaneId -> Job]
        /\ observed \in Ticket \cup {None}
        /\ agents \subseteq leased
    BY DEF DInv, IInv, ControlInv, LeaseInv, JobInv
  <2> QED
    BY <2>1 DEF DInv, QueueInv, WordInv, TypeOK, Point
<1> QED
  BY <1>1, InitDrivers, StepDrivers, PTL DEF Spec

\* The dispatcher and supervision, which choose their Tickets from states read
\* at different times (ticket_scheduling.py, ticket_supervision.py), never
\* develop the same one.
THEOREM OneDriverSafe == Spec => []OneDriverPerTicket
<1>1. DInv => OneDriverPerTicket
  <2> SUFFICES ASSUME DInv, NEW t \in Ticket, observed = t
               PROVE  /\ pc[t] \notin {"admitted", "agent", "release", "unwind"}
                      /\ pc[t] = "stage" => seen[t].phase \notin DevPhase
    BY DEF OneDriverPerTicket
  <2>1. Busy(t) => seen[t].phase \notin DevPhase /\ pc[t] \notin LeasePoint
    BY DEF DInv, DriverInv
  <2> QED
    BY <2>1 DEF Busy, LeasePoint
<1> QED
  BY <1>1, InitDrivers, StepDrivers, PTL DEF Spec

\* A paused Ticket is at rest (ticket_pause.py, agent_work.py): no lane admits or
\* runs an Agent for it, it waits in no queue and keeps the seat only for an
\* unsettled write; a lease it still has is on its way back or goes down with
\* the Executor, and only there does a process nobody saw end outlive the pause.
THEOREM PauseSafe == Spec => []PausedIsQuiet
<1>1. DInv => PausedIsQuiet
  <2> SUFFICES ASSUME DInv, NEW t \in Ticket, IsPaused(jobs[t])
               PROVE  /\ t \notin Items(seatQueue)
                      /\ t \in Items(workQueue) => t \in leased
                      /\ holder = t => jobs[t].intent
                      /\ \A l \in LaneId : On(l) = t => pc[l] \notin {"admitted", "agent"}
                      /\ t \in leased =>
                           \/ executor # "up"
                           \/ \E l \in LaneId : On(l) = t /\ pc[l] \in {"unwind", "raised"}
                      /\ t \in agents =>
                           executor # "up" \/ \E l \in LaneId : On(l) = t /\ pc[l] = "raised"
    BY DEF PausedIsQuiet
  <2>1. jobs[t].phase = "blocked"
    BY DEF IsPaused
  <2>2. t \in Items(workQueue) => t \in leased
    BY <2>1 DEF DInv, QueueInv
  <2>3. /\ t \notin Items(seatQueue)
        /\ holder = t => jobs[t].intent
    BY <2>1, TicketAssumption DEF DInv, SeatInv, Contract, RequiresSeat, SeatPhase
  \* Whoever has the lease of a blocked Job is unwinding.
  <2>4. \A l \in LaneId : On(l) = t /\ pc[l] \in LeasePoint => pc[l] = "unwind"
    <3> SUFFICES ASSUME NEW l \in LaneId, On(l) = t, pc[l] \in LeasePoint
                 PROVE  pc[l] = "unwind"
      OBVIOUS
    <3>1. jobs[t] = seen[l]
      BY DEF DInv, DriverInv, Busy, LeasePoint
    <3> QED
      BY <2>1, <3>1 DEF DInv, DriverInv, AgentPhase
  <2>5. t \in leased /\ executor = "up" =>
          \E l \in LaneId : On(l) = t /\ pc[l] \in LeasePoint \cup {"raised"}
    BY DEF DInv, OwnerInv
  <2>6. /\ agents \subseteq leased
        /\ \A l \in LaneId : pc[l] = "unwind" => On(l) \notin agents
    BY DEF DInv, IInv, LeaseInv, LeasePoint
  <2>7. t \in leased =>
          \/ executor # "up"
          \/ \E l \in LaneId : On(l) = t /\ pc[l] \in {"unwind", "raised"}
    BY <2>4, <2>5
  <2>8. t \in agents => executor # "up" \/ \E l \in LaneId : On(l) = t /\ pc[l] = "raised"
    BY <2>6, <2>7
  <2> QED
    BY <2>2, <2>3, <2>4, <2>7, <2>8 DEF LeasePoint
<1> QED
  BY <1>1, InitDrivers, StepDrivers, PTL DEF Spec

\* The state contract (_require_ticket_integration_queue, require_queue) never
\* rejects what a lane saves, whatever the other lanes and the commands did
\* between its read and its save.
THEOREM LaneCommitsSafe == Spec => []LaneCommitsAccepted
<1>1. DInv => LaneCommitsAccepted
  BY DEF DInv, WordInv, LaneCommitsAccepted
<1> QED
  BY <1>1, InitDrivers, StepDrivers, PTL DEF Spec
=============================================================================
