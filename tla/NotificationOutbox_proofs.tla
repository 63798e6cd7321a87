--------------------- MODULE NotificationOutbox_proofs ---------------------
(***************************************************************************)
(* Proofs about the notification journal for any number of senders, gates  *)
(* and facts, any faults and any limits: one request is out at a time, an  *)
(* event has one item and one budget, progress is not told twice, and the  *)
(* outbox is bounded.                                                      *)
(***************************************************************************)
EXTENDS NotificationOutbox, FiniteSetTheorems, TLAPS

-----------------------------------------------------------------------------
(* The invariant.                                                          *)

Journal ==
  [pending : SUBSET Item, records : SUBSET EventId, seen : SUBSET EventId,
   active : SUBSET Slot, sequence : Nat, resumed : SUBSET {"started", "failed"},
   milestones : SUBSET EventId, exit : Nat]
Outcome == [outcome : {"started", "failed"}, slot : Slot \cup {None}] \cup {None}
Process ==
  [proc : {"idle", "begun", "open", "closing", "closed", "ended", "dead"},
   thread : {"none", "loop", "waiting", "check", "sent", "parked", "done"},
   item : EventId \cup {None}, result : Outcome,
   failure : BOOLEAN, recovery : BOOLEAN]

\* Every event the journal has ever taken.
Ids(d) == {i.id : i \in d.pending} \cup d.records

\* One item an event, within its budget, and one claim.
Sound(d) ==
  /\ d \in Journal /\ IsFiniteSet(d.pending)
  /\ \A i \in d.pending : /\ i.attempts <= MaxAttempts
                          /\ i.id \notin d.records
                          /\ Sending(i) => i.owner \in Sender
  /\ \A i, j \in d.pending : i.id = j.id \/ (Sending(i) /\ Sending(j)) => i = j

\* Why no event is taken again: by its kind, something says it was.
ToldFact(d, x) ==
  /\ x = Id("fact", x.of, 0)
  /\ IF x.of \in Milestone THEN x \in d.milestones
     ELSE x.of \in run.rolled \/ (x.of \in run.shown /\ x \in d.seen)
ToldExit(d, x) ==
  /\ x = Id("exit", None, x.n) /\ x.n \in 1..session.gen
  /\ ExitCurrent(x.n) => x \in d.seen /\ d.exit = x.n
Told(d) ==
  \A x \in Ids(d) : /\ x.kind = "fact" => ToldFact(d, x)
                    /\ x.kind = "gate" => x.n <= d.sequence
                    /\ x.kind = "resume" => x.of \in d.resumed
                    /\ x.kind = "exit" => ToldExit(d, x)

RunInv ==
  /\ run \in [up : SUBSET Slot, shown : SUBSET Fact, rolled : SUBSET Fact,
              live : Fact \cup {None}]
  /\ run.shown \cap run.rolled \subseteq Milestone
  /\ session \in [gen : Nat, current : BOOLEAN]

\* The journal holds the claim c = <<process, event>>.
Claimed(d, c) == \E i \in d.pending : Sending(i) /\ i.owner = c[1] /\ i.id = c[2]

\* A request is covered by a claim of the process that makes it.
SenderInv ==
  /\ sender \in [Sender -> Process]
  /\ \A s \in Sender : sender[s].thread # "none" => Alive(s)
  /\ \A s \in Sender : Transporting(s) => Claimed(journal, <<s, sender[s].item>>)

IInv == Sound(journal) /\ Told(journal) /\ RunInv /\ SenderInv

-----------------------------------------------------------------------------
(* Numbers.                                                                *)

\* A finite set of numbers has a greatest one.
LEMMA Greatest ==
  ASSUME NEW S \in SUBSET Nat, IsFiniteSet(S), S # {}
  PROVE  \E m \in S : \A n \in S : n <= m
<1> DEFINE Has(X) == \E m \in X : \A n \in X : n <= m
           Bad == {X \in SUBSET S : X # {} /\ ~Has(X)}
<1>1. SUFFICES ASSUME Bad # {} PROVE FALSE
  OBVIOUS
<1>2. /\ IsWellFoundedOn(StrictSubsetOrdering(S), FiniteSubsetsOf(S))
      /\ FiniteSubsetsOf(S) = SUBSET S
  BY FS_StrictSubsetOrderingWellFounded, FS_FiniteSubsetsOfFinite
<1>3. PICK X \in Bad : \A Y \in Bad : <<Y, X>> \notin StrictSubsetOrdering(S)
  <2>1. Bad \subseteq FiniteSubsetsOf(S)
    BY <1>2
  <2> HIDE DEF Bad
  <2> QED
    BY <1>1, <1>2, <2>1, WFMin
<1>4. PICK x \in X : x \in Nat
  OBVIOUS
<1>5. CASE X = {x}
  BY <1>4, <1>5
<1>6. CASE X # {x}
  <2> DEFINE Y == X \ {x}
  <2>1. Y # {} /\ Y \subseteq S /\ Y \subseteq X /\ Y # X
    BY <1>3, <1>4, <1>6
  <2>2. <<Y, X>> \in StrictSubsetOrdering(S)
    BY <1>3, <2>1 DEF StrictSubsetOrdering
  <2>3. Has(Y)
    BY <1>3, <2>1, <2>2
  <2>4. PICK m \in Y : \A n \in Y : n <= m
    BY <2>3
  <2>5. m \in Nat /\ \A n \in X : n \in Nat
    BY <2>1
  <2>6. (IF m < x THEN x ELSE m) \in X /\ \A n \in X : n <= IF m < x THEN x ELSE m
    BY <1>4, <2>4, <2>5
  <2>7. Has(X)
    BY <2>6
  <2> QED
    BY <1>3, <2>7
<1> QED
  BY <1>5, <1>6

\* The members of a finite set can be numbered.
LEMMA OrderFact ==
  ASSUME NEW S, IsFiniteSet(S)
  PROVE  /\ Cardinality(S) \in Nat
         /\ Order(S) \in [S -> 1..Cardinality(S)]
         /\ \A x, y \in S : x # y => Order(S)[x] # Order(S)[y]
<1>1. Cardinality(S) \in Nat
  BY FS_CardinalityType
<1> DEFINE n == Cardinality(S)
<1>2. IsFiniteSet(1..n) /\ Cardinality(1..n) = n
  BY <1>1, FS_Interval
<1>3. ExistsBijection(S, 1..n)
  BY <1>2, FS_SameCardinalityBij
<1>4. PICK f \in [S -> 1..n] : \A x, y \in S : x # y => f[x] # f[y]
  BY <1>3 DEF ExistsBijection, Bijection, Injection, IsInjective
<1> QED
  BY <1>1, <1>4 DEF Order

\* The images of a finite set are finite.
LEMMA Images ==
  ASSUME NEW S, IsFiniteSet(S), NEW f, DOMAIN f = S, NEW T, T = {f[x] : x \in S}
  PROVE  IsFiniteSet(T)
<1>1. [x \in S |-> f[x]] \in Surjection(S, T)
  BY DEF Surjection
<1> QED
  BY <1>1, FS_Surjection

-----------------------------------------------------------------------------
(* What the operators of the journal keep.                                 *)

\* Item k of a later journal is item i of an earlier one, or new to it.
Same(i, k) ==
  /\ k.id = i.id /\ k.important = i.important
  /\ k.attempts = i.attempts /\ k.owner = i.owner
  /\ k.outcome = i.outcome \/ (Sending(i) /\ k.outcome = "unknown")
New(d, k) == k.id \notin Ids(d) /\ k.attempts = 0 /\ k.outcome = "pending"

\* Journal e comes after d: nothing is forgotten or tried, and the claims of
\* living processes stand.
Follows(d, e) ==
  /\ Ids(d) \subseteq Ids(e)
  /\ \A k \in e.pending : New(d, k) \/ \E i \in d.pending : Same(i, k)
  /\ \A i \in d.pending : Sending(i) /\ Alive(i.owner) => Claimed(e, <<i.owner, i.id>>)

\* And no event was added.
Calm(d, e) ==
  /\ Follows(d, e) /\ Ids(e) = Ids(d)
  /\ e.seen = d.seen /\ e.active = d.active /\ e.sequence = d.sequence
  /\ e.resumed = d.resumed /\ e.milestones = d.milestones /\ e.exit = d.exit

\* A journal follows itself.
LEMMA FollowsReflexive ==
  ASSUME NEW d PROVE Follows(d, d) /\ Calm(d, d)
BY DEF Follows, Calm, Same, Claimed

\* What follows a follower follows.
LEMMA FollowsTransitive ==
  ASSUME NEW d, NEW e, NEW f, Follows(d, e), Follows(e, f)
  PROVE  Follows(d, f)
<1>1. Ids(d) \subseteq Ids(f)
  BY DEF Follows
<1>2. ASSUME NEW k \in f.pending
      PROVE  New(d, k) \/ \E i \in d.pending : Same(i, k)
  <2>1. CASE New(e, k)
    BY <2>1 DEF Follows, New
  <2>2. ASSUME NEW i \in e.pending, Same(i, k)
        PROVE  New(d, k) \/ \E h \in d.pending : Same(h, k)
    BY <2>2 DEF Follows, New, Same, Sending
  <2> QED
    BY <2>1, <2>2 DEF Follows
<1>3. ASSUME NEW i \in d.pending, Sending(i), Alive(i.owner)
      PROVE  Claimed(f, <<i.owner, i.id>>)
  <2>1. PICK k \in e.pending : Sending(k) /\ k.owner = i.owner /\ k.id = i.id
    BY <1>3 DEF Follows, Claimed
  <2> QED
    BY <1>3, <2>1 DEF Follows
<1> QED
  BY <1>1, <1>2, <1>3 DEF Follows

\* Two calm steps are one.
LEMMA CalmTransitive ==
  ASSUME NEW d, NEW e, NEW f, Calm(d, e), Calm(e, f)
  PROVE  Calm(d, f)
BY FollowsTransitive DEF Calm

\* cancel_item, for any set of items: a sound journal stays so, and calm.
LEMMA WithdrawFact ==
  ASSUME NEW d, Sound(d), NEW S \in SUBSET d.pending
  PROVE  Sound(Withdraw(d, S)) /\ Calm(d, Withdraw(d, S))
<1> DEFINE Marked(i) == [i EXCEPT !.cancelled = TRUE]
           out == {i \in S : Sending(i)}
           marked == {Marked(i) : i \in out}
           e == Withdraw(d, S)
<1>1. d \in Journal /\ d.pending \in SUBSET Item
  BY DEF Sound, Journal
<1>2. \A i \in Item : /\ Marked(i) \in Item /\ Same(i, Marked(i))
                      /\ Marked(i).id = i.id /\ Marked(i).attempts = i.attempts
                      /\ Marked(i).owner = i.owner /\ Marked(i).outcome = i.outcome
  BY DEF Item, Same
<1>3. /\ e.pending = ((d.pending \ out) \cup marked) \ (S \ out)
      /\ e.records = d.records \cup {i.id : i \in S \ out}
      /\ e.seen = d.seen /\ e.active = d.active /\ e.sequence = d.sequence
      /\ e.resumed = d.resumed /\ e.milestones = d.milestones /\ e.exit = d.exit
      /\ DOMAIN e = DOMAIN d
  BY <1>1 DEF Withdraw, Retire, Journal
<1> HIDE DEF e, Marked
<1>4. \A k \in e.pending : (k \in d.pending /\ k \notin S)
                             \/ \E i \in S : Sending(i) /\ k = Marked(i)
  BY <1>3
<1>5. \A i \in d.pending : /\ i \notin S => i \in e.pending
                           /\ i \in S /\ Sending(i) => Marked(i) \in e.pending
                           /\ i \in S /\ ~Sending(i) => i.id \in e.records
  BY <1>1, <1>2, <1>3 DEF Sending
<1>6. e \in Journal
  <2>1. e.pending \subseteq Item
    BY <1>1, <1>2, <1>4
  <2>2. e.records \subseteq EventId
    BY <1>1, <1>3 DEF Journal, Item
  <2> QED
    BY <1>1, <1>3, <2>1, <2>2 DEF Journal, Withdraw, Retire, e
<1>7. IsFiniteSet(e.pending)
  <2>1. IsFiniteSet(d.pending) /\ IsFiniteSet(out)
    BY FS_Subset DEF Sound
  <2> DEFINE f == [i \in out |-> Marked(i)]
  <2>2. DOMAIN f = out /\ marked = {f[x] : x \in out}
    OBVIOUS
  <2>3. IsFiniteSet(marked)
    <3> HIDE DEF f, out, marked
    <3> QED
      BY <2>1, <2>2, Images
  <2>4. IsFiniteSet(d.pending \cup marked)
    BY <2>1, <2>3, FS_Union
  <2>5. e.pending \in SUBSET (d.pending \cup marked)
    BY <1>3
  <2> QED
    BY <2>4, <2>5, FS_Subset
<1>8. Sound(e)
  <2>1. ASSUME NEW k \in e.pending
        PROVE  /\ k.attempts <= MaxAttempts /\ k.id \notin e.records
               /\ Sending(k) => k.owner \in Sender
    BY <1>1, <1>2, <1>3, <1>4 DEF Sound, Sending
  <2>2. ASSUME NEW k \in e.pending, NEW m \in e.pending,
               k.id = m.id \/ (Sending(k) /\ Sending(m))
        PROVE  k = m
    BY <1>1, <1>2, <1>4, <2>2 DEF Sound, Sending
  <2> QED
    BY <1>6, <1>7, <2>1, <2>2 DEF Sound
<1>9. Ids(e) = Ids(d)
  BY <1>1, <1>2, <1>3, <1>4, <1>5 DEF Ids
<1>10. Follows(d, e)
  <2>1. \A k \in e.pending : \E i \in d.pending : Same(i, k)
    BY <1>1, <1>2, <1>4 DEF Same
  <2>2. ASSUME NEW i \in d.pending, Sending(i)
        PROVE  Claimed(e, <<i.owner, i.id>>)
    BY <1>1, <1>2, <1>5, <2>2 DEF Claimed, Sending
  <2> QED
    BY <1>9, <2>1, <2>2 DEF Follows
<1> QED
  BY <1>3, <1>8, <1>9, <1>10 DEF Calm, e

\* settle: the same, and what is left is not over.
LEMMA SettledFact ==
  ASSUME NEW d, Sound(d)
  PROVE  /\ Sound(Settled(d)) /\ Calm(d, Settled(d))
         /\ \A k \in Settled(d).pending : ~Over(k)
<1> DEFINE Aged(i) == IF Abandoned(i) THEN [i EXCEPT !.outcome = "unknown"] ELSE i
           aged == {Aged(i) : i \in d.pending}
           over == {k \in aged : Over(k)}
           e == Settled(d)
<1>1. d \in Journal /\ d.pending \in SUBSET Item
  BY DEF Sound, Journal
<1>2. \A i \in Item : /\ Aged(i) \in Item /\ Same(i, Aged(i))
                      /\ Aged(i).id = i.id /\ Aged(i).attempts = i.attempts
                      /\ Aged(i).owner = i.owner
                      /\ Sending(Aged(i)) => Aged(i) = i
                      /\ Sending(i) /\ Alive(i.owner) => Aged(i) = i
  BY DEF Item, Outcomes, Same, Abandoned, Sending
<1>3. /\ e.pending = aged \ over
      /\ e.records = d.records \cup {k.id : k \in over}
      /\ e.seen = d.seen /\ e.active = d.active /\ e.sequence = d.sequence
      /\ e.resumed = d.resumed /\ e.milestones = d.milestones /\ e.exit = d.exit
      /\ DOMAIN e = DOMAIN d
  BY <1>1 DEF Settled, Retire, Journal
<1>4. over = {k \in aged : Over(k)} /\ \A k \in over : ~Sending(k)
  BY DEF Over
<1> HIDE DEF e, Aged, over
<1>5. e \in Journal
  <2>1. aged \subseteq Item /\ over \subseteq Item
    BY <1>1, <1>2, <1>4
  <2>2. e.pending \subseteq Item /\ e.records \subseteq EventId
    BY <1>1, <1>3, <2>1 DEF Journal, Item
  <2> QED
    BY <1>1, <1>3, <2>2 DEF Journal, Settled, Retire, e
<1>6. IsFiniteSet(e.pending)
  <2> DEFINE f == [i \in d.pending |-> Aged(i)]
  <2>1. DOMAIN f = d.pending /\ aged = {f[x] : x \in d.pending}
    OBVIOUS
  <2>2. IsFiniteSet(aged)
    <3> HIDE DEF f, aged
    <3> QED
      BY <2>1, Images DEF Sound
  <2> QED
    BY <1>3, <2>2, FS_Subset
<1>7. Sound(e)
  <2>1. ASSUME NEW k \in e.pending
        PROVE  /\ k.attempts <= MaxAttempts /\ k.id \notin e.records
               /\ Sending(k) => k.owner \in Sender
    BY <1>1, <1>2, <1>3, <1>4 DEF Sound
  <2>2. ASSUME NEW k \in e.pending, NEW m \in e.pending,
               k.id = m.id \/ (Sending(k) /\ Sending(m))
        PROVE  k = m
    BY <1>1, <1>2, <1>3, <2>2 DEF Sound
  <2> QED
    BY <1>5, <1>6, <2>1, <2>2 DEF Sound
<1>8. Ids(e) = Ids(d)
  <2>1. \A x : x \in {k.id : k \in aged} <=> x \in {i.id : i \in d.pending}
    BY <1>1, <1>2
  <2>2. {k.id : k \in aged} = {k.id : k \in aged \ over} \cup {k.id : k \in over}
    BY <1>4
  <2> QED
    BY <1>3, <2>1, <2>2 DEF Ids
<1>9. Follows(d, e)
  <2>1. \A k \in e.pending : \E i \in d.pending : Same(i, k)
    BY <1>1, <1>2, <1>3
  <2>2. ASSUME NEW i \in d.pending, Sending(i), Alive(i.owner)
        PROVE  Claimed(e, <<i.owner, i.id>>)
    <3>1. i \in aged /\ i \notin over
      BY <1>1, <1>2, <1>4, <2>2
    <3> QED
      BY <1>3, <2>2, <3>1 DEF Claimed
  <2> QED
    BY <1>8, <2>1, <2>2 DEF Follows
<1> QED
  BY <1>3, <1>4, <1>7, <1>8, <1>9 DEF Calm, e

\* _compress withdraws some items, or none.
LEMMA CompressedFact ==
  ASSUME NEW d, Sound(d), NEW r, NEW recovering, NEW added
  PROVE  Sound(Compressed(d, r, recovering, added)) /\ Calm(d, Compressed(d, r, recovering, added))
<1> DEFINE ordinary == {i \in d.pending : ~i.important /\ ~Sending(i)}
           old == ordinary \ Fresh(ordinary, r)
<1>1. old \in SUBSET d.pending
  OBVIOUS
<1>2. Compressed(d, r, recovering, added) \in {d, Withdraw(d, old)}
  BY DEF Compressed
<1> HIDE DEF old
<1> QED
  BY <1>1, <1>2, FollowsReflexive, WithdrawFact

\* The bound on the outbox does the same.
LEMMA BoundedFact ==
  ASSUME NEW d, Sound(d)
  PROVE  Sound(Bounded(d)) /\ Calm(d, Bounded(d))
<1> DEFINE movable == {i \in d.pending : ~Sending(i) /\ i.slot = None}
           excess == Cardinality(d.pending) - (MaxPending + Cardinality(run.up))
           old == {i \in movable : Cardinality({j \in movable : j.rank < i.rank}) < excess}
<1>1. old \in SUBSET d.pending
  OBVIOUS
<1>2. Bounded(d) = Withdraw(d, old)
  BY DEF Bounded
<1> HIDE DEF old
<1> QED
  BY <1>1, <1>2, WithdrawFact

\* The greatest number of the journal is one.
LEMMA LastFact ==
  ASSUME NEW d, Sound(d)
  PROVE  Last(d) \in Nat
<1>1. d.pending \in SUBSET Item /\ IsFiniteSet(d.pending)
  BY DEF Sound, Journal
<1> DEFINE ranks == {i.rank : i \in d.pending}
           all == {0} \cup ranks
           f == [i \in d.pending |-> i.rank]
<1>2. DOMAIN f = d.pending /\ ranks = {f[i] : i \in d.pending}
  OBVIOUS
<1>3. IsFiniteSet(ranks)
  <2> HIDE DEF f, ranks
  <2> QED
    BY <1>1, <1>2, Images
<1>4. IsFiniteSet(all)
  <2> HIDE DEF ranks
  <2> QED
    BY <1>3, FS_Singleton, FS_Union
<1>5. all \in SUBSET Nat /\ all # {}
  BY <1>1 DEF Item
<1>6. \E m \in all : \A n \in all : n <= m
  <2> HIDE DEF all
  <2> QED
    BY <1>4, <1>5, Greatest
<1>7. \E n \in all : \A i \in d.pending : i.rank <= n
  BY <1>6
<1> QED
  BY <1>5, <1>7 DEF Last

-----------------------------------------------------------------------------
(* What enqueue adds.                                                      *)

Signal == [id : EventId, slot : Slot \cup {None},
           resume : {"started", "failed", None}, important : BOOLEAN]

\* Events that are no gates and that the journal d has never taken, each once.
Novel(d, N) ==
  /\ N \subseteq Signal /\ IsFiniteSet(N)
  /\ \A v \in N : v.slot = None => v.id.kind # "gate" /\ v.id \notin Ids(d)
  /\ \A v, w \in N : v.slot = None /\ w.slot = None /\ v.id = w.id => v = w

\* New events get an item of their own, under an identity that is new.
LEMMA EnqueueFact ==
  ASSUME NEW d, Sound(d), NEW N, Novel(d, N),
         \A x \in Ids(d) : x.kind = "gate" => x.n <= d.sequence,
         NEW e, e = Enqueue(d, N)
  PROVE  /\ Sound(e) /\ Follows(d, e) /\ Ids(d) \subseteq Ids(e)
         /\ \A x \in Ids(e) : \/ x \in Ids(d)
                              \/ x.kind = "gate" /\ x.n <= e.sequence
                              \/ \E v \in N : v.slot = None /\ v.id = x
         /\ e.seen = d.seen /\ e.active = d.active /\ e.exit = d.exit
         /\ e.sequence >= d.sequence
         /\ e.resumed = d.resumed \cup ({v.resume : v \in N} \ {None})
         /\ e.milestones = d.milestones \cup
              {v.id : v \in {x \in N : x.id.kind = "fact" /\ x.id.of \in Milestone}}
<1> DEFINE gates == {v \in N : v.slot # None}
           old == {i \in d.pending : i.slot \in {v.slot : v \in gates}}
           rank == Order(N)
           n == Order(gates)
           item(v) == NewItem(v, Last(d) + rank[v], IF v \in gates THEN d.sequence + n[v] ELSE 0)
           items == {item(v) : v \in N}
           w == Withdraw(d, old)
<1>1. Sound(w) /\ Calm(d, w)
  <2>1. old \in SUBSET d.pending
    OBVIOUS
  <2> HIDE DEF old
  <2> QED
    BY <2>1, WithdrawFact
<1>2. d \in Journal /\ w \in Journal /\ Last(d) \in Nat /\ d.sequence \in Nat
  BY <1>1, LastFact DEF Sound, Journal
<1>3. /\ IsFiniteSet(gates) /\ Cardinality(gates) \in Nat /\ Cardinality(N) \in Nat
      /\ rank \in [N -> 1..Cardinality(N)] /\ n \in [gates -> 1..Cardinality(gates)]
      /\ \A v, x \in gates : v # x => n[v] # n[x]
  <2>1. IsFiniteSet(gates)
    BY FS_Subset DEF Novel
  <2> HIDE DEF gates
  <2> QED
    BY <2>1, OrderFact DEF Novel
<1>4. /\ e.pending = w.pending \cup items
      /\ e.records = w.records /\ e.seen = w.seen /\ e.active = w.active
      /\ e.exit = w.exit /\ e.sequence = w.sequence + Cardinality(gates)
      /\ e.resumed = w.resumed \cup ({v.resume : v \in N} \ {None})
      /\ e.milestones = w.milestones \cup
           {v.id : v \in {x \in N : x.id.kind = "fact" /\ x.id.of \in Milestone}}
  BY <1>2 DEF Enqueue, Journal
<1>5. e = [pending |-> e.pending, records |-> e.records, seen |-> e.seen,
           active |-> e.active, sequence |-> e.sequence, resumed |-> e.resumed,
           milestones |-> e.milestones, exit |-> e.exit]
  BY <1>2 DEF Enqueue, Journal
<1> HIDE DEF rank, n, w, gates, old
<1>6. ASSUME NEW v \in N
      PROVE  /\ item(v) \in Item /\ item(v).attempts = 0 /\ item(v).outcome = "pending"
             /\ v.slot = None => item(v).id = v.id
             /\ v.slot # None => /\ v \in gates /\ n[v] \in Nat /\ 1 <= n[v]
                                 /\ n[v] <= Cardinality(gates)
                                 /\ item(v).id.kind = "gate"
                                 /\ item(v).id.n = d.sequence + n[v]
  <2>1. v \in Signal /\ rank[v] \in Nat /\ Last(d) + rank[v] \in Nat
    BY <1>2, <1>3 DEF Novel
  <2>2. v.slot # None => /\ v \in gates /\ n[v] \in Nat /\ 1 <= n[v]
                         /\ n[v] <= Cardinality(gates)
                         /\ d.sequence + n[v] \in Nat
    BY <1>2, <1>3 DEF gates
  <2>3. v.slot = None => v \notin gates
    BY DEF gates
  <2> QED
    BY <2>1, <2>2, <2>3 DEF NewItem, Item, Outcomes, Signal, EventId, Id
<1> HIDE DEF item
<1>7. ASSUME NEW v \in N PROVE New(d, item(v)) /\ New(w, item(v))
  <2>1. item(v).id \notin Ids(d)
    <3>1. CASE v.slot = None
      BY <1>6, <3>1 DEF Novel
    <3>2. CASE v.slot # None
      BY <1>2, <1>6, <3>2
    <3> QED
      BY <3>1, <3>2
  <2> QED
    BY <1>1, <1>6, <2>1 DEF New, Calm
<1>8. ASSUME NEW v \in N, NEW x \in N, item(v).id = item(x).id PROVE v = x
  <2>1. CASE v.slot = None /\ x.slot = None
    BY <1>6, <1>8, <2>1 DEF Novel
  <2>2. CASE v.slot # None /\ x.slot # None
    <3>1. d.sequence + n[v] = d.sequence + n[x]
      BY <1>6, <1>8, <2>2
    <3>2. n[v] = n[x]
      BY <1>2, <1>6, <2>2, <3>1
    <3> QED
      BY <1>3, <1>6, <2>2, <3>2
  <2>3. CASE (v.slot = None) # (x.slot = None)
    <3>1. \A y \in N : y.slot = None => item(y).id.kind # "gate"
      BY <1>6 DEF Novel
    <3> QED
      BY <1>6, <1>8, <2>3, <3>1
  <2> QED
    BY <2>1, <2>2, <2>3
<1>9. Ids(e) = Ids(w) \cup {i.id : i \in items}
  BY <1>4 DEF Ids
<1>10. Follows(d, e)
  <2>1. Follows(w, e)
    <3>1. \A k \in e.pending : New(w, k) \/ \E i \in w.pending : Same(i, k)
      BY <1>4, <1>7 DEF Same
    <3>2. \A i \in w.pending : Sending(i) => Claimed(e, <<i.owner, i.id>>)
      BY <1>4 DEF Claimed
    <3> QED
      BY <1>9, <3>1, <3>2 DEF Follows
  <2> QED
    BY <1>1, <2>1, FollowsTransitive DEF Calm
<1>11. Sound(e)
  <2>1. e \in Journal
    <3>1. e.pending \subseteq Item /\ e.records \subseteq EventId
      BY <1>2, <1>4, <1>6 DEF Journal
    <3>2. e.sequence \in Nat
      BY <1>2, <1>3, <1>4 DEF Journal
    <3>3. \A v \in N : v.id \in EventId /\ v.resume \in {"started", "failed", None}
      BY DEF Novel, Signal
    <3>4. e.resumed \subseteq {"started", "failed"} /\ e.milestones \subseteq EventId
      BY <1>2, <1>4, <3>3 DEF Journal
    <3> QED
      BY <1>2, <1>4, <1>5, <3>1, <3>2, <3>4 DEF Journal
  <2>2. IsFiniteSet(e.pending)
    <3> DEFINE f == [v \in N |-> item(v)]
    <3>1. DOMAIN f = N /\ items = {f[v] : v \in N}
      OBVIOUS
    <3>2. IsFiniteSet(items)
      <4> HIDE DEF f, items
      <4> QED
        BY <3>1, Images DEF Novel
    <3>3. IsFiniteSet(w.pending)
      BY <1>1 DEF Sound
    <3>4. IsFiniteSet(w.pending \cup items)
      <4> HIDE DEF f, items
      <4> QED
        BY <3>2, <3>3, FS_Union
    <3> QED
      BY <1>4, <3>4
  <2>3. ASSUME NEW k \in e.pending
        PROVE  /\ k.attempts <= MaxAttempts /\ k.id \notin e.records
               /\ Sending(k) => k.owner \in Sender
    <3>1. CASE k \in w.pending
      BY <1>1, <1>4, <3>1 DEF Sound
    <3>2. ASSUME NEW v \in N, k = item(v)
          PROVE  k.attempts = 0 /\ k.id \notin e.records /\ ~Sending(k)
      BY <1>4, <1>6, <1>7, <3>2 DEF New, Ids, Sending
    <3>3. 0 <= MaxAttempts
      BY BoundaryAssumption
    <3> QED
      BY <1>4, <3>1, <3>2, <3>3
  <2>4. ASSUME NEW k \in e.pending, NEW m \in e.pending,
               k.id = m.id \/ (Sending(k) /\ Sending(m))
        PROVE  k = m
    <3>1. CASE k \in w.pending /\ m \in w.pending
      BY <1>1, <2>4, <3>1 DEF Sound
    <3>2. CASE k \in items /\ m \in items
      BY <1>6, <1>8, <2>4, <3>2 DEF Sending
    <3>3. CASE (k \in items /\ m \in w.pending) \/ (k \in w.pending /\ m \in items)
      BY <1>6, <1>7, <2>4, <3>3 DEF Sending, New, Ids
    <3> QED
      BY <1>4, <3>1, <3>2, <3>3
  <2> QED
    BY <2>1, <2>2, <2>3, <2>4 DEF Sound
<1>12. ASSUME NEW x \in Ids(e)
       PROVE  \/ x \in Ids(d)
              \/ x.kind = "gate" /\ x.n <= e.sequence
              \/ \E v \in N : v.slot = None /\ v.id = x
  <2>1. CASE x \in Ids(w)
    BY <1>1, <2>1 DEF Calm
  <2>2. ASSUME NEW v \in N, x = item(v).id, v.slot # None
        PROVE  x.kind = "gate" /\ x.n <= e.sequence
    <3>1. w.sequence = d.sequence
      BY <1>1 DEF Calm
    <3> QED
      BY <1>2, <1>3, <1>4, <1>6, <2>2, <3>1
  <2>3. ASSUME NEW v \in N, x = item(v).id, v.slot = None
        PROVE  v.id = x
    BY <1>6, <2>3
  <2> QED
    BY <1>9, <2>1, <2>2, <2>3
<1> QED
  BY <1>1, <1>2, <1>3, <1>4, <1>9, <1>10, <1>11, <1>12 DEF Calm

-----------------------------------------------------------------------------
(* An observation.                                                         *)

\* What a sender projects: gates that are up, facts that are shown, the result
\* of its Resume and the exit of the Executor, each event once.
LEMMA ProjectedFact ==
  ASSUME NEW d, d.exit \in Nat, RunInv, NEW r \in Outcome, NEW E, E = Projected(d, r)
  PROVE  /\ E \subseteq Signal /\ IsFiniteSet(E)
         /\ \A v \in E :
              \/ v.slot \in run.up
              \/ /\ v.slot = None
                 /\ \/ \E f \in run.shown : v.id = Id("fact", f, 0) /\ v.resume = None
                    \/ /\ r # None /\ v.id = Id("resume", r.outcome, 0)
                       /\ v.resume = r.outcome
                    \/ /\ v.id = Id("exit", None, d.exit) /\ v.resume = None
                       /\ d.exit # 0 /\ ExitCurrent(d.exit)
         /\ \A v, w \in E : v.slot = None /\ w.slot = None /\ v.id = w.id => v = w
         /\ \A f \in run.shown : \E v \in E : v.slot = None /\ v.id = Id("fact", f, 0)
         /\ d.exit # 0 /\ ExitCurrent(d.exit)
              => \E v \in E : v.slot = None /\ v.id = Id("exit", None, d.exit)
<1> DEFINE fact(f) == Event(Id("fact", f, 0), None, None, FALSE)
           gate(g) == Event(Id("gate", g, 0), g, IF g \in Bearers(r) THEN r.outcome ELSE None, TRUE)
           facts == {fact(f) : f \in run.shown}
           gates == {gate(g) : g \in run.up}
           told == IF r = None \/ Bearers(r) # {} THEN {}
                   ELSE {Event(Id("resume", r.outcome, 0), None, r.outcome, r.outcome = "failed")}
           exits == IF d.exit = 0 \/ ~ExitCurrent(d.exit) THEN {}
                    ELSE {Event(Id("exit", None, d.exit), None, None, TRUE)}
<1>1. E = facts \cup gates \cup told \cup exits
  BY DEF Projected
<1>2. /\ run.shown \subseteq Fact /\ run.up \subseteq Slot
      /\ r # None => r.outcome \in {"started", "failed"}
  BY DEF RunInv, Outcome
<1>3. r = None => Bearers(r) = {}
  BY DEF Bearers
<1>4. \A f \in run.shown : /\ fact(f) \in Signal /\ fact(f).slot = None
                           /\ fact(f).id = Id("fact", f, 0) /\ fact(f).resume = None
  BY <1>2 DEF Event, Signal, EventId, Id
<1>5. \A g \in run.up : gate(g) \in Signal /\ gate(g).slot = g /\ gate(g).slot # None
  BY <1>2, <1>3, BoundaryAssumption DEF Event, Signal, EventId, Id
<1>6. \A v \in told : /\ r # None /\ v \in Signal /\ v.slot = None
                      /\ v.id = Id("resume", r.outcome, 0) /\ v.resume = r.outcome
  <2> DEFINE important == r.outcome = "failed"
  <2>1. important \in BOOLEAN
    OBVIOUS
  <2>2. \A v \in told : /\ r # None
                        /\ v = Event(Id("resume", r.outcome, 0), None, r.outcome, important)
    OBVIOUS
  <2> HIDE DEF important, told
  <2>3. r # None => Id("resume", r.outcome, 0) \in EventId
    BY <1>2 DEF EventId, Id
  <2> QED
    BY <1>2, <2>1, <2>2, <2>3 DEF Event, Signal
<1>7. \A v \in exits : /\ v \in Signal /\ v.slot = None /\ v.id = Id("exit", None, d.exit)
                       /\ v.resume = None /\ d.exit # 0 /\ ExitCurrent(d.exit)
  <2>1. Id("exit", None, d.exit) \in EventId
    BY DEF EventId, Id
  <2>2. \A v \in exits : /\ d.exit # 0 /\ ExitCurrent(d.exit)
                         /\ v = Event(Id("exit", None, d.exit), None, None, TRUE)
    OBVIOUS
  <2>3. LET v == Event(Id("exit", None, d.exit), None, None, TRUE) IN
        v \in Signal /\ v.slot = None /\ v.id = Id("exit", None, d.exit) /\ v.resume = None
    BY <2>1 DEF Event, Signal
  <2> HIDE DEF exits
  <2> QED
    BY <2>2, <2>3
<1>8. d.exit # 0 /\ ExitCurrent(d.exit) => exits # {}
  OBVIOUS
<1>9. IsFiniteSet(facts) /\ IsFiniteSet(gates)
  <2> DEFINE ff == [f \in run.shown |-> fact(f)]
             gg == [g \in run.up |-> gate(g)]
  <2>1. /\ DOMAIN ff = run.shown /\ facts = {ff[f] : f \in run.shown}
        /\ DOMAIN gg = run.up /\ gates = {gg[g] : g \in run.up}
    OBVIOUS
  <2>2. IsFiniteSet(run.shown) /\ IsFiniteSet(run.up)
    BY <1>2, BoundaryAssumption, FS_Subset
  <2> HIDE DEF ff, gg, facts, gates
  <2> QED
    BY <2>1, <2>2, Images
<1>10. IsFiniteSet(told) /\ IsFiniteSet(exits)
  BY FS_Singleton, FS_EmptySet
<1>11. ASSUME NEW v \in facts PROVE \E f \in run.shown : v = fact(f)
  OBVIOUS
<1>12. ASSUME NEW v \in gates PROVE v \in Signal /\ v.slot \in run.up /\ v.slot # None
  BY <1>5
<1>13. \A f \in run.shown : fact(f) \in facts
  OBVIOUS
<1>14. \A v, w \in told : v = w
  OBVIOUS
<1>15. \A v, w \in exits : v = w
  OBVIOUS
<1> HIDE DEF fact, facts, gates, told, exits
<1>16. E \subseteq Signal /\ IsFiniteSet(E)
  <2>1. E \subseteq Signal
    BY <1>1, <1>4, <1>6, <1>7, <1>11, <1>12
  <2>2. IsFiniteSet((facts \cup gates) \cup (told \cup exits))
    BY <1>9, <1>10, FS_Union
  <2>3. (facts \cup gates) \cup (told \cup exits) = E
    BY <1>1
  <2> QED
    BY <2>1, <2>2, <2>3
<1>17. ASSUME NEW v \in E, NEW w \in E, v.slot = None, w.slot = None, v.id = w.id
       PROVE  v = w
  <2>1. v \notin gates /\ w \notin gates
    BY <1>12, <1>17
  <2>2. \A x \in E \ gates : /\ x \in facts <=> x.id.kind = "fact"
                             /\ x \in told <=> x.id.kind = "resume"
                             /\ x \in exits <=> x.id.kind = "exit"
    <3>1. \A x \in facts : x.id.kind = "fact"
      <4>1. ASSUME NEW x \in facts PROVE x.id.kind = "fact"
        <5>1. PICK f \in run.shown : x = fact(f)
          BY <1>11
        <5>2. x.id = Id("fact", f, 0)
          BY <1>4, <5>1
        <5> QED
          BY <5>2 DEF Id
      <4> QED
        BY <4>1
    <3>2. \A x \in told : x.id.kind = "resume"
      BY <1>6 DEF Id
    <3>3. \A x \in exits : x.id.kind = "exit"
      BY <1>7 DEF Id
    <3> QED
      BY <1>1, <3>1, <3>2, <3>3
  <2>3. CASE v \in facts
    <3>1. PICK f \in run.shown : v = fact(f)
      BY <2>3, <1>11
    <3>2. PICK h \in run.shown : w = fact(h)
      BY <1>17, <2>1, <2>2, <2>3, <1>11
    <3>3. Id("fact", f, 0) = Id("fact", h, 0)
      BY <1>4, <1>17, <3>1, <3>2
    <3>4. f = h
      BY <3>3 DEF Id
    <3> QED
      BY <3>1, <3>2, <3>4
  <2> QED
    BY <1>1, <1>14, <1>15, <1>17, <2>1, <2>2, <2>3
<1>18. ASSUME NEW v \in E
       PROVE  \/ v.slot \in run.up
              \/ /\ v.slot = None
                 /\ \/ \E f \in run.shown : v.id = Id("fact", f, 0) /\ v.resume = None
                    \/ /\ r # None /\ v.id = Id("resume", r.outcome, 0)
                       /\ v.resume = r.outcome
                    \/ /\ v.id = Id("exit", None, d.exit) /\ v.resume = None
                       /\ d.exit # 0 /\ ExitCurrent(d.exit)
  BY <1>1, <1>4, <1>6, <1>7, <1>11, <1>12
<1>19. \A f \in run.shown : \E v \in E : v.slot = None /\ v.id = Id("fact", f, 0)
  BY <1>1, <1>4, <1>13
<1>20. d.exit # 0 /\ ExitCurrent(d.exit)
         => \E v \in E : v.slot = None /\ v.id = Id("exit", None, d.exit)
  BY <1>1, <1>7, <1>8
<1> QED
  BY <1>16, <1>17, <1>18, <1>19, <1>20

\* Told looks at the identities, the marks and the last exit of a journal only.
LEMMA CalmTold ==
  ASSUME NEW d, NEW e, Told(d), Calm(d, e)
  PROVE  Told(e)
BY DEF Told, ToldFact, ToldExit, Calm

\* No projected event that is not known is in the journal.
LEMMA NovelFact ==
  ASSUME NEW d, NEW E, NEW r \in Outcome, Told(d), RunInv, d.exit \in Nat, E = Projected(d, r)
  PROVE  Novel(d, {v \in E : ~Known(d, v)})
<1> DEFINE N == {v \in E : ~Known(d, v)}
<1>1. N \subseteq Signal /\ IsFiniteSet(N)
  BY ProjectedFact, FS_Subset
<1>2. ASSUME NEW v \in N, v.slot = None
      PROVE  v.id.kind # "gate" /\ v.id \notin Ids(d)
  <2>1. /\ v.resume # None => v.resume \notin d.resumed
        /\ v.id \notin d.seen /\ v.id \notin d.milestones
    BY <1>2 DEF Known
  <2>2. None \notin run.up
    BY BoundaryAssumption DEF RunInv
  <2>3. ASSUME NEW f \in run.shown, v.id = Id("fact", f, 0)
        PROVE  v.id.kind # "gate" /\ v.id \notin Ids(d)
    <3>1. v.id.kind = "fact" /\ v.id.of = f
      BY <2>3 DEF Id
    <3>2. f \in run.rolled => f \in Milestone
      BY DEF RunInv
    <3> QED
      BY <2>1, <3>1, <3>2 DEF Told, ToldFact
  <2>4. ASSUME r # None, v.id = Id("resume", r.outcome, 0), v.resume = r.outcome
        PROVE  v.id.kind # "gate" /\ v.id \notin Ids(d)
    <3>1. v.id.kind = "resume" /\ v.id.of = r.outcome
      BY <2>4 DEF Id
    <3>2. r.outcome # None
      BY <2>4, BoundaryAssumption DEF Outcome
    <3> QED
      BY <2>1, <2>4, <3>1, <3>2 DEF Told
  <2>5. ASSUME v.id = Id("exit", None, d.exit), ExitCurrent(d.exit)
        PROVE  v.id.kind # "gate" /\ v.id \notin Ids(d)
    <3>1. v.id.kind = "exit" /\ v.id.n = d.exit
      BY <2>5 DEF Id
    <3> QED
      BY <2>1, <2>5, <3>1 DEF Told, ToldExit
  <2> QED
    BY <1>2, <2>2, <2>3, <2>4, <2>5, ProjectedFact
<1>3. \A v, w \in N : v.slot = None /\ w.slot = None /\ v.id = w.id => v = w
  BY ProjectedFact
<1> QED
  BY <1>1, <1>2, <1>3 DEF Novel

\* The marks that an observation leaves tell of all it enqueued, and of what was
\* told before.
LEMMA MarksFact ==
  ASSUME NEW d, Told(d), RunInv, d.exit \in Nat, d.sequence \in Nat,
         NEW r \in Outcome, NEW E, E = Projected(d, r),
         NEW N \in SUBSET E,
         NEW f, f.exit = d.exit, f.sequence \in Nat, f.sequence >= d.sequence,
         d.resumed \subseteq f.resumed, d.milestones \subseteq f.milestones,
         \A v \in E : v.slot = None => v.id \in f.seen,
         \A v \in N : /\ v.resume # None => v.resume \in f.resumed
                      /\ v.id.kind = "fact" /\ v.id.of \in Milestone
                           => v.id \in f.milestones,
         \A x \in Ids(d) : x.kind = "gate" => x.n \in Nat,
         \A x \in Ids(f) : \/ x \in Ids(d)
                           \/ x.kind = "gate" /\ x.n <= f.sequence
                           \/ \E v \in N : v.slot = None /\ v.id = x
  PROVE  Told(f)
<1>1. None \notin run.up
  BY BoundaryAssumption DEF RunInv
<1>2. ASSUME NEW x \in Ids(d)
      PROVE  /\ x.kind = "fact" => ToldFact(f, x)
             /\ x.kind = "gate" => x.n <= f.sequence
             /\ x.kind = "resume" => x.of \in f.resumed
             /\ x.kind = "exit" => ToldExit(f, x)
  <2>1. ASSUME x.kind = "fact" PROVE ToldFact(f, x)
    <3>1. ToldFact(d, x)
      BY <2>1 DEF Told
    <3>2. x.of \in run.shown => x \in f.seen
      <4>1. x.of \in run.shown => \E v \in E : v.slot = None /\ v.id = Id("fact", x.of, 0)
        BY ProjectedFact
      <4> QED
        BY <3>1, <4>1 DEF ToldFact
    <3> QED
      BY <3>1, <3>2 DEF ToldFact
  <2>2. x.kind = "gate" => x.n <= f.sequence
    BY DEF Told
  <2>3. x.kind = "resume" => x.of \in f.resumed
    BY DEF Told
  <2>4. ASSUME x.kind = "exit" PROVE ToldExit(f, x)
    <3>1. ToldExit(d, x)
      BY <2>4 DEF Told
    <3>2. ASSUME ExitCurrent(x.n) PROVE x \in f.seen /\ f.exit = x.n
      <4>1. d.exit = x.n /\ x.n # 0
        BY <3>1, <3>2 DEF ToldExit
      <4>2. \E v \in E : v.slot = None /\ v.id = Id("exit", None, d.exit)
        BY <3>2, <4>1, ProjectedFact
      <4> QED
        BY <3>1, <4>1, <4>2 DEF ToldExit
    <3> QED
      BY <3>1, <3>2 DEF ToldExit
  <2> QED
    BY <2>1, <2>2, <2>3, <2>4
<1>3. ASSUME NEW v \in N, v.slot = None, NEW x, x = v.id
      PROVE  /\ x.kind = "fact" => ToldFact(f, x)
             /\ x.kind = "gate" => x.n <= f.sequence
             /\ x.kind = "resume" => x.of \in f.resumed
             /\ x.kind = "exit" => ToldExit(f, x)
  <2>1. v \in E /\ x \in f.seen
    BY <1>3
  <2>2. ASSUME NEW g \in run.shown, x = Id("fact", g, 0)
        PROVE  x.kind = "fact" /\ ToldFact(f, x)
    <3>1. x.kind = "fact" /\ x.of = g
      BY <2>2 DEF Id
    <3>2. g \in Milestone => x \in f.milestones
      BY <1>3, <3>1
    <3> QED
      BY <2>1, <2>2, <3>1, <3>2 DEF ToldFact
  <2>3. ASSUME r # None, x = Id("resume", r.outcome, 0), v.resume = r.outcome
        PROVE  x.kind = "resume" /\ x.of \in f.resumed
    <3>1. x.kind = "resume" /\ x.of = r.outcome
      BY <2>3 DEF Id
    <3>2. r.outcome # None
      BY <2>3, BoundaryAssumption DEF Outcome
    <3> QED
      BY <1>3, <2>3, <3>1, <3>2
  <2>4. ASSUME x = Id("exit", None, d.exit), d.exit # 0, ExitCurrent(d.exit)
        PROVE  x.kind = "exit" /\ ToldExit(f, x)
    <3>1. x.kind = "exit" /\ x.n = d.exit
      BY <2>4 DEF Id
    <3>2. x.n \in 1..session.gen
      BY <2>4, <3>1 DEF ExitCurrent, RunInv
    <3> QED
      BY <2>1, <2>4, <3>1, <3>2 DEF ToldExit
  <2> QED
    BY <1>1, <1>3, <2>1, <2>2, <2>3, <2>4, ProjectedFact
<1> QED
  BY <1>2, <1>3 DEF Told

\* What an observation is made of.
LEMMA ObservedForm ==
  ASSUME NEW d, NEW r, NEW recovering, NEW e \in Observed(d, r, recovering),
         NEW now, now = Settled(d), NEW E, E = Projected(d, r),
         NEW N, N = {v \in E : ~Known(now, v)},
         NEW left, left = Withdraw(now, Outdated(now, E)),
         NEW f, f = Taken(left, E, N)
  PROVE  \E again, added : e = Bounded(Compressed(f, r, again, added))
<1> DEFINE Out(x, y, z, l) ==
      {Bounded(c) : c \in
        {Compressed(g, r, recovering /\ x.pending # {}, z # {}) : g \in {Taken(l, y, z)}}}
<1>1. Observed(d, r, recovering) =
        UNION {UNION {Out(x, y, z, l) : z \in {{v \in y : ~Known(x, v)}},
                                        l \in {Withdraw(x, Outdated(x, y))}}
                : x \in {Settled(d)}, y \in {Projected(d, r)}}
  BY DEF Observed
<1>2. e \in Out(now, E, N, left)
  <2> HIDE DEF Out
  <2> QED
    BY <1>1
<1>3. \E g : g = f /\ e = Bounded(Compressed(g, r, recovering /\ now.pending # {}, N # {}))
  BY <1>2
<1> QED
  BY <1>3

\* What an observation has taken, before it makes room: all of it is told.
LEMMA TakenFact ==
  ASSUME NEW d, Sound(d), Told(d), RunInv, NEW r \in Outcome
  PROVE  LET now == Settled(d)
             E == Projected(d, r)
             N == {v \in E : ~Known(now, v)}
             left == Withdraw(now, Outdated(now, E))
             f == Taken(left, E, N)
         IN  /\ Sound(now) /\ Sound(left) /\ Sound(f) /\ Follows(d, f) /\ Told(f)
             /\ f.pending = Enqueue(left, N).pending /\ f.active = run.up
<1> DEFINE now == Settled(d)
           E == Projected(d, r)
           N == {v \in E : ~Known(now, v)}
           old == Outdated(now, E)
           left == Withdraw(now, old)
           q == Enqueue(left, N)
           f == Taken(left, E, N)
<1>1. Sound(now) /\ Calm(d, now)
  BY SettledFact
<1>2. Sound(left) /\ Calm(now, left)
  <2>1. old \in SUBSET now.pending
    BY DEF Outdated
  <2> HIDE DEF old, now
  <2> QED
    BY <1>1, <2>1, WithdrawFact
<1>3. Calm(d, left)
  <2> HIDE DEF left, now
  <2> QED
    BY <1>1, <1>2, CalmTransitive
<1> HIDE DEF now, E, N, old, left, q, f
<1>4. Told(left) /\ d.exit \in Nat /\ left.exit = d.exit /\ left.sequence = d.sequence
  BY <1>3, CalmTold DEF Calm, Sound, Journal
<1>5. E = Projected(left, r) /\ N = {v \in E : ~Known(left, v)}
  <2>1. E = Projected(left, r)
    BY <1>4 DEF E, Projected
  <2>2. \A v : Known(left, v) <=> Known(now, v)
    BY <1>2 DEF Known, Calm
  <2> QED
    BY <2>1, <2>2 DEF N
<1>6. Novel(left, N)
  <2>1. Novel(left, {v \in E : ~Known(left, v)})
    BY <1>4, <1>5, NovelFact
  <2> QED
    BY <1>5, <2>1
<1>7. /\ Sound(q) /\ Follows(left, q)
      /\ \A x \in Ids(q) : \/ x \in Ids(left)
                           \/ x.kind = "gate" /\ x.n <= q.sequence
                           \/ \E v \in N : v.slot = None /\ v.id = x
      /\ q.exit = left.exit /\ q.sequence >= left.sequence
      /\ q.resumed = left.resumed \cup ({v.resume : v \in N} \ {None})
      /\ q.milestones = left.milestones \cup
           {v.id : v \in {x \in N : x.id.kind = "fact" /\ x.id.of \in Milestone}}
  BY <1>2, <1>4, <1>6, EnqueueFact DEF Told, q
<1>8. /\ f.pending = q.pending /\ f.records = q.records /\ f.exit = q.exit
      /\ f.sequence = q.sequence /\ f.resumed = q.resumed /\ f.milestones = q.milestones
      /\ f.seen = {v.id : v \in {x \in E : x.slot = None}} /\ f.active = run.up
      /\ DOMAIN f = DOMAIN q /\ q \in Journal
  BY <1>7 DEF f, q, Taken, Sound, Journal
<1>9. Sound(f) /\ Follows(left, f) /\ Ids(f) = Ids(q)
  <2>1. f.seen \subseteq EventId /\ f.active \subseteq Slot
    <3>1. \A v \in E : v.id \in EventId
      BY <1>4, ProjectedFact DEF E, Signal
    <3> QED
      BY <1>8, <3>1 DEF RunInv
  <2>2. f \in Journal
    BY <1>8, <2>1 DEF Journal, Taken, f
  <2> QED
    BY <1>7, <1>8, <2>2 DEF Sound, Follows, Ids, New, Claimed
<1>10. Told(f)
  <2>1. /\ f.exit = left.exit /\ left.exit \in Nat /\ left.sequence \in Nat
        /\ f.sequence \in Nat /\ f.sequence >= left.sequence
    BY <1>2, <1>4, <1>7, <1>8 DEF Sound, Journal
  <2>2. \A x \in Ids(left) : x.kind = "gate" => x.n \in Nat
    BY <1>2 DEF Sound, Journal, Ids, Item, EventId
  <2>3. \A x \in Ids(f) : \/ x \in Ids(left)
                          \/ x.kind = "gate" /\ x.n <= f.sequence
                          \/ \E v \in N : v.slot = None /\ v.id = x
    BY <1>7, <1>8, <1>9
  <2>4. /\ left.resumed \subseteq f.resumed /\ left.milestones \subseteq f.milestones
        /\ \A v \in E : v.slot = None => v.id \in f.seen
        /\ \A v \in N : /\ v.resume # None => v.resume \in f.resumed
                        /\ v.id.kind = "fact" /\ v.id.of \in Milestone
                             => v.id \in f.milestones
    BY <1>7, <1>8
  <2>5. N \in SUBSET E
    BY <1>5
  <2> QED
    BY <1>4, <1>5, <2>1, <2>2, <2>3, <2>4, <2>5, MarksFact
<1>11. Follows(d, f)
  BY <1>3, <1>9, FollowsTransitive DEF Calm
<1>12. f.pending = Enqueue(left, N).pending /\ f.active = run.up
  BY <1>8 DEF q
<1> QED
  BY <1>1, <1>2, <1>9, <1>10, <1>11, <1>12 DEF now, E, N, old, left, f

\* An observation keeps the journal sound, forgets nothing and tells all it added.
LEMMA ObservedFact ==
  ASSUME NEW d, Sound(d), Told(d), RunInv, NEW r \in Outcome, NEW recovering,
         NEW e \in Observed(d, r, recovering)
  PROVE  Sound(e) /\ Follows(d, e) /\ Told(e)
<1> DEFINE now == Settled(d)
           E == Projected(d, r)
           N == {v \in E : ~Known(now, v)}
           left == Withdraw(now, Outdated(now, E))
           f == Taken(left, E, N)
<1>1. /\ now = Settled(d) /\ E = Projected(d, r) /\ N = {v \in E : ~Known(now, v)}
      /\ left = Withdraw(now, Outdated(now, E))
      /\ f = Taken(left, E, N)
  OBVIOUS
<1>2. Sound(f) /\ Follows(d, f) /\ Told(f)
  BY TakenFact
<1> HIDE DEF now, E, N, left, f
<1>3. PICK again, added : e = Bounded(Compressed(f, r, again, added))
  BY <1>1, ObservedForm
<1> DEFINE c == Compressed(f, r, again, added)
<1>4. Sound(c) /\ Calm(f, c)
  BY <1>2, CompressedFact
<1>5. e = Bounded(c)
  BY <1>3
<1> HIDE DEF c
<1>6. Sound(e) /\ Calm(c, e)
  BY <1>4, <1>5, BoundedFact
<1>7. Calm(f, e)
  BY <1>4, <1>6, CalmTransitive
<1> QED
  BY <1>2, <1>6, <1>7, CalmTold, FollowsTransitive DEF Calm

-----------------------------------------------------------------------------
(* Steps.                                                                  *)

\* No item is tried once more in this step.
Untried ==
  \A i \in journal.pending, k \in journal'.pending : i.id = k.id => k.attempts = i.attempts

\* An item is tried again only if that is no second telling of progress.
NotReplayed ==
  \A i \in journal.pending, j \in journal'.pending :
    i.id = j.id /\ j.attempts > i.attempts /\ ~i.important => i.outcome \in {"pending", "failed"}

\* A journal that follows tries nothing.
LEMMA FollowsUntried ==
  ASSUME Sound(journal), Follows(journal, journal')
  PROVE  Untried
<1> SUFFICES ASSUME NEW i \in journal.pending, NEW k \in journal'.pending, i.id = k.id
             PROVE  k.attempts = i.attempts
  BY DEF Untried
<1>1. ~New(journal, k)
  BY DEF New, Ids
<1>2. PICK j \in journal.pending : Same(j, k)
  BY <1>1 DEF Follows
<1> QED
  BY <1>2 DEF Same, Sound

\* What the journal has told stays told while the Run goes on.
LEMMA ToldStep ==
  ASSUME Told(journal), Ids(journal)' = Ids(journal),
         journal'.seen = journal.seen, journal'.sequence = journal.sequence,
         journal'.resumed = journal.resumed, journal'.milestones = journal.milestones,
         session.gen \in Nat, session'.gen \in Nat, session'.gen >= session.gen,
         run.rolled \subseteq run'.rolled, run.shown \ run'.shown \subseteq run'.rolled,
         \A n \in 1..session.gen : ExitCurrent(n)' =>
           ExitCurrent(n) /\ (journal.exit = n => journal'.exit = n)
  PROVE  Told(journal)'
<1> SUFFICES ASSUME NEW x \in Ids(journal)
             PROVE  /\ x.kind = "fact" => ToldFact(journal, x)'
                    /\ x.kind = "gate" => x.n <= journal'.sequence
                    /\ x.kind = "resume" => x.of \in journal'.resumed
                    /\ x.kind = "exit" => ToldExit(journal, x)'
  BY DEF Told
<1>1. x.kind = "fact" => ToldFact(journal, x)'
  BY DEF Told, ToldFact
<1>2. ASSUME x.kind = "exit" PROVE ToldExit(journal, x)'
  <2>1. /\ x = Id("exit", None, x.n) /\ x.n \in 1..session.gen
        /\ ExitCurrent(x.n) => x \in journal.seen /\ journal.exit = x.n
    BY <1>2 DEF Told, ToldExit
  <2>2. x.n \in 1..session'.gen
    BY <2>1
  <2>3. ExitCurrent(x.n)' => x \in journal'.seen /\ journal'.exit = x.n
    BY <2>1
  <2> QED
    BY <2>1, <2>2, <2>3 DEF ToldExit, Id
<1> QED
  BY <1>1, <1>2 DEF Told

\* One sender changes; the claims that are still needed stand.
LEMMA SenderStep ==
  ASSUME SenderInv, Sound(journal), NEW s \in Sender, NEW y \in Process,
         sender' = [sender EXCEPT ![s] = y],
         y.thread # "none" => y.proc \in {"open", "closing", "closed"},
         y.thread \in {"check", "sent"} => Transporting(s) /\ y.item = sender[s].item,
         \A i \in journal.pending :
           Sending(i) /\ Alive(i.owner) /\ (i.owner = s => y.thread \in {"check", "sent"})
             => Claimed(journal', <<i.owner, i.id>>)
  PROVE  SenderInv'
<1>1. sender' \in [Sender -> Process] /\ sender'[s] = y
      /\ \A t \in Sender \ {s} : sender'[t] = sender[t]
  BY DEF SenderInv
<1>2. ASSUME NEW t \in Sender, sender'[t].thread # "none"
      PROVE  Alive(t)'
  BY <1>1, <1>2 DEF SenderInv, Alive
<1>3. ASSUME NEW t \in Sender, Transporting(t)'
      PROVE  Claimed(journal', <<t, sender'[t].item>>)
  <2>1. /\ Transporting(t) /\ sender'[t].item = sender[t].item /\ Alive(t)
        /\ t = s => y.thread \in {"check", "sent"}
    BY <1>1, <1>3 DEF SenderInv, Transporting
  <2>2. PICK i \in journal.pending : Sending(i) /\ i.owner = t /\ i.id = sender[t].item
    BY <2>1 DEF SenderInv, Claimed
  <2> QED
    BY <2>1, <2>2
<1>4. \A t \in Sender : Transporting(t)' => Claimed(journal, <<t, sender[t].item>>)'
  BY <1>3 DEF Claimed, Sending
<1> QED
  BY <1>1, <1>2, <1>4 DEF SenderInv

\* No sender changes.
LEMMA NoSenderStep ==
  ASSUME SenderInv, Follows(journal, journal'), sender' = sender
  PROVE  SenderInv'
<1>1. ASSUME NEW t \in Sender, Transporting(t)'
      PROVE  Claimed(journal', <<t, sender[t].item>>)
  <2>1. Transporting(t) /\ Alive(t)
    BY <1>1 DEF SenderInv, Transporting
  <2>2. PICK i \in journal.pending : Sending(i) /\ i.owner = t /\ i.id = sender[t].item
    BY <2>1 DEF SenderInv, Claimed
  <2> QED
    BY <2>1, <2>2 DEF Follows
<1>2. \A t \in Sender : Transporting(t)' => Claimed(journal, <<t, sender[t].item>>)'
  BY <1>1 DEF Claimed, Sending
<1> QED
  BY <1>2 DEF SenderInv, Alive

\* Journal e is d, whose items get other outcomes, none of them that of a claim.
Retold(i, k) == k = i \/ \E o \in Outcomes \ {"sending"} : k = [i EXCEPT !.outcome = o]
Rewrites(d, e, M) ==
  /\ DOMAIN e = DOMAIN d /\ e = [d EXCEPT !.pending = e.pending]
  /\ DOMAIN M = d.pending /\ e.pending = {M[i] : i \in d.pending}
  /\ \A i \in d.pending : Retold(i, M[i])

\* A journal whose items get other outcomes is sound, and no item is tried.
LEMMA OutcomeFact ==
  ASSUME NEW d, Sound(d), NEW e, NEW M, Rewrites(d, e, M)
  PROVE  /\ Sound(e) /\ Ids(e) = Ids(d)
         /\ e.seen = d.seen /\ e.sequence = d.sequence /\ e.resumed = d.resumed
         /\ e.milestones = d.milestones /\ e.exit = d.exit
         /\ \A i \in d.pending, k \in e.pending : i.id = k.id => k.attempts = i.attempts
<1>1. d \in Journal /\ d.pending \in SUBSET Item
  BY DEF Sound, Journal
<1>2. \A i \in d.pending : /\ M[i] \in Item /\ M[i].id = i.id /\ M[i].attempts = i.attempts
                           /\ Sending(M[i]) => M[i] = i
  <2> SUFFICES ASSUME NEW i \in d.pending
               PROVE  /\ M[i] \in Item /\ M[i].id = i.id /\ M[i].attempts = i.attempts
                      /\ Sending(M[i]) => M[i] = i
    OBVIOUS
  <2>1. ASSUME NEW o \in Outcomes, o # "sending", NEW k, k = [i EXCEPT !.outcome = o]
        PROVE  k \in Item /\ k.id = i.id /\ k.attempts = i.attempts /\ ~Sending(k)
    BY <1>1, <2>1 DEF Item, Sending
  <2>2. CASE M[i] = i
    BY <1>1, <2>2
  <2>3. CASE M[i] # i
    <3>1. PICK o \in Outcomes : o # "sending" /\ M[i] = [i EXCEPT !.outcome = o]
      BY <2>3 DEF Rewrites, Retold
    <3> QED
      BY <2>1, <3>1
  <2> QED
    BY <2>2, <2>3
<1>3. /\ e.seen = d.seen /\ e.sequence = d.sequence /\ e.resumed = d.resumed
      /\ e.milestones = d.milestones /\ e.exit = d.exit /\ e.records = d.records
  BY <1>1 DEF Journal, Rewrites
<1>4. e \in Journal
  <2>1. e.pending \in SUBSET Item
    BY <1>2 DEF Rewrites
  <2> QED
    BY <1>1, <2>1 DEF Journal, Rewrites
<1>5. IsFiniteSet(e.pending)
  BY Images DEF Sound, Rewrites
<1>6. Ids(e) = Ids(d)
  BY <1>2, <1>3 DEF Ids, Rewrites
<1>7. \A k, m \in e.pending : k.id = m.id \/ (Sending(k) /\ Sending(m)) => k = m
  <2> SUFFICES ASSUME NEW i \in d.pending, NEW j \in d.pending,
                      M[i].id = M[j].id \/ (Sending(M[i]) /\ Sending(M[j]))
               PROVE  M[i] = M[j]
    BY DEF Rewrites
  <2> QED
    BY <1>2 DEF Sound
<1>8. \A k \in e.pending : /\ k.attempts <= MaxAttempts /\ k.id \notin e.records
                           /\ Sending(k) => k.owner \in Sender
  BY <1>2, <1>3 DEF Sound, Rewrites
<1>9. \A i \in d.pending, k \in e.pending : i.id = k.id => k.attempts = i.attempts
  BY <1>2 DEF Sound, Rewrites
<1> QED
  BY <1>3, <1>4, <1>5, <1>6, <1>7, <1>8, <1>9 DEF Sound

\* What every step but a claim keeps.
Kept == IInv' /\ Untried

-----------------------------------------------------------------------------
(* The Run, its Executors and their exits.                                 *)

\* An unchanged journal is sound, and follows itself.
LEMMA UnchangedJournal ==
  ASSUME Sound(journal), journal' = journal
  PROVE  Sound(journal)' /\ Follows(journal, journal') /\ Untried
BY FollowsReflexive, FollowsUntried DEF Sound, Sending

\* The Run changes.
LEMMA RunStep ==
  ASSUME IInv, NEW r, Change(r), r \in [up : SUBSET Slot, shown : SUBSET Fact,
                                        rolled : SUBSET Fact, live : Fact \cup {None}],
         r.shown \cap r.rolled \subseteq Milestone,
         run.rolled \subseteq r.rolled, run.shown \ r.shown \subseteq r.rolled
  PROVE  Kept
<1>1. run' = r /\ session' = session /\ journal' = journal /\ sender' = sender
  BY DEF Change
<1>2. RunInv'
  BY <1>1 DEF IInv, RunInv
<1>3. Sound(journal)' /\ Follows(journal, journal') /\ Untried
  BY <1>1, UnchangedJournal DEF IInv
<1>4. Told(journal)'
  <2>1. session.gen \in Nat /\ Ids(journal)' = Ids(journal)
    BY <1>1 DEF IInv, RunInv, Ids
  <2>2. \A n \in 1..session.gen : ExitCurrent(n)' =>
          ExitCurrent(n) /\ (journal.exit = n => journal'.exit = n)
    BY <1>1 DEF ExitCurrent
  <2> QED
    BY <1>1, <2>1, <2>2, ToldStep DEF IInv
<1>5. SenderInv'
  BY <1>1, <1>3, NoSenderStep DEF IInv
<1> QED
  BY <1>2, <1>3, <1>4, <1>5 DEF Kept, IInv

\* A gate or a fact of the Run, or its live round.
LEMMA ChangeKeeps ==
  ASSUME IInv, \/ \E g \in Slot : Raise(g) \/ Clear(g)
               \/ \E f \in Fact : Reach(f) \/ Roll(f)
               \/ EndRound
  PROVE  Kept
<1>1. /\ run \in [up : SUBSET Slot, shown : SUBSET Fact, rolled : SUBSET Fact,
                  live : Fact \cup {None}]
      /\ run.shown \cap run.rolled \subseteq Milestone
  BY DEF IInv, RunInv
<1>2. ASSUME NEW g \in Slot, Raise(g) PROVE Kept
  <2> DEFINE r == [run EXCEPT !.up = @ \cup {g}]
  <2>1. /\ Change(r) /\ r.shown = run.shown /\ r.rolled = run.rolled
        /\ r \in [up : SUBSET Slot, shown : SUBSET Fact, rolled : SUBSET Fact,
                  live : Fact \cup {None}]
    BY <1>1, <1>2 DEF Raise
  <2> HIDE DEF r
  <2> QED
    BY <1>1, <2>1, RunStep
<1>3. ASSUME NEW g \in Slot, Clear(g) PROVE Kept
  <2> DEFINE r == [run EXCEPT !.up = @ \ {g}]
  <2>1. /\ Change(r) /\ r.shown = run.shown /\ r.rolled = run.rolled
        /\ r \in [up : SUBSET Slot, shown : SUBSET Fact, rolled : SUBSET Fact,
                  live : Fact \cup {None}]
    BY <1>1, <1>3 DEF Clear
  <2> HIDE DEF r
  <2> QED
    BY <1>1, <2>1, RunStep
<1>4. ASSUME NEW f \in Fact, Reach(f) PROVE Kept
  <2> DEFINE r == [run EXCEPT !.shown = @ \cup {f}, !.live = f]
  <2>1. /\ Change(r) /\ r.shown = run.shown \cup {f} /\ r.rolled = run.rolled
        /\ r \in [up : SUBSET Slot, shown : SUBSET Fact, rolled : SUBSET Fact,
                  live : Fact \cup {None}]
        /\ f \in run.rolled => f \in Milestone
    BY <1>1, <1>4 DEF Reach
  <2> HIDE DEF r
  <2> QED
    BY <1>1, <2>1, RunStep
<1>5. ASSUME NEW f \in Fact, Roll(f) PROVE Kept
  <2> DEFINE r == [run EXCEPT !.shown = @ \ {f}, !.rolled = @ \cup {f},
                              !.live = IF @ = f THEN None ELSE @]
  <2>1. /\ Change(r) /\ r.shown = run.shown \ {f} /\ r.rolled = run.rolled \cup {f}
        /\ r \in [up : SUBSET Slot, shown : SUBSET Fact, rolled : SUBSET Fact,
                  live : Fact \cup {None}]
    BY <1>1, <1>5 DEF Roll
  <2> HIDE DEF r
  <2> QED
    BY <1>1, <2>1, RunStep
<1>6. ASSUME EndRound PROVE Kept
  <2> DEFINE r == [run EXCEPT !.live = None]
  <2>1. /\ Change(r) /\ r.shown = run.shown /\ r.rolled = run.rolled
        /\ r \in [up : SUBSET Slot, shown : SUBSET Fact, rolled : SUBSET Fact,
                  live : Fact \cup {None}]
    BY <1>1, <1>6 DEF EndRound
  <2> HIDE DEF r
  <2> QED
    BY <1>1, <2>1, RunStep
<1> QED
  BY <1>2, <1>3, <1>4, <1>5, <1>6

\* The claims of the processes whose sender has not changed what it holds.
LEMMA ClaimsKept ==
  ASSUME Follows(journal, journal')
  PROVE  \A i \in journal.pending :
           Sending(i) /\ Alive(i.owner) => Claimed(journal', <<i.owner, i.id>>)
BY DEF Follows

\* A sender changes; of the Run only the session may, and the journal does not.
LEMMA ProcessStep ==
  ASSUME IInv, run' = run, journal' = journal,
         session' \in [gen : Nat, current : BOOLEAN], session'.gen >= session.gen,
         \A n \in 1..session.gen : ExitCurrent(n)' => ExitCurrent(n),
         NEW s \in Sender, NEW y \in Process, sender' = [sender EXCEPT ![s] = y],
         y.thread # "none" => y.proc \in {"open", "closing", "closed"},
         y.thread \in {"check", "sent"} => Transporting(s) /\ y.item = sender[s].item
  PROVE  Kept
<1>1. Sound(journal)' /\ Follows(journal, journal') /\ Untried
  BY UnchangedJournal DEF IInv
<1>2. RunInv'
  BY DEF IInv, RunInv
<1>3. Told(journal)'
  <2>1. /\ session.gen \in Nat /\ session'.gen \in Nat /\ Ids(journal)' = Ids(journal)
        /\ run.shown \ run'.shown \subseteq run'.rolled
    BY DEF IInv, RunInv, Ids
  <2> QED
    BY <2>1, ToldStep DEF IInv
<1>4. SenderInv'
  <2>1. \A i \in journal.pending :
          Sending(i) /\ Alive(i.owner) /\ (i.owner = s => y.thread \in {"check", "sent"})
            => Claimed(journal', <<i.owner, i.id>>)
    BY <1>1, ClaimsKept
  <2> QED
    BY <2>1, SenderStep DEF IInv
<1> QED
  BY <1>1, <1>2, <1>3, <1>4 DEF Kept, IInv

\* The same without a change of the session.
LEMMA PlainStep ==
  ASSUME IInv, UNCHANGED <<run, session, journal>>,
         NEW s \in Sender, NEW y \in Process, sender' = [sender EXCEPT ![s] = y],
         y.thread # "none" => y.proc \in {"open", "closing", "closed"},
         y.thread \in {"check", "sent"} => Transporting(s) /\ y.item = sender[s].item
  PROVE  Kept
<1>1. /\ session' \in [gen : Nat, current : BOOLEAN] /\ session'.gen >= session.gen
      /\ \A n \in 1..session.gen : ExitCurrent(n)' => ExitCurrent(n)
  BY DEF IInv, RunInv, ExitCurrent
<1> QED
  BY <1>1, ProcessStep

\* The exit is no news any more.
LEMMA QuietKeeps ==
  ASSUME IInv, Quiet
  PROVE  Kept
<1>1. run' = run /\ journal' = journal /\ sender' = sender
      /\ session' = [session EXCEPT !.current = FALSE]
  BY DEF Quiet
<1>2. session' \in [gen : Nat, current : BOOLEAN] /\ session'.gen = session.gen
      /\ session'.current = FALSE
  BY <1>1 DEF IInv, RunInv
<1>3. Sound(journal)' /\ Follows(journal, journal') /\ Untried
  BY <1>1, UnchangedJournal DEF IInv
<1>4. RunInv'
  BY <1>1, <1>2 DEF IInv, RunInv
<1>5. Told(journal)'
  <2>1. /\ session.gen \in Nat /\ session'.gen \in Nat /\ session'.gen >= session.gen
        /\ Ids(journal)' = Ids(journal)
    BY <1>1, <1>2 DEF IInv, RunInv, Ids
  <2>2. \A n \in 1..session.gen : ~ExitCurrent(n)'
    BY <1>2 DEF ExitCurrent
  <2> QED
    BY <1>1, <2>1, <2>2, ToldStep DEF IInv
<1>6. SenderInv'
  BY <1>1, <1>3, NoSenderStep DEF IInv
<1> QED
  BY <1>3, <1>4, <1>5, <1>6 DEF Kept, IInv

\* observe_exit: the exit of the current generation is noted once.
LEMMA NoteExitKeeps ==
  ASSUME IInv, NEW h \in Sender, NoteExit(h)
  PROVE  Kept
<1> DEFINE y == [sender[h] EXCEPT !.proc = "begun"]
<1>1. /\ run' = run /\ session' = session /\ sender' = [sender EXCEPT ![h] = y]
      /\ journal' = [journal EXCEPT !.exit = IF @ < h.gen THEN h.gen ELSE @]
      /\ sender[h].proc = "idle" /\ ExitCurrent(h.gen)
  BY DEF NoteExit
<1>2. sender[h] \in Process /\ journal \in Journal /\ session.gen \in Nat
      /\ h.gen = session.gen
  BY <1>1 DEF IInv, SenderInv, Sound, RunInv, ExitCurrent
<1>3. y \in Process /\ sender[h].thread = "none" /\ y.thread = "none"
  BY <1>1, <1>2 DEF IInv, SenderInv, Process, Alive
<1> HIDE DEF y
<1>4. /\ journal'.pending = journal.pending /\ journal'.records = journal.records
      /\ journal'.seen = journal.seen /\ journal'.active = journal.active
      /\ journal'.sequence = journal.sequence /\ journal'.resumed = journal.resumed
      /\ journal'.milestones = journal.milestones
      /\ journal'.exit \in Nat /\ (journal.exit = h.gen => journal'.exit = h.gen)
  BY <1>1, <1>2 DEF Journal
<1>5. journal' \in Journal
  BY <1>1, <1>2, <1>4 DEF Journal
<1>6. Sound(journal)'
  BY <1>4, <1>5 DEF IInv, Sound, Sending
<1>7. Follows(journal, journal') /\ Untried
  <2>1. Follows(journal, journal')
    BY <1>4 DEF Follows, Ids, Same, Claimed
  <2> QED
    BY <2>1, FollowsUntried DEF IInv
<1>8. RunInv'
  BY <1>1 DEF IInv, RunInv
<1>9. Told(journal)'
  <2>1. Ids(journal)' = Ids(journal)
    BY <1>4 DEF Ids
  <2>2. \A n \in 1..session.gen : ExitCurrent(n)' =>
          ExitCurrent(n) /\ (journal.exit = n => journal'.exit = n)
    BY <1>1, <1>2, <1>4 DEF ExitCurrent
  <2>3. /\ session'.gen \in Nat /\ session'.gen >= session.gen
        /\ run.rolled \subseteq run'.rolled /\ run.shown \ run'.shown \subseteq run'.rolled
    BY <1>1, <1>2
  <2> QED
    BY <1>2, <1>4, <2>1, <2>2, <2>3, ToldStep DEF IInv
<1>10. SenderInv'
  <2>1. \A i \in journal.pending :
          Sending(i) /\ Alive(i.owner) /\ (i.owner = h => y.thread \in {"check", "sent"})
            => Claimed(journal', <<i.owner, i.id>>)
    BY <1>7, ClaimsKept
  <2> QED
    BY <1>1, <1>3, <2>1, SenderStep DEF IInv
<1> QED
  BY <1>6, <1>7, <1>8, <1>9, <1>10 DEF Kept, IInv

\* The steps of a process that change nothing but what it is.
LEMMA ProcessKeeps ==
  ASSUME IInv, NEW s \in Sender,
         SkipExit(s) \/ Report(s) \/ Start(s) \/ Join(s) \/ Kill(s)
  PROVE  Kept
<1>1. /\ sender[s] \in Process /\ (sender[s].thread # "none" => Alive(s))
      /\ session \in [gen : Nat, current : BOOLEAN] /\ run.up \subseteq Slot
  BY DEF IInv, SenderInv, RunInv
<1>2. CASE SkipExit(s)
  <2> DEFINE y == [sender[s] EXCEPT !.proc = "ended"]
  <2>1. /\ UNCHANGED <<run, session, journal>> /\ sender' = [sender EXCEPT ![s] = y]
        /\ y \in Process /\ y.thread = "none"
    BY <1>1, <1>2 DEF SkipExit, Alive, Process
  <2> HIDE DEF y
  <2> QED
    BY <2>1, PlainStep
<1>3. CASE Report(s)
  <2>1. /\ UNCHANGED <<run, session, journal>> /\ sender[s].proc = "open"
        /\ \E r \in Outcome : sender' = [sender EXCEPT ![s].result = r]
    BY <1>1, <1>3 DEF Report, Outcome, Result
  <2>2. PICK r \in Outcome : sender' = [sender EXCEPT ![s].result = r]
    BY <2>1
  <2> DEFINE y == [sender[s] EXCEPT !.result = r]
  <2>3. /\ sender' = [sender EXCEPT ![s] = y] /\ y \in Process /\ y.proc = "open"
        /\ y.thread = sender[s].thread /\ y.item = sender[s].item
    BY <1>1, <2>1, <2>2 DEF Process
  <2> HIDE DEF y
  <2> QED
    BY <2>1, <2>3, PlainStep DEF Transporting
<1>4. CASE Start(s)
  <2> DEFINE y == [sender[s] EXCEPT !.proc = "begun"]
  <2>1. /\ run' = run /\ journal' = journal /\ sender' = [sender EXCEPT ![s] = y]
        /\ y \in Process /\ y.thread = "none"
    BY <1>1, <1>4 DEF Start, Alive, Process
  <2>2. /\ session' \in [gen : Nat, current : BOOLEAN] /\ session'.gen >= session.gen
        /\ \A n \in 1..session.gen : ~ExitCurrent(n)'
    BY <1>1, <1>4 DEF Start, ExitCurrent
  <2> HIDE DEF y
  <2> QED
    BY <2>1, <2>2, ProcessStep
<1>5. CASE Join(s)
  <2> DEFINE y == [sender[s] EXCEPT !.proc = "closed", !.thread = Woken(@)]
  <2>1. /\ UNCHANGED <<run, session, journal>> /\ sender' = [sender EXCEPT ![s] = y]
        /\ y \in Process /\ y.proc = "closed" /\ y.item = sender[s].item
        /\ y.thread \in {"check", "sent"} => y.thread = sender[s].thread
    BY <1>1, <1>5 DEF Join, Woken, Process
  <2> HIDE DEF y
  <2> QED
    BY <2>1, PlainStep DEF Transporting
<1>6. CASE Kill(s)
  <2> DEFINE y == Forgotten("dead")
  <2>1. /\ UNCHANGED <<run, session, journal>> /\ sender' = [sender EXCEPT ![s] = y]
        /\ y \in Process /\ y.thread = "none"
    BY <1>1, <1>6 DEF Kill, Fault, Forgotten, NewSender, Process, Outcome
  <2> HIDE DEF y
  <2> QED
    BY <2>1, PlainStep
<1> QED
  BY <1>2, <1>3, <1>4, <1>5, <1>6

-----------------------------------------------------------------------------
(* Observations.                                                           *)

\* A sender changes, and the journal follows itself.
LEMMA FollowStep ==
  ASSUME IInv, UNCHANGED <<run, session>>,
         Sound(journal)', Told(journal)', Follows(journal, journal'),
         NEW s \in Sender, NEW y \in Process, sender' = [sender EXCEPT ![s] = y],
         y.thread # "none" => y.proc \in {"open", "closing", "closed"},
         y.thread \in {"check", "sent"} => Transporting(s) /\ y.item = sender[s].item
  PROVE  Kept
<1>1. SenderInv'
  <2>1. \A i \in journal.pending :
          Sending(i) /\ Alive(i.owner) /\ (i.owner = s => y.thread \in {"check", "sent"})
            => Claimed(journal', <<i.owner, i.id>>)
    BY ClaimsKept
  <2> QED
    BY <2>1, SenderStep DEF IInv
<1>2. RunInv' /\ Untried
  BY FollowsUntried DEF IInv, RunInv
<1> QED
  BY <1>1, <1>2 DEF Kept, IInv

\* The journal that an observation leaves, in the next state.
LEMMA ObservedStep ==
  ASSUME IInv, UNCHANGED <<run, session>>, NEW r \in Outcome, NEW recovering,
         journal' \in Observed(journal, r, recovering)
  PROVE  Sound(journal)' /\ Told(journal)' /\ Follows(journal, journal')
<1>1. Sound(journal') /\ Told(journal') /\ Follows(journal, journal')
  BY ObservedFact DEF IInv
<1>2. Sound(journal)'
  BY <1>1 DEF Sound, Sending
<1>3. Told(journal)'
  BY <1>1 DEF Told, ToldFact, ToldExit, ExitCurrent, Ids
<1> QED
  BY <1>1, <1>2, <1>3

\* The same of a journal that is left alone.
LEMMA UnreadStep ==
  ASSUME IInv, UNCHANGED <<run, session, journal>>
  PROVE  Sound(journal)' /\ Told(journal)' /\ Follows(journal, journal')
BY UnchangedJournal DEF IInv, Told, ToldFact, ToldExit, ExitCurrent, Ids

\* Notifications(): the sender of a process opens.
LEMMA OpenKeeps ==
  ASSUME IInv, NEW s \in Sender, OpenExecutor(s) \/ OpenHook(s) \/ OpenCommand(s)
  PROVE  Kept
<1>1. UNCHANGED <<run, session>> /\ \E r \in Outcome : OpenAs(s, Opened(r))
  BY DEF OpenExecutor, OpenHook, OpenCommand, Outcome, Result, IInv, RunInv
<1>2. PICK r \in Outcome : OpenAs(s, Opened(r))
  BY <1>1
<1> DEFINE x == Opened(r)
           lost == [Failed(x) EXCEPT !.thread = "none"]
<1>3. /\ x \in Process /\ x.proc = "open" /\ x.thread = "loop" /\ x.result = r
      /\ Failed(x) \in Process /\ Failed(x).proc = "open" /\ Failed(x).thread = "loop"
      /\ lost \in Process /\ lost.thread = "none"
  BY DEF Opened, NewSender, Process, Failed, Woken
<1>4. OpenAs(s, x)
  BY <1>2
<1> HIDE DEF x, lost
<1>5. \/ journal' \in Observed(journal, r, TRUE)
      \/ journal' = journal
  BY <1>3, <1>4 DEF OpenAs
<1>6. Sound(journal)' /\ Told(journal)' /\ Follows(journal, journal')
  BY <1>1, <1>5, ObservedStep, UnreadStep
<1>7. \E y \in {x, Failed(x), lost} : sender' = [sender EXCEPT ![s] = y]
  BY <1>4 DEF OpenAs, lost
<1>8. PICK y \in {x, Failed(x), lost} : sender' = [sender EXCEPT ![s] = y]
  BY <1>7
<1>9. /\ y \in Process /\ y.thread \in {"loop", "none"}
      /\ y.thread # "none" => y.proc = "open"
  BY <1>3, <1>8
<1> QED
  BY <1>1, <1>6, <1>8, <1>9, FollowStep

\* An observation by the sender s, which is x from now on.
LEMMA ObservingKeeps ==
  ASSUME IInv, NEW s \in Sender, NEW x \in Process, Observing(s, x), UNCHANGED <<run, session>>,
         x.proc \in {"open", "closing"}, x.item = sender[s].item,
         x.thread \in {"check", "sent"} => Transporting(s)
  PROVE  Kept
<1>1. /\ Seen(x) \in Process /\ Seen(x).proc = x.proc /\ Seen(x).item = x.item
      /\ Seen(x).thread \in {"check", "sent"} => x.thread \in {"check", "sent"}
      /\ Failed(x) \in Process /\ Failed(x).proc = x.proc /\ Failed(x).item = x.item
      /\ Failed(x).thread \in {"check", "sent"} => x.thread \in {"check", "sent"}
      /\ x.result \in Outcome
  BY DEF Seen, Failed, Woken, Process
<1>2. \/ journal' \in Observed(journal, x.result, FALSE)
      \/ journal' = journal
  BY DEF Observing
<1>3. Sound(journal)' /\ Told(journal)' /\ Follows(journal, journal')
  BY <1>1, <1>2, ObservedStep, UnreadStep
<1>4. PICK y \in {Seen(x), Failed(x)} : sender' = [sender EXCEPT ![s] = y]
  BY DEF Observing
<1>5. /\ y \in Process /\ y.proc \in {"open", "closing"}
      /\ y.thread \in {"check", "sent"} => Transporting(s) /\ y.item = sender[s].item
  BY <1>1, <1>4
<1> QED
  BY <1>3, <1>4, <1>5, FollowStep

\* A save of the Run, or close.
LEMMA ObserveKeeps ==
  ASSUME IInv, NEW s \in Sender, Observe(s) \/ Close(s)
  PROVE  Kept
<1>1. sender[s] \in Process
  BY DEF IInv, SenderInv
<1>2. CASE Observe(s)
  <2>1. /\ Observing(s, sender[s]) /\ UNCHANGED <<run, session>> /\ sender[s].proc = "open"
        /\ sender[s].thread \in {"check", "sent"} => Transporting(s)
    BY <1>2 DEF Observe, Transporting
  <2> QED
    BY <1>1, <2>1, ObservingKeeps
<1>3. CASE Close(s)
  <2> DEFINE x == [sender[s] EXCEPT !.proc = "closing", !.thread = Woken(@)]
  <2>1. /\ x \in Process /\ x.proc = "closing" /\ x.item = sender[s].item
        /\ x.thread \in {"check", "sent"} => Transporting(s)
    BY <1>1 DEF Process, Woken, Transporting
  <2>2. /\ UNCHANGED <<run, session>>
        /\ \/ Observing(s, x)
           \/ sender' = [sender EXCEPT ![s] = x] /\ journal' = journal
    BY <1>3 DEF Close
  <2> HIDE DEF x
  <2> QED
    BY <2>1, <2>2, ObservingKeeps, PlainStep
<1> QED
  BY <1>2, <1>3

-----------------------------------------------------------------------------
(* The worker.                                                             *)

\* The sender s gives up what it holds: items get other outcomes, those that
\* other processes claim excepted, and the journal may be settled.
LEMMA OutcomesStep ==
  ASSUME IInv, UNCHANGED run,
         session' \in [gen : Nat, current : BOOLEAN], session'.gen = session.gen,
         \A n \in 1..session.gen : ExitCurrent(n)' => ExitCurrent(n),
         NEW e, NEW M, Rewrites(journal, e, M), journal' \in {e, Settled(e)},
         NEW s \in Sender, \A i \in journal.pending : Sending(i) /\ i.owner # s => M[i] = i,
         NEW y \in Process, sender' = [sender EXCEPT ![s] = y],
         y.thread # "none" => y.proc \in {"open", "closing", "closed"},
         y.thread \notin {"check", "sent"}
  PROVE  Kept
<1>1. /\ Sound(e) /\ Ids(e) = Ids(journal)
      /\ e.seen = journal.seen /\ e.sequence = journal.sequence /\ e.resumed = journal.resumed
      /\ e.milestones = journal.milestones /\ e.exit = journal.exit
      /\ \A i \in journal.pending, k \in e.pending : i.id = k.id => k.attempts = i.attempts
  BY OutcomeFact DEF IInv
<1>2. Sound(journal') /\ Calm(e, journal')
  BY <1>1, SettledFact, FollowsReflexive
<1>3. Sound(journal)'
  BY <1>2 DEF Sound, Sending
<1>4. RunInv'
  BY DEF IInv, RunInv
<1>5. Told(journal)'
  <2>1. /\ Ids(journal)' = Ids(journal) /\ journal'.exit = journal.exit
        /\ journal'.seen = journal.seen /\ journal'.sequence = journal.sequence
        /\ journal'.resumed = journal.resumed /\ journal'.milestones = journal.milestones
    BY <1>1, <1>2 DEF Calm, Ids
  <2>2. /\ session.gen \in Nat /\ session'.gen \in Nat /\ session'.gen >= session.gen
        /\ run.rolled \subseteq run'.rolled /\ run.shown \ run'.shown \subseteq run'.rolled
    BY DEF IInv, RunInv
  <2> QED
    BY <2>1, <2>2, ToldStep DEF IInv
<1>6. Untried
  <2> SUFFICES ASSUME NEW i \in journal.pending, NEW k \in journal'.pending, i.id = k.id
               PROVE  k.attempts = i.attempts
    BY DEF Untried
  <2>1. ~New(e, k)
    BY <1>1 DEF New, Ids
  <2>2. PICK j \in e.pending : Same(j, k)
    BY <1>2, <2>1 DEF Calm, Follows
  <2> QED
    BY <1>1, <2>2 DEF Same
<1>7. SenderInv'
  <2>1. ASSUME NEW i \in journal.pending, Sending(i), Alive(i.owner), i.owner # s
        PROVE  Claimed(journal', <<i.owner, i.id>>)
    <3>1. i \in e.pending
      BY <2>1 DEF Rewrites
    <3> QED
      BY <1>2, <2>1, <3>1 DEF Calm, Follows
  <2> QED
    BY <2>1, SenderStep DEF IInv
<1> QED
  BY <1>3, <1>4, <1>5, <1>6, <1>7 DEF Kept, IInv

\* finish_attempt: a request is refused or answered.
LEMMA EndAttemptKeeps ==
  ASSUME IInv, NEW s \in Sender, Transporting(s),
         NEW o \in {"success", "failed", "unknown"}, EndAttempt(s, o)
  PROVE  Kept
<1> DEFINE M == [i \in journal.pending |->
                   IF i.owner = s /\ i.id = sender[s].item THEN [i EXCEPT !.outcome = o] ELSE i]
           e == Finished(journal, s, o)
           y == [sender[s] EXCEPT !.thread = "loop", !.item = None]
<1>1. journal \in Journal /\ sender[s] \in Process /\ Alive(s)
  BY DEF IInv, Sound, SenderInv, Transporting
<1>2. /\ journal' = Settled(e) /\ UNCHANGED <<run, session>>
      /\ sender' = [sender EXCEPT ![s] = y]
  BY <1>1 DEF EndAttempt, SenderInv, IInv
<1>3. /\ DOMAIN e = DOMAIN journal /\ e = [journal EXCEPT !.pending = e.pending]
      /\ DOMAIN M = journal.pending /\ e.pending = {M[i] : i \in journal.pending}
  BY <1>1 DEF Finished, Journal
<1>4. /\ y \in Process /\ y.thread = "loop" /\ y.proc \in {"open", "closing", "closed"}
  BY <1>1 DEF Process, Alive
<1>5. o \in Outcomes \ {"sending"}
  BY DEF Outcomes
<1>6. /\ session' \in [gen : Nat, current : BOOLEAN] /\ session'.gen = session.gen
      /\ \A n \in 1..session.gen : ExitCurrent(n)' => ExitCurrent(n)
  BY <1>2 DEF IInv, RunInv, ExitCurrent
<1>7. \A i \in journal.pending : Retold(i, M[i]) /\ (Sending(i) /\ i.owner # s => M[i] = i)
  BY <1>5 DEF Retold
<1> HIDE DEF M, e, y
<1>8. Rewrites(journal, e, M) /\ journal' \in {e, Settled(e)}
  BY <1>2, <1>3, <1>7 DEF Rewrites
<1> QED
  BY <1>2, <1>4, <1>6, <1>7, <1>8, OutcomesStep

\* _unavailable in the worker.
LEMMA ReleaseKeeps ==
  ASSUME IInv, NEW s \in Sender, UNCHANGED <<run, session>>,
         journal' = Released(journal, s), sender[s].thread # "none",
         NEW y \in Process, sender' = [sender EXCEPT ![s] = y],
         y.thread = "parked", y.proc = sender[s].proc
  PROVE  Kept
<1> DEFINE M == [i \in journal.pending |->
                   IF i.owner = s /\ Sending(i) THEN [i EXCEPT !.outcome = "unknown"] ELSE i]
           e == Released(journal, s)
<1>1. journal \in Journal /\ Alive(s)
  BY DEF IInv, Sound, SenderInv
<1>2. /\ DOMAIN e = DOMAIN journal /\ e = [journal EXCEPT !.pending = e.pending]
      /\ DOMAIN M = journal.pending /\ e.pending = {M[i] : i \in journal.pending}
  BY <1>1 DEF Released, Journal
<1>3. "unknown" \in Outcomes \ {"sending"}
  BY DEF Outcomes
<1>4. /\ session' \in [gen : Nat, current : BOOLEAN] /\ session'.gen = session.gen
      /\ \A n \in 1..session.gen : ExitCurrent(n)' => ExitCurrent(n)
  BY DEF IInv, RunInv, ExitCurrent
<1>5. \A i \in journal.pending : Retold(i, M[i]) /\ (Sending(i) /\ i.owner # s => M[i] = i)
  BY <1>3 DEF Retold
<1>6. y.proc \in {"open", "closing", "closed"} /\ journal' \in {e, Settled(e)}
  BY <1>1 DEF Alive
<1> HIDE DEF M, e
<1>7. Rewrites(journal, e, M)
  BY <1>2, <1>5 DEF Rewrites
<1> QED
  BY <1>4, <1>5, <1>6, <1>7, OutcomesStep

\* close, at last: what was never tried may be told of.
LEMMA ExitKeeps ==
  ASSUME IInv, NEW s \in Sender, Exit(s)
  PROVE  Kept
<1> DEFINE y == Forgotten("ended")
           told(i) == IF sender[s].failure /\ i.outcome = "pending"
                      THEN [i EXCEPT !.outcome = "failed"] ELSE i
           M == [i \in journal.pending |-> told(i)]
           e == IF sender[s].failure
                THEN [journal EXCEPT !.pending =
                        {[i EXCEPT !.outcome = IF @ = "pending" THEN "failed" ELSE @] : i \in @}]
                ELSE journal
<1>1. journal \in Journal /\ journal.pending \subseteq Item
  BY DEF IInv, Sound, Journal
<1>2. /\ run' = run /\ sender' = [sender EXCEPT ![s] = y]
      /\ journal' \in {e, Settled(e)}
      /\ session' = session \/ session' = [session EXCEPT !.current = FALSE]
  BY DEF Exit
<1>3. /\ y \in Process /\ y.thread = "none"
  BY DEF Forgotten, NewSender, Process, Outcome
<1>4. \A i \in Item : told(i) = [i EXCEPT !.outcome =
                                   IF sender[s].failure /\ @ = "pending" THEN "failed" ELSE @]
  BY DEF Item
<1>5. /\ DOMAIN e = DOMAIN journal /\ e = [journal EXCEPT !.pending = e.pending]
      /\ DOMAIN M = journal.pending /\ e.pending = {M[i] : i \in journal.pending}
  <2>1. CASE sender[s].failure
    <3>1. \A i \in journal.pending :
            [i EXCEPT !.outcome = IF @ = "pending" THEN "failed" ELSE @] = told(i)
      BY <1>1, <1>4, <2>1
    <3> DEFINE g(i) == [i EXCEPT !.outcome = IF @ = "pending" THEN "failed" ELSE @]
               P == {g(i) : i \in journal.pending}
    <3>2. e = [journal EXCEPT !.pending = P] /\ DOMAIN M = journal.pending
      BY <2>1
    <3>3. P = {M[i] : i \in journal.pending}
      <4>1. \A i \in journal.pending : M[i] = g(i)
        BY <3>1
      <4> HIDE DEF M, g
      <4> QED
        BY <4>1
    <3> HIDE DEF P, e, M
    <3> QED
      BY <1>1, <3>2, <3>3 DEF Journal
  <2>2. CASE ~sender[s].failure
    BY <1>1, <2>2 DEF Journal
  <2> QED
    BY <2>1, <2>2
<1>6. \A i \in journal.pending : Retold(i, M[i]) /\ (Sending(i) => M[i] = i)
  BY DEF Outcomes, Sending, Retold
<1>7. /\ session' \in [gen : Nat, current : BOOLEAN] /\ session'.gen = session.gen
      /\ \A n \in 1..session.gen : ExitCurrent(n)' => ExitCurrent(n)
  BY <1>2 DEF IInv, RunInv, ExitCurrent
<1> HIDE DEF M, e, y
<1>8. Rewrites(journal, e, M)
  BY <1>5, <1>6 DEF Rewrites
<1> QED
  BY <1>2, <1>3, <1>6, <1>7, <1>8, OutcomesStep

\* The worker looks at the Run and the outbox before it claims an item.
LEMMA LookedFact ==
  ASSUME IInv, NEW s \in Sender, NEW e \in Looked(s)
  PROVE  /\ Sound(e) /\ Told(e) /\ Follows(journal, e)
         /\ \A k \in e.pending : ~Over(k)
<1>1. sender[s].result \in Outcome
  BY DEF IInv, SenderInv, Process
<1>2. PICK d \in Observed(journal, sender[s].result, FALSE) : e = Settled(d)
  BY DEF Looked
<1>3. Sound(d) /\ Told(d) /\ Follows(journal, d)
  BY <1>1, ObservedFact DEF IInv
<1>4. Sound(e) /\ Calm(d, e) /\ \A k \in e.pending : ~Over(k)
  BY <1>2, <1>3, SettledFact
<1> QED
  BY <1>3, <1>4, CalmTold, FollowsTransitive DEF Calm

\* Nothing is due.
LEMMA RestKeeps ==
  ASSUME IInv, NEW s \in Sender, Rest(s)
  PROVE  Kept
<1>1. sender[s] \in Process /\ Alive(s) /\ UNCHANGED <<run, session>>
  BY DEF IInv, SenderInv, Rest, Working
<1>2. PICK t \in {"loop", "done", "waiting"} : sender' = [sender EXCEPT ![s].thread = t]
  BY DEF Rest
<1>3. journal' \in Looked(s)
  BY DEF Rest
<1>4. Sound(journal') /\ Told(journal') /\ Follows(journal, journal')
  BY <1>3, LookedFact
<1>5. Sound(journal)' /\ Told(journal)'
  BY <1>1, <1>4 DEF Sound, Sending, Told, ToldFact, ToldExit, ExitCurrent, Ids
<1> DEFINE y == [sender[s] EXCEPT !.thread = t]
<1>6. /\ y \in Process /\ sender' = [sender EXCEPT ![s] = y]
      /\ y.proc \in {"open", "closing", "closed"} /\ y.thread \notin {"check", "sent"}
  BY <1>1, <1>2 DEF Process, Alive
<1> HIDE DEF y
<1> QED
  BY <1>1, <1>4, <1>5, <1>6, FollowStep

\* The worker goes on to the request, parks, recovers or ends.
LEMMA WorkerKeeps ==
  ASSUME IInv, NEW s \in Sender, Submit(s) \/ Park(s) \/ Recover(s) \/ Quit(s)
  PROVE  Kept
<1>1. /\ sender[s] \in Process /\ (sender[s].thread # "none" => Alive(s))
      /\ UNCHANGED <<run, session, journal>>
  BY DEF IInv, SenderInv, Submit, Park, Recover, Quit
<1>2. CASE Submit(s)
  <2> DEFINE y == [sender[s] EXCEPT !.thread = "sent"]
  <2>1. /\ y \in Process /\ sender' = [sender EXCEPT ![s] = y] /\ Transporting(s)
        /\ y.item = sender[s].item /\ y.proc \in {"open", "closing", "closed"}
    BY <1>1, <1>2 DEF Submit, Process, Transporting, Alive
  <2> HIDE DEF y
  <2> QED
    BY <1>1, <2>1, PlainStep
<1>3. CASE Park(s)
  <2> DEFINE y == [sender[s] EXCEPT !.thread = "parked"]
  <2>1. /\ y \in Process /\ sender' = [sender EXCEPT ![s] = y] /\ y.thread = "parked"
        /\ y.proc \in {"open", "closing", "closed"}
    BY <1>1, <1>3 DEF Park, Process, Alive
  <2> HIDE DEF y
  <2> QED
    BY <1>1, <2>1, PlainStep
<1>4. CASE Recover(s)
  <2> DEFINE y == [sender[s] EXCEPT !.thread = "loop", !.failure = FALSE, !.recovery = FALSE]
  <2>1. /\ y \in Process /\ sender' = [sender EXCEPT ![s] = y] /\ y.thread = "loop"
        /\ y.proc \in {"open", "closing", "closed"}
    BY <1>1, <1>4 DEF Recover, Process, Alive, IInv, SenderInv
  <2> HIDE DEF y
  <2> QED
    BY <1>1, <2>1, PlainStep
<1>5. CASE Quit(s)
  <2> DEFINE y == [sender[s] EXCEPT !.thread = "done"]
  <2>1. /\ y \in Process /\ sender' = [sender EXCEPT ![s] = y] /\ y.thread = "done"
        /\ y.proc \in {"open", "closing", "closed"}
    BY <1>1, <1>5 DEF Quit, Process, Alive
  <2> HIDE DEF y
  <2> QED
    BY <1>1, <2>1, PlainStep
<1> QED
  BY <1>2, <1>3, <1>4, <1>5

\* The worker fails at a look or at a result.
LEMMA FailureKeeps ==
  ASSUME IInv, NEW s \in Sender, LookFails(s) \/ LoseResult(s)
  PROVE  Kept
<1>1. /\ sender[s] \in Process /\ UNCHANGED <<run, session>>
      /\ sender[s].thread # "none" /\ Alive(s)
  BY DEF IInv, SenderInv, LookFails, LoseResult, Working, Transporting
<1> DEFINE a == [Failed(sender[s]) EXCEPT !.thread = "parked"]
           b == [Failed(sender[s]) EXCEPT !.thread = "parked", !.item = None]
<1>2. PICK y \in {a, b} : sender' = [sender EXCEPT ![s] = y]
  BY DEF LookFails, LoseResult
<1>3. /\ a \in Process /\ a.thread = "parked" /\ a.proc = sender[s].proc
      /\ b \in Process /\ b.thread = "parked" /\ b.proc = sender[s].proc
  BY <1>1 DEF Failed, Process, Woken
<1> HIDE DEF a, b
<1>4. y \in Process /\ y.thread = "parked" /\ y.proc = sender[s].proc
  BY <1>2, <1>3
<1>5. journal' = Released(journal, s) \/ journal' = journal
  BY DEF LookFails, LoseResult
<1>6. CASE journal' = Released(journal, s)
  BY <1>1, <1>2, <1>4, <1>6, ReleaseKeeps
<1>7. CASE journal' = journal
  BY <1>1, <1>2, <1>4, <1>7, PlainStep DEF Alive
<1> QED
  BY <1>5, <1>6, <1>7

\* A request ends.
LEMMA AnswerKeeps ==
  ASSUME IInv, NEW s \in Sender, Refuse(s) \/ Answer(s)
  PROVE  Kept
<1>1. Transporting(s) /\ \E o \in {"success", "failed", "unknown"} : EndAttempt(s, o)
  BY DEF Refuse, Answer, Transporting
<1> QED
  BY <1>1, EndAttemptKeeps

\* The lifetime of an item passes.
LEMMA ExpireKeeps ==
  ASSUME IInv, Expire
  PROVE  Kept
<1>1. PICK i \in journal.pending :
        journal' = [journal EXCEPT !.pending = (@ \ {i}) \cup {[i EXCEPT !.expired = TRUE]}]
  BY DEF Expire
<1>2. UNCHANGED <<run, session, sender>>
  BY DEF Expire
<1> DEFINE k == [i EXCEPT !.expired = TRUE]
<1>3. journal \in Journal /\ i \in Item /\ journal.pending \subseteq Item
  BY DEF IInv, Sound, Journal
<1>4. /\ k \in Item /\ Same(i, k) /\ k.id = i.id /\ k.owner = i.owner
      /\ k.attempts = i.attempts /\ k.outcome = i.outcome
  BY <1>3 DEF Item, Same
<1> HIDE DEF k
<1>5. /\ journal'.pending = (journal.pending \ {i}) \cup {k}
      /\ journal'.records = journal.records /\ journal'.seen = journal.seen
      /\ journal'.active = journal.active /\ journal'.sequence = journal.sequence
      /\ journal'.resumed = journal.resumed /\ journal'.milestones = journal.milestones
      /\ journal'.exit = journal.exit
  BY <1>1, <1>3 DEF Journal, k
<1>6. journal' \in Journal
  <2>1. journal'.pending \in SUBSET Item
    BY <1>3, <1>4, <1>5
  <2> QED
    BY <1>1, <1>3, <2>1 DEF Journal
<1>7. Sound(journal)'
  <2>1. IsFiniteSet(journal'.pending)
    <3>1. IsFiniteSet(journal.pending \ {i}) /\ IsFiniteSet({k})
      BY FS_Subset, FS_Singleton DEF IInv, Sound
    <3>2. IsFiniteSet((journal.pending \ {i}) \cup {k})
      BY <3>1, FS_Union
    <3> QED
      BY <1>5, <3>2
  <2>2. \A j \in journal'.pending : /\ j.attempts <= MaxAttempts
                                    /\ j.id \notin journal'.records
                                    /\ Sending(j) => j.owner \in Sender
    BY <1>4, <1>5 DEF IInv, Sound, Sending
  <2>3. \A j, m \in journal'.pending : j.id = m.id \/ (Sending(j) /\ Sending(m)) => j = m
    BY <1>4, <1>5 DEF IInv, Sound, Sending
  <2> QED
    BY <1>6, <2>1, <2>2, <2>3 DEF Sound, Sending
<1>8. Ids(journal') = Ids(journal)
  BY <1>4, <1>5 DEF Ids
<1>9. Follows(journal, journal')
  <2>1. \A j \in journal'.pending : \E m \in journal.pending : Same(m, j)
    BY <1>4, <1>5 DEF Same
  <2>2. ASSUME NEW j \in journal.pending, Sending(j)
        PROVE  Claimed(journal', <<j.owner, j.id>>)
    <3>1. \E m \in journal'.pending : Sending(m) /\ m.owner = j.owner /\ m.id = j.id
      BY <1>4, <1>5, <2>2 DEF Sending
    <3> QED
      BY <3>1 DEF Claimed
  <2> QED
    BY <1>8, <2>1, <2>2 DEF Follows
<1>10. Told(journal)'
  <2>1. /\ Ids(journal)' = Ids(journal) /\ session.gen \in Nat
        /\ \A n \in 1..session.gen : ExitCurrent(n)' => ExitCurrent(n)
    BY <1>2, <1>8 DEF IInv, RunInv, Ids, ExitCurrent
  <2> QED
    BY <1>2, <1>5, <2>1, ToldStep DEF IInv
<1>11. SenderInv' /\ RunInv' /\ Untried
  BY <1>2, <1>9, NoSenderStep, FollowsUntried DEF IInv, RunInv
<1> QED
  BY <1>7, <1>10, <1>11 DEF Kept, IInv

\* A claim takes one item, which is not over, while no other is claimed.
LEMMA ClaimKeeps ==
  ASSUME IInv, NEW s \in Sender, Claim(s)
  PROVE  IInv' /\ NotReplayed
<1>1. PICK e \in Looked(s) : \E i \in Claimable(e) :
        /\ journal' = [e EXCEPT !.pending = (@ \ {i}) \cup
             {[i EXCEPT !.outcome = "sending", !.owner = s, !.attempts = @ + 1]}]
        /\ sender' = [sender EXCEPT ![s].thread = "check", ![s].item = i.id]
  BY DEF Claim
<1>2. PICK i \in Claimable(e) :
        /\ journal' = [e EXCEPT !.pending = (@ \ {i}) \cup
             {[i EXCEPT !.outcome = "sending", !.owner = s, !.attempts = @ + 1]}]
        /\ sender' = [sender EXCEPT ![s].thread = "check", ![s].item = i.id]
  BY <1>1
<1> DEFINE k == [i EXCEPT !.outcome = "sending", !.owner = s, !.attempts = @ + 1]
<1>3. /\ Sound(e) /\ Told(e) /\ Follows(journal, e)
      /\ \A j \in e.pending : ~Over(j)
  BY LookedFact
<1>4. e \in Journal /\ e.pending \subseteq Item
  BY <1>3 DEF Sound, Journal
<1>5. /\ i \in e.pending /\ ~i.cancelled
      /\ \A j \in e.pending : ~Sending(j)
  BY DEF Claimable
<1>6. /\ i \in Item /\ i.attempts < MaxAttempts /\ i.attempts \in Nat
      /\ ~i.important => i.outcome \in {"pending", "failed"}
  BY <1>3, <1>4, <1>5, BoundaryAssumption DEF Over, Item, Outcomes, Sending
<1>7. /\ k \in Item /\ k.id = i.id /\ k.attempts = i.attempts + 1 /\ k.owner = s
      /\ k.outcome = "sending"
  <2> DEFINE a == i.attempts + 1
  <2>1. a \in Nat /\ "sending" \in Outcomes /\ s \in Sender \cup {None}
    BY <1>6 DEF Outcomes
  <2>2. k = [i EXCEPT !.outcome = "sending", !.owner = s, !.attempts = a]
    OBVIOUS
  <2> HIDE DEF a, k
  <2>3. k \in Item /\ k.id = i.id /\ k.attempts = a /\ k.owner = s /\ k.outcome = "sending"
    BY <1>6, <2>1, <2>2 DEF Item
  <2> QED
    BY <2>3 DEF a
<1> HIDE DEF k
<1>8. /\ journal'.pending = (e.pending \ {i}) \cup {k} /\ journal'.records = e.records
      /\ journal'.seen = e.seen /\ journal'.active = e.active
      /\ journal'.sequence = e.sequence /\ journal'.resumed = e.resumed
      /\ journal'.milestones = e.milestones /\ journal'.exit = e.exit
  BY <1>2, <1>4 DEF Journal, k
<1>9. UNCHANGED <<run, session>>
  BY DEF Claim
<1>10. Sound(journal)'
  <2>1. journal' \in Journal
    <3>1. journal'.pending \in SUBSET Item
      BY <1>4, <1>7, <1>8
    <3> QED
      BY <1>2, <1>4, <3>1 DEF Journal
  <2>2. IsFiniteSet(journal'.pending)
    <3>1. IsFiniteSet(e.pending \ {i}) /\ IsFiniteSet({k})
      BY <1>3, FS_Subset, FS_Singleton DEF Sound
    <3>2. IsFiniteSet((e.pending \ {i}) \cup {k})
      BY <3>1, FS_Union
    <3> QED
      BY <1>8, <3>2
  <2>3. \A j \in journal'.pending : /\ j.attempts <= MaxAttempts
                                    /\ j.id \notin journal'.records
                                    /\ Sending(j) => j.owner \in Sender
    <3>1. k.attempts <= MaxAttempts /\ k.id \notin e.records /\ k.owner \in Sender
      BY <1>3, <1>5, <1>6, <1>7, BoundaryAssumption DEF Sound
    <3> QED
      BY <1>3, <1>8, <3>1 DEF Sound
  <2>4. \A j, m \in journal'.pending : j.id = m.id \/ (Sending(j) /\ Sending(m)) => j = m
    BY <1>3, <1>5, <1>7, <1>8 DEF Sound
  <2> QED
    BY <2>1, <2>2, <2>3, <2>4 DEF Sound, Sending
<1>11. Ids(journal') = Ids(e)
  BY <1>5, <1>7, <1>8 DEF Ids
<1>12. Told(journal)'
  <2>1. Told(journal')
    BY <1>3, <1>8, <1>11 DEF Told, ToldFact, ToldExit
  <2> QED
    BY <1>9, <2>1 DEF Told, ToldFact, ToldExit, ExitCurrent, Ids
<1>13. SenderInv'
  <2>1. sender[s] \in Process /\ Alive(s)
    BY DEF IInv, SenderInv, Claim, Working
  <2> DEFINE y == [sender[s] EXCEPT !.thread = "check", !.item = i.id]
  <2>2. /\ y \in Process /\ y.proc = sender[s].proc /\ y.item = i.id
        /\ sender' = [sender EXCEPT ![s] = y]
    BY <1>2, <1>6, <2>1 DEF Process, Item, IInv, SenderInv
  <2> HIDE DEF y
  <2>3. /\ sender' \in [Sender -> Process] /\ sender'[s] = y
        /\ \A t \in Sender \ {s} : sender'[t] = sender[t]
    BY <2>2 DEF IInv, SenderInv
  <2>4. ASSUME NEW t \in Sender, t # s, Transporting(t)'
        PROVE  FALSE
    <3>1. Transporting(t) /\ Alive(t)
      BY <2>3, <2>4 DEF Transporting, IInv, SenderInv
    <3>2. PICK j \in journal.pending : Sending(j) /\ j.owner = t
      BY <3>1 DEF IInv, SenderInv, Claimed
    <3>3. Claimed(e, <<j.owner, j.id>>)
      BY <1>3, <3>1, <3>2 DEF Follows
    <3> QED
      BY <1>5, <3>3 DEF Claimed
  <2>5. \E j \in journal'.pending : j.outcome = "sending" /\ j.owner = s /\ j.id = sender'[s].item
    BY <1>7, <1>8, <2>2, <2>3
  <2>6. \A t \in Sender : Transporting(t)' => Claimed(journal, <<t, sender[t].item>>)'
    BY <2>4, <2>5 DEF Claimed, Sending
  <2>7. \A t \in Sender : (sender[t].thread # "none" => Alive(t))'
    BY <2>1, <2>2, <2>3 DEF Alive, IInv, SenderInv
  <2> QED
    BY <2>3, <2>6, <2>7 DEF SenderInv
<1>14. RunInv'
  BY <1>9 DEF IInv, RunInv
<1>15. NotReplayed
  <2> SUFFICES ASSUME NEW h \in journal.pending, NEW j \in journal'.pending,
                      h.id = j.id, j.attempts > h.attempts, ~h.important
               PROVE  h.outcome \in {"pending", "failed"}
    BY DEF NotReplayed
  <2>1. PICK m \in e.pending : m.id = j.id /\ (j = m \/ (j = k /\ m = i))
    BY <1>5, <1>7, <1>8
  <2>2. ~New(journal, m)
    BY <2>1 DEF New, Ids
  <2>3. Same(h, m)
    <3>1. PICK g \in journal.pending : Same(g, m)
      BY <1>3, <2>2 DEF Follows
    <3>2. g = h
      BY <2>1, <3>1 DEF Same, IInv, Sound
    <3> QED
      BY <3>1, <3>2
  <2>4. h \in Item
    BY DEF IInv, Sound, Journal
  <2>5. m = i
    BY <2>1, <2>3, <2>4 DEF Same, Item
  <2> QED
    BY <1>6, <2>3, <2>5 DEF Same, Sending
<1> QED
  BY <1>10, <1>12, <1>13, <1>14, <1>15 DEF IInv

-----------------------------------------------------------------------------
(* The results.                                                            *)

\* Every step keeps the invariant, and tells no progress twice.
LEMMA NextKeeps ==
  ASSUME IInv, Next
  PROVE  IInv' /\ NotReplayed
<1>1. Untried => NotReplayed
  <2> SUFFICES ASSUME Untried, NEW i \in journal.pending, NEW j \in journal'.pending,
                      i.id = j.id
               PROVE  ~(j.attempts > i.attempts)
    BY DEF NotReplayed
  <2>1. j.attempts = i.attempts /\ i.attempts \in Nat
    BY DEF Untried, IInv, Sound, Journal, Item
  <2> QED
    BY <2>1
<1>2. CASE Business
  BY <1>1, <1>2, ChangeKeeps, QuietKeeps, NoteExitKeeps, ProcessKeeps DEF Business, Kept
<1>3. CASE Expire
  BY <1>1, <1>3, ExpireKeeps DEF Kept
<1>4. ASSUME NEW s \in Sender,
             \/ Start(s) \/ OpenExecutor(s) \/ OpenHook(s) \/ OpenCommand(s)
             \/ Observe(s) \/ Close(s) \/ Join(s) \/ Exit(s) \/ Kill(s)
      PROVE  Kept
  BY <1>4, ProcessKeeps, OpenKeeps, ObserveKeeps, ExitKeeps
<1>5. ASSUME NEW s \in Sender, Work(s) \/ LookFails(s) \/ LoseResult(s)
      PROVE  IInv' /\ NotReplayed
  BY <1>1, <1>5, ClaimKeeps, RestKeeps, WorkerKeeps, FailureKeeps, AnswerKeeps
     DEF Work, Kept
<1> QED
  BY <1>1, <1>2, <1>3, <1>4, <1>5 DEF Next, Kept

\* The invariant holds of every behaviour.
LEMMA Invariant == Spec => []IInv
<1>1. Init => IInv
  <2> SUFFICES ASSUME Init PROVE IInv
    OBVIOUS
  <2>1. Sound(journal) /\ Ids(journal) = {} /\ journal.pending = {}
    BY FS_EmptySet DEF Init, Sound, Journal, Ids
  <2>2. Told(journal)
    BY <2>1 DEF Told
  <2>3. RunInv
    BY DEF Init, RunInv
  <2>4. SenderInv
    <3>1. NewSender \in Process /\ NewSender.thread = "none"
      BY DEF NewSender, Process, Outcome
    <3> QED
      BY <3>1 DEF Init, SenderInv, Transporting
  <2> QED
    BY <2>1, <2>2, <2>3, <2>4 DEF IInv
<1>2. IInv /\ [Next]_vars => IInv'
  <2> SUFFICES ASSUME IInv, [Next]_vars PROVE IInv'
    OBVIOUS
  <2>1. CASE Next
    BY <2>1, NextKeeps
  <2>2. CASE UNCHANGED vars
    BY <2>2 DEF vars, IInv, Sound, Told, RunInv, SenderInv, ToldFact, ToldExit, ExitCurrent,
                Ids, Claimed, Sending, Alive, Transporting
  <2> QED
    BY <2>1, <2>2
<1> QED
  BY <1>1, <1>2, PTL DEF Spec

\* At most one process has a request to the transport out at any time: a
\* request is covered by its claim, and a journal holds one claim.
THEOREM OneTransportSafe == Spec => []OneTransport
<1>1. IInv => OneTransport
  BY DEF IInv, OneTransport, SenderInv, Sound, Claimed
<1> QED
  BY <1>1, Invariant, PTL

\* An event has one item and one budget of attempts, ever.
THEOREM BudgetSafe == Spec => []BudgetKept
<1>1. IInv => BudgetKept
  BY DEF IInv, BudgetKept, Sound
<1> QED
  BY <1>1, Invariant, PTL

\* The journal and the senders have their shape, and a claim has an owner.
THEOREM OutboxTypeCorrect == Spec => []TypeOK
<1>1. IInv => TypeOK
  BY DEF IInv, TypeOK, Sound, Journal, SenderInv, Process, Outcome
<1> QED
  BY <1>1, Invariant, PTL

\* A progress message is sent again only if its last attempt is known to have
\* failed: what a worker claims has been settled in the same transaction.
THEOREM ProgressSafe == Spec => ProgressNotReplayed
<1>1. IInv /\ [Next]_vars =>
        [\A i \in journal.pending, j \in journal'.pending :
           /\ i.id = j.id
           /\ j.attempts > i.attempts
           /\ ~i.important
           => i.outcome \in {"pending", "failed"}]_journal
  BY NextKeeps DEF NotReplayed, vars
<1> QED
  BY <1>1, Invariant, PTL DEF Spec, ProgressNotReplayed

-----------------------------------------------------------------------------
(* The size of the outbox.                                                 *)

\* Item k is what became of item i: the same gate, and withdrawn if i was.
Tells(i, k) == k.id = i.id /\ k.slot = i.slot /\ (i.cancelled => k.cancelled)

\* Journal e has no event that d did not have.
Thins(d, e) ==
  e.active = d.active /\ \A k \in e.pending : \E i \in d.pending : Tells(i, k)

\* A gate has one item that was not withdrawn.
OneForGate(d) ==
  \A i, j \in d.pending :
    i.slot # None /\ i.slot = j.slot /\ ~i.cancelled /\ ~j.cancelled => i = j

Within(d) == Cardinality(d.pending) <= MaxPending + Cardinality(d.active)

SizeInv == OneForGate(journal) /\ Within(journal)

\* A set that maps one to one into a finite set is finite and no larger.
LEMMA Into ==
  ASSUME NEW S, NEW T, IsFiniteSet(T), NEW f, DOMAIN f = S, \A x \in S : f[x] \in T,
         \A x, y \in S : f[x] = f[y] => x = y
  PROVE  /\ IsFiniteSet(S) /\ Cardinality(S) <= Cardinality(T)
         /\ Cardinality(S) \in Nat /\ Cardinality(T) \in Nat
<1> DEFINE g == [x \in S |-> f[x]]
<1>1. g \in Injection(S, T)
  BY DEF Injection, IsInjective
<1> HIDE DEF g
<1> QED
  BY <1>1, FS_Injection, FS_CardinalityType

\* A finite set of numbers has a least one.
LEMMA Least ==
  ASSUME NEW S \in SUBSET Nat, IsFiniteSet(S), S # {}
  PROVE  \E m \in S : \A n \in S : m <= n
<1>1. PICK b \in S : \A n \in S : n <= b
  BY Greatest
<1> DEFINE R == {k \in 0..b : b - k \in S}
<1>2. R \in SUBSET Nat /\ 0 \in R
  BY <1>1
<1>3. IsFiniteSet(R)
  <2>1. R \in SUBSET (0..b) /\ IsFiniteSet(0..b)
    BY <1>1, FS_Interval
  <2> HIDE DEF R
  <2> QED
    BY <2>1, FS_Subset
<1>4. \E k \in R : \A n \in R : n <= k
  <2> HIDE DEF R
  <2> QED
    BY <1>2, <1>3, Greatest
<1>5. PICK k \in R : \A n \in R : n <= k
  BY <1>4
<1>6. ASSUME NEW n \in S PROVE b - k <= n
  <2>1. b - n \in 0..b /\ b - (b - n) = n
    BY <1>1
  <2>2. b - n \in R
    BY <2>1
  <2>3. b - n <= k
    BY <1>5, <2>2
  <2> QED
    BY <1>1, <1>5, <2>3
<1> QED
  BY <1>5, <1>6

\* A journal without new events is within the bound that the old one kept.
LEMMA ThinsFact ==
  ASSUME NEW d, NEW e, Sound(d), Sound(e), Thins(d, e), OneForGate(d)
  PROVE  OneForGate(e) /\ (Within(d) => Within(e))
<1>1. /\ \A k \in e.pending : \E i \in d.pending : Tells(i, k)
      /\ \A k, m \in e.pending : k.id = m.id => k = m
  BY DEF Thins, Sound
<1>2. OneForGate(e)
  <2> SUFFICES ASSUME NEW k \in e.pending, NEW m \in e.pending,
                      k.slot # None, k.slot = m.slot, ~k.cancelled, ~m.cancelled
               PROVE  k = m
    BY DEF OneForGate
  <2>1. PICK i \in d.pending : Tells(i, k)
    BY <1>1
  <2>2. PICK j \in d.pending : Tells(j, m)
    BY <1>1
  <2>3. i = j
    BY <2>1, <2>2 DEF Tells, OneForGate
  <2> QED
    BY <1>1, <2>1, <2>2, <2>3 DEF Tells
<1>3. ASSUME Within(d) PROVE Within(e)
  <2> DEFINE f == [k \in e.pending |-> CHOOSE i \in d.pending : Tells(i, k)]
  <2>1. \A k \in e.pending : f[k] \in d.pending /\ Tells(f[k], k)
    BY <1>1
  <2>2. \A k, m \in e.pending : f[k] = f[m] => k = m
    BY <1>1, <2>1 DEF Tells
  <2>3. DOMAIN f = e.pending /\ IsFiniteSet(d.pending)
    BY DEF Sound
  <2> HIDE DEF f
  <2>4. /\ Cardinality(e.pending) <= Cardinality(d.pending)
        /\ Cardinality(e.pending) \in Nat /\ Cardinality(d.pending) \in Nat
    BY <2>1, <2>2, <2>3, Into
  <2>5. IsFiniteSet(d.active) /\ Cardinality(d.active) \in Nat
    BY BoundaryAssumption, FS_Subset, FS_CardinalityType DEF Sound, Journal
  <2> QED
    BY <1>3, <2>4, <2>5, BoundaryAssumption DEF Within, Thins
<1> QED
  BY <1>2, <1>3

\* A journal thins itself, and step by step.
LEMMA ThinsTransitive ==
  ASSUME NEW d, NEW e, NEW f
  PROVE  Thins(d, d) /\ (Thins(d, e) /\ Thins(e, f) => Thins(d, f))
<1>1. Thins(d, d)
  BY DEF Thins, Tells
<1>2. ASSUME Thins(d, e), Thins(e, f) PROVE Thins(d, f)
  <2>1. ASSUME NEW k \in f.pending PROVE \E i \in d.pending : Tells(i, k)
    <3>1. PICK j \in e.pending : Tells(j, k)
      BY <1>2 DEF Thins
    <3>2. PICK i \in d.pending : Tells(i, j)
      BY <1>2 DEF Thins
    <3> QED
      BY <3>1, <3>2 DEF Tells
  <2> QED
    BY <1>2, <2>1 DEF Thins
<1> QED
  BY <1>1, <1>2

\* Whatever is not out to be sent is wanted: not withdrawn, and for no gate that
\* is down.
Clean(d) ==
  \A k \in d.pending : Sending(k) \/ (~k.cancelled /\ k.slot \in run.up \cup {None})

\* cancel_item: what is left was there, or is out and now marked.
LEMMA WithdrawShape ==
  ASSUME NEW d, Sound(d), NEW S \in SUBSET d.pending, NEW e, e = Withdraw(d, S)
  PROVE  /\ Thins(d, e)
         /\ \A k \in e.pending :
              \/ k \in d.pending /\ k \notin S
              \/ Sending(k) /\ k.cancelled /\ \E i \in S : i.slot = k.slot
         /\ (\A i \in S : ~Sending(i)) => e.pending = d.pending \ S
<1> DEFINE Marked(i) == [i EXCEPT !.cancelled = TRUE]
           out == {i \in S : Sending(i)}
<1>1. d \in Journal /\ d.pending \in SUBSET Item
  BY DEF Sound, Journal
<1>2. e.pending = ((d.pending \ out) \cup {Marked(i) : i \in out}) \ (S \ out)
      /\ e.active = d.active
  BY <1>1 DEF Withdraw, Retire, Journal
<1>3. \A i \in d.pending : Sending(i) =>
        Tells(i, Marked(i)) /\ Marked(i).cancelled /\ Sending(Marked(i))
  BY <1>1 DEF Item, Tells, Sending
<1> HIDE DEF Marked
<1>4. ASSUME NEW k \in e.pending
      PROVE  \/ k \in d.pending /\ k \notin S
             \/ \E i \in S : Sending(i) /\ k = Marked(i)
  BY <1>2
<1>5. Thins(d, e)
  BY <1>2, <1>3, <1>4 DEF Thins, Tells
<1>6. ASSUME NEW k \in e.pending
      PROVE  \/ k \in d.pending /\ k \notin S
             \/ Sending(k) /\ k.cancelled /\ \E i \in S : i.slot = k.slot
  BY <1>3, <1>4 DEF Tells
<1> QED
  BY <1>2, <1>5, <1>6

\* A clean journal stays clean, whatever is withdrawn.
LEMMA WithdrawClean ==
  ASSUME NEW d, Sound(d), NEW S \in SUBSET d.pending, Clean(d)
  PROVE  Clean(Withdraw(d, S))
BY WithdrawShape DEF Clean

\* settle: what is left was there, and is not withdrawn unless it is out.
LEMMA SettledShape ==
  ASSUME NEW d, d \in Journal, NEW e, e = Settled(d)
  PROVE  Thins(d, e) /\ \A k \in e.pending : Sending(k) \/ ~k.cancelled
<1> DEFINE Aged(i) == IF Abandoned(i) THEN [i EXCEPT !.outcome = "unknown"] ELSE i
           aged == {Aged(i) : i \in d.pending}
<1>1. d \in Journal /\ d.pending \in SUBSET Item
  BY DEF Journal
<1>2. e.pending = aged \ {i \in aged : Over(i)} /\ e.active = d.active
  BY <1>1 DEF Settled, Retire, Journal
<1>3. \A i \in d.pending : Tells(i, Aged(i))
  BY <1>1 DEF Item, Tells
<1> HIDE DEF Aged
<1>4. Thins(d, e)
  BY <1>2, <1>3 DEF Thins
<1> QED
  BY <1>2, <1>4 DEF Over


\* The bound on the outbox binds: what may not be dropped are one request and
\* one item for each gate that is up.
LEMMA BoundedWithin ==
  ASSUME NEW d, Sound(d), Clean(d), OneForGate(d), RunInv, d.active = run.up
  PROVE  Within(Bounded(d))
<1> DEFINE movable == {i \in d.pending : ~Sending(i) /\ i.slot = None}
           excess == Cardinality(d.pending) - (MaxPending + Cardinality(run.up))
           lower(i) == {j \in movable : j.rank < i.rank}
           old == {i \in movable : Cardinality(lower(i)) < excess}
           e == Bounded(d)
<1>1. d.pending \in SUBSET Item /\ IsFiniteSet(d.pending) /\ Cardinality(d.pending) \in Nat
  BY FS_CardinalityType DEF Sound, Journal
<1>2. IsFiniteSet(run.up) /\ Cardinality(run.up) \in Nat
  BY BoundaryAssumption, FS_Subset, FS_CardinalityType DEF RunInv
<1>3. old \subseteq movable /\ movable \in SUBSET d.pending
  OBVIOUS
<1>4. e = Withdraw(d, old)
  BY DEF Bounded
<1>5. \A i \in old : ~Sending(i)
  OBVIOUS
<1>6. e.pending = d.pending \ old /\ e.active = d.active
  <2> HIDE DEF old, movable, e
  <2> QED
    BY <1>3, <1>4, <1>5, WithdrawShape DEF Thins
<1>7. SUFFICES Cardinality(d.pending \ old) <= MaxPending + Cardinality(run.up)
  BY <1>6 DEF Within
<1>8. IsFiniteSet(old) /\ IsFiniteSet(movable)
  <2> HIDE DEF old, movable
  <2> QED
    BY <1>1, <1>3, FS_Subset
<1>9. Cardinality(d.pending \ old) = Cardinality(d.pending) - Cardinality(old)
  <2>1. d.pending \cap old = old
    BY <1>3
  <2> HIDE DEF old
  <2> QED
    BY <1>1, <2>1, FS_Difference
<1>10. Cardinality(old) \in Nat
  BY <1>8, FS_CardinalityType
<1>11. CASE ~(excess > 0)
  BY <1>1, <1>2, <1>9, <1>10, <1>11, BoundaryAssumption
<1>12. CASE old = movable
  <2> DEFINE out == {i \in d.pending : Sending(i)}
             kept == {i \in d.pending : ~Sending(i) /\ i.slot # None}
             f == [i \in kept |-> i.slot]
  <2>1. d.pending \ old = out \cup kept
    BY <1>12
  <2>2. IsFiniteSet(out) /\ Cardinality(out) <= 1 /\ Cardinality(out) \in Nat
    <3>1. \A i, j \in out : i = j
      BY DEF Sound
    <3>2. out = {} \/ \E i : out = {i}
      <4> HIDE DEF out
      <4> QED
        BY <3>1
    <3> HIDE DEF out
    <3>3. CASE out = {}
      BY <3>3, FS_EmptySet
    <3>4. ASSUME NEW i, out = {i} PROVE IsFiniteSet(out) /\ Cardinality(out) = 1
      BY <3>4, FS_Singleton
    <3> QED
      BY <3>2, <3>3, <3>4
  <2>3. \A i \in kept : f[i] \in run.up
    BY DEF Clean
  <2>4. \A i, j \in kept : f[i] = f[j] => i = j
    BY DEF Clean, OneForGate
  <2>5. /\ IsFiniteSet(kept) /\ Cardinality(kept) <= Cardinality(run.up)
        /\ Cardinality(kept) \in Nat
    <3>1. DOMAIN f = kept
      OBVIOUS
    <3> HIDE DEF f, kept
    <3> QED
      BY <1>2, <2>3, <2>4, <3>1, Into
  <2>6. Cardinality(out \cup kept) = Cardinality(out) + Cardinality(kept)
                                        - Cardinality(out \cap kept)
    <3> HIDE DEF out, kept
    <3> QED
      BY <2>2, <2>5, FS_Union
  <2>7. out \cap kept = {}
    OBVIOUS
  <2>8. Cardinality(out \cup kept) = Cardinality(out) + Cardinality(kept)
    <3>1. Cardinality(out \cap kept) = 0
      BY <2>7, FS_EmptySet
    <3> HIDE DEF out, kept
    <3> QED
      BY <2>2, <2>5, <2>6, <3>1
  <2>9. Cardinality(out \cup kept) <= MaxPending + Cardinality(run.up)
    <3>1. MaxPending \in Nat /\ 1 <= MaxPending
      BY BoundaryAssumption
    <3> HIDE DEF out, kept
    <3> QED
      BY <1>2, <2>2, <2>5, <2>8, <3>1
  <2> QED
    BY <2>1, <2>9
<1>13. CASE excess > 0 /\ old # movable
  <2> DEFINE ranks == {i.rank : i \in movable \ old}
             f == [i \in movable \ old |-> i.rank]
  <2>1. DOMAIN f = movable \ old /\ ranks = {f[i] : i \in movable \ old}
    OBVIOUS
  <2>2. IsFiniteSet(movable \ old)
    <3> HIDE DEF movable, old
    <3> QED
      BY <1>8, FS_Subset
  <2>3. IsFiniteSet(ranks)
    <3> HIDE DEF f, ranks, movable, old
    <3> QED
      BY <2>1, <2>2, Images
  <2>4. ranks \in SUBSET Nat /\ ranks # {}
    <3>1. \A i \in movable : i.rank \in Nat
      BY <1>1 DEF Item
    <3> HIDE DEF movable, old
    <3> QED
      BY <1>3, <1>13, <3>1
  <2>5. \E n \in ranks : \A m \in ranks : n <= m
    <3> HIDE DEF ranks
    <3> QED
      BY <2>3, <2>4, Least
  <2>6. PICK i \in movable \ old : \A j \in movable \ old : i.rank <= j.rank
    BY <2>5
  <2>7. lower(i) \subseteq old
    <3> SUFFICES ASSUME NEW j \in movable, j.rank < i.rank PROVE j \in old
      OBVIOUS
    <3>1. i.rank \in Nat /\ j.rank \in Nat
      BY <1>1 DEF Item
    <3> HIDE DEF movable, old
    <3> QED
      BY <2>6, <3>1
  <2>8. /\ Cardinality(lower(i)) <= Cardinality(old) /\ Cardinality(lower(i)) \in Nat
    <3> HIDE DEF lower, old
    <3> QED
      BY <1>8, <2>7, FS_Subset, FS_CardinalityType
  <2>9. ~(Cardinality(lower(i)) < excess)
    BY <2>6
  <2>10. Cardinality(old) >= excess
    <3> HIDE DEF lower, old
    <3> QED
      BY <1>1, <1>2, <1>10, <2>8, <2>9, BoundaryAssumption
  <2> HIDE DEF old
  <2> QED
    BY <1>1, <1>2, <1>9, <1>10, <2>10, BoundaryAssumption
<1> QED
  BY <1>11, <1>12, <1>13

\* The projected gates are up, and each is projected once.
LEMMA GatesFact ==
  ASSUME NEW d, RunInv, NEW r, NEW E, E = Projected(d, r)
  PROVE  /\ \A v \in E : v.slot \in run.up \cup {None}
         /\ \A v, w \in E : v.slot # None /\ v.slot = w.slot => v = w
<1> DEFINE gate(g) == Event(Id("gate", g, 0), g,
                            IF g \in Bearers(r) THEN r.outcome ELSE None, TRUE)
<1>1. \A v \in E : v.slot = None \/ \E g \in run.up : v = gate(g)
  <2> DEFINE gates == {gate(g) : g \in run.up}
             facts == {Event(Id("fact", f, 0), None, None, FALSE) : f \in run.shown}
             told == IF r = None \/ Bearers(r) # {} THEN {}
                     ELSE {Event(Id("resume", r.outcome, 0), None, r.outcome,
                                 r.outcome = "failed")}
             exits == IF d.exit = 0 \/ ~ExitCurrent(d.exit) THEN {}
                      ELSE {Event(Id("exit", None, d.exit), None, None, TRUE)}
  <2>1. \A x, y, b : Event(x, None, y, b).slot = None
    BY DEF Event
  <2>2. \A v \in facts : v.slot = None
    BY <2>1
  <2>3. \A v \in told : v.slot = None
    BY <2>1
  <2>4. \A v \in exits : v.slot = None
    BY <2>1
  <2>5. \A v \in gates : \E g \in run.up : v = gate(g)
    OBVIOUS
  <2>6. E = facts \cup gates \cup told \cup exits
    BY DEF Projected
  <2> HIDE DEF facts, gates, told, exits, gate
  <2> QED
    BY <2>2, <2>3, <2>4, <2>5, <2>6
<1>2. \A g : gate(g).slot = g
  BY DEF Event
<1> HIDE DEF gate
<1> QED
  BY <1>1, <1>2

\* enqueue: a gate that rises again has one item that was not withdrawn.
LEMMA EnqueueSize ==
  ASSUME NEW d, Sound(d), Clean(d), OneForGate(d), NEW N,
         \A v \in N : v.slot \in run.up \cup {None},
         \A v, w \in N : v.slot # None /\ v.slot = w.slot => v = w,
         NEW f, f.pending = Enqueue(d, N).pending
  PROVE  Clean(f) /\ OneForGate(f)
<1> DEFINE gates == {v \in N : v.slot # None}
           old == {i \in d.pending : i.slot \in {v.slot : v \in gates}}
           rank == Order(N)
           n == Order(gates)
           item(v) == NewItem(v, Last(d) + rank[v], IF v \in gates THEN d.sequence + n[v] ELSE 0)
           w == Withdraw(d, old)
<1>1. old \in SUBSET d.pending
  OBVIOUS
<1>2. /\ Sound(w) /\ Clean(w) /\ Thins(d, w)
      /\ \A k \in w.pending : (k \in d.pending /\ k \notin old) \/ k.cancelled
  <2> HIDE DEF old
  <2> QED
    BY <1>1, WithdrawFact, WithdrawClean, WithdrawShape
<1>3. f.pending = w.pending \cup {item(v) : v \in N}
  <2>1. w \in Journal
    BY <1>2 DEF Sound
  <2> QED
    BY <2>1 DEF Enqueue, Journal
<1>4. OneForGate(w)
  BY <1>2, ThinsFact
<1>5. \A v \in N : item(v).slot = v.slot /\ item(v).cancelled = FALSE
  BY DEF NewItem
<1>6. ASSUME NEW k \in w.pending, NEW v \in N, v.slot # None, k.slot = v.slot
      PROVE  k.cancelled
  BY <1>2, <1>6
<1> HIDE DEF item, w, old, gates, rank, n
<1>7. Clean(f)
  BY <1>2, <1>3, <1>5 DEF Clean
<1>8. OneForGate(f)
  <2> SUFFICES ASSUME NEW i \in f.pending, NEW j \in f.pending,
                      i.slot # None, i.slot = j.slot, ~i.cancelled, ~j.cancelled
               PROVE  i = j
    BY DEF OneForGate
  <2>1. CASE i \in w.pending /\ j \in w.pending
    BY <1>4, <2>1 DEF OneForGate
  <2>2. ASSUME NEW v \in N, i = item(v) PROVE i = j
    <3>1. v.slot # None /\ j.slot = v.slot
      BY <1>5, <2>2
    <3>2. PICK x \in N : j = item(x)
      BY <1>3, <1>6, <3>1
    <3> QED
      BY <1>5, <2>2, <3>1, <3>2
  <2>3. ASSUME NEW v \in N, j = item(v), i \in w.pending PROVE i = j
    BY <1>5, <1>6, <2>3
  <2> QED
    BY <1>3, <2>1, <2>2, <2>3
<1> QED
  BY <1>7, <1>8

\* An observation leaves a journal within its bound.
LEMMA ObservedSize ==
  ASSUME NEW d, Sound(d), Told(d), RunInv, OneForGate(d), NEW r \in Outcome,
         NEW recovering, NEW e \in Observed(d, r, recovering)
  PROVE  OneForGate(e) /\ Within(e)
<1> DEFINE now == Settled(d)
           E == Projected(d, r)
           N == {v \in E : ~Known(now, v)}
           old == Outdated(now, E)
           left == Withdraw(now, old)
           f == Taken(left, E, N)
<1>1. /\ Sound(now) /\ Sound(left) /\ Sound(f)
      /\ f.pending = Enqueue(left, N).pending /\ f.active = run.up
  BY TakenFact
<1>2. \E again, added : e = Bounded(Compressed(f, r, again, added))
  <2>1. /\ now = Settled(d) /\ E = Projected(d, r) /\ N = {v \in E : ~Known(now, v)}
        /\ left = Withdraw(now, Outdated(now, E))
        /\ f = Taken(left, E, N)
    OBVIOUS
  <2> HIDE DEF now, E, N, old, left, f
  <2> QED
    BY <2>1, ObservedForm
<1>3. /\ N \subseteq E /\ old \in SUBSET now.pending
      /\ \A k \in now.pending \ old : k.slot \in run.up \cup {None}
  BY DEF Outdated
<1>4. d \in Journal
  BY DEF Sound
<1>5. Thins(d, now) /\ \A k \in now.pending : Sending(k) \/ ~k.cancelled
  BY <1>4, SettledShape
<1>6. /\ \A v \in E : v.slot \in run.up \cup {None}
      /\ \A v, w \in E : v.slot # None /\ v.slot = w.slot => v = w
  BY GatesFact
<1> HIDE DEF now, E, N, old, f
<1>7. /\ Thins(now, left)
      /\ \A k \in left.pending : (k \in now.pending /\ k \notin old) \/ Sending(k)
  BY <1>1, <1>3, WithdrawShape
<1> HIDE DEF left
<1>8. OneForGate(now)
  BY <1>1, <1>5, ThinsFact
<1>9. OneForGate(left)
  BY <1>1, <1>7, <1>8, ThinsFact
<1>10. Clean(left)
  BY <1>3, <1>5, <1>7 DEF Clean
<1>11. Clean(f) /\ OneForGate(f)
  BY <1>1, <1>3, <1>6, <1>9, <1>10, EnqueueSize
<1>12. PICK again, added : e = Bounded(Compressed(f, r, again, added))
  BY <1>2
<1> DEFINE c == Compressed(f, r, again, added)
<1>13. Sound(c) /\ Clean(c) /\ OneForGate(c) /\ c.active = run.up
  <2> DEFINE ordinary == {i \in f.pending : ~i.important /\ ~Sending(i)}
             gone == ordinary \ Fresh(ordinary, r)
  <2>1. gone \in SUBSET f.pending /\ c \in {f, Withdraw(f, gone)}
    BY DEF Compressed
  <2>2. Sound(c)
    BY <1>1, CompressedFact
  <2> HIDE DEF gone, c
  <2>3. Clean(c)
    BY <1>1, <1>11, <2>1, WithdrawClean
  <2>4. Thins(f, c)
    BY <1>1, <2>1, WithdrawShape, ThinsTransitive
  <2> QED
    BY <1>1, <1>11, <2>2, <2>3, <2>4, ThinsFact DEF Thins
<1>14. e = Bounded(c)
  BY <1>12
<1> HIDE DEF c
<1>15. Within(e)
  BY <1>13, <1>14, BoundedWithin
<1>16. OneForGate(e)
  <2> DEFINE movable == {i \in c.pending : ~Sending(i) /\ i.slot = None}
             excess == Cardinality(c.pending) - (MaxPending + Cardinality(run.up))
             gone == {i \in movable : Cardinality({j \in movable : j.rank < i.rank}) < excess}
  <2>1. gone \in SUBSET c.pending /\ e = Withdraw(c, gone)
    BY <1>14 DEF Bounded
  <2>2. Sound(e)
    BY <1>13, <1>14, BoundedFact
  <2> HIDE DEF gone
  <2>3. Thins(c, e)
    BY <1>13, <2>1, WithdrawShape
  <2> QED
    BY <1>13, <2>2, <2>3, ThinsFact
<1> QED
  BY <1>15, <1>16

\* Items that get another outcome stay what they were.
LEMMA OutcomesThin ==
  ASSUME NEW d, d \in Journal, NEW M, DOMAIN M = d.pending,
         \A i \in d.pending : Retold(i, M[i]),
         NEW e, e = [d EXCEPT !.pending = {M[i] : i \in d.pending}]
  PROVE  e \in Journal /\ Thins(d, e)
<1>1. \A i \in d.pending : M[i] \in Item /\ Tells(i, M[i])
  <2> SUFFICES ASSUME NEW i \in d.pending PROVE M[i] \in Item /\ Tells(i, M[i])
    OBVIOUS
  <2>1. i \in Item
    BY DEF Journal
  <2>2. \A o \in Outcomes : /\ [i EXCEPT !.outcome = o] \in Item
                            /\ Tells(i, [i EXCEPT !.outcome = o])
    BY <2>1 DEF Item, Tells
  <2>3. CASE M[i] = i
    BY <2>1, <2>3 DEF Tells
  <2>4. CASE M[i] # i
    <3>1. PICK o \in Outcomes : M[i] = [i EXCEPT !.outcome = o]
      BY <2>4 DEF Retold
    <3> QED
      BY <2>2, <3>1
  <2> QED
    BY <2>3, <2>4
<1>2. e.pending = {M[i] : i \in d.pending} /\ e.active = d.active
  BY DEF Journal
<1>3. e.pending \in SUBSET Item
  BY <1>1, <1>2
<1>4. e \in Journal
  BY <1>2, <1>3 DEF Journal
<1> QED
  BY <1>1, <1>2, <1>4 DEF Thins

\* The end of an attempt, the release of a claim and the end of a failed process.
LEMMA AttemptsThin ==
  ASSUME NEW d, d \in Journal, NEW s
  PROVE  /\ \A o \in {"success", "failed", "unknown"} :
              Finished(d, s, o) \in Journal /\ Thins(d, Finished(d, s, o))
         /\ Thins(d, Released(d, s))
         /\ LET e == [d EXCEPT !.pending =
                        {[i EXCEPT !.outcome = IF @ = "pending" THEN "failed" ELSE @] : i \in @}]
            IN  e \in Journal /\ Thins(d, e)
<1>1. ASSUME NEW o \in {"success", "failed", "unknown"}
      PROVE  Finished(d, s, o) \in Journal /\ Thins(d, Finished(d, s, o))
  <2> DEFINE M == [i \in d.pending |-> IF i.owner = s /\ i.id = sender[s].item
                                       THEN [i EXCEPT !.outcome = o] ELSE i]
  <2>1. \A i \in d.pending : Retold(i, M[i])
    BY DEF Retold, Outcomes
  <2>2. /\ DOMAIN M = d.pending
        /\ Finished(d, s, o) = [d EXCEPT !.pending = {M[i] : i \in d.pending}]
    BY DEF Finished, Journal
  <2> HIDE DEF M
  <2> QED
    BY <2>1, <2>2, OutcomesThin
<1>2. Thins(d, Released(d, s))
  <2> DEFINE M == [i \in d.pending |-> IF i.owner = s /\ Sending(i)
                                       THEN [i EXCEPT !.outcome = "unknown"] ELSE i]
  <2>1. \A i \in d.pending : Retold(i, M[i])
    BY DEF Retold, Outcomes
  <2>2. /\ DOMAIN M = d.pending
        /\ Released(d, s) = [d EXCEPT !.pending = {M[i] : i \in d.pending}]
    BY DEF Released, Journal
  <2> HIDE DEF M
  <2> QED
    BY <2>1, <2>2, OutcomesThin
<1>3. LET e == [d EXCEPT !.pending =
                  {[i EXCEPT !.outcome = IF @ = "pending" THEN "failed" ELSE @] : i \in @}]
      IN  e \in Journal /\ Thins(d, e)
  <2> DEFINE g(i) == [i EXCEPT !.outcome = IF @ = "pending" THEN "failed" ELSE @]
             M == [i \in d.pending |-> g(i)]
             e == [d EXCEPT !.pending = {g(i) : i \in d.pending}]
  <2>1. ASSUME NEW i \in d.pending PROVE Retold(i, M[i])
    <3>1. i \in Item
      BY DEF Journal
    <3>2. CASE i.outcome = "pending"
      <4>1. M[i] = [i EXCEPT !.outcome = "failed"]
        BY <3>1, <3>2
      <4> QED
        BY <4>1 DEF Retold, Outcomes
    <3>3. CASE i.outcome # "pending"
      <4>1. M[i] = i
        BY <3>1, <3>3 DEF Item
      <4> QED
        BY <4>1 DEF Retold
    <3> QED
      BY <3>2, <3>3
  <2>2. \A i \in d.pending : M[i] = g(i)
    OBVIOUS
  <2>3. DOMAIN M = d.pending
    OBVIOUS
  <2> HIDE DEF M, g
  <2>4. e = [d EXCEPT !.pending = {M[i] : i \in d.pending}]
    BY <2>2
  <2> HIDE DEF e
  <2>5. e \in Journal /\ Thins(d, e)
    BY <2>1, <2>3, <2>4, OutcomesThin
  <2> USE DEF e, g
  <2> QED
    BY <2>5
<1> QED
  BY <1>1, <1>2, <1>3

\* A step that adds no event keeps the size.
LEMMA ThinStep ==
  ASSUME IInv, IInv', SizeInv, Thins(journal, journal')
  PROVE  SizeInv'
<1>1. Sound(journal) /\ Sound(journal')
  BY DEF IInv, Sound, Sending
<1>2. OneForGate(journal') /\ Within(journal')
  BY <1>1, ThinsFact DEF SizeInv
<1> QED
  BY <1>2 DEF SizeInv, OneForGate, Within

\* An observation keeps it, whatever the sender then does with what is there.
LEMMA ObservedSizeStep ==
  ASSUME IInv, IInv', SizeInv, NEW r \in Outcome, NEW recovering,
         NEW e \in Observed(journal, r, recovering), Thins(e, journal')
  PROVE  SizeInv'
<1>1. Sound(journal') /\ Sound(e)
  BY ObservedFact DEF IInv, Sound, Sending
<1>2. OneForGate(e) /\ Within(e)
  BY ObservedSize DEF IInv, SizeInv
<1>3. OneForGate(journal') /\ Within(journal')
  BY <1>1, <1>2, ThinsFact
<1> QED
  BY <1>3 DEF SizeInv, OneForGate, Within

\* A worker's look is an observation, settled.
LEMMA LookedSizeStep ==
  ASSUME IInv, IInv', SizeInv, NEW s \in Sender, NEW e \in Looked(s), Thins(e, journal')
  PROVE  SizeInv'
<1>1. sender[s].result \in Outcome
  BY DEF IInv, SenderInv, Process
<1>2. PICK d \in Observed(journal, sender[s].result, FALSE) : e = Settled(d)
  BY DEF Looked
<1>3. d \in Journal
  BY <1>1, ObservedFact DEF IInv, Sound
<1>4. Thins(d, journal')
  BY <1>2, <1>3, SettledShape, ThinsTransitive
<1> QED
  BY <1>1, <1>4, ObservedSizeStep

\* Every step keeps the size of the outbox.
LEMMA SizeKept ==
  ASSUME IInv, IInv', SizeInv, Next
  PROVE  SizeInv'
<1>1. journal \in Journal /\ Thins(journal, journal)
  BY ThinsTransitive DEF IInv, Sound
<1>2. CASE journal' = journal
  BY <1>1, <1>2, ThinStep
<1>3. CASE Business
  <2>1. journal'.pending = journal.pending /\ journal'.active = journal.active
    BY <1>1, <1>3 DEF Business, Raise, Clear, Reach, Roll, EndRound, Change, Quiet, NoteExit,
                      SkipExit, Report, Journal
  <2> QED
    BY <1>1, <2>1, ThinStep DEF Thins
<1>4. CASE Expire
  <2>1. PICK i \in journal.pending :
          journal' = [journal EXCEPT !.pending = (@ \ {i}) \cup {[i EXCEPT !.expired = TRUE]}]
    BY <1>4 DEF Expire
  <2>2. Tells(i, [i EXCEPT !.expired = TRUE]) /\ \A j : Tells(j, j)
    BY <1>1 DEF Tells, Journal, Item
  <2>3. /\ journal'.pending = (journal.pending \ {i}) \cup {[i EXCEPT !.expired = TRUE]}
        /\ journal'.active = journal.active
    BY <1>1, <2>1 DEF Journal
  <2> QED
    BY <2>2, <2>3, ThinStep DEF Thins
<1>5. ASSUME NEW s \in Sender,
             \/ OpenExecutor(s) \/ OpenHook(s) \/ OpenCommand(s) \/ Observe(s) \/ Close(s)
      PROVE  SizeInv'
  <2>1. sender[s].result \in Outcome
    BY DEF IInv, SenderInv, Process
  <2>2. \/ journal' = journal
        \/ \E r \in Outcome, recovering \in BOOLEAN : journal' \in Observed(journal, r, recovering)
    <3>1. CASE OpenExecutor(s) \/ OpenHook(s) \/ OpenCommand(s)
      <4>1. \E r \in Outcome : OpenAs(s, Opened(r))
        BY <3>1 DEF OpenExecutor, OpenHook, OpenCommand, Outcome, Result, IInv, RunInv
      <4>2. \A r : Opened(r).result = r
        BY DEF Opened, NewSender
      <4> QED
        BY <4>1, <4>2 DEF OpenAs
    <3>2. CASE Observe(s)
      BY <2>1, <3>2 DEF Observe, Observing
    <3>3. CASE Close(s)
      <4> DEFINE x == [sender[s] EXCEPT !.proc = "closing", !.thread = Woken(@)]
      <4>1. Observing(s, x) \/ journal' = journal
        BY <3>3 DEF Close
      <4>2. x.result = sender[s].result
        BY DEF IInv, SenderInv, Process
      <4> HIDE DEF x
      <4> QED
        BY <2>1, <4>1, <4>2 DEF Observing
    <3> QED
      BY <1>5, <3>1, <3>2, <3>3
  <2>3. ASSUME NEW r \in Outcome, NEW recovering \in BOOLEAN,
               journal' \in Observed(journal, r, recovering)
        PROVE  SizeInv'
    <3>1. Thins(journal', journal')
      BY ThinsTransitive
    <3> QED
      BY <2>3, <3>1, ObservedSizeStep
  <2> QED
    BY <1>2, <2>2, <2>3
<1>6. ASSUME NEW s \in Sender, Exit(s)
      PROVE  SizeInv'
  <2> DEFINE e == [journal EXCEPT !.pending =
                     {[i EXCEPT !.outcome = IF @ = "pending" THEN "failed" ELSE @] : i \in @}]
  <2>1. journal' = journal \/ journal' = Settled(e)
    BY <1>6 DEF Exit
  <2>2. e \in Journal /\ Thins(journal, e)
    BY <1>1, AttemptsThin
  <2> HIDE DEF e
  <2>3. journal' = Settled(e) => Thins(journal, journal')
    BY <2>2, SettledShape, ThinsTransitive
  <2> QED
    BY <1>2, <2>1, <2>3, ThinStep
<1>7. ASSUME NEW s \in Sender, Claim(s)
      PROVE  SizeInv'
  <2> DEFINE Sent(e, i) == [e EXCEPT !.pending = (@ \ {i}) \cup
        {[i EXCEPT !.outcome = "sending", !.owner = s, !.attempts = @ + 1]}]
  <2>1. PICK e \in Looked(s) : \E i \in Claimable(e) : journal' = Sent(e, i)
    BY <1>7 DEF Claim
  <2>2. PICK i \in Claimable(e) : journal' = Sent(e, i)
    BY <2>1
  <2> DEFINE k == [i EXCEPT !.outcome = "sending", !.owner = s, !.attempts = @ + 1]
  <2>3. e \in Journal /\ e.pending \subseteq Item /\ i \in e.pending
    BY LookedFact DEF Sound, Journal, Claimable
  <2>4. Tells(i, k) /\ \A j : Tells(j, j)
    BY <2>3 DEF Tells, Item
  <2>5. journal'.pending = (e.pending \ {i}) \cup {k} /\ journal'.active = e.active
    BY <2>2, <2>3 DEF Journal
  <2> HIDE DEF k
  <2>6. Thins(e, journal')
    BY <2>3, <2>4, <2>5 DEF Thins
  <2> QED
    BY <2>6, LookedSizeStep
<1>8. ASSUME NEW s \in Sender, Rest(s)
      PROVE  SizeInv'
  <2>1. journal' \in Looked(s) /\ Thins(journal', journal')
    BY <1>8, ThinsTransitive DEF Rest
  <2> QED
    BY <2>1, LookedSizeStep
<1>9. ASSUME NEW s \in Sender, Refuse(s) \/ Answer(s)
      PROVE  SizeInv'
  <2>1. PICK o \in {"success", "failed", "unknown"} : EndAttempt(s, o)
    BY <1>9 DEF Refuse, Answer
  <2>2. Finished(journal, s, o) \in Journal /\ Thins(journal, Finished(journal, s, o))
    BY <1>1, AttemptsThin
  <2>3. journal' = Settled(Finished(journal, s, o))
    BY <2>1 DEF EndAttempt
  <2>4. Thins(journal, journal')
    BY <2>2, <2>3, SettledShape, ThinsTransitive
  <2> QED
    BY <2>4, ThinStep
<1>10. ASSUME NEW s \in Sender, LookFails(s) \/ LoseResult(s)
       PROVE  SizeInv'
  <2>1. journal' = journal \/ journal' = Released(journal, s)
    BY <1>10 DEF LookFails, LoseResult
  <2> QED
    BY <1>1, <1>2, <2>1, AttemptsThin, ThinStep
<1>11. ASSUME NEW s \in Sender,
              \/ Start(s) \/ Join(s) \/ Kill(s) \/ Park(s) \/ Recover(s) \/ Quit(s) \/ Submit(s)
       PROVE  journal' = journal
  BY <1>11 DEF Start, Join, Kill, Park, Recover, Quit, Submit
<1> QED
  BY <1>2, <1>3, <1>4, <1>5, <1>6, <1>7, <1>8, <1>9, <1>10, <1>11 DEF Next, Work

\* The outbox never holds more than MAX_PENDING items and one for each gate
\* that was up at the last observation: what an observation may not drop are the
\* request that is out and one item of each gate, and nothing else adds events.
THEOREM BoundSafe == Spec => []JournalBounded
<1>1. Init => SizeInv
  <2>1. ASSUME Init PROVE SizeInv
    <3>1. /\ journal.pending = {} /\ journal.active = {}
          /\ Cardinality({}) = 0 /\ 0 <= MaxPending
      BY <2>1, FS_EmptySet, BoundaryAssumption DEF Init
    <3>2. 0 <= MaxPending + 0
      BY BoundaryAssumption
    <3> QED
      BY <3>1, <3>2 DEF SizeInv, OneForGate, Within
  <2> QED
    BY <2>1
<1>2. IInv /\ IInv' /\ SizeInv /\ [Next]_vars => SizeInv'
  <2>1. UNCHANGED vars /\ SizeInv => SizeInv'
    BY DEF vars, SizeInv, OneForGate, Within
  <2> QED
    BY <2>1, SizeKept
<1>3. SizeInv => JournalBounded
  BY DEF SizeInv, Within, JournalBounded
<1> QED
  BY <1>1, <1>2, <1>3, Invariant, PTL DEF Spec

=============================================================================
