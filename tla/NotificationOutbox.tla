------------------------- MODULE NotificationOutbox -------------------------
(***************************************************************************)
(* Delivery of the notifications of one Delivery Run: the journal in       *)
(* <root>/notifications (notification_outbox.py), the senders that share   *)
(* it (notifications.py), the transport (notification_transport.py) and    *)
(* the observation of an Executor's exit (executor_exit.py).               *)
(*                                                                         *)
(* Every Executor, the exit hook that systemd runs after it, and a `resume'*)
(* command that reports a failure of its own are processes with one sender *)
(* each.  A sender has a business thread, which observes the Run after its *)
(* saves, and one worker thread.  Journal transactions hold a file lock    *)
(* and read the Run inside it, so that a transaction is one step; the call *)
(* of the transport happens outside of it.                                 *)
(*                                                                         *)
(* Data are abstracted: a progress fact, a gate and the exit of an         *)
(* Executor are events.  Of the clock there is left that deadlines pass in *)
(* the order of creation, and that an item once tried waits for a while.   *)
(* The reported unavailable_reason and delivery_error are left out, as is  *)
(* the supersession of a round's result by the gate it led to.             *)
(***************************************************************************)
EXTENDS Integers, FiniteSets

CONSTANTS Slot,           \* gates: identities of current boundaries
          Fact,           \* progress facts
          Milestone,      \* the facts remembered when history rolls
          Resumers,       \* the senders that project the result of the Resume
          MaxGeneration,  \* bound: generations of the Executor
          MaxAttempts,    \* MAX_ATTEMPTS
          MaxPending,     \* MAX_PENDING
          MaxChanges,     \* bound: changes of gates and facts
          MaxFaults,      \* bound: how many faults happen
          Faults,         \* "kill", "read", "write", "writes", "thread", "timeout"
          None

Sender == [role : {"executor", "hook"}, gen : 1..MaxGeneration]
            \cup {[role |-> "cli", gen |-> 0]}

ASSUME SenderAssumption == None \notin Sender
ASSUME FactAssumption == Milestone \subseteq Fact /\ Resumers \subseteq Sender
ASSUME BoundaryAssumption ==
  /\ IsFiniteSet(Slot) /\ IsFiniteSet(Fact)
  /\ None \notin Slot \cup {"started", "failed"}
  /\ MaxAttempts \in Nat \ {0} /\ MaxPending \in Nat \ {0}
  /\ MaxGeneration \in Nat

VARIABLES
  run,      \* the Run: gates up, facts shown and rolled, the live round
  session,  \* what Task Control says of the Executor: its generation, and
            \* whether its exit would still be news
  journal,  \* the notification journal of the Run
  sender,   \* each process with its worker thread
  budget    \* what the bounds count

vars == <<run, session, journal, sender, budget>>

\* proc: the process, "idle" before and "ended" or "dead" after it lived; one
\* that has "begun" has no sender yet.
\* thread: the worker. "loop" and "waiting" are _deliver, "check" and "sent" a
\* transport before and after the request, "parked" the wait of _work.
NewSender == [proc |-> "idle", thread |-> "none", item |-> None, result |-> None,
              failure |-> FALSE, recovery |-> FALSE]

Alive(s) == sender[s].proc \in {"open", "closing", "closed"}
Closed(s) == sender[s].proc = "closed"

\* The cancel event: set by a failure or by closing, cleared by recovery.
Cancelled(s) == sender[s].failure \/ Closed(s)

Transporting(s) == sender[s].thread \in {"check", "sent"}

Fault(f) == /\ f \in Faults
            /\ budget.faults > 0
            /\ budget' = [budget EXCEPT !.faults = @ - 1]

-----------------------------------------------------------------------------
(* The journal: claims, cancellation and settlement.                       *)

Sending(i) == i.outcome = "sending"

\* retire: the item leaves the outbox, its record stays.
Retire(d, S) ==
  [d EXCEPT !.pending = @ \ S,
            !.records = @ \cup {i.id : i \in S}]

\* cancel_item, for each item of S; a request that is out is only marked.
Withdraw(d, S) ==
  LET out == {i \in S : Sending(i)} IN
  Retire([d EXCEPT !.pending = (@ \ out) \cup {[i EXCEPT !.cancelled = TRUE] : i \in out}],
         S \ out)

\* Mutant: an owner counts as gone only when it ended in good order.
AbandonedInOrder(i) == Sending(i) /\ sender[i.owner].proc = "ended"

Abandoned(i) == Sending(i) /\ ~Alive(i.owner)

\* Mutant: an interrupted progress message is treated like a failed one.
OverUnlessFailed(i) ==
  /\ ~Sending(i)
  /\ \/ i.outcome = "success"
     \/ i.expired
     \/ i.attempts >= MaxAttempts
     \/ i.cancelled

Over(i) ==
  /\ ~Sending(i)
  /\ \/ i.outcome = "success"
     \/ i.expired
     \/ i.attempts >= MaxAttempts
     \/ i.cancelled
     \/ i.outcome = "unknown" /\ ~i.important

\* settle: the claim of a process that is gone has an unknown result.
Settled(d) ==
  LET aged == {IF Abandoned(i) THEN [i EXCEPT !.outcome = "unknown"] ELSE i
                 : i \in d.pending}
  IN Retire([d EXCEPT !.pending = aged], {i \in aged : Over(i)})

-----------------------------------------------------------------------------
(* What a sender projects of the Run.                                      *)

Id(kind, of, n) == [kind |-> kind, of |-> of, n |-> n]
Event(id, slot, resume, important) ==
  [id |-> id, slot |-> slot, resume |-> resume, important |-> important]

\* _current: the exit is still that of the Executor that Task Control knows.
ExitCurrent(g) == session.gen = g /\ session.current

\* _apply_result: a failed Resume is told by the one gate it can be matched to.
Bearers(r) ==
  IF r = None \/ r.outcome = "started" THEN {}
  ELSE LET M == {g \in run.up : r.slot \in {None, g}} IN
       IF Cardinality(M) = 1 THEN M ELSE {}

\* events and exit_event, for a sender whose Resume came to r.  A gate is
\* "current": it has a slot.
Projected(d, r) ==
  {Event(Id("fact", f, 0), None, None, FALSE) : f \in run.shown}
  \cup {Event(Id("gate", g, 0), g,
              IF g \in Bearers(r) THEN r.outcome ELSE None, TRUE)
          : g \in run.up}
  \cup (IF r = None \/ Bearers(r) # {} THEN {}
        ELSE {Event(Id("resume", r.outcome, 0), None, r.outcome, r.outcome = "failed")})
  \cup (IF d.exit = 0 \/ ~ExitCurrent(d.exit) THEN {}
        ELSE {Event(Id("exit", None, d.exit), None, None, TRUE)})

\* recovery_events: the one progress message of S worth telling late, if any.
Fresh(S, r) ==
  LET started == {i \in S : r # None /\ r.outcome = "started"
                           /\ i.id = Id("resume", "started", 0)}
  IN IF run.up # {} THEN {}
     ELSE IF started # {} THEN started
     ELSE {i \in S : i.id = Id("fact", run.live, 0)}

-----------------------------------------------------------------------------
(* _observe.                                                               *)

\* The items whose gate is down, or whose alert is not projected any more.
Outdated(d, E) ==
  {i \in d.pending :
     IF i.slot # None THEN i.slot \notin run.up
     ELSE i.important /\ i.id \notin {e.id : e \in E}}

\* Mutant: the result of a Resume is deduplicated by the events in sight only.
KnownInSight(d, e) ==
  \/ e.slot # None /\ e.resume = None /\ e.slot \in d.active
  \/ e.slot = None /\ e.id \in d.seen \cup d.milestones

\* An event that was enqueued before: by Resume result, by gate, by identity.
Known(d, e) ==
  \/ e.resume # None /\ e.resume \in d.resumed
  \/ e.slot # None /\ e.resume = None /\ e.slot \in d.active
  \/ e.slot = None /\ e.id \in d.seen \cup d.milestones

\* A numbering of the set S from 1.
Order(S) == CHOOSE f \in [S -> 1..Cardinality(S)] :
              \A x, y \in S : x # y => f[x] # f[y]

Last(d) == CHOOSE n \in {0} \cup {i.rank : i \in d.pending} :
             \A i \in d.pending : i.rank <= n

\* enqueue.  A gate gets the number of its occurrence as part of its identity.
NewItem(e, rank, n) ==
  [id |-> IF e.slot = None THEN e.id ELSE Id("gate", e.slot, n),
   slot |-> e.slot, important |-> e.important, rank |-> rank,
   outcome |-> "pending", attempts |-> 0, expired |-> FALSE, cancelled |-> FALSE,
   owner |-> None]

\* The new events; a gate that rises again supersedes its own earlier item.
Enqueue(d, New) ==
  LET gates == {e \in New : e.slot # None}
      rank == Order(New)
      n == Order(gates)
  IN [Withdraw(d, {i \in d.pending : i.slot \in {e.slot : e \in gates}})
        EXCEPT !.pending = @ \cup {NewItem(e, Last(d) + rank[e],
                 IF e \in gates THEN d.sequence + n[e] ELSE 0) : e \in New},
               !.sequence = @ + Cardinality(gates),
               !.resumed = @ \cup ({e.resume : e \in New} \ {None}),
               !.milestones = @ \cup {e.id : e \in {x \in New :
                                 x.id.kind = "fact" /\ x.id.of \in Milestone}}]

\* Obsolete progress is dropped on recovery, under pressure, or after a failure.
Compressed(d, r, recovering, added) ==
  LET ordinary == {i \in d.pending : ~i.important /\ ~Sending(i)} IN
  IF \/ recovering
     \/ Cardinality(d.pending) > MaxPending
     \/ added /\ \E i \in ordinary : i.outcome = "failed"
  THEN Withdraw(d, ordinary \ Fresh(ordinary, r))
  ELSE d

\* Mutant: room is made for the gates that have an item, not for those that are up.
BoundedByItems(d) ==
  LET gates == {i \in d.pending : i.slot # None}
      excess == Cardinality(d.pending) - (MaxPending + Cardinality(gates))
      movable == {i \in d.pending : ~Sending(i) /\ i.slot = None}
  IN Withdraw(d, {i \in movable :
                    Cardinality({j \in movable : j.rank < i.rank}) < excess})

\* The oldest items make room, gates and requests that are out excepted.
Bounded(d) ==
  LET excess == Cardinality(d.pending) - (MaxPending + Cardinality(run.up))
      movable == {i \in d.pending : ~Sending(i) /\ i.slot = None}
  IN Withdraw(d, {i \in movable :
                    Cardinality({j \in movable : j.rank < i.rank}) < excess})

\* The events New of the projected ones E are enqueued, and E is remembered.
Taken(d, E, New) ==
  [Enqueue(d, New) EXCEPT !.seen = {e.id : e \in {x \in E : x.slot = None}},
                          !.active = run.up]

\* The journal that an observation leaves, alone in a set: of a bound variable
\* TLC evaluates the value once.
Observed(d, r, recovering) ==
  LET From(now, E, New, left) ==
        {Bounded(c) : c \in
          {Compressed(f, r, recovering /\ now.pending # {}, New # {}) : f \in
            {Taken(left, E, New)}}}
  IN UNION {UNION {From(now, E, New, left) : New \in {{e \in E : ~Known(now, e)}},
                                             left \in {Withdraw(now, Outdated(now, E))}}
              : now \in {Settled(d)}, E \in {Projected(d, r)}}

-----------------------------------------------------------------------------
(* The Run, its Executors and their exits.                                 *)

Init ==
  /\ run = [up |-> {}, shown |-> {}, rolled |-> {}, live |-> None]
  /\ session = [gen |-> 0, current |-> FALSE]
  /\ journal = [pending |-> {}, records |-> {}, seen |-> {}, active |-> {},
                sequence |-> 0, resumed |-> {}, milestones |-> {}, exit |-> 0]
  /\ sender = [s \in Sender |-> NewSender]
  /\ budget = [changes |-> MaxChanges, faults |-> MaxFaults]

Change(r) ==
  /\ budget.changes > 0
  /\ budget' = [budget EXCEPT !.changes = @ - 1]
  /\ run' = r
  /\ UNCHANGED <<session, journal, sender>>

Raise(g) == g \notin run.up /\ Change([run EXCEPT !.up = @ \cup {g}])
Clear(g) == g \in run.up /\ Change([run EXCEPT !.up = @ \ {g}])

\* A milestone is projected again when a later record of its subject is kept.
Reach(f) ==
  /\ f \notin run.shown
  /\ f \in run.rolled => f \in Milestone
  /\ Change([run EXCEPT !.shown = @ \cup {f}, !.live = f])

\* The bounded history loses its oldest records.
Roll(f) ==
  /\ f \in run.shown
  /\ Change([run EXCEPT !.shown = @ \ {f}, !.rolled = @ \cup {f},
                        !.live = IF @ = f THEN None ELSE @])

EndRound == run.live # None /\ Change([run EXCEPT !.live = None])

\* The exit is no news: Stop or Abandon, a terminal Run, a recorded exit.
Quiet ==
  /\ session.current
  /\ session' = [session EXCEPT !.current = FALSE]
  /\ UNCHANGED <<run, journal, sender, budget>>

Gone(s) == sender[s].proc \in {"ended", "dead"}
Executor(g) == [role |-> "executor", gen |-> g]
Hook(g) == [role |-> "hook", gen |-> g]

\* observe_exit: the first observation of a generation is kept.
NoteExit(h) ==
  /\ h.role = "hook"
  /\ sender[h].proc = "idle"
  /\ Gone(Executor(h.gen))
  /\ ExitCurrent(h.gen)
  /\ journal' = [journal EXCEPT !.exit = IF @ < h.gen THEN h.gen ELSE @]
  /\ sender' = [sender EXCEPT ![h].proc = "begun"]
  /\ UNCHANGED <<run, session, budget>>

\* An exit with status 0, one that is no news, or a hook that cannot run.
SkipExit(h) ==
  /\ h.role = "hook"
  /\ sender[h].proc = "idle"
  /\ Gone(Executor(h.gen))
  /\ sender' = [sender EXCEPT ![h].proc = "ended"]
  /\ UNCHANGED <<run, session, journal, budget>>

Result(o, g) == [outcome |-> o, slot |-> g]

\* ResumeFeedback in the Executor: what the Resume came to.
Report(s) ==
  /\ s.role = "executor" /\ s \in Resumers
  /\ sender[s].proc = "open"
  /\ \/ /\ sender[s].result = None
        /\ sender' = [sender EXCEPT ![s].result = Result("started", None)]
     \/ \E g \in run.up \cup {None} :
          sender' = [sender EXCEPT ![s].result = Result("failed", g)]
  /\ UNCHANGED <<run, session, journal, budget>>

-----------------------------------------------------------------------------
(* The business side of a sender.                                          *)

Woken(t) == IF t = "waiting" THEN "loop" ELSE t

\* Mutant: a good observation does not tell the worker that it may go on.
SeenSilently(x) == [x EXCEPT !.thread = Woken(@)]

\* What an observation leaves of the sender, and _unavailable.
Seen(x) == [x EXCEPT !.recovery = x.recovery \/ x.failure, !.thread = Woken(@)]
Failed(x) == [x EXCEPT !.failure = TRUE, !.recovery = FALSE, !.thread = Woken(@)]

\* Notifications(): observe once, then start the worker.
OpenAs(s, x) ==
  \/ /\ journal' \in Observed(journal, x.result, TRUE)
     /\ sender' = [sender EXCEPT ![s] = x]
     /\ UNCHANGED budget
  \/ /\ Fault("read")
     /\ sender' = [sender EXCEPT ![s] = Failed(x)]
     /\ UNCHANGED journal
  \/ /\ Fault("thread")
     /\ journal' \in Observed(journal, x.result, TRUE)
     /\ sender' = [sender EXCEPT ![s] = [Failed(x) EXCEPT !.thread = "none"]]

Opened(r) == [NewSender EXCEPT !.proc = "open", !.thread = "loop", !.result = r]

\* Task Control knows of a new Executor; the unit of its predecessor is gone
\* only after its hook.
Start(s) ==
  /\ s.role = "executor"
  /\ sender[s].proc = "idle"
  /\ s.gen = session.gen + 1
  /\ session.gen > 0 => Gone(Hook(session.gen))
  /\ session' = [gen |-> s.gen, current |-> TRUE]
  /\ sender' = [sender EXCEPT ![s].proc = "begun"]
  /\ UNCHANGED <<run, journal, budget>>

\* The Executor has read the Run that it drives.
OpenExecutor(s) ==
  /\ s.role = "executor"
  /\ sender[s].proc = "begun"
  /\ OpenAs(s, Opened(None))
  /\ UNCHANGED <<run, session>>

\* The exit hook has noted the exit.
OpenHook(s) ==
  /\ s.role = "hook"
  /\ sender[s].proc = "begun"
  /\ OpenAs(s, Opened(None))
  /\ UNCHANGED <<run, session>>

\* ResumeFeedback.failure and close, in a command that failed on its own.
OpenCommand(s) ==
  /\ s.role = "cli" /\ s \in Resumers
  /\ sender[s].proc = "idle"
  /\ \E g \in run.up \cup {None} : OpenAs(s, Opened(Result("failed", g)))
  /\ UNCHANGED <<run, session>>

Observing(s, x) ==
  \/ /\ journal' \in Observed(journal, x.result, FALSE)
     /\ sender' = [sender EXCEPT ![s] = Seen(x)]
     /\ UNCHANGED budget
  \/ /\ Fault("read")
     /\ sender' = [sender EXCEPT ![s] = Failed(x)]
     /\ UNCHANGED journal

\* observe, which every save of the Run by this Executor calls.
Observe(s) ==
  /\ s.role = "executor"
  /\ sender[s].proc = "open"
  /\ Observing(s, sender[s])
  /\ UNCHANGED <<run, session>>

\* close: a sender that failed reads the Run once more.
Close(s) ==
  /\ sender[s].proc = "open"
  /\ LET x == [sender[s] EXCEPT !.proc = "closing", !.thread = Woken(@)] IN
     IF sender[s].failure THEN Observing(s, x)
     ELSE sender' = [sender EXCEPT ![s] = x] /\ UNCHANGED <<journal, budget>>
  /\ UNCHANGED <<run, session>>

Halted(s) == sender[s].thread \in {"done", "none"}

\* The worker ends, or is cancelled after CLOSE_TIMEOUT_SECONDS.
Join(s) ==
  /\ sender[s].proc = "closing"
  /\ Halted(s) \/ "timeout" \in Faults
  /\ sender' = [sender EXCEPT ![s].proc = "closed", ![s].thread = Woken(@)]
  /\ UNCHANGED <<run, session, journal, budget>>

Forgotten(proc) == [NewSender EXCEPT !.proc = proc]

\* The process ends.  A sender that closes on a failure first tells so of what
\* was never tried.  An exit that the Executor itself recorded may still be
\* news: a failure without a gate.
Exit(s) ==
  /\ sender[s].proc = "closed"
  /\ Halted(s)
  /\ journal' = IF sender[s].failure
                THEN Settled([journal EXCEPT !.pending =
                       {[i EXCEPT !.outcome = IF @ = "pending" THEN "failed" ELSE @]
                          : i \in @}])
                ELSE journal
  /\ sender' = [sender EXCEPT ![s] = Forgotten("ended")]
  /\ \/ UNCHANGED session
     \/ s.role = "executor" /\ session' = [session EXCEPT !.current = FALSE]
  /\ UNCHANGED <<run, budget>>

Kill(s) ==
  /\ sender[s].proc \notin {"idle", "ended", "dead"}
  /\ Fault("kill")
  /\ sender' = [sender EXCEPT ![s] = Forgotten("dead")]
  /\ UNCHANGED <<run, session, journal>>

-----------------------------------------------------------------------------
(* The worker.                                                             *)

\* finish_attempt.
Finished(d, s, o) ==
  [d EXCEPT !.pending = {IF i.owner = s /\ i.id = sender[s].item
                         THEN [i EXCEPT !.outcome = o] ELSE i
                           : i \in @}]

\* Mutant: the claim loses its owner only.
ReleasedByOwner(d, s) ==
  [d EXCEPT !.pending = {IF i.owner = s /\ Sending(i)
                         THEN [i EXCEPT !.owner = None] ELSE i
                           : i \in @}]

\* _unavailable in the worker: its claim, if it has one, has no known result.
Released(d, s) ==
  [d EXCEPT !.pending = {IF i.owner = s /\ Sending(i)
                         THEN [i EXCEPT !.outcome = "unknown"] ELSE i
                           : i \in @}]

Looked(s) == {Settled(d) : d \in Observed(journal, sender[s].result, FALSE)}

\* Mutant: a sender does not mind the claims of others.
ClaimableBeside(d) == {i \in d.pending : ~Sending(i) /\ ~i.cancelled}

\* At most one request is out at a time.
Claimable(d) ==
  IF \E i \in d.pending : Sending(i) THEN {}
  ELSE {i \in d.pending : ~i.cancelled}

\* An item that was tried may still have to wait before it is tried again.
Waits(i) == i.attempts > 0

Working(s) == sender[s].thread = "loop" /\ ~Cancelled(s)

\* The first item that is due.
Claim(s) ==
  /\ Working(s)
  /\ \E d \in Looked(s) : \E i \in Claimable(d) :
       /\ \A j \in Claimable(d) : j.rank < i.rank => Waits(j)
       /\ journal' = [d EXCEPT !.pending = (@ \ {i}) \cup
            {[i EXCEPT !.outcome = "sending", !.owner = s, !.attempts = @ + 1]}]
       /\ sender' = [sender EXCEPT ![s].thread = "check", ![s].item = i.id]
  /\ UNCHANGED <<run, session, budget>>

\* Nothing to send: poll while items are pending, else wait to be notified.
Rest(s) ==
  /\ Working(s)
  /\ \E d \in Looked(s) :
     /\ \A i \in Claimable(d) : Waits(i)
     /\ journal' = d
     /\ sender' = [sender EXCEPT ![s].thread =
                     IF d.pending # {} THEN "loop"
                     ELSE IF sender[s].proc = "closing" THEN "done" ELSE "waiting"]
  /\ UNCHANGED <<run, session, budget>>

\* The Run cannot be read: no claim, and the worker parks.
LookFails(s) ==
  /\ Working(s)
  /\ Fault("read")
  /\ journal' = Released(journal, s)
  /\ sender' = [sender EXCEPT ![s] = [Failed(@) EXCEPT !.thread = "parked"]]
  /\ UNCHANGED <<run, session>>

EndAttempt(s, o) ==
  /\ journal' = Settled(Finished(journal, s, o))
  /\ sender' = [sender EXCEPT ![s].thread = "loop", ![s].item = None]
  /\ UNCHANGED <<run, session, budget>>

\* send, up to the request: identity, cancellation, and the exit still current.
Refuse(s) == sender[s].thread = "check" /\ EndAttempt(s, "failed")

Submit(s) ==
  /\ sender[s].thread = "check"
  /\ ~Cancelled(s)
  /\ sender[s].item.kind = "exit" => ExitCurrent(sender[s].item.n)
  /\ sender' = [sender EXCEPT ![s].thread = "sent"]
  /\ UNCHANGED <<run, session, journal, budget>>

Answer(s) ==
  /\ sender[s].thread = "sent"
  /\ \E o \in {"success", "failed", "unknown"} : EndAttempt(s, o)

\* The check of the exit raises, or the result cannot be written; the claim is
\* released in a second transaction, unless that fails as well.
LoseResult(s) ==
  /\ Transporting(s)
  /\ \/ /\ Fault("read")
        /\ sender[s].thread = "check" /\ sender[s].item.kind = "exit"
        /\ journal' = Released(journal, s)
     \/ Fault("write") /\ journal' = Released(journal, s)
     \/ Fault("writes") /\ UNCHANGED journal
  /\ sender' = [sender EXCEPT ![s] = [Failed(@) EXCEPT !.thread = "parked",
                                                       !.item = None]]
  /\ UNCHANGED <<run, session>>

\* _work: a cancelled worker parks, and goes on when a read has succeeded.
Park(s) ==
  /\ sender[s].thread = "loop"
  /\ Cancelled(s)
  /\ sender' = [sender EXCEPT ![s].thread = "parked"]
  /\ UNCHANGED <<run, session, journal, budget>>

Recover(s) ==
  /\ sender[s].thread = "parked"
  /\ sender[s].failure /\ sender[s].recovery /\ ~Closed(s)
  /\ sender' = [sender EXCEPT ![s].thread = "loop", ![s].failure = FALSE,
                              ![s].recovery = FALSE]
  /\ UNCHANGED <<run, session, journal, budget>>

Quit(s) ==
  /\ sender[s].thread = "parked"
  /\ \/ Closed(s)
     \/ ~sender[s].failure
     \/ sender[s].proc = "closing" /\ ~sender[s].recovery
  /\ sender' = [sender EXCEPT ![s].thread = "done"]
  /\ UNCHANGED <<run, session, journal, budget>>

-----------------------------------------------------------------------------
(* Time: the delivery lifetime of the oldest items passes.                 *)

Expire ==
  /\ \E i \in journal.pending :
       /\ ~i.expired
       /\ \A j \in journal.pending : j.rank < i.rank => j.expired
       /\ journal' = [journal EXCEPT !.pending =
                        (@ \ {i}) \cup {[i EXCEPT !.expired = TRUE]}]
  /\ UNCHANGED <<run, session, sender, budget>>

Business ==
  \/ \E g \in Slot : Raise(g) \/ Clear(g)
  \/ \E f \in Fact : Reach(f) \/ Roll(f)
  \/ EndRound
  \/ Quiet
  \/ \E s \in Sender : NoteExit(s) \/ SkipExit(s) \/ Report(s)

\* What a business thread and a worker that are scheduled go on with.
Advance(s) == \/ OpenExecutor(s) \/ OpenHook(s) \/ Observe(s) \/ Join(s) \/ Exit(s)
              \/ s.role # "executor" /\ Close(s)
Work(s) == \/ Claim(s) \/ Rest(s) \/ Park(s) \/ Recover(s) \/ Quit(s)
           \/ Refuse(s) \/ Submit(s) \/ Answer(s)

Next ==
  \/ Business
  \/ \E s \in Sender : \/ Start(s) \/ OpenExecutor(s) \/ OpenHook(s) \/ OpenCommand(s)
                       \/ Observe(s) \/ Close(s) \/ Join(s) \/ Exit(s) \/ Kill(s)
                       \/ Work(s) \/ LookFails(s) \/ LoseResult(s)
  \/ Expire

Spec == Init /\ [][Next]_vars

\* Threads are scheduled, the transport has a deadline, time passes, the exit
\* hook and the failing command close at once, and an Executor goes on saving.
Fairness ==
  /\ \A s \in Sender : WF_vars(Advance(s)) /\ WF_vars(Work(s))
  /\ WF_vars(Expire)

FairSpec == Spec /\ Fairness

-----------------------------------------------------------------------------
(* Properties.                                                             *)

EventId == [kind : {"fact", "gate", "resume", "exit"},
            of : Fact \cup Slot \cup {"started", "failed", None}, n : Nat]
Outcomes == {"pending", "sending", "success", "failed", "unknown"}
Item == [id : EventId, slot : Slot \cup {None}, important : BOOLEAN, rank : Nat,
         outcome : Outcomes, attempts : Nat, expired : BOOLEAN, cancelled : BOOLEAN,
         owner : Sender \cup {None}]

\* The journal has the shape that read_notifications accepts, and a claim an owner.
TypeOK ==
  /\ journal.pending \subseteq Item
  /\ \A i \in journal.pending : Sending(i) => i.owner \in Sender
  /\ journal.records \subseteq EventId
  /\ journal.active \subseteq Slot
  /\ journal.sequence \in Nat
  /\ sender \in [Sender ->
       [proc : {"idle", "begun", "open", "closing", "closed", "ended", "dead"},
        thread : {"none", "loop", "waiting", "check", "sent", "parked", "done"},
        item : EventId \cup {None},
        result : [outcome : {"started", "failed"}, slot : Slot \cup {None}] \cup {None},
        failure : BOOLEAN, recovery : BOOLEAN]]

\* Two processes never deliver at once, whatever each of them believes of the
\* other: the Run sends one request at a time.
OneTransport == \A s, t \in Sender : Transporting(s) /\ Transporting(t) => s = t

\* An event has one item, ever: restarts, repeated observations, other senders
\* and the rolling history never give it a fresh budget of attempts.
BudgetKept ==
  /\ \A i \in journal.pending :
       /\ i.attempts <= MaxAttempts
       /\ \A j \in journal.pending : i.id = j.id => i = j
       /\ i.id \notin journal.records

\* The outbox holds at most MAX_PENDING items and one for each gate.
JournalBounded ==
  Cardinality(journal.pending) <= MaxPending + Cardinality(journal.active)

\* A progress message whose delivery is unknown is not sent again.
ProgressNotReplayed ==
  [][\A i \in journal.pending, j \in journal'.pending :
       /\ i.id = j.id
       /\ j.attempts > i.attempts
       /\ ~i.important
       => i.outcome \in {"pending", "failed"}]_journal

\* No event stays in the outbox as long as a sender is open.
OutboxDrains ==
  journal.pending # {} ~> journal.pending = {} \/ \A s \in Sender : ~Alive(s)

\* The sender of an Executor that a failure stopped works again after the next
\* good observation; only the end of the process or of its thread excuses it.
SendersRecover ==
  \A g \in 1..MaxGeneration :
    LET x == sender[Executor(g)] IN
    x.failure /\ x.proc = "open" /\ ~Halted(Executor(g))
      ~> ~x.failure \/ x.proc # "open"
=============================================================================
