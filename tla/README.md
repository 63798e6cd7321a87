# Verification of the Agent Run task lifecycle

This directory holds TLA+ specifications of `agent_run`, the Python program under
`src/src/agent_run`, TLC configurations that check them on small instances, and
TLAPS proofs of theorems about them. A path below without a directory is a module
of `src/src/agent_run`.

Run a check with `tlc -workers 2 -config Tickets.cfg MCTicketWork.tla` and a proof
with `tlapm TicketWork_proofs.tla`.

## What the program does

A user asks, from a shell, for work on a *Delivery Task* (a GitHub parent issue with
its tickets). `agent-run run|resume|revise|requeue|approve|stop|abandon` are
short-lived *commands*. A command writes its intent as an *Action* into the *Task
Control Record* of the task, launches at most one *Executor* process through
`systemd-run --user`, and waits. The Executor proves who it is, applies the Action to
the *Run* (a document in a SQLite store), drives the Run forward, starts *Workers*
(agent processes) and calls GitHub and Git, and exits. Every save of the Run and every
external step of an Executor is fenced by the record: the pair (action id, generation)
the process was launched with must still be the one in the record.

There is no daemon. All coordination goes through files under a lock, systemd units and
process identities, and any command or Executor may die between two of its steps.

## Inventory

| Component | State it keeps | Operations | Why it is hard | What makes it correct |
|---|---|---|---|---|
| Task Control Record (`task_control.py`) | one JSON file per task: Run, next generation, Action, bounded history, executor slot | claim of an Action, reservation of a generation, launch marks, handshake, binding, application, completion, Worker registration, finish, reconciliation from a Run receipt | many processes, each with a stale idea of the record; the file may be lost | one holder of write authority; no generation that the record or a receipt shows is reused; receipts genuine; at most one open Run |
| Lifecycle commands (`run_lifecycle.py`, `lifecycle_intent.py`) | locals of a command | submit, reconcile, admit, inspect, decide, reserve, launch, poll | two commands race; a command dies at any step; retries | no second Executor; an interrupted attempt leaves a record the next command can use; a waiting command returns |
| systemd host (`systemd_executor_host.py`, `systemd_launch.py`, `executor_environment.py`) | startup lease, launch-pending marks, one-shot environment carriers, units | start, inspect, cleanup timer, record an observed exit | a start may be accepted, refused, unanswered, or acted on late | a generation that was given up can no longer do work |
| Executor (`executor_host.py`, `run_lifecycle.execute_claimed`) | its identity and locals | boot, handshake, claim, select, receipt, apply, complete, drive, terminate Workers of a target, close admission, finish | fenced, reclaimed, killed or failing at any step | at most one stray external step after a fence; Stop leaves no live Worker behind |
| Ticket Resume (`ticket_resume.py`, `run_lifecycle.py`) | audit in the Run, `ticket_resume_closed` in the slot | join a running Executor | it is accepted while the Executor is about to exit | an accepted Resume is taken up before an orderly exit |
| Ticket work (`ticket_work.py`, `ticket_scheduling.py`, `ticket_queue.py`) | durable FIFO, leases, pauses, integration seat | enqueue, start, finish, pause, dispatch | durable leases outlive holders; FIFO against roles and pauses | capacity, FIFO, one seat, no starvation |
| Run driver and delivery (`run_driver.py`, `controller.py`, `change_delivery*.py`, acceptance, repair) | the Run document | classified steps, phases, budgets | external results arrive late, twice or for an old head | phases only move as the contract allows; budgets bind |
| Notifications (`notification_outbox.py`, `notifications.py`, `executor_exit.py`) | journal per task, exit evidence | record, claim, deliver, settle | two senders; a sender dies with an event claimed | bounded attempts, one in flight, evidence monotone in generation |
| Runner installation (`runner_installer.py`, `runner_lease.py`) | versions, active link, shared and exclusive leases | install, activate, roll back, clean up | interrupted at any step; an Executor starts meanwhile | the active link always names a usable version in use by nobody being removed |
| Adapters, CLI, credentials, doctor, setup | none of protocol interest | | | |

`PROJECT.json` lists every component with its status and reason, and every hazard at
the line where it bites.

## Modules

| Module | Role |
|---|---|
| `TaskControl` | The record and the Run saves its fence guards. One action per transaction of `TaskControlStore`, plus the deletion of the file. |
| `ExecutorOwnership` | Abstract: write authority is granted, suspended, returned to its last holder, or fenced off for good. |
| `TaskControlOwnership` | The refinement mapping from `TaskControl` to `ExecutorOwnership`. |
| `LifecycleSpine` | Composes commands, systemd, Executor processes and Workers over the transactions of `TaskControl` (it EXTENDS it and calls its actions). |
| `TicketWork` | Inside one driving Executor: the durable FIFO of Agent work, leases, the integration seat, lanes, supervision, pauses and Ticket Resumes. |
| `PublishedHead` | Inside one lane: the delivery of one accepted Ticket, from integration with the live heads to the close of its issue, against a GitHub that people change. |
| `NotificationOutbox` | The notification journal of a Run and every process that sends from it. |
| `MCTaskControl`, `MCLifecycleSpine`, `MCTicketWork`, `MCPublishedHead`, `MCNotificationOutbox` | Small instances. |
| `TaskControl_proofs`, `LifecycleSpine_proofs`, `TicketWork_proofs`, `TicketWorkDrivers_proofs`, `PublishedHead_proofs`, `PublishedHeadClose_proofs`, `PublishedHeadOwn_proofs`, `NotificationOutbox_proofs` | Theorems. |

`TicketWork` refines what the spine shows as one pass of the driver, and `PublishedHead`
what `TicketWork` shows as the phases from `accepted` to `merged`. The levels are joined by
what each assumes of the one below, stated in its comments, not by a checked refinement:
their states together would be out of reach of TLC.

### TaskControl

| Variable | Code |
|---|---|
| `present` | whether the control file exists |
| `taskRun`, `next` | `run_id`, `next_generation` of the record |
| `action`, `history`, `executor` | `action`, `action_history`, `executor` of the record |
| `runs` | of each Run: status class, action receipt, whether final approval was granted |
| `issued` | ids of Actions ever created (they are UUIDs: never reused) |

A field value stands for its digest (`payload`), a process start identity (`Proc`) or a
Worker identity (`Worker`). `executor.origin` tells a slot reserved by this record
(`reserved`) from one synthesised by `reconcile_from_run` (`unproven`) and one whose exit
the Host has proved since (`proven`); in the code these are conditions on the pid,
handshake and failure fields. `action.held` says whether the record was rebuilt by a
caller that presented the receipt's own payload. Run statuses are collapsed to the
classes the lifecycle branches on. Every action is one `with store.locked()` transaction:
validation, change and save happen under the lock, so atomicity is the code's own.

`next` is at most `MaxGeneration` in the guards of `BeginExecutor` and of a claim:
the only bound in the module. `MaxHistory` is the code's constant (4).

### LifecycleSpine

A command is `[pc, kind, payload, id, gen, run]` and takes one step per transaction, host
inspection or host call. An Executor is identified by its `Token`, (action id,
generation), which is also its unit name. It is created by systemd acting on an in-flight
request, not by the command. `carrier` models the one-shot environment: a process that
boots without it does nothing, so a unit systemd starts late is harmless; this is what
`_CARRIER_TTL` and the cleanup timer are for. `unit` is what systemd remembers of a unit:
a failed unit stays loaded (`exited`), a clean one is collected.

`Fault` names what the environment may do in a run: commands that die or are interrupted
(`leave`), Executors that are killed (`crash`) or raise, starts that are unanswered
(`unknown`) or refused (`reject`), and a deleted record (`loss`). A late start is always
possible while its request is in flight. Killing an Executor takes its Workers with it:
they live in its cgroup.

Selection of the Run, application of the Action and a pass of the driver are one step
each; the driver may save, start and reap Workers, or take an external step. The check
before an external step and the step itself are two steps, because the code releases the
lock in between.

Ghost variables: `writer` (greatest generation that saved a Run), `stray` (external steps
completed while fenced off), `served` (Resumes a driver has taken up), `fenced` (the
Executors that a Stop or an Abandon was claimed against).

### TicketWork

| Variable | Code |
|---|---|
| `jobs` | `ticket_jobs`: phase, reason of a block, phases to resume, saved Agent result, unsettled write intent, merge sent, budget rounds |
| `workQueue`, `leased` | `ticket_work_queue` in order, and which of its items carry a lease (`ticket_work.py`) |
| `holder`, `seatQueue` | `ticket_integration_holder`, `ticket_integration_queue` (`ticket_queue.py`) |
| `pauseRequests`, `status` | `ticket_pause_requests`, the status of the Run |
| `pc`, `seen` | for each lane, its point in `change_delivery.py` and the Job it last read or saved |
| `observed`, `avoid` | what supervision claimed, and the lanes it was told to leave alone (`ticket_supervision.py`) |
| `executor`, `agents` | whether the Executor is up, and which Agent processes live |
| `refused` | ghost: which commits the state contract has rejected |

A lane computes from `seen` and commits only if the durable Job still equals it
(`ticket_state.py`); a commit reconciles both queues and is rejected unless it satisfies
`_require_ticket_integration_queue` (`state_contract.py`, here `Contract`); the rejection is
recorded in `refused`.
Development, repair, candidate and review are one phase `developing` whose next step is one
Agent unit; `merging` stands for `waiting_merge` too; the two writes of a publication are
one; the graph is fixed and each Ticket is in the frontier until it completes.

### PublishedHead

| Variable | Code |
|---|---|
| `commits`, `source`, `target`, `pr`, `issue`, `revised` | GitHub: the two branches, the pull request, the issue's events and close intent, the requirements |
| `flight` | requests sent that have neither landed nor been lost |
| `job` | the Ticket's Job as saved: phase, publication, integration record, write, merge and close intents, re-integration window |
| `pc`, `loc` | what the lane does next and what it holds only in memory |
| `passed`, `sends`, `moves`, `meddled` | ghosts: heads that passed the gate, merge requests sent, unexpected moves, what people did |

Each step of the lane is one read or one request with the code up to the next one
(`ticket_integration.py`, `change_delivery_published_head.py`, `github_publish.py`). Reads that follow each other with nothing in between but the decision
to give up are taken at one moment. A request lands, is lost, or lands after the lane that
sent it was interrupted (`"late"`). Left out: conflicts of an integration and the retry
budget of a failing read, the variants for the parent alone and for Run repair, the lag with
which GitHub projects a moved head onto a pull request, and wording. The seat is held
throughout; pauses are in `TicketWork`; `Resume` is enabled only for the two reasons a
delivery in these phases can be resumed from. An error that ends the lane blocks the Job,
except from the merge on, where it is one more bounded wait (`Fails`). A late request to create a pull request makes
no second one when one exists: GitHub refuses it.

### NotificationOutbox

| Variable | Code |
|---|---|
| `run`, `session` | gates, facts and the live round of the Run; the generation Task Control names and whether its exit would be news |
| `journal` | the file of the Run under `notifications/`: pending items, records, facts seen, active gates, sequence, Resume results told, milestones, last exit generation |
| `sender` | each process (Executors, their exit hooks, a failing `resume` command) with its business thread, worker thread, and the failure and recovery flags |

A journal transaction reads the Run inside the file lock and is one step; the request to the
transport happens between the claim and the settlement. Deadlines pass in the order of
creation. Records, Resume results and milestones are not trimmed in the model; the code keeps
as many milestones as there are Tickets, and two more.

## Runs

| Run | Question | Properties |
|---|---|---|
| `task_control` | Transactions in any order over two Runs, with a Stop or an Approve driven to its end, the record lost and rebuilt | `TypeOK`, `OwnershipInv`, `ReservationsFresh` |
| `commands` | Two commands start, take over and stop a Run through every answer of systemd and every crash | `OneSession`, `SpineTypeOK`, `OneStrayStep`, `StopEndsWorkers`, `WritesAdvance`, `ImplementsOwnership` |
| `loss` | One command at a time; the record is deleted at any time and rebuilt, under an Executor with two Workers | `OneDriver`, `OneWorkerOwner` |
| `two_losses` | Two commands that take the place of one ended Executor, and a record lost twice (finding 2) | `OneDriver`, violated |
| `successor` | Resumes killed or failing at each step before and after they are applied, over a history of two | `SuccessorReadable` |
| `progress` | Waiting, Stop and Ticket Resume under fairness | `ResumesServed`, `WaitsEnd`, `FencedEnds` |
| `tickets` | Two Tickets, one permit and one seat, with pauses, Resumes, failing and lost Agents, a crash, a stop and a restart | `TypeOK`, `WithinCapacity`, `PausedIsQuiet`, `LaneCommitsAccepted`, `OneDriverPerTicket`, `SeatOutlivesWrite` |
| `tickets_served` | The same threads under fairness, without faults | `WaitersServed`, `PausesSettle` |
| `head_of_queue` | The same with a crash and a restart (finding 1) | `WaitersServed`, violated |
| `published_head` | One delivery against people, two faults and a Resume | `TypeOK`, `MergesWhatPassed`, `MergeBudget`, `ClosesDelivered`, `OwnWritesKnown`, `CompletesOwnClose`, `NoReplacementPr`, `Settles` |
| `outbox` | An Executor, its hook and a failing `resume` over one journal, with a kill and writes that fail | `OneTransport`, `BudgetKept`, `JournalBounded` |
| `outbox_drains` | Two generations of the Executor, and every fault the sender recovers from | `TypeOK`, `ProgressNotReplayed`, `OutboxDrains`, `SendersRecover` |

### What they show

* **One session.** ADR 0010 says a Delivery Task has at most one Run Executor Session.
  `OneSession` states it for processes, not for records: two processes that can both
  still do something are the fenced target of a Stop or Abandon and its successor. It
  rests on the startup lease, on a completed Action whose Executor is still running
  counting as pending work, and on the carrier being gone before a generation is given
  up. When the record may be deleted the claim is weaker (`OneDriver`): a process launched
  for the lost record may still be booting while another drives, but never gets past its
  handshake. `loss` shows it with one command at a time. With two it is false (finding 2).
* **The fence.** `WritesAdvance` and `OneStrayStep` are the two halves of "after the
  fence only the single operation under way may complete": no save of an old generation
  follows one of a new generation, and a fenced process completes at most one external
  step.
* **Stop.** A Stop or Abandon completes only when every Worker of its target that passed
  its bootstrap gate is dead (`StopEndsWorkers`), no two Executors have running Workers at
  once (`OneWorkerOwner`), and the target itself ends (`FencedEnds`).
* **Resume.** A Ticket Resume accepted by a running Executor is taken up before that
  Executor closes its admission and exits in good order (`ResumesServed`). An Executor
  that fails closes admission too; the Resume then stays in the Run for the next one.
* **Recovery.** However far a command that names its Run came, and wherever it was cut off,
  the record matches the Run at every moment, unless the Action the Run's receipt names was
  pushed out of a history full of newer ones (`SuccessorReadable`). `PushedOut` is that one
  exception, stated exactly: an Action thrown out while an older one stays, or never
  archived, violates the property.
* **Ownership.** While the file exists, every transaction grants, suspends or fences
  authority as `ExecutorOwnership` allows; `commands` checks it of the composed system. In
  particular authority returns to a gone holder only under the same pair, as
  `mark_executor_absent` followed by a late handshake would do, and never once a later
  generation or a fence exists. The file may also be lost at any moment, between a
  caller's reconciliation and its claim too; a claim then starts a new record at generation
  1, and what the lost one said is forgotten. What is left is `ReservationsFresh`: an
  Executor is reserved under a generation beyond the one it replaces, its target, the
  history, and every receipt of its Action in any Run. So a process that got as far as its
  receipt never shares its generation with a later one. One that did not may: reclaimed
  without a receipt, lost, rebuilt and reclaimed again, a pair is issued twice.
* **Agents and the seat.** Live Agents hold leases and never exceed the capacity, whatever
  crashes (`WithinCapacity`). A Ticket keeps the integration seat as long as a write or a
  merge of it is on its way (`SeatOutlivesWrite`). An Agent that is stopped is recorded as
  failed under its lease, and that commit pauses the Job; the lease is given back afterwards,
  and not at all when nobody saw the Worker end. Through this a paused Ticket comes to rest
  (`PausedIsQuiet`): no lane admits or runs an Agent for it, it waits in no queue, and a lease
  or a process it still has is that of a lane that unwinds or of an Executor going down. The dispatcher and supervision choose Tickets from states read at
  different times and yet never develop the same one (`OneDriverPerTicket`). The state
  contract never rejects a commit of a lane (`LaneCommitsAccepted`).
* **Merge and close.** The Runner merges only heads that passed the Published-Head Gate
  (`MergesWhatPassed`), with a bounded number of requests (`MergeBudget`). It closes a
  Ticket only for what was delivered (`ClosesDelivered`), completes it only on its own close
  (`CompletesOwnClose`), never replaces a pull request people closed or merged
  (`NoReplacementPr`), and blocks a delivery only for what somebody else did
  (`OwnWritesKnown`). Every delivery ends (`Settles`).
* **Notifications.** One request is out at a time (`OneTransport`), one event has one
  budget of attempts (`BudgetKept`), progress of unknown outcome is not sent again
  (`ProgressNotReplayed`), the outbox is bounded (`JournalBounded`) and empties while
  a sender is open (`OutboxDrains`), and a sender that failed recovers (`SendersRecover`).

### Findings

1. `head_of_queue`: the dispatcher stops at the first waiter that is neither in flight nor
   ready (`ticket_scheduling.py` 175). After a restart a Ticket in phase `escalating`
   keeps its place in the FIFO, is never ready, and is escalated only when the frontier is
   left; while another Ticket has work, every waiter behind it waits although a permit is
   free. ADR 0019 says a place is refilled as soon as work ends.
2. `two_losses`: `begin_executor` lets a caller with `reclaim` replace an Executor whose status
   is absent, and does not look at its `reconciliation_required` (`task_control.py` 888). The
   caller looked at it, and chose `reclaim`, in a snapshot from before the startup lease
   (`run_lifecycle.py` 1418-1424). Two commands decide to take the place of the same ended
   Executor; one does, its Executor drives, its record is lost a second time and rebuilt as
   absent, and the other starts the next generation beside it. The first process stops
   at its next read of the record, but an Agent invocation under way is not ended. CONTEXT.md
   334 says that without sufficient evidence no second Agent is started.

The following were met while modelling. Each is stated as a definition of its module
where one is named, and is not kept as a run.

* `PredecessorKept` (`LifecycleSpine`): the history keeps four Actions, so five successors
  rejected before they select the Run push out the Action the Run's receipt names
  (`task_control.py` 1661). From then on no command can read the record. `SuccessorReadable`
  makes this exception, and `SuccessorSafe` proves that there is no other.
* `ReadableAtRest`: an Action is reclaimed after its record was rebuilt and its Executor
  proved gone. That raises its generation (`task_control.py` 921) before the Run's receipt is
  saved again. If the launch dies, record and receipt disagree and every command is refused,
  although the message asks the operator to retry. (While the record is kept, an Action
  whose Executor is gone has ended, and none is reclaimed: `BoundInv`, below.) Without any loss
  the same holds of a second `run` bound but not applied (`run_lifecycle.py` 2050).
* `UnresolvedAttachable`: a Stop claimed but not applied is no successor
  `_is_unapplied_successor_of_receipt` accepts (`run_lifecycle.py` 2050), so repeating it
  is refused.
* `CommandsAccepted` (`TicketWork`): a resumed Ticket that waits for the seat cannot be
  paused again, and one paused with an unsettled write cannot be resumed: the state
  contract rejects the command's own save (`controller.py` 1980). `escalating` may be saved
  as `execution_resume_phase`, but it is not a phase one may resume to (`controller.py` 2012).
* `PauseSparesExecutor`: a lane that loses its save to a pause raises a stale-state error
  that fails the whole Executor (`ticket_state.py` 384); ADR 0019 says the other Tickets go
  on. An error before a Ticket has a Job does the same. So does a `resume --ticket` accepted
  after the stopped Agent's failure was saved and before its lane reached its own failure
  boundary: the lane finds its Job changed (`ticket_state.py` 384-387).
* `OwnMergeRecovered` (`PublishedHead`): a lane is interrupted with its merge request out, the
  next one passes the pull request again, and the request lands just before it reads the live
  pull request: that read takes MERGED for an external merge without a look at the merge
  intent the Job still carries (`change_delivery_published_head.py` 464-471). CONTEXT.md 432
  and docs/agent-run.md 327-329 say that a merge found so is recovered as the Runner's own.
* A Resume that fails and the gate it leads to are one event of the journal. If the failure
  is observed before the gate is saved, the gate's own alert is skipped and the earlier one
  is withdrawn (`notification_resume.py` 124). A sender that
  does not project Resume results also withdraws an alert of that kind another process has
  pending.
* If the result of a request cannot be written and the release of its claim cannot either,
  the item stays claimed by a process that lives, and no sender delivers anything until that
  process exits (`notifications.py` 172). `outbox` takes this step; the liveness run
  leaves it out.

### Bounds

| Run | Bounds | Why they are enough |
|---|---|---|
| `task_control` | three ids, two Runs, one process, `MaxHistory` 1, `MaxGeneration` 3 | three Actions evict from a history of one; a second Run could be created. `ApproveLast` lets only the last Action have a process and leaves aside closed admission and grants, which never bear on authority |
| `commands` | two ids, two clients, one Worker, two generations | predecessor and successor; two commands race and a third only repeats what one of them may do |
| `loss` | two ids, one client, two Workers, two generations | a process of the lost record beside one of the rebuilt record |
| `two_losses` | one id, two clients, no Worker, three generations | the shortest violation: the ended generation and the two that take its place |
| `successor` | three ids, three generations, `MaxHistory` 2, commands killed or failing | the predecessor, the failed attempt and the retry; two Actions fill the history. With three ids the exception of `PushedOut` never comes up (TLC), so the run checks the plain claim; the theorem covers the rest |
| `progress` | two ids, one client, one Worker, one Ticket Resume | a Stop and its target; a Resume accepted while the driver returns |
| `tickets` | two Tickets, capacity 1, one round, two pauses, one Resume, one restart | every conflict is between two Tickets, or between a Ticket's lane, supervision and a command; the second pause meets a resumed Ticket |
| `tickets_served`, `head_of_queue` | one pause or none, one Resume or none, one restart in the second | a waiter behind one that is paused, resumed or escalating |
| `published_head` | two candidates, two merge requests, one re-integration, one change by people of every kind, two faults, one Resume | the repair of a candidate, a retried merge and a late request beside a newer one; the change falls at every point |
| `outbox` | one gate, two changes, one generation, one attempt, one fault | three senders over a gate that rises and falls |
| `outbox_drains` | one fact, two generations, two attempts, one fault | a retry, and a successor that inherits a claim |

`MaxHistory` is the code's 4 outside `task_control` and `successor`. `MaxGeneration`, `MaxResumes`,
`MaxPauses`, `MaxRestarts`, `MaxRounds`, `MaxChanges`, `MaxFaults` and `MaxCandidates` are
bounds of the model, in the guards of the actions that count; the theorems hold for every
value of them. Symmetry of ids, clients and Tickets is used in runs without liveness only.
Deadlock is checked in `published_head`. Elsewhere the system rightly stops: with every id
issued and every process gone, every Ticket completed, or the outbox empty.

### Fairness

The fair specifications assume what the code's scheduling gives and no more.

* `LifecycleSpine`: an Executor process that can take a step takes it (`Advance`), unless
  killed; an infinite loop of driver passes is allowed. An agent invocation ends: `codex.py`
  and the worker adapters pass a timeout to it (`WorkerEnds`). systemd acts on a start
  request or forgets it, and its transient timers fire (`SystemdStarts`, `SystemdDrops`,
  `CarrierExpires`). A command that holds the startup lease runs on (`MarkLaunchPending`,
  `StartUnit`). A waiting command polls every fraction of a second; its poll needs the
  startup lease free, which another command may take and release for ever, so it is strongly
  fair (`Observe`).
* `TicketWork`: the dispatcher polls, each lane and supervision run on, an Agent ends by its
  deadline. A lane looks for a pause request before every stage, so `PauseStage` is
  strongly fair: a request that stays recorded is seen at the next look.
* `PublishedHead`: a live lane goes on, requests in flight land, and a window of waiting
  ends (`TimeOut`, strongly fair since what the lane waits for may come and go).
* `NotificationOutbox`: business threads and workers of live processes run on, the hook and
  the failing command close at once, an Executor that has a sender goes on saving, and time
  passes (`Expire`).

Nothing obliges a user to submit a command, and no fault is owed.

## Proofs

`TaskControl_proofs` proves, for every set of ids, Runs, Workers, payloads and every bound,

* `TypeCorrect`: `Spec => []TypeOK`. `TypeOK` is inductive by itself. `ArchivedFact`
  shows that archiving keeps the history within its bound; then there is one lemma per
  group of transactions (admission, application, slot, Run saves, recovery).
* `OwnershipSafe`: `Spec => []OwnershipInv`. `OwnershipInv` says that a missing record
  leaves nothing behind (`MissingIsEmpty`), that the slot always holds its Action's own
  generation (`SlotIsActions`), that the record as it stands hands out no generation it
  mentions (`GenerationsSpent`), that a Run's receipt names the Run and never runs ahead
  of the Action (`ReceiptsGenuine`), that an Action whose slot is still empty has left no
  receipt (`UnstartedUnreceipted`), and that at most one Run is open (`OneOpenRun`). It
  is inductive relative to `TypeOK`; `ReceiptsGenuine` is what makes a record rebuilt
  from a receipt respect `GenerationsSpent`. `KeptOwner`, `HolderKeeps` and `ReceiptKeeps`
  gather the transactions that change neither id nor generation.
* `ReservesFresh`: `Spec => ReservationsFresh`, which no state of the record alone can say
  when it may be lost. Only `begin_executor` reserves (`OnlyBeginReserves`), and what it
  takes is beyond the record by `GenerationsSpent` and beyond every receipt of the Action by
  `ReceiptsGenuine`, or, for a first Executor, because there is none by
  `UnstartedUnreceipted` (`BeginFresh`).

It also proves, over `TaskControlOwnership`,

* `KeptImplements`: `KeptSpec => ImplementsOwnership`, for behaviours in which the file is
  never deleted once written. The invariant used is `TypeOK`, `OwnershipInv` and `KeptInv`
  (without loss, a missing record means no Run carries a receipt, so `Reconcile` is
  impossible). `ClaimFences` and `BeginGrants` are the two steps that raise the fence;
  every other step keeps the holder and may only suspend it or return it its authority.
  Under loss the refinement does not hold as it stands: the record forgets its holder, and
  a lost generation that never saved a receipt is issued again. `OneDriver` is what is
  left with one command at a time, and that is model-checked.

`LifecycleSpine_proofs` proves, for every set of commands, ids, Runs, Workers and payloads,
every bound, and every choice of faults that does not include the loss of the record,

* `SpineTypeCorrect`, `OneSessionSafe`, `OneDriverKept`, `OneStraySafe`, `StopSafe`,
  `OneWorkerOwnerKept` and `ResumesSafe`: the invariants `SpineTypeOK`, `OneSession`,
  `OneDriver`, `OneStrayStep`, `StopEndsWorkers`, `OneWorkerOwner` and `ResumesServed`;
* `SuccessorSafe`: the invariant `SuccessorReadable`, from an invariant of its own (below);
* `WritesSafe`: `SpineSpec => WritesAdvance`;
* `SpineImplements`: `SpineSpec => ImplementsOwnership`. The composed system, with its
  processes, its host and its Workers, still implements the abstract ownership: each of its
  steps is a transaction of the record (`RecordStep`) or leaves the record alone.

`SpineIInv` is the invariant (`SpineInvariant`); TLC checked it on the small instance before
it was proved. Its first part is the record: `TypeOK`, `OwnershipInv`, `KeptInv`, and
`RecordInv`, what a record that was never lost does not show (a synthesised slot, a live slot
under a failed Action). Around it stand

* `SessionInv`, the heart: a token that is `Able` to work, now or by a launch, a unit or an
  environment still on its way, was fenced or is the live Executor in the slot. A second
  session would need a token that is neither;
* `HostInv` and `FreshInv`, which it rests on: the startup lease covers a launch from the
  reservation on, a process is alive exactly while its unit is up, and nothing at all is
  known of a token before its reservation, so that a late start is of a token of the past;
* `ExecInv` and `StrayInv`: where a process may be and which Run it works on while it holds
  the slot, and that an external step past a fence was its last;
* `OwnedInv`, `ControlIdle` and `TargetInv`: a Worker belongs to the live Executor in the
  slot or to the target of a Stop and is registered there, a control Executor has none, and
  the target is quiet unless its Stop is still open. `TargetInv` follows the target from a
  failed control Action to the one that takes it over;
* `WriterInv`, `AdmissionInv`, `SeenInv` and `ClientInv`: what has been written, admitted,
  taken up and submitted never runs ahead of the Action.

`SuccessorSafe` needs `ReadIInv`, which joins to `SpineIInv` how the record and the Run tell
the same story:

* `ReadInv`: task, Action and slot are bound to one Run, and an Executor that is gone has
  ended its Action (`BoundInv`); an Action that was applied has left its receipt in its Run
  (`ActionInv`); the receipt of a Run is of the current Action, with its generation, or of one
  in the history, or was pushed out (`ReceiptInv`); and the history is in the order of the
  generations, so that what is dropped is the oldest and what was pushed out stays so
  (`OrderInv`);
* `MindInv`: the Run a command decided for is the Run of the Action it then claims;
* `DoneInv`: the Executor in the slot works on the Run its Action names, and drives or
  finishes only what it has applied.

`MatchesReceipt` alone is not inductive: the crash between the save of the receipt and the
record of its application (`run_lifecycle.py` 1855) is what `ActionInv` and `ReceiptInv` have
to carry, and the fact that only the Action in the slot may save is `DoneInv`.

There is one lemma for each action of the spine and each part it can disturb, gathered by
`ProcessStep`, `SettleKeeps`, `LaunchStepKeeps` and `NewActionKeeps` for the steps that
share an argument.

`TicketWork_proofs` proves, for any number of Tickets, any capacity, any bounds and faults,

* `CapacitySafe`: `Spec => []WithinCapacity`. The invariant is `ControlInv` (where a lane may
  be while the Executor is up or down, and what Job it has where it admits or runs an
  Agent), `LeaseInv` (which lane answers for which lease, and
  that an Agent lives only under a lease; it is what carries the count over a crash, when
  leases outlive the lanes), and `JobInv`.
* `SeatSafe`: `Spec => SeatOutlivesWrite`, from `JobInv`: a Job with a write or a merge in
  flight needs the seat by its own shape, so no reconciliation of the queue drops it.

`TicketWorkDrivers_proofs` adds to that invariant `QueueInv` and `SeatInv` (the queues are
without repetitions and hold only Tickets whose Jobs belong there), `DriverInv` (a Job in
development or at the seat has at most one driver, and the copy of the driver, or of a lane
under a lease, is the durable Job), `OwnerInv` (a leased Job is in a phase of an Agent, or
blocked because its Agent stopped, and while the Executor is up a lane answers for the lease) and `WordInv` (the contract has rejected no commit of a lane). From them follow

* `OneDriverSafe`, `PauseSafe`, `LaneCommitsSafe` and `TicketTypeCorrect`: the invariants
  `OneDriverPerTicket`, `PausedIsQuiet`, `LaneCommitsAccepted` and `TypeOK`.

`DriverInv` is the heart: it is why a stale copy never decides. `PauseSafe` follows from
`OwnerInv`: a lease whose Job is blocked belongs to a lane past its Agent. `Kept`, by which queues are
filtered, is a recursive function; its facts (what it holds, that it keeps the order and
repeats nothing) are proved by a set-based induction over its index (`NatSet`, from the
well-foundedness of the naturals).

`PublishedHead_proofs` proves `MergesSafe` (`MergesWhatPassed`) and `MergeBudgetSafe`
(`MergeBudget`). The invariant says that the lane is only where the Job's phase lets it be
(`Placed`), that a merge request in flight is for a head that passed (`Requested`), and that
requests are counted in the Job before they are sent (`Counted`).

`PublishedHeadClose_proofs` proves what the end of a delivery promises: `ClosesSafe`
(`ClosesDelivered`), `CompletionSafe` (`CompletesOwnClose`), `ReplacementSafe`
(`NoReplacementPr`) and `DeliveryTypeCorrect` (`TypeOK`). The invariant adds

* `Hub` and `Flights`: what GitHub holds and what a request may ask for;
* `Bound`: of the requests in flight all but the one the lane waits for cost a fault;
* `Sound`: the Job says what it should in each phase. Its part `Sealed` is the argument for
  the close: once the pull request is recorded as merged or a close is prepared, the Job
  names the merge on the Run Branch, that names the Job's publication and record, and the
  Job leaves these phases only to complete or to be blocked for good;
* `Where`: what the lane remembers at each point agrees with the Job;
* `FirstPr`: a request to create a pull request is made only where there never was one, so
  that only a late one can meet another.

`PublishedHeadOwn_proofs` proves `OwnWritesSafe` (`OwnWritesKnown`): a delivery is blocked, and
a re-integration charged, only for something people did or for a request that landed late.
Its contrapositive is the argument: while nobody has moved a branch (`Still`), nor closed or
edited the pull request (`Undisturbed`), nor merged it (`Unmerged`), what GitHub shows is what
the Runner's own requests left there, and the Job has it on record. The invariant `OInv`, which
TLC checked in this form before it was proved, adds to that of `PublishedHeadClose_proofs`

* `Evidence` and `Ordered`: what shows on GitHub was done by the Runner or is in `meddled`; the
  branches grow from the base, and each push of the Runner's goes forward from the head it
  expects, so that no head of the past comes back;
* `Rooted` and `Fresh`: the heads in the Job's window, record and publication were observed in
  this order and are still in the history of their branch, unless it was rewritten
  (`integration_history_rewritten` has no other cause), and nothing that was made for an
  older boundary is kept for a newer one;
* `Owed`: each charge had a move of its own, and a head the window does not explain is a move
  that is still to be charged;
* `OwnMerge`, `Ways`, `Stands` and `Pending`: a merge that nobody else made is of the
  publication onto the recorded target, and is where the lane will find it; at each point of
  the lane the live heads are those it relies on; and a write of the pull request whose answer
  was lost is seen as done or as not done, never as somebody else's.

A request that lands where nobody waits for it counts as a disturbance (`MovedKnows`); one that
lands where the lane waits is shown to be the one on record (`LandPushKnows`,
`LandMergeKnows`, `LandPrKnows`, `LandIssueKnows`).

`NotificationOutbox_proofs` proves `OneTransportSafe`, `BudgetSafe`, `OutboxTypeCorrect`,
`ProgressSafe` and `BoundSafe` (`OneTransport`, `BudgetKept`, `TypeOK`,
`ProgressNotReplayed`, `JournalBounded`), for any senders, limits and faults. The invariant is `Sound` (one claim at most, one item for each
event, attempts within the budget), `SenderInv` (a worker with a request out holds the
journal's claim), `RunInv`, and `Told`, which says for each kind of event why the journal
does not take it again: a fact is remembered as a milestone, seen, or rolled into history, a
gate's number is used up, a Resume result is remembered, and an exit is of an old generation
or the last one noted. `BudgetKept` is not inductive without it. For `JournalBounded` it is
joined by `SizeInv`: a gate has one item that was not withdrawn (`OneForGate`), so that what
an observation may not drop is at most one request and one item for each gate that is up
(`BoundedWithin`); every other step only changes items that are there (`Thins`).

Assumptions: `None` is in no data set (it is none of ids, Runs, Workers, processes, commands,
Tickets, senders and gates) nor itself a record; `MaxHistory`, `Capacity`, `MaxAttempts`,
`MaxPending`, `MergeAttempts` and `MaxCandidates` are positive, the other bounds natural numbers; `PayloadRun`
maps payloads to Runs or `None`; Tickets, gates and facts are finite sets.
All are evaluated by TLC in every run.

Only model-checked, and why. Liveness (`WaitsEnd`, `FencedEnds`, `WaitersServed`,
`PausesSettle`, `Settles`, `OutboxDrains`, `SendersRecover`) rests on fairness, which is
outside the prover together with `ENABLED`. `OneDriver` and `OneWorkerOwner` are proved for
a record that is kept. Under its loss they are only checked, by the `loss` run with one command
at a time: `SpineIInv` does not hold there, since a generation that left no receipt is issued
again and the same token is reserved twice. `OneDriver` has no theorem there to be found for
all constants, because two commands violate it (finding 2).

## Not modelled

* In the spine: the final approval path of `approve`, the refusal of `run` on a failed Run,
  the lease guardian process, the capture of the environment, the wording of failures.
* The Run document that `reconcile_from_run` receives is read before the control lock is
  taken; the spine reads it in the same step. The window is listed as a hazard.
* `_submit_control` closes a control Action it finds attached on a Run that is already
  stopped (`run_lifecycle.py` 676-715). No reachable record meets its conditions: an
  exited control Executor is closed by reconciliation or by the host's own record of the
  exit first, and a control Action with no Executor on a stopped Run is the case of
  `UnresolvedAttachable`, refused before this code. The branch is left out.
* A control file that is there but cannot be read makes every claim refuse; in the model the
  record is there or missing.
* In the spine a pass of the driver is opaque: one save or one external step. `TicketWork`
  and `PublishedHead` open it for Tickets.
* Locks are taken to be exclusive and released with their process, and the rename that
  replaces a file to be atomic. SQLite and systemd are modelled from their use.
* In the notifications: the trimming of records, the error texts, and the processes of the
  transport itself, which may outlive a killed sender. Events of one observation are taken
  in any order. The last journal transaction of an Executor and its end are one step.
* Final acceptance, publication, approval and repair of a Run. Read but not modelled, with
  what was seen there: Abandon after a merge nobody has observed yet
  (`run_publication_approval.py` 317), a final pull request merged by hand before approval
  (it loops until the Review budget is used), a failed GitHub read before the first
  publication attempt (it ends the Executor), and pauses that save no continuation, so that
  their Resume is rejected.
* Installation of the Runner (`runner_installer.py`, `runner_lease.py`). Read but not
  modelled: a failing cleanup restores the old active link after the new one was committed
  (docs/adr/0008 and CONTEXT.md 226 call the switch the commit point), and a kill between
  `os.replace` and the rewrite of the entry points (`runner_installer.py` 245-250) leaves
  entry points that name the candidate's directory (docs/install.md 133 says a failed
  activation keeps the original version).
* The SQLite store, the graph of Tickets and its eligibility, selection and requeue of a
  Run, the command line, credentials, doctor and setup: pure functions, data layout or
  input and output. `PROJECT.json` gives the reason for each.

## Plan

Done: the record with its abstract specification, the spine, Ticket work, the delivery of a
Ticket and the notifications, with the runs and the theorems above. Next, in this order:

1. Under the loss of the record: an invariant that follows both lives of a token that is
   reserved twice, first for one command at a time, where `OneDriver` and `OneWorkerOwner`
   are checked.
2. Installation of the Runner, final approval in the spine, and the pure algorithms of the
   Ticket graph against a reference definition.
