--------------------------- MODULE LifecycleSpine ---------------------------
(***************************************************************************)
(* The lifecycle spine: lifecycle commands (run_lifecycle.py), the systemd *)
(* host that launches one Executor process per generation                  *)
(* (systemd_executor_host.py), the Executor processes themselves           *)
(* (executor_host.py BoundExecutorHost, run_lifecycle.py execute_claimed)  *)
(* and the Workers they spawn, composed over the transactions of           *)
(* TaskControl.  Commands and Executors are separate processes: between    *)
(* any two of their steps anything else may happen, and a command or an    *)
(* Executor may die.                                                       *)
(***************************************************************************)
EXTENDS TaskControl

CONSTANTS
  Client,      \* lifecycle commands that may be open at the same time
  Fault,       \* subset of FaultKind: what the environment may do
  MaxResumes   \* bound on targeted Ticket Resumes, for model checking

FaultKind == {"leave",    \* a command dies, is interrupted, or gives up
              "crash",    \* an Executor process is killed
              "raise",    \* an Executor step raises
              "unknown",  \* systemd-run does not answer
              "reject",   \* systemd-run refuses
              "loss"}     \* the Task Control Record is deleted

\* One process identity per launch: the unit name holds action and generation.
Token == ActionId \X (1..MaxGeneration)

ASSUME SpineAssumption ==
  /\ Fault \subseteq FaultKind
  /\ Token \subseteq Proc
  /\ None \notin Client
  /\ MaxResumes \in Nat

VARIABLES
  client,    \* [Client -> step and locals of the command]
  lease,     \* who holds the executor-startup flock
  unit,      \* [Token -> what systemd knows of the unit]
  pending,   \* launch-pending files
  carrier,   \* one-shot environment carriers not yet consumed or expired
  inflight,  \* start requests systemd may still act on
  exec,      \* [Token -> step and locals of the Executor process]
  worker,    \* [Worker -> Executor whose live Worker it is]
  released,  \* Workers past their bootstrap gate
  total,     \* [RunId -> resume_audit.total]
  served,    \* [RunId -> Ticket Resumes a driver has taken up]
  writer,    \* ghost: greatest generation that saved a Run
  stray,     \* ghost: [Token -> external steps taken while fenced off]
  fenced     \* ghost: the tokens a Stop or Abandon was claimed against

host   == <<lease, unit, pending, carrier, inflight>>
procs  == <<exec, worker, released>>
work   == <<total, served>>
ghosts == <<writer, stray, fenced>>
spine  == <<vars, client, host, procs, work, ghosts>>

Idle == [pc |-> "idle", kind |-> None, payload |-> None, id |-> None,
         gen |-> 0, run |-> None]
Dead == [pc |-> "none", run |-> None, owner |-> None, seen |-> 0]

ClientStep == {"idle", "submit", "admit", "inspect", "decide", "ensure", "renew",
               "reserved", "launch", "wait"}
ExecStep   == {"none", "boot", "start", "shake", "claim", "select", "attach",
               "receipt", "apply", "complete", "terminate", "outcome",
               "drive", "external", "failing", "close", "finish", "tail"}
UnitState  == {"none", "up", "exited", "collected"}

\* Types of the processes and of the host; a Worker past its gate is alive.
SpineTypeOK ==
  /\ client \in [Client ->
       [pc: ClientStep, kind: Kind \cup {None}, payload: Payload \cup {None},
        id: ActionId \cup {None}, gen: 0..MaxGeneration,
        run: RunId \cup {None}]]
  /\ lease \in Client \cup {None}
  /\ unit \in [Token -> UnitState]
  /\ pending \subseteq Token
  /\ carrier \subseteq Token
  /\ inflight \subseteq Token
  /\ exec \in [Token -> [pc: ExecStep, run: RunId \cup {None},
                         owner: ActionId \cup {None}, seen: 0..MaxResumes]]
  /\ worker \in [Worker -> Token \cup {None}]
  /\ released \subseteq {w \in Worker : worker[w] # None}
  /\ total \in [RunId -> 0..MaxResumes]
  /\ served \in [RunId -> 0..MaxResumes]
  /\ writer \in 0..MaxGeneration
  /\ stray \in [Token -> Nat]
  /\ fenced \subseteq Token

-----------------------------------------------------------------------------
TokenOf(e)     == <<e.id, e.gen>>
Alive(t)       == exec[t].pc # "none"
\* Able to do something yet: not before it has its one-shot environment, not
\* after its final finish_executor.
Working(t) ==
  /\ exec[t].pc \notin {"none", "tail"}
  /\ exec[t].pc = "boot" => t \in carrier
WorkersOf(t)   == {w \in Worker : worker[w] = t}
\* Mutant: the record is there, whoever it names.
CurrentAnyone(t) == present
Current(t)     == ExecutorCurrent(t[1], t[2], exec[t].run)

\* Mutant: any unit systemd has loaded counts as exited.
ExitedLoaded(t) == unit[t] \in {"up", "exited"}

\* systemd still knows a failed unit; a clean one is collected at once.
Exited(t) == unit[t] = "exited"
Unlaunched(t) == unit[t] \in {"none", "collected"} /\ t \notin pending

\* Mutant: no launch is pending, so nothing runs.
UnitGoneUnproven(t) == t \notin pending

UnitGone(t) == Exited(t) \/ Unlaunched(t)

\* The Executor process of t ends; its cgroup takes the Workers with it.
Ended(ts, how) ==
  /\ exec' = [t \in Token |-> IF t \in ts THEN Dead ELSE exec[t]]
  /\ unit' = [t \in Token |-> IF t \in ts THEN how ELSE unit[t]]
  /\ worker' = [w \in Worker |-> IF worker[w] \in ts THEN None ELSE worker[w]]
  /\ released' = {w \in released : worker[w] \notin ts}

\* Idle boundaries a new Executor may take up without an explicit Resume.
SafeRecovery(r) == r # None /\ runs[r].status = "waiting"

\* The Run a request is about: the one it names, else the unfinished one.
CurrentRun(p) ==
  IF PayloadRun[p] # None THEN PayloadRun[p]
  ELSE LET open == {r \in RunId : RunExists(r)
                                  /\ runs[r].status \notin ClosedRun}
       IN  IF open = {} THEN None ELSE CHOOSE r \in open : TRUE

ReceiptBound(r) ==
  r # None /\ action # None /\ HasReceipt(r) /\ ReceiptOf(action, runs[r].receipt)

-----------------------------------------------------------------------------
(* A command up to its claim.                                              *)

Goto(c, pc) == client' = [client EXCEPT ![c].pc = pc]

Submit(c, k, p) ==
  /\ client[c].pc = "idle"
  /\ PayloadRun[p] = None <=> k = "run"
  /\ k # "run" => RunExists(PayloadRun[p])
  /\ client' = [client EXCEPT ![c] = [Idle EXCEPT !.pc = "submit", !.kind = k,
                                                  !.payload = p]]
  /\ UNCHANGED <<vars, host, procs, work, ghosts>>

Req(c) == CurrentRun(client[c].payload)
Control(c) == client[c].kind \in ControlKind

MustRebuild(c) == ~present /\ Req(c) # None /\ HasReceipt(Req(c))
MustProve(c) == executor # None /\ executor.origin = "unproven"
MustClose(c) ==
  /\ client[c].kind # "run"
  /\ executor # None /\ executor.origin = "proven"
  /\ executor.status = "exited"
  /\ Unfinished(action)
  /\ ReceiptBound(Req(c))

\* The exit of an Executor nobody recorded the end of becomes a durable
\* session interruption of the Run.
MustInterrupt(c) ==
  LET r == Req(c) IN
  /\ ~Control(c)
  /\ Gone(executor)
  /\ ReceiptBound(r)
  /\ action.kind \in {"approve", "revise", "requeue"} =>
       client[c].kind = "run" /\ runs[r].status = "active"
  /\ ~(client[c].kind # "run" /\ executor.origin = "proven")
  /\ \/ Unfinished(action)
     \/ executor.status = "absent"
     \/ executor.failure # "none"
     \/ client[c].kind = "run" /\ runs[r].status = "active"
  /\ ~SafeRecovery(r)
  /\ runs[r].status \notin ClosedRun \cup {"operator_stopped"}
  /\ ~(runs[r].status = "failed" /\ executor.failure = "session_interrupted")

Rebuild(c) ==
  LET r == Req(c)
      k == client[c].kind
      c0 == runs[r].receipt
  IN
  /\ client[c].pc = "submit"
  /\ MustRebuild(c)
  /\ k = "run" => SameIntent(c0, k, client[c].payload)
  /\ Reconcile(r, k = "run")
  /\ UNCHANGED <<client, host, procs, work, ghosts>>

\* host.observe must show this very unit exited.  The target of an
\* unfinished Stop is terminated again before its exit counts.
ProveExit(c) ==
  LET t == TokenOf(executor) IN
  /\ client[c].pc = "submit"
  /\ MustProve(c)
  /\ ReceiptBound(Req(c))
  /\ Exited(t)
  /\ RecordReconciledExit(t[1], t[2], Req(c))
  /\ IF action.target = None THEN UNCHANGED <<unit, procs>>
     ELSE Ended({TokenOf(action.target)}, "exited")
  /\ UNCHANGED <<client, lease, pending, carrier, inflight, work, ghosts>>

ControlOutcome(k) ==
  IF k = "stop" THEN {"operator_stopped"} \cup ClosedRun ELSE ClosedRun

ClosePredecessor(c) ==
  LET r == Req(c) IN
  /\ client[c].pc = "submit"
  /\ MustClose(c)
  /\ IF /\ action.kind \in ControlKind
        /\ runs[r].status \notin ControlOutcome(action.kind)
     THEN /\ action.kind = "stop" => action.target # None
          /\ FinishExecutor(action.id, action.gen, TRUE)
     ELSE CompleteFromReceipt(action.id, action.gen, r, FALSE)
  /\ UNCHANGED <<client, host, procs, work, ghosts>>

RecordInterruption(c) ==
  /\ client[c].pc = "submit"
  /\ MustInterrupt(c)
  /\ FailSession(action.id, action.gen, Req(c))
  /\ Goto(c, "idle")
  /\ UNCHANGED <<host, procs, work, ghosts>>

\* Nothing is left to reconcile: go on to admission with what was just read.
Check(c) ==
  LET r == Req(c) IN
  /\ client[c].pc = "submit"
  /\ ~MustRebuild(c) /\ ~MustProve(c) /\ ~MustClose(c) /\ ~MustInterrupt(c)
  /\ present /\ r # None => RecordMatchesRun(r)
  /\ client[c].kind = "stop" => present
  /\ Control(c) /\ Live(executor) => ~(TokenOf(executor) \in pending)
  /\ Goto(c, "admit")
  /\ UNCHANGED <<vars, host, procs, work, ghosts>>

\* The claim's answer, as the command keeps it.
Holding(c, pc, a) ==
  client' = [client EXCEPT ![c].pc = pc, ![c].id = a.id, ![c].gen = a.gen,
                           ![c].run = a.run]

Admit(c, id) ==
  LET k == client[c].kind
      p == client[c].payload
  IN
  /\ client[c].pc = "admit"
  /\ \/ /\ present /\ ClaimAttaches(k, p)
        /\ Holding(c, "inspect", action)
        /\ UNCHANGED <<vars, fenced>>
     \/ /\ present /\ ~Control(c) /\ ClaimObserves(k, p)
        /\ Holding(c, "inspect", [action EXCEPT !.run = executor.run])
        /\ UNCHANGED <<vars, fenced>>
     \/ /\ ClaimAction(id, k, p)
        /\ Holding(c, "inspect", action')
        /\ UNCHANGED fenced
     \/ /\ Control(c)
        /\ ClaimControl(id, k, p, PayloadRun[p])
        /\ runs[PayloadRun[p]].status \notin ControlOutcome(k)
           \/ UnresolvedTarget(action) # None
        /\ Holding(c, "inspect", action')
        /\ fenced' = fenced \cup
             (IF ControlTarget = None THEN {} ELSE {TokenOf(ControlTarget)})
  /\ UNCHANGED <<host, procs, work, writer, stray>>

-----------------------------------------------------------------------------
(* A command after its claim: inspect the host, then launch or wait.       *)

Held(c) == <<client[c].id, client[c].gen>>
Mine(c) == present /\ action # None /\ action.id = client[c].id
Subject(c) == IF client[c].run # None THEN client[c].run ELSE Req(c)

\* The host found no process for the generation this command watches.  It
\* records the exit once, and refuses when the Executor has meanwhile bound a
\* Run it was not launched for.
RecordHostExit(c, pc) ==
  LET t == Held(c)
      r == client[c].run
  IN
  /\ lease = None
  /\ UnitGone(t)
  /\ \/ /\ FinishExecutorFromHost(t[1], t[2], r, Exited(t) \/ Unfinished(action))
        /\ Goto(c, pc)
     \/ /\ HostBound(t[1], t[2], r) /\ Gone(executor)
        /\ UNCHANGED vars
        /\ Goto(c, pc)
     \/ /\ ~HostBound(t[1], t[2], r)
        /\ UNCHANGED vars
        /\ Goto(c, "idle")
  /\ pending' = pending \ {t}
  /\ UNCHANGED <<lease, unit, carrier, inflight, procs, work, ghosts>>

Inspect(c) ==
  /\ client[c].pc = "inspect"
  /\ Mine(c)
  /\ \/ Live(executor) /\ RecordHostExit(c, "decide")
     \/ /\ \/ /\ Live(executor) /\ unit[Held(c)] = "up"
              /\ Goto(c, IF Unfinished(action) THEN "wait" ELSE "idle")
           \/ Gone(executor) /\ Goto(c, "decide")
           \/ /\ executor = None
              /\ ~ReceiptBound(Subject(c))
              /\ Goto(c, IF SafeRecovery(Subject(c)) THEN "renew" ELSE "ensure")
        /\ UNCHANGED <<vars, host, procs, work, ghosts>>

\* Once applied, a requeue or revise is never repeated by a new Executor.
NonReplayable(c) ==
  /\ action.kind \in {"revise", "requeue"}
  /\ ReceiptBound(Subject(c))
  /\ ~SafeRecovery(Subject(c))

Decide(c) ==
  LET r == Subject(c) IN
  /\ client[c].pc = "decide"
  /\ Mine(c)
  /\ executor # None /\ executor.id = client[c].id /\ executor.gen = client[c].gen
  /\ executor.origin # "unproven"
  /\ \/ /\ r # None
        /\ \/ /\ NonReplayable(c) \/ /\ runs[r].status \in ClosedRun
                                     /\ action.status # "completed"
              /\ CompleteFromReceipt(action.id, action.gen, r, FALSE)
           \/ /\ ~NonReplayable(c) /\ ~SafeRecovery(r)
              /\ runs[r].status \notin ClosedRun
              /\ FailSession(action.id, action.gen, r)
        /\ Goto(c, "idle")
     \/ /\ ~NonReplayable(c) /\ SafeRecovery(r)
        /\ Goto(c, IF Unfinished(action) THEN "renew" ELSE "submit")
        /\ UNCHANGED vars
  /\ UNCHANGED <<host, procs, work, ghosts>>

\* The startup lease is held from the reservation to the end of the launch; who
\* finds it taken watches instead. A command at "renew" takes the place of an
\* ended Executor: that it may is what it read of the Run when it looked at the
\* host, and is not looked up again here.
Reserve(c) ==
  LET id == client[c].id IN
  /\ client[c].pc \in {"ensure", "renew"}
  /\ \/ /\ lease # None \/ BeginJoins(id, client[c].run)
        /\ Goto(c, "wait")
        /\ UNCHANGED <<vars, lease>>
     \/ /\ lease = None
        /\ BeginExecutor(id, client[c].run, client[c].pc = "renew")
        /\ lease' = c
        /\ client' = [client EXCEPT ![c].pc = "reserved",
                                    ![c].gen = executor'.gen]
  /\ UNCHANGED <<unit, pending, carrier, inflight, procs, work, ghosts>>

MarkLaunchPending(c) ==
  LET t == Held(c) IN
  /\ client[c].pc = "reserved"
  /\ IF ~ExecutorCurrent(t[1], t[2], client[c].run)
     THEN lease' = None /\ Goto(c, "idle") /\ UNCHANGED <<pending, carrier>>
     ELSE IF UnitGone(t)
     THEN /\ pending' = pending \cup {t}
          /\ carrier' = carrier \cup {t}
          /\ Goto(c, "launch")
          /\ UNCHANGED lease
     ELSE lease' = None /\ Goto(c, "wait") /\ UNCHANGED <<pending, carrier>>
  /\ UNCHANGED <<vars, unit, inflight, procs, work, ghosts>>

Booted(t) ==
  /\ unit' = [unit EXCEPT ![t] = "up"]
  /\ exec' = [exec EXCEPT ![t].pc = "boot"]

StartUnit(c) ==
  LET t == Held(c) IN
  /\ client[c].pc = "launch"
  /\ lease' = None
  /\ \/ /\ Booted(t)
        /\ pending' = pending \ {t}
        /\ Goto(c, "wait")
        /\ UNCHANGED <<vars, carrier, inflight>>
     \/ /\ "unknown" \in Fault
        /\ inflight' = inflight \cup {t}
        /\ Goto(c, "wait")
        /\ UNCHANGED <<vars, unit, pending, carrier, exec>>
     \/ /\ "reject" \in Fault
        /\ pending' = pending \ {t}
        /\ carrier' = carrier \ {t}
        /\ FinishExecutor(t[1], t[2], TRUE)
        /\ Goto(c, "idle")
        /\ UNCHANGED <<unit, inflight, exec>>
  /\ UNCHANGED <<worker, released, work, ghosts>>

\* Mutant: the poll only reads the record.
ObserveRecord(c) ==
  /\ client[c].pc = "wait"
  /\ ~Mine(c) \/ Terminal(action)
  /\ Goto(c, "idle")
  /\ UNCHANGED <<vars, host, procs, work, ghosts>>

\* Poll until the action is closed or its Executor is gone.
Observe(c) ==
  /\ client[c].pc = "wait"
  /\ \/ /\ ~Mine(c) \/ Terminal(action)
        /\ Goto(c, "idle")
        /\ UNCHANGED <<vars, host, procs, work, ghosts>>
     \/ /\ Mine(c) /\ Unfinished(action)
        /\ RecordHostExit(c, "idle")

\* The command ends early: killed, interrupted, refused or out of patience.
Leave(c) ==
  /\ "leave" \in Fault
  /\ client[c].pc # "idle"
  /\ client' = [client EXCEPT ![c] = Idle]
  /\ lease' = IF lease = c THEN None ELSE lease
  /\ UNCHANGED <<vars, unit, pending, carrier, inflight, procs, work, ghosts>>

-----------------------------------------------------------------------------
(* systemd.                                                                *)

SystemdStarts(t) ==
  /\ t \in inflight
  /\ unit[t] = "none"
  /\ Booted(t)
  /\ inflight' = inflight \ {t}
  /\ UNCHANGED <<vars, client, lease, pending, carrier, worker, released, work,
                 ghosts>>

SystemdDrops(t) ==
  /\ t \in inflight
  /\ inflight' = inflight \ {t}
  /\ UNCHANGED <<vars, client, lease, unit, pending, carrier, procs, work, ghosts>>

\* Mutant: the timer removes the mark and leaves the carrier.
MarkExpires(t) ==
  /\ t \in pending
  /\ pending' = pending \ {t}
  /\ UNCHANGED <<vars, client, lease, unit, carrier, inflight, procs, work, ghosts>>

\* The timer unit that removes an unclaimed carrier and the pending mark: a
\* process started later finds no environment to run with.
CarrierExpires(t) ==
  /\ t \in pending \cup carrier
  /\ pending' = pending \ {t}
  /\ carrier' = carrier \ {t}
  /\ UNCHANGED <<vars, client, lease, unit, inflight, procs, work, ghosts>>

-----------------------------------------------------------------------------
(* An Executor process, up to the release of admission.                    *)

Step(t, pc) == exec' = [exec EXCEPT ![t].pc = pc]
At(t, pc) == exec[t].pc = pc
KeepProcs == UNCHANGED <<client, host, worker, released, work, ghosts>>

\* Consume the carrier, then execute_claimed: validate the reservation and read
\* whose receipt the Run carries, before the handshake.
Boot(t) ==
  LET r == IF action.kind = "run" THEN action.run ELSE PayloadRun[action.payload]
  IN
  /\ At(t, "boot")
  /\ t \in carrier
  /\ carrier' = carrier \ {t}
  /\ ExecutorCurrent(t[1], t[2], None)
  /\ exec' = [exec EXCEPT ![t] =
       [pc |-> "start", run |-> r, seen |-> 0,
        owner |-> IF r # None /\ HasReceipt(r) THEN ReceiptOwner(r) ELSE None]]
  /\ UNCHANGED <<vars, client, lease, unit, pending, inflight, worker, released,
                 work, ghosts>>

Start(t) ==
  /\ At(t, "start")
  /\ RequireExecutor(t[1], t[2])
  /\ IF executor.status = "starting" THEN MarkProcessStarted(t[1], t[2], t)
     ELSE UNCHANGED vars
  /\ Step(t, "shake")
  /\ KeepProcs

\* A reclaimed generation of an applied action goes straight to its receipt.
Shake(t) ==
  /\ At(t, "shake")
  /\ MarkHandshake(t[1], t[2], t)
  /\ Step(t, IF \/ action.kind \in ControlKind
                \/ action.kind = "run" /\ action.run # None
                \/ action.run # None /\ ReceiptBound(action.run)
             THEN "receipt"
             ELSE IF action.kind = "run" THEN "select" ELSE "claim")
  /\ KeepProcs

Claim(t) ==
  /\ At(t, "claim")
  /\ ExecutorCurrent(t[1], t[2], None)
  /\ BindRun(t[1], t[2], exec[t].run)
  /\ Step(t, "select")
  /\ KeepProcs

\* select_run: an explicit command rewrites the Run it names; run continues
\* the unfinished Run or creates one.
Select(t) ==
  /\ At(t, "select")
  /\ ExecutorCurrent(t[1], t[2], None)
  /\ \E r \in RunId :
       /\ IF action.kind # "run"
          THEN /\ r = exec[t].run
               /\ SaveRun(t[1], t[2], r, "active")
               /\ writer' = t[2]
          ELSE IF CurrentRun(action.payload) # None
          THEN r = CurrentRun(action.payload) /\ UNCHANGED <<vars, writer>>
          ELSE CreateRun(t[1], t[2], r) /\ writer' = t[2]
       /\ exec' = [exec EXCEPT ![t].pc = "attach", ![t].run = r,
            ![t].owner = IF @ = None /\ HasReceipt(r) THEN ReceiptOwner(r) ELSE @]
  /\ UNCHANGED <<client, host, worker, released, work, stray, fenced>>

Attach(t) ==
  /\ At(t, "attach")
  /\ BindRun(t[1], t[2], exec[t].run)
  /\ Step(t, "receipt")
  /\ KeepProcs

WriteReceipt(t) ==
  LET r == exec[t].run IN
  /\ At(t, "receipt")
  /\ \/ PersistReceipt(t[1], t[2], r, exec[t].owner) /\ writer' = t[2]
     \/ /\ Current(t)
        /\ ReceiptBound(r) /\ runs[r].receipt.gen = t[2]
        /\ UNCHANGED <<vars, writer>>
  /\ Step(t, "apply")
  /\ UNCHANGED <<client, host, worker, released, work, stray, fenced>>

\* Mutant: the outcome is saved without ending the target.
ApplyOnly(t) ==
  /\ At(t, "apply")
  /\ RecordApplication(t[1], t[2], exec[t].run, action.payload)
  /\ Step(t, IF action.kind \in ControlKind THEN "outcome" ELSE "complete")
  /\ KeepProcs

Apply(t) ==
  /\ At(t, "apply")
  /\ RecordApplication(t[1], t[2], exec[t].run, action.payload)
  /\ Step(t, IF action.kind \in ControlKind THEN "terminate" ELSE "complete")
  /\ KeepProcs

Complete(t) ==
  /\ At(t, "complete")
  /\ CompleteAction(t[1], t[2], "completed")
  /\ Step(t, "drive")
  /\ KeepProcs

-----------------------------------------------------------------------------
(* A control Executor: end the fenced target, then save the outcome.       *)

\* Live Workers are killed in its place; only without any the process is.
Terminate(t) ==
  LET u == TokenOf(action.target)
      live == {w \in action.target.workers : worker[w] # None}
      killed == IF live # {} THEN live
                ELSE IF Alive(u) THEN WorkersOf(u) ELSE {}
  IN
  /\ At(t, "terminate")
  /\ Current(t)
  /\ IF action.target = None
     THEN Step(t, "outcome") /\ UNCHANGED <<unit, worker, released>>
     ELSE /\ live = {} => action.target.pid # None
          /\ exec' = [exec EXCEPT ![t].pc = "outcome",
                        ![u] = IF live = {} THEN Dead ELSE @]
          /\ unit' = IF live = {} /\ Alive(u) THEN [unit EXCEPT ![u] = "exited"]
                     ELSE unit
          /\ worker' = [w \in Worker |-> IF w \in killed THEN None ELSE worker[w]]
          /\ released' = released \ killed
  /\ UNCHANGED <<vars, client, lease, pending, carrier, inflight, work, ghosts>>

FinalStatus(k) == IF k = "stop" THEN "operator_stopped" ELSE "abandoned"

SaveOutcome(t) ==
  LET r == exec[t].run IN
  /\ At(t, "outcome")
  /\ Current(t)
  /\ \/ /\ runs[r].status \notin ControlOutcome(action.kind)
        /\ SaveRun(t[1], t[2], r, FinalStatus(action.kind))
        /\ writer' = t[2]
     \/ /\ runs[r].status \in ControlOutcome(action.kind)
        /\ UNCHANGED <<vars, writer>>
  /\ Step(t, "finish")
  /\ UNCHANGED <<client, host, worker, released, work, stray, fenced>>

-----------------------------------------------------------------------------
(* A driving Executor: Workers, saves, external steps, Ticket Resumes.     *)

RegisterWorker(t, w) ==
  /\ At(t, "drive")
  /\ worker[w] = None
  /\ MarkWorkerStarted(t[1], t[2], w)
  /\ worker' = [worker EXCEPT ![w] = t]
  /\ UNCHANGED <<client, host, exec, released, work, ghosts>>

\* The bootstrap gate opens only after the registration was accepted.
ReleaseWorker(w) ==
  /\ worker[w] # None /\ w \notin released
  /\ exec[worker[w]].pc \in {"drive", "failing"}
  /\ released' = released \cup {w}
  /\ UNCHANGED <<vars, client, host, exec, worker, work, ghosts>>

\* Mutant: a reaped Worker leaves its gate open.
WorkerEndsUngated(w) ==
  LET t == worker[w] IN
  /\ worker[w] # None
  /\ exec[t].pc \in {"drive", "failing"}
  /\ worker' = [worker EXCEPT ![w] = None]
  /\ IF RequireExecutor(t[1], t[2]) /\ w \in executor.workers
     THEN MarkWorkerFinished(t[1], t[2], w) ELSE UNCHANGED vars
  /\ UNCHANGED <<client, host, exec, released, work, ghosts>>

\* The Worker is reaped, then its registration is cleared if still possible.
WorkerEnds(w) ==
  LET t == worker[w] IN
  /\ worker[w] # None
  /\ exec[t].pc \in {"drive", "failing"}
  /\ worker' = [worker EXCEPT ![w] = None]
  /\ released' = released \ {w}
  /\ IF RequireExecutor(t[1], t[2]) /\ w \in executor.workers
     THEN MarkWorkerFinished(t[1], t[2], w) ELSE UNCHANGED vars
  /\ UNCHANGED <<client, host, exec, work, ghosts>>

\* One pass of the driver reads the accepted Ticket Resumes and saves.
DriveSave(t, status) ==
  LET r == exec[t].run IN
  /\ At(t, "drive")
  /\ WorkersOf(t) # {} => status = "active"
  /\ SaveRun(t[1], t[2], r, status)
  /\ served' = [served EXCEPT ![r] = total[r]]
  /\ writer' = t[2]
  /\ UNCHANGED <<client, host, procs, total, stray, fenced>>

\* Mutant: the fence is checked when the pass begins, not before each step.
FenceExternalOnce(t) ==
  /\ At(t, "drive")
  /\ Step(t, "external")
  /\ UNCHANGED vars
  /\ KeepProcs

\* before_external_step, then the call itself outside every lock.
FenceExternal(t) ==
  /\ At(t, "drive")
  /\ Current(t)
  /\ Step(t, "external")
  /\ UNCHANGED vars
  /\ KeepProcs

External(t) ==
  /\ At(t, "external")
  /\ Step(t, "drive")
  /\ stray' = IF Current(t) THEN stray ELSE [stray EXCEPT ![t] = @ + 1]
  /\ UNCHANGED <<vars, client, host, worker, released, work, writer, fenced>>

\* The driver returns what it last read.
DriveReturns(t) ==
  LET r == exec[t].run IN
  /\ At(t, "drive")
  /\ WorkersOf(t) = {}
  /\ runs[r].status # "active"
  /\ exec' = [exec EXCEPT ![t].pc = "close", ![t].seen = served[r]]
  /\ UNCHANGED vars
  /\ KeepProcs

\* Mutant: a Ticket Resume accepted since the last read is not looked for.
CloseAdmissionBlindly(t) ==
  /\ At(t, "close")
  /\ Current(t)
  /\ CloseTicketResume(t[1], t[2], exec[t].run, FALSE)
  /\ Step(t, "finish")
  /\ KeepProcs

CloseAdmission(t) ==
  LET r == exec[t].run IN
  /\ At(t, "close")
  /\ Current(t)
  /\ IF total[r] = exec[t].seen
     THEN CloseTicketResume(t[1], t[2], r, FALSE) /\ Step(t, "finish")
     ELSE UNCHANGED vars /\ Step(t, "drive")
  /\ KeepProcs

\* A targeted Ticket Resume joins the Executor that is already running.
AcceptTicketResume(r) ==
  /\ executor # None
  /\ ExecutorCurrent(executor.id, executor.gen, r)
  /\ action.status = "completed"
  /\ ~executor.closed
  /\ RunExists(r) /\ runs[r].status \notin ClosedRun
  /\ total[r] < MaxResumes
  /\ total' = [total EXCEPT ![r] = @ + 1]
  /\ SaveRun(executor.id, executor.gen, r, "active")
  /\ writer' = executor.gen
  /\ UNCHANGED <<client, host, procs, served, stray, fenced>>

-----------------------------------------------------------------------------
(* The end of an Executor.                                                 *)

Finish(t) ==
  /\ At(t, "finish")
  /\ FinishExecutor(t[1], t[2], FALSE)
  /\ Step(t, "tail")
  /\ KeepProcs

Exit(t) ==
  /\ At(t, "tail")
  /\ \E how \in {"collected", "exited"} : Ended({t}, how)
  /\ UNCHANGED <<vars, client, lease, pending, carrier, inflight, work, ghosts>>

\* What the next step of t would meet: no environment, or a lost fence.
Refused(t) == ~Current(t) \/ (At(t, "boot") /\ t \notin carrier)

\* A failing driver closes Ticket Resume first and lets its Workers drain.
DriveFails(t) ==
  /\ "raise" \in Fault \/ Refused(t)
  /\ exec[t].pc \in {"drive", "external"}
  /\ IF Current(t) THEN CloseTicketResume(t[1], t[2], exec[t].run, TRUE)
     ELSE UNCHANGED vars
  /\ Step(t, "failing")
  /\ KeepProcs

\* A refused transaction or any other exception: the failure is recorded if
\* the record still knows this Executor, and the process winds down.
Raise(t) ==
  /\ "raise" \in Fault \/ Refused(t)
  /\ exec[t].pc \notin {"none", "tail"} /\ exec[t].pc \notin {"drive", "external"}
  /\ WorkersOf(t) = {}
  /\ IF /\ exec[t].pc # "boot"
        /\ RequireExecutor(t[1], t[2]) /\ action # None /\ action.id = t[1]
     THEN FinishExecutor(t[1], t[2], TRUE) ELSE UNCHANGED vars
  /\ Step(t, "tail")
  /\ KeepProcs

Crash(t) ==
  /\ "crash" \in Fault
  /\ Alive(t)
  /\ Ended({t}, "exited")
  /\ UNCHANGED <<vars, client, lease, pending, carrier, inflight, work, ghosts>>

RecordLost ==
  /\ "loss" \in Fault
  /\ LoseRecord
  /\ UNCHANGED <<client, host, procs, work, ghosts>>

-----------------------------------------------------------------------------
SpineInit ==
  /\ Init
  /\ client = [c \in Client |-> Idle]
  /\ lease = None
  /\ unit = [t \in Token |-> "none"]
  /\ pending = {}
  /\ carrier = {}
  /\ inflight = {}
  /\ exec = [t \in Token |-> Dead]
  /\ worker = [w \in Worker |-> None]
  /\ released = {}
  /\ total = [r \in RunId |-> 0]
  /\ served = [r \in RunId |-> 0]
  /\ writer = 0
  /\ stray = [t \in Token |-> 0]
  /\ fenced = {}

CommandStep(c) ==
  \/ \E k \in Kind, p \in Payload : Submit(c, k, p)
  \/ Rebuild(c)
  \/ ProveExit(c)
  \/ ClosePredecessor(c)
  \/ RecordInterruption(c)
  \/ Check(c)
  \/ \E id \in ActionId : Admit(c, id)
  \/ Inspect(c)
  \/ Decide(c)
  \/ Reserve(c)
  \/ MarkLaunchPending(c)
  \/ StartUnit(c)
  \/ Observe(c)

HostStep(t) == SystemdStarts(t) \/ SystemdDrops(t) \/ CarrierExpires(t)

ExecutorStep(t) ==
  \/ Boot(t) \/ Start(t) \/ Shake(t) \/ Claim(t) \/ Select(t) \/ Attach(t)
  \/ WriteReceipt(t) \/ Apply(t) \/ Complete(t)
  \/ Terminate(t) \/ SaveOutcome(t)
  \/ \E w \in Worker : RegisterWorker(t, w)
  \/ \E status \in Outcome : DriveSave(t, status)
  \/ FenceExternal(t) \/ External(t) \/ DriveReturns(t) \/ CloseAdmission(t)
  \/ Finish(t) \/ Exit(t)

SpineNext ==
  \/ \E c \in Client : CommandStep(c) \/ Leave(c)
  \/ \E t \in Token : HostStep(t) \/ ExecutorStep(t) \/ DriveFails(t) \/ Raise(t) \/ Crash(t)
  \/ \E w \in Worker : ReleaseWorker(w) \/ WorkerEnds(w)
  \/ \E r \in RunId : AcceptTicketResume(r)
  \/ RecordLost

SpineSpec == SpineInit /\ [][SpineNext]_spine

\* What the scheduling of the code justifies.  A process that is neither
\* killed nor blocked runs on; a command polls; an invocation of an Agent has a
\* deadline; systemd answers or forgets a request and fires its timers.  Nobody
\* is obliged to submit anything, and a driver need never stop driving.
Advance(t) == DriveFails(t) \/ Raise(t) \/ ExecutorStep(t)

Fairness ==
  /\ \A t \in Token : /\ WF_spine(Advance(t))
                      /\ WF_spine(SystemdStarts(t) \/ SystemdDrops(t))
                      /\ WF_spine(CarrierExpires(t))
  /\ \A w \in Worker : WF_spine(WorkerEnds(w))
  /\ \A c \in Client : /\ WF_spine(MarkLaunchPending(c) \/ StartUnit(c))
                       /\ SF_spine(Observe(c))

FairSpec == SpineSpec /\ Fairness

-----------------------------------------------------------------------------
(* One executor at a time (ADR 0010).                                      *)

Fenced(t) == t \in fenced

\* One Executor Session per task: two processes that can both still work are
\* the fenced target of a Stop or Abandon and its successor.
OneSession ==
  \A t, u \in Token :
    t # u /\ Working(t) /\ Working(u) => Fenced(t) \/ Fenced(u)

Driving(t) == exec[t].pc \in {"drive", "external", "failing", "close"}

\* Two processes never drive the task at once, a fenced target apart: also when
\* the record is lost in between, as long as commands deal with it one at a time.
OneDriver ==
  \A t, u \in Token :
    t # u /\ Driving(t) /\ Driving(u) => Fenced(t) \/ Fenced(u)

\* After a fence at most the one external step already under way completes: the
\* process re-reads the record before each of them.
OneStrayStep == \A t \in Token : stray[t] <= 1

\* A Run is never saved by an older generation after a newer one saved it.
WritesAdvance == [][writer' >= writer]_writer

-----------------------------------------------------------------------------
(* Stop and Workers.                                                       *)

\* A Stop or Abandon is completed only with every Worker of its target dead.
StopEndsWorkers ==
  action # None /\ action.kind \in ControlKind /\ action.status = "completed"
    /\ action.target # None =>
       \A w \in released : worker[w] # TokenOf(action.target)

\* Workers of two Executors never run past their gates at the same time.
OneWorkerOwner ==
  \A v, w \in released : worker[v] = worker[w]

\* A Ticket Resume accepted by an Executor is taken up before that Executor
\* closes its admission and exits in good order.
ResumesServed ==
  executor # None /\ executor.closed /\ executor.failure = "none"
    /\ executor.run # None => served[executor.run] = total[executor.run]

-----------------------------------------------------------------------------
(* The record stays readable next to the Run it belongs to.                *)

OpenRun(r) == RunExists(r) /\ runs[r].status \notin ClosedRun
Readable   == \A r \in RunId : OpenRun(r) => RecordMatchesRun(r)

\* No process of the task is left, and no command beyond its first checks.
AtRest ==
  /\ present
  /\ lease = None /\ inflight = {}
  /\ \A t \in Token : ~Alive(t)
  /\ \A c \in Client : client[c].pc \in {"idle", "submit"}

\* The history is full, and all of it is newer than the Action of c.
PushedOut(c) ==
  /\ Len(history) = MaxHistory
  /\ \A i \in 1..MaxHistory : history[i].action.gen > c.gen

\* However far the attempt of a command that names its Run came, or wherever it
\* was cut off, every command that follows finds a record it can reconcile with
\* that Run, as long as the history has room for the predecessor.
SuccessorReadable ==
  action # None /\ action.kind \in LifecycleKind \ {"run"} =>
    LET r == PayloadRun[action.payload]
    IN  OpenRun(r) =>
          \/ RecordMatchesRun(r)
          \/ HasReceipt(r) /\ PushedOut(runs[r].receipt)

\* The same for every command, once nothing of the task runs.
ReadableAtRest == AtRest => Readable

\* An accepted Action nobody executes can be attached to again by repeating the
\* command that submitted it.
UnresolvedAttachable ==
  AtRest /\ Unfinished(action) => Readable

\* The Action whose receipt the Run still carries stays in the record.
PredecessorKept ==
  present /\ action # None =>
    \A r \in RunId :
      OpenRun(r) /\ HasReceipt(r) /\ ~MatchesReceipt(action, runs[r].receipt) =>
        InHistory(runs[r].receipt)

-----------------------------------------------------------------------------
(* Progress.                                                               *)

\* A command that waits for its Action returns.
WaitsEnd ==
  \A c \in Client : client[c].pc = "wait" ~> client[c].pc # "wait"

\* The target of a Stop or Abandon ends, with all its Workers.
FencedEnds ==
  \A t \in Token : Fenced(t) /\ Alive(t) ~> ~Alive(t)
=============================================================================
