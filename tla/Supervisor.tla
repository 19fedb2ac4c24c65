------------------------------ MODULE Supervisor ------------------------------
(***************************************************************************)
(* The supervisor task of one plugin instance (runtime/lifecycle.rs): it   *)
(* owns the guest and is the only one that calls it.  It serves a control  *)
(* channel (execute-command, execute-service-command, shutdown), the tick  *)
(* and the wake-ups of the bus; it applies the restart policy to a crash.  *)
(*                                                                         *)
(* Around it: clients with a handle, each with at most one call under way  *)
(* whose future may be dropped at any await; the service registry          *)
(* (state/services.rs) with the count of calls in flight, whose guard      *)
(* travels with the message; the reaper of runtime.rs, which sweeps after  *)
(* a terminal state has been published.                                    *)
(*                                                                         *)
(* One step is what runs between two awaits.  While the guest runs, in the *)
(* steps of Guest, everybody else goes on.                                 *)
(*                                                                         *)
(* Abstracted: what a command does; one service per instance, known by the *)
(* registration it was made in, this one or an earlier one; devices,       *)
(* projection and subscriptions are in DeviceState and EventBus.           *)
(***************************************************************************)
EXTENDS Naturals, Sequences, FiniteSets

CONSTANTS Commanders,    \* callers of InstanceHandle::execute_command
          Dispatchers,   \* callers of dispatcher::call_service
          Stoppers,      \* callers of InstanceHandle::stop
          QueueCap,      \* capacity of the control channel
          MaxRestarts,   \* SupervisorTuning::max_restarts
          Nobody

Clients == Commanders \cup Dispatchers \cup Stoppers

ASSUME SupervisorAssumption ==
  /\ Commanders \cap Dispatchers = {}
  /\ Stoppers \cap (Commanders \cup Dispatchers) = {}
  /\ Nobody \notin Clients
  /\ IsFiniteSet(Dispatchers)
  /\ QueueCap \in Nat \ {0}
  /\ MaxRestarts \in Nat

VARIABLES
  pc,        \* where the supervisor is
  watch,     \* the state last published
  policy,    \* runtime.restart of the manifest, pinned for all lives
  restarts,  \* consecutive restarts
  crash,     \* TrapReason and ran_healthy, until the restart decision
  queue,     \* control channel: whose message
  cur,       \* whose message is being served; Nobody when the channel closed
  client,    \* the clients' calls
  open,      \* a handle still exists
  reaper,    \* none for a supervisor that was not started through the engine
  service,   \* the instance's service is registered
  active,    \* active_calls of that service
  call       \* per dispatcher, the registration that its message addresses

supervisorVars == <<pc, watch, restarts, crash, queue, cur>>
serviceVars == <<service, active, call>>
vars == <<supervisorVars, policy, client, open, reaper, serviceVars>>

Policies == {"always", "on-trap", "never"}
PostInit == {"trap", "unresponsive"}
Reasons == PostInit \cup {"init-failed"}
Guest == {"init", "init-drain", "tick", "drain", "command", "shutdown"}
Over == {"stop", "stop-failed", "exit", "done"}
Terminal == {"Stopped", "Failed"}
NoCrash == [reason |-> "trap", healthy |-> FALSE]
Queued == {queue[i] : i \in DOMAIN queue}

Init == /\ pc = "sweep" /\ watch = "Loading"
        /\ policy \in Policies
        /\ restarts = 0 /\ crash = NoCrash
        /\ queue = <<>> /\ cur = Nobody
        /\ client = [c \in Clients |-> "idle"]
        /\ open = TRUE
        /\ reaper \in {"none", "watching"}
        /\ service = FALSE /\ active = 0
        /\ call = [d \in Dispatchers |-> "none"]

-----------------------------------------------------------------------------
(* The service registry *)

\* remove_by_owner: the registration goes, with its count; messages that
\* address it stay where they are.
SweepServices ==
  /\ service' = FALSE
  /\ active' = 0
  /\ call' = [d \in Dispatchers |-> IF call[d] = "current" THEN "past" ELSE call[d]]

\* CallGuard::drop for the messages of cs; release_call tolerates an id that
\* is gone, and saturates.
DropGuards(cs) ==
  LET n == Cardinality({d \in cs \cap Dispatchers : call[d] = "current"})
  IN /\ active' = IF active >= n THEN active - n ELSE 0
     /\ call' = [d \in Dispatchers |-> IF d \in cs THEN "none" ELSE call[d]]

\* The guest's host calls register_service and remove_service.
RegisterService ==
  /\ pc \in Guest /\ ~service
  /\ service' = TRUE
  /\ UNCHANGED <<supervisorVars, policy, client, open, reaper, active, call>>

RemoveService ==
  /\ pc \in Guest /\ service
  /\ active = 0
  /\ service' = FALSE
  /\ UNCHANGED <<supervisorVars, policy, client, open, reaper, active, call>>

-----------------------------------------------------------------------------
(* The clients *)

\* The oneshot of each client of cs is answered or dropped: its call returns,
\* unless nobody waits for it any more.  stop() returns Ok either way.
Answer(cs) ==
  client' = [c \in Clients |-> IF c \notin cs \/ client[c] \notin {"sending", "waiting"} THEN client[c]
                               ELSE IF c \in Stoppers THEN "returned" ELSE "idle"]

\* A call begins.  The dispatcher finds the handle in the engine's registry
\* and acquires the guard first, which needs the service to be there.
Begin(c) ==
  /\ client[c] = "idle" /\ open
  /\ client' = [client EXCEPT ![c] = "sending"]
  /\ IF c \in Dispatchers
     THEN /\ service /\ reaper = "watching"
          /\ active' = active + 1
          /\ call' = [call EXCEPT ![c] = "current"]
     ELSE UNCHANGED <<active, call>>
  /\ UNCHANGED <<supervisorVars, policy, open, reaper, service>>

\* The channel takes the message once it has room,
Enqueue(c) ==
  /\ client[c] = "sending" /\ pc # "done" /\ Len(queue) < QueueCap
  /\ queue' = Append(queue, c)
  /\ client' = [client EXCEPT ![c] = "waiting"]
  /\ UNCHANGED <<pc, watch, restarts, crash, cur, policy, open, reaper, serviceVars>>

\* or gives it back, guard included, when the supervisor is gone.
SendFails(c) ==
  /\ client[c] = "sending" /\ pc = "done"
  /\ Answer({c}) /\ DropGuards({c})
  /\ UNCHANGED <<supervisorVars, policy, open, reaper, service>>

\* mutant: the guard lives in the future of the caller
Abandon_DropsGuard(c) ==
  /\ client[c] \in {"sending", "waiting"}
  /\ client' = [client EXCEPT ![c] = "gone"]
  /\ DropGuards({c})
  /\ UNCHANGED <<supervisorVars, policy, open, reaper, service>>

\* The caller's future is dropped: DISPATCH_TIMEOUT, the per-stop timeout, a
\* request that was cancelled.  A message that was sent stays sent.
Abandon(c) ==
  /\ client[c] \in {"sending", "waiting"}
  /\ client' = [client EXCEPT ![c] = "gone"]
  /\ IF client[c] = "sending" THEN DropGuards({c}) ELSE UNCHANGED <<active, call>>
  /\ UNCHANGED <<supervisorVars, policy, open, reaper, service>>

\* The last handle goes.  The reaper of the engine holds one to the end.
DropHandles ==
  /\ open /\ reaper = "none"
  /\ \A c \in Clients : client[c] \notin {"sending", "waiting"}
  /\ open' = FALSE
  /\ UNCHANGED <<supervisorVars, policy, client, reaper, serviceVars>>

-----------------------------------------------------------------------------
(* One life: run_one_lifecycle *)

BeginLife ==
  /\ pc = "sweep"
  /\ SweepServices
  /\ watch' = "Loading" /\ pc' = "load"
  /\ UNCHANGED <<restarts, crash, queue, cur, policy, client, open, reaper>>

LoadReturns ==
  /\ pc = "load"
  /\ \/ pc' = "init" /\ UNCHANGED watch
     \/ pc' = "exit" /\ watch' = "Failed"
  /\ UNCHANGED <<restarts, crash, queue, cur, policy, client, open, reaper, serviceVars>>

\* LifecycleOutcome::Crashed
Crashes(reasons, healthy) ==
  /\ pc' = "decide"
  /\ \E r \in reasons, h \in healthy : crash' = [reason |-> r, healthy |-> h]
  /\ UNCHANGED watch

\* mutant: running_since is taken before init
InitReturns_ClockFromLoad ==
  /\ pc = "init"
  /\ \/ pc' = "init-drain" /\ watch' = "Inited" /\ UNCHANGED crash
     \/ Crashes(Reasons, BOOLEAN)
  /\ UNCHANGED <<restarts, queue, cur, policy, client, open, reaper, serviceVars>>

InitReturns ==
  /\ pc = "init"
  /\ \/ pc' = "init-drain" /\ watch' = "Inited" /\ UNCHANGED crash
     \/ Crashes(Reasons, {FALSE})
  /\ UNCHANGED <<restarts, queue, cur, policy, client, open, reaper, serviceVars>>

InitDrainReturns ==
  /\ pc = "init-drain"
  /\ \/ pc' = "select" /\ watch' = "Running" /\ UNCHANGED crash
     \/ Crashes(PostInit, {FALSE})
  /\ UNCHANGED <<restarts, queue, cur, policy, client, open, reaper, serviceVars>>

-----------------------------------------------------------------------------
(* serve_loop and handle_control *)

Tick ==
  /\ pc = "select" /\ pc' = "tick"
  /\ UNCHANGED <<watch, restarts, crash, queue, cur, policy, client, open, reaper, serviceVars>>

Wake ==
  /\ pc = "select" /\ pc' = "drain"
  /\ UNCHANGED <<watch, restarts, crash, queue, cur, policy, client, open, reaper, serviceVars>>

TickReturns ==
  /\ pc = "tick"
  /\ \/ pc' = "drain" /\ UNCHANGED <<watch, crash>>
     \/ Crashes(PostInit, BOOLEAN)
  /\ UNCHANGED <<restarts, queue, cur, policy, client, open, reaper, serviceVars>>

DrainReturns ==
  /\ pc = "drain"
  /\ \/ pc' = "select" /\ UNCHANGED <<watch, crash>>
     \/ Crashes(PostInit, BOOLEAN)
  /\ UNCHANGED <<restarts, queue, cur, policy, client, open, reaper, serviceVars>>

\* mutant: Stopped is published when the stop arrives
Receive_Stopped ==
  /\ pc = "select" /\ queue # <<>>
  /\ cur' = Head(queue) /\ queue' = Tail(queue)
  /\ IF Head(queue) \in Stoppers THEN pc' = "shutdown" /\ watch' = "Stopped"
                                 ELSE pc' = "command" /\ UNCHANGED watch
  /\ UNCHANGED <<restarts, crash, policy, client, open, reaper, serviceVars>>

Receive ==
  /\ pc = "select" /\ queue # <<>>
  /\ cur' = Head(queue) /\ queue' = Tail(queue)
  /\ IF Head(queue) \in Stoppers THEN pc' = "shutdown" /\ watch' = "Stopping"
                                 ELSE pc' = "command" /\ UNCHANGED watch
  /\ UNCHANGED <<restarts, crash, policy, client, open, reaper, serviceVars>>

\* recv() returns None
Closed ==
  /\ pc = "select" /\ queue = <<>> /\ ~open
  /\ pc' = "shutdown" /\ watch' = "Stopping"
  /\ UNCHANGED <<restarts, crash, queue, cur, policy, client, open, reaper, serviceVars>>

\* Execute, ExecuteService: the guard goes, the caller gets the result or the
\* trap.
CommandReturns ==
  /\ pc = "command"
  /\ Answer({cur}) /\ DropGuards({cur})
  /\ cur' = Nobody
  /\ \/ pc' = "drain" /\ UNCHANGED <<watch, crash>>
     \/ Crashes(PostInit, BOOLEAN)
  /\ UNCHANGED <<restarts, queue, policy, open, reaper, service>>

\* mutant: a trap in shutdown goes through the restart policy
ShutdownReturns_TrapIsCrash ==
  /\ pc = "shutdown"
  /\ Answer({cur})
  /\ cur' = Nobody
  /\ \/ pc' = "stop" /\ UNCHANGED <<watch, crash>>
     \/ Crashes(PostInit, BOOLEAN)
  /\ UNCHANGED <<restarts, queue, policy, open, reaper, serviceVars>>

\* The stop is acknowledged whatever the guest did, and is final.  A trap
\* after the last handle went is a crash like any other.
ShutdownReturns ==
  /\ pc = "shutdown"
  /\ Answer({cur})
  /\ cur' = Nobody
  /\ \/ pc' = "stop" /\ UNCHANGED <<watch, crash>>
     \/ cur # Nobody /\ pc' = "stop-failed" /\ UNCHANGED <<watch, crash>>
     \/ cur = Nobody /\ Crashes(PostInit, BOOLEAN)
  /\ UNCHANGED <<restarts, queue, policy, open, reaper, serviceVars>>

Stop ==
  /\ pc \in {"stop", "stop-failed"}
  /\ watch' = IF pc = "stop" THEN "Stopped" ELSE "Failed"
  /\ pc' = "exit"
  /\ UNCHANGED <<restarts, crash, queue, cur, policy, client, open, reaper, serviceVars>>

-----------------------------------------------------------------------------
(* run_supervisor: the restart policy *)

PolicyAllows == \/ policy = "always"
                \/ policy = "on-trap" /\ crash.reason \in PostInit

RestartsSoFar == IF crash.healthy THEN 0 ELSE restarts

MayRestart == PolicyAllows /\ RestartsSoFar < MaxRestarts

Decide ==
  /\ pc = "decide"
  /\ restarts' = RestartsSoFar
  /\ crash' = NoCrash
  /\ IF MayRestart THEN pc' = "restart" /\ watch' = "Crashed"
                   ELSE pc' = "exit" /\ watch' = "Failed"
  /\ UNCHANGED <<queue, cur, policy, client, open, reaper, serviceVars>>

Restart ==
  /\ pc = "restart"
  /\ restarts' = restarts + 1
  /\ watch' = "Restarting" /\ pc' = "backoff"
  /\ UNCHANGED <<crash, queue, cur, policy, client, open, reaper, serviceVars>>

Elapsed ==
  /\ pc = "backoff" /\ pc' = "sweep"
  /\ UNCHANGED <<watch, restarts, crash, queue, cur, policy, client, open, reaper, serviceVars>>

\* backoff_wait: a command is refused, a stop ends it.
BackoffReceive ==
  /\ pc = "backoff" /\ queue # <<>>
  /\ queue' = Tail(queue)
  /\ Answer({Head(queue)}) /\ DropGuards({Head(queue)})
  /\ pc' = IF Head(queue) \in Stoppers THEN "stop" ELSE "backoff"
  /\ UNCHANGED <<watch, restarts, crash, cur, policy, open, reaper, service>>

BackoffClosed ==
  /\ pc = "backoff" /\ queue = <<>> /\ ~open
  /\ pc' = "stop"
  /\ UNCHANGED <<watch, restarts, crash, queue, cur, policy, client, open, reaper, serviceVars>>

\* mutant: the receiver outlives the task
Exit_KeepsReceiver ==
  /\ pc = "exit"
  /\ pc' = "done"
  /\ UNCHANGED <<watch, restarts, crash, queue, cur, policy, client, open, reaper, serviceVars>>

\* The task ends; the receiver drops what is still in the channel.
Exit ==
  /\ pc = "exit"
  /\ pc' = "done"
  /\ queue' = <<>>
  /\ Answer(Queued) /\ DropGuards(Queued)
  /\ UNCHANGED <<watch, restarts, crash, cur, policy, open, reaper, service>>

\* The reaper runs as soon as it sees a terminal state.
Reap ==
  /\ reaper = "watching" /\ watch \in Terminal
  /\ reaper' = "done"
  /\ SweepServices
  /\ UNCHANGED <<supervisorVars, policy, client, open>>

-----------------------------------------------------------------------------
\* What the supervisor does without waiting for anybody
Proceed == \/ BeginLife \/ LoadReturns \/ InitReturns \/ InitDrainReturns
           \/ TickReturns \/ DrainReturns \/ CommandReturns \/ ShutdownReturns \/ Stop
           \/ Decide \/ Restart \/ Exit

Select == Tick \/ Wake \/ Receive \/ Closed \/ Elapsed \/ BackoffReceive \/ BackoffClosed

Next == \/ Proceed \/ Select \/ RegisterService \/ RemoveService \/ Reap \/ DropHandles
        \/ \E c \in Clients : Begin(c) \/ Enqueue(c) \/ SendFails(c) \/ Abandon(c)

Spec == Init /\ [][Next]_vars

\* A guest call ends, by the watchdog if not by itself; select! polls its arms
\* in random order, so an arm that is ready time and again is taken; the
\* channel hands out room in the order of asking.
Fairness == /\ WF_vars(Proceed)
            /\ WF_vars(Elapsed)
            /\ SF_vars(Receive \/ Closed)
            /\ SF_vars(BackoffReceive \/ BackoffClosed)
            /\ \A c \in Clients : SF_vars(Enqueue(c) \/ SendFails(c))

FairSpec == Spec /\ Fairness

-----------------------------------------------------------------------------
(* Properties *)

\* The state of a supervisor, its channel and its clients, with the bounds of
\* the channel and of the restart counter (SupervisorTuning::max_restarts).
SupervisorTypeOK ==
  /\ pc \in Guest \cup Over \cup {"sweep", "load", "select", "decide", "restart", "backoff"}
  /\ watch \in {"Loading", "Inited", "Running", "Crashed", "Restarting", "Stopping"} \cup Terminal
  /\ policy \in Policies
  /\ restarts \in 0 .. MaxRestarts
  /\ crash \in [reason : Reasons, healthy : BOOLEAN]
  /\ queue \in Seq(Clients) /\ Len(queue) <= QueueCap
  /\ cur \in Clients \cup {Nobody}
  /\ client \in [Clients -> {"idle", "sending", "waiting", "returned", "gone"}]
  /\ open \in BOOLEAN /\ service \in BOOLEAN
  /\ reaper \in {"none", "watching", "done"}
  /\ active \in Nat
  /\ call \in [Dispatchers -> {"none", "current", "past"}]

\* Once stop() has returned to anybody, the instance runs no guest code again
\* and begins no other life, whatever its shutdown did and whatever its policy
\* (handle_control, backoff_wait, the end of run_supervisor).
StopIsFinal == (\E s \in Stoppers : client[s] = "returned") => pc \in Over

\* After the reaper has swept, nothing of the instance appears again: a
\* terminal state is published only when the guest has run for the last time.
ReapedStaysClean == reaper = "done" => ~service /\ pc \notin Guest

\* The count that remove_service consults is the number of calls that address
\* the registered service and are about to be sent, queued or running, whether
\* or not their callers still wait (CallGuard in ControlCommand).
InFlightCounted ==
  /\ active = Cardinality({d \in Dispatchers : call[d] = "current"})
  /\ \A d \in Dispatchers : (d \in Queued \/ cur = d \/ client[d] = "sending") => call[d] # "none"
  /\ active > 0 => service

\* The published states follow the automaton of InstanceLifecycle, with the
\* restart counter and its cap.
Life == INSTANCE InstanceLifecycle WITH state <- watch, attempt <- restarts
LifecycleFollowed == Life!Spec

\* Every call on a handle returns: answered, refused during backoff, or dropped
\* with the channel.
EveryCallReturns ==
  \A c \in Clients : client[c] \in {"sending", "waiting"} ~> client[c] \notin {"sending", "waiting"}
=============================================================================
