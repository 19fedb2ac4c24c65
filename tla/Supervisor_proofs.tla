-------------------------- MODULE Supervisor_proofs --------------------------
(***************************************************************************)
(* A supervisor keeps its promises for any number of clients, any capacity *)
(* of the control channel and any restart cap.  The invariant says where   *)
(* the supervisor is when it has published what, whom it is serving, and   *)
(* where a call under way is: with its caller, in the channel or being     *)
(* served, and in one of these only.                                       *)
(***************************************************************************)
EXTENDS Supervisor, FiniteSetTheorems, TLAPS

(* What is published at each point of the supervisor.                      *)
Control ==
  /\ pc = "sweep" => watch \in {"Loading", "Restarting"}
  /\ pc \in {"load", "init"} => watch = "Loading"
  /\ pc = "init-drain" => watch = "Inited"
  /\ pc \in {"select", "tick", "drain", "command"} => watch = "Running"
  /\ pc \in {"shutdown", "stop-failed"} => watch = "Stopping"
  /\ pc = "stop" => watch \in {"Stopping", "Restarting"}
  /\ pc = "decide" => /\ watch \in {"Loading", "Inited", "Running", "Stopping"}
                      /\ crash.healthy => watch \in {"Running", "Stopping"}
  /\ pc = "restart" => watch = "Crashed" /\ restarts < MaxRestarts
  /\ pc = "backoff" => watch = "Restarting"
  /\ pc \in {"exit", "done"} => watch \in Terminal

(* Whom it serves.                                                         *)
Serving ==
  /\ pc = "command" => cur \in Commanders \cup Dispatchers
  /\ pc = "shutdown" => cur \in Stoppers \cup {Nobody}
  /\ pc \notin {"command", "shutdown"} => cur = Nobody

(* Where a call under way is.                                              *)
Places ==
  /\ \A i, j \in 1 .. Len(queue) : queue[i] = queue[j] => i = j
  /\ \A i \in 1 .. Len(queue) : queue[i] # cur /\ client[queue[i]] \in {"waiting", "gone"}
  /\ cur # Nobody => client[cur] \in {"waiting", "gone"}
  /\ \A d \in Dispatchers : client[d] = "idle" => call[d] = "none"
  /\ \A d \in Dispatchers : client[d] # "returned"

Reaped == reaper = "done" => pc \in {"exit", "done"} /\ ~service

SupervisorInv ==
  /\ SupervisorTypeOK
  /\ Control /\ Serving /\ Places
  /\ StopIsFinal /\ Reaped
  /\ InFlightCounted

InFlight == {d \in Dispatchers : call[d] = "current"}

-----------------------------------------------------------------------------
(* The registry's operations on the count.                                 *)

CountTypes == active \in Nat /\ call \in [Dispatchers -> {"none", "current", "past"}]

(* Guards that go take from the count what they stood for.                 *)
LEMMA DropCounts ==
  ASSUME CountTypes, active = Cardinality(InFlight), NEW cs, DropGuards(cs)
  PROVE  /\ CountTypes'
         /\ active' = Cardinality(InFlight')
         /\ active' <= active
         /\ \A d \in Dispatchers : call'[d] = IF d \in cs THEN "none" ELSE call[d]
<1> DEFINE D == {d \in cs \cap Dispatchers : call[d] = "current"}
<1>1. IsFiniteSet(InFlight)
  BY SupervisorAssumption, FS_Subset DEF InFlight
<1>2. D = InFlight \cap cs
  BY DEF InFlight
<1>3. Cardinality(InFlight \ cs) = Cardinality(InFlight) - Cardinality(D)
  BY ZenonT(30), <1>1, <1>2, FS_Difference
<1>4. Cardinality(D) \in Nat /\ Cardinality(D) <= Cardinality(InFlight)
  BY <1>1, <1>2, FS_Subset, FS_CardinalityType
<1>5. active' = active - Cardinality(D)
  BY <1>4 DEF DropGuards, CountTypes
<1>6. \A d \in Dispatchers : call'[d] = IF d \in cs THEN "none" ELSE call[d]
  BY DEF DropGuards
<1>7. InFlight' = InFlight \ cs
  BY <1>6 DEF InFlight
<1>8. call' \in [Dispatchers -> {"none", "current", "past"}]
  BY DEF DropGuards, CountTypes
<1> QED
  BY <1>3, <1>4, <1>5, <1>6, <1>7, <1>8 DEF CountTypes

(* A sweep leaves nothing to count.                                        *)
LEMMA SweepCounts ==
  ASSUME CountTypes, SweepServices
  PROVE  /\ CountTypes'
         /\ ~service'
         /\ active' = 0 /\ active' = Cardinality(InFlight')
         /\ \A d \in Dispatchers : call'[d] = "none" <=> call[d] = "none"
<1>1. \A d \in Dispatchers : call'[d] = IF call[d] = "current" THEN "past" ELSE call[d]
  BY DEF SweepServices
<1>2. InFlight' = {}
  BY <1>1 DEF InFlight
<1>3. call' \in [Dispatchers -> {"none", "current", "past"}]
  BY DEF SweepServices, CountTypes
<1> QED
  BY <1>1, <1>2, <1>3, FS_EmptySet DEF SweepServices, CountTypes

(* A guard that is acquired is counted.                                    *)
LEMMA AcquireCounts ==
  ASSUME CountTypes, active = Cardinality(InFlight),
         NEW c \in Dispatchers, call[c] = "none",
         active' = active + 1, call' = [call EXCEPT ![c] = "current"]
  PROVE  CountTypes' /\ active' = Cardinality(InFlight')
<1>1. IsFiniteSet(InFlight)
  BY SupervisorAssumption, FS_Subset DEF InFlight
<1>2. InFlight' = InFlight \cup {c}
  BY DEF InFlight, CountTypes
<1>3. c \notin InFlight
  BY DEF InFlight
<1>4. Cardinality(InFlight \cup {c}) = Cardinality(InFlight) + 1
  BY <1>1, <1>3, FS_AddElement
<1>5. active' \in Nat /\ call' \in [Dispatchers -> {"none", "current", "past"}]
  BY DEF CountTypes
<1> QED
  BY <1>2, <1>4, <1>5 DEF CountTypes

(* Only a call under way is answered; stop() returns, the others may begin *)
(* anew.                                                                   *)
LEMMA AnswerEffect ==
  ASSUME client \in [Clients -> {"idle", "sending", "waiting", "returned", "gone"}],
         NEW cs, Answer(cs)
  PROVE  /\ client' \in [Clients -> {"idle", "sending", "waiting", "returned", "gone"}]
         /\ \A c \in Clients :
              client'[c] = IF c \notin cs \/ client[c] \notin {"sending", "waiting"} THEN client[c]
                           ELSE IF c \in Stoppers THEN "returned" ELSE "idle"
BY DEF Answer

LEMMA InitOK == Init => SupervisorInv
<1> SUFFICES ASSUME Init PROVE SupervisorInv
  OBVIOUS
<1>1. InFlight = {}
  BY DEF Init, InFlight
<1>2. active = Cardinality(InFlight)
  BY <1>1, FS_EmptySet DEF Init
<1>3. Queued = {} /\ queue \in Seq(Clients) /\ Len(queue) = 0
  BY DEF Init, Queued
<1>4. InFlightCounted
  BY <1>2, <1>3, SupervisorAssumption DEF Init, InFlightCounted, InFlight, Clients
<1>5. SupervisorTypeOK
  <2>1. crash \in [reason : Reasons, healthy : BOOLEAN]
    BY DEF Init, NoCrash, Reasons, PostInit
  <2>2. restarts \in 0 .. MaxRestarts /\ 0 <= QueueCap
    BY SupervisorAssumption DEF Init
  <2>3. /\ client \in [Clients -> {"idle", "sending", "waiting", "returned", "gone"}]
        /\ call \in [Dispatchers -> {"none", "current", "past"}]
    BY DEF Init
  <2> QED
    BY <1>3, <2>1, <2>2, <2>3 DEF Init, SupervisorTypeOK, Terminal, Guest, Over
<1>6. Control /\ Serving /\ Places
  BY <1>3 DEF Init, Control, Serving, Places, Guest, Clients
<1>7. StopIsFinal /\ Reaped
  BY DEF Init, StopIsFinal, Reaped, Clients
<1> QED
  BY <1>4, <1>5, <1>6, <1>7 DEF SupervisorInv

-----------------------------------------------------------------------------
(* Steps that touch neither channel nor clients nor registry.              *)

Pcs == Guest \cup Over \cup {"sweep", "load", "select", "decide", "restart", "backoff"}

States == {"Loading", "Inited", "Running", "Crashed", "Restarting", "Stopping"} \cup Terminal

(* What such a step has to show for itself.                                *)
LEMMA QuietKeeps ==
  ASSUME SupervisorInv,
         UNCHANGED <<queue, cur, policy, client, open, reaper, serviceVars>>,
         pc' \in Pcs, watch' \in States, restarts' \in 0 .. MaxRestarts,
         crash' \in [reason : Reasons, healthy : BOOLEAN],
         Control', Serving',
         pc \in Over => pc' \in Over,
         pc \in {"exit", "done"} => pc' \in {"exit", "done"}
  PROVE  SupervisorInv'
<1>1. SupervisorTypeOK'
  BY DEF SupervisorInv, SupervisorTypeOK, Pcs, States, serviceVars
<1>2. Places'
  BY DEF SupervisorInv, Places, serviceVars
<1>3. StopIsFinal' /\ Reaped'
  BY DEF SupervisorInv, StopIsFinal, Reaped, serviceVars
<1>4. InFlightCounted'
  BY DEF SupervisorInv, InFlightCounted, Queued, serviceVars
<1> QED
  BY <1>1, <1>2, <1>3, <1>4 DEF SupervisorInv

(* A crash is on record until the decision.                                *)
LEMMA CrashRecorded ==
  ASSUME NEW R \in SUBSET Reasons, NEW H \in SUBSET BOOLEAN, Crashes(R, H)
  PROVE  /\ pc' = "decide" /\ watch' = watch
         /\ crash' \in [reason : Reasons, healthy : BOOLEAN]
         /\ H = {FALSE} => ~crash'.healthy
<1>1. PICK r \in R, h \in H : crash' = [reason |-> r, healthy |-> h]
  BY DEF Crashes
<1>2. crash' \in [reason : Reasons, healthy : BOOLEAN] /\ crash'.healthy = h
  BY <1>1
<1>3. H = {FALSE} => ~crash'.healthy
  BY <1>1, <1>2
<1> QED
  BY <1>2, <1>3 DEF Crashes

LEMMA ProceedQuietly ==
  ASSUME SupervisorInv,
         \/ LoadReturns \/ InitReturns \/ InitDrainReturns \/ TickReturns \/ DrainReturns
         \/ Stop \/ Decide \/ Restart
  PROVE  SupervisorInv'
<1> USE SupervisorAssumption
<1>r. PostInit \in SUBSET Reasons /\ Reasons \in SUBSET Reasons /\ {FALSE} \in SUBSET BOOLEAN
      /\ BOOLEAN \in SUBSET BOOLEAN
  BY DEF Reasons
<1>1. CASE LoadReturns
  <2>1. UNCHANGED <<queue, cur, policy, client, open, reaper, serviceVars, restarts, crash>>
    BY <1>1 DEF LoadReturns
  <2> QED
    BY <1>1, <2>1, QuietKeeps
    DEF LoadReturns, SupervisorInv, SupervisorTypeOK, Control, Serving, Pcs, States, Guest, Over, Terminal
<1>2. CASE InitReturns
  <2>1. UNCHANGED <<queue, cur, policy, client, open, reaper, serviceVars, restarts>>
    BY <1>2 DEF InitReturns
  <2>2. CASE Crashes(Reasons, {FALSE})
    BY <1>r, <2>1, <2>2, CrashRecorded, <1>2, QuietKeeps
    DEF InitReturns, SupervisorInv, SupervisorTypeOK, Control, Serving, Pcs, States, Guest, Over, Terminal
  <2>3. CASE UNCHANGED crash
    BY <1>2, <2>1, <2>3, QuietKeeps
    DEF InitReturns, Crashes, SupervisorInv, SupervisorTypeOK, Control, Serving, Pcs, States, Guest, Over, Terminal
  <2> QED
    BY <1>2, <2>2, <2>3 DEF InitReturns
<1>3. CASE InitDrainReturns
  <2>1. UNCHANGED <<queue, cur, policy, client, open, reaper, serviceVars, restarts>>
    BY <1>3 DEF InitDrainReturns
  <2>2. CASE Crashes(PostInit, {FALSE})
    BY <1>r, <2>1, <2>2, CrashRecorded, <1>3, QuietKeeps
    DEF InitDrainReturns, SupervisorInv, SupervisorTypeOK, Control, Serving, Pcs, States, Guest, Over, Terminal
  <2>3. CASE UNCHANGED crash
    BY <1>3, <2>1, <2>3, QuietKeeps
    DEF InitDrainReturns, Crashes, SupervisorInv, SupervisorTypeOK, Control, Serving, Pcs, States, Guest, Over, Terminal
  <2> QED
    BY <1>3, <2>2, <2>3 DEF InitDrainReturns
<1>4. CASE TickReturns
  <2>1. UNCHANGED <<queue, cur, policy, client, open, reaper, serviceVars, restarts>>
    BY <1>4 DEF TickReturns
  <2>2. CASE Crashes(PostInit, BOOLEAN)
    BY <1>r, <2>1, <2>2, CrashRecorded, <1>4, QuietKeeps
    DEF TickReturns, SupervisorInv, SupervisorTypeOK, Control, Serving, Pcs, States, Guest, Over, Terminal
  <2>3. CASE UNCHANGED crash
    BY <1>4, <2>1, <2>3, QuietKeeps
    DEF TickReturns, Crashes, SupervisorInv, SupervisorTypeOK, Control, Serving, Pcs, States, Guest, Over, Terminal
  <2> QED
    BY <1>4, <2>2, <2>3 DEF TickReturns
<1>5. CASE DrainReturns
  <2>1. UNCHANGED <<queue, cur, policy, client, open, reaper, serviceVars, restarts>>
    BY <1>5 DEF DrainReturns
  <2>2. CASE Crashes(PostInit, BOOLEAN)
    BY <1>r, <2>1, <2>2, CrashRecorded, <1>5, QuietKeeps
    DEF DrainReturns, SupervisorInv, SupervisorTypeOK, Control, Serving, Pcs, States, Guest, Over, Terminal
  <2>3. CASE UNCHANGED crash
    BY <1>5, <2>1, <2>3, QuietKeeps
    DEF DrainReturns, Crashes, SupervisorInv, SupervisorTypeOK, Control, Serving, Pcs, States, Guest, Over, Terminal
  <2> QED
    BY <1>5, <2>2, <2>3 DEF DrainReturns
<1>6. CASE Stop
  <2>1. UNCHANGED <<queue, cur, policy, client, open, reaper, serviceVars, restarts, crash>>
    BY <1>6 DEF Stop
  <2> QED
    BY <1>6, <2>1, QuietKeeps
    DEF Stop, SupervisorInv, SupervisorTypeOK, Control, Serving, Pcs, States, Guest, Over, Terminal
<1>7. CASE Decide
  <2>1. UNCHANGED <<queue, cur, policy, client, open, reaper, serviceVars>>
    BY <1>7 DEF Decide
  <2> QED
    BY <1>7, <2>1, QuietKeeps
    DEF Decide, MayRestart, RestartsSoFar, NoCrash, Reasons, PostInit,
        SupervisorInv, SupervisorTypeOK, Control, Serving, Pcs, States, Guest, Over, Terminal
<1>8. CASE Restart
  <2>1. UNCHANGED <<queue, cur, policy, client, open, reaper, serviceVars, crash>>
    BY <1>8 DEF Restart
  <2> QED
    BY <1>8, <2>1, QuietKeeps
    DEF Restart, SupervisorInv, SupervisorTypeOK, Control, Serving, Pcs, States, Guest, Over, Terminal
<1> QED
  BY <1>1, <1>2, <1>3, <1>4, <1>5, <1>6, <1>7, <1>8

LEMMA SelectQuietly ==
  ASSUME SupervisorInv, Tick \/ Wake \/ Closed \/ Elapsed \/ BackoffClosed
  PROVE  SupervisorInv'
<1>1. UNCHANGED <<queue, cur, policy, client, open, reaper, serviceVars, restarts, crash>>
  BY DEF Tick, Wake, Closed, Elapsed, BackoffClosed
<1>2. /\ pc \in {"select", "backoff"} /\ pc' \in {"tick", "drain", "shutdown", "sweep", "stop"}
      /\ watch' \in {watch, "Stopping"}
  BY DEF Tick, Wake, Closed, Elapsed, BackoffClosed
<1>3. Control' /\ Serving'
  BY <1>1 DEF Tick, Wake, Closed, Elapsed, BackoffClosed, SupervisorInv, Control, Serving, Terminal
<1> QED
  BY <1>1, <1>2, <1>3, QuietKeeps
  DEF SupervisorInv, SupervisorTypeOK, Pcs, States, Guest, Over, Terminal

-----------------------------------------------------------------------------
(* The registry's own steps.                                               *)

LEMMA RegistrySteps ==
  ASSUME SupervisorInv, RegisterService \/ RemoveService \/ BeginLife \/ Reap
  PROVE  SupervisorInv'
<1> USE DEF supervisorVars, serviceVars
<1>i. SupervisorTypeOK /\ Control /\ Serving /\ Places /\ StopIsFinal /\ Reaped /\ InFlightCounted
  BY DEF SupervisorInv
<1>t. CountTypes /\ active = Cardinality(InFlight)
  BY <1>i DEF SupervisorTypeOK, InFlightCounted, CountTypes, InFlight
<1>1. CASE RegisterService
  <2>1. SupervisorTypeOK' /\ Control' /\ Serving' /\ Places' /\ StopIsFinal'
    BY <1>i, <1>1 DEF RegisterService, SupervisorTypeOK, Control, Serving, Places, StopIsFinal
  <2>2. Reaped'
    BY <1>i, <1>1 DEF RegisterService, Reaped, Guest
  <2>3. InFlightCounted'
    BY <1>i, <1>1 DEF RegisterService, InFlightCounted, Queued
  <2> QED
    BY <2>1, <2>2, <2>3 DEF SupervisorInv
<1>2. CASE RemoveService
  <2>1. SupervisorTypeOK'
    BY <1>i, <1>2 DEF RemoveService, SupervisorTypeOK
  <2>2. Control' /\ Serving' /\ Places' /\ StopIsFinal' /\ Reaped'
    BY <1>i, <1>2 DEF RemoveService, Control, Serving, Places, StopIsFinal, Reaped
  <2>3. InFlightCounted'
    BY <1>i, <1>2 DEF RemoveService, InFlightCounted, Queued
  <2> QED
    BY <2>1, <2>2, <2>3 DEF SupervisorInv
<1>3. CASE BeginLife
  <2>1. /\ CountTypes' /\ ~service' /\ active' = 0 /\ active' = Cardinality(InFlight')
        /\ \A d \in Dispatchers : call'[d] = "none" <=> call[d] = "none"
    BY <1>3, <1>t, SweepCounts DEF BeginLife
  <2>2. SupervisorTypeOK'
    BY <1>i, <1>3, <2>1 DEF BeginLife, SweepServices, SupervisorTypeOK, CountTypes
  <2>3. Control' /\ Serving' /\ StopIsFinal' /\ Reaped'
    BY <1>i, <1>3 DEF BeginLife, Control, Serving, StopIsFinal, Reaped, Over
  <2>4. Places'
    BY <1>i, <1>3, <2>1 DEF BeginLife, Places
  <2>5. InFlightCounted'
    BY <1>i, <1>3, <2>1 DEF BeginLife, InFlightCounted, InFlight, Queued
  <2> QED
    BY <2>2, <2>3, <2>4, <2>5 DEF SupervisorInv
<1>4. CASE Reap
  <2>1. /\ CountTypes' /\ ~service' /\ active' = 0 /\ active' = Cardinality(InFlight')
        /\ \A d \in Dispatchers : call'[d] = "none" <=> call[d] = "none"
    BY <1>4, <1>t, SweepCounts DEF Reap
  <2>2. SupervisorTypeOK'
    BY <1>i, <1>4, <2>1 DEF Reap, SweepServices, SupervisorTypeOK, CountTypes
  <2>3. pc \in {"exit", "done"}
    BY <1>i, <1>4 DEF Reap, Control, SupervisorTypeOK, Terminal, Guest, Over
  <2>4. Control' /\ Serving' /\ StopIsFinal' /\ Reaped'
    BY <1>i, <1>4, <2>1, <2>3 DEF Reap, Control, Serving, StopIsFinal, Reaped
  <2>5. Places'
    BY <1>i, <1>4, <2>1 DEF Reap, Places
  <2>6. InFlightCounted'
    BY <1>i, <1>4, <2>1 DEF Reap, InFlightCounted, InFlight, Queued
  <2> QED
    BY <2>2, <2>4, <2>5, <2>6 DEF SupervisorInv
<1> QED
  BY <1>1, <1>2, <1>3, <1>4

-----------------------------------------------------------------------------
(* The clients' steps.                                                     *)

(* A call that is not yet sent is nowhere else.                            *)
LEMMA NotPlaced ==
  ASSUME SupervisorTypeOK, Places, NEW c \in Clients, client[c] \in {"idle", "sending"}
  PROVE  c \notin Queued /\ c # cur
BY SupervisorAssumption DEF SupervisorTypeOK, Places, Queued

LEMMA BeginKeeps ==
  ASSUME SupervisorInv, NEW c \in Clients, Begin(c)
  PROVE  SupervisorInv'
<1> USE SupervisorAssumption DEF supervisorVars
<1>i. SupervisorTypeOK /\ Control /\ Serving /\ Places /\ StopIsFinal /\ Reaped /\ InFlightCounted
  BY DEF SupervisorInv
<1>t. CountTypes /\ active = Cardinality(InFlight)
  BY <1>i DEF SupervisorTypeOK, InFlightCounted, CountTypes, InFlight
<1>n. c \notin Queued /\ c # cur
  BY <1>i, NotPlaced DEF Begin
<1>1. /\ UNCHANGED <<pc, watch, restarts, crash, queue, cur, policy, open, reaper, service>>
      /\ client' = [client EXCEPT ![c] = "sending"]
  BY DEF Begin
<1>2. /\ CountTypes' /\ active' = Cardinality(InFlight')
      /\ \A d \in Dispatchers : call'[d] = IF d = c THEN "current" ELSE call[d]
      /\ active' > 0 => service
  <2>1. CASE c \in Dispatchers
    <3>1. call[c] = "none" /\ active' = active + 1 /\ call' = [call EXCEPT ![c] = "current"] /\ service
      BY <1>i, <2>1 DEF Begin, Places
    <3>2. CountTypes' /\ active' = Cardinality(InFlight')
      BY <1>t, <2>1, <3>1, AcquireCounts
    <3> QED
      BY <1>t, <3>1, <3>2 DEF CountTypes
  <2>2. CASE c \notin Dispatchers
    <3>1. UNCHANGED <<active, call>>
      BY <2>2 DEF Begin
    <3> QED
      BY <1>i, <1>t, <2>2, <3>1 DEF CountTypes, InFlight, InFlightCounted
  <2> QED
    BY <2>1, <2>2
<1>3. SupervisorTypeOK'
  BY <1>i, <1>1, <1>2 DEF SupervisorTypeOK, CountTypes
<1>4. Control' /\ Serving' /\ StopIsFinal' /\ Reaped'
  BY <1>i, <1>1 DEF Control, Serving, StopIsFinal, Reaped, SupervisorTypeOK, Clients
<1>5. Places'
  <2>1. /\ \A i, j \in 1..Len(queue') : queue'[i] = queue'[j] => i = j
        /\ \A i \in 1..Len(queue') : queue'[i] # cur' /\ client'[queue'[i]] \in {"waiting", "gone"}
    <3>1. \A i \in 1..Len(queue) : queue[i] # c /\ queue[i] \in Clients
      BY <1>i, <1>n DEF Queued, SupervisorTypeOK
    <3> QED
      BY <1>i, <1>1, <3>1 DEF Places, SupervisorTypeOK
  <2>2. cur' # Nobody => client'[cur'] \in {"waiting", "gone"}
    BY <1>i, <1>1, <1>n DEF Places, SupervisorTypeOK
  <2>3. \A d \in Dispatchers : client'[d] # "returned" /\ (client'[d] = "idle" => call'[d] = "none")
    BY <1>i, <1>1, <1>2 DEF Places, SupervisorTypeOK, Clients
  <2> QED
    BY <2>1, <2>2, <2>3 DEF Places
<1>6. InFlightCounted'
  BY <1>i, <1>1, <1>2 DEF InFlightCounted, InFlight, Queued, SupervisorTypeOK, Clients
<1> QED
  BY <1>3, <1>4, <1>5, <1>6 DEF SupervisorInv

LEMMA EnqueueKeeps ==
  ASSUME SupervisorInv, NEW c \in Clients, Enqueue(c)
  PROVE  SupervisorInv'
<1> USE SupervisorAssumption DEF serviceVars
<1>i. SupervisorTypeOK /\ Control /\ Serving /\ Places /\ StopIsFinal /\ Reaped /\ InFlightCounted
  BY DEF SupervisorInv
<1>n. c \notin Queued /\ c # cur
  BY <1>i, NotPlaced DEF Enqueue
<1>1. /\ UNCHANGED <<pc, watch, restarts, crash, cur, policy, open, reaper, serviceVars>>
      /\ \A x \in Clients : client'[x] = IF x = c THEN "waiting" ELSE client[x]
      /\ client' \in [Clients -> {"idle", "sending", "waiting", "returned", "gone"}]
      /\ client[c] = "sending" /\ Len(queue) < QueueCap /\ queue' = Append(queue, c)
  BY <1>i DEF Enqueue, SupervisorTypeOK
<1>2. /\ queue' \in Seq(Clients) /\ Len(queue') = Len(queue) + 1
      /\ \A i \in 1 .. Len(queue') : queue'[i] = IF i <= Len(queue) THEN queue[i] ELSE c
  BY <1>i, <1>1 DEF SupervisorTypeOK
<1>3. Queued' = Queued \cup {c}
  <2>1. /\ Len(queue) \in Nat
        /\ DOMAIN queue = 1 .. Len(queue) /\ DOMAIN queue' = 1 .. (Len(queue) + 1)
    BY <1>i, <1>2 DEF SupervisorTypeOK
  <2>2. /\ queue'[Len(queue) + 1] = c
        /\ \A i \in 1 .. Len(queue) : i \in 1 .. (Len(queue) + 1) /\ queue'[i] = queue[i]
        /\ \A i \in 1 .. (Len(queue) + 1) : i \in 1 .. Len(queue) \/ i = Len(queue) + 1
    BY <1>2, <2>1
  <2>3. Queued' \subseteq Queued \cup {c}
    BY <2>1, <2>2 DEF Queued
  <2>4. Queued \cup {c} \subseteq Queued'
    BY <2>1, <2>2 DEF Queued
  <2> QED
    BY <2>3, <2>4
<1>4. SupervisorTypeOK'
  BY <1>i, <1>1, <1>2 DEF SupervisorTypeOK
<1>5. Control' /\ Serving' /\ Reaped'
  BY <1>i, <1>1 DEF Control, Serving, Reaped
<1>6. StopIsFinal'
  BY <1>i, <1>1 DEF StopIsFinal, Clients
<1>7. Places'
  <2>1. \A i, j \in 1 .. Len(queue') : queue'[i] = queue'[j] => i = j
    BY <1>i, <1>n, <1>2 DEF Places, Queued, SupervisorTypeOK
  <2>2. \A i \in 1 .. Len(queue') : queue'[i] # cur /\ client'[queue'[i]] \in {"waiting", "gone"}
    BY <1>i, <1>n, <1>1, <1>2 DEF Places, Queued, SupervisorTypeOK
  <2> QED
    BY <1>i, <1>n, <1>1, <2>1, <2>2 DEF Places, SupervisorTypeOK, Clients
<1>8. InFlightCounted'
  BY <1>i, <1>1, <1>3 DEF InFlightCounted, Clients
<1> QED
  BY <1>4, <1>5, <1>6, <1>7, <1>8 DEF SupervisorInv

LEMMA SendFailsKeeps ==
  ASSUME SupervisorInv, NEW c \in Clients, SendFails(c)
  PROVE  SupervisorInv'
<1> USE SupervisorAssumption DEF supervisorVars
<1>i. SupervisorTypeOK /\ Control /\ Serving /\ Places /\ StopIsFinal /\ Reaped /\ InFlightCounted
  BY DEF SupervisorInv
<1>t. CountTypes /\ active = Cardinality(InFlight)
  BY <1>i DEF SupervisorTypeOK, InFlightCounted, CountTypes, InFlight
<1>n. c \notin Queued /\ c # cur
  BY <1>i, NotPlaced DEF SendFails
<1>1. /\ UNCHANGED <<pc, watch, restarts, crash, queue, cur, policy, open, reaper, service>>
      /\ Answer({c}) /\ DropGuards({c}) /\ pc = "done" /\ client[c] = "sending"
  BY DEF SendFails
<1>2. /\ client' \in [Clients -> {"idle", "sending", "waiting", "returned", "gone"}]
      /\ \A x \in Clients : client'[x] = IF x # c THEN client[x]
                                         ELSE IF c \in Stoppers THEN "returned" ELSE "idle"
  BY <1>i, <1>1, AnswerEffect DEF SupervisorTypeOK
<1>3. /\ CountTypes' /\ active' = Cardinality(InFlight') /\ active' <= active
      /\ \A d \in Dispatchers : call'[d] = IF d = c THEN "none" ELSE call[d]
  BY <1>1, <1>t, DropCounts
<1>4. SupervisorTypeOK'
  BY <1>i, <1>1, <1>2, <1>3 DEF SupervisorTypeOK, CountTypes
<1>5. Control' /\ Serving' /\ Reaped' /\ StopIsFinal'
  BY <1>i, <1>1 DEF Control, Serving, Reaped, StopIsFinal, Over
<1>6. Places'
  BY <1>i, <1>n, <1>1, <1>2, <1>3 DEF Places, Queued, SupervisorTypeOK, Clients
<1>7. InFlightCounted'
  BY <1>i, <1>n, <1>1, <1>2, <1>3, <1>t DEF InFlightCounted, InFlight, Queued, CountTypes, Clients
<1> QED
  BY <1>4, <1>5, <1>6, <1>7 DEF SupervisorInv

LEMMA AbandonKeeps ==
  ASSUME SupervisorInv, NEW c \in Clients, Abandon(c)
  PROVE  SupervisorInv'
<1> USE SupervisorAssumption DEF supervisorVars
<1>i. SupervisorTypeOK /\ Control /\ Serving /\ Places /\ StopIsFinal /\ Reaped /\ InFlightCounted
  BY DEF SupervisorInv
<1>t. CountTypes /\ active = Cardinality(InFlight)
  BY <1>i DEF SupervisorTypeOK, InFlightCounted, CountTypes, InFlight
<1>1. /\ UNCHANGED <<pc, watch, restarts, crash, queue, cur, policy, open, reaper, service>>
      /\ client[c] \in {"sending", "waiting"}
      /\ \A x \in Clients : client'[x] = IF x = c THEN "gone" ELSE client[x]
      /\ client' \in [Clients -> {"idle", "sending", "waiting", "returned", "gone"}]
  BY <1>i DEF Abandon, SupervisorTypeOK
<1>2. /\ CountTypes' /\ active' = Cardinality(InFlight') /\ active' <= active
      /\ \A d \in Dispatchers : call'[d] = IF d = c /\ client[c] = "sending" THEN "none" ELSE call[d]
  <2>1. CASE client[c] = "sending"
    BY <2>1, <1>t, DropCounts DEF Abandon
  <2>2. CASE client[c] # "sending"
    <3>1. UNCHANGED <<active, call>>
      BY <2>2 DEF Abandon
    <3> QED
      BY <2>2, <3>1, <1>t DEF CountTypes, InFlight
  <2> QED
    BY <2>1, <2>2
<1>3. SupervisorTypeOK'
  BY <1>i, <1>1, <1>2 DEF SupervisorTypeOK, CountTypes
<1>4. Control' /\ Serving' /\ Reaped'
  BY <1>i, <1>1 DEF Control, Serving, Reaped
<1>5. StopIsFinal'
  BY <1>i, <1>1 DEF StopIsFinal, Clients
<1>6. Places'
  BY <1>i, <1>1, <1>2 DEF Places, SupervisorTypeOK, Clients
<1>7. InFlightCounted'
  <2>1. client[c] = "sending" => c \notin Queued /\ c # cur
    BY <1>i, NotPlaced
  <2> QED
    BY <1>i, <1>1, <1>2, <2>1, <1>t DEF InFlightCounted, InFlight, Queued, CountTypes, Clients
<1> QED
  BY <1>3, <1>4, <1>5, <1>6, <1>7 DEF SupervisorInv

LEMMA DropHandlesKeeps ==
  ASSUME SupervisorInv, DropHandles
  PROVE  SupervisorInv'
<1> USE DEF supervisorVars, serviceVars
<1>1. SupervisorTypeOK'
  BY DEF DropHandles, SupervisorInv, SupervisorTypeOK
<1>2. Control' /\ Serving' /\ Places' /\ StopIsFinal' /\ Reaped' /\ InFlightCounted'
  BY DEF DropHandles, SupervisorInv, Control, Serving, Places, StopIsFinal, Reaped, InFlightCounted, Queued
<1> QED
  BY <1>1, <1>2 DEF SupervisorInv

-----------------------------------------------------------------------------
(* The steps that take a message, serve it, or drop the channel.           *)

LEMMA TakeHead ==
  ASSUME SupervisorTypeOK, Places, queue # <<>>
  PROVE  /\ Tail(queue) \in Seq(Clients) /\ Len(Tail(queue)) = Len(queue) - 1
         /\ Head(queue) = queue[1] /\ 1 \in 1 .. Len(queue) /\ Head(queue) \in Clients
         /\ \A i \in 1 .. Len(Tail(queue)) : Tail(queue)[i] = queue[i + 1] /\ i + 1 \in 1 .. Len(queue)
         /\ {Tail(queue)[i] : i \in DOMAIN Tail(queue)} = Queued \ {Head(queue)}
<1>1. /\ Tail(queue) \in Seq(Clients) /\ Len(Tail(queue)) = Len(queue) - 1
      /\ Head(queue) = queue[1] /\ 1 \in 1 .. Len(queue) /\ Head(queue) \in Clients
      /\ \A i \in 1 .. Len(Tail(queue)) : Tail(queue)[i] = queue[i + 1] /\ i + 1 \in 1 .. Len(queue)
  BY DEF SupervisorTypeOK
<1>2. DOMAIN queue = 1 .. Len(queue) /\ DOMAIN Tail(queue) = 1 .. Len(Tail(queue))
  BY <1>1 DEF SupervisorTypeOK
<1>3. {Tail(queue)[i] : i \in 1 .. Len(Tail(queue))} \subseteq {queue[i] : i \in 1 .. Len(queue)} \ {queue[1]}
  BY <1>1 DEF Places, SupervisorTypeOK
<1>4. ASSUME NEW j \in 1 .. Len(queue), queue[j] # queue[1]
      PROVE  queue[j] \in {Tail(queue)[i] : i \in 1 .. Len(Tail(queue))}
  <2>1. j - 1 \in 1 .. Len(Tail(queue)) /\ Tail(queue)[j - 1] = queue[j]
    BY <1>1, <1>4 DEF SupervisorTypeOK
  <2> QED
    BY <2>1
<1>5. {queue[i] : i \in 1 .. Len(queue)} \ {queue[1]} \subseteq {Tail(queue)[i] : i \in 1 .. Len(Tail(queue))}
  BY <1>4
<1>6. {Tail(queue)[i] : i \in DOMAIN Tail(queue)} = Queued \ {Head(queue)}
  BY <1>1, <1>2, <1>3, <1>5, Zenon DEF Queued
<1> QED
  BY <1>1, <1>6

LEMMA ReceiveKeeps ==
  ASSUME SupervisorInv, Receive
  PROVE  SupervisorInv'
<1> USE SupervisorAssumption DEF serviceVars
<1>i. SupervisorTypeOK /\ Control /\ Serving /\ Places /\ StopIsFinal /\ Reaped /\ InFlightCounted
  BY DEF SupervisorInv
<1>1. /\ UNCHANGED <<restarts, crash, policy, client, open, reaper, serviceVars>>
      /\ queue # <<>> /\ cur' = Head(queue) /\ queue' = Tail(queue)
      /\ pc = "select" /\ cur = Nobody /\ watch = "Running"
      /\ \/ pc' = "shutdown" /\ watch' = "Stopping" /\ Head(queue) \in Stoppers
         \/ pc' = "command" /\ watch' = watch /\ Head(queue) \notin Stoppers
  BY <1>i DEF Receive, Serving, Control
<1>2. /\ queue' \in Seq(Clients) /\ Len(queue') = Len(queue) - 1
      /\ cur' = queue[1] /\ 1 \in 1 .. Len(queue) /\ cur' \in Clients
      /\ \A i \in 1 .. Len(queue') : queue'[i] = queue[i + 1] /\ i + 1 \in 1 .. Len(queue)
      /\ Queued' = Queued \ {cur'} /\ cur' \in Queued
  <2>1. Queued' = {Tail(queue)[i] : i \in DOMAIN Tail(queue)}
    BY <1>1, Zenon DEF Queued
  <2>2. 1 \in 1 .. Len(queue) => queue[1] \in Queued
    BY <1>i DEF Queued, SupervisorTypeOK
  <2> QED
    BY <1>i, <1>1, <2>1, <2>2, TakeHead
<1>3. SupervisorTypeOK'
  BY <1>i, <1>1, <1>2 DEF SupervisorTypeOK, Guest, Terminal
<1>4. Control' /\ Serving' /\ Reaped' /\ StopIsFinal'
  BY <1>i, <1>1, <1>2 DEF Control, Serving, Reaped, StopIsFinal, Over, Clients, Terminal
<1>5. Places'
  BY <1>i, <1>1, <1>2 DEF Places, SupervisorTypeOK
<1>6. InFlightCounted'
  BY <1>i, <1>1, <1>2 DEF InFlightCounted
<1> QED
  BY <1>3, <1>4, <1>5, <1>6 DEF SupervisorInv

LEMMA CommandKeeps ==
  ASSUME SupervisorInv, CommandReturns
  PROVE  SupervisorInv'
<1> USE SupervisorAssumption
<1>i. SupervisorTypeOK /\ Control /\ Serving /\ Places /\ StopIsFinal /\ Reaped /\ InFlightCounted
  BY DEF SupervisorInv
<1>t. CountTypes /\ active = Cardinality(InFlight)
  BY <1>i DEF SupervisorTypeOK, InFlightCounted, CountTypes, InFlight
<1>1. /\ UNCHANGED <<restarts, queue, policy, open, reaper, service>>
      /\ Answer({cur}) /\ DropGuards({cur}) /\ cur' = Nobody
      /\ pc = "command" /\ cur \in Commanders \cup Dispatchers /\ watch = "Running"
  BY <1>i DEF CommandReturns, Serving, Control
<1>2. /\ client' \in [Clients -> {"idle", "sending", "waiting", "returned", "gone"}]
      /\ \A x \in Clients : client'[x] = IF x # cur \/ client[x] \notin {"sending", "waiting"} THEN client[x]
                                         ELSE IF x \in Stoppers THEN "returned" ELSE "idle"
  BY <1>i, <1>1, AnswerEffect DEF SupervisorTypeOK
<1>3. /\ CountTypes' /\ active' = Cardinality(InFlight') /\ active' <= active
      /\ \A d \in Dispatchers : call'[d] = IF d = cur THEN "none" ELSE call[d]
  BY <1>1, <1>t, DropCounts
<1>4. /\ watch' = watch /\ crash' \in [reason : Reasons, healthy : BOOLEAN]
      /\ pc' \in {"drain", "decide"}
  <2>1. CASE Crashes(PostInit, BOOLEAN)
    <3>1. PostInit \in SUBSET Reasons
      BY DEF Reasons
    <3> QED
      BY <2>1, <3>1, CrashRecorded
  <2>2. CASE pc' = "drain" /\ UNCHANGED <<watch, crash>>
    BY <1>i, <2>2 DEF SupervisorTypeOK
  <2> QED
    BY <2>1, <2>2 DEF CommandReturns
<1>5. SupervisorTypeOK'
  BY <1>i, <1>1, <1>2, <1>3, <1>4 DEF SupervisorTypeOK, CountTypes, Guest
<1>6. Control' /\ Serving'
  BY <1>1, <1>4 DEF Control, Serving
<1>7. Reaped' /\ StopIsFinal'
  BY <1>i, <1>1, <1>2 DEF Reaped, StopIsFinal, Over, Clients
<1>8. Places'
  BY <1>i, <1>1, <1>2, <1>3 DEF Places, SupervisorTypeOK, Clients
<1>9. InFlightCounted'
  <2>1. Queued' = Queued /\ cur \notin Queued /\ Nobody \notin Dispatchers
    BY <1>i, <1>1 DEF Queued, Places, SupervisorTypeOK, Clients
  <2>2. ASSUME NEW d \in Dispatchers, d \in Queued' \/ cur' = d \/ client'[d] = "sending"
        PROVE  call'[d] # "none"
    <3>1. d # cur
      BY <1>i, <1>1, <1>2, <2>1, <2>2 DEF Places, Clients, SupervisorTypeOK
    <3> QED
      BY <1>i, <1>1, <1>2, <1>3, <2>1, <2>2, <3>1 DEF InFlightCounted, Clients
  <2> QED
    BY <1>i, <1>1, <1>3, <1>t, <2>2 DEF InFlightCounted, InFlight, CountTypes
<1> QED
  BY <1>5, <1>6, <1>7, <1>8, <1>9 DEF SupervisorInv

LEMMA ShutdownKeeps ==
  ASSUME SupervisorInv, ShutdownReturns
  PROVE  SupervisorInv'
<1> USE SupervisorAssumption DEF serviceVars
<1>i. SupervisorTypeOK /\ Control /\ Serving /\ Places /\ StopIsFinal /\ Reaped /\ InFlightCounted
  BY DEF SupervisorInv
<1>1. /\ UNCHANGED <<restarts, queue, policy, open, reaper, serviceVars>>
      /\ Answer({cur}) /\ cur' = Nobody
      /\ pc = "shutdown" /\ cur \in Stoppers \cup {Nobody} /\ watch = "Stopping"
  BY <1>i DEF ShutdownReturns, Serving, Control
<1>2. /\ client' \in [Clients -> {"idle", "sending", "waiting", "returned", "gone"}]
      /\ \A x \in Clients : client'[x] = IF x # cur \/ client[x] \notin {"sending", "waiting"} THEN client[x]
                                         ELSE IF x \in Stoppers THEN "returned" ELSE "idle"
  BY <1>i, <1>1, AnswerEffect DEF SupervisorTypeOK
<1>3. /\ watch' = watch /\ crash' \in [reason : Reasons, healthy : BOOLEAN]
      /\ pc' \in {"stop", "stop-failed"} \/ (pc' = "decide" /\ cur = Nobody)
  <2>1. CASE cur = Nobody /\ Crashes(PostInit, BOOLEAN)
    <3>1. PostInit \in SUBSET Reasons
      BY DEF Reasons
    <3> QED
      BY <2>1, <3>1, CrashRecorded
  <2>2. CASE pc' \in {"stop", "stop-failed"} /\ UNCHANGED <<watch, crash>>
    BY <1>i, <2>2 DEF SupervisorTypeOK
  <2> QED
    BY <2>1, <2>2 DEF ShutdownReturns
<1>4. SupervisorTypeOK'
  BY <1>i, <1>1, <1>2, <1>3 DEF SupervisorTypeOK, Over
<1>5. Control' /\ Serving'
  BY <1>1, <1>3 DEF Control, Serving
<1>6. Reaped' /\ StopIsFinal'
  BY <1>i, <1>1, <1>2, <1>3 DEF Reaped, StopIsFinal, Over, Clients
<1>7. Places'
  <2>1. \A i \in 1..Len(queue) : queue[i] \in Clients /\ queue[i] # cur
    BY <1>i DEF Places, SupervisorTypeOK
  <2>2. /\ \A i, j \in 1..Len(queue') : queue'[i] = queue'[j] => i = j
        /\ \A i \in 1..Len(queue') : queue'[i] # cur' /\ client'[queue'[i]] \in {"waiting", "gone"}
    BY <1>i, <1>1, <1>2, <2>1 DEF Places
  <2>3. ASSUME NEW d \in Dispatchers
        PROVE  client'[d] # "returned" /\ (client'[d] = "idle" => call'[d] = "none")
    <3>1. d # cur /\ d \in Clients
      BY <1>1 DEF Clients
    <3> QED
      BY <1>i, <1>1, <1>2, <3>1 DEF Places
  <2> QED
    BY <1>1, <2>2, <2>3 DEF Places
<1>8. InFlightCounted'
  BY <1>i, <1>1, <1>2 DEF InFlightCounted, Queued, Clients
<1> QED
  BY <1>4, <1>5, <1>6, <1>7, <1>8 DEF SupervisorInv

LEMMA BackoffReceiveKeeps ==
  ASSUME SupervisorInv, BackoffReceive
  PROVE  SupervisorInv'
<1> USE SupervisorAssumption
<1>i. SupervisorTypeOK /\ Control /\ Serving /\ Places /\ StopIsFinal /\ Reaped /\ InFlightCounted
  BY DEF SupervisorInv
<1>t. CountTypes /\ active = Cardinality(InFlight)
  BY <1>i DEF SupervisorTypeOK, InFlightCounted, CountTypes, InFlight
<1> DEFINE h == Head(queue)
<1>1. /\ UNCHANGED <<watch, restarts, crash, cur, policy, open, reaper, service>>
      /\ queue # <<>> /\ queue' = Tail(queue) /\ Answer({h}) /\ DropGuards({h})
      /\ pc = "backoff" /\ cur = Nobody /\ watch = "Restarting"
      /\ pc' = IF h \in Stoppers THEN "stop" ELSE "backoff"
  BY <1>i DEF BackoffReceive, Serving, Control
<1>2. /\ queue' \in Seq(Clients) /\ Len(queue') = Len(queue) - 1
      /\ h = queue[1] /\ 1 \in 1 .. Len(queue) /\ h \in Clients
      /\ \A i \in 1 .. Len(queue') : queue'[i] = queue[i + 1] /\ i + 1 \in 1 .. Len(queue)
      /\ Queued' = Queued \ {h}
  <2>1. Queued' = {Tail(queue)[i] : i \in DOMAIN Tail(queue)}
    BY <1>1, Zenon DEF Queued
  <2> QED
    BY <1>i, <1>1, <2>1, TakeHead
<1> HIDE DEF h
<1>3. /\ client' \in [Clients -> {"idle", "sending", "waiting", "returned", "gone"}]
      /\ \A x \in Clients : client'[x] = IF x # h \/ client[x] \notin {"sending", "waiting"} THEN client[x]
                                         ELSE IF x \in Stoppers THEN "returned" ELSE "idle"
  BY <1>i, <1>1, AnswerEffect DEF SupervisorTypeOK
<1>4. /\ CountTypes' /\ active' = Cardinality(InFlight') /\ active' <= active
      /\ \A d \in Dispatchers : call'[d] = IF d = h THEN "none" ELSE call[d]
  BY <1>1, <1>t, DropCounts
<1>5. SupervisorTypeOK'
  BY <1>i, <1>1, <1>2, <1>3, <1>4 DEF SupervisorTypeOK, CountTypes, Over
<1>6. Control' /\ Serving' /\ Reaped'
  BY <1>i, <1>1 DEF Control, Serving, Reaped
<1>7. StopIsFinal'
  BY <1>i, <1>1, <1>3 DEF StopIsFinal, Over, Clients
<1>8. Places'
  <2>1. \A i, j \in 1 .. Len(queue') : queue'[i] = queue'[j] => i = j
    BY <1>i, <1>2 DEF Places, SupervisorTypeOK
  <2>2. \A i \in 1 .. Len(queue') : queue'[i] # cur' /\ queue'[i] \in Clients \ {h}
    BY <1>i, <1>1, <1>2 DEF Places, SupervisorTypeOK
  <2>3. \A i \in 1 .. Len(queue') : client'[queue'[i]] \in {"waiting", "gone"}
    BY <1>i, <1>2, <1>3, <2>2 DEF Places, SupervisorTypeOK
  <2> QED
    BY <1>i, <1>1, <1>3, <1>4, <2>1, <2>2, <2>3 DEF Places, Clients
<1>9. InFlightCounted'
  <2>1. ASSUME NEW d \in Dispatchers, d \in Queued' \/ cur' = d \/ client'[d] = "sending"
        PROVE  call'[d] # "none"
    <3>1. client[h] \in {"waiting", "gone"}
      BY <1>i, <1>2 DEF Places
    <3>2. d # h
      BY <1>i, <1>1, <1>2, <1>3, <2>1, <3>1 DEF Clients
    <3> QED
      BY <1>i, <1>1, <1>2, <1>3, <1>4, <2>1, <3>2 DEF InFlightCounted, Clients
  <2> QED
    BY <1>i, <1>1, <1>4, <1>t, <2>1 DEF InFlightCounted, InFlight, CountTypes
<1> QED
  BY <1>5, <1>6, <1>7, <1>8, <1>9 DEF SupervisorInv

LEMMA ExitKeeps ==
  ASSUME SupervisorInv, Exit
  PROVE  SupervisorInv'
<1> USE SupervisorAssumption
<1>i. SupervisorTypeOK /\ Control /\ Serving /\ Places /\ StopIsFinal /\ Reaped /\ InFlightCounted
  BY DEF SupervisorInv
<1>t. CountTypes /\ active = Cardinality(InFlight)
  BY <1>i DEF SupervisorTypeOK, InFlightCounted, CountTypes, InFlight
<1>1. /\ UNCHANGED <<watch, restarts, crash, cur, policy, open, reaper, service>>
      /\ queue' = <<>> /\ Answer(Queued) /\ DropGuards(Queued)
      /\ pc = "exit" /\ pc' = "done" /\ cur = Nobody
  BY <1>i DEF Exit, Serving
<1>2. queue' \in Seq(Clients) /\ Len(queue') = 0 /\ Queued' = {}
  BY <1>1 DEF Queued
<1>3. /\ client' \in [Clients -> {"idle", "sending", "waiting", "returned", "gone"}]
      /\ \A x \in Clients : client'[x] = IF x \notin Queued \/ client[x] \notin {"sending", "waiting"} THEN client[x]
                                         ELSE IF x \in Stoppers THEN "returned" ELSE "idle"
  BY <1>i, <1>1, AnswerEffect DEF SupervisorTypeOK
<1>4. /\ CountTypes' /\ active' = Cardinality(InFlight') /\ active' <= active
      /\ \A d \in Dispatchers : call'[d] = IF d \in Queued THEN "none" ELSE call[d]
  BY <1>1, <1>t, DropCounts
<1>5. SupervisorTypeOK'
  BY <1>i, <1>1, <1>2, <1>3, <1>4 DEF SupervisorTypeOK, CountTypes, Over
<1>6. Control' /\ Serving' /\ Reaped' /\ StopIsFinal'
  BY <1>i, <1>1 DEF Control, Serving, Reaped, StopIsFinal, Over
<1>7. Places'
  BY <1>i, <1>1, <1>2, <1>3, <1>4 DEF Places, Clients
<1>8. InFlightCounted'
  <2>1. ASSUME NEW d \in Dispatchers, client'[d] = "sending" PROVE call'[d] # "none"
    <3>1. d \notin Queued /\ client[d] = "sending"
      BY <1>i, <1>3, <2>1, NotPlaced DEF Clients
    <3> QED
      BY <1>i, <1>4, <3>1 DEF InFlightCounted
  <2> QED
    BY <1>i, <1>1, <1>2, <1>4, <1>t, <2>1 DEF InFlightCounted, InFlight, CountTypes, Clients
<1> QED
  BY <1>5, <1>6, <1>7, <1>8 DEF SupervisorInv

-----------------------------------------------------------------------------
LEMMA StepOK == SupervisorInv /\ [Next]_vars => SupervisorInv'
<1> SUFFICES ASSUME SupervisorInv, [Next]_vars PROVE SupervisorInv'
  OBVIOUS
<1>1. CASE Proceed
  BY <1>1, RegistrySteps, ProceedQuietly, CommandKeeps, ShutdownKeeps, ExitKeeps DEF Proceed
<1>2. CASE Select
  BY <1>2, SelectQuietly, ReceiveKeeps, BackoffReceiveKeeps DEF Select
<1>3. CASE RegisterService \/ RemoveService \/ Reap \/ DropHandles
  BY <1>3, RegistrySteps, DropHandlesKeeps
<1>4. CASE \E c \in Clients : Begin(c) \/ Enqueue(c) \/ SendFails(c) \/ Abandon(c)
  BY <1>4, BeginKeeps, EnqueueKeeps, SendFailsKeeps, AbandonKeeps
<1>5. CASE UNCHANGED vars
  <2>1. SupervisorTypeOK'
    BY <1>5 DEF vars, supervisorVars, serviceVars, SupervisorInv, SupervisorTypeOK
  <2>2. Control' /\ Serving' /\ Places' /\ StopIsFinal' /\ Reaped' /\ InFlightCounted'
    BY <1>5 DEF vars, supervisorVars, serviceVars, SupervisorInv, Control, Serving, Places,
                StopIsFinal, Reaped, InFlightCounted, Queued
  <2> QED
    BY <2>1, <2>2 DEF SupervisorInv
<1> QED
  BY <1>1, <1>2, <1>3, <1>4, <1>5 DEF Next

(* Supervisor, clients, registry and reaper keep the invariant together.   *)
THEOREM SupervisorInvariant == Spec => []SupervisorInv
<1>1. Init => SupervisorInv
  BY InitOK
<1>2. SupervisorInv /\ [Next]_vars => SupervisorInv'
  BY StepOK
<1> QED
  BY <1>1, <1>2, PTL DEF Spec

(* The channel never holds more than its capacity, and no instance is      *)
(* restarted more than max_restarts times without having been healthy.     *)
THEOREM SupervisorTypeCorrect == Spec => []SupervisorTypeOK
<1>1. SupervisorInv => SupervisorTypeOK
  BY DEF SupervisorInv
<1> QED
  BY <1>1, SupervisorInvariant, PTL

(* No guest code runs, and no life begins, once a stop() has returned.     *)
THEOREM StopsAreFinal == Spec => []StopIsFinal
<1>1. SupervisorInv => StopIsFinal
  BY DEF SupervisorInv
<1> QED
  BY <1>1, SupervisorInvariant, PTL

(* A terminal state is published only after the guest's last call, so what *)
(* the reaper swept cannot come back.                                      *)
THEOREM ReapedAreClean == Spec => []ReapedStaysClean
<1>1. SupervisorInv => ReapedStaysClean
  BY DEF SupervisorInv, Reaped, ReapedStaysClean, Guest
<1> QED
  BY <1>1, SupervisorInvariant, PTL

(* A service's count of calls in flight is exact, whoever gave up waiting  *)
(* and however often the instance was restarted.                           *)
THEOREM CallsAreCounted == Spec => []InFlightCounted
<1>1. SupervisorInv => InFlightCounted
  BY DEF SupervisorInv
<1> QED
  BY <1>1, SupervisorInvariant, PTL

-----------------------------------------------------------------------------
(* A step of the supervisor is a step of the automaton, or none.           *)
LEMMA LifeStep ==
  ASSUME SupervisorInv, [Next]_vars
  PROVE  [Life!Next]_<<watch, restarts>>
<1> USE SupervisorAssumption
    DEF Life!Next, Life!Progress, Life!Goes, Life!Crash, Life!Retry, Life!Fail, Life!Counted
<1>i. Control /\ restarts \in 0 .. MaxRestarts
  BY DEF SupervisorInv, SupervisorTypeOK
<1>1. CASE BeginLife \/ LoadReturns \/ Stop \/ Restart
  BY <1>1, <1>i DEF BeginLife, LoadReturns, Stop, Restart, Control, Over
<1>2. CASE InitReturns \/ InitDrainReturns
  BY <1>2, <1>i DEF InitReturns, InitDrainReturns, Crashes, Control
<1>3. CASE TickReturns \/ DrainReturns \/ CommandReturns \/ ShutdownReturns
  BY <1>3 DEF TickReturns, DrainReturns, CommandReturns, ShutdownReturns, Crashes
<1>4. CASE Decide
  <2>1. /\ watch \in {"Loading", "Inited", "Running", "Stopping"}
        /\ RestartsSoFar \in {restarts} \cup IF watch \in {"Running", "Stopping"} THEN {0} ELSE {}
    BY <1>4, <1>i DEF Decide, Control, RestartsSoFar
  <2>2. CASE MayRestart
    BY <1>4, <2>1, <2>2 DEF Decide, MayRestart
  <2>3. CASE ~MayRestart
    BY <1>4, <2>1, <2>3 DEF Decide
  <2> QED
    BY <2>2, <2>3
<1>5. CASE Exit
  BY <1>5 DEF Exit
<1>6. CASE Select
  BY <1>6, <1>i DEF Select, Tick, Wake, Receive, Closed, Elapsed, BackoffReceive, BackoffClosed, Control
<1>7. CASE RegisterService \/ RemoveService \/ Reap \/ DropHandles
  BY <1>7 DEF RegisterService, RemoveService, Reap, DropHandles, supervisorVars
<1>8. CASE \E c \in Clients : Begin(c) \/ Enqueue(c) \/ SendFails(c) \/ Abandon(c)
  BY <1>8 DEF Begin, Enqueue, SendFails, Abandon, supervisorVars
<1>9. CASE UNCHANGED vars
  BY <1>9 DEF vars, supervisorVars
<1> QED
  BY <1>1, <1>2, <1>3, <1>4, <1>5, <1>6, <1>7, <1>8, <1>9 DEF Next, Proceed

(* The published states, and the restarts they stand for, follow           *)
(* InstanceLifecycle: no life is skipped, the counter is reset only by an  *)
(* instance that has been Running, and Stopped and Failed are final.       *)
THEOREM LifecycleKept == Spec => LifecycleFollowed
<1>1. Init => Life!Init
  BY DEF Init, Life!Init
<1>2. SupervisorInv /\ [Next]_vars => [Life!Next]_<<watch, restarts>>
  BY LifeStep
<1> QED
  BY <1>1, <1>2, SupervisorInvariant, PTL DEF Spec, LifecycleFollowed, Life!Spec
=============================================================================
