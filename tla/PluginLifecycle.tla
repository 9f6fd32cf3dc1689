---------------------------- MODULE PluginLifecycle ----------------------------
(***************************************************************************)
(* Loading, calling and unloading the plugin: go/abi_runtime.go, the task  *)
(* registry of go/plugin.go, the host pointer of go/main.go, and, of the   *)
(* executor and the relay, the tasks and host callbacks they start.        *)
(*                                                                         *)
(* The shared library outlives its instances: the host may initialize,     *)
(* shut down and initialize again, from any thread, with calls, stream     *)
(* goroutines and host callbacks in flight.  Instances are numbered in the *)
(* order of their creation, and instance g is created with host pointer g; *)
(* 0 is nil.                                                               *)
(*                                                                         *)
(* Three kinds of actor run concurrently: callers (host threads inside     *)
(* cliproxyPluginCall), streams (the relay goroutines they start) and      *)
(* closers (host threads inside cliproxyPluginShutdown).  A section under  *)
(* pluginRuntime.mu or Plugin.mu that does not wait inside is one step;    *)
(* pluginRuntime.lifecycle is held across steps and is a variable.         *)
(***************************************************************************)
EXTENDS Integers, FiniteSets

CONSTANTS Callers, Streams, Closers,  \* the actors
          Nobody,                     \* no holder, no stream
          MaxInstances                \* bound: instances created in a behaviour

Actors == Callers \cup Streams \cup Closers

ASSUME ActorsAssumption == /\ Callers \cap Streams = {}
                           /\ Callers \cap Closers = {}
                           /\ Streams \cap Closers = {}
                           /\ Nobody \notin Actors
ASSUME InstancesAssumption == MaxInstances \in Nat

VARIABLES active,     \* pluginRuntime.active
          host,       \* stored_host
          lifecycle,  \* holder of pluginRuntime.lifecycle
          born,       \* number of instances created
          stopping,   \* instance -> Plugin.stopping, and its root context is cancelled
          tasks,      \* instance -> what its WaitGroup counts
          pc, inst,   \* actor -> where it is, and on which instance
          slot,       \* caller -> the stream it is opening
          cancelled   \* callers whose request context is cancelled

vars == <<active, host, lifecycle, born, stopping, tasks, pc, inst, slot, cancelled>>

Instances == 1 .. MaxInstances

runtimeVars == <<active, host, lifecycle, born>>

Goto(a, l) == pc' = [pc EXCEPT ![a] = l]

(* A call, goroutine or Shutdown ends, and its reference to an instance     *)
(* with it.                                                                 *)
Leave(a) == Goto(a, "idle") /\ inst' = [inst EXCEPT ![a] = 0]

--------------------------------------------------------------------------------
(* Initialize and Shutdown                                                  *)

(* A refused Initialize changes nothing: the running instance keeps its     *)
(* host pointer.                                                            *)
InitializeRefused == /\ lifecycle = Nobody
                     /\ active # 0
                     /\ UNCHANGED vars

Initialize == /\ active = 0
              /\ lifecycle = Nobody
              /\ born < MaxInstances
              /\ born' = born + 1
              /\ host' = born + 1
              /\ active' = born + 1
              /\ UNCHANGED <<lifecycle, stopping, tasks, pc, inst, slot, cancelled>>

(* Nothing is active: Shutdown returns at once.                             *)
ShutdownNothing(x) == /\ pc[x] = "idle"
                      /\ lifecycle = Nobody
                      /\ active = 0
                      /\ UNCHANGED vars

ShutdownUnlocked(x) == /\ pc[x] = "idle"
                       /\ active # 0
                       /\ lifecycle' = x
                       /\ inst' = [inst EXCEPT ![x] = active]
                       /\ Goto(x, "stop")
                       /\ UNCHANGED <<active, host, born, stopping, tasks, slot, cancelled>>

ShutdownLock(x) == /\ pc[x] = "idle"
                   /\ lifecycle = Nobody
                   /\ active # 0
                   /\ lifecycle' = x
                   /\ inst' = [inst EXCEPT ![x] = active]
                   /\ Goto(x, "stop")
                   /\ UNCHANGED <<active, host, born, stopping, tasks, slot, cancelled>>

(* stopping is set and the root context cancelled under Plugin.mu; with the *)
(* root, every context derived from it is cancelled before p.cancel returns.*)
ShutdownStop(x) == /\ pc[x] = "stop"
                   /\ stopping' = [stopping EXCEPT ![inst[x]] = TRUE]
                   /\ Goto(x, "drain")
                   /\ UNCHANGED <<runtimeVars, tasks, inst, slot, cancelled>>

ShutdownClearEarly(x) == /\ pc[x] = "drain"
                         /\ host' = 0
                         /\ Goto(x, "clear")
                         /\ UNCHANGED <<active, lifecycle, born, stopping, tasks, inst, slot, cancelled>>

ShutdownDrained(x) == /\ pc[x] = "drain"
                      /\ tasks[inst[x]] = {}
                      /\ Goto(x, "clear")
                      /\ UNCHANGED <<runtimeVars, stopping, tasks, inst, slot, cancelled>>

ShutdownClear(x) == /\ pc[x] = "clear"
                    /\ host' = 0
                    /\ active' = 0
                    /\ lifecycle' = Nobody
                    /\ Leave(x)
                    /\ UNCHANGED <<born, stopping, tasks, slot, cancelled>>

--------------------------------------------------------------------------------
(* Plugin.begin and done                                                    *)

AlwaysAdmit(g) == TRUE

Admits(g) == ~stopping[g]

AddTask(a, g) == tasks' = [tasks EXCEPT ![g] = @ \cup {a}]

TaskDone(a) == tasks' = [tasks EXCEPT ![inst[a]] = @ \ {a}]

--------------------------------------------------------------------------------
(* A call                                                                   *)

(* Handle reads active under a read lock and lets go of it.                 *)
CallUnchecked(c) == /\ pc[c] = "idle"
                    /\ inst' = [inst EXCEPT ![c] = active]
                    /\ Goto(c, "entered")
                    /\ UNCHANGED <<runtimeVars, stopping, tasks, slot, cancelled>>

Call(c) == /\ pc[c] = "idle"
           /\ active # 0
           /\ inst' = [inst EXCEPT ![c] = active]
           /\ Goto(c, "entered")
           /\ UNCHANGED <<runtimeVars, stopping, tasks, slot, cancelled>>

CallRefused(c) == /\ pc[c] = "idle" /\ active = 0
                  /\ UNCHANGED vars

(* Any time later, the call asks the instance it read to admit it.          *)
Begin(c) == /\ pc[c] = "entered"
            /\ Admits(inst[c])
            /\ AddTask(c, inst[c])
            /\ Goto(c, "running")
            /\ UNCHANGED <<runtimeVars, stopping, inst, slot, cancelled>>

BeginRefused(c) == /\ pc[c] = "entered"
                   /\ ~Admits(inst[c])
                   /\ Leave(c)
                   /\ UNCHANGED <<runtimeVars, stopping, tasks, slot, cancelled>>

(* The request context is not derived from the root: context.AfterFunc runs *)
(* its cancel in a goroutine of its own, some time after the root's.        *)
CancelLost(c) == FALSE /\ UNCHANGED vars

CancelRequest(c) == /\ pc[c] = "running"
                    /\ stopping[inst[c]]
                    /\ c \notin cancelled
                    /\ cancelled' = cancelled \cup {c}
                    /\ UNCHANGED <<runtimeVars, stopping, tasks, pc, inst, slot>>

(* The gateway answers, or the work needed no gateway.                      *)
Answer(c) == /\ pc[c] = "running"
             /\ Goto(c, "returning")
             /\ UNCHANGED <<runtimeVars, stopping, tasks, inst, slot, cancelled>>

(* A cancelled context ends the wait for the gateway.                       *)
Abort(c) == /\ c \in cancelled
            /\ Answer(c)

Done(c) == /\ pc[c] = "returning"
           /\ TaskDone(c)
           /\ Leave(c)
           /\ cancelled' = cancelled \ {c}
           /\ UNCHANGED <<runtimeVars, stopping, slot>>

--------------------------------------------------------------------------------
(* A streaming call starts a sibling task rooted in the plugin              *)

BeginStream(c, s) == /\ pc[c] = "running" /\ pc[s] = "idle"
                     /\ Admits(inst[c])
                     /\ AddTask(s, inst[c])
                     /\ inst' = [inst EXCEPT ![s] = inst[c]]
                     /\ slot' = [slot EXCEPT ![c] = s]
                     /\ pc' = [pc EXCEPT ![c] = "opening", ![s] = "opening"]
                     /\ UNCHANGED <<runtimeVars, stopping, cancelled>>

BeginStreamRefused(c) == /\ pc[c] = "running"
                         /\ ~Admits(inst[c])
                         /\ Goto(c, "returning")
                         /\ UNCHANGED <<runtimeVars, stopping, tasks, inst, slot, cancelled>>

(* The gateway accepted the request: the goroutine takes the task over.     *)
OpenSucceeds(c) == /\ pc[c] = "opening"
                   /\ pc' = [pc EXCEPT ![c] = "returning", ![slot[c]] = "reading"]
                   /\ slot' = [slot EXCEPT ![c] = Nobody]
                   /\ UNCHANGED <<runtimeVars, stopping, tasks, inst, cancelled>>

OpenFailsLeaking(c) ==
    /\ pc[c] = "opening"
    /\ pc' = [pc EXCEPT ![c] = "returning", ![slot[c]] = "idle"]
    /\ slot' = [slot EXCEPT ![c] = Nobody]
    /\ inst' = [inst EXCEPT ![slot[c]] = 0]
    /\ UNCHANGED <<runtimeVars, stopping, tasks, cancelled>>

(* Open failed, was cancelled, or the status was not 2xx: done() is called  *)
(* by the call itself.                                                      *)
OpenFails(c) == /\ pc[c] = "opening"
                /\ TaskDone(slot[c])
                /\ pc' = [pc EXCEPT ![c] = "returning", ![slot[c]] = "idle"]
                /\ slot' = [slot EXCEPT ![c] = Nobody]
                /\ inst' = [inst EXCEPT ![slot[c]] = 0]
                /\ UNCHANGED <<runtimeVars, stopping, cancelled>>

(* The root's cancellation reaches the request in flight.                   *)
OpenAborted(c) == pc[c] = "opening" /\ stopping[inst[c]] /\ OpenFails(c)

--------------------------------------------------------------------------------
(* The relay goroutine.  A host call reads stored_host when it is entered   *)
(* and again, for free_buffer, when the callback has returned.              *)

streamOnly == <<runtimeVars, stopping, tasks, inst, slot, cancelled>>

(* An event was decoded and the context is still good.                      *)
EmitChecked(s) == /\ pc[s] = "reading"
                  /\ ~stopping[inst[s]]
                  /\ Goto(s, "emit")
                  /\ UNCHANGED streamOnly

(* The body ended, failed, or an event found the context cancelled.         *)
BodyEnds(s) == /\ pc[s] = "reading"
               /\ Goto(s, "close")
               /\ UNCHANGED streamOnly

BodyAborted(s) == BodyEnds(s) /\ stopping[inst[s]]

EmitEnter(s) == /\ pc[s] = "emit"
                /\ Goto(s, IF host = 0 THEN "close" ELSE "emitting")
                /\ UNCHANGED streamOnly

(* The callback reports success, or an error that ends the relay.           *)
EmitReturns(s) == /\ pc[s] = "emitting"
                  /\ Goto(s, "reading") \/ Goto(s, "close")
                  /\ UNCHANGED streamOnly

CloseEnter(s) == /\ pc[s] = "close"
                 /\ Goto(s, IF host = 0 THEN "closed" ELSE "closing")
                 /\ UNCHANGED streamOnly

CloseReturns(s) == /\ pc[s] = "closing"
                   /\ Goto(s, "closed")
                   /\ UNCHANGED streamOnly

StreamDone(s) == /\ pc[s] = "closed"
                 /\ TaskDone(s)
                 /\ Leave(s)
                 /\ UNCHANGED <<runtimeVars, stopping, slot, cancelled>>

--------------------------------------------------------------------------------

Init == /\ active = 0 /\ host = 0 /\ lifecycle = Nobody /\ born = 0
        /\ stopping = [g \in Instances |-> FALSE]
        /\ tasks = [g \in Instances |-> {}]
        /\ pc = [a \in Actors |-> "idle"]
        /\ inst = [a \in Actors |-> 0]
        /\ slot = [c \in Callers |-> Nobody]
        /\ cancelled = {}

Closer(x) == \/ ShutdownNothing(x) \/ ShutdownLock(x) \/ ShutdownStop(x)
             \/ ShutdownDrained(x) \/ ShutdownClear(x)

Caller(c) == \/ Call(c) \/ CallRefused(c) \/ Begin(c) \/ BeginRefused(c)
             \/ CancelRequest(c) \/ Answer(c) \/ Done(c)
             \/ \E s \in Streams : BeginStream(c, s)
             \/ BeginStreamRefused(c)
             \/ OpenSucceeds(c) \/ OpenFails(c)

Stream(s) == \/ EmitChecked(s) \/ BodyEnds(s)
             \/ EmitEnter(s) \/ EmitReturns(s)
             \/ CloseEnter(s) \/ CloseReturns(s) \/ StreamDone(s)

Next == \/ Initialize \/ InitializeRefused
        \/ \E x \in Closers : Closer(x)
        \/ \E c \in Callers : Caller(c)
        \/ \E s \in Streams : Stream(s)

Spec == Init /\ [][Next]_vars

(* Goroutines and host threads are scheduled, cancelled waits end, and the  *)
(* host's callbacks return.  Nothing says that the host calls, that the     *)
(* gateway answers, or that a stream that is not cancelled ends.            *)
Fairness ==
    /\ \A x \in Closers : /\ WF_vars(ShutdownStop(x))
                          /\ WF_vars(ShutdownDrained(x))
                          /\ WF_vars(ShutdownClear(x))
    /\ \A c \in Callers : /\ WF_vars(Begin(c) \/ BeginRefused(c))
                          /\ WF_vars(CancelRequest(c))
                          /\ WF_vars(Abort(c))
                          /\ WF_vars(OpenAborted(c))
                          /\ WF_vars(Done(c))
    /\ \A s \in Streams : /\ WF_vars(BodyAborted(s))
                          /\ WF_vars(EmitEnter(s))
                          /\ WF_vars(EmitReturns(s))
                          /\ WF_vars(CloseEnter(s))
                          /\ WF_vars(CloseReturns(s))
                          /\ WF_vars(StreamDone(s))

FairSpec == Spec /\ Fairness

--------------------------------------------------------------------------------
(* Properties                                                               *)

CallerLabels == {"idle", "entered", "running", "opening", "returning"}
StreamLabels == {"idle", "opening", "reading", "emit", "emitting", "close", "closing", "closed"}
CloserLabels == {"idle", "stop", "drain", "clear"}

(* Every variable has its type, each actor is at one of its own labels, and *)
(* an actor that is at work has an instance to work on: no nil *Plugin is   *)
(* ever called.                                                             *)
TypeOK == /\ active \in 0 .. MaxInstances
          /\ host \in 0 .. MaxInstances
          /\ lifecycle \in Closers \cup {Nobody}
          /\ born \in 0 .. MaxInstances
          /\ stopping \in [Instances -> BOOLEAN]
          /\ tasks \in [Instances -> SUBSET (Callers \cup Streams)]
          /\ pc \in [Actors -> CallerLabels \cup StreamLabels \cup CloserLabels]
          /\ \A c \in Callers : pc[c] \in CallerLabels
          /\ \A s \in Streams : pc[s] \in StreamLabels
          /\ \A x \in Closers : pc[x] \in CloserLabels
          /\ inst \in [Actors -> 0 .. MaxInstances]
          /\ \A a \in Actors : inst[a] = 0 <=> pc[a] = "idle"
          /\ slot \in [Callers -> Streams \cup {Nobody}]
          /\ cancelled \subseteq Callers

InHostCall(s) == pc[s] \in {"emit", "emitting", "close", "closing"}

(* From the decision to call the host until the callback has returned and   *)
(* its buffer is freed, stored_host is the pointer the stream's own         *)
(* instance was initialized with: not cleared, and not the next host's.     *)
(* "No old callback can use the host pointer after Shutdown has drained"    *)
(* (abi_runtime.go:56).                                                     *)
HostPointerValid == \A s \in Streams : InHostCall(s) => host = inst[s]

(* Work is only ever in progress on the active instance: neither a call     *)
(* that read the instance before it was shut down nor a stream survives     *)
(* into the next one.                                                       *)
NoTaskOutlives == \A g \in Instances : tasks[g] # {} => active = g

Pending(a) == \/ a \in Callers /\ pc[a] \in {"running", "opening", "returning"}
              \/ a \in Streams /\ pc[a] # "idle"

(* The WaitGroup counts what is running: every task in progress is counted  *)
(* by its own instance, and nothing else is, so that Wait neither returns   *)
(* early nor waits for a task that has ended.                               *)
TasksCounted == \A g \in Instances, a \in Callers \cup Streams :
                    a \in tasks[g] <=> Pending(a) /\ inst[a] = g

(* An instance that began to stop admits nothing more, and one that is gone *)
(* stays gone.                                                              *)
StoppedStays == \A g \in Instances :
                    stopping[g] => stopping'[g] /\ tasks'[g] \subseteq tasks[g]

OnlyRunningAdmits == [][StoppedStays]_vars

(* The strengthening under which the invariants above are inductive: the    *)
(* newest instance is the only one that may be active or admit work, its    *)
(* host pointer is the one installed, the closer that holds the lifecycle   *)
(* lock is the one at work, and each opening call has a stream of its own.  *)
RuntimeInv ==
    /\ host = active
    /\ active # 0 => active = born
    /\ \A g \in Instances : IF g <= born THEN g # active => stopping[g] ELSE ~stopping[g]
    /\ \A a \in Actors : inst[a] <= born
    /\ \A x \in Closers :
          /\ lifecycle = x <=> pc[x] # "idle"
          /\ pc[x] # "idle" => active # 0 /\ inst[x] = active
          /\ pc[x] \in {"drain", "clear"} => stopping[inst[x]]
          /\ pc[x] = "clear" => tasks[inst[x]] = {}
    /\ \A c \in Callers : pc[c] = "opening" =>
          /\ slot[c] \in Streams
          /\ pc[slot[c]] = "opening"
          /\ inst[slot[c]] = inst[c]
    /\ \A c, d \in Callers : pc[c] = "opening" /\ pc[d] = "opening" /\ c # d => slot[c] # slot[d]

IInv == TypeOK /\ TasksCounted /\ NoTaskOutlives /\ RuntimeInv

(* The library, as its host sees it: the instance that is active is served, *)
(* and open until Shutdown stops it; a stream inside a callback uses what   *)
(* stored_host holds.                                                       *)
Service == INSTANCE PluginService WITH
    Workers   <- Callers \cup Streams,
    served    <- active,
    last      <- born,
    open      <- active # 0 /\ ~stopping[active],
    work      <- {p \in (Callers \cup Streams) \X Instances : p[1] \in tasks[p[2]]},
    callbacks <- {s \in Streams : pc[s] \in {"emitting", "closing"}} \X {host}

(* Every behaviour of the library, with all its threads, is one of the      *)
(* service, which does one thing at a time: abi_runtime.go and plugin.go    *)
(* implement it, from Initialize to the end of Shutdown and on to the next  *)
(* Initialize.                                                              *)
ServiceSpec == Service!Spec

(* Shutdown returns: cancellation reaches every call and stream of the      *)
(* instance, however the gateway behaves.                                   *)
ShutdownReturns == \A x \in Closers : pc[x] = "stop" ~> pc[x] = "idle"

================================================================================
