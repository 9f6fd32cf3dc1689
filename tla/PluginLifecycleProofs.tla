------------------------- MODULE PluginLifecycleProofs -------------------------
(***************************************************************************)
(* Safety of the plugin's lifecycle for any number of callers, streams,    *)
(* closers and instances.                                                  *)
(*                                                                         *)
(* The argument: an instance that is not active is stopping, a stopping    *)
(* instance admits nothing, and the closer that holds the lifecycle lock   *)
(* clears the active instance only once nothing is counted on it.  So      *)
(* whatever is counted is counted on the active instance, and the host     *)
(* pointer installed is that instance's.                                   *)
(*                                                                         *)
(* That is also what makes the library implement PluginService: work is    *)
(* admitted to the instance served while it is open, a host call finds the *)
(* pointer of the instance served, and the instance is given up only when  *)
(* nothing is left on it.                                                  *)
(***************************************************************************)
EXTENDS PluginLifecycle, TLAPS

(* No actor is of two kinds.                                                *)
LEMMA Disjoint ==
    /\ \A c \in Callers : c \in Actors /\ c \notin Streams /\ c \notin Closers
    /\ \A s \in Streams : s \in Actors /\ s \notin Callers /\ s \notin Closers
    /\ \A x \in Closers : x \in Actors /\ x \notin Callers /\ x \notin Streams
    /\ Nobody \notin Callers /\ Nobody \notin Streams /\ Nobody \notin Closers
  BY ActorsAssumption DEF Actors

(* Nothing has happened.                                                    *)
LEMMA InitIInv == Init => IInv
<1> SUFFICES ASSUME Init PROVE IInv  OBVIOUS
<1> USE Disjoint DEF Init
<1>1. TypeOK  BY InstancesAssumption DEF TypeOK, Actors, CallerLabels, StreamLabels, CloserLabels
<1>2. TasksCounted  BY DEF TasksCounted, Pending, Actors
<1>3. NoTaskOutlives  BY DEF NoTaskOutlives
<1>4. RuntimeInv  BY DEF RuntimeInv, Actors, Instances
<1> QED  BY <1>1, <1>2, <1>3, <1>4 DEF IInv

(* A new instance starts with nothing counted on it.                        *)
LEMMA InitializePreserves ==
    ASSUME IInv, Initialize
    PROVE  IInv'
<1> USE Disjoint, InstancesAssumption DEF IInv, TypeOK, RuntimeInv, Initialize, Goto, Leave, runtimeVars, Instances
<1>1. TypeOK'  BY DEF AddTask, TaskDone, CallerLabels, StreamLabels, CloserLabels
<1>2. TasksCounted'  BY DEF AddTask, TaskDone, TasksCounted, Pending
<1>3. NoTaskOutlives'  BY DEF AddTask, TaskDone, TasksCounted, Pending, NoTaskOutlives, Admits
<1>4. RuntimeInv'  BY DEF AddTask, TaskDone, TasksCounted, Pending, NoTaskOutlives, Admits
<1> QED  BY <1>1, <1>2, <1>3, <1>4

(* The closer that takes the lock targets the active instance.              *)
LEMMA ShutdownLockPreserves ==
    ASSUME IInv, NEW x \in Closers, ShutdownLock(x)
    PROVE  IInv'
<1> USE Disjoint, InstancesAssumption DEF IInv, TypeOK, RuntimeInv, ShutdownLock, Goto, Leave, runtimeVars, Instances
<1>1. TypeOK'  BY DEF AddTask, TaskDone, CallerLabels, StreamLabels, CloserLabels
<1>2. TasksCounted'  BY DEF AddTask, TaskDone, TasksCounted, Pending
<1>3. NoTaskOutlives'  BY DEF AddTask, TaskDone, TasksCounted, Pending, NoTaskOutlives, Admits
<1>4. RuntimeInv'  BY DEF AddTask, TaskDone, TasksCounted, Pending, NoTaskOutlives, Admits
<1> QED  BY <1>1, <1>2, <1>3, <1>4

(* The instance stops admitting.                                            *)
LEMMA ShutdownStopPreserves ==
    ASSUME IInv, NEW x \in Closers, ShutdownStop(x)
    PROVE  IInv'
<1> USE Disjoint, InstancesAssumption DEF IInv, TypeOK, RuntimeInv, ShutdownStop, Goto, Leave, runtimeVars, Instances
<1>1. TypeOK'  BY DEF AddTask, TaskDone, CallerLabels, StreamLabels, CloserLabels
<1>2. TasksCounted'  BY DEF AddTask, TaskDone, TasksCounted, Pending
<1>3. NoTaskOutlives'  BY DEF AddTask, TaskDone, TasksCounted, Pending, NoTaskOutlives, Admits
<1>4. RuntimeInv'  BY DEF AddTask, TaskDone, TasksCounted, Pending, NoTaskOutlives, Admits
<1> QED  BY <1>1, <1>2, <1>3, <1>4

(* Wait returns when nothing is counted.                                    *)
LEMMA ShutdownDrainedPreserves ==
    ASSUME IInv, NEW x \in Closers, ShutdownDrained(x)
    PROVE  IInv'
<1> USE Disjoint, InstancesAssumption DEF IInv, TypeOK, RuntimeInv, ShutdownDrained, Goto, Leave, runtimeVars, Instances
<1>1. TypeOK'  BY DEF AddTask, TaskDone, CallerLabels, StreamLabels, CloserLabels
<1>2. TasksCounted'  BY DEF AddTask, TaskDone, TasksCounted, Pending
<1>3. NoTaskOutlives'  BY DEF AddTask, TaskDone, TasksCounted, Pending, NoTaskOutlives, Admits
<1>4. RuntimeInv'  BY DEF AddTask, TaskDone, TasksCounted, Pending, NoTaskOutlives, Admits
<1> QED  BY <1>1, <1>2, <1>3, <1>4

(* The instance that is cleared was drained.                                *)
LEMMA ShutdownClearPreserves ==
    ASSUME IInv, NEW x \in Closers, ShutdownClear(x)
    PROVE  IInv'
<1> USE Disjoint, InstancesAssumption DEF IInv, TypeOK, RuntimeInv, ShutdownClear, Goto, Leave, runtimeVars, Instances
<1>1. TypeOK'  BY DEF AddTask, TaskDone, CallerLabels, StreamLabels, CloserLabels
<1>2. TasksCounted'  BY DEF AddTask, TaskDone, TasksCounted, Pending
<1>3. NoTaskOutlives'  BY DEF AddTask, TaskDone, TasksCounted, Pending, NoTaskOutlives, Admits
<1>4. RuntimeInv'  BY DEF AddTask, TaskDone, TasksCounted, Pending, NoTaskOutlives, Admits
<1> QED  BY <1>1, <1>2, <1>3, <1>4

(* A call that reads the active instance is not counted yet.                *)
LEMMA CallPreserves ==
    ASSUME IInv, NEW c \in Callers, Call(c)
    PROVE  IInv'
<1> USE Disjoint, InstancesAssumption DEF IInv, TypeOK, RuntimeInv, Call, Goto, Leave, runtimeVars, Instances
<1>1. TypeOK'  BY DEF AddTask, TaskDone, CallerLabels, StreamLabels, CloserLabels
<1>2. TasksCounted'  BY DEF AddTask, TaskDone, TasksCounted, Pending
<1>3. NoTaskOutlives'  BY DEF AddTask, TaskDone, TasksCounted, Pending, NoTaskOutlives, Admits
<1>4. RuntimeInv'  BY DEF AddTask, TaskDone, TasksCounted, Pending, NoTaskOutlives, Admits
<1> QED  BY <1>1, <1>2, <1>3, <1>4

(* An instance that admits is the active one.                               *)
LEMMA BeginPreserves ==
    ASSUME IInv, NEW c \in Callers, Begin(c)
    PROVE  IInv'
<1> USE Disjoint, InstancesAssumption DEF IInv, TypeOK, RuntimeInv, Begin, Goto, Leave, runtimeVars, Instances
<1>1. TypeOK'  BY DEF AddTask, TaskDone, CallerLabels, StreamLabels, CloserLabels
<1>2. TasksCounted'  BY DEF AddTask, TaskDone, TasksCounted, Pending
<1>3. NoTaskOutlives'  BY DEF AddTask, TaskDone, TasksCounted, Pending, NoTaskOutlives, Admits
<1>4. RuntimeInv'  BY DEF AddTask, TaskDone, TasksCounted, Pending, NoTaskOutlives, Admits
<1> QED  BY <1>1, <1>2, <1>3, <1>4

(* A refused call leaves no trace.                                          *)
LEMMA BeginRefusedPreserves ==
    ASSUME IInv, NEW c \in Callers, BeginRefused(c)
    PROVE  IInv'
<1> USE Disjoint, InstancesAssumption DEF IInv, TypeOK, RuntimeInv, BeginRefused, Goto, Leave, runtimeVars, Instances
<1>1. TypeOK'  BY DEF AddTask, TaskDone, CallerLabels, StreamLabels, CloserLabels
<1>2. TasksCounted'  BY DEF AddTask, TaskDone, TasksCounted, Pending
<1>3. NoTaskOutlives'  BY DEF AddTask, TaskDone, TasksCounted, Pending, NoTaskOutlives, Admits
<1>4. RuntimeInv'  BY DEF AddTask, TaskDone, TasksCounted, Pending, NoTaskOutlives, Admits
<1> QED  BY <1>1, <1>2, <1>3, <1>4

(* Cancelling a request moves nobody.                                       *)
LEMMA CancelRequestPreserves ==
    ASSUME IInv, NEW c \in Callers, CancelRequest(c)
    PROVE  IInv'
<1> USE Disjoint, InstancesAssumption DEF IInv, TypeOK, RuntimeInv, CancelRequest, Goto, Leave, runtimeVars, Instances
<1>1. TypeOK'  BY DEF AddTask, TaskDone, CallerLabels, StreamLabels, CloserLabels
<1>2. TasksCounted'  BY DEF AddTask, TaskDone, TasksCounted, Pending
<1>3. NoTaskOutlives'  BY DEF AddTask, TaskDone, TasksCounted, Pending, NoTaskOutlives, Admits
<1>4. RuntimeInv'  BY DEF AddTask, TaskDone, TasksCounted, Pending, NoTaskOutlives, Admits
<1> QED  BY <1>1, <1>2, <1>3, <1>4

(* The gateway's answer keeps the call counted.                             *)
LEMMA AnswerPreserves ==
    ASSUME IInv, NEW c \in Callers, Answer(c)
    PROVE  IInv'
<1> USE Disjoint, InstancesAssumption DEF IInv, TypeOK, RuntimeInv, Answer, Goto, Leave, runtimeVars, Instances
<1>1. TypeOK'  BY DEF AddTask, TaskDone, CallerLabels, StreamLabels, CloserLabels
<1>2. TasksCounted'  BY DEF AddTask, TaskDone, TasksCounted, Pending
<1>3. NoTaskOutlives'  BY DEF AddTask, TaskDone, TasksCounted, Pending, NoTaskOutlives, Admits
<1>4. RuntimeInv'  BY DEF AddTask, TaskDone, TasksCounted, Pending, NoTaskOutlives, Admits
<1> QED  BY <1>1, <1>2, <1>3, <1>4

(* A call that ends is no longer counted.                                   *)
LEMMA DonePreserves ==
    ASSUME IInv, NEW c \in Callers, Done(c)
    PROVE  IInv'
<1> USE Disjoint, InstancesAssumption DEF IInv, TypeOK, RuntimeInv, Done, Goto, Leave, runtimeVars, Instances
<1>1. TypeOK'  BY DEF AddTask, TaskDone, CallerLabels, StreamLabels, CloserLabels
<1>2. TasksCounted'  BY DEF AddTask, TaskDone, TasksCounted, Pending
<1>3. NoTaskOutlives'  BY DEF AddTask, TaskDone, TasksCounted, Pending, NoTaskOutlives, Admits
<1>4. RuntimeInv'  BY DEF AddTask, TaskDone, TasksCounted, Pending, NoTaskOutlives, Admits
<1> QED  BY <1>1, <1>2, <1>3, <1>4

(* A stream starts under a call that is still counted.                      *)
LEMMA BeginStreamPreserves ==
    ASSUME IInv, NEW c \in Callers, NEW s \in Streams, BeginStream(c, s)
    PROVE  IInv'
<1> USE Disjoint, InstancesAssumption DEF IInv, TypeOK, RuntimeInv, BeginStream, Goto, Leave, runtimeVars, Instances
<1>0. /\ pc' = [pc EXCEPT ![c] = "opening", ![s] = "opening"]
      /\ c \in Actors /\ s \in Actors /\ c # s /\ inst[c] \in Instances
      /\ pc'[c] = "opening" /\ pc'[s] = "opening"
      /\ \A a \in Actors \ {c, s} : pc'[a] = pc[a]
      /\ \A x \in Closers : pc'[x] = pc[x]
      /\ \A r \in Streams \ {s} : pc'[r] = pc[r]
  OBVIOUS
<1>1. TypeOK'
  <2>1. /\ tasks' \in [Instances -> SUBSET (Callers \cup Streams)]
        /\ inst' \in [Actors -> 0 .. MaxInstances]
        /\ slot' \in [Callers -> Streams \cup {Nobody}]
    BY <1>0 DEF AddTask
  <2>2. \A a \in Actors : inst'[a] = 0 <=> pc'[a] = "idle"  BY <1>0
  <2>3. \A d \in Callers : pc'[d] \in CallerLabels  BY <1>0 DEF CallerLabels
  <2>4. \A r \in Streams : pc'[r] \in StreamLabels  BY <1>0 DEF StreamLabels
  <2>5. \A x \in Closers : pc'[x] \in CloserLabels  BY <1>0
  <2>6. pc' \in [Actors -> CallerLabels \cup StreamLabels \cup CloserLabels]
    <3>1. \A a \in Actors : pc'[a] \in CallerLabels \cup StreamLabels \cup CloserLabels
      BY <2>3, <2>4, <2>5 DEF Actors
    <3> QED  BY <3>1
  <2> QED  BY <2>1, <2>2, <2>3, <2>4, <2>5, <2>6
<1>2. TasksCounted'
  <2>1. \A a \in Callers \cup Streams : Pending(a)' <=> Pending(a) \/ a = s  BY <1>0 DEF Pending
  <2>2. \A g \in Instances, a \in Callers \cup Streams :
           a \in tasks'[g] <=> a \in tasks[g] \/ (a = s /\ g = inst[c])
    BY <1>0 DEF AddTask
  <2>3. \A a \in Callers \cup Streams : inst'[a] = IF a = s THEN inst[c] ELSE inst[a]
    BY <1>0 DEF Actors
  <2>4. \A g \in Instances : s \notin tasks[g]  BY <1>0 DEF TasksCounted, Pending
  <2> QED  BY <2>1, <2>2, <2>3, <2>4 DEF TasksCounted
<1>3. NoTaskOutlives'  BY DEF AddTask, TaskDone, TasksCounted, Pending, NoTaskOutlives, Admits
<1>4. RuntimeInv'  BY DEF AddTask, TaskDone, TasksCounted, Pending, NoTaskOutlives, Admits
<1> QED  BY <1>1, <1>2, <1>3, <1>4

(* A refused stream starts nothing.                                         *)
LEMMA BeginStreamRefusedPreserves ==
    ASSUME IInv, NEW c \in Callers, BeginStreamRefused(c)
    PROVE  IInv'
<1> USE Disjoint, InstancesAssumption DEF IInv, TypeOK, RuntimeInv, BeginStreamRefused, Goto, Leave, runtimeVars, Instances
<1>1. TypeOK'  BY DEF AddTask, TaskDone, CallerLabels, StreamLabels, CloserLabels
<1>2. TasksCounted'  BY DEF AddTask, TaskDone, TasksCounted, Pending
<1>3. NoTaskOutlives'  BY DEF AddTask, TaskDone, TasksCounted, Pending, NoTaskOutlives, Admits
<1>4. RuntimeInv'  BY DEF AddTask, TaskDone, TasksCounted, Pending, NoTaskOutlives, Admits
<1> QED  BY <1>1, <1>2, <1>3, <1>4

(* The goroutine inherits the stream's count.                               *)
LEMMA OpenSucceedsPreserves ==
    ASSUME IInv, NEW c \in Callers, OpenSucceeds(c)
    PROVE  IInv'
<1> USE Disjoint, InstancesAssumption DEF IInv, TypeOK, RuntimeInv, OpenSucceeds, Goto, Leave, runtimeVars, Instances
<1>0. /\ c \in Actors /\ slot[c] \in Streams /\ slot[c] \in Actors /\ c # slot[c]
      /\ pc'[c] = "returning" /\ pc'[slot[c]] = "reading" /\ pc[slot[c]] = "opening"
      /\ \A a \in Actors \ {c, slot[c]} : pc'[a] = pc[a]
      /\ \A x \in Closers : pc'[x] = pc[x]
      /\ \A r \in Streams \ {slot[c]} : pc'[r] = pc[r]
  OBVIOUS
<1>1. TypeOK'
  <2>1. slot' \in [Callers -> Streams \cup {Nobody}]  OBVIOUS
  <2>2. \A a \in Actors : inst'[a] = 0 <=> pc'[a] = "idle"  BY <1>0
  <2>3. \A d \in Callers : pc'[d] \in CallerLabels  BY <1>0 DEF CallerLabels
  <2>4. \A r \in Streams : pc'[r] \in StreamLabels  BY <1>0 DEF StreamLabels
  <2>5. \A x \in Closers : pc'[x] \in CloserLabels  BY <1>0
  <2>6. pc' \in [Actors -> CallerLabels \cup StreamLabels \cup CloserLabels]
    <3>1. \A a \in Actors : pc'[a] \in CallerLabels \cup StreamLabels \cup CloserLabels
      BY <2>3, <2>4, <2>5 DEF Actors
    <3> QED  BY <3>1
  <2> QED  BY <2>1, <2>2, <2>3, <2>4, <2>5, <2>6
<1>2. TasksCounted'  BY DEF AddTask, TaskDone, TasksCounted, Pending
<1>3. NoTaskOutlives'  BY DEF AddTask, TaskDone, TasksCounted, Pending, NoTaskOutlives, Admits
<1>4. RuntimeInv'  BY DEF AddTask, TaskDone, TasksCounted, Pending, NoTaskOutlives, Admits
<1> QED  BY <1>1, <1>2, <1>3, <1>4

(* A stream that was not opened is no longer counted.                       *)
LEMMA OpenFailsPreserves ==
    ASSUME IInv, NEW c \in Callers, OpenFails(c)
    PROVE  IInv'
<1> USE Disjoint, InstancesAssumption DEF IInv, TypeOK, RuntimeInv, OpenFails, Goto, Leave, runtimeVars, Instances
<1>0. /\ c \in Actors /\ slot[c] \in Streams /\ slot[c] \in Actors /\ c # slot[c]
      /\ pc'[c] = "returning" /\ pc'[slot[c]] = "idle" /\ inst'[slot[c]] = 0
      /\ \A a \in Actors \ {slot[c]} : inst'[a] = inst[a]
      /\ \A a \in Actors \ {c, slot[c]} : pc'[a] = pc[a]
      /\ \A x \in Closers : pc'[x] = pc[x]
      /\ \A r \in Streams \ {slot[c]} : pc'[r] = pc[r]
  OBVIOUS
<1>1. TypeOK'
  <2>1. /\ tasks' \in [Instances -> SUBSET (Callers \cup Streams)]
        /\ inst' \in [Actors -> 0 .. MaxInstances]
        /\ slot' \in [Callers -> Streams \cup {Nobody}]
    BY <1>0 DEF TaskDone
  <2>2. \A a \in Actors : inst'[a] = 0 <=> pc'[a] = "idle"  BY <1>0
  <2>3. \A d \in Callers : pc'[d] \in CallerLabels  BY <1>0 DEF CallerLabels
  <2>4. \A r \in Streams : pc'[r] \in StreamLabels  BY <1>0 DEF StreamLabels
  <2>5. \A x \in Closers : pc'[x] \in CloserLabels  BY <1>0
  <2>6. pc' \in [Actors -> CallerLabels \cup StreamLabels \cup CloserLabels]
    <3>1. \A a \in Actors : pc'[a] \in CallerLabels \cup StreamLabels \cup CloserLabels
      BY <2>3, <2>4, <2>5 DEF Actors
    <3> QED  BY <3>1
  <2> QED  BY <2>1, <2>2, <2>3, <2>4, <2>5, <2>6
<1>2. TasksCounted'  BY DEF AddTask, TaskDone, TasksCounted, Pending
<1>3. NoTaskOutlives'  BY DEF AddTask, TaskDone, TasksCounted, Pending, NoTaskOutlives, Admits
<1>4. RuntimeInv'  BY DEF AddTask, TaskDone, TasksCounted, Pending, NoTaskOutlives, Admits
<1> QED  BY <1>1, <1>2, <1>3, <1>4

(* The relay's own steps change no count.                                   *)
LEMMA RelayPreserves ==
    ASSUME IInv, NEW s \in Streams,
           \/ EmitChecked(s) \/ BodyEnds(s) \/ EmitEnter(s)
           \/ EmitReturns(s) \/ CloseEnter(s) \/ CloseReturns(s)
    PROVE  IInv'
<1> DEFINE Inside == {"reading", "emit", "emitting", "close", "closing", "closed"}
<1>1. UNCHANGED streamOnly /\ pc[s] \in Inside
  BY DEF EmitChecked, BodyEnds, EmitEnter, EmitReturns, CloseEnter, CloseReturns, streamOnly
<1>2. PICK l \in Inside : pc' = [pc EXCEPT ![s] = l]
  BY DEF EmitChecked, BodyEnds, EmitEnter, EmitReturns, CloseEnter, CloseReturns, Goto
<1>3. /\ s \in Actors /\ s \notin Callers /\ s \notin Closers
      /\ pc'[s] = l /\ \A a \in Actors \ {s} : pc'[a] = pc[a]
      /\ \A c \in Callers : c \in Actors \ {s}
      /\ \A x \in Closers : x \in Actors \ {s}
  BY <1>2, Disjoint DEF IInv, TypeOK
<1> USE <1>1, <1>3 DEF IInv, streamOnly, runtimeVars
<1>4. TypeOK'
  <2>1. pc' \in [Actors -> CallerLabels \cup StreamLabels \cup CloserLabels]
    BY <1>2 DEF TypeOK, StreamLabels
  <2>2. \A r \in Streams : pc'[r] \in StreamLabels
    BY Disjoint DEF TypeOK, StreamLabels
  <2>3. \A a \in Actors : inst'[a] = 0 <=> pc'[a] = "idle"  BY DEF TypeOK
  <2> QED  BY <2>1, <2>2, <2>3 DEF TypeOK
<1>5. TasksCounted'
  <2>1. \A a \in Callers \cup Streams : Pending(a)' <=> Pending(a)
    BY Disjoint DEF Pending
  <2> QED  BY <2>1 DEF TasksCounted
<1>6. NoTaskOutlives'  BY DEF NoTaskOutlives
<1>7. RuntimeInv'
  <2>1. \A c \in Callers : pc[c] = "opening" => slot[c] \in Actors /\ slot[c] # s
    BY Disjoint DEF RuntimeInv
  <2> QED  BY <2>1 DEF RuntimeInv
<1> QED  BY <1>4, <1>5, <1>6, <1>7

(* A relay that ends is no longer counted.                                  *)
LEMMA StreamDonePreserves ==
    ASSUME IInv, NEW s \in Streams, StreamDone(s)
    PROVE  IInv'
<1> USE Disjoint, InstancesAssumption DEF IInv, TypeOK, RuntimeInv, StreamDone, Goto, Leave, runtimeVars, Instances
<1>1. TypeOK'  BY DEF AddTask, TaskDone, CallerLabels, StreamLabels, CloserLabels
<1>2. TasksCounted'  BY DEF AddTask, TaskDone, TasksCounted, Pending
<1>3. NoTaskOutlives'  BY DEF AddTask, TaskDone, TasksCounted, Pending, NoTaskOutlives, Admits
<1>4. RuntimeInv'  BY DEF AddTask, TaskDone, TasksCounted, Pending, NoTaskOutlives, Admits
<1> QED  BY <1>1, <1>2, <1>3, <1>4

(* A step that changes nothing.                                             *)
LEMMA StutterPreserves == IInv /\ UNCHANGED vars => IInv'
  BY DEF IInv, TypeOK, TasksCounted, NoTaskOutlives, RuntimeInv, Pending, vars

(* Every step preserves the invariant.                                      *)
LEMMA NextPreserves == IInv /\ [Next]_vars => IInv'
<1> SUFFICES ASSUME IInv, [Next]_vars PROVE IInv'  OBVIOUS
<1>1. CASE UNCHANGED vars  BY <1>1, StutterPreserves
<1>2. CASE Initialize  BY <1>2, InitializePreserves
<1>3. CASE InitializeRefused  BY <1>3, StutterPreserves DEF InitializeRefused
<1>4. ASSUME NEW x \in Closers, Closer(x) PROVE IInv'
  BY <1>4, StutterPreserves, ShutdownLockPreserves, ShutdownStopPreserves,
     ShutdownDrainedPreserves, ShutdownClearPreserves
     DEF Closer, ShutdownNothing
<1>5. ASSUME NEW c \in Callers, Caller(c) PROVE IInv'
  <2>1. ASSUME NEW s \in Streams, BeginStream(c, s) PROVE IInv'
    BY <2>1, BeginStreamPreserves
  <2>2. CASE CallRefused(c)  BY <2>2, StutterPreserves DEF CallRefused
  <2> QED
    BY <1>5, <2>1, <2>2, CallPreserves, BeginPreserves, BeginRefusedPreserves,
       CancelRequestPreserves, AnswerPreserves, DonePreserves,
       BeginStreamRefusedPreserves, OpenSucceedsPreserves, OpenFailsPreserves
       DEF Caller
<1>6. ASSUME NEW s \in Streams, Stream(s) PROVE IInv'
  BY <1>6, RelayPreserves, StreamDonePreserves DEF Stream
<1> QED  BY <1>1, <1>2, <1>3, <1>4, <1>5, <1>6 DEF Next

(* The inductive invariant holds in every reachable state.                  *)
THEOREM Invariance == Spec => []IInv
  BY InitIInv, NextPreserves, PTL DEF Spec

--------------------------------------------------------------------------------
(* What the runs check on a small instance, for every instance              *)

(* No nil instance is ever called, and the variables have their types.      *)
THEOREM TypeCorrect == Spec => []TypeOK
<1>1. IInv => TypeOK  BY DEF IInv
<1> QED  BY <1>1, Invariance, PTL

(* Work is in progress on the active instance only.                         *)
THEOREM NothingOutlives == Spec => []NoTaskOutlives
<1>1. IInv => NoTaskOutlives  BY DEF IInv
<1> QED  BY <1>1, Invariance, PTL

(* The WaitGroup counts exactly what is running.                            *)
THEOREM CountIsExact == Spec => []TasksCounted
<1>1. IInv => TasksCounted  BY DEF IInv
<1> QED  BY <1>1, Invariance, PTL

(* A stream inside a host call is counted, so its instance is active, and   *)
(* the active instance's host pointer is the one installed.                 *)
LEMMA HostPointerInv == IInv => HostPointerValid
<1> SUFFICES ASSUME IInv, NEW s \in Streams, InHostCall(s) PROVE host = inst[s]
  BY DEF HostPointerValid
<1>1. Pending(s) /\ s \in Actors  BY Disjoint DEF InHostCall, Pending
<1>2. inst[s] \in Instances
  BY <1>1, InstancesAssumption DEF IInv, TypeOK, InHostCall, Instances
<1>3. s \in tasks[inst[s]]  BY <1>1, <1>2 DEF IInv, TasksCounted
<1> QED  BY <1>2, <1>3 DEF IInv, NoTaskOutlives, RuntimeInv

(* From the decision to call the host until it returned, stored_host is the *)
(* pointer of the stream's own instance, however often the library is shut  *)
(* down and initialized meanwhile.                                          *)
THEOREM HostPointerIsValid == Spec => []HostPointerValid
  BY HostPointerInv, Invariance, PTL

(* An instance that began to stop admits nothing and stays stopped: begin   *)
(* and the stream's begin are the only steps that count a task, and both    *)
(* ask the instance first.                                                  *)
THEOREM StoppedAdmitsNothing == Spec => OnlyRunningAdmits
<1>1. IInv /\ [Next]_vars => [StoppedStays]_vars
  <2> SUFFICES ASSUME IInv, Next PROVE StoppedStays \/ UNCHANGED vars  OBVIOUS
  <2> USE DEF IInv, TypeOK, StoppedStays, runtimeVars, Instances
  <2>1. CASE Initialize \/ InitializeRefused  BY <2>1 DEF Initialize, InitializeRefused
  <2>2. ASSUME NEW x \in Closers, Closer(x) PROVE StoppedStays \/ UNCHANGED vars
    BY <2>2 DEF Closer, ShutdownNothing, ShutdownLock, ShutdownStop, ShutdownDrained, ShutdownClear
  <2>3. ASSUME NEW c \in Callers, Caller(c) PROVE StoppedStays \/ UNCHANGED vars
    <3>1. CASE Begin(c) \/ BeginRefused(c) \/ Call(c) \/ CallRefused(c)
      BY <3>1 DEF Begin, BeginRefused, Call, CallRefused, Admits, AddTask
    <3>2. CASE CancelRequest(c) \/ Answer(c) \/ Done(c)
      BY <3>2 DEF CancelRequest, Answer, Done, TaskDone
    <3>3. ASSUME NEW s \in Streams, BeginStream(c, s) PROVE StoppedStays
      BY <3>3 DEF BeginStream, Admits, AddTask
    <3>4. CASE BeginStreamRefused(c) \/ OpenSucceeds(c)
      BY <3>4 DEF BeginStreamRefused, OpenSucceeds
    <3>5. CASE OpenFails(c)
      <4>1. stopping' = stopping /\ TaskDone(slot[c])  BY <3>5 DEF OpenFails
      <4> QED  BY <4>1 DEF TaskDone
    <3> QED  BY <2>3, <3>1, <3>2, <3>3, <3>4, <3>5 DEF Caller
  <2>4. ASSUME NEW s \in Streams, Stream(s) PROVE StoppedStays \/ UNCHANGED vars
    BY <2>4 DEF Stream, EmitChecked, BodyEnds, EmitEnter, EmitReturns, CloseEnter,
                CloseReturns, StreamDone, streamOnly, TaskDone
  <2> QED  BY <2>1, <2>2, <2>3, <2>4 DEF Next
<1> QED  BY <1>1, Invariance, PTL DEF Spec, OnlyRunningAdmits

--------------------------------------------------------------------------------
(* The library implements the service                                       *)

Workers == Callers \cup Streams

(* The work and the callbacks that the service sees.                        *)
Work      == {p \in Workers \X Instances : p[1] \in tasks[p[2]]}
Callbacks == {s \in Streams : pc[s] \in {"emitting", "closing"}} \X {host}

(* Work is in progress on the instance served, and is what is counted on    *)
(* it.                                                                      *)
LEMMA WorkIsServed ==
    ASSUME IInv
    PROVE  /\ \A a, g : <<a, g>> \in Work <=> a \in Workers /\ g \in Instances /\ a \in tasks[g]
           /\ \A p \in Work : p = <<p[1], active>> /\ active \in Instances
<1>1. \A a, g : <<a, g>> \in Work <=> a \in Workers /\ g \in Instances /\ a \in tasks[g]
  BY DEF Work
<1>2. \A g \in Instances : tasks[g] # {} => active = g  BY DEF IInv, NoTaskOutlives
<1> QED  BY <1>1, <1>2 DEF Work

(* A task that is admitted is one piece of work more.                       *)
LEMMA WorkGrows ==
    ASSUME IInv, NEW a \in Workers, NEW g \in Instances, AddTask(a, g)
    PROVE  Work' = Work \cup {<<a, g>>}
<1>1. tasks \in [Instances -> SUBSET Workers]  BY DEF IInv, TypeOK, Workers
<1>2. \A h \in Instances : tasks'[h] = IF h = g THEN tasks[h] \cup {a} ELSE tasks[h]
  BY <1>1 DEF AddTask
<1>3. \A w, h : <<w, h>> \in Work' <=> <<w, h>> \in Work \/ (w = a /\ h = g)  BY <1>2 DEF Work
<1>4. Work' \subseteq Workers \X Instances /\ Work \subseteq Workers \X Instances  BY DEF Work
<1> QED  BY <1>3, <1>4

(* And so is a task that ends.                                              *)
LEMMA WorkShrinks ==
    ASSUME IInv, NEW a \in Workers, inst[a] \in Instances, TaskDone(a)
    PROVE  Work' = Work \ {<<a, inst[a]>>}
<1>1. tasks \in [Instances -> SUBSET Workers]  BY DEF IInv, TypeOK, Workers
<1>2. \A h \in Instances : tasks'[h] = IF h = inst[a] THEN tasks[h] \ {a} ELSE tasks[h]
  BY <1>1 DEF TaskDone
<1>3. \A w, h : <<w, h>> \in Work' <=> <<w, h>> \in Work /\ ~(w = a /\ h = inst[a])  BY <1>2 DEF Work
<1>4. Work' \subseteq Workers \X Instances /\ Work \subseteq Workers \X Instances  BY DEF Work
<1> QED  BY <1>3, <1>4


Open == active # 0 /\ ~stopping[active]

Same == active' = active /\ born' = born

(* The steps of the service, in the terms of the library.                   *)
LEMMA ServiceSteps ==
    /\ active = 0 /\ born' = born + 1 /\ active' = born + 1 /\ Open' /\ Work' = Work /\ Callbacks' = Callbacks
       => Service!Load
    /\ Open /\ ~Open' /\ Same /\ Work' = Work /\ Callbacks' = Callbacks => Service!Stop
    /\ active # 0 /\ ~Open /\ ~Open' /\ Work = {} /\ Callbacks = {} /\ active' = 0 /\ born' = born
       /\ Work' = Work /\ Callbacks' = Callbacks
       => Service!Unload
    /\ Open' = Open /\ Same /\ Work' = Work /\ Callbacks' = Callbacks => UNCHANGED Service!vars
    /\ \A a : Open /\ <<a, active>> \notin Work /\ Open' = Open /\ Same
              /\ Work' = Work \cup {<<a, active>>} /\ Callbacks' = Callbacks
              => Service!Admit(a)
    /\ \A a : <<a, active>> \in Work /\ <<a, active>> \notin Callbacks /\ Open' = Open /\ Same
              /\ Work' = Work /\ Callbacks' = Callbacks \cup {<<a, active>>}
              => Service!CallHost(a)
    /\ \A a : <<a, active>> \in Callbacks /\ Open' = Open /\ Same
              /\ Work' = Work /\ Callbacks' = Callbacks \ {<<a, active>>}
              => Service!HostReturns(a)
    /\ \A a : <<a, active>> \in Work /\ <<a, active>> \notin Callbacks /\ Open' = Open /\ Same
              /\ Work' = Work \ {<<a, active>>} /\ Callbacks' = Callbacks
              => Service!Finish(a)
<1> USE DEF Open, Same, Work, Callbacks, Workers
<1>1. active = 0 /\ born' = born + 1 /\ active' = born + 1 /\ Open' /\ Work' = Work /\ Callbacks' = Callbacks
        => Service!Load
  BY Zenon DEF Service!Load
<1>2. Open /\ ~Open' /\ Same /\ Work' = Work /\ Callbacks' = Callbacks => Service!Stop
  BY Zenon DEF Service!Stop
<1>3. active # 0 /\ ~Open /\ ~Open' /\ Work = {} /\ Callbacks = {} /\ active' = 0 /\ born' = born
      /\ Work' = Work /\ Callbacks' = Callbacks => Service!Unload
  BY Zenon DEF Service!Unload
<1>4. Open' = Open /\ Same /\ Work' = Work /\ Callbacks' = Callbacks => UNCHANGED Service!vars
  BY Zenon DEF Service!vars
<1>5. ASSUME NEW a, Open, <<a, active>> \notin Work, Open' = Open, Same,
             Work' = Work \cup {<<a, active>>}, Callbacks' = Callbacks
      PROVE  Service!Admit(a)
  BY <1>5 DEF Service!Admit
<1>6. ASSUME NEW a, <<a, active>> \in Work, <<a, active>> \notin Callbacks, Open' = Open, Same,
             Work' = Work, Callbacks' = Callbacks \cup {<<a, active>>}
      PROVE  Service!CallHost(a)
  BY <1>6 DEF Service!CallHost
<1>7. ASSUME NEW a, <<a, active>> \in Callbacks, Open' = Open, Same,
             Work' = Work, Callbacks' = Callbacks \ {<<a, active>>}
      PROVE  Service!HostReturns(a)
  BY <1>7 DEF Service!HostReturns
<1>8. ASSUME NEW a, <<a, active>> \in Work, <<a, active>> \notin Callbacks, Open' = Open, Same,
             Work' = Work \ {<<a, active>>}, Callbacks' = Callbacks
      PROVE  Service!Finish(a)
  BY <1>8 DEF Service!Finish
<1> HIDE DEF Open, Same, Work, Callbacks, Workers
<1> QED  BY <1>1, <1>2, <1>3, <1>4, <1>5, <1>6, <1>7, <1>8


(* What the service sees of a callback: a stream enters one with the host   *)
(* pointer of its own instance, and leaves it.                              *)
LEMMA CallbacksAre ==
    ASSUME IInv
    PROVE  /\ Callbacks = {s \in Streams : pc[s] \in {"emitting", "closing"}} \X {active}
           /\ \A a, h : <<a, h>> \in Callbacks <=>
                 a \in Streams /\ pc[a] \in {"emitting", "closing"} /\ h = active
  BY DEF Callbacks, IInv, RuntimeInv

(* No step of a caller or a closer enters or leaves the host.               *)
LEMMA CallbacksStay ==
    ASSUME host' = host, \A s \in Streams : pc'[s] \in {"emitting", "closing"} <=> pc[s] \in {"emitting", "closing"}
    PROVE  Callbacks' = Callbacks
  BY DEF Callbacks

(* Without work there are no callbacks.                                     *)
LEMMA IdleCalls ==
    ASSUME IInv, Work = {}
    PROVE  Callbacks = {} /\ \A s \in Streams : pc[s] \notin {"emitting", "closing"}
<1>1. \A s \in Streams : pc[s] \notin {"emitting", "closing"}
  <2> SUFFICES ASSUME NEW s \in Streams, pc[s] \in {"emitting", "closing"} PROVE FALSE
    OBVIOUS
  <2>1. Pending(s) /\ s \in Actors  BY Disjoint DEF Pending
  <2>2. inst[s] \in Instances  BY <2>1, InstancesAssumption DEF IInv, TypeOK, Instances
  <2>3. s \in tasks[inst[s]]  BY <2>1, <2>2 DEF IInv, TasksCounted
  <2>4. <<s, inst[s]>> \in Work  BY <2>2, <2>3, WorkIsServed DEF Workers
  <2> QED  BY <2>4
<1> QED  BY <1>1, CallbacksAre

(* Initialize serves a fresh instance.                                      *)
LEMMA InitializeServes ==
    ASSUME IInv, Initialize
    PROVE  Service!Load
<1>1. active = 0 /\ born' = born + 1 /\ active' = born + 1 /\ UNCHANGED <<tasks, stopping, pc>>
  BY DEF Initialize
<1>2. born + 1 \in Instances /\ born + 1 # 0 /\ ~stopping[born + 1]
  BY InstancesAssumption DEF Initialize, IInv, TypeOK, RuntimeInv, Instances
<1>3. Open'  BY <1>1, <1>2 DEF Open
<1>4. Work' = Work  BY <1>1 DEF Work
<1>5. Work = {}
  <2>1. \A p \in Work : active \in Instances  BY WorkIsServed
  <2> QED  BY <1>1, <2>1 DEF Instances
<1>6. Callbacks' = Callbacks
  <2>1. Callbacks = {} /\ \A s \in Streams : pc'[s] \notin {"emitting", "closing"}  BY <1>1, <1>5, IdleCalls
  <2> QED  BY <2>1 DEF Callbacks
<1> QED  BY <1>1, <1>3, <1>4, <1>6, ServiceSteps

(* A closer stops the instance, and unloads it once it is drained.          *)
LEMMA CloserServes ==
    ASSUME IInv, NEW x \in Closers, Closer(x)
    PROVE  [Service!Next]_(Service!vars)
<1>1. CASE ShutdownNothing(x) \/ ShutdownLock(x) \/ ShutdownDrained(x)
  <2>1. UNCHANGED <<active, born, host, stopping, tasks>>
    BY <1>1 DEF ShutdownNothing, ShutdownLock, ShutdownDrained, runtimeVars, vars
  <2>2. \A s \in Streams : pc'[s] = pc[s]
    BY <1>1, Disjoint DEF ShutdownNothing, ShutdownLock, ShutdownDrained, Goto, vars, IInv, TypeOK
  <2>3. Open' = Open /\ Same /\ Work' = Work /\ Callbacks' = Callbacks
    BY <2>1, <2>2, CallbacksStay DEF Open, Same, Work
  <2> QED  BY <2>3, ServiceSteps
<1>2. CASE ShutdownStop(x)
  <2>1. UNCHANGED <<active, born, host, tasks>> /\ stopping' = [stopping EXCEPT ![inst[x]] = TRUE]
    BY <1>2 DEF ShutdownStop, runtimeVars
  <2>2. \A s \in Streams : pc'[s] = pc[s]  BY <1>2, Disjoint DEF ShutdownStop, Goto, IInv, TypeOK
  <2>3. inst[x] = active /\ active \in Instances
    BY <1>2, InstancesAssumption DEF ShutdownStop, IInv, RuntimeInv, TypeOK, Instances
  <2>4. ~Open'  BY <2>1, <2>3 DEF Open, IInv, TypeOK
  <2>5. Same /\ Work' = Work /\ Callbacks' = Callbacks
    BY <2>1, <2>2, CallbacksStay DEF Same, Work
  <2>6. CASE Open  BY <2>4, <2>5, <2>6, ServiceSteps DEF Service!Next
  <2>7. CASE ~Open
    <3>1. Open' = Open  BY <2>4, <2>7 DEF Open
    <3> QED  BY <2>5, <3>1, ServiceSteps
  <2> QED  BY <2>6, <2>7
<1>3. CASE ShutdownClear(x)
  <2>1. UNCHANGED <<born, stopping, tasks>> /\ active' = 0 /\ pc[x] = "clear"
    BY <1>3 DEF ShutdownClear
  <2>2. active # 0 /\ stopping[active] /\ tasks[active] = {}
    BY <2>1 DEF IInv, RuntimeInv
  <2>3. ~Open /\ ~Open'  BY <2>1, <2>2 DEF Open
  <2>4. Work = {}
    <3>1. \A p \in Work : p[1] \in tasks[active]  BY WorkIsServed DEF Work
    <3> QED  BY <2>2, <3>1
  <2>5. Work' = Work  BY <2>1 DEF Work
  <2>6. \A s \in Streams : pc'[s] = pc[s]  BY <1>3, Disjoint DEF ShutdownClear, Leave, Goto, IInv, TypeOK
  <2>7. Callbacks = {} /\ Callbacks' = {}  BY <2>4, <2>6, IdleCalls DEF Callbacks
  <2> QED  BY <2>1, <2>2, <2>3, <2>4, <2>5, <2>7, ServiceSteps DEF Service!Next
<1> QED  BY <1>1, <1>2, <1>3 DEF Closer


(* What is in progress is work on the instance served.                      *)
LEMMA PendingIsWork ==
    ASSUME IInv, NEW a \in Workers, Pending(a)
    PROVE  inst[a] = active /\ active \in Instances /\ <<a, active>> \in Work
<1>1. a \in Actors /\ pc[a] # "idle"  BY Disjoint DEF Workers, Pending
<1>2. inst[a] \in Instances  BY <1>1, InstancesAssumption DEF IInv, TypeOK, Instances
<1>3. a \in tasks[inst[a]]  BY <1>2 DEF IInv, TasksCounted, Workers
<1>4. inst[a] = active  BY <1>2, <1>3 DEF IInv, NoTaskOutlives
<1> QED  BY <1>2, <1>3, <1>4, WorkIsServed

(* What is not in progress is no work.                                      *)
LEMMA IdleIsNoWork ==
    ASSUME IInv, NEW a \in Workers, ~Pending(a)
    PROVE  <<a, active>> \notin Work
  BY WorkIsServed DEF IInv, TasksCounted, Workers

(* An instance that admits is the one served, and open.                     *)
LEMMA AdmittingIsServed ==
    ASSUME IInv, NEW a \in Actors, pc[a] # "idle", Admits(inst[a])
    PROVE  inst[a] = active /\ active \in Instances /\ Open
<1>1. inst[a] \in Instances /\ inst[a] <= born
  BY InstancesAssumption DEF IInv, TypeOK, RuntimeInv, Instances
<1>2. inst[a] = active  BY <1>1 DEF Admits, IInv, RuntimeInv
<1> QED  BY <1>1, <1>2 DEF Admits, Open, Instances

(* A call is admitted and ends, and so is the stream it fails to open.      *)
LEMMA CallerServes ==
    ASSUME IInv, NEW c \in Callers, Caller(c)
    PROVE  [Service!Next]_(Service!vars)
<1>1. c \in Workers /\ c \in Actors /\ c \notin Streams /\ Workers \subseteq Actors
  BY Disjoint DEF Workers, Actors
<1>2. CASE UNCHANGED vars
  <2>1. Open' = Open /\ Same /\ Work' = Work /\ Callbacks' = Callbacks
    BY <1>2 DEF Open, Same, Work, Callbacks, vars
  <2> QED  BY <2>1, ServiceSteps
<1>3. CASE Call(c) \/ BeginRefused(c) \/ CancelRequest(c) \/ Answer(c) \/ BeginStreamRefused(c)
  <2>1. UNCHANGED <<active, born, host, stopping, tasks>>
    BY <1>3 DEF Call, BeginRefused, CancelRequest, Answer, BeginStreamRefused, runtimeVars
  <2>2. \A s \in Streams : pc'[s] = pc[s]
    BY <1>1, <1>3, Disjoint
    DEF Call, BeginRefused, CancelRequest, Answer, BeginStreamRefused, Leave, Goto, IInv, TypeOK
  <2>3. Open' = Open /\ Same /\ Work' = Work /\ Callbacks' = Callbacks
    BY <2>1, <2>2, CallbacksStay DEF Open, Same, Work
  <2> QED  BY <2>3, ServiceSteps
<1>4. CASE Begin(c)
  <2>1. UNCHANGED <<active, born, host, stopping>> /\ AddTask(c, inst[c]) /\ pc[c] = "entered"
        /\ Admits(inst[c])
    BY <1>4 DEF Begin, runtimeVars
  <2>2. \A s \in Streams : pc'[s] = pc[s]  BY <1>1, <1>4, Disjoint DEF Begin, Goto, IInv, TypeOK
  <2>3. inst[c] = active /\ active \in Instances /\ Open  BY <1>1, <2>1, AdmittingIsServed
  <2>4. <<c, active>> \notin Work  BY <1>1, <2>1, IdleIsNoWork DEF Pending
  <2>5. Work' = Work \cup {<<c, active>>}  BY <1>1, <2>1, <2>3, WorkGrows
  <2>6. Open' = Open /\ Same /\ Callbacks' = Callbacks
    BY <2>1, <2>2, CallbacksStay DEF Open, Same
  <2> QED  BY <1>1, <2>3, <2>4, <2>5, <2>6, ServiceSteps DEF Service!Next, Workers
<1>5. ASSUME NEW s \in Streams, BeginStream(c, s) PROVE Service!Next
  <2>1. UNCHANGED <<active, born, host, stopping>> /\ AddTask(s, inst[c])
        /\ pc[c] = "running" /\ pc[s] = "idle" /\ Admits(inst[c])
    BY <1>5 DEF BeginStream, runtimeVars
  <2>2. s \in Workers /\ s \notin Callers  BY Disjoint DEF Workers
  <2>3. \A r \in Streams : pc'[r] \in {"emitting", "closing"} <=> pc[r] \in {"emitting", "closing"}
    BY <1>1, <1>5, <2>1, Disjoint DEF BeginStream, IInv, TypeOK
  <2>4. inst[c] = active /\ active \in Instances /\ Open  BY <1>1, <2>1, AdmittingIsServed
  <2>5. <<s, active>> \notin Work  BY <2>1, <2>2, IdleIsNoWork DEF Pending
  <2>6. Work' = Work \cup {<<s, active>>}  BY <2>1, <2>2, <2>4, WorkGrows
  <2>7. Open' = Open /\ Same /\ Callbacks' = Callbacks
    BY <2>1, <2>3, CallbacksStay DEF Open, Same
  <2> QED  BY <2>2, <2>4, <2>5, <2>6, <2>7, ServiceSteps DEF Service!Next, Workers
<1>6. CASE Done(c)
  <2>1. UNCHANGED <<active, born, host, stopping>> /\ TaskDone(c) /\ pc[c] = "returning"
    BY <1>6 DEF Done, runtimeVars
  <2>2. \A s \in Streams : pc'[s] = pc[s]  BY <1>1, <1>6, Disjoint DEF Done, Leave, Goto, IInv, TypeOK
  <2>3. inst[c] = active /\ active \in Instances /\ <<c, active>> \in Work
    BY <1>1, <2>1, PendingIsWork DEF Pending
  <2>4. <<c, active>> \notin Callbacks  BY <1>1, CallbacksAre
  <2>5. Work' = Work \ {<<c, active>>}  BY <1>1, <2>1, <2>3, WorkShrinks
  <2>6. Open' = Open /\ Same /\ Callbacks' = Callbacks
    BY <2>1, <2>2, CallbacksStay DEF Open, Same
  <2> QED  BY <1>1, <2>3, <2>4, <2>5, <2>6, ServiceSteps DEF Service!Next, Workers
<1>7. CASE OpenSucceeds(c)
  <2>1. UNCHANGED <<active, born, host, stopping, tasks>> /\ pc[c] = "opening"
    BY <1>7 DEF OpenSucceeds, runtimeVars
  <2>2. slot[c] \in Streams /\ slot[c] \in Actors /\ pc[slot[c]] = "opening"
    BY <2>1, Disjoint DEF IInv, RuntimeInv
  <2>3. \A r \in Streams : pc'[r] \in {"emitting", "closing"} <=> pc[r] \in {"emitting", "closing"}
    BY <1>1, <1>7, <2>2, Disjoint DEF OpenSucceeds, IInv, TypeOK
  <2>4. Open' = Open /\ Same /\ Work' = Work /\ Callbacks' = Callbacks
    BY <2>1, <2>3, CallbacksStay DEF Open, Same, Work
  <2> QED  BY <2>4, ServiceSteps
<1>8. CASE OpenFails(c)
  <2>1. UNCHANGED <<active, born, host, stopping>> /\ TaskDone(slot[c]) /\ pc[c] = "opening"
    BY <1>8 DEF OpenFails, runtimeVars
  <2>2. slot[c] \in Streams /\ slot[c] \in Workers /\ slot[c] \in Actors /\ pc[slot[c]] = "opening"
    BY <2>1, Disjoint DEF IInv, RuntimeInv, Workers
  <2>3. \A r \in Streams : pc'[r] \in {"emitting", "closing"} <=> pc[r] \in {"emitting", "closing"}
    BY <1>1, <1>8, <2>2, Disjoint DEF OpenFails, IInv, TypeOK
  <2>4. inst[slot[c]] = active /\ active \in Instances /\ <<slot[c], active>> \in Work
    BY <2>2, PendingIsWork DEF Pending
  <2>5. <<slot[c], active>> \notin Callbacks  BY <2>2, CallbacksAre
  <2>6. Work' = Work \ {<<slot[c], active>>}  BY <2>1, <2>2, <2>4, WorkShrinks
  <2>7. Open' = Open /\ Same /\ Callbacks' = Callbacks
    BY <2>1, <2>3, CallbacksStay DEF Open, Same
  <2> QED  BY <2>2, <2>4, <2>5, <2>6, <2>7, ServiceSteps DEF Service!Next, Workers
<1> QED
  BY <1>2, <1>3, <1>4, <1>5, <1>6, <1>7, <1>8 DEF Caller, CallRefused

(* A stream calls the host for its own instance while it is work in         *)
(* progress, and ends outside of any callback.                              *)
LEMMA StreamServes ==
    ASSUME IInv, NEW s \in Streams, Stream(s)
    PROVE  [Service!Next]_(Service!vars)
<1>1. s \in Workers /\ s \in Actors  BY Disjoint DEF Workers
<1>2. pc[s] # "idle" => inst[s] = active /\ active \in Instances /\ <<s, active>> \in Work
  BY <1>1, PendingIsWork DEF Pending
<1>3. active \in Instances => active # 0  BY DEF Instances
<1>4. host = active /\ pc \in [Actors -> CallerLabels \cup StreamLabels \cup CloserLabels]
  BY DEF IInv, TypeOK, RuntimeInv
<1>5. CASE UNCHANGED streamOnly
  <2> USE DEF EmitChecked, BodyEnds, EmitEnter, EmitReturns, CloseEnter, CloseReturns
  <2>1. UNCHANGED <<active, born, host, stopping, tasks>>  BY <1>5 DEF streamOnly, runtimeVars
  <2>2. Open' = Open /\ Same /\ Work' = Work  BY <2>1 DEF Open, Same, Work
  <2>3. CASE EmitChecked(s) \/ BodyEnds(s)
    <3>1. \A r \in Streams : pc'[r] \in {"emitting", "closing"} <=> pc[r] \in {"emitting", "closing"}
      BY <1>4, <2>3, Disjoint DEF Goto
    <3> QED  BY <2>1, <2>2, <3>1, CallbacksStay, ServiceSteps
  <2>4. CASE EmitEnter(s) \/ CloseEnter(s)
    <3>1. pc[s] \in {"emit", "close"} /\ active # 0  BY <1>2, <1>3, <2>4
    <3>2. pc'[s] \in {"emitting", "closing"} /\ \A r \in Streams : r # s => pc'[r] = pc[r]
      BY <1>1, <1>4, <2>4, <3>1, Disjoint DEF Goto
    <3>3. \A a, h : <<a, h>> \in Callbacks' <=> <<a, h>> \in Callbacks \/ (a = s /\ h = active)
      BY <1>4, <2>1, <3>2 DEF Callbacks
    <3>4. Callbacks' = Callbacks \cup {<<s, active>>}
      BY <3>3, <1>4, <2>1 DEF Callbacks
    <3>5. <<s, active>> \notin Callbacks /\ <<s, active>> \in Work  BY <1>2, <3>1, CallbacksAre
    <3>6. Service!CallHost(s)  BY <2>2, <3>4, <3>5, ServiceSteps
    <3> QED  BY <1>1, <3>6 DEF Service!Next, Workers
  <2>5. CASE EmitReturns(s) \/ CloseReturns(s)
    <3>1. pc[s] \in {"emitting", "closing"}  BY <2>5
    <3>2. pc'[s] \notin {"emitting", "closing"} /\ \A r \in Streams : r # s => pc'[r] = pc[r]
      BY <1>1, <1>4, <2>5, Disjoint DEF Goto
    <3>3. \A a, h : <<a, h>> \in Callbacks' <=> <<a, h>> \in Callbacks /\ ~(a = s /\ h = active)
      BY <1>4, <2>1, <3>2 DEF Callbacks
    <3>4. Callbacks' = Callbacks \ {<<s, active>>}
      BY <3>3, <1>4, <2>1 DEF Callbacks
    <3>5. <<s, active>> \in Callbacks  BY <3>1, CallbacksAre
    <3>6. Service!HostReturns(s)  BY <2>2, <3>4, <3>5, ServiceSteps
    <3> QED  BY <1>1, <3>6 DEF Service!Next, Workers
  <2>6. CASE StreamDone(s)
    <3>1. TaskDone(s) /\ pc[s] = "closed"  BY <2>6 DEF StreamDone
    <3>2. inst[s] = active /\ active \in Instances /\ <<s, active>> \in Work  BY <1>2, <3>1
    <3>3. <<s, active>> \notin Work'  BY <1>1, <3>1, <3>2, WorkShrinks
    <3> QED  BY <2>2, <3>2, <3>3
  <2> QED  BY <2>3, <2>4, <2>5, <2>6 DEF Stream
<1>6. CASE StreamDone(s)
  <2>1. UNCHANGED <<active, born, host, stopping>> /\ TaskDone(s) /\ pc[s] = "closed"
    BY <1>6 DEF StreamDone, runtimeVars
  <2>2. \A r \in Streams : pc'[r] \in {"emitting", "closing"} <=> pc[r] \in {"emitting", "closing"}
    BY <1>1, <1>4, <1>6, <2>1, Disjoint DEF StreamDone, Leave, Goto
  <2>3. inst[s] = active /\ active \in Instances /\ <<s, active>> \in Work  BY <1>2, <2>1
  <2>4. <<s, active>> \notin Callbacks  BY <2>1, CallbacksAre
  <2>5. Work' = Work \ {<<s, active>>}  BY <1>1, <2>1, <2>3, WorkShrinks
  <2>6. Open' = Open /\ Same /\ Callbacks' = Callbacks
    BY <2>1, <2>2, CallbacksStay DEF Open, Same
  <2>7. Service!Finish(s)  BY <2>3, <2>4, <2>5, <2>6, ServiceSteps
  <2> QED  BY <1>1, <2>7 DEF Service!Next, Workers
<1> QED
  BY <1>5, <1>6 DEF Stream, EmitChecked, BodyEnds, EmitEnter, EmitReturns, CloseEnter, CloseReturns

(* A library that was just loaded serves nothing.                           *)
LEMMA InitServes == Init => Service!Init
<1> SUFFICES ASSUME Init PROVE Service!Init  OBVIOUS
<1>1. active = 0 /\ born = 0  BY DEF Init
<1>2. Open = FALSE  BY <1>1 DEF Open
<1>3. Work = {}  BY DEF Init, Work
<1>4. Callbacks = {}
  <2>1. \A s \in Streams : pc[s] \notin {"emitting", "closing"}  BY Disjoint DEF Init
  <2> QED  BY <2>1 DEF Callbacks
<1> QED  BY Zenon, <1>1, <1>2, <1>3, <1>4 DEF Service!Init, Open, Work, Callbacks, Workers

(* Every step of the library is one of the service, or none.                *)
LEMMA StepServes == IInv /\ [Next]_vars => [Service!Next]_(Service!vars)
<1> SUFFICES ASSUME IInv, [Next]_vars PROVE [Service!Next]_(Service!vars)  OBVIOUS
<1>1. CASE UNCHANGED vars
  <2>1. Open' = Open /\ Same /\ Work' = Work /\ Callbacks' = Callbacks
    BY <1>1 DEF Open, Same, Work, Callbacks, vars
  <2> QED  BY <2>1, ServiceSteps
<1>2. CASE Initialize  BY <1>2, InitializeServes DEF Service!Next
<1>3. ASSUME NEW x \in Closers, Closer(x) PROVE [Service!Next]_(Service!vars)  BY <1>3, CloserServes
<1>4. ASSUME NEW c \in Callers, Caller(c) PROVE [Service!Next]_(Service!vars)  BY <1>4, CallerServes
<1>5. ASSUME NEW s \in Streams, Stream(s) PROVE [Service!Next]_(Service!vars)  BY <1>5, StreamServes
<1> QED  BY <1>1, <1>2, <1>3, <1>4, <1>5 DEF Next, InitializeRefused

(* The runtime, with its three locks, its wait group and any number of      *)
(* threads, implements the service.                                         *)
THEOREM ImplementsService == Spec => ServiceSpec
  BY InitServes, StepServes, Invariance, PTL DEF Spec, ServiceSpec, Service!Spec

================================================================================
