-------------------------- MODULE TurnExecutionProofs --------------------------
(***************************************************************************)
(* Turns use the session store as it is meant to be used, and therefore    *)
(* the store's invariants are theirs: for any number of turns and keys,    *)
(* conversations are exclusive, leases come back on every path, streams    *)
(* are closed once, and shutdown leaves nothing behind.                    *)
(*                                                                         *)
(* A step of a turn is a step of the store or leaves it alone (StoreStep), *)
(* and the invariant of the store is taken from SessionStoreProofs.  What  *)
(* remains to be proved of an action is its effect on the turns.           *)
(*                                                                         *)
(* What the world outside sees of a turn (Views) changes in few ways: each *)
(* step is one of TurnService for the turn that moves, or is not seen.     *)
(***************************************************************************)
EXTENDS TurnExecution, TLAPS

StoreProofs == INSTANCE SessionStoreProofs

--------------------------------------------------------------------------------
(* The store                                                                *)

(* The instance that TurnExecution uses and the one the theorems speak of   *)
(* are one store.                                                           *)
LEMMA SameInvariant == Store!IInv <=> StoreProofs!IInv
<1>1. Store!TypeOK <=> StoreProofs!TypeOK
  BY DEF Store!TypeOK, Store!Stored, Store!Entry, Store!Handle, Store!Ids,
         StoreProofs!TypeOK, StoreProofs!Stored, StoreProofs!Entry, StoreProofs!Handle, StoreProofs!Ids
<1>2. Store!LeaseInv <=> StoreProofs!LeaseInv
  BY DEF Store!LeaseInv, Store!Stored, Store!Holds,
         StoreProofs!LeaseInv, StoreProofs!Stored, StoreProofs!Holds
<1>3. Store!RecencyOrder <=> StoreProofs!RecencyOrder
  BY DEF Store!RecencyOrder, Store!Stored, StoreProofs!RecencyOrder, StoreProofs!Stored
<1>4. Store!CapacityBound <=> StoreProofs!CapacityBound
  BY DEF Store!CapacityBound, Store!Stored, Store!Cardinality, Store!IsFiniteSet,
         StoreProofs!CapacityBound, StoreProofs!Stored, StoreProofs!Cardinality, StoreProofs!IsFiniteSet
<1>5. Store!IdsMinted <=> StoreProofs!IdsMinted
  BY DEF Store!IdsMinted, Store!Stored, StoreProofs!IdsMinted, StoreProofs!Stored
<1> QED
  BY <1>1, <1>2, <1>3, <1>4, <1>5 DEF Store!IInv, StoreProofs!IInv

(* So are their initial states and steps.                                   *)
LEMMA SameInit == Store!Init <=> StoreProofs!Init
  BY DEF Store!Init, StoreProofs!Init

(* The two instances of the store's module have the same actions,           *)
LEMMA SameAcquire == \A t \in Turns, k \in Keys : Store!Acquire(t, k) <=> StoreProofs!Acquire(t, k)
  BY DEF Store!Acquire, Store!AcquireBusy, Store!AcquireKnown, Store!AcquireNew, Store!AcquireEvict,
         Store!AcquireSaturated, Store!Refuse, Store!Lease, Store!LeaseNew, Store!Swept, Store!Stored,
         Store!Expired, Store!ListOf, Store!WithFront, Store!IsVictim, Store!Holds,
         Store!Cardinality, Store!IsFiniteSet,
         StoreProofs!Acquire, StoreProofs!AcquireBusy, StoreProofs!AcquireKnown, StoreProofs!AcquireNew,
         StoreProofs!AcquireEvict, StoreProofs!AcquireSaturated, StoreProofs!Refuse, StoreProofs!Lease,
         StoreProofs!LeaseNew, StoreProofs!Swept, StoreProofs!Stored, StoreProofs!Expired,
         StoreProofs!ListOf, StoreProofs!WithFront, StoreProofs!IsVictim, StoreProofs!Holds,
         StoreProofs!Cardinality, StoreProofs!IsFiniteSet

(* the same steps,                                                          *)
LEMMA SameNext == [Store!Next]_(Store!vars) <=> [StoreProofs!Next]_(StoreProofs!vars)
<1>1. \A t \in Turns : Store!Release(t) <=> StoreProofs!Release(t)
  BY DEF Store!Release, Store!Unlease, Store!WithFront, Store!ListOf, Store!Stored, Store!Holds,
         StoreProofs!Release, StoreProofs!Unlease, StoreProofs!WithFront, StoreProofs!ListOf,
         StoreProofs!Stored, StoreProofs!Holds
<1>2. \A t \in Turns : Store!ReleaseAgain(t) <=> StoreProofs!ReleaseAgain(t)
  BY DEF Store!ReleaseAgain, Store!vars, StoreProofs!ReleaseAgain, StoreProofs!vars
<1>3. Store!Tick <=> StoreProofs!Tick  BY DEF Store!Tick, StoreProofs!Tick
<1> QED
  BY <1>1, <1>2, <1>3, SameAcquire DEF Store!Next, Store!vars, StoreProofs!Next, StoreProofs!vars

(* What SessionStoreProofs proves of the store holds here.                  *)
LEMMA StoreInit == Store!Init => Store!IInv
<1>1. StoreProofs!IsFiniteSet(Keys)
  BY StoreAssumption DEF IsFiniteSet, StoreProofs!IsFiniteSet
<1> QED  BY <1>1, StoreAssumption, StoreProofs!InitIInv, SameInit, SameInvariant

(* and so the same preservation of the store's invariant.                   *)
LEMMA StoreNext == Store!IInv /\ [Store!Next]_(Store!vars) => Store!IInv'
<1>1. StoreProofs!IsFiniteSet(Keys)
  BY StoreAssumption DEF IsFiniteSet, StoreProofs!IsFiniteSet
<1>2. StoreProofs!IInv /\ [StoreProofs!Next]_(StoreProofs!vars) => StoreProofs!IInv'
  BY <1>1, StoreAssumption, StoreProofs!NextPreserves
<1>3. Store!IInv' <=> StoreProofs!IInv'  BY SameInvariant, PTL
<1> QED  BY <1>2, <1>3, SameInvariant, SameNext
--------------------------------------------------------------------------------
(* Turns                                                                    *)

TurnsInv == TypeOK /\ NoLeaseLeaks /\ StreamProtocol /\ TurnInv

(* The handles of the store's invariant, in the terms of this module.       *)
LEMMA HandleType == Store!IInv => handle \in [Turns -> Store!Handle \cup {NoHandle}]
  BY DEF Store!IInv, Store!TypeOK

(* acquire concerns one turn: it leaves it as it was, or with a lease of    *)
(* the key it asked for.                                                    *)
LEMMA AcquireEffect ==
    ASSUME Store!IInv, NEW t \in Turns, NEW k \in Keys, Store!Acquire(t, k)
    PROVE  /\ ~Store!Holds(t)
           /\ \A u \in Turns \ {t} : handle'[u] = handle[u]
           /\ Store!Holds(t)' => /\ handle'[t].key = k
                                /\ handle'[t].id \in 1 .. MaxIds
<1>1. ~Store!Holds(t)
  BY DEF Store!Acquire, Store!AcquireBusy, Store!AcquireKnown, Store!AcquireNew,
         Store!AcquireEvict, Store!AcquireSaturated
<1>2. \/ handle' = handle
      \/ \E id \in 1 .. MaxIds :
            handle' = [handle EXCEPT ![t] = [key |-> k, id |-> id, live |-> TRUE]]
  <2>1. CASE Store!AcquireBusy(t, k) \/ Store!AcquireSaturated(t, k)
    BY <2>1 DEF Store!AcquireBusy, Store!AcquireSaturated, Store!Refuse
  <2>2. CASE Store!AcquireKnown(t, k)
    <3>1. entries[k].id \in 1 .. MaxIds
      BY <2>2 DEF Store!AcquireKnown, Store!Swept, Store!Stored, Store!IInv, Store!TypeOK,
                  Store!Entry, Store!Ids
    <3> QED  BY <2>2, <3>1 DEF Store!AcquireKnown, Store!Lease
  <2>3. CASE Store!AcquireNew(t, k) \/ Store!AcquireEvict(t, k)
    <3>0. minted < MaxIds
      BY <2>3 DEF Store!AcquireNew, Store!AcquireEvict, Store!LeaseNew
    <3>1. minted + 1 \in 1 .. MaxIds
      <4>1. minted \in 0 .. MaxIds  BY DEF Store!IInv, Store!TypeOK
      <4> QED  BY <3>0, <4>1, StoreAssumption
    <3>2. handle' = [handle EXCEPT ![t] = [key |-> k, id |-> minted + 1, live |-> TRUE]]
      BY <2>3 DEF Store!AcquireNew, Store!AcquireEvict, Store!LeaseNew, Store!Lease
    <3> QED  BY <3>1, <3>2
  <2> QED  BY <2>1, <2>2, <2>3 DEF Store!Acquire
<1>3. CASE handle' = handle  BY <1>1, <1>3 DEF Store!Holds
<1>4. ASSUME NEW id \in 1 .. MaxIds,
             handle' = [handle EXCEPT ![t] = [key |-> k, id |-> id, live |-> TRUE]]
      PROVE  /\ \A u \in Turns \ {t} : handle'[u] = handle[u]
             /\ handle'[t].key = k /\ handle'[t].id \in 1 .. MaxIds
  BY <1>4, HandleType
<1> QED  BY <1>1, <1>2, <1>3, <1>4

(* The deferred release concerns one turn, and leaves it without a lease.   *)
LEMMA ReleaseEffect ==
    ASSUME Store!IInv, NEW t \in Turns, Release(t)
    PROVE  /\ ~Store!Holds(t)'
           /\ \A u \in Turns \ {t} : handle'[u] = handle[u]
<1>1. CASE Store!Holds(t)
  <2>1. handle' = [handle EXCEPT ![t].live = FALSE]  BY <1>1 DEF Release, Store!Release
  <2>2. handle[t] \in Store!Handle  BY <1>1, HandleType DEF Store!Holds
  <2> QED  BY <2>1, <2>2, HandleType DEF Store!Holds, Store!Handle
<1>2. CASE ~Store!Holds(t)  BY <1>2 DEF Release, Store!Holds, storeVars
<1> QED  BY <1>1, <1>2

(* Every step of the turns is a step of the store, or leaves it alone.      *)
LEMMA StoreStep == TypeOK /\ [Next]_vars => [Store!Next]_(Store!vars)
<1> SUFFICES ASSUME TypeOK, [Next]_vars PROVE [Store!Next]_(Store!vars)  OBVIOUS
<1>1. UNCHANGED storeVars => UNCHANGED Store!vars  BY DEF storeVars, Store!vars
<1>2. ASSUME NEW t \in Turns, Release(t) PROVE [Store!Next]_(Store!vars)
  BY <1>1, <1>2 DEF Release, Store!Next
<1>3. ASSUME NEW t \in Turns, PrepareKeyed(t) PROVE [Store!Next]_(Store!vars)
  <2>1. key[t] \in Keys  BY <1>3 DEF PrepareKeyed, TypeOK
  <2> QED  BY <1>3, <2>1 DEF PrepareKeyed, Store!Next
<1>4. ASSUME NEW t \in Turns, Rpc(t) PROVE [Store!Next]_(Store!vars)
  BY <1>1, <1>2, <1>3, <1>4
     DEF Rpc, Arrive, PrepareRejects, PrepareStateless, BuildFails, CallBuffered, CallEnds,
         BeginRelay, BeginRelayRefused, OpenFails, OpenSucceeds, Deferred, Reply
<1>5. ASSUME NEW t \in Turns, Goroutine(t) PROVE [Store!Next]_(Store!vars)
  BY <1>1, <1>2, <1>5
     DEF Goroutine, EmitChecked, EmitEnter, EmitReturns, BodyEnds, Close, CloseReturns,
         RelayReleases, RelayDone
<1> QED
  BY <1>1, <1>4, <1>5 DEF Next, Expire, Stop, Drained, Down, Tick, Store!Next, vars
--------------------------------------------------------------------------------
(* The invariant of the turns, turn by turn                                 *)

Types == /\ pc \in [Turns -> PcLabels] /\ relay \in [Turns -> RelayLabels]
         /\ key \in [Turns -> Keys \cup {NoKey}]
         /\ sid \in [Turns -> 1 .. MaxIds \cup Turns]
         /\ expired \subseteq Turns /\ accepted \subseteq Turns
         /\ closes \in [Turns -> Nat]
         /\ tasks \subseteq Turns \X {"rpc", "relay"}
         /\ phase \in {"up", "stopping", "down"}

(* What is true of one turn, as regards its tasks, its stream and its lease.*)
TasksOf(t)  == /\ <<t, "rpc">> \in tasks <=> pc[t] # "idle"
               /\ <<t, "relay">> \in tasks <=> pc[t] = "opening" \/ relay[t] # "none"
StreamOf(t) == /\ closes[t] = IF t \in accepted /\ relay[t] \in {"closing", "closed", "released", "none"}
                              THEN 1 ELSE 0
               /\ relay[t] # "none" => t \in accepted
               /\ pc[t] \notin {"idle", "replying"} => relay[t] = "none" /\ t \notin accepted
LeaseOf(t)  == /\ Store!Holds(t) => Engaged(t)
               /\ Store!Holds(t) => key[t] # NoKey /\ handle[t].key = key[t] /\ handle[t].id = sid[t]
               /\ Engaged(t) => IF key[t] = NoKey THEN sid[t] = t ELSE Store!Holds(t)

(* The invariant says this of every turn, and no more than that.            *)
LEMMA TurnByTurn ==
    TurnsInv <=> /\ Types
                 /\ \A t \in Turns : TasksOf(t) /\ StreamOf(t) /\ LeaseOf(t)
                 /\ phase = "down" => tasks = {}
  BY DEF TurnsInv, TypeOK, NoLeaseLeaks, StreamProtocol, TurnInv, Types, TasksOf, StreamOf, LeaseOf

(* Only turn t moves.                                                       *)
Only(t) == \A u \in Turns \ {t} :
    /\ pc'[u] = pc[u] /\ relay'[u] = relay[u]
    /\ key'[u] = key[u] /\ sid'[u] = sid[u] /\ handle'[u] = handle[u]
    /\ closes'[u] = closes[u] /\ (u \in accepted' <=> u \in accepted)
    /\ \A h \in {"rpc", "relay"} : <<u, h>> \in tasks' <=> <<u, h>> \in tasks

(* A step of one turn need only be right for that turn; an instance that is *)
(* down has no turn at work.                                                *)
LEMMA OneTurn ==
    ASSUME TurnsInv, NEW t \in Turns,
           pc[t] # "idle" \/ relay[t] # "none" \/ phase = "up",
           phase' = phase, Only(t), Types',
           TasksOf(t)', StreamOf(t)', LeaseOf(t)'
    PROVE  TurnsInv'
<1>1. ASSUME NEW u \in Turns \ {t}
      PROVE  TasksOf(u)' /\ StreamOf(u)' /\ LeaseOf(u)'
  <2>1. TasksOf(u) /\ StreamOf(u) /\ LeaseOf(u)  BY TurnByTurn
  <2>2. TasksOf(u)'   BY <2>1 DEF TasksOf, Only
  <2>3. StreamOf(u)'  BY <2>1 DEF StreamOf, Only
  <2>4. LeaseOf(u)'   BY <2>1 DEF LeaseOf, Only, Engaged, Store!Holds
  <2> QED  BY <2>2, <2>3, <2>4
<1>2. phase # "down"
  <2>1. phase = "down" => tasks = {}  BY TurnByTurn
  <2>2. TasksOf(t)  BY TurnByTurn
  <2> QED  BY <2>1, <2>2 DEF TasksOf
<1>3. Types' /\ \A u \in Turns : TasksOf(u)' /\ StreamOf(u)' /\ LeaseOf(u)'
  BY <1>1
<1> QED  BY <1>2, <1>3 DEF TurnsInv, TypeOK, NoLeaseLeaks, StreamProtocol, TurnInv,
                           Types, TasksOf, StreamOf, LeaseOf
--------------------------------------------------------------------------------
(* Steps of one turn                                                        *)

(* The RPC takes the lease when it has prepared, keeps it during the call,  *)
(* and returns it before it replies, unless a relay has taken it over.      *)
LEMMA RpcStep ==
    ASSUME Store!IInv, TurnsInv, NEW t \in Turns, Rpc(t)
    PROVE  TurnsInv'
<1>0. Types /\ TasksOf(t) /\ StreamOf(t) /\ LeaseOf(t)  BY TurnByTurn
<1>1. ASSUME NEW k \in Keys \cup {NoKey}, Arrive(t, k) PROVE TurnsInv'
  <2> USE <1>1 DEF Arrive, Goto
  <2>2. phase' = phase /\ Only(t)  BY <1>0 DEF Types, Only, storeVars
  <2>3. Types'       BY <1>0 DEF Types, PcLabels, RelayLabels
  <2>4. TasksOf(t)'  BY <1>0 DEF Types, TasksOf, StreamOf
  <2>5. StreamOf(t)' BY <1>0 DEF Types, StreamOf
  <2>6. LeaseOf(t)'  BY <1>0 DEF Types, LeaseOf, StreamOf, Engaged, Store!Holds, storeVars
  <2> QED  BY <2>2, <2>3, <2>4, <2>5, <2>6, OneTurn
<1>2. ASSUME PrepareRejects(t) PROVE TurnsInv'
  <2> USE <1>2 DEF PrepareRejects, Goto
  <2>2. phase' = phase /\ Only(t)  BY <1>0 DEF Types, Only, storeVars
  <2>3. Types'       BY <1>0 DEF Types, PcLabels, RelayLabels
  <2>4. TasksOf(t)'  BY <1>0 DEF Types, TasksOf, StreamOf
  <2>5. StreamOf(t)' BY <1>0 DEF Types, StreamOf
  <2>6. LeaseOf(t)'  BY <1>0 DEF Types, LeaseOf, StreamOf, Engaged, Store!Holds, storeVars
  <2> QED  BY <2>2, <2>3, <2>4, <2>5, <2>6, OneTurn
<1>3. ASSUME PrepareStateless(t) PROVE TurnsInv'
  <2> USE <1>3 DEF PrepareStateless, Goto
  <2>2. phase' = phase /\ Only(t)  BY <1>0 DEF Types, Only, storeVars
  <2>3. Types'       BY <1>0 DEF Types, PcLabels, RelayLabels
  <2>4. TasksOf(t)'  BY <1>0 DEF Types, TasksOf, StreamOf
  <2>5. StreamOf(t)' BY <1>0 DEF Types, StreamOf
  <2>6. LeaseOf(t)'  BY <1>0 DEF Types, LeaseOf, StreamOf, Engaged, Store!Holds, storeVars
  <2> QED  BY <2>2, <2>3, <2>4, <2>5, <2>6, OneTurn
<1>4. ASSUME PrepareKeyed(t) PROVE TurnsInv'
  <2> USE <1>4 DEF PrepareKeyed, Goto
  <2>1. /\ ~Store!Holds(t) /\ \A u \in Turns \ {t} : handle'[u] = handle[u]
        /\ Store!Holds(t)' => handle'[t].key = key[t] /\ handle'[t].id \in 1 .. MaxIds
    <3>1. key[t] \in Keys  BY <1>0 DEF Types
    <3> QED  BY <3>1, AcquireEffect
  <2>2. phase' = phase /\ Only(t)  BY <1>0, <2>1 DEF Types, Only, storeVars
  <2>3. Types'       BY <1>0, <2>1 DEF Types, PcLabels, RelayLabels
  <2>4. TasksOf(t)'  BY <1>0 DEF Types, TasksOf, StreamOf
  <2>5. StreamOf(t)' BY <1>0 DEF Types, StreamOf
  <2>6. LeaseOf(t)'  BY <1>0, <2>1 DEF Types, LeaseOf, StreamOf, Engaged, Store!Holds, storeVars
  <2> QED  BY <2>2, <2>3, <2>4, <2>5, <2>6, OneTurn
<1>5. ASSUME BuildFails(t) PROVE TurnsInv'
  <2> USE <1>5 DEF BuildFails, Goto
  <2>1. ~Store!Holds(t)' /\ \A u \in Turns \ {t} : handle'[u] = handle[u]
    BY ReleaseEffect
  <2>2. phase' = phase /\ Only(t)  BY <1>0, <2>1 DEF Types, Only, storeVars
  <2>3. Types'       BY <1>0, <2>1 DEF Types, PcLabels, RelayLabels
  <2>4. TasksOf(t)'  BY <1>0 DEF Types, TasksOf, StreamOf
  <2>5. StreamOf(t)' BY <1>0 DEF Types, StreamOf
  <2>6. LeaseOf(t)'  BY <1>0, <2>1 DEF Types, LeaseOf, StreamOf, Engaged, Store!Holds, storeVars
  <2> QED  BY <2>2, <2>3, <2>4, <2>5, <2>6, OneTurn
<1>6. ASSUME CallBuffered(t) PROVE TurnsInv'
  <2> USE <1>6 DEF CallBuffered, Goto
  <2>2. phase' = phase /\ Only(t)  BY <1>0 DEF Types, Only, storeVars
  <2>3. Types'       BY <1>0 DEF Types, PcLabels, RelayLabels
  <2>4. TasksOf(t)'  BY <1>0 DEF Types, TasksOf, StreamOf
  <2>5. StreamOf(t)' BY <1>0 DEF Types, StreamOf
  <2>6. LeaseOf(t)'  BY <1>0 DEF Types, LeaseOf, StreamOf, Engaged, Store!Holds, storeVars
  <2> QED  BY <2>2, <2>3, <2>4, <2>5, <2>6, OneTurn
<1>7. ASSUME CallEnds(t) PROVE TurnsInv'
  <2> USE <1>7 DEF CallEnds, Goto
  <2>2. phase' = phase /\ Only(t)  BY <1>0 DEF Types, Only, storeVars
  <2>3. Types'       BY <1>0 DEF Types, PcLabels, RelayLabels
  <2>4. TasksOf(t)'  BY <1>0 DEF Types, TasksOf, StreamOf
  <2>5. StreamOf(t)' BY <1>0 DEF Types, StreamOf
  <2>6. LeaseOf(t)'  BY <1>0 DEF Types, LeaseOf, StreamOf, Engaged, Store!Holds, storeVars
  <2> QED  BY <2>2, <2>3, <2>4, <2>5, <2>6, OneTurn
<1>8. ASSUME BeginRelay(t) PROVE TurnsInv'
  <2> USE <1>8 DEF BeginRelay, Goto
  <2>2. phase' = phase /\ Only(t)  BY <1>0 DEF Types, Only, storeVars
  <2>3. Types'       BY <1>0 DEF Types, PcLabels, RelayLabels
  <2>4. TasksOf(t)'  BY <1>0 DEF Types, TasksOf, StreamOf
  <2>5. StreamOf(t)' BY <1>0 DEF Types, StreamOf
  <2>6. LeaseOf(t)'  BY <1>0 DEF Types, LeaseOf, StreamOf, Engaged, Store!Holds, storeVars
  <2> QED  BY <2>2, <2>3, <2>4, <2>5, <2>6, OneTurn
<1>9. ASSUME BeginRelayRefused(t) PROVE TurnsInv'
  <2> USE <1>9 DEF BeginRelayRefused, Goto
  <2>2. phase' = phase /\ Only(t)  BY <1>0 DEF Types, Only, storeVars
  <2>3. Types'       BY <1>0 DEF Types, PcLabels, RelayLabels
  <2>4. TasksOf(t)'  BY <1>0 DEF Types, TasksOf, StreamOf
  <2>5. StreamOf(t)' BY <1>0 DEF Types, StreamOf
  <2>6. LeaseOf(t)'  BY <1>0 DEF Types, LeaseOf, StreamOf, Engaged, Store!Holds, storeVars
  <2> QED  BY <2>2, <2>3, <2>4, <2>5, <2>6, OneTurn
<1>10. ASSUME OpenFails(t) PROVE TurnsInv'
  <2> USE <1>10 DEF OpenFails, Goto
  <2>2. phase' = phase /\ Only(t)  BY <1>0 DEF Types, Only, storeVars
  <2>3. Types'       BY <1>0 DEF Types, PcLabels, RelayLabels
  <2>4. TasksOf(t)'  BY <1>0 DEF Types, TasksOf, StreamOf
  <2>5. StreamOf(t)' BY <1>0 DEF Types, StreamOf
  <2>6. LeaseOf(t)'  BY <1>0 DEF Types, LeaseOf, StreamOf, Engaged, Store!Holds, storeVars
  <2> QED  BY <2>2, <2>3, <2>4, <2>5, <2>6, OneTurn
<1>11. ASSUME OpenSucceeds(t) PROVE TurnsInv'
  <2> USE <1>11 DEF OpenSucceeds, Goto, Relay
  <2>2. phase' = phase /\ Only(t)  BY <1>0 DEF Types, Only, storeVars
  <2>3. Types'       BY <1>0 DEF Types, PcLabels, RelayLabels
  <2>4. TasksOf(t)'  BY <1>0 DEF Types, TasksOf, StreamOf
  <2>5. StreamOf(t)' BY <1>0 DEF Types, StreamOf
  <2>6. LeaseOf(t)'  BY <1>0 DEF Types, LeaseOf, StreamOf, Engaged, Store!Holds, storeVars
  <2> QED  BY <2>2, <2>3, <2>4, <2>5, <2>6, OneTurn
<1>12. ASSUME Deferred(t) PROVE TurnsInv'
  <2> USE <1>12 DEF Deferred, Goto
  <2>1. ~Store!Holds(t)' /\ \A u \in Turns \ {t} : handle'[u] = handle[u]
    BY ReleaseEffect
  <2>2. phase' = phase /\ Only(t)  BY <1>0, <2>1 DEF Types, Only, storeVars
  <2>3. Types'       BY <1>0, <2>1 DEF Types, PcLabels, RelayLabels
  <2>4. TasksOf(t)'  BY <1>0 DEF Types, TasksOf, StreamOf
  <2>5. StreamOf(t)' BY <1>0 DEF Types, StreamOf
  <2>6. LeaseOf(t)'  BY <1>0, <2>1 DEF Types, LeaseOf, StreamOf, Engaged, Store!Holds, storeVars
  <2> QED  BY <2>2, <2>3, <2>4, <2>5, <2>6, OneTurn
<1>13. ASSUME Reply(t) PROVE TurnsInv'
  <2> USE <1>13 DEF Reply, Goto
  <2>2. phase' = phase /\ Only(t)  BY <1>0 DEF Types, Only, storeVars
  <2>3. Types'       BY <1>0 DEF Types, PcLabels, RelayLabels
  <2>4. TasksOf(t)'  BY <1>0 DEF Types, TasksOf, StreamOf
  <2>5. StreamOf(t)' BY <1>0 DEF Types, StreamOf
  <2>6. LeaseOf(t)'  BY <1>0 DEF Types, LeaseOf, StreamOf, Engaged, Store!Holds, storeVars
  <2> QED  BY <2>2, <2>3, <2>4, <2>5, <2>6, OneTurn
<1> QED
  BY <1>1, <1>2, <1>3, <1>4, <1>5, <1>6, <1>7, <1>8, <1>9, <1>10, <1>11, <1>12, <1>13 DEF Rpc

(* The goroutine keeps the lease while it reads and writes, closes the      *)
(* stream once, and returns the lease before it is done.                    *)
LEMMA GoroutineStep ==
    ASSUME Store!IInv, TurnsInv, NEW t \in Turns, Goroutine(t)
    PROVE  TurnsInv'
<1>0. Types /\ TasksOf(t) /\ StreamOf(t) /\ LeaseOf(t)  BY TurnByTurn
<1>1. ASSUME EmitChecked(t) PROVE TurnsInv'
  <2> USE <1>1 DEF EmitChecked, Relay
  <2>2. phase' = phase /\ Only(t)  BY <1>0 DEF Types, Only, storeVars
  <2>3. Types'       BY <1>0 DEF Types, PcLabels, RelayLabels
  <2>4. TasksOf(t)'  BY <1>0 DEF Types, TasksOf, StreamOf
  <2>5. StreamOf(t)' BY <1>0 DEF Types, StreamOf
  <2>6. LeaseOf(t)'  BY <1>0 DEF Types, LeaseOf, StreamOf, Engaged, Store!Holds, storeVars
  <2> QED  BY <2>2, <2>3, <2>4, <2>5, <2>6, OneTurn
<1>2. ASSUME EmitEnter(t) PROVE TurnsInv'
  <2> USE <1>2 DEF EmitEnter, Relay
  <2>2. phase' = phase /\ Only(t)  BY <1>0 DEF Types, Only, storeVars
  <2>3. Types'       BY <1>0 DEF Types, PcLabels, RelayLabels
  <2>4. TasksOf(t)'  BY <1>0 DEF Types, TasksOf, StreamOf
  <2>5. StreamOf(t)' BY <1>0 DEF Types, StreamOf
  <2>6. LeaseOf(t)'  BY <1>0 DEF Types, LeaseOf, StreamOf, Engaged, Store!Holds, storeVars
  <2> QED  BY <2>2, <2>3, <2>4, <2>5, <2>6, OneTurn
<1>3. ASSUME EmitReturns(t) PROVE TurnsInv'
  <2> USE <1>3 DEF EmitReturns, Relay
  <2>2. phase' = phase /\ Only(t)  BY <1>0 DEF Types, Only, storeVars
  <2>3. Types'       BY <1>0 DEF Types, PcLabels, RelayLabels
  <2>4. TasksOf(t)'  BY <1>0 DEF Types, TasksOf, StreamOf
  <2>5. StreamOf(t)' BY <1>0 DEF Types, StreamOf
  <2>6. LeaseOf(t)'  BY <1>0 DEF Types, LeaseOf, StreamOf, Engaged, Store!Holds, storeVars
  <2> QED  BY <2>2, <2>3, <2>4, <2>5, <2>6, OneTurn
<1>4. ASSUME BodyEnds(t) PROVE TurnsInv'
  <2> USE <1>4 DEF BodyEnds, Relay
  <2>2. phase' = phase /\ Only(t)  BY <1>0 DEF Types, Only, storeVars
  <2>3. Types'       BY <1>0 DEF Types, PcLabels, RelayLabels
  <2>4. TasksOf(t)'  BY <1>0 DEF Types, TasksOf, StreamOf
  <2>5. StreamOf(t)' BY <1>0 DEF Types, StreamOf
  <2>6. LeaseOf(t)'  BY <1>0 DEF Types, LeaseOf, StreamOf, Engaged, Store!Holds, storeVars
  <2> QED  BY <2>2, <2>3, <2>4, <2>5, <2>6, OneTurn
<1>5. ASSUME Close(t) PROVE TurnsInv'
  <2> USE <1>5 DEF Close, Relay
  <2>2. phase' = phase /\ Only(t)  BY <1>0 DEF Types, Only, storeVars
  <2>3. Types'       BY <1>0 DEF Types, PcLabels, RelayLabels
  <2>4. TasksOf(t)'  BY <1>0 DEF Types, TasksOf, StreamOf
  <2>5. StreamOf(t)' BY <1>0 DEF Types, StreamOf
  <2>6. LeaseOf(t)'  BY <1>0 DEF Types, LeaseOf, StreamOf, Engaged, Store!Holds, storeVars
  <2> QED  BY <2>2, <2>3, <2>4, <2>5, <2>6, OneTurn
<1>6. ASSUME CloseReturns(t) PROVE TurnsInv'
  <2> USE <1>6 DEF CloseReturns, Relay
  <2>2. phase' = phase /\ Only(t)  BY <1>0 DEF Types, Only, storeVars
  <2>3. Types'       BY <1>0 DEF Types, PcLabels, RelayLabels
  <2>4. TasksOf(t)'  BY <1>0 DEF Types, TasksOf, StreamOf
  <2>5. StreamOf(t)' BY <1>0 DEF Types, StreamOf
  <2>6. LeaseOf(t)'  BY <1>0 DEF Types, LeaseOf, StreamOf, Engaged, Store!Holds, storeVars
  <2> QED  BY <2>2, <2>3, <2>4, <2>5, <2>6, OneTurn
<1>7. ASSUME RelayReleases(t) PROVE TurnsInv'
  <2> USE <1>7 DEF RelayReleases, Relay
  <2>1. ~Store!Holds(t)' /\ \A u \in Turns \ {t} : handle'[u] = handle[u]
    BY ReleaseEffect
  <2>2. phase' = phase /\ Only(t)  BY <1>0, <2>1 DEF Types, Only, storeVars
  <2>3. Types'       BY <1>0, <2>1 DEF Types, PcLabels, RelayLabels
  <2>4. TasksOf(t)'  BY <1>0 DEF Types, TasksOf, StreamOf
  <2>5. StreamOf(t)' BY <1>0 DEF Types, StreamOf
  <2>6. LeaseOf(t)'  BY <1>0, <2>1 DEF Types, LeaseOf, StreamOf, Engaged, Store!Holds, storeVars
  <2> QED  BY <2>2, <2>3, <2>4, <2>5, <2>6, OneTurn
<1>8. ASSUME RelayDone(t) PROVE TurnsInv'
  <2> USE <1>8 DEF RelayDone, Relay
  <2>2. phase' = phase /\ Only(t)  BY <1>0 DEF Types, Only, storeVars
  <2>3. Types'       BY <1>0 DEF Types, PcLabels, RelayLabels
  <2>4. TasksOf(t)'  BY <1>0 DEF Types, TasksOf, StreamOf
  <2>5. StreamOf(t)' BY <1>0 DEF Types, StreamOf
  <2>6. LeaseOf(t)'  BY <1>0 DEF Types, LeaseOf, StreamOf, Engaged, Store!Holds, storeVars
  <2> QED  BY <2>2, <2>3, <2>4, <2>5, <2>6, OneTurn
<1> QED
  BY <1>1, <1>2, <1>3, <1>4, <1>5, <1>6, <1>7, <1>8 DEF Goroutine

(* Every step preserves the invariant of the turns.                         *)
LEMMA TurnsNext == Store!IInv /\ TurnsInv /\ [Next]_vars => TurnsInv'
<1> SUFFICES ASSUME Store!IInv, TurnsInv, [Next]_vars PROVE TurnsInv'  OBVIOUS
<1> USE DEF TurnsInv, TypeOK, NoLeaseLeaks, StreamProtocol, TurnInv, Engaged
<1>1. ASSUME NEW t \in Turns, Rpc(t) \/ Goroutine(t) PROVE TurnsInv'
  BY <1>1, RpcStep, GoroutineStep
<1>2. ASSUME NEW t \in Turns, Expire(t) PROVE TurnsInv'
  BY <1>2 DEF Expire, Store!Holds, storeVars
<1>3. ASSUME Stop PROVE TurnsInv'
  BY <1>3 DEF Stop, Store!Holds, storeVars, turnVars
<1>4. ASSUME Drained PROVE TurnsInv'
  BY <1>4 DEF Drained, Store!Holds, storeVars, turnVars
<1>5. ASSUME Tick PROVE TurnsInv'
  BY <1>5 DEF Tick, Store!Tick, Store!Holds, turnVars
<1>6. ASSUME UNCHANGED vars PROVE TurnsInv'
  BY <1>6 DEF Store!Holds, vars, storeVars, turnVars
<1> QED  BY <1>1, <1>2, <1>3, <1>4, <1>5, <1>6 DEF Next, Down
--------------------------------------------------------------------------------
(* Theorems                                                                *)

(* Every step preserves both.                                               *)
LEMMA NextPreserves == IInv /\ [Next]_vars => IInv'
<1>1. IInv <=> Store!IInv /\ TurnsInv  BY DEF IInv, TurnsInv
<1>2. IInv' <=> Store!IInv' /\ TurnsInv'  BY <1>1, PTL
<1>3. TurnsInv => TypeOK  BY DEF TurnsInv
<1> QED  BY <1>1, <1>2, <1>3, StoreNext, StoreStep, TurnsNext

(* The store's invariant and the turns' hold together in every state.       *)
THEOREM Invariance == Spec => []IInv
<1>1. Init => IInv
  <2> SUFFICES ASSUME Init PROVE IInv  OBVIOUS
  <2>1. Store!IInv  BY StoreInit DEF Init
  <2>2. TurnsInv
    BY DEF TurnsInv, Init, Store!Init, TypeOK, NoLeaseLeaks, StreamProtocol, TurnInv, PcLabels,
           RelayLabels, Engaged, Store!Holds
  <2> QED  BY <2>1, <2>2 DEF IInv, TurnsInv
<1> QED  BY <1>1, NextPreserves, PTL DEF Spec

(* Turns use the store only as the store allows: every behaviour of the     *)
(* composition is one of the session store, to which SessionStoreProofs     *)
(* therefore applies as it stands.                                          *)
THEOREM UsesTheStore == Spec => Store!Spec
<1>1. Init => Store!Init  BY DEF Init
<1>2. IInv /\ [Next]_vars => [Store!Next]_(Store!vars)  BY StoreStep DEF IInv
<1> QED  BY <1>1, <1>2, Invariance, PTL DEF Spec, Store!Spec

(* So they implement the abstract lease as well: on all its paths, all that *)
(* a turn does to a conversation is to lease it and to release it.          *)
THEOREM LeasesConversations == Spec => StoreProofs!LeaseSpec
<1>1. StoreProofs!IsFiniteSet(Keys)
  BY StoreAssumption DEF IsFiniteSet, StoreProofs!IsFiniteSet
<1>2. StoreProofs!Spec => StoreProofs!LeaseSpec  BY <1>1, StoreAssumption, StoreProofs!Refinement
<1>3. Store!Spec => StoreProofs!Spec
  BY SameInit, SameNext, PTL DEF Store!Spec, StoreProofs!Spec
<1> QED  BY <1>2, <1>3, UsesTheStore, PTL

(* The types, and the tasks the plugin counts are exactly the halves of     *)
(* turns at work: nothing is counted twice, and nothing runs uncounted.     *)
THEOREM TypeCorrect == Spec => []TypeOK
<1>1. IInv => TypeOK  BY DEF IInv
<1> QED  BY <1>1, Invariance, PTL

(* On every path through execute and execute_stream a lease has been        *)
(* returned, or handed to a goroutine that returns it, before the reply.    *)
THEOREM LeasesComeBack == Spec => []NoLeaseLeaks
<1>1. IInv => NoLeaseLeaks  BY DEF IInv
<1> QED  BY <1>1, Invariance, PTL

(* An accepted stream is closed exactly once and not written to afterwards; *)
(* one that was not accepted is left to the host.                           *)
THEOREM StreamsFollowProtocol == Spec => []StreamProtocol
<1>1. IInv => StreamProtocol  BY DEF IInv
<1> QED  BY <1>1, Invariance, PTL

(* A lease is exclusive in the store, and a turn without a key has a        *)
(* conversation of its own name.                                            *)
LEMMA ExclusiveInv == IInv => ConversationExclusive
<1> SUFFICES ASSUME IInv PROVE ConversationExclusive  OBVIOUS
<1>1. ASSUME NEW t \in Turns, Connected(t)
      PROVE  Engaged(t)
  BY <1>1 DEF Connected, Engaged
<1>2. ASSUME NEW t \in Turns, Connected(t)
      PROVE  IF key[t] = NoKey THEN sid[t] = t
             ELSE Store!Holds(t) /\ handle[t].key = key[t] /\ handle[t].id = sid[t]
  BY <1>1, <1>2 DEF IInv, TurnInv
<1>3. ASSUME NEW t \in Turns, Store!Holds(t)
      PROVE  /\ handle[t].key \in DOMAIN entries
             /\ entries[handle[t].key].id = handle[t].id
             /\ handle[t].id \in 1 .. MaxIds
  <2>1. handle[t] \in Store!Handle
    BY <1>3, HandleType DEF IInv, Store!Holds
  <2> QED
    BY <1>3, <2>1 DEF IInv, Store!IInv, Store!LeaseInv, Store!Stored, Store!Handle, Store!Ids
<1>4. ASSUME NEW t \in Turns, NEW u \in Turns, t # u, Connected(t), Connected(u)
      PROVE  sid[t] # sid[u]
  <2>1. CASE key[t] = NoKey \/ key[u] = NoKey
    BY <1>2, <1>3, <1>4, <2>1, SidAssumption
  <2>2. CASE key[t] # NoKey /\ key[u] # NoKey
    BY <1>2, <1>4, <2>2 DEF IInv, Store!IInv, Store!LeaseInv
  <2> QED  BY <2>1, <2>2
<1> QED  BY <1>2, <1>3, <1>4 DEF ConversationExclusive

(* No two turns are connected to the gateway in one conversation, and a     *)
(* turn with a key uses the one the store has for the key: the store's      *)
(* lease is what the executor makes of it.                                  *)
THEOREM ConversationsAreExclusive == Spec => []ConversationExclusive
  BY ExclusiveInv, Invariance, PTL

(* When Shutdown returns no lease is held, no connection is open and every  *)
(* accepted stream has been closed: waiting for the tasks is enough.        *)
THEOREM ShutdownIsClean == Spec => []ShutdownLeavesNothing
<1>1. ASSUME IInv PROVE ShutdownLeavesNothing
  <2>1. ASSUME phase = "down", NEW t \in Turns
        PROVE  pc[t] = "idle" /\ relay[t] = "none"
    BY <1>1, <2>1 DEF IInv, TypeOK, TurnInv
  <2> QED
    BY <1>1, <2>1 DEF IInv, NoLeaseLeaks, StreamProtocol, ShutdownLeavesNothing, Connected, Engaged
<1> QED  BY <1>1, Invariance, PTL

--------------------------------------------------------------------------------
(* The turns implement the service                                          *)

(* What the world sees of a turn, in terms of where the turn is.            *)
Views == \A t \in Turns :
    /\ t \in Busy <=> pc[t] # "idle" \/ relay[t] # "none"
    /\ HostStream[t] = IF t \notin accepted THEN "none"
                       ELSE IF relay[t] = "emit" THEN "due"
                       ELSE IF relay[t] = "emitting" THEN "writing"
                       ELSE IF relay[t] \in {"reading", "ended"} THEN "open" ELSE "closed"
    /\ \A c : <<t, c>> \in Talks <=> Connected(t) /\ c = sid[t]
    /\ Service!Talking(t) <=> Connected(t)

(* The sight of a turn follows from the invariant: a stream is closed once  *)
(* its close has been called, and a turn is at work while it has a task.    *)
LEMMA ViewsInv == IInv => Views
<1> SUFFICES ASSUME IInv, NEW t \in Turns
             PROVE  /\ t \in Busy <=> pc[t] # "idle" \/ relay[t] # "none"
                    /\ HostStream[t] = IF t \notin accepted THEN "none"
                                       ELSE IF relay[t] = "emit" THEN "due"
                                       ELSE IF relay[t] = "emitting" THEN "writing"
                                       ELSE IF relay[t] \in {"reading", "ended"} THEN "open" ELSE "closed"
                    /\ \A c : <<t, c>> \in Talks <=> Connected(t) /\ c = sid[t]
                    /\ Service!Talking(t) <=> Connected(t)
  BY DEF Views
<1>1. t \in Busy <=> pc[t] # "idle" \/ relay[t] # "none"
  BY DEF Busy, IInv, TypeOK
<1>2. HostStream[t] = IF t \notin accepted THEN "none"
                      ELSE IF relay[t] = "emit" THEN "due"
                      ELSE IF relay[t] = "emitting" THEN "writing"
                      ELSE IF relay[t] \in {"reading", "ended"} THEN "open" ELSE "closed"
  BY DEF HostStream, IInv, StreamProtocol, TypeOK, RelayLabels
<1>3. \A c : <<t, c>> \in Talks <=> Connected(t) /\ c = sid[t]
  BY DEF Talks
<1>4. sid[t] \in Turns \cup 1 .. MaxIds  BY DEF IInv, TypeOK
<1>5. Service!Talking(t) <=> Connected(t)  BY <1>3, <1>4 DEF Service!Talking
<1> QED  BY <1>1, <1>2, <1>3, <1>5

(* A step that moves one turn only.                                         *)
Others(t) == \A u \in Turns \ {t} :
    /\ pc'[u] = pc[u] /\ relay'[u] = relay[u] /\ sid'[u] = sid[u]
    /\ closes'[u] = closes[u] /\ (u \in accepted' <=> u \in accepted)
    /\ \A h \in {"rpc", "relay"} : <<u, h>> \in tasks' <=> <<u, h>> \in tasks

(* No step of a turn moves another.                                         *)
LEMMA OnlyThis ==
    ASSUME IInv, NEW t \in Turns, Rpc(t) \/ Goroutine(t)
    PROVE  Others(t) /\ phase' = phase
<1> USE DEF Others, IInv, TypeOK, Goto, Relay
<1>1. CASE \E k \in Keys \cup {NoKey} : Arrive(t, k)  BY <1>1 DEF Arrive
<1>2. CASE PrepareRejects(t) \/ PrepareStateless(t) \/ PrepareKeyed(t) \/ BuildFails(t)
  BY <1>2 DEF PrepareRejects, PrepareStateless, PrepareKeyed, BuildFails
<1>3. CASE CallBuffered(t) \/ CallEnds(t) \/ BeginRelay(t) \/ BeginRelayRefused(t) \/ OpenFails(t)
  BY <1>3 DEF CallBuffered, CallEnds, BeginRelay, BeginRelayRefused, OpenFails
<1>4. CASE OpenSucceeds(t) \/ Deferred(t) \/ Reply(t)  BY <1>4 DEF OpenSucceeds, Deferred, Reply
<1>5. CASE Goroutine(t)
  BY <1>5 DEF Goroutine, EmitChecked, EmitEnter, EmitReturns, BodyEnds, Close, CloseReturns,
         RelayReleases, RelayDone
<1> QED  BY <1>1, <1>2, <1>3, <1>4, <1>5 DEF Rpc

(* Then what the world sees changes for that turn only.                     *)
LEMMA OnlyThisIsSeen ==
    ASSUME NEW t \in Turns, Others(t)
    PROVE  /\ \A v : HostStream'[t] = v => HostStream' = [HostStream EXCEPT ![t] = v]
           /\ HostStream'[t] = HostStream[t] => HostStream' = HostStream
           /\ (t \in Busy' <=> t \in Busy) => Busy' = Busy
           /\ t \in Busy' => Busy' = Busy \cup {t}
           /\ t \notin Busy' => Busy' = Busy \ {t}
           /\ (\A c : <<t, c>> \in Talks' <=> <<t, c>> \in Talks) => Talks' = Talks
           /\ \A d : (\A c : <<t, c>> \in Talks' <=> <<t, c>> \in Talks \/ c = d)
                     => Talks' = Talks \cup {<<t, d>>}
           /\ \A d : (\A c : <<t, c>> \in Talks' <=> <<t, c>> \in Talks /\ c # d)
                     => Talks' = Talks \ {<<t, d>>}
<1>1. \A u \in Turns \ {t} : HostStream'[u] = HostStream[u]  BY DEF HostStream, Others
<1>2. HostStream = [u \in Turns |-> HostStream[u]] /\ HostStream' = [u \in Turns |-> HostStream'[u]]
  BY DEF HostStream
<1>3. \A v : HostStream'[t] = v => HostStream' = [HostStream EXCEPT ![t] = v]  BY <1>1, <1>2
<1>4. HostStream'[t] = HostStream[t] => HostStream' = HostStream  BY <1>1, <1>2
<1>5. \A u \in Turns \ {t} : u \in Busy' <=> u \in Busy  BY DEF Busy, Others
<1>6. Busy \subseteq Turns /\ Busy' \subseteq Turns  BY DEF Busy
<1>7. \A u \in Turns \ {t} : Connected(u)' <=> Connected(u)  BY DEF Connected, Others
<1>8. \A u, c : <<u, c>> \in Talks <=> u \in Turns /\ Connected(u) /\ c = sid[u]  BY DEF Talks
<1>9. \A u, c : <<u, c>> \in Talks' <=> u \in Turns /\ Connected(u)' /\ c = sid'[u]  BY DEF Talks
<1>10. \A u, c : u # t => (<<u, c>> \in Talks' <=> <<u, c>> \in Talks)
  <2> SUFFICES ASSUME NEW u, NEW c, u # t PROVE <<u, c>> \in Talks' <=> <<u, c>> \in Talks  OBVIOUS
  <2>1. u \in Turns => sid'[u] = sid[u]  BY DEF Others
  <2> QED  BY <1>7, <1>8, <1>9, <2>1
<1>11. /\ \A p \in Talks : p = <<p[1], p[2]>>
       /\ \A p \in Talks' : p = <<p[1], p[2]>>
  BY DEF Talks
<1>12. (\A c : <<t, c>> \in Talks' <=> <<t, c>> \in Talks) => Talks' = Talks  BY <1>10, <1>11
<1>13. ASSUME NEW d, \A c : <<t, c>> \in Talks' <=> <<t, c>> \in Talks \/ c = d
       PROVE  Talks' = Talks \cup {<<t, d>>}
  BY <1>10, <1>11, <1>13
<1>14. ASSUME NEW d, \A c : <<t, c>> \in Talks' <=> <<t, c>> \in Talks /\ c # d
       PROVE  Talks' = Talks \ {<<t, d>>}
  BY <1>10, <1>11, <1>14
<1>15. /\ (t \in Busy' <=> t \in Busy) => Busy' = Busy
       /\ t \in Busy' => Busy' = Busy \cup {t}
       /\ t \notin Busy' => Busy' = Busy \ {t}
  BY <1>5, <1>6
<1> HIDE DEF HostStream, Talks, Busy
<1> QED  BY ZenonT(60), <1>3, <1>4, <1>12, <1>13, <1>14, <1>15

(* What a turn's step shows the world, besides nothing at all: it begins,   *)
(* connects, is accepted, writes, closes, hangs up or ends.                 *)
LEMMA TurnServes ==
    ASSUME IInv, IInv', NEW t \in Turns, Rpc(t) \/ Goroutine(t)
    PROVE  [Service!Next]_(Service!vars)
<1> DEFINE Stream   == HostStream'[t] = HostStream[t]
           Working  == t \in Busy' <=> t \in Busy
           Speaking == (Connected(t)' <=> Connected(t)) /\ (Connected(t) => sid'[t] = sid[t])
<1>1. Others(t) /\ phase' = phase  BY OnlyThis
<1>2. Views /\ Views'
  <2>1. IInv' => Views'  BY ViewsInv, PTL
  <2> QED  BY <2>1, ViewsInv
<1>3. Speaking => Talks' = Talks  BY <1>1, <1>2, OnlyThisIsSeen DEF Views
<1>4. Stream => HostStream' = HostStream  BY <1>1, OnlyThisIsSeen
<1>5. Working => Busy' = Busy  BY <1>1, OnlyThisIsSeen
<1>6. Stream /\ Working /\ Speaking => UNCHANGED Service!vars
  BY <1>1, <1>3, <1>4, <1>5 DEF Service!vars
<1>7. pc \in [Turns -> PcLabels] /\ relay \in [Turns -> RelayLabels] /\ accepted \subseteq Turns
  BY DEF IInv, TypeOK
<1>8. Service!Turn(t) => Service!Next  BY DEF Service!Next
<1>9. relay[t] # "none" => t \in accepted  BY DEF IInv, StreamProtocol
<1>10. pc[t] \notin {"idle", "replying"} => relay[t] = "none" /\ t \notin accepted
  BY DEF IInv, TurnInv
<1> USE <1>1, <1>7 DEF Goto, Relay
<1>11. ASSUME NEW k \in Keys \cup {NoKey}, Arrive(t, k) PROVE Service!Begin(t)
  <2> USE <1>11 DEF Arrive
  <2>1. phase = "up" /\ t \notin Busy /\ t \in Busy'  BY <1>2 DEF Views
  <2>2. HostStream'[t] = "none"  BY <1>2 DEF Views
  <2>3. Speaking  BY DEF Connected
  <2> HIDE <1>11 DEF Arrive
  <2> QED  BY <1>3, <2>1, <2>2, <2>3, OnlyThisIsSeen DEF Service!Begin
<1>12. CASE \/ PrepareRejects(t) \/ PrepareStateless(t) \/ PrepareKeyed(t) \/ BuildFails(t)
            \/ BeginRelayRefused(t) \/ Deferred(t)
  <2> USE DEF PrepareRejects, PrepareStateless, PrepareKeyed, BuildFails, BeginRelayRefused, Deferred
  <2>1. Stream    BY <1>2, <1>12 DEF Views
  <2>2. Working   BY <1>2, <1>12 DEF Views
  <2>3. Speaking  BY <1>10, <1>12 DEF Connected
  <2> QED  BY <1>6, <2>1, <2>2, <2>3
<1>13. CASE CallBuffered(t) \/ BeginRelay(t)
  <2> USE <1>13 DEF CallBuffered, BeginRelay
  <2>1. t \in Busy /\ Working /\ Stream /\ HostStream[t] = "none"  BY <1>2, <1>10 DEF Views
  <2>2. ~Connected(t) /\ Connected(t)' /\ sid'[t] = sid[t]  BY <1>10 DEF Connected
  <2>3. sid[t] \in Turns \cup 1 .. MaxIds  BY DEF IInv, TypeOK
  <2> HIDE <1>13 DEF CallBuffered, BeginRelay
  <2>4. Talks' = Talks \cup {<<t, sid[t]>>}  BY <1>2, <2>2, OnlyThisIsSeen DEF Views
  <2>5. ~Service!Talking(t)  BY <1>2, <2>2 DEF Views
  <2>6. \A q \in Talks : q[2] # sid[t]
    <3>1. IInv' => ConversationExclusive'  BY ExclusiveInv, PTL
    <3>2. \A u \in Turns : Connected(u)' /\ u # t => sid'[u] # sid'[t]
      BY <2>2, <3>1 DEF ConversationExclusive
    <3>3. \A u \in Turns : Connected(u) /\ u # t => sid[u] # sid[t]
      BY <2>2, <3>2 DEF Connected, Others
    <3> QED  BY <2>2, <3>3 DEF Talks
  <2>7. Service!Connect(t, sid[t])
    BY <1>4, <1>5, <2>1, <2>4, <2>5, <2>6 DEF Service!Connect
  <2> QED  BY <1>8, <2>3, <2>7 DEF Service!Turn
<1>14. CASE CallEnds(t) \/ OpenFails(t) \/ CloseReturns(t)
  <2> USE <1>14 DEF CallEnds, OpenFails, CloseReturns
  <2>1. Working /\ Stream /\ HostStream[t] \in {"none", "closed"}  BY <1>2, <1>10 DEF Views
  <2>2. Connected(t) /\ ~Connected(t)'  BY <1>10 DEF Connected, IInv, TurnInv
  <2>3. sid[t] \in Turns \cup 1 .. MaxIds  BY DEF IInv, TypeOK
  <2> HIDE <1>14 DEF CallEnds, OpenFails, CloseReturns
  <2>4. Talks' = Talks \ {<<t, sid[t]>>}  BY <1>2, <2>2, OnlyThisIsSeen DEF Views
  <2>5. <<t, sid[t]>> \in Talks  BY <1>2, <2>2 DEF Views
  <2>6. Service!HangUp(t, sid[t])  BY <1>4, <1>5, <2>1, <2>4, <2>5 DEF Service!HangUp
  <2> QED  BY <1>8, <2>3, <2>6 DEF Service!Turn
<1>15. CASE OpenSucceeds(t)
  <2> USE <1>15 DEF OpenSucceeds
  <2>1. Working  BY <1>2 DEF Views
  <2>2. HostStream[t] = "none" /\ HostStream'[t] = "open"  BY <1>2, <1>10 DEF Views
  <2>3. Speaking /\ Connected(t)  BY DEF Connected
  <2>4. Service!Talking(t)  BY <1>2, <2>3 DEF Views
  <2> HIDE <1>15 DEF OpenSucceeds
  <2>5. Service!Accept(t)
    BY <1>3, <1>5, <2>1, <2>2, <2>3, <2>4, OnlyThisIsSeen DEF Service!Accept, Service!Becomes
  <2> QED  BY <1>8, <2>5 DEF Service!Turn
<1>16. CASE Reply(t) \/ RelayDone(t)
  <2> USE <1>16 DEF Reply, RelayDone
  <2>1. Stream /\ t \in Busy /\ (t \notin Busy' => HostStream[t] \in {"none", "closed"})
    BY <1>2, <1>10 DEF Views
  <2>2. Speaking /\ (t \notin Busy' => ~Connected(t))  BY <1>2 DEF Connected, Views
  <2>3. t \notin Busy' => ~Service!Talking(t)  BY <1>2, <2>2 DEF Views
  <2> HIDE <1>16 DEF Reply, RelayDone
  <2>4. t \notin Busy' => Service!End(t)
    BY <1>3, <1>4, <2>1, <2>2, <2>3, OnlyThisIsSeen DEF Service!End
  <2>5. t \in Busy' => Working  BY <2>1
  <2> QED  BY <1>6, <1>8, <2>1, <2>2, <2>4, <2>5 DEF Service!Turn
<1>17. CASE EmitChecked(t) \/ EmitEnter(t) \/ EmitReturns(t) \/ Close(t)
  <2> USE <1>17 DEF EmitChecked, EmitEnter, EmitReturns, Close
  <2>1. Working  BY <1>2 DEF Views
  <2>2. Speaking  BY DEF Connected
  <2>3. \/ phase = "up" /\ HostStream[t] = "open" /\ HostStream'[t] = "due"
        \/ HostStream[t] = "due" /\ HostStream'[t] = "writing"
        \/ HostStream[t] = "writing" /\ HostStream'[t] = "open"
        \/ HostStream[t] = "open" /\ HostStream'[t] = "closed"
    BY <1>2, <1>9 DEF Views
  <2> HIDE <1>17 DEF EmitChecked, EmitEnter, EmitReturns, Close
  <2>4. Service!Decide(t) \/ Service!Write(t) \/ Service!Written(t) \/ Service!Close(t)
    BY <1>3, <1>5, <2>1, <2>2, <2>3, OnlyThisIsSeen
    DEF Service!Decide, Service!Write, Service!Written, Service!Close, Service!Becomes
  <2> QED  BY <1>8, <2>4 DEF Service!Turn
<1>18. CASE BodyEnds(t) \/ RelayReleases(t)
  <2> USE <1>18 DEF BodyEnds, RelayReleases
  <2>1. Stream    BY <1>2, <1>9 DEF Views
  <2>2. Working   BY <1>2 DEF Views
  <2>3. Speaking  BY DEF Connected
  <2> QED  BY <1>6, <2>1, <2>2, <2>3
<1> HIDE <1>1, <1>7 DEF Goto, Relay
<1>19. Service!Begin(t) => Service!Turn(t)  BY DEF Service!Turn
<1> QED
  BY <1>8, <1>11, <1>12, <1>13, <1>14, <1>15, <1>16, <1>17, <1>18, <1>19 DEF Rpc, Goroutine

(* Nothing has begun.                                                       *)
LEMMA InitServes == Init => Service!Init
<1> SUFFICES ASSUME Init PROVE Service!Init  OBVIOUS
<1>1. Busy = {}  BY DEF Init, Busy
<1>2. Talks = {}  BY DEF Init, Talks, Connected
<1>3. HostStream = [t \in Turns |-> "none"]  BY DEF Init, HostStream
<1> QED  BY <1>1, <1>2, <1>3 DEF Service!Init, Init

(* Every step of the turns is one of the service, or none: deadlines and    *)
(* the clock are not seen, and shutdown is.                                 *)
LEMMA StepServes == IInv /\ [Next]_vars => [Service!Next]_(Service!vars)
<1> SUFFICES ASSUME IInv, [Next]_vars PROVE [Service!Next]_(Service!vars)  OBVIOUS
<1>1. ASSUME NEW t \in Turns, Rpc(t) \/ Goroutine(t) PROVE [Service!Next]_(Service!vars)
  BY <1>1, TurnServes, NextPreserves
<1>2. UNCHANGED <<pc, relay, sid, accepted, closes, tasks>>
      => UNCHANGED <<Busy, Talks, HostStream>>
  BY DEF Busy, Talks, HostStream, Connected
<1>3. CASE UNCHANGED vars \/ Tick \/ \E t \in Turns : Expire(t)
  BY <1>2, <1>3 DEF Service!vars, vars, turnVars, Tick, Expire
<1>4. CASE Stop  BY <1>2, <1>4 DEF Stop, turnVars, Service!Stop, Service!Next
<1>5. CASE Drained
  <2>1. Busy = {}  BY <1>5 DEF Drained, Busy
  <2> QED  BY <1>2, <1>5, <2>1 DEF Drained, turnVars, Service!Drained, Service!Next
<1> QED  BY <1>1, <1>3, <1>4, <1>5 DEF Next, Down

(* The executor and the relay, with every early return and every failure,   *)
(* implement the service, for any number of turns and keys; in particular   *)
(* a stream has at most one more frame written to it once the plugin stops. *)
THEOREM ImplementsService == Spec => ServiceSpec
  BY InitServes, StepServes, Invariance, PTL DEF Spec, ServiceSpec, Service!Spec

================================================================================
