--------------------------- MODULE SessionStoreProofs ---------------------------
(***************************************************************************)
(* The invariants of the session store hold for every set of keys and      *)
(* turns, every capacity and every time to live, and the store implements  *)
(* the abstract lease.                                                     *)
(*                                                                         *)
(* Every outcome of acquire is Refuse(S) or Lease(t, k, id, S) for a set S *)
(* of surviving keys that contains every busy one; the two lemmas on those *)
(* carry the argument, and the theorems only check their premises.         *)
(***************************************************************************)
EXTENDS SessionStore, FiniteSetTheorems, TLAPS

(* Survivors of a sweep, or of a sweep and an eviction.                     *)
Survivors(S) == S \subseteq Stored /\ \A k \in Stored : entries[k].busy => k \in S

(* What remains of the store after any sweep or eviction is a store: the    *)
(* cardinality facts every action needs.                                    *)
LEMMA StoredFinite ==
    ASSUME TypeOK
    PROVE  /\ IsFiniteSet(Stored)
           /\ \A S \in SUBSET Stored :
                 IsFiniteSet(S) /\ Cardinality(S) \in Nat /\ Cardinality(S) <= Cardinality(Stored)
<1>1. Stored \subseteq Keys  BY DEF TypeOK
<1>2. IsFiniteSet(Stored)  BY <1>1, KeysAssumption, FS_Subset
<1>3. ASSUME NEW S \in SUBSET Stored
      PROVE  IsFiniteSet(S) /\ Cardinality(S) \in Nat /\ Cardinality(S) <= Cardinality(Stored)
  BY <1>2, <1>3, FS_Subset, FS_CardinalityType
<1> QED  BY <1>2, <1>3

(* A sweep keeps every busy entry.                                          *)
LEMMA SweptSurvives == Survivors(Swept)
  BY DEF Survivors, Swept, Expired

(* Refusing after dropping idle entries preserves the invariant.            *)
LEMMA RefusePreserves ==
    ASSUME IInv, NEW S, Survivors(S), Refuse(S)
    PROVE  IInv'
<1> USE DEF IInv, Stored, Holds
<1>0. Stored' = S /\ S \subseteq Stored  BY DEF Refuse, Survivors
<1>1. TypeOK'  BY <1>0 DEF TypeOK, Refuse, ListOf
<1>2. \A k \in S : entries'[k] = entries[k]  BY DEF Refuse
<1>3. LeaseInv'
  BY <1>0, <1>2 DEF LeaseInv, Refuse, Survivors
<1>4. RecencyOrder'
  BY <1>0, <1>2 DEF RecencyOrder, Refuse, ListOf
<1>5. CapacityBound'
  <2>1. Cardinality(S) <= Cardinality(Stored) /\ Cardinality(S) \in Nat
    BY <1>0, StoredFinite
  <2>2. Cardinality(Stored) \in Nat  BY StoredFinite
  <2> QED  BY <1>0, <2>1, <2>2, CapacityAssumption DEF CapacityBound
<1>6. IdsMinted'  BY <1>0, <1>2 DEF IdsMinted, Refuse
<1> QED  BY <1>1, <1>3, <1>4, <1>5, <1>6

(* Leasing k to a turn that holds nothing preserves the invariant when no   *)
(* other turn uses k and no other entry has the conversation.               *)
LEMMA LeasePreserves ==
    ASSUME IInv, NEW S, Survivors(S),
           NEW t \in Turns, NEW k \in Keys, NEW id \in Ids,
           ~Holds(t),
           k \in Stored => ~entries[k].busy,
           Cardinality(S \cup {k}) <= Capacity,
           \A x \in S \ {k} : entries[x].id # id,
           minted' \in minted .. MaxIds, id <= minted',
           Lease(t, k, id, S)
    PROVE  IInv'
<1> USE DEF IInv, Stored
<1>0. Stored' = S \cup {k} /\ S \subseteq Stored  BY DEF Lease, Survivors
<1>1. /\ entries'[k] = [id |-> id, touched |-> now, busy |-> TRUE]
      /\ \A x \in S \ {k} : entries'[x] = entries[x]
  BY DEF Lease
<1>2. TypeOK'
  <2>1. Stored' \subseteq Keys  BY <1>0 DEF TypeOK
  <2>2. \A x \in Stored' : entries'[x] \in Entry
    <3>1. \A x \in S \ {k} : entries'[x] \in Entry  BY <1>0, <1>1 DEF TypeOK
    <3>2. [id |-> id, touched |-> now, busy |-> TRUE] \in Entry
      BY DEF TypeOK, Entry
    <3> QED  BY <3>1, <3>2, <1>0, <1>1
  <2>3. entries' \in [Stored' -> Entry]  BY <2>2 DEF Lease
  <2>4. ahead' \subseteq Stored' \X Stored'
    BY <1>0 DEF Lease, WithFront, ListOf
  <2>5. minted' \in 0 .. MaxIds  BY IdsAssumption DEF TypeOK
  <2>6. handle' \in [Turns -> Handle \cup {NoHandle}]
    BY DEF TypeOK, Lease, Handle
  <2> QED  BY <2>1, <2>3, <2>4, <2>5, <2>6 DEF TypeOK, Lease
<1>3. /\ handle'[t] = [key |-> k, id |-> id, live |-> TRUE]
      /\ \A u \in Turns \ {t} : handle'[u] = handle[u]
  BY DEF TypeOK, Lease
<1>4. [key |-> k, id |-> id, live |-> TRUE] # NoHandle
  <2>1. [key |-> k, id |-> id, live |-> TRUE] \in [key : Keys, id : 1 .. MaxIds, live : BOOLEAN]
    BY DEF Ids
  <2> QED  BY <2>1, HandleAssumption
<1>5. Holds(t)' /\ \A u \in Turns \ {t} : Holds(u)' <=> Holds(u)
  BY <1>3, <1>4 DEF Holds
<1>6. \A u \in Turns \ {t} : Holds(u) =>
         /\ handle[u].key \in S \ {k}
         /\ handle[u].id = entries[handle[u].key].id
         /\ entries[handle[u].key].busy
  BY DEF LeaseInv, Survivors
<1>7. LeaseInv'
  <2>1. ASSUME NEW u \in Turns, Holds(u)'
        PROVE  /\ handle'[u].key \in Stored'
               /\ entries'[handle'[u].key].busy
               /\ entries'[handle'[u].key].id = handle'[u].id
    BY <2>1, <1>0, <1>1, <1>3, <1>5, <1>6
  <2>2. ASSUME NEW x \in Stored', entries'[x].busy
        PROVE  \E u \in Turns : Holds(u)' /\ handle'[u].key = x
    <3>1. CASE x = k  BY <3>1, <1>3, <1>5
    <3>2. CASE x # k
      <4>1. x \in S \ {k} /\ entries[x].busy  BY <2>2, <3>2, <1>0, <1>1
      <4>2. PICK u \in Turns : Holds(u) /\ handle[u].key = x
        BY <4>1, <1>0 DEF LeaseInv
      <4> QED  BY <4>2, <1>3, <1>5
    <3> QED  BY <3>1, <3>2
  <2>3. ASSUME NEW u \in Turns, NEW w \in Turns, Holds(u)', Holds(w)', u # w
        PROVE  handle'[u].key # handle'[w].key /\ handle'[u].id # handle'[w].id
    <3>1. CASE u # t /\ w # t  BY <2>3, <3>1, <1>3, <1>5 DEF LeaseInv
    <3>2. CASE u = t  BY <2>3, <3>2, <1>3, <1>5, <1>6
    <3>3. CASE w = t  BY <2>3, <3>3, <1>3, <1>5, <1>6
    <3> QED  BY <3>1, <3>2, <3>3
  <2> QED  BY <2>1, <2>2, <2>3 DEF LeaseInv, Holds
<1>8. RecencyOrder'
  <2>1. \A a, b \in Stored' : <<a, b>> \in ahead' <=>
           \/ a \in S \ {k} /\ b \in S \ {k} /\ <<a, b>> \in ahead
           \/ a = k /\ b # k
    BY <1>0 DEF Lease, WithFront, ListOf
  <2>2. \A x \in S : entries[x].touched <= now /\ entries[x].touched \in Int /\ now \in Int
    BY <1>0 DEF IdsMinted, TypeOK, Entry
  <2>3. \A a, b \in Stored' : <<a, b>> \in ahead' => entries'[a].touched >= entries'[b].touched
    BY <2>1, <2>2, <1>0, <1>1 DEF RecencyOrder
  <2> QED  BY <2>1, <2>3, <1>0 DEF RecencyOrder
<1>9. CapacityBound'  BY <1>0 DEF CapacityBound
<1>10. IdsMinted'
  <2>1. \A x \in S : /\ entries[x].touched <= now
                     /\ entries[x].id <= minted /\ entries[x].id \in Int /\ minted \in Int
    BY <1>0 DEF IdsMinted, TypeOK, Entry, Ids
  <2>2. \A x \in Stored' : entries'[x].id <= minted' /\ entries'[x].touched <= now'
    BY <2>1, <1>0, <1>1 DEF Lease, TypeOK
  <2>3. \A a, b \in Stored' : a # b => entries'[a].id # entries'[b].id
    BY <1>0, <1>1 DEF IdsMinted
  <2> QED  BY <2>2, <2>3 DEF IdsMinted
<1> QED  BY <1>2, <1>7, <1>8, <1>9, <1>10

--------------------------------------------------------------------------------
(* The inductive invariant                                                  *)

(* The empty store satisfies the invariant.                                 *)
LEMMA InitIInv == Init => IInv
<1> SUFFICES ASSUME Init PROVE IInv  OBVIOUS
<1> USE DEF Init, Stored
<1>1. Stored = {}  OBVIOUS
<1>2. TypeOK  BY <1>1, TimeAssumption, IdsAssumption DEF TypeOK
<1>3. LeaseInv  BY <1>1 DEF LeaseInv, Holds
<1>4. RecencyOrder  BY <1>1 DEF RecencyOrder
<1>5. CapacityBound  BY <1>1, FS_EmptySet, CapacityAssumption DEF CapacityBound
<1>6. IdsMinted  BY <1>1 DEF IdsMinted
<1> QED  BY <1>2, <1>3, <1>4, <1>5, <1>6 DEF IInv

(* A conversation minted now belongs to no entry.                           *)
LEMMA NewLeasePreserves ==
    ASSUME IInv, NEW S, Survivors(S),
           NEW t \in Turns, NEW k \in Keys,
           ~Holds(t), k \notin Swept,
           S \subseteq Swept,
           Cardinality(S \cup {k}) <= Capacity,
           LeaseNew(t, k, S)
    PROVE  IInv'
<1>1. minted \in Nat /\ minted + 1 \in Ids
  BY IdsAssumption DEF IInv, TypeOK, LeaseNew, Ids
<1>2. minted' \in minted .. MaxIds /\ minted + 1 <= minted'
  BY <1>1, IdsAssumption DEF LeaseNew, Ids
<1>3. \A x \in Stored : entries[x].id # minted + 1
  BY <1>1 DEF IInv, IdsMinted, TypeOK, Entry, Ids
<1>4. \A x \in S \ {k} : entries[x].id # minted + 1
  BY <1>3 DEF Survivors
<1>5. k \in Stored => ~entries[k].busy
  BY SweptSurvives DEF Survivors
<1>6. Lease(t, k, minted + 1, S)  BY DEF LeaseNew
<1> QED  BY <1>1, <1>2, <1>4, <1>5, <1>6, LeasePreserves

(* Each return of acquire is one of the two lemmas above.                   *)
LEMMA AcquirePreserves ==
    ASSUME IInv, NEW t \in Turns, NEW k \in Keys, Acquire(t, k)
    PROVE  IInv'
<1>0. /\ Survivors(Swept)
      /\ Swept \in SUBSET Stored
      /\ IsFiniteSet(Swept)
      /\ Cardinality(Swept) \in Nat
      /\ Cardinality(Swept) <= Cardinality(Stored)
      /\ Cardinality(Stored) \in Nat
      /\ Cardinality(Stored) <= Capacity
  <2>1. TypeOK /\ CapacityBound  BY DEF IInv
  <2>2. Swept \in SUBSET Stored  BY DEF Swept
  <2> QED  BY <2>1, <2>2, SweptSurvives, StoredFinite, FS_CardinalityType DEF CapacityBound
<1>1. CASE AcquireBusy(t, k)
  BY <1>0, <1>1, RefusePreserves DEF AcquireBusy
<1>2. CASE AcquireKnown(t, k)
  <2>1. k \in Swept /\ k \in Stored /\ ~entries[k].busy /\ ~Holds(t)
    BY <1>2 DEF AcquireKnown, Swept
  <2>2. Lease(t, k, entries[k].id, Swept) /\ minted' = minted
    BY <1>2 DEF AcquireKnown
  <2>3. entries[k].id \in Ids /\ entries[k].id <= minted /\ minted \in 0 .. MaxIds
    BY <2>1 DEF IInv, TypeOK, Entry, IdsMinted
  <2>4. minted' \in minted .. MaxIds /\ entries[k].id <= minted'
    BY <2>2, <2>3, IdsAssumption
  <2>5. \A x \in Swept \ {k} : entries[x].id # entries[k].id
    BY <1>0, <2>1 DEF IInv, IdsMinted
  <2>6. Cardinality(Swept \cup {k}) <= Capacity
    <3>1. Swept \cup {k} = Swept  BY <2>1
    <3> QED  BY <3>1, <1>0, CapacityAssumption
  <2> QED  BY <1>0, <2>1, <2>2, <2>3, <2>4, <2>5, <2>6, LeasePreserves
<1>3. CASE AcquireNew(t, k)
  <2>1. /\ ~Holds(t) /\ k \notin Swept
        /\ Cardinality(Swept) < Capacity
        /\ LeaseNew(t, k, Swept)
    BY <1>3 DEF AcquireNew
  <2>2. Cardinality(Swept \cup {k}) = Cardinality(Swept) + 1
    BY <1>0, <2>1, FS_AddElement
  <2>3. Cardinality(Swept \cup {k}) <= Capacity
    BY <1>0, <2>1, <2>2, CapacityAssumption
  <2> QED  BY <1>0, <2>1, <2>3, NewLeasePreserves
<1>4. CASE AcquireEvict(t, k)
  <2>1. ~Holds(t) /\ k \notin Swept  BY <1>4 DEF AcquireEvict
  <2>2. PICK v \in Swept : IsVictim(v, Swept) /\ LeaseNew(t, k, Swept \ {v})
    BY <1>4 DEF AcquireEvict
  <2>3. Survivors(Swept \ {v})
    BY <1>0, <2>2 DEF Survivors, IsVictim
  <2>4. Cardinality(Swept \ {v}) = Cardinality(Swept) - 1 /\ IsFiniteSet(Swept \ {v})
    BY <1>0, <2>2, FS_RemoveElement
  <2>5. Cardinality((Swept \ {v}) \cup {k}) = Cardinality(Swept)
    <3>1. k \notin Swept \ {v}  BY <2>1
    <3>2. Cardinality((Swept \ {v}) \cup {k}) = Cardinality(Swept \ {v}) + 1
      BY <3>1, <2>4, FS_AddElement
    <3> QED  BY <3>2, <2>4, <1>0
  <2>6. Cardinality((Swept \ {v}) \cup {k}) <= Capacity
    BY <1>0, <2>5, CapacityAssumption
  <2> QED  BY <2>1, <2>2, <2>3, <2>6, NewLeasePreserves
<1>5. CASE AcquireSaturated(t, k)
  BY <1>0, <1>5, RefusePreserves DEF AcquireSaturated
<1> QED  BY <1>1, <1>2, <1>3, <1>4, <1>5 DEF Acquire

(* The first call of a release finds its entry and makes it the most        *)
(* recently used one.                                                       *)
LEMMA ReleasePreserves ==
    ASSUME IInv, NEW t \in Turns, Release(t)
    PROVE  IInv'
<1> DEFINE k == handle[t].key
           id == handle[t].id
<1> USE DEF Stored
<1>1. /\ Holds(t) /\ k \in Stored /\ entries[k].busy /\ entries[k].id = id
  BY DEF Release, IInv, LeaseInv
<1>2. /\ entries' = [entries EXCEPT ![k] = [@ EXCEPT !.busy = FALSE, !.touched = now]]
      /\ ahead' = WithFront(k, Stored)
      /\ handle' = [handle EXCEPT ![t].live = FALSE]
      /\ now' = now /\ minted' = minted
  BY <1>1 DEF Release, Unlease
<1>3. /\ Stored' = Stored
      /\ entries'[k] = [id |-> entries[k].id, touched |-> now, busy |-> FALSE]
      /\ \A x \in Stored \ {k} : entries'[x] = entries[x]
  <2>1. entries[k] \in Entry  BY <1>1 DEF IInv, TypeOK
  <2>2. entries'[k] = [entries[k] EXCEPT !.busy = FALSE, !.touched = now]
    BY <1>1, <1>2 DEF IInv, TypeOK
  <2>3. entries'[k] = [id |-> entries[k].id, touched |-> now, busy |-> FALSE]
    BY <2>1, <2>2 DEF Entry
  <2> QED  BY <1>1, <1>2, <2>3 DEF IInv, TypeOK
<1>4. /\ handle[t] \in Handle
      /\ handle'[t] = [key |-> k, id |-> id, live |-> FALSE]
      /\ \A u \in Turns \ {t} : handle'[u] = handle[u]
  <2>1. handle[t] \in Handle  BY <1>1 DEF IInv, TypeOK, Holds
  <2>2. handle'[t] = [handle[t] EXCEPT !.live = FALSE]
    BY <1>2 DEF IInv, TypeOK
  <2> QED  BY <2>1, <2>2, <1>2 DEF IInv, TypeOK, Handle
<1>5. ~Holds(t)' /\ \A u \in Turns \ {t} : Holds(u)' <=> Holds(u)
  BY <1>4 DEF Holds
<1>6. TypeOK'
  <2>1. entries'[k] \in Entry /\ now \in 0 .. MaxNow
    BY <1>1, <1>3 DEF IInv, TypeOK, Entry
  <2>2. entries' \in [Stored' -> Entry]
    BY <2>1, <1>2, <1>3 DEF IInv, TypeOK
  <2>3. handle'[t] \in Handle  BY <1>4 DEF Handle
  <2>4. handle' \in [Turns -> Handle \cup {NoHandle}]
    BY <2>3, <1>2, <1>4 DEF IInv, TypeOK
  <2>5. ahead' \subseteq Stored' \X Stored'
    BY <1>1, <1>2, <1>3 DEF WithFront, ListOf
  <2> QED  BY <2>2, <2>4, <2>5, <1>2, <1>3 DEF IInv, TypeOK
<1>7. LeaseInv'
  <2>1. \A u \in Turns : Holds(u)' => u # t /\ Holds(u) /\ handle'[u] = handle[u] /\ handle[u].key # k
    BY <1>1, <1>4, <1>5 DEF IInv, LeaseInv
  <2>2. \A x \in Stored' : entries'[x].busy => x # k /\ entries'[x] = entries[x]
    BY <1>3
  <2> QED  BY <2>1, <2>2, <1>1, <1>3, <1>4, <1>5 DEF IInv, LeaseInv
<1>8. RecencyOrder'
  <2>1. \A a, b \in Stored' : <<a, b>> \in ahead' <=>
           \/ a \in Stored \ {k} /\ b \in Stored \ {k} /\ <<a, b>> \in ahead
           \/ a = k /\ b # k
    BY <1>1, <1>2, <1>3 DEF WithFront, ListOf
  <2>2. \A x \in Stored : entries[x].touched <= now /\ entries[x].touched \in Int /\ now \in Int
    BY DEF IInv, IdsMinted, TypeOK, Entry
  <2>3. \A a, b \in Stored' : <<a, b>> \in ahead' => entries'[a].touched >= entries'[b].touched
    BY <2>1, <2>2, <1>3 DEF IInv, RecencyOrder
  <2> QED  BY <2>1, <2>3, <1>1, <1>3 DEF IInv, RecencyOrder
<1>9. CapacityBound'  BY <1>3 DEF IInv, CapacityBound
<1>10. IdsMinted'
  BY <1>1, <1>2, <1>3 DEF IInv, IdsMinted, TypeOK
<1> QED  BY <1>6, <1>7, <1>8, <1>9, <1>10 DEF IInv

(* The passing of time ages entries and changes nothing else.               *)
LEMMA TickPreserves == IInv /\ Tick => IInv'
<1> SUFFICES ASSUME IInv, Tick PROVE IInv'  OBVIOUS
<1> USE DEF Tick, IInv, Stored
<1>1. TypeOK'  BY TimeAssumption DEF TypeOK
<1>2. LeaseInv'  BY DEF LeaseInv, Holds
<1>3. RecencyOrder'  BY DEF RecencyOrder
<1>4. CapacityBound'  BY DEF CapacityBound
<1>5. IdsMinted'  BY DEF IdsMinted, TypeOK, Entry
<1> QED  BY <1>1, <1>2, <1>3, <1>4, <1>5

(* Every step preserves the invariant.                                      *)
LEMMA NextPreserves == IInv /\ [Next]_vars => IInv'
<1> SUFFICES ASSUME IInv, [Next]_vars PROVE IInv'  OBVIOUS
<1>1. CASE UNCHANGED vars
  BY <1>1 DEF vars, IInv, TypeOK, LeaseInv, RecencyOrder, CapacityBound, IdsMinted, Stored, Holds
<1>2. ASSUME NEW t \in Turns, NEW k \in Keys, Acquire(t, k) PROVE IInv'
  BY <1>2, AcquirePreserves
<1>3. ASSUME NEW t \in Turns, Release(t) PROVE IInv'
  BY <1>3, ReleasePreserves
<1>4. ASSUME NEW t \in Turns, ReleaseAgain(t) PROVE IInv'
  BY <1>4, <1>1 DEF ReleaseAgain
<1>5. CASE Tick  BY <1>5, TickPreserves
<1> QED  BY <1>1, <1>2, <1>3, <1>4, <1>5 DEF Next

(* The inductive invariant holds in every reachable state.                  *)
THEOREM Invariance == Spec => []IInv
  BY InitIInv, NextPreserves, PTL DEF Spec

--------------------------------------------------------------------------------
(* What the runs check on a small instance, for every instance              *)

(* The store's map and list never drift apart.                              *)
THEOREM TypeCorrect == Spec => []TypeOK
<1>1. IInv => TypeOK  BY DEF IInv
<1> QED  BY <1>1, Invariance, PTL

(* A lease is exclusive, and its entry is neither expired nor evicted.      *)
THEOREM LeasesAreSafe == Spec => []LeaseInv
<1>1. IInv => LeaseInv  BY DEF IInv
<1> QED  BY <1>1, Invariance, PTL

(* The list orders the entries by last use.                                 *)
THEOREM RecencyIsOrder == Spec => []RecencyOrder
<1>1. IInv => RecencyOrder  BY DEF IInv
<1> QED  BY <1>1, Invariance, PTL

(* The store never exceeds its capacity.                                    *)
THEOREM CapacityHolds == Spec => []CapacityBound
<1>1. IInv => CapacityBound  BY DEF IInv
<1> QED  BY <1>1, Invariance, PTL

--------------------------------------------------------------------------------
(* What a step may drop                                                     *)

(* Dropping exactly what the sweep drops is legal.                          *)
LEMMA SweepIsLegal ==
    ASSUME IInv, \A k \in Swept : <<k, entries[k].id>> \in Conversations'
    PROVE  DropIsLegal
  BY DEF DropIsLegal, Swept, Expired

(* So is dropping, at capacity, the victim of the search from the back.     *)
LEMMA EvictionIsLegal ==
    ASSUME IInv, NEW v, IsVictim(v, Swept),
           Cardinality(Swept) >= Capacity,
           \A k \in Swept \ {v} : <<k, entries[k].id>> \in Conversations'
    PROVE  DropIsLegal
<1>1. \A x \in Stored : now \in Int /\ entries[x].touched \in Int
  BY DEF IInv, TypeOK, Entry
<1>2. Swept = {x \in Stored : entries[x].busy \/ now - entries[x].touched < TTL}
  BY <1>1, TimeAssumption DEF Swept, Expired
<1>3. Cardinality(Swept) = Capacity
  <2>1. Swept \in SUBSET Stored  BY DEF Swept
  <2>2. Cardinality(Swept) \in Nat /\ Cardinality(Swept) <= Cardinality(Stored) /\ Cardinality(Stored) \in Nat
    BY <2>1, StoredFinite, FS_CardinalityType DEF IInv
  <2> QED  BY <2>2, CapacityAssumption DEF IInv, CapacityBound
<1>4. ~entries[v].busy  BY DEF IsVictim
<1>5. \A x \in Swept : ~entries[x].busy => entries[x].touched >= entries[v].touched
  <2>1. v \in Stored  BY DEF IsVictim, Swept
  <2>2. \A x \in Swept : ~entries[x].busy /\ x # v => entries[x].touched >= entries[v].touched
    BY <2>1 DEF IsVictim, IInv, RecencyOrder, Swept
  <2>3. entries[v].touched >= entries[v].touched  BY <1>1, <2>1
  <2> QED  BY <2>2, <2>3
<1>6. ASSUME NEW k \in Stored, <<k, entries[k].id>> \notin Conversations'
      PROVE  k \notin Swept \/ k = v
  BY <1>6
<1>7. \A x \in Stored : x \notin Swept => ~entries[x].busy /\ now - entries[x].touched >= TTL
  BY <1>1, <1>2 DEF Swept, Expired
<1>8. \A x \in Stored : ~entries[x].busy /\ now - entries[x].touched < TTL => x \in Swept
  BY <1>2
<1> QED  BY <1>2, <1>3, <1>4, <1>5, <1>6, <1>7, <1>8 DEF DropIsLegal

(* A lease keeps every surviving conversation.                              *)
LEMMA LeaseKeeps ==
    ASSUME IInv, NEW S, S \subseteq Stored, NEW t, NEW k, NEW id, Lease(t, k, id, S),
           k \in S => id = entries[k].id
    PROVE  /\ \A x \in S : <<x, entries[x].id>> \in Conversations'
           /\ Conversations' = {<<x, entries[x].id>> : x \in S \ {k}} \cup {<<k, id>>}
<1>1. /\ Stored' = S \cup {k}
      /\ entries'[k].id = id
      /\ \A x \in S \ {k} : entries'[x] = entries[x]
  BY DEF Lease, Stored
<1> QED  BY <1>1 DEF Conversations

(* So does a refusal.                                                       *)
LEMMA RefuseKeeps ==
    ASSUME IInv, NEW S, S \subseteq Stored, Refuse(S)
    PROVE  /\ \A x \in S : <<x, entries[x].id>> \in Conversations'
           /\ Conversations' = {<<x, entries[x].id>> : x \in S}
<1>1. Stored' = S /\ \A x \in S : entries'[x] = entries[x]
  BY DEF Refuse, Stored
<1> QED  BY <1>1 DEF Conversations

(* The first call of a release changes no conversation.                     *)
LEMMA ReleaseKeeps ==
    ASSUME IInv, NEW t \in Turns, Release(t)
    PROVE  Conversations' = Conversations
<1> DEFINE k == handle[t].key
<1>1. k \in Stored /\ entries[k].id = handle[t].id
  BY DEF Release, IInv, LeaseInv
<1>2. entries' = [entries EXCEPT ![k] = [@ EXCEPT !.busy = FALSE, !.touched = now]]
  BY <1>1 DEF Release, Unlease
<1>3. Stored' = Stored  BY <1>2 DEF Stored
<1>4. entries[k] \in Entry  BY <1>1 DEF IInv, TypeOK
<1>5. entries'[k].id = entries[k].id  BY <1>1, <1>2, <1>4 DEF IInv, TypeOK, Entry, Stored
<1>6. \A x \in Stored : entries'[x].id = entries[x].id
  BY <1>1, <1>2, <1>5 DEF IInv, TypeOK
<1> QED  BY <1>3, <1>6 DEF Conversations

(* Every step of the store drops conversations legally.                     *)
LEMMA StepDropsLegally == IInv /\ [Next]_vars => [DropIsLegal]_vars
<1> SUFFICES ASSUME IInv, Next PROVE DropIsLegal \/ UNCHANGED vars
  OBVIOUS
<1>0. Swept \subseteq Stored  BY DEF Swept
<1>1. ASSUME NEW t \in Turns, NEW k \in Keys, Acquire(t, k) PROVE DropIsLegal
  <2>1. CASE AcquireBusy(t, k) \/ AcquireSaturated(t, k)
    <3>1. Refuse(Swept)  BY <2>1 DEF AcquireBusy, AcquireSaturated
    <3> QED  BY <1>0, <3>1, RefuseKeeps, SweepIsLegal
  <2>2. CASE AcquireKnown(t, k)
    <3>1. Lease(t, k, entries[k].id, Swept)  BY <2>2 DEF AcquireKnown
    <3> QED  BY <1>0, <3>1, LeaseKeeps, SweepIsLegal
  <2>3. CASE AcquireNew(t, k)
    <3>1. k \notin Swept /\ Lease(t, k, minted + 1, Swept)
      BY <2>3 DEF AcquireNew, LeaseNew
    <3> QED  BY <1>0, <3>1, LeaseKeeps, SweepIsLegal
  <2>4. CASE AcquireEvict(t, k)
    <3>1. PICK v \in Swept : IsVictim(v, Swept) /\ Lease(t, k, minted + 1, Swept \ {v})
      BY <2>4 DEF AcquireEvict, LeaseNew
    <3>2. k \notin Swept \ {v} /\ Cardinality(Swept) >= Capacity /\ Swept \ {v} \subseteq Stored
      BY <2>4, <1>0 DEF AcquireEvict
    <3>3. \A x \in Swept \ {v} : <<x, entries[x].id>> \in Conversations'
      BY <3>1, <3>2, LeaseKeeps
    <3> QED  BY <3>1, <3>2, <3>3, EvictionIsLegal
  <2> QED  BY <1>1, <2>1, <2>2, <2>3, <2>4 DEF Acquire
<1>2. ASSUME NEW t \in Turns, Release(t) PROVE DropIsLegal
  <2>1. Conversations' = Conversations  BY <1>2, ReleaseKeeps
  <2> QED  BY <2>1 DEF DropIsLegal, Conversations
<1>3. ASSUME NEW t \in Turns, ReleaseAgain(t) PROVE UNCHANGED vars
  BY <1>3 DEF ReleaseAgain
<1>4. CASE Tick
  <2>1. Conversations' = Conversations  BY <1>4 DEF Tick, Conversations, Stored
  <2> QED  BY <2>1 DEF DropIsLegal, Conversations
<1> QED  BY <1>1, <1>2, <1>3, <1>4 DEF Next

(* A conversation is dropped only when idle, and only for age or as the     *)
(* least recently used one of a full store.                                 *)
THEOREM DropsAreLegal == Spec => OnlyLegalDrops
<1>1. IInv /\ [Next]_vars => [DropIsLegal]_vars  BY StepDropsLegally
<1> QED  BY <1>1, Invariance, PTL DEF Spec, OnlyLegalDrops

--------------------------------------------------------------------------------
(* Refinement                                                               *)

(* The empty store is the empty abstract state.                             *)
LEMMA InitRefines == Init => Abstract!Init
<1> SUFFICES ASSUME Init PROVE Abstract!Init  OBVIOUS
<1>1. Stored = {} /\ minted = 0 /\ handle = [t \in Turns |-> NoHandle]
  BY DEF Init, Stored
<1>2. Conversations = {}  BY <1>1 DEF Conversations
<1>3. 1 .. minted = {}  BY <1>1
<1>4. [t \in Turns |-> IF Holds(t) THEN <<handle[t].key, handle[t].id>> ELSE NoHandle]
        = [t \in Turns |-> NoHandle]
  BY <1>1 DEF Holds
<1> QED  BY <1>2, <1>3, <1>4 DEF Abstract!Init

(* The abstract lease of a turn, as LeaseSpec's mapping has it.             *)
LeaseOf(t) == IF Holds(t) THEN <<handle[t].key, handle[t].id>> ELSE NoHandle

(* What is held is a pair, stored, and of a busy entry.                     *)
LEMMA HeldIsBusy ==
    ASSUME IInv
    PROVE  \A h \in Abstract!Held : \E k \in Stored : entries[k].busy /\ h = <<k, entries[k].id>>
  BY DEF IInv, LeaseInv, Abstract!Held

(* A surviving set of entries is a legal choice of what to remember.        *)
LEMMA SurvivorsKeepHeld ==
    ASSUME IInv, NEW S, Survivors(S)
    PROVE  /\ {<<x, entries[x].id>> : x \in S} \subseteq Conversations
           /\ Abstract!Held \subseteq {<<x, entries[x].id>> : x \in S}
  BY HeldIsBusy DEF Survivors, Conversations

(* A refused acquire is an abstract refusal.                                *)
LEMMA RefuseRefines ==
    ASSUME IInv, NEW S, Survivors(S), Refuse(S)
    PROVE  Abstract!Refuse
<1>1. Conversations' = {<<x, entries[x].id>> : x \in S}
  BY RefuseKeeps DEF Survivors
<1>2. handle' = handle /\ minted' = minted  BY DEF Refuse
<1>3. Abstract!Forget
  BY <1>1, SurvivorsKeepHeld DEF Abstract!Forget
<1>4. [t \in Turns |-> LeaseOf(t)]' = [t \in Turns |-> LeaseOf(t)]
  BY <1>2 DEF LeaseOf, Holds
<1> QED  BY <1>2, <1>3, <1>4 DEF Abstract!Refuse, LeaseOf

(* A granted acquire is an abstract grant.                                  *)
LEMMA LeaseRefines ==
    ASSUME IInv, NEW S, Survivors(S),
           NEW t \in Turns, NEW k \in Keys, NEW id \in Ids,
           ~Holds(t), k \in Stored => ~entries[k].busy,
           Lease(t, k, id, S),
           \/ k \in S /\ id = entries[k].id /\ minted' = minted
           \/ k \notin S /\ id = minted + 1 /\ minted' = minted + 1
    PROVE  Abstract!Grant(t, k, id)
<1> DEFINE kept == {<<x, entries[x].id>> : x \in S \ {k}}
<1>0. minted \in Nat  BY DEF IInv, TypeOK
<1>1. Conversations' = kept \cup {<<k, id>>}
  BY LeaseKeeps DEF Survivors
<1>2. kept \subseteq Conversations /\ Abstract!Held \subseteq kept
  <2>1. Survivors(S \ {k})  BY DEF Survivors
  <2> QED  BY <2>1, SurvivorsKeepHeld
<1>3. \A p \in kept : p[1] # k  OBVIOUS
<1>4. \A h \in Abstract!Held : h[1] # k  BY <1>2, <1>3
<1>5. /\ handle'[t] = [key |-> k, id |-> id, live |-> TRUE]
      /\ \A u \in Turns \ {t} : handle'[u] = handle[u]
  BY DEF Lease, IInv, TypeOK
<1>6. [u \in Turns |-> LeaseOf(u)]' = [[u \in Turns |-> LeaseOf(u)] EXCEPT ![t] = <<k, id>>]
  <2>1. [key |-> k, id |-> id, live |-> TRUE] # NoHandle
    <3>1. [key |-> k, id |-> id, live |-> TRUE] \in [key : Keys, id : 1 .. MaxIds, live : BOOLEAN]
      BY DEF Ids
    <3> QED  BY <3>1, HandleAssumption
  <2>2. LeaseOf(t)' = <<k, id>>  BY <1>5, <2>1 DEF LeaseOf, Holds
  <2>3. \A u \in Turns \ {t} : LeaseOf(u)' = LeaseOf(u)  BY <1>5 DEF LeaseOf, Holds
  <2> QED  BY <2>2, <2>3
<1>7. \/ <<k, id>> \in Conversations /\ (1 .. minted)' = 1 .. minted
      \/ id \notin 1 .. minted /\ (1 .. minted)' = (1 .. minted) \cup {id}
  <2>1. CASE k \in S /\ id = entries[k].id /\ minted' = minted
    BY <2>1 DEF Conversations, Survivors
  <2>2. CASE k \notin S /\ id = minted + 1 /\ minted' = minted + 1
    BY <2>2, <1>0
  <2> QED  BY <2>1, <2>2
<1>8. LeaseOf(t) = NoHandle  BY DEF LeaseOf
<1> QED  BY <1>1, <1>2, <1>3, <1>4, <1>6, <1>7, <1>8 DEF Abstract!Grant, LeaseOf

(* Every return of acquire is an abstract step.                             *)
LEMMA AcquireRefines ==
    ASSUME IInv, NEW t \in Turns, NEW k \in Keys, Acquire(t, k)
    PROVE  Abstract!Next
<1>0. Survivors(Swept) /\ Swept \subseteq Stored  BY SweptSurvives DEF Swept
<1>1. CASE AcquireBusy(t, k) \/ AcquireSaturated(t, k)
  BY <1>0, <1>1, RefuseRefines DEF AcquireBusy, AcquireSaturated, Abstract!Next
<1>2. CASE AcquireKnown(t, k)
  <2>1. /\ k \in Swept /\ ~entries[k].busy /\ ~Holds(t)
        /\ Lease(t, k, entries[k].id, Swept) /\ minted' = minted
    BY <1>2 DEF AcquireKnown
  <2>2. entries[k].id \in Ids  BY <1>0, <2>1 DEF IInv, TypeOK, Entry
  <2>3. PICK id \in Ids : id = entries[k].id  BY <2>2
  <2>4. Abstract!Grant(t, k, id)
    <3>1. Lease(t, k, id, Swept)  BY <2>1, <2>3
    <3> QED  BY <1>0, <2>1, <2>3, <3>1, LeaseRefines
  <2> QED  BY <2>3, <2>4 DEF Abstract!Next
<1>3. CASE AcquireNew(t, k) \/ AcquireEvict(t, k)
  <2>1. PICK S \in SUBSET Swept : Survivors(S) /\ LeaseNew(t, k, S)
    BY <1>0, <1>3 DEF AcquireNew, AcquireEvict, IsVictim, Survivors
  <2>2. ~Holds(t) /\ k \notin S /\ (k \in Stored => ~entries[k].busy)
    BY <1>0, <1>3, <2>1 DEF AcquireNew, AcquireEvict, Survivors
  <2>3. minted + 1 \in Ids
    BY <2>1, IdsAssumption DEF LeaseNew, IInv, TypeOK, Ids
  <2>4. PICK id \in Ids : id = minted + 1  BY <2>3
  <2>5. Lease(t, k, id, S) /\ minted' = minted + 1  BY <2>1, <2>4 DEF LeaseNew
  <2>6. Abstract!Grant(t, k, id)
    BY <2>1, <2>2, <2>4, <2>5, LeaseRefines
  <2> QED  BY <2>4, <2>6 DEF Abstract!Next
<1> QED  BY <1>1, <1>2, <1>3 DEF Acquire

(* The first call of a release is an abstract finish.                       *)
LEMMA ReleaseRefines ==
    ASSUME IInv, NEW t \in Turns, Release(t)
    PROVE  Abstract!Finish(t)
<1>1. Conversations' = Conversations /\ minted' = minted
  BY ReleaseKeeps DEF Release
<1>2. Holds(t) /\ handle' = [handle EXCEPT ![t].live = FALSE]
  BY DEF Release
<1>3. handle[t] \in Handle  BY <1>2 DEF IInv, TypeOK, Holds
<1>4. handle'[t].live = FALSE /\ \A u \in Turns \ {t} : handle'[u] = handle[u]
  BY <1>2, <1>3 DEF IInv, TypeOK, Handle
<1>5. LeaseOf(t)' = NoHandle /\ \A u \in Turns \ {t} : LeaseOf(u)' = LeaseOf(u)
  BY <1>4 DEF LeaseOf, Holds
<1>6. [u \in Turns |-> LeaseOf(u)]' = [[u \in Turns |-> LeaseOf(u)] EXCEPT ![t] = NoHandle]
  BY <1>5
<1>7. LeaseOf(t) # NoHandle
  <2>1. <<handle[t].key, handle[t].id>> \in Keys \X (1 .. MaxIds)
    BY <1>3 DEF Handle, Ids
  <2> QED  BY <2>1, <1>2, HandleAssumption DEF LeaseOf
<1> QED  BY <1>1, <1>6, <1>7 DEF Abstract!Finish, LeaseOf

(* Every step is an abstract step or a stutter.                             *)
LEMMA StepRefines == IInv /\ [Next]_vars => [Abstract!Next]_(Abstract!vars)
<1> SUFFICES ASSUME IInv, [Next]_vars PROVE Abstract!Next \/ UNCHANGED Abstract!vars
  OBVIOUS
<1>1. CASE UNCHANGED vars
  BY <1>1 DEF vars, Abstract!vars, Conversations, Stored, Holds
<1>2. ASSUME NEW t \in Turns, NEW k \in Keys, Acquire(t, k) PROVE Abstract!Next
  BY <1>2, AcquireRefines
<1>3. ASSUME NEW t \in Turns, Release(t) PROVE Abstract!Next
  BY <1>3, ReleaseRefines DEF Abstract!Next
<1>4. ASSUME NEW t \in Turns, ReleaseAgain(t) PROVE UNCHANGED Abstract!vars
  <2>1. UNCHANGED vars  BY <1>4 DEF ReleaseAgain
  <2> QED  BY <2>1 DEF vars, Abstract!vars, Conversations, Stored, Holds
<1>5. CASE Tick
  BY <1>5 DEF Tick, Abstract!vars, Conversations, Stored, Holds
<1> QED  BY <1>1, <1>2, <1>3, <1>4, <1>5 DEF Next

(* Every behaviour of the store is a behaviour of the abstract lease.       *)
THEOREM Refinement == Spec => LeaseSpec
<1>1. Init => Abstract!Init  BY InitRefines
<1>2. IInv /\ [Next]_vars => [Abstract!Next]_(Abstract!vars)  BY StepRefines
<1> QED  BY <1>1, <1>2, Invariance, PTL DEF Spec, LeaseSpec, Abstract!Spec
================================================================================
