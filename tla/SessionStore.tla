------------------------------ MODULE SessionStore ------------------------------
(***************************************************************************)
(* The session store of go/session.go: a map from session keys to upstream *)
(* conversation identifiers, with a least-recently-used list, a time to    *)
(* live, a capacity and one lease per key.                                 *)
(*                                                                         *)
(* acquire and release run under sessionStore.mu from end to end, so each  *)
(* is one action here; the interleavings are those of whole calls made by  *)
(* concurrent turns.  The five returns of acquire are five actions, all of *)
(* them preceded by the sweep of expired entries.                          *)
(*                                                                         *)
(* The list.List is the strict total order `ahead' on the stored keys:     *)
(* <<a, b>> \in ahead when a is nearer the front than b.  An entry's       *)
(* identifier also stands for the entry's address: the release closure     *)
(* holds the entry itself, and an entry that left the map is no longer     *)
(* reached through its key.                                                *)
(***************************************************************************)
EXTENDS Integers, FiniteSets

CONSTANTS Keys,      \* session keys: (caller, auth, id) triples
          Turns,     \* concurrent executor requests
          Capacity,  \* sessionCapacity
          TTL,       \* sessionTTL, in clock units
          MaxNow,    \* bound: the clock stops here
          MaxIds,    \* bound: newUUID is called at most this often
          NoHandle   \* a turn that never acquired

ASSUME CapacityAssumption == Capacity \in Nat \ {0}
ASSUME TimeAssumption     == TTL \in Nat \ {0} /\ MaxNow \in Nat
ASSUME IdsAssumption      == MaxIds \in Nat
ASSUME KeysAssumption     == IsFiniteSet(Keys)
ASSUME HandleAssumption   == /\ NoHandle \notin [key : Keys, id : 1 .. MaxIds, live : BOOLEAN]
                             /\ NoHandle \notin Keys \X (1 .. MaxIds)

VARIABLES entries,  \* s.entries: stored key -> [id, touched, busy]
          ahead,    \* s.lru
          now,      \* s.now()
          minted,   \* number of newUUID() results handed to entries so far
          handle    \* turn -> its release closure: [key, id, live], live until once fires

vars == <<entries, ahead, now, minted, handle>>

--------------------------------------------------------------------------------
(* State predicates and helpers                                             *)

Ids    == 1 .. MaxIds
Entry  == [id : Ids, touched : 0 .. MaxNow, busy : BOOLEAN]
Handle == [key : Keys, id : Ids, live : BOOLEAN]

Stored == DOMAIN entries

ExpiredThoughBusy(k) == now - entries[k].touched >= TTL

Expired(k) == ~entries[k].busy /\ now - entries[k].touched >= TTL

(* What is left once acquire has walked the list from the back.             *)
Swept == {k \in Stored : ~Expired(k)}

(* The list without the keys that are not in S.                             *)
ListOf(S) == ahead \cap (S \X S)

(* MoveToFront (or PushFront) of k in the list of the keys in S.            *)
WithFront(k, S) == ListOf(S \ {k}) \cup ({k} \X (S \ {k}))

IsFirstIdle(v, S) == /\ v \in S /\ ~entries[v].busy
                     /\ \A x \in S \ {v} : ~entries[x].busy => <<v, x>> \in ahead

(* The first entry that is not busy, searched from the back of the list.    *)
IsVictim(v, S) == /\ v \in S /\ ~entries[v].busy
                  /\ \A x \in S \ {v} : ~entries[x].busy => <<x, v>> \in ahead

Holds(t) == handle[t] # NoHandle /\ handle[t].live

--------------------------------------------------------------------------------
(* acquire                                                                  *)

(* The map and the list keep the entries of S; nothing is granted.          *)
Refuse(S) == /\ entries' = [x \in S |-> entries[x]]
             /\ ahead' = ListOf(S)
             /\ UNCHANGED <<now, minted, handle>>

(* The map and the list keep S, and k is leased to t with conversation id.  *)
Lease(t, k, id, S) ==
    /\ entries' = [x \in S \cup {k} |->
                     IF x = k THEN [id |-> id, touched |-> now, busy |-> TRUE]
                              ELSE entries[x]]
    /\ ahead' = WithFront(k, S \cup {k})
    /\ handle' = [handle EXCEPT ![t] = [key |-> k, id |-> id, live |-> TRUE]]
    /\ UNCHANGED now

LeaseNew(t, k, S) == /\ minted < MaxIds
                     /\ minted' = minted + 1
                     /\ Lease(t, k, minted + 1, S)

AcquireBusy(t, k) == /\ ~Holds(t)
                     /\ k \in Swept /\ entries[k].busy
                     /\ Refuse(Swept)

AcquireKnown(t, k) == /\ ~Holds(t)
                      /\ k \in Swept /\ ~entries[k].busy
                      /\ Lease(t, k, entries[k].id, Swept)
                      /\ UNCHANGED minted

AcquireNewOverfull(t, k) == /\ ~Holds(t)
                            /\ k \notin Swept
                            /\ Cardinality(Swept) <= Capacity
                            /\ LeaseNew(t, k, Swept)

AcquireNew(t, k) == /\ ~Holds(t)
                    /\ k \notin Swept
                    /\ Cardinality(Swept) < Capacity
                    /\ LeaseNew(t, k, Swept)

AcquireEvict(t, k) == /\ ~Holds(t)
                      /\ k \notin Swept
                      /\ Cardinality(Swept) >= Capacity
                      /\ \E v \in Swept : IsVictim(v, Swept) /\ LeaseNew(t, k, Swept \ {v})

AcquireSaturated(t, k) == /\ ~Holds(t)
                          /\ k \notin Swept
                          /\ Cardinality(Swept) >= Capacity
                          /\ \A v \in Swept : entries[v].busy
                          /\ Refuse(Swept)

Acquire(t, k) == \/ AcquireBusy(t, k)
                 \/ AcquireKnown(t, k)
                 \/ AcquireNew(t, k)
                 \/ AcquireEvict(t, k)
                 \/ AcquireSaturated(t, k)

--------------------------------------------------------------------------------
(* The release closure, guarded by a sync.Once                              *)

UnleaseInPlace(k, id) ==
    IF k \in Stored /\ entries[k].id = id
    THEN /\ entries' = [entries EXCEPT ![k] = [@ EXCEPT !.busy = FALSE, !.touched = now]]
         /\ UNCHANGED ahead
    ELSE UNCHANGED <<entries, ahead>>

(* What the closure does to its entry, v: v.busy = false, v.touched = now,  *)
(* and a move to the front.  Nothing of the store changes when the entry    *)
(* has left the map.                                                        *)
Unlease(k, id) ==
    IF k \in Stored /\ entries[k].id = id
    THEN /\ entries' = [entries EXCEPT ![k] = [@ EXCEPT !.busy = FALSE, !.touched = now]]
         /\ ahead' = WithFront(k, Stored)
    ELSE UNCHANGED <<entries, ahead>>

Release(t) == /\ Holds(t)
              /\ Unlease(handle[t].key, handle[t].id)
              /\ handle' = [handle EXCEPT ![t].live = FALSE]
              /\ UNCHANGED <<now, minted>>

ReleaseTwice(t) == /\ handle[t] # NoHandle /\ ~handle[t].live
                   /\ Unlease(handle[t].key, handle[t].id)
                   /\ UNCHANGED <<now, minted, handle>>

(* A second call of the same closure.                                       *)
ReleaseAgain(t) == /\ handle[t] # NoHandle /\ ~handle[t].live
                   /\ UNCHANGED vars

--------------------------------------------------------------------------------

Tick == /\ now < MaxNow
        /\ now' = now + 1
        /\ UNCHANGED <<entries, ahead, minted, handle>>

Init == /\ entries = [k \in {} |-> 0]
        /\ ahead = {}
        /\ now = 0
        /\ minted = 0
        /\ handle = [t \in Turns |-> NoHandle]

Next == \/ \E t \in Turns, k \in Keys : Acquire(t, k)
        \/ \E t \in Turns : Release(t) \/ ReleaseAgain(t)
        \/ Tick

Spec == Init /\ [][Next]_vars

--------------------------------------------------------------------------------
(* Properties                                                               *)

(* The map, the list and the closures have their types, and the list ranges *)
(* over exactly the keys of the map: the two structures that acquire edits  *)
(* by hand never drift apart.                                               *)
TypeOK == /\ Stored \subseteq Keys
          /\ entries \in [Stored -> Entry]
          /\ ahead \subseteq Stored \X Stored
          /\ now \in 0 .. MaxNow
          /\ minted \in 0 .. MaxIds
          /\ handle \in [Turns -> Handle \cup {NoHandle}]

(* A turn that holds a lease finds its entry in the map, busy and with the  *)
(* conversation it was given; an entry is busy only while a turn holds it;  *)
(* and two turns never hold one key or one conversation.  This is what      *)
(* "active entries cannot expire or be evicted" (session.go:43) is for.     *)
LeaseInv ==
    /\ \A t \in Turns : Holds(t) =>
          /\ handle[t].key \in Stored
          /\ entries[handle[t].key].busy
          /\ entries[handle[t].key].id = handle[t].id
    /\ \A k \in Stored : entries[k].busy => \E t \in Turns : Holds(t) /\ handle[t].key = k
    /\ \A t, u \in Turns : Holds(t) /\ Holds(u) /\ t # u =>
          handle[t].key # handle[u].key /\ handle[t].id # handle[u].id

(* The list is a strict total order of the stored keys by last use: what is *)
(* nearer the front was touched no earlier.  The sweep and the search for a *)
(* victim both rely on it.                                                  *)
RecencyOrder ==
    /\ \A a, b \in Stored : a # b => (<<a, b>> \in ahead <=> <<b, a>> \notin ahead)
    /\ \A a \in Stored : <<a, a>> \notin ahead
    /\ \A a, b, c \in Stored : <<a, b>> \in ahead /\ <<b, c>> \in ahead => <<a, c>> \in ahead
    /\ \A a, b \in Stored : <<a, b>> \in ahead => entries[a].touched >= entries[b].touched

(* The store never holds more than its capacity.                            *)
CapacityBound == Cardinality(Stored) <= Capacity

(* Every stored conversation was minted, none twice, and no entry was       *)
(* touched in the future.  Not a promise of its own: the strengthening that *)
(* makes the invariants above inductive.                                    *)
IdsMinted == /\ \A k \in Stored : entries[k].id <= minted /\ entries[k].touched <= now
             /\ \A a, b \in Stored : a # b => entries[a].id # entries[b].id

IInv == TypeOK /\ LeaseInv /\ RecencyOrder /\ CapacityBound /\ IdsMinted

Conversations == {<<k, entries[k].id>> : k \in Stored}

DropIsLegal ==
    \A k \in Stored : <<k, entries[k].id>> \notin Conversations' =>
        /\ ~entries[k].busy
        /\ \/ now - entries[k].touched >= TTL
           \/ /\ Cardinality({x \in Stored : entries[x].busy \/ now - entries[x].touched < TTL}) = Capacity
              /\ \A x \in Stored : ~entries[x].busy /\ now - entries[x].touched < TTL =>
                    entries[x].touched >= entries[k].touched

(* A conversation is dropped only when nobody uses it, and then either it   *)
(* was idle for the time to live, or the store was full of unexpired        *)
(* entries and no idle one had been used less recently.                     *)
OnlyLegalDrops == [][DropIsLegal]_vars

(* The store implements the abstract lease.                                 *)
Abstract == INSTANCE SessionLease WITH
    Ids     <- Ids,
    NoLease <- NoHandle,
    known   <- Conversations,
    used    <- 1 .. minted,
    lease   <- [t \in Turns |-> IF Holds(t) THEN <<handle[t].key, handle[t].id>> ELSE NoHandle]

(* Every behaviour of the store is a behaviour of the abstract lease.       *)
LeaseSpec == Abstract!Spec
================================================================================
