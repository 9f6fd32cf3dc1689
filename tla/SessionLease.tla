------------------------------ MODULE SessionLease ------------------------------
(***************************************************************************)
(* What the session store of go/session.go promises to its callers, with   *)
(* no word about lists, clocks or capacity.  A turn that presents a        *)
(* session key is granted the upstream conversation of that key, alone, or *)
(* refused.  The conversation is the one the key already has or one that   *)
(* no key ever had.  Conversations may be forgotten, but never one that a  *)
(* turn is using.                                                          *)
(***************************************************************************)
EXTENDS Naturals

CONSTANTS Keys,     \* session keys: (caller, auth, id) triples
          Turns,    \* concurrent executor requests
          Ids,      \* upstream conversation identifiers
          NoLease   \* a turn that holds nothing

VARIABLES known,    \* set of <<key, conversation>> pairs remembered
          used,     \* conversations ever created
          lease     \* turn -> the <<key, conversation>> it holds, or NoLease

vars == <<known, used, lease>>

Held == {lease[t] : t \in Turns} \ {NoLease}

Init == /\ known = {}
        /\ used = {}
        /\ lease = [t \in Turns |-> NoLease]

(* Whatever is held stays known; nothing else is promised to be remembered. *)
Forget == \E kept \in SUBSET known : Held \subseteq kept /\ known' = kept

Grant(t, k, c) ==
    /\ lease[t] = NoLease
    /\ \A h \in Held : h[1] # k
    /\ \/ <<k, c>> \in known /\ used' = used
       \/ c \notin used /\ used' = used \cup {c}
    /\ \E kept \in SUBSET known :
          /\ Held \subseteq kept
          /\ \A p \in kept : p[1] = k => p[2] = c
          /\ known' = kept \cup {<<k, c>>}
    /\ lease' = [lease EXCEPT ![t] = <<k, c>>]

Refuse == Forget /\ UNCHANGED <<used, lease>>

Finish(t) == /\ lease[t] # NoLease
             /\ lease' = [lease EXCEPT ![t] = NoLease]
             /\ UNCHANGED <<known, used>>

Next == \/ \E t \in Turns, k \in Keys, c \in Ids : Grant(t, k, c)
        \/ Refuse
        \/ \E t \in Turns : Finish(t)

Spec == Init /\ [][Next]_vars
================================================================================
