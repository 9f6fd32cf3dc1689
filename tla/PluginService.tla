------------------------------ MODULE PluginService ------------------------------
(***************************************************************************)
(* What the library promises to the host that loads it, with no word about *)
(* threads, locks or wait groups: it serves at most one instance at a time.*)
(* Work is admitted to the instance that is served, until it is asked to   *)
(* stop; callbacks are made with the pointer of that instance, and by work *)
(* in progress only; and the instance is given up once no work is left.    *)
(* An instance and the host pointer it was initialized with have one       *)
(* number, and no number comes back.                                       *)
(***************************************************************************)
EXTENDS Naturals

CONSTANTS Workers    \* calls and streams

VARIABLES served,    \* the instance served, 0 while there is none
          last,      \* the newest instance there ever was
          open,      \* the instance served admits work
          work,      \* <<worker, instance>> in progress
          callbacks  \* <<worker, host pointer>> in use by the host's code

vars == <<served, last, open, work, callbacks>>

Init == served = 0 /\ last = 0 /\ open = FALSE /\ work = {} /\ callbacks = {}

(* A fresh instance, with a fresh pointer, and open.                        *)
Load == /\ served = 0
        /\ last' = last + 1 /\ served' = last + 1 /\ open' = TRUE
        /\ UNCHANGED <<work, callbacks>>

Admit(a) == /\ open
            /\ <<a, served>> \notin work
            /\ work' = work \cup {<<a, served>>}
            /\ UNCHANGED <<served, last, open, callbacks>>

CallHost(a) == /\ <<a, served>> \in work
               /\ <<a, served>> \notin callbacks
               /\ callbacks' = callbacks \cup {<<a, served>>}
               /\ UNCHANGED <<served, last, open, work>>

HostReturns(a) == /\ <<a, served>> \in callbacks
                  /\ callbacks' = callbacks \ {<<a, served>>}
                  /\ UNCHANGED <<served, last, open, work>>

Finish(a) == /\ <<a, served>> \in work
             /\ <<a, served>> \notin callbacks
             /\ work' = work \ {<<a, served>>}
             /\ UNCHANGED <<served, last, open, callbacks>>

Stop == /\ open
        /\ open' = FALSE
        /\ UNCHANGED <<served, last, work, callbacks>>

Unload == /\ served # 0 /\ ~open
          /\ work = {} /\ callbacks = {}
          /\ served' = 0
          /\ UNCHANGED <<last, open, work, callbacks>>

Next == \/ Load \/ Stop \/ Unload
        \/ \E a \in Workers : Admit(a) \/ CallHost(a) \/ HostReturns(a) \/ Finish(a)

Spec == Init /\ [][Next]_vars
================================================================================
