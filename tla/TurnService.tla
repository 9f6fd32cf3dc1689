------------------------------ MODULE TurnService ------------------------------
(***************************************************************************)
(* What the executor promises of its turns to the client, the gateway and  *)
(* the host, with no word about sessions, goroutines or deadlines.         *)
(*                                                                         *)
(* A turn begins only while the plugin is up.  It talks to the gateway in  *)
(* a conversation that nobody else talks in, and hangs up.  A turn that is *)
(* accepted while it talks owns a stream of the host's.  It writes one     *)
(* frame at a time, and decides on a frame only while the plugin is up: of *)
(* each stream, one frame at most is still to be written when the plugin   *)
(* is asked to stop.  It closes the stream once, and it can neither hang   *)
(* up nor end before that.  The plugin is down when no turn is left.       *)
(***************************************************************************)
CONSTANTS Turns, Conversations

VARIABLES phase,   \* the plugin is up, stopping or down
          busy,    \* turns that have begun and not ended
          talks,   \* <<turn, conversation>> in progress with the gateway
          stream   \* turn -> its stream is none, open, due (a frame is decided on),
                   \* writing or closed

vars == <<phase, busy, talks, stream>>

Talking(t) == \E c \in Conversations : <<t, c>> \in talks

Becomes(t, old, new) == stream[t] = old /\ stream' = [stream EXCEPT ![t] = new]

Init == /\ phase = "up"
        /\ busy = {} /\ talks = {}
        /\ stream = [t \in Turns |-> "none"]

(* A turn is over when it ends; its name may be used for another.           *)
Begin(t) == /\ phase = "up"
            /\ t \notin busy
            /\ busy' = busy \cup {t}
            /\ stream' = [stream EXCEPT ![t] = "none"]
            /\ UNCHANGED <<phase, talks>>

Connect(t, c) == /\ t \in busy /\ ~Talking(t)
                 /\ \A p \in talks : p[2] # c
                 /\ stream[t] = "none"
                 /\ talks' = talks \cup {<<t, c>>}
                 /\ UNCHANGED <<phase, busy, stream>>

Accept(t) == Talking(t) /\ Becomes(t, "none", "open") /\ UNCHANGED <<phase, busy, talks>>

Decide(t) == phase = "up" /\ Becomes(t, "open", "due") /\ UNCHANGED <<phase, busy, talks>>

Write(t) == Becomes(t, "due", "writing") /\ UNCHANGED <<phase, busy, talks>>

Written(t) == Becomes(t, "writing", "open") /\ UNCHANGED <<phase, busy, talks>>

Close(t) == Becomes(t, "open", "closed") /\ UNCHANGED <<phase, busy, talks>>

HangUp(t, c) == /\ <<t, c>> \in talks
                /\ stream[t] \in {"none", "closed"}
                /\ talks' = talks \ {<<t, c>>}
                /\ UNCHANGED <<phase, busy, stream>>

End(t) == /\ t \in busy /\ ~Talking(t)
          /\ stream[t] \in {"none", "closed"}
          /\ busy' = busy \ {t}
          /\ UNCHANGED <<phase, talks, stream>>

Stop == phase = "up" /\ phase' = "stopping" /\ UNCHANGED <<busy, talks, stream>>

Drained == phase = "stopping" /\ busy = {} /\ phase' = "down" /\ UNCHANGED <<busy, talks, stream>>

Turn(t) == \/ Begin(t) \/ Accept(t) \/ Decide(t) \/ Write(t) \/ Written(t) \/ Close(t) \/ End(t)
           \/ \E c \in Conversations : Connect(t, c) \/ HangUp(t, c)

Next == Stop \/ Drained \/ \E t \in Turns : Turn(t)

Spec == Init /\ [][Next]_vars
================================================================================
