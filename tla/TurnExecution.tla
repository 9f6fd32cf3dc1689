----------------------------- MODULE TurnExecution -----------------------------
(***************************************************************************)
(* A turn, from admission to the end of its tasks: go/executor.go and      *)
(* go/stream.go on one plugin instance, composed with the session store.   *)
(*                                                                         *)
(* A turn is buffered (executor.execute, or executor.execute_stream with   *)
(* no stream id) or relayed (executor.execute_stream with one).  Which of  *)
(* the two makes no difference to its preparation, and is chosen where the *)
(* code's paths part.  A relayed turn outlives its RPC: once the gateway   *)
(* has accepted the request, a goroutine owns the response body, the lease *)
(* and a task of its own, while the RPC returns.  A turn therefore has two *)
(* program counters.                                                       *)
(*                                                                         *)
(* The store is instantiated as it is; a turn only calls it.  A turn       *)
(* without a session key talks to the gateway under an identifier that no  *)
(* other turn has: here, its own name.                                     *)
(***************************************************************************)
EXTENDS Integers, FiniteSets

CONSTANTS Keys, Turns, Capacity, TTL, MaxNow, MaxIds, NoHandle,  \* as in SessionStore
          NoKey        \* explicitSessionKey found no identity

ASSUME StoreAssumption == /\ Capacity \in Nat \ {0} /\ TTL \in Nat \ {0}
                          /\ MaxNow \in Nat /\ MaxIds \in Nat
                          /\ IsFiniteSet(Keys)
                          /\ NoHandle \notin [key : Keys, id : 1 .. MaxIds, live : BOOLEAN]
                          /\ NoHandle \notin Keys \X (1 .. MaxIds)
ASSUME NoKeyAssumption == NoKey \notin Keys
ASSUME SidAssumption   == Turns \cap (1 .. MaxIds) = {}

VARIABLES entries, ahead, now, minted, handle,   \* the store
          pc, relay,    \* turn -> where its RPC and its goroutine are
          key,          \* turn -> the identity it presents
          sid,          \* turn -> its upstream conversation
          expired,      \* turns whose gateway context has ended
          accepted,     \* turns the gateway accepted for relaying
          closes,       \* turn -> host.stream.close calls made for it
          tasks,        \* Plugin.tasks
          phase         \* the instance is up, stopping, or down (Shutdown returned)

Store == INSTANCE SessionStore

storeVars == <<entries, ahead, now, minted, handle>>
turnVars  == <<pc, relay, key, sid, expired, accepted, closes>>
vars      == <<storeVars, turnVars, tasks, phase>>

Goto(t, l)  == pc' = [pc EXCEPT ![t] = l]
Relay(t, l) == relay' = [relay EXCEPT ![t] = l]

(* The deferred prep.release(): a turn without a lease has a no-op.         *)
Release(t) == IF Store!Holds(t) THEN Store!Release(t) ELSE UNCHANGED storeVars

--------------------------------------------------------------------------------
(* The RPC: admission and preparation                                       *)

(* Handle admits the call; the turn's identity comes with it.               *)
Arrive(t, k) == /\ pc[t] = "idle" /\ relay[t] = "none"
                /\ phase = "up"
                /\ tasks' = tasks \cup {<<t, "rpc">>}
                /\ Goto(t, "admitted")
                /\ key' = [key EXCEPT ![t] = k]
                /\ expired' = expired \ {t}
                /\ accepted' = accepted \ {t}
                /\ closes' = [closes EXCEPT ![t] = 0]
                /\ UNCHANGED <<storeVars, relay, sid, phase>>

(* The request does not decode, has no API key, or names no allowed model.  *)
PrepareRejects(t) == /\ pc[t] = "admitted"
                     /\ Goto(t, "replying")
                     /\ UNCHANGED <<storeVars, relay, key, sid, expired, accepted, closes,
                                    tasks, phase>>

PrepareStateless(t) == /\ pc[t] = "admitted" /\ key[t] = NoKey
                       /\ Goto(t, "prepared")
                       /\ sid' = [sid EXCEPT ![t] = t]
                       /\ UNCHANGED <<storeVars, relay, key, expired, accepted, closes,
                                      tasks, phase>>

(* The store grants the lease, or the turn is refused with session_busy.    *)
PrepareKeyed(t) == /\ pc[t] = "admitted" /\ key[t] # NoKey
                   /\ Store!Acquire(t, key[t])
                   /\ IF Store!Holds(t)'
                      THEN Goto(t, "prepared") /\ sid' = [sid EXCEPT ![t] = handle'[t].id]
                      ELSE Goto(t, "replying") /\ sid' = sid
                   /\ UNCHANGED <<relay, key, expired, accepted, closes, tasks, phase>>

BuildFailsLeaking(t) == /\ pc[t] = "prepared"
                        /\ Goto(t, "replying")
                        /\ UNCHANGED <<storeVars, relay, key, sid, expired, accepted, closes,
                                       tasks, phase>>

(* The payload cannot be translated: the lease is returned at once.         *)
BuildFails(t) == /\ pc[t] = "prepared"
                 /\ Release(t)
                 /\ Goto(t, "replying")
                 /\ UNCHANGED <<relay, key, sid, expired, accepted, closes, tasks, phase>>

--------------------------------------------------------------------------------
(* The RPC: the gateway                                                     *)

(* consumeTurn: the gateway is called within the RPC.                       *)
CallBuffered(t) == /\ pc[t] = "prepared"
                   /\ Goto(t, "calling")
                   /\ UNCHANGED <<storeVars, relay, key, sid, expired, accepted, closes,
                                  tasks, phase>>

(* It was consumed, or failed; either way body and context are closed.      *)
CallEnds(t) == /\ pc[t] = "calling"
               /\ Goto(t, "deferred")
               /\ UNCHANGED <<storeVars, relay, key, sid, expired, accepted, closes,
                              tasks, phase>>

BeginRelayUncounted(t) == /\ pc[t] = "prepared"
                          /\ phase = "up"
                          /\ Goto(t, "opening")
                          /\ UNCHANGED <<storeVars, relay, key, sid, expired, accepted,
                                         closes, tasks, phase>>

(* A sibling task under the plugin's root, then the call to the gateway.    *)
BeginRelay(t) == /\ pc[t] = "prepared"
                 /\ phase = "up"
                 /\ tasks' = tasks \cup {<<t, "relay">>}
                 /\ Goto(t, "opening")
                 /\ UNCHANGED <<storeVars, relay, key, sid, expired, accepted, closes, phase>>

BeginRelayRefused(t) == /\ pc[t] = "prepared"
                        /\ phase # "up"
                        /\ Goto(t, "deferred")
                        /\ UNCHANGED <<storeVars, relay, key, sid, expired, accepted, closes,
                                       tasks, phase>>

OpenFailsClosing(t) == /\ pc[t] = "opening"
                       /\ tasks' = tasks \ {<<t, "relay">>}
                       /\ closes' = [closes EXCEPT ![t] = @ + 1]
                       /\ Goto(t, "deferred")
                       /\ UNCHANGED <<storeVars, relay, key, sid, expired, accepted, phase>>

(* An error or a status that is not 2xx: the RPC reports it, and the host's *)
(* stream is the host's to end.                                             *)
OpenFails(t) == /\ pc[t] = "opening"
                /\ tasks' = tasks \ {<<t, "relay">>}
                /\ Goto(t, "deferred")
                /\ UNCHANGED <<storeVars, relay, key, sid, expired, accepted, closes, phase>>

OpenSucceedsDeferring(t) == /\ pc[t] = "opening"
                            /\ accepted' = accepted \cup {t}
                            /\ Relay(t, "reading")
                            /\ Goto(t, "deferred")
                            /\ UNCHANGED <<storeVars, key, sid, expired, closes, tasks, phase>>

(* transferred: the goroutine is started and owns the lease, so that the    *)
(* deferred release of the RPC does nothing.                                *)
OpenSucceeds(t) == /\ pc[t] = "opening"
                   /\ accepted' = accepted \cup {t}
                   /\ Relay(t, "reading")
                   /\ Goto(t, "replying")
                   /\ UNCHANGED <<storeVars, key, sid, expired, closes, tasks, phase>>

(* The deferred release, on every other path.                               *)
Deferred(t) == /\ pc[t] = "deferred"
               /\ Release(t)
               /\ Goto(t, "replying")
               /\ UNCHANGED <<relay, key, sid, expired, accepted, closes, tasks, phase>>

(* Handle's deferred done(), and the reply.                                 *)
Reply(t) == /\ pc[t] = "replying"
            /\ tasks' = tasks \ {<<t, "rpc">>}
            /\ Goto(t, "idle")
            /\ UNCHANGED <<storeVars, relay, key, sid, expired, accepted, closes, phase>>

--------------------------------------------------------------------------------
(* The goroutine: relayStream, prep.release, done                           *)

EmitUnchecked(t) == /\ relay[t] = "reading"
                    /\ Relay(t, "emit")
                    /\ UNCHANGED <<storeVars, pc, key, sid, expired, accepted, closes, tasks,
                                   phase>>

(* An event was read, and the stream's context is still good.               *)
EmitChecked(t) == /\ relay[t] = "reading"
                  /\ t \notin expired /\ phase = "up"
                  /\ Relay(t, "emit")
                  /\ UNCHANGED <<storeVars, pc, key, sid, expired, accepted, closes, tasks, phase>>

(* host.stream.emit, whatever became of the context since it was looked at. *)
EmitEnter(t) == /\ relay[t] = "emit"
                /\ Relay(t, "emitting")
                /\ UNCHANGED <<storeVars, pc, key, sid, expired, accepted, closes, tasks, phase>>

(* The host took the frame, or reported an error, which ends the stream.    *)
EmitReturns(t) == /\ relay[t] = "emitting"
                  /\ Relay(t, "reading") \/ Relay(t, "ended")
                  /\ UNCHANGED <<storeVars, pc, key, sid, expired, accepted, closes, tasks, phase>>

(* The last event, a broken or truncated body, or a cancelled context.      *)
BodyEnds(t) == /\ relay[t] = "reading"
               /\ Relay(t, "ended")
               /\ UNCHANGED <<storeVars, pc, key, sid, expired, accepted, closes, tasks, phase>>

Close(t) == /\ relay[t] = "ended"
            /\ Relay(t, "closing")
            /\ closes' = [closes EXCEPT ![t] = @ + 1]
            /\ UNCHANGED <<storeVars, pc, key, sid, expired, accepted, tasks, phase>>

(* host.stream.close returned, whatever it said; then the body is closed    *)
(* and the gateway's context cancelled.                                     *)
CloseReturns(t) == /\ relay[t] = "closing"
                   /\ Relay(t, "closed")
                   /\ UNCHANGED <<storeVars, pc, key, sid, expired, accepted, closes, tasks, phase>>

RelayReleases(t) == /\ relay[t] = "closed"
                    /\ Release(t)
                    /\ Relay(t, "released")
                    /\ UNCHANGED <<pc, key, sid, expired, accepted, closes, tasks, phase>>

RelayDone(t) == /\ relay[t] = "released"
                /\ tasks' = tasks \ {<<t, "relay">>}
                /\ Relay(t, "none")
                /\ UNCHANGED <<storeVars, pc, key, sid, expired, accepted, closes, phase>>

--------------------------------------------------------------------------------
(* Contexts, shutdown and time                                              *)

InGateway(t) == pc[t] \in {"calling", "opening"} \/ relay[t] \in {"reading", "emit", "emitting"}

ExpireNever(t) == FALSE /\ UNCHANGED vars

(* The gateway's context ends: its timeout, or the plugin's cancellation.   *)
(* The events a relay had already read count as read before this.           *)
Expire(t) == /\ InGateway(t) /\ t \notin expired
             /\ expired' = expired \cup {t}
             /\ UNCHANGED <<storeVars, pc, relay, key, sid, accepted, closes, tasks, phase>>

Stop == /\ phase = "up"
        /\ phase' = "stopping"
        /\ UNCHANGED <<storeVars, turnVars, tasks>>

Drained == /\ phase = "stopping" /\ tasks = {}
           /\ phase' = "down"
           /\ UNCHANGED <<storeVars, turnVars, tasks>>

Tick == Store!Tick /\ UNCHANGED <<turnVars, tasks, phase>>

Down == phase = "down" /\ UNCHANGED vars

--------------------------------------------------------------------------------

Init == /\ Store!Init
        /\ pc = [t \in Turns |-> "idle"] /\ relay = [t \in Turns |-> "none"]
        /\ key = [t \in Turns |-> NoKey]
        /\ sid = [t \in Turns |-> t]
        /\ expired = {} /\ accepted = {}
        /\ closes = [t \in Turns |-> 0]
        /\ tasks = {} /\ phase = "up"

Rpc(t) == \/ \E k \in Keys \cup {NoKey} : Arrive(t, k)
          \/ PrepareRejects(t) \/ PrepareStateless(t) \/ PrepareKeyed(t) \/ BuildFails(t)
          \/ CallBuffered(t) \/ CallEnds(t)
          \/ BeginRelay(t) \/ BeginRelayRefused(t) \/ OpenFails(t) \/ OpenSucceeds(t)
          \/ Deferred(t) \/ Reply(t)

Goroutine(t) == \/ EmitChecked(t) \/ EmitEnter(t) \/ EmitReturns(t) \/ BodyEnds(t)
                \/ Close(t) \/ CloseReturns(t) \/ RelayReleases(t) \/ RelayDone(t)

Next == \/ \E t \in Turns : Rpc(t) \/ Goroutine(t) \/ Expire(t)
        \/ Stop \/ Drained \/ Down \/ Tick

Spec == Init /\ [][Next]_vars

(* Goroutines run, the gateway's context has a deadline and ends what waits *)
(* on it, and the host's callbacks return.  The gateway itself owes         *)
(* nothing, and neither does the client.                                    *)
Fairness == \A t \in Turns :
    /\ WF_vars(PrepareRejects(t) \/ PrepareStateless(t) \/ PrepareKeyed(t))
    /\ WF_vars(BuildFails(t) \/ CallBuffered(t) \/ BeginRelay(t) \/ BeginRelayRefused(t))
    /\ WF_vars(Expire(t))
    /\ WF_vars(t \in expired /\ (CallEnds(t) \/ OpenFails(t) \/ BodyEnds(t)))
    /\ WF_vars(EmitEnter(t)) /\ WF_vars(EmitReturns(t))
    /\ WF_vars(Close(t)) /\ WF_vars(CloseReturns(t))
    /\ WF_vars(Deferred(t)) /\ WF_vars(Reply(t))
    /\ WF_vars(RelayReleases(t)) /\ WF_vars(RelayDone(t))

FairSpec == Spec /\ Fairness

--------------------------------------------------------------------------------
(* Properties                                                               *)

PcLabels    == {"idle", "admitted", "prepared", "calling", "opening", "deferred", "replying"}
RelayLabels == {"none", "reading", "emit", "emitting", "ended", "closing", "closed", "released"}

(* Types, and the tasks are exactly the halves of turns that are at work.   *)
TypeOK == /\ pc \in [Turns -> PcLabels]
          /\ relay \in [Turns -> RelayLabels]
          /\ key \in [Turns -> Keys \cup {NoKey}]
          /\ sid \in [Turns -> 1 .. MaxIds \cup Turns]
          /\ expired \subseteq Turns /\ accepted \subseteq Turns
          /\ closes \in [Turns -> Nat]
          /\ tasks \subseteq Turns \X {"rpc", "relay"}
          /\ phase \in {"up", "stopping", "down"}
          /\ \A t \in Turns : /\ <<t, "rpc">> \in tasks <=> pc[t] # "idle"
                              /\ <<t, "relay">> \in tasks <=> pc[t] = "opening" \/ relay[t] # "none"

(* The gateway connection of a turn: from the call until the body is closed.*)
Connected(t) == pc[t] \in {"calling", "opening"}
                \/ relay[t] \in {"reading", "emit", "emitting", "ended", "closing"}

(* No two turns talk to the gateway in one conversation at one time, and a  *)
(* turn with a key talks in the conversation the store has for that key.    *)
ConversationExclusive ==
    /\ \A t, u \in Turns : Connected(t) /\ Connected(u) /\ t # u => sid[t] # sid[u]
    /\ \A t \in Turns : Connected(t) /\ key[t] # NoKey =>
          /\ key[t] \in DOMAIN entries
          /\ entries[key[t]].id = sid[t]

(* A turn between its preparation and its last release.                     *)
Engaged(t) == \/ pc[t] \in {"prepared", "calling", "opening", "deferred"}
              \/ relay[t] \notin {"none", "released"}

(* On every path, error or not, a turn has returned its lease by the time   *)
(* both its RPC and its goroutine are over, and a buffered turn has before  *)
(* it replies.                                                              *)
NoLeaseLeaks == \A t \in Turns : Store!Holds(t) => Engaged(t)

(* The host's side of a relayed stream: closed exactly once if the RPC said *)
(* it was accepted, never closed or written to if the RPC reported an error,*)
(* and never written to after the close.                                    *)
StreamProtocol ==
    \A t \in Turns :
        /\ closes[t] = IF t \in accepted /\ relay[t] \in {"closing", "closed", "released", "none"}
                       THEN 1 ELSE 0
        /\ relay[t] # "none" => t \in accepted

(* When Shutdown returns, no lease is held, no connection is open and every *)
(* accepted stream has been closed.                                         *)
ShutdownLeavesNothing ==
    phase = "down" =>
        \A t \in Turns : /\ ~Store!Holds(t) /\ ~Connected(t)
                         /\ t \in accepted => closes[t] = 1

(* The strengthening under which the invariants above are inductive: the two*)
(* halves of a turn are at work in turn; a lease is the one of the turn's   *)
(* own key and conversation, and an engaged turn has it; and an instance    *)
(* that is down has no task.                                                *)
TurnInv ==
    /\ \A t \in Turns : pc[t] \notin {"idle", "replying"} => relay[t] = "none" /\ t \notin accepted
    /\ \A t \in Turns : Store!Holds(t) =>
          key[t] # NoKey /\ handle[t].key = key[t] /\ handle[t].id = sid[t]
    /\ \A t \in Turns : Engaged(t) => IF key[t] = NoKey THEN sid[t] = t ELSE Store!Holds(t)
    /\ phase = "down" => tasks = {}

IInv == Store!IInv /\ TypeOK /\ NoLeaseLeaks /\ StreamProtocol /\ TurnInv

(* What the world outside sees of the turns: which ones are at work, who    *)
(* talks to the gateway in which conversation, and the streams of the host. *)
Busy  == {t \in Turns : <<t, "rpc">> \in tasks \/ <<t, "relay">> \in tasks}
Talks == {<<t, sid[t]>> : t \in {u \in Turns : Connected(u)}}
HostStream == [t \in Turns |-> IF closes[t] # 0 THEN "closed"
                                ELSE IF t \notin accepted THEN "none"
                                ELSE IF relay[t] = "emit" THEN "due"
                                ELSE IF relay[t] = "emitting" THEN "writing" ELSE "open"]

Service == INSTANCE TurnService WITH Conversations <- Turns \cup 1 .. MaxIds,
                                     busy <- Busy, talks <- Talks, stream <- HostStream

(* Every behaviour of the turns, with their two halves each, their leases   *)
(* and the store's, is one of the service: executor.go and stream.go keep   *)
(* the order of connecting, accepting, writing, closing, hanging up and     *)
(* ending on every path; a stream has at most one frame on its way when the *)
(* plugin is stopped, and decides on none after; and Shutdown waits for the *)
(* end of it.                                                               *)
ServiceSpec == Service!Spec

(* A lease always comes back, however the gateway behaves.                  *)
LeaseReturns == \A t \in Turns : Store!Holds(t) ~> ~Store!Holds(t)
================================================================================
