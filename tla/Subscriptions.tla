---------------------------- MODULE Subscriptions ----------------------------
(***************************************************************************)
(* The subscriptions of an MqttService (pkg/mqttclient/mqtt.go) over the   *)
(* connections of its client.  Sub records the handler of a topic and      *)
(* subscribes; OnConnect, which the paho client runs in a goroutine after  *)
(* each connect, subscribes again what is recorded.  The client asks for   *)
(* clean sessions (paho's default, which the setting Cleansession cannot   *)
(* switch off), so the broker forgets the subscriptions of a connection    *)
(* with it, and refuses what is sent without one.                          *)
(***************************************************************************)
EXTENDS Naturals, FiniteSets

CONSTANTS
  Topics,
  Callers,     \* goroutines that call Sub, each with a handler of its own
  MaxConns,    \* bound on the connections
  NoTopic, NoHandler

ASSUME SubscriptionsAssumption ==
  NoTopic \notin Topics /\ NoHandler \notin Callers /\ MaxConns \in Nat \ {0}

VARIABLES
  up,           \* the client is connected
  conns,        \* connections so far
  stopping,     \* the client has been told to disconnect
  subs,         \* per topic: the handler recorded, or NoHandler
  onConnect,    \* goroutines of OnConnect that have not copied subs yet
  resub,        \* goroutines of OnConnect about to subscribe: pairs <<topic, handler>>
  subCall,      \* per caller of Sub: [pc, topic, ret]
  broker,       \* the topics the broker delivers on this connection
  route,        \* per topic: the handler the client calls
  failed        \* topics an attempt has failed for on this connection (history)

subVars == <<up, conns, stopping, subs, onConnect, resub, subCall, broker, route, failed>>

SubscriptionsTypeOK ==
  /\ up \in BOOLEAN /\ conns \in 1 .. MaxConns /\ stopping \in BOOLEAN
  /\ subs \in [Topics -> Callers \cup {NoHandler}]
  /\ onConnect \in 0 .. MaxConns /\ resub \subseteq Topics \X Callers
  /\ subCall \in [Callers -> [pc : {"idle", "subscribe", "done"}, topic : Topics \cup {NoTopic},
                              ret : {"none", "nil", "error"}]]
  /\ broker \subseteq Topics /\ failed \subseteq Topics
  /\ route \in [Topics -> Callers \cup {NoHandler}]

\* newMQTTClient returns once the first Connect has succeeded; OnConnect of that
\* connection may come later than the first calls of Sub.
SubscriptionsInit ==
  /\ up = TRUE /\ conns = 1 /\ stopping = FALSE
  /\ subs = [t \in Topics |-> NoHandler] /\ onConnect = 1 /\ resub = {}
  /\ subCall = [c \in Callers |-> [pc |-> "idle", topic |-> NoTopic, ret |-> "none"]]
  /\ broker = {} /\ failed = {} /\ route = [t \in Topics |-> NoHandler]

-----------------------------------------------------------------------------
(* A request to the broker; it answers in time, with an error, or too late. *)

Subscribe(t, h) ==
  IF up
  THEN /\ route' = [route EXCEPT ![t] = h]
       /\ \/ broker' = broker \cup {t} /\ failed' = failed
          \/ \E late \in {{}, {t}} : broker' = broker \cup late /\ failed' = failed \cup {t}
  ELSE UNCHANGED <<broker, route, failed>>

\* What token.Error() is when the attempt has failed: nil if it has only timed out.
Answer(t) == IF up /\ t \notin failed' THEN {"nil"} ELSE IF up THEN {"nil", "error"} ELSE {"error"}

-----------------------------------------------------------------------------
(* Sub *)

\* Slip: the handler is recorded when the broker has answered.
SubUnrecorded(c, t) ==
  /\ subCall[c].pc = "idle"
  /\ IF subs[t] # NoHandler
     THEN /\ subCall' = [subCall EXCEPT ![c] = [pc |-> "done", topic |-> t, ret |-> "nil"]]
          /\ UNCHANGED <<subs, broker, route, failed>>
     ELSE /\ Subscribe(t, c)
          /\ subs' = IF t \in broker' THEN [subs EXCEPT ![t] = c] ELSE subs
          /\ subCall' = [subCall EXCEPT ![c] = [pc |-> "done", topic |-> t, ret |-> "nil"]]
  /\ UNCHANGED <<up, conns, stopping, onConnect, resub>>

\* The first caller of a topic records its handler; the others are told that all is well.
BeginSub(c, t) ==
  /\ subCall[c].pc = "idle"
  /\ IF subs[t] # NoHandler
     THEN /\ subCall' = [subCall EXCEPT ![c] = [pc |-> "done", topic |-> t, ret |-> "nil"]]
          /\ UNCHANGED subs
     ELSE /\ subCall' = [subCall EXCEPT ![c] = [pc |-> "subscribe", topic |-> t, ret |-> "none"]]
          /\ subs' = [subs EXCEPT ![t] = c]
  /\ UNCHANGED <<up, conns, stopping, onConnect, resub, broker, route, failed>>

\* A timeout is returned as nil too: the topic stays recorded whatever happened.
SubSubscribe(c) ==
  /\ subCall[c].pc = "subscribe"
  /\ LET t == subCall[c].topic IN
     /\ Subscribe(t, subs[t])
     /\ \E ret \in Answer(t) :
          subCall' = [subCall EXCEPT ![c].pc = "done", ![c].ret = ret]
  /\ UNCHANGED <<up, conns, stopping, subs, onConnect, resub>>

-----------------------------------------------------------------------------
(* Connections *)

ConnectionLost ==
  /\ up /\ up' = FALSE /\ broker' = {} /\ failed' = {}
  /\ UNCHANGED <<conns, stopping, subs, onConnect, resub, subCall, route>>

\* AutoReconnect
Reconnect ==
  /\ ~up /\ ~stopping /\ conns < MaxConns
  /\ up' = TRUE /\ conns' = conns + 1 /\ onConnect' = onConnect + 1
  /\ UNCHANGED <<stopping, subs, resub, subCall, broker, route, failed>>

\* The stopping handler.
Disconnect ==
  /\ ~stopping /\ stopping' = TRUE /\ up' = FALSE /\ broker' = {} /\ failed' = {}
  /\ UNCHANGED <<conns, subs, onConnect, resub, subCall, route>>

OnConnect ==
  /\ onConnect > 0 /\ onConnect' = onConnect - 1
  /\ resub' = resub \cup {<<t, subs[t]>> : t \in {u \in Topics : subs[u] # NoHandler}}
  /\ UNCHANGED <<up, conns, stopping, subs, subCall, broker, route, failed>>

\* The goroutine of one topic; a failure is only logged.
Resubscribe(t, h) ==
  /\ <<t, h>> \in resub /\ resub' = resub \ {<<t, h>>}
  /\ Subscribe(t, h)
  /\ UNCHANGED <<up, conns, stopping, subs, onConnect, subCall>>

SubscriptionsNext ==
  \/ \E c \in Callers : (\E t \in Topics : BeginSub(c, t)) \/ SubSubscribe(c)
  \/ ConnectionLost \/ Reconnect \/ Disconnect \/ OnConnect
  \/ \E t \in Topics, h \in Callers : Resubscribe(t, h)

SubscriptionsSpec == SubscriptionsInit /\ [][SubscriptionsNext]_subVars

-----------------------------------------------------------------------------
(* Properties *)

Underway(t) ==
  \/ onConnect > 0
  \/ \E h \in Callers : <<t, h>> \in resub
  \/ \E c \in Callers : subCall[c].pc = "subscribe" /\ subCall[c].topic = t

\* Whatever connections come and go while Sub is called, on a live one the broker
\* delivers every topic somebody called Sub for, also when that call failed on an
\* earlier one, once the attempts under way have come to an end; the exception are
\* attempts that failed on this very connection, which nobody repeats.  And a topic is
\* handled by the handler recorded first (Sub, mqtt.go:49-65; OnConnect, 78-93).
Resubscribed ==
  /\ \A t \in Topics :
       up /\ subs[t] # NoHandler /\ ~Underway(t) => t \in broker \/ t \in failed
  /\ \A t \in Topics : route[t] \in {NoHandler, subs[t]}
  /\ \A c \in Callers : subCall[c].ret # "none" => subs[subCall[c].topic] # NoHandler
=============================================================================
