---------------------------- MODULE BrowserSocket ----------------------------
(***************************************************************************)
(* The live data of one page: the client in                                *)
(* src/app/templates/base.html, which keeps one WebSocket for all topics   *)
(* of the page and reconnects it, the endpoint in src/app/routers/ws.py,   *)
(* the table of subscriptions in src/app/websocket_manager.py and the      *)
(* broadcaster in src/app/lifespan.py, which sends a topic only if its     *)
(* payload or its subscribers changed.                                     *)
(*                                                                         *)
(* A socket is a number, in the order the page made them.  Both directions *)
(* of a socket keep their order; a lost link loses what is on its way and  *)
(* both ends notice it in their own time.  The sections under the          *)
(* manager's lock await nothing, so each is one step.  A payload is its    *)
(* version.  A topic that is withdrawn is not granted again.               *)
(***************************************************************************)
EXTENDS Integers, Sequences, FiniteSets, SequencesExt

CONSTANTS
  Topics,            \* the vehicles of the page
  MaxSockets,        \* bound: sockets the page makes
  MaxEvents,         \* bound: payload changes, losses, time-outs, logouts, withdrawals
  MaxCalls           \* bound: subscribe() and unsubscribe() calls after the first

ASSUME BrowserSocketAssumption ==
  IsFiniteSet(Topics) /\ MaxSockets \in Nat /\ MaxEvents \in Nat /\ MaxCalls \in Nat

Sockets == 1..MaxSockets
MaxRefusals == 3
Policy == 1008       \* close codes
Normal == 1000
Abnormal == 1006

VARIABLES
  \* The page.
  topics, ws, timer, stopped, refusals,
  shown,             \* the payload last delivered to a handler of the topic, -1 for none
  readyState, made,
  \* The links.
  up, down, link,
  \* The server.
  endpoint,          \* the coroutine of a socket, and the topic it looks up
  active,            \* active_connections
  subscriptions,     \* pairs of a socket and a topic
  last_sent,         \* per topic the subscribers and the payload, or nothing
  built,             \* the payloads of this tick that are still to be sent
  payload, allowed, session,
  rejoined,          \* history: topics left and taken again since they were sent
  events, calls

pageVars == << topics, ws, timer, stopped, refusals, shown, readyState, made >>
linkVars == << up, down, link >>
serverVars == << endpoint, active, subscriptions, last_sent, built, payload, allowed, session, rejoined >>
socketVars == << pageVars, linkVars, serverVars, events, calls >>

Idle == [at |-> "idle", topic |-> << >>]
NoEndpoint == [at |-> "none", topic |-> << >>]
At(place, t) == [at |-> place, topic |-> t]
Running(s) == endpoint[s].at \in {"idle", "lookup", "found", "refused"}

Nothing == [to |-> {}, of |-> -1]
Message(kind, t, n) == [kind |-> kind, topic |-> t, n |-> n]
Close(code) == Message("close", << >>, code)

SocketInit ==
  /\ topics = {} /\ ws = 0 /\ timer = FALSE /\ stopped = FALSE /\ refusals = 0
  /\ shown = [t \in Topics |-> -1] /\ readyState = [s \in Sockets |-> "none"] /\ made = 0
  /\ up = [s \in Sockets |-> << >>] /\ down = up /\ link = readyState
  /\ endpoint = [s \in Sockets |-> NoEndpoint] /\ active = {} /\ subscriptions = {}
  /\ last_sent = [t \in Topics |-> Nothing] /\ built = [t \in Topics |-> -1]
  /\ payload = [t \in Topics |-> 0] /\ allowed = Topics /\ session = "valid" /\ rejoined = {}
  /\ events = 0 /\ calls = 0

Happens == events < MaxEvents /\ events' = events + 1

----------------------------------------------------------------------------
(* The page. *)

\* connect(), with the topics the page has by then, whether a time-out is pending and
\* whether the page has stopped.
connect(wanted, pending, halted) ==
  IF halted \/ wanted = {} \/ (ws # 0 /\ readyState[ws] \in {"connecting", "open"})
  THEN timer' = pending /\ UNCHANGED << ws, readyState, made, link >>
  ELSE /\ made < MaxSockets /\ made' = made + 1
       /\ ws' = made' /\ timer' = FALSE
       /\ readyState' = [readyState EXCEPT ![made'] = "connecting"]
       /\ link' = [link EXCEPT ![made'] = "up"]

\* send(): only on an open socket; one that is closing drops it.
Sending(kind, t) ==
  up' = IF ws # 0 /\ readyState[ws] = "open" /\ link[ws] = "up"
        THEN [up EXCEPT ![ws] = Append(@, Message(kind, t, 0))] ELSE up

subscribe(t) ==
  /\ t \notin topics /\ (made = 0 \/ calls < MaxCalls)
  /\ calls' = IF made = 0 THEN calls ELSE calls + 1
  /\ topics' = topics \union {t}
  /\ Sending("subscribe", t)
  /\ connect(topics', timer, stopped)
  /\ UNCHANGED << stopped, refusals, shown, down, serverVars, events >>

unsubscribe(t) ==
  /\ t \in topics /\ calls < MaxCalls /\ calls' = calls + 1
  /\ topics' = topics \ {t}
  /\ Sending("unsubscribe", t)
  /\ UNCHANGED << ws, timer, stopped, refusals, shown, readyState, made, down, link, serverVars, events >>

\* The reconnect time-out, and a tab that becomes visible without a socket.
TimerFires ==
  /\ timer /\ connect(topics, FALSE, stopped)
  /\ UNCHANGED << topics, stopped, refusals, shown, up, down, serverVars, events, calls >>

visibilitychange ==
  /\ ~stopped /\ ws = 0 /\ topics # {} /\ connect(topics, timer, stopped)
  /\ UNCHANGED << topics, stopped, refusals, shown, up, down, serverVars, events, calls >>

Arrives(s, kind) == down[s] # << >> /\ Head(down[s]).kind = kind
Read(s) == down[s] # << >> /\ down' = [down EXCEPT ![s] = Tail(@)]

onopen(s) ==
  /\ Arrives(s, "open") /\ readyState[s] = "connecting" /\ Read(s)
  /\ readyState' = [readyState EXCEPT ![s] = "open"]
  /\ LET wanted == SetToSeq(topics)
     IN  up' = [up EXCEPT ![s] = [i \in DOMAIN wanted |-> Message("subscribe", wanted[i], 0)]]
  /\ UNCHANGED << topics, ws, timer, stopped, refusals, shown, made, link, serverVars, events, calls >>

\* Mutant: a refused topic stays in the set the page subscribes again.
onmessageKeeps(s) ==
  /\ Read(s)
  /\ \/ Arrives(s, "update")
        /\ shown' = IF Head(down[s]).topic \in topics THEN [shown EXCEPT ![Head(down[s]).topic] = Head(down[s]).n] ELSE shown
     \/ Arrives(s, "subscribe_rejected") /\ UNCHANGED shown
  /\ UNCHANGED << topics, ws, timer, stopped, refusals, readyState, made, up, link, serverVars, events, calls >>

onmessage(s) ==
  /\ Read(s)
  /\ LET m == Head(down[s])
     IN  \/ /\ Arrives(s, "update")
            /\ shown' = IF m.topic \in topics THEN [shown EXCEPT ![m.topic] = m.n] ELSE shown
            /\ UNCHANGED topics
         \/ /\ Arrives(s, "subscribe_rejected")
            /\ topics' = topics \ {m.topic} /\ UNCHANGED shown
  /\ UNCHANGED << ws, timer, stopped, refusals, readyState, made, up, link, serverVars, events, calls >>

\* The browser has the close frame, or finds the link dead; the event comes later.
CloseBegins(s) ==
  /\ Arrives(s, "close") /\ readyState[s] \in {"connecting", "open"}
  /\ readyState' = [readyState EXCEPT ![s] = "closing"]
  /\ UNCHANGED << topics, ws, timer, stopped, refusals, shown, made, linkVars, serverVars, events, calls >>

onclose(s) ==
  /\ readyState[s] = "closing"
  /\ readyState' = [readyState EXCEPT ![s] = "closed"]
  /\ down' = [down EXCEPT ![s] = << >>] /\ up' = [up EXCEPT ![s] = << >>]
  /\ link' = [link EXCEPT ![s] = "lost"]
  /\ ws' = IF ws = s THEN 0 ELSE ws
  /\ refusals' = IF Head(down[s]).n = Policy THEN refusals + 1 ELSE 0
  /\ stopped' = (stopped \/ refusals' >= MaxRefusals)
  /\ timer' = IF stopped' THEN timer ELSE TRUE
  /\ UNCHANGED << topics, shown, made, serverVars, events, calls >>

\* The page goes to the history cache without waiting for its socket, and comes back.
pagehide ==
  /\ ~stopped /\ Happens /\ stopped' = TRUE /\ timer' = FALSE /\ ws' = 0
  /\ IF ws = 0 THEN UNCHANGED << readyState, linkVars >>
     ELSE /\ readyState' = [readyState EXCEPT ![ws] = "closed"]
          /\ up' = [up EXCEPT ![ws] = << >>] /\ down' = [down EXCEPT ![ws] = << >>]
          /\ link' = [link EXCEPT ![ws] = "lost"]
  /\ UNCHANGED << topics, refusals, shown, made, serverVars, calls >>

\* stopped is reset whoever set it.
pageshow ==
  /\ stopped /\ Happens /\ stopped' = FALSE
  /\ connect(topics, timer, FALSE)
  /\ UNCHANGED << topics, refusals, shown, up, down, serverVars, calls >>

LoseLink(s) ==
  /\ link[s] = "up" /\ readyState[s] \in {"connecting", "open"} /\ Happens
  /\ link' = [link EXCEPT ![s] = "lost"]
  /\ up' = [up EXCEPT ![s] = << >>] /\ down' = [down EXCEPT ![s] = << Close(Abnormal) >>]
  /\ UNCHANGED << pageVars, serverVars, calls >>

----------------------------------------------------------------------------
(* The server. *)

\* What is sent to sockets reaches those whose link is up.
Told(d, sockets, m) ==
  [s \in Sockets |-> IF s \in sockets /\ link[s] = "up" THEN Append(d[s], m) ELSE d[s]]

\* Mutant: a socket that was already removed is not removed from the subscriptions.
disconnectEarly(sockets, code, d) ==
  /\ active' = active \ sockets
  /\ subscriptions' = { x \in subscriptions : x[1] \notin sockets \intersect active }
  /\ down' = Told(d, sockets \intersect active, Close(code))

\* disconnect() of some sockets, after d was sent.
disconnect(sockets, code, d) ==
  /\ active' = active \ sockets
  /\ subscriptions' = { x \in subscriptions : x[1] \notin sockets }
  /\ down' = Told(d, sockets \intersect active, Close(code))

Goes(s, place) == endpoint' = [endpoint EXCEPT ![s] = place]

\* The handshake: who it is, then accept() and the entry in the table.
_authenticate_websocket(s) ==
  /\ endpoint[s] = NoEndpoint /\ link[s] = "up"
  /\ IF session = "valid" THEN Goes(s, At("accepting", << >>)) /\ UNCHANGED down
     ELSE /\ Goes(s, At("gone", << >>))
          /\ down' = [down EXCEPT ![s] = << Message("open", << >>, 0), Close(Policy) >>]
  /\ UNCHANGED << pageVars, up, link, active, subscriptions, last_sent, built, payload, allowed, session, rejoined, events, calls >>

Accept(s) ==
  /\ endpoint[s].at = "accepting"
  /\ IF link[s] = "up"
     THEN Goes(s, Idle) /\ active' = active \union {s} /\ down' = Told(down, {s}, Message("open", << >>, 0))
     ELSE Goes(s, At("gone", << >>)) /\ UNCHANGED << active, down >>
  /\ UNCHANGED << pageVars, up, link, subscriptions, last_sent, built, payload, allowed, session, rejoined, events, calls >>

\* The endpoint reads a message.  A topic it has is not looked up again; a lookup runs
\* in a thread, and no further message is read until it is back.
Receive(s) ==
  /\ endpoint[s] = Idle /\ s \in active /\ up[s] # << >>
  /\ up' = [up EXCEPT ![s] = Tail(@)]
  /\ LET m == Head(up[s])
     IN  IF m.kind = "unsubscribe"
         THEN subscriptions' = subscriptions \ {<< s, m.topic >>} /\ UNCHANGED endpoint
         ELSE /\ UNCHANGED subscriptions
              /\ IF << s, m.topic >> \in subscriptions THEN UNCHANGED endpoint ELSE Goes(s, At("lookup", m.topic))
  /\ UNCHANGED << pageVars, down, link, active, last_sent, built, payload, allowed, session, rejoined, events, calls >>

_resolve_vehicle_topic(s) ==
  /\ endpoint[s].at = "lookup"
  /\ Goes(s, At(IF endpoint[s].topic \in allowed THEN "found" ELSE "refused", endpoint[s].topic))
  /\ UNCHANGED << pageVars, linkVars, active, subscriptions, last_sent, built, payload, allowed, session, rejoined, events, calls >>

\* The endpoint goes on with the answer, also if its socket was closed meanwhile.
Resolved(s) ==
  /\ endpoint[s].at \in {"found", "refused"} /\ Goes(s, Idle)
  /\ LET t == endpoint[s].topic
     IN  IF endpoint[s].at = "found"
         THEN /\ subscriptions' = subscriptions \union {<< s, t >>}
              /\ rejoined' = IF s \in last_sent[t].to THEN rejoined \union {t} ELSE rejoined
              /\ UNCHANGED down
         ELSE /\ down' = Told(down, {s} \intersect active, Message("subscribe_rejected", t, 0))
              /\ UNCHANGED << subscriptions, rejoined >>
  /\ UNCHANGED << pageVars, up, link, active, last_sent, built, payload, allowed, session, events, calls >>

\* The next read fails, or the session's deadline passed: the endpoint ends.
EndpointEnds(s) ==
  /\ endpoint[s] = Idle /\ Goes(s, At("gone", << >>))
  /\ \/ (s \notin active \/ link[s] = "lost") /\ disconnect({s}, Normal, down)
     \/ session = "expired" /\ disconnect({s}, Policy, down)
  /\ UNCHANGED << pageVars, up, link, last_sent, built, payload, allowed, session, rejoined, events, calls >>

\* A tick of the broadcaster begins: topics nobody has are forgotten, the payloads of
\* the others are built.
TickBegins ==
  LET held == { x[2] : x \in subscriptions }
  IN  /\ \A t \in Topics : built[t] = -1
      /\ last_sent' = [t \in Topics |-> IF t \in held THEN last_sent[t] ELSE Nothing]
      /\ built' = [t \in Topics |-> IF t \in held THEN payload[t] ELSE -1]
      /\ UNCHANGED << pageVars, linkVars, endpoint, active, subscriptions, payload, allowed, session, rejoined, events, calls >>

Subscribers(t) == { x[1] : x \in { y \in subscriptions : y[2] = t } }

\* broadcast_to_topic(): who does not take the frame in time is disconnected.  A dead
\* link may take it for a while; a live one that does not is an event.
Broadcast(t, m) ==
  \E failed \in SUBSET (Subscribers(t) \intersect active) :
    /\ IF \E s \in failed : link[s] = "up" THEN Happens ELSE UNCHANGED events
    /\ disconnect(failed, Normal, Told(down, (Subscribers(t) \intersect active) \ failed, m))

\* Mutant: a topic is sent only when its payload changed.
SameAsLast(t) == last_sent[t].of = built[t]

\* The topic was last sent with this payload to these subscribers.
AlreadySent(t) == last_sent[t] = [to |-> Subscribers(t), of |-> built[t]]

TickSends(t) ==
  /\ built[t] # -1 /\ built' = [built EXCEPT ![t] = -1]
  /\ IF Subscribers(t) = {} \/ AlreadySent(t)
     THEN UNCHANGED << last_sent, active, subscriptions, down, rejoined, events >>
     ELSE /\ last_sent' = [last_sent EXCEPT ![t] = [to |-> Subscribers(t), of |-> built[t]]]
          /\ rejoined' = rejoined \ {t}
          /\ Broadcast(t, Message("update", t, built[t]))
  /\ UNCHANGED << pageVars, up, link, endpoint, payload, allowed, session, calls >>

PayloadChanges(t) ==
  /\ Happens /\ payload' = [payload EXCEPT ![t] = @ + 1]
  /\ UNCHANGED << pageVars, linkVars, endpoint, active, subscriptions, last_sent, built, allowed, session, rejoined, calls >>

\* The vehicle is deleted, or the support grant that shows it ends.
drop_topic(t) ==
  /\ t \in allowed /\ Happens /\ allowed' = allowed \ {t}
  /\ subscriptions' = { x \in subscriptions : x[2] # t }
  /\ down' = Told(down, Subscribers(t) \intersect active, Message("subscribe_rejected", t, 0))
  /\ UNCHANGED << pageVars, up, link, endpoint, active, last_sent, built, payload, session, rejoined, calls >>

\* A logout, in this browser or, with the session left valid, in another one.
disconnect_user ==
  /\ Happens /\ session = "valid" /\ session' \in {"valid", "over"}
  /\ disconnect(active, Policy, down)
  /\ UNCHANGED << pageVars, up, link, endpoint, last_sent, built, payload, allowed, rejoined, calls >>

SessionExpires ==
  /\ Happens /\ session # "expired" /\ session' = "expired"
  /\ UNCHANGED << pageVars, linkVars, endpoint, active, subscriptions, last_sent, built, payload, allowed, rejoined, calls >>

----------------------------------------------------------------------------
PageSteps(s) == onopen(s) \/ onmessage(s) \/ CloseBegins(s) \/ onclose(s)
EndpointSteps(s) ==
  _authenticate_websocket(s) \/ Accept(s) \/ Receive(s) \/ _resolve_vehicle_topic(s) \/ Resolved(s) \/ EndpointEnds(s)

SocketNext ==
  \/ \E t \in Topics : subscribe(t) \/ unsubscribe(t) \/ TickSends(t) \/ PayloadChanges(t) \/ drop_topic(t)
  \/ \E s \in Sockets : PageSteps(s) \/ EndpointSteps(s) \/ LoseLink(s)
  \/ TimerFires \/ visibilitychange \/ pagehide \/ pageshow
  \/ TickBegins \/ disconnect_user \/ SessionExpires

\* Time-outs fire, events are handled, both ends of a dead link notice it, and the
\* broadcaster goes on.
SocketFairness ==
  /\ \A s \in Sockets : WF_socketVars(PageSteps(s)) /\ WF_socketVars(EndpointSteps(s))
  /\ \A t \in Topics : WF_socketVars(TickSends(t))
  /\ WF_socketVars(TimerFires) /\ WF_socketVars(TickBegins)

SocketSpec == SocketInit /\ [][SocketNext]_socketVars /\ SocketFairness

----------------------------------------------------------------------------
(* Properties. *)

(* Every subscription belongs to an endpoint that still runs, whoever       *)
(* removed its socket and whatever it was looking up then: a topic          *)
(* somebody left for good does not keep the broadcaster querying and        *)
(* packing "for nobody, until the next restart" (websocket_manager.py:216). *)
SubscriptionHasEndpoint == \A x \in subscriptions : Running(x[1])

(* Once all messages between the page and an open socket are handled, the   *)
(* server's table has exactly the topics the page has handlers for, after   *)
(* reconnects, refusals, withdrawals and calls while it was connecting.     *)
ClientServerAgree ==
  \A s \in active :
    /\ s = ws /\ readyState[s] = "open" /\ link[s] = "up"
    /\ up[s] = << >> /\ down[s] = << >> /\ endpoint[s] = Idle
    => { t \in Topics : << s, t >> \in subscriptions } = topics

(* A page that watches a vehicle shows its current payload in the end,      *)
(* through lost links, reconnects and time-outs, as long as it may watch it *)
(* and has not stopped.  A topic that was left and taken again on one       *)
(* socket between two ticks is the exception: the broadcaster sees the same *)
(* subscribers and waits for the payload to change.                         *)
LiveDataArrives ==
  \A t \in Topics :
    t \in topics \intersect allowed /\ session = "valid" /\ ~stopped
      ~> \/ shown[t] = payload[t]
         \/ t \notin topics \intersect allowed \/ session # "valid" \/ stopped \/ t \in rejoined
=============================================================================
