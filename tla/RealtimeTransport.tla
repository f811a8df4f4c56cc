------------------------- MODULE RealtimeTransport -------------------------
(***************************************************************************)
(* The web client's multiplexed WebSocket: RealtimeTransport (transport.ts) *)
(* under initRealtime, disposeRealtime and subscribeTopic (store.ts).  The *)
(* variables of an object are functions on Transports, numbered in order   *)
(* of creation; `transport` is store.ts's module variable, None for null.  *)
(* The order of frames on a socket is kept by TCP, so the server reads a   *)
(* subscribe or unsubscribe at once, or never when it has gone away.       *)
(***************************************************************************)
EXTENDS Naturals, FiniteSets

CONSTANTS
  Topics,         \* topic names
  Holders,        \* mounted components that subscribe
  MaxTransports,  \* bound: transport objects a page creates
  Threshold,      \* realtimeBudget.reconnectAttemptsBeforePill
  None

Transports == 1 .. MaxTransports
Closures == [object : Transports, topic : Topics]

ASSUME TransportAssumption ==
  /\ IsFiniteSet(Holders)
  /\ MaxTransports \in Nat /\ Threshold \in Nat \ {0}
  /\ None \notin Transports \cup Closures

VARIABLES
  transport,  \* the current transport object, or None
  created,    \* how many objects there have been
  socket,     \* "null", or the readyState of the object's socket
  closing,    \* close() was called on the socket, its onclose is still to come
  status,     \* RealtimeTransport.status
  shown,      \* RealtimeState.status, what the pill reads
  attempts,   \* reconnectAttempts, counted up to Threshold
  timer,      \* a reconnect timer is pending
  explicitlyClosed,
  refs,       \* subs: reference counts, 0 for no entry
  holding,    \* the unsubscribe closure a component keeps: object and topic
  server      \* the server's end of an object's socket: up, and its topics

clientVars == <<transport, created, socket, closing, status, shown, attempts,
                timer, explicitlyClosed>>
subVars == <<refs, holding, server>>
vars == <<clientVars, subVars>>

Subscribed(g) == {t \in Topics : refs[g][t] > 0}
Live(g) == socket[g] = "open"
Down == [up |-> FALSE, topics |-> {}]

\* Transition without its early return.
TransitionAlways(g, next) ==
  /\ status' = [status EXCEPT ![g] = next]
  /\ shown' = next

\* transition(): tells the listeners only when the status is a new one.
Transition(g, next) ==
  /\ status' = [status EXCEPT ![g] = next]
  /\ shown' = IF status[g] = next THEN shown ELSE next

\* send() drops the frame unless the socket is open; a server that has gone
\* does not read it.
Reads(g) == Live(g) /\ server[g].up
SendSubscribe(g, t) ==
  server' = IF Reads(g) THEN [server EXCEPT ![g].topics = @ \cup {t}] ELSE server
SendUnsubscribe(g, t) ==
  server' = IF Reads(g) THEN [server EXCEPT ![g].topics = @ \ {t}] ELSE server

-----------------------------------------------------------------------------
(* store.ts *)

\* initRealtime(): the first call creates the object and connects it; its
\* onStatus reports "closed", what the store holds already.
InitRealtime ==
  /\ transport = None
  /\ created < MaxTransports
  /\ transport' = created + 1
  /\ created' = created + 1
  /\ socket' = [socket EXCEPT ![created + 1] = "connecting"]
  /\ status' = [status EXCEPT ![created + 1] = "connecting"]
  /\ shown' = "connecting"
  /\ UNCHANGED <<closing, attempts, timer, explicitlyClosed, subVars>>

\* Dispose with a close() that forgets its timer.
DisposeLeavingTimer ==
  LET g == transport IN
  /\ g # None
  /\ explicitlyClosed' = [explicitlyClosed EXCEPT ![g] = TRUE]
  /\ closing' = [closing EXCEPT ![g] = socket[g] # "null"]
  /\ socket' = [socket EXCEPT ![g] = "null"]
  /\ status' = [status EXCEPT ![g] = "closed"]
  /\ shown' = "closed"
  /\ transport' = None
  /\ UNCHANGED <<created, attempts, timer, subVars>>

\* disposeRealtime(): close() the object, drop it, reset the store.
Dispose ==
  LET g == transport IN
  /\ g # None
  /\ explicitlyClosed' = [explicitlyClosed EXCEPT ![g] = TRUE]
  /\ timer' = [timer EXCEPT ![g] = FALSE]
  /\ closing' = [closing EXCEPT ![g] = socket[g] # "null"]
  /\ socket' = [socket EXCEPT ![g] = "null"]
  /\ status' = [status EXCEPT ![g] = "closed"]
  /\ shown' = "closed"
  /\ transport' = None
  /\ UNCHANGED <<created, attempts, subVars>>

\* subscribeTopic(): only the first holder of a topic tells the server.
Subscribe(h, t) ==
  LET g == transport IN
  /\ g # None
  /\ holding[h] = None
  /\ holding' = [holding EXCEPT ![h] = [object |-> g, topic |-> t]]
  /\ refs' = [refs EXCEPT ![g][t] = @ + 1]
  /\ IF refs[g][t] = 0 THEN SendSubscribe(g, t) ELSE UNCHANGED server
  /\ UNCHANGED clientVars

\* Unsubscribe without the count: any holder ends the subscription.
UnsubscribeUncounted(h) ==
  /\ holding[h] # None
  /\ LET g == holding[h].object
         t == holding[h].topic IN
     /\ refs' = [refs EXCEPT ![g][t] = 0]
     /\ SendUnsubscribe(g, t)
  /\ holding' = [holding EXCEPT ![h] = None]
  /\ UNCHANGED clientVars

\* The returned closure, called once on unmount: it belongs to the object it
\* came from, which may have been disposed of meanwhile.
Unsubscribe(h) ==
  /\ holding[h] # None
  /\ LET g == holding[h].object
         t == holding[h].topic IN
     /\ refs' = [refs EXCEPT ![g][t] = @ - 1]
     /\ IF refs[g][t] = 1 THEN SendUnsubscribe(g, t) ELSE UNCHANGED server
  /\ holding' = [holding EXCEPT ![h] = None]
  /\ UNCHANGED clientVars

-----------------------------------------------------------------------------
(* Socket and timer callbacks of one object *)

\* Open with a handleOpen that relies on what was sent before.
OpenWithoutSubscriptions(g) ==
  /\ socket[g] = "connecting"
  /\ socket' = [socket EXCEPT ![g] = "open"]
  /\ attempts' = [attempts EXCEPT ![g] = 0]
  /\ Transition(g, "open")
  /\ server' = [server EXCEPT ![g] = [up |-> TRUE, topics |-> {}]]
  /\ UNCHANGED <<transport, created, closing, timer, explicitlyClosed, refs, holding>>

\* The socket opens, and handleOpen subscribes again to everything.
Open(g) ==
  /\ socket[g] = "connecting"
  /\ socket' = [socket EXCEPT ![g] = "open"]
  /\ attempts' = [attempts EXCEPT ![g] = 0]
  /\ Transition(g, "open")
  /\ server' = [server EXCEPT ![g] = [up |-> TRUE, topics |-> Subscribed(g)]]
  /\ UNCHANGED <<transport, created, closing, timer, explicitlyClosed, refs, holding>>

\* The server end of a connection goes away; the browser learns of it later.
ServerGone(g) ==
  /\ server[g].up
  /\ server' = [server EXCEPT ![g] = Down]
  /\ UNCHANGED <<clientVars, refs, holding>>

\* HandleClose that gives up at the threshold.
HandleCloseGivingUp(g) ==
  LET n == IF attempts[g] < Threshold THEN attempts[g] + 1 ELSE Threshold IN
  /\ socket[g] # "null" /\ ~explicitlyClosed[g]
  /\ socket' = [socket EXCEPT ![g] = "null"]
  /\ attempts' = [attempts EXCEPT ![g] = n]
  /\ Transition(g, IF n >= Threshold THEN "degraded" ELSE "connecting")
  /\ timer' = [timer EXCEPT ![g] = n < Threshold]
  /\ server' = [server EXCEPT ![g] = Down]
  /\ UNCHANGED <<transport, created, closing, explicitlyClosed, refs, holding>>

\* handleClose() while the object is in use: count the failure, show the pill
\* at the threshold, and set the timer.
HandleClose(g) ==
  LET n == IF attempts[g] < Threshold THEN attempts[g] + 1 ELSE Threshold IN
  /\ socket[g] # "null" /\ ~explicitlyClosed[g]
  /\ socket' = [socket EXCEPT ![g] = "null"]
  /\ attempts' = [attempts EXCEPT ![g] = n]
  /\ Transition(g, IF n >= Threshold THEN "degraded" ELSE "connecting")
  /\ timer' = [timer EXCEPT ![g] = TRUE]
  /\ server' = [server EXCEPT ![g] = Down]
  /\ UNCHANGED <<transport, created, closing, explicitlyClosed, refs, holding>>

\* handleClose() for a socket that close() has shut, whenever it comes.
HandleLateClose(g) ==
  /\ closing[g] /\ explicitlyClosed[g]
  /\ closing' = [closing EXCEPT ![g] = FALSE]
  /\ socket' = [socket EXCEPT ![g] = "null"]
  /\ Transition(g, "closed")
  /\ server' = [server EXCEPT ![g] = Down]
  /\ UNCHANGED <<transport, created, attempts, timer, explicitlyClosed, refs, holding>>

\* The reconnect timer fires and calls connect().
Reconnect(g) ==
  /\ timer[g] /\ socket[g] = "null"
  /\ timer' = [timer EXCEPT ![g] = FALSE]
  /\ explicitlyClosed' = [explicitlyClosed EXCEPT ![g] = FALSE]
  /\ Transition(g, "connecting")
  /\ socket' = [socket EXCEPT ![g] = "connecting"]
  /\ UNCHANGED <<transport, created, closing, attempts, subVars>>

-----------------------------------------------------------------------------
Init ==
  /\ transport = None /\ created = 0 /\ shown = "closed"
  /\ socket = [g \in Transports |-> "null"]
  /\ closing = [g \in Transports |-> FALSE]
  /\ status = [g \in Transports |-> "closed"]
  /\ attempts = [g \in Transports |-> 0]
  /\ timer = [g \in Transports |-> FALSE]
  /\ explicitlyClosed = [g \in Transports |-> FALSE]
  /\ refs = [g \in Transports |-> [t \in Topics |-> 0]]
  /\ holding = [h \in Holders |-> None]
  /\ server = [g \in Transports |-> Down]

Next ==
  \/ InitRealtime
  \/ Dispose
  \/ \E h \in Holders, t \in Topics : Subscribe(h, t)
  \/ \E h \in Holders : Unsubscribe(h)
  \/ \E g \in Transports :
       \/ Open(g) \/ ServerGone(g) \/ HandleClose(g) \/ HandleLateClose(g)
       \/ Reconnect(g)

\* Timers fire, and the browser reports the end of an attempt and of a
\* connection whose server is gone.  Of the network only that it does not fail
\* every attempt for ever: an attempt made again and again opens in the end.
Fairness ==
  \A g \in Transports :
    /\ WF_vars(Reconnect(g))
    /\ WF_vars(HandleClose(g) /\ ~server[g].up)
    /\ SF_vars(Open(g))

Spec == Init /\ [][Next]_vars /\ Fairness

-----------------------------------------------------------------------------
(* Properties *)

Statuses == {"connecting", "open", "degraded", "closed"}

\* Every variable has its type.
TypeOK ==
  /\ transport \in Transports \cup {None}
  /\ created \in 0 .. MaxTransports
  /\ socket \in [Transports -> {"null", "connecting", "open"}]
  /\ closing \in [Transports -> BOOLEAN]
  /\ status \in [Transports -> Statuses] /\ shown \in Statuses
  /\ attempts \in [Transports -> 0 .. Threshold]
  /\ timer \in [Transports -> BOOLEAN]
  /\ explicitlyClosed \in [Transports -> BOOLEAN]
  /\ refs \in [Transports -> [Topics -> Nat]]
  /\ holding \in [Holders -> Closures \cup {None}]
  /\ server \in [Transports -> [up : BOOLEAN, topics : SUBSET Topics]]

\* The components that hold a topic on that very object.
HeldBy(g, t) == {h \in Holders : holding[h] = [object |-> g, topic |-> t]}

\* A topic's count is the number of its holders, so one of them leaving never
\* ends it for the others (transport.ts:1-6, :92-103).
RefCountsExact ==
  \A g \in Transports, t \in Topics : refs[g][t] = Cardinality(HeldBy(g, t))

\* As long as both ends of a connection are up the server sends exactly the
\* topics somebody holds: a component that leaves ends its topic for none of
\* the others, and what was subscribed or dropped while the socket was down is
\* made good when it opens (transport.ts:1-6, :92-103, :137-145).
ServerAgrees ==
  \A g \in Transports :
    Reads(g) => server[g].topics = {t \in Topics : HeldBy(g, t) # {}}

\* The page has one connection: an object that was disposed of has no socket
\* and no timer that would make one, and none of its late callbacks touches
\* the status that the pill shows for its successor (transport.ts:3,
\* store.ts:178-184).
OneConnection ==
  /\ \A g \in Transports \ {transport} : socket[g] = "null" /\ ~timer[g]
  /\ shown = IF transport = None THEN "closed" ELSE status[transport]

\* A page whose network is not broken for ever is connected again, after any
\* number of failures (transport.ts:7-10).
Reconnects ==
  \A g \in Transports : transport = g ~> transport # g \/ socket[g] = "open"
=============================================================================
