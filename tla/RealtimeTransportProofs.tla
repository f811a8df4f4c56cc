---------------------- MODULE RealtimeTransportProofs -----------------------
(***************************************************************************)
(* Proofs about the realtime transport, for every set of topics and        *)
(* components, any number of objects and any threshold.                    *)
(***************************************************************************)
EXTENDS RealtimeTransport, FiniteSetTheorems, TLAPS

\* The counts are left out: that they are natural numbers follows from what
\* they count.
ObjectsTyped ==
  /\ transport \in Transports \cup {None}
  /\ created \in 0 .. MaxTransports
  /\ socket \in [Transports -> {"null", "connecting", "open"}]
  /\ closing \in [Transports -> BOOLEAN]
  /\ status \in [Transports -> Statuses] /\ shown \in Statuses
  /\ attempts \in [Transports -> 0 .. Threshold]
  /\ timer \in [Transports -> BOOLEAN]
  /\ explicitlyClosed \in [Transports -> BOOLEAN]

SubsTyped ==
  /\ refs \in [Transports -> [Topics -> Nat]]
  /\ holding \in [Holders -> Closures \cup {None}]
  /\ server \in [Transports -> [up : BOOLEAN, topics : SUBSET Topics]]

\* OneConnection for the objects to come as well, with what keeps a late close
\* from reaching the pill: its object has told it "closed" already.
Retired ==
  /\ OneConnection
  /\ transport # None => transport <= created
  /\ \A g \in Transports \ {transport} : status[g] = "closed"
  /\ \A g \in Transports : closing[g] => g # transport /\ g <= created

\* What the server sends, by count; the counts say who holds it.
Counted == \A g \in Transports : Reads(g) => server[g].topics = Subscribed(g)

Connections == ObjectsTyped /\ Retired
Subscriptions == SubsTyped /\ RefCountsExact /\ Counted
IInv == Connections /\ Subscriptions

-----------------------------------------------------------------------------
(* The objects *)

ObjectStep(g) ==
  Open(g) \/ ServerGone(g) \/ HandleClose(g) \/ HandleLateClose(g) \/ Reconnect(g)

LEMMA InitConnections == Init => Connections
BY TransportAssumption DEF Init, Connections, ObjectsTyped, Statuses, Retired, OneConnection

LEMMA InitRealtimeKeeps ==
  ASSUME Connections, InitRealtime
  PROVE  Connections'
<1>1. created + 1 \in Transports /\ None \notin Transports
  BY TransportAssumption DEF Connections, ObjectsTyped, InitRealtime, Transports
<1>2. ObjectsTyped'
  BY <1>1 DEF Connections, ObjectsTyped, InitRealtime, Statuses, Transports
<1>3. Retired'
  BY <1>1 DEF Connections, ObjectsTyped, Retired, OneConnection, InitRealtime, Transports
<1>4. QED
  BY <1>2, <1>3 DEF Connections

LEMMA DisposeKeeps ==
  ASSUME Connections, Dispose
  PROVE  Connections'
<1>1. transport \in Transports /\ None \notin Transports
  BY TransportAssumption DEF Connections, ObjectsTyped, Dispose
<1>2. ObjectsTyped'
  BY <1>1 DEF Connections, ObjectsTyped, Dispose, Statuses
<1>3. Retired'
  BY <1>1 DEF Connections, ObjectsTyped, Retired, OneConnection, Dispose
<1>4. QED
  BY <1>2, <1>3 DEF Connections

\* A callback of an object with a socket or a timer is one of the current object.
LEMMA CurrentKeeps ==
  ASSUME Connections, NEW g \in Transports, Open(g) \/ HandleClose(g) \/ Reconnect(g)
  PROVE  Connections'
<1>1. g = transport /\ transport # None
  BY TransportAssumption DEF Connections, Retired, OneConnection, Open, HandleClose, Reconnect
<1>2. ~closing[g] /\ Threshold \in Nat
  BY <1>1, TransportAssumption DEF Connections, ObjectsTyped, Retired
<1>3. CASE Open(g)
  BY <1>1, <1>2, <1>3 DEF Connections, ObjectsTyped, Retired, OneConnection, Open,
     Transition, Statuses
<1>4. CASE HandleClose(g)
  <2>1. ObjectsTyped'
    BY <1>2, <1>4 DEF Connections, ObjectsTyped, HandleClose, Transition, Statuses
  <2>2. Retired'
    BY <1>1, <1>2, <1>4 DEF Connections, ObjectsTyped, Retired, OneConnection, HandleClose,
       Transition, Statuses
  <2>3. QED
    BY <2>1, <2>2 DEF Connections
<1>5. CASE Reconnect(g)
  BY <1>1, <1>2, <1>5 DEF Connections, ObjectsTyped, Retired, OneConnection, Reconnect,
     Transition, Statuses
<1>6. QED
  BY <1>3, <1>4, <1>5

LEMMA LateCloseKeeps ==
  ASSUME Connections, NEW g \in Transports, HandleLateClose(g)
  PROVE  Connections'
<1>1. g # transport /\ status[g] = "closed"
  BY DEF Connections, Retired, HandleLateClose
<1>2. QED
  BY <1>1 DEF Connections, ObjectsTyped, Retired, OneConnection, HandleLateClose,
     Transition, Statuses

LEMMA ConnectionsUntouched == Connections /\ UNCHANGED clientVars => Connections'
BY DEF Connections, ObjectsTyped, Retired, OneConnection, clientVars

LEMMA StepConnections == Connections /\ [Next]_vars => Connections'
<1> SUFFICES ASSUME Connections, [Next]_vars PROVE Connections'
  OBVIOUS
<1>1. ASSUME NEW g \in Transports, ObjectStep(g) PROVE Connections'
  BY <1>1, CurrentKeeps, LateCloseKeeps, ConnectionsUntouched DEF ObjectStep, ServerGone
<1>2. ASSUME NEW h \in Holders, (\E t \in Topics : Subscribe(h, t)) \/ Unsubscribe(h)
      PROVE  Connections'
  BY <1>2, ConnectionsUntouched DEF Subscribe, Unsubscribe
<1>3. CASE UNCHANGED vars
  BY <1>3, ConnectionsUntouched DEF vars
<1>4. QED
  BY <1>1, <1>2, <1>3, InitRealtimeKeeps, DisposeKeeps DEF Next, ObjectStep

\* The page has one connection, and the pill shows its status: an object that
\* was disposed of has no socket and no timer, and its late close says nothing
\* (transport.ts:3, store.ts:178-184).
THEOREM SingleConnection == Spec => []OneConnection
<1>1. Spec => []Connections
  BY InitConnections, StepConnections, PTL DEF Spec
<1>2. Connections => OneConnection
  BY DEF Connections, Retired
<1>3. QED
  BY <1>1, <1>2, PTL

-----------------------------------------------------------------------------
(* Counts and holders *)

LEMMA HoldersFinite ==
  \A g, t : IsFiniteSet(HeldBy(g, t)) /\ Cardinality(HeldBy(g, t)) \in Nat
BY TransportAssumption, FS_Subset, FS_CardinalityType DEF HeldBy

\* A count is not zero exactly when somebody holds the topic.
LEMMA CountedIsHeld ==
  ASSUME RefCountsExact, NEW g \in Transports, NEW t \in Topics
  PROVE  t \in Subscribed(g) <=> HeldBy(g, t) # {}
<1>1. refs[g][t] = Cardinality(HeldBy(g, t)) /\ IsFiniteSet(HeldBy(g, t))
  BY HoldersFinite DEF RefCountsExact
<1>2. refs[g][t] \in Nat /\ (refs[g][t] = 0 <=> HeldBy(g, t) = {})
  BY <1>1, FS_EmptySet, FS_CardinalityType
<1>3. QED
  BY <1>2 DEF Subscribed

LEMMA InitSubscriptions == Init => Subscriptions
<1> SUFFICES ASSUME Init PROVE Subscriptions
  OBVIOUS
<1>1. \A g \in Transports, t \in Topics : HeldBy(g, t) = {}
  BY TransportAssumption DEF Init, HeldBy, Closures
<1>2. RefCountsExact
  BY <1>1, FS_EmptySet DEF Init, RefCountsExact
<1>3. SubsTyped
  BY DEF Init, SubsTyped, Down
<1>4. Counted
  BY DEF Init, Counted, Reads, Live
<1>5. QED
  BY <1>2, <1>3, <1>4 DEF Subscriptions

LEMMA SubscribeKeeps ==
  ASSUME Connections, Subscriptions, NEW h \in Holders, NEW t \in Topics, Subscribe(h, t)
  PROVE  Subscriptions'
<1> DEFINE g == transport
           held == [object |-> g, topic |-> t]
<1>1. g \in Transports /\ held \in Closures /\ holding[h] = None
  BY DEF Connections, ObjectsTyped, Subscribe, Closures
<1>2. /\ holding' = [holding EXCEPT ![h] = held]
      /\ refs' = [refs EXCEPT ![g] = [refs[g] EXCEPT ![t] = refs[g][t] + 1]]
      /\ refs[g][t] \in Nat /\ SubsTyped
      /\ UNCHANGED socket
  BY <1>1 DEF Subscribe, Subscriptions, SubsTyped, clientVars
<1>3. \A i \in Transports, u \in Topics :
        HeldBy(i, u)' = IF i = g /\ u = t THEN HeldBy(i, u) \cup {h} ELSE HeldBy(i, u)
  <2>1. SUFFICES ASSUME NEW i \in Transports, NEW u \in Topics
        PROVE  HeldBy(i, u)' = IF i = g /\ u = t THEN HeldBy(i, u) \cup {h} ELSE HeldBy(i, u)
    OBVIOUS
  <2>2. \A k \in Holders : k # h => holding'[k] = holding[k]
    BY <1>2 DEF SubsTyped
  <2>3. holding'[h] = held
    BY <1>2 DEF SubsTyped
  <2>4. h \in HeldBy(i, u)' <=> i = g /\ u = t
    BY <2>3 DEF HeldBy
  <2>5. h \notin HeldBy(i, u)
    BY <1>1, TransportAssumption DEF HeldBy, Closures
  <2>6. QED
    BY <2>2, <2>4, <2>5 DEF HeldBy
<1>4. h \notin HeldBy(g, t)
  BY <1>1, TransportAssumption DEF HeldBy
<1>5. RefCountsExact'
  <2>1. Cardinality(HeldBy(g, t) \cup {h}) = Cardinality(HeldBy(g, t)) + 1
    BY <1>4, HoldersFinite, FS_AddElement
  <2>2. QED
    BY <1>1, <1>2, <1>3, <2>1 DEF RefCountsExact, Subscriptions, SubsTyped
<1>6. server' = IF refs[g][t] = 0 /\ Reads(g)
                THEN [server EXCEPT ![g] = [server[g] EXCEPT !.topics = server[g].topics \cup {t}]]
                ELSE server
  BY <1>2 DEF Subscribe, SendSubscribe
<1>7. SubsTyped'
  <2>1. server[g] \in [up : BOOLEAN, topics : SUBSET Topics]
    BY <1>1, <1>2 DEF SubsTyped
  <2>2. [server[g] EXCEPT !.topics = server[g].topics \cup {t}] \in [up : BOOLEAN, topics : SUBSET Topics]
    BY <2>1
  <2>3. server' \in [Transports -> [up : BOOLEAN, topics : SUBSET Topics]]
    BY <1>1, <1>2, <1>6, <2>2 DEF SubsTyped
  <2>4. [refs[g] EXCEPT ![t] = refs[g][t] + 1] \in [Topics -> Nat]
    BY <1>1, <1>2 DEF SubsTyped
  <2>5. QED
    BY <1>1, <1>2, <2>3, <2>4 DEF SubsTyped
<1>8. Counted'
  <2>1. \A i \in Transports :
          Subscribed(i)' = IF i = g THEN Subscribed(i) \cup {t} ELSE Subscribed(i)
    BY <1>1, <1>2 DEF Subscribed, SubsTyped
  <2>2. refs[g][t] # 0 => t \in Subscribed(g)
    BY <1>2 DEF Subscribed
  <2>3. ASSUME NEW i \in Transports, Reads(i)' PROVE server'[i].topics = Subscribed(i)'
    <3>1. Reads(i)
      BY <1>1, <1>2, <1>6, <2>3 DEF Reads, Live, SubsTyped
    <3>2. server[i].topics = Subscribed(i) /\ server[i] \in [up : BOOLEAN, topics : SUBSET Topics]
      BY <1>2, <3>1 DEF Subscriptions, Counted, SubsTyped
    <3>3. server'[i].topics = IF i = g /\ refs[g][t] = 0 THEN server[i].topics \cup {t}
                              ELSE server[i].topics
      BY <1>1, <1>2, <1>6, <3>1, <3>2 DEF SubsTyped
    <3>4. QED
      BY <2>1, <2>2, <3>2, <3>3
  <2>4. QED
    BY <2>3 DEF Counted
<1>9. QED
  BY <1>5, <1>7, <1>8 DEF Subscriptions

LEMMA UnsubscribeKeeps ==
  ASSUME Subscriptions, NEW h \in Holders, Unsubscribe(h)
  PROVE  Subscriptions'
<1> DEFINE g == holding[h].object
           t == holding[h].topic
<1>1. holding[h] \in Closures /\ g \in Transports /\ t \in Topics
      /\ holding[h] = [object |-> g, topic |-> t]
  BY DEF Unsubscribe, Subscriptions, SubsTyped, Closures
<1>2. /\ holding' = [holding EXCEPT ![h] = None]
      /\ refs' = [refs EXCEPT ![g] = [refs[g] EXCEPT ![t] = refs[g][t] - 1]]
      /\ refs[g][t] \in Nat /\ SubsTyped
      /\ UNCHANGED socket
  BY <1>1 DEF Unsubscribe, Subscriptions, SubsTyped, clientVars
<1>3. \A i \in Transports, u \in Topics :
        HeldBy(i, u)' = IF i = g /\ u = t THEN HeldBy(i, u) \ {h} ELSE HeldBy(i, u)
  <2>1. SUFFICES ASSUME NEW i \in Transports, NEW u \in Topics
        PROVE  HeldBy(i, u)' = IF i = g /\ u = t THEN HeldBy(i, u) \ {h} ELSE HeldBy(i, u)
    OBVIOUS
  <2>2. \A k \in Holders : k # h => holding'[k] = holding[k]
    BY <1>2 DEF SubsTyped
  <2>3. holding'[h] # [object |-> i, topic |-> u]
    <3>1. holding'[h] = None
      BY <1>2 DEF SubsTyped
    <3>2. [object |-> i, topic |-> u] \in Closures
      BY DEF Closures
    <3>3. QED
      BY <3>1, <3>2, TransportAssumption
  <2>4. h \in HeldBy(i, u) <=> i = g /\ u = t
    BY <1>1 DEF HeldBy
  <2>5. QED
    BY <2>2, <2>3, <2>4 DEF HeldBy
<1>4. h \in HeldBy(g, t)
  BY <1>1 DEF HeldBy
<1>5. /\ Cardinality(HeldBy(g, t) \ {h}) = Cardinality(HeldBy(g, t)) - 1
      /\ refs[g][t] = Cardinality(HeldBy(g, t)) /\ refs[g][t] # 0
  BY <1>1, <1>4, HoldersFinite, FS_RemoveElement, FS_EmptySet DEF Subscriptions, RefCountsExact
<1>6. RefCountsExact'
  <2>1. \A i \in Transports, u \in Topics :
          refs'[i][u] = IF i = g /\ u = t THEN refs[g][t] - 1 ELSE refs[i][u]
    BY <1>1, <1>2 DEF SubsTyped
  <2>2. SUFFICES ASSUME NEW i \in Transports, NEW u \in Topics
        PROVE  refs'[i][u] = Cardinality(HeldBy(i, u)')
    BY DEF RefCountsExact, HeldBy
  <2>3. CASE i = g /\ u = t
    <3>1. HeldBy(i, u)' = HeldBy(g, t) \ {h}
      BY <1>3, <2>3
    <3>2. refs'[i][u] = refs[g][t] - 1
      BY <2>1, <2>3
    <3>3. QED
      BY <1>5, <3>1, <3>2
  <2>4. CASE ~(i = g /\ u = t)
    <3>1. HeldBy(i, u)' = HeldBy(i, u)
      BY <1>3, <2>4
    <3>2. refs'[i][u] = refs[i][u]
      BY <2>1, <2>4
    <3>3. QED
      BY <3>1, <3>2 DEF RefCountsExact, Subscriptions
  <2>5. QED
    BY <2>3, <2>4
<1>7. server' = IF refs[g][t] = 1 /\ Reads(g)
                THEN [server EXCEPT ![g] = [server[g] EXCEPT !.topics = server[g].topics \ {t}]]
                ELSE server
  BY <1>2 DEF Unsubscribe, SendUnsubscribe
<1>8. SubsTyped'
  <2>1. server[g] \in [up : BOOLEAN, topics : SUBSET Topics]
    BY <1>1, <1>2 DEF SubsTyped
  <2>2. [server[g] EXCEPT !.topics = server[g].topics \ {t}] \in [up : BOOLEAN, topics : SUBSET Topics]
    BY <2>1
  <2>3. server' \in [Transports -> [up : BOOLEAN, topics : SUBSET Topics]]
    BY <1>1, <1>2, <1>7, <2>2 DEF SubsTyped
  <2>4. refs[g][t] - 1 \in Nat
    BY <1>2, <1>5
  <2>5. [refs[g] EXCEPT ![t] = refs[g][t] - 1] \in [Topics -> Nat]
    BY <1>1, <1>2, <2>4 DEF SubsTyped
  <2>6. QED
    BY <1>1, <1>2, <2>3, <2>5 DEF SubsTyped
<1>9. Counted'
  <2>1. \A i \in Transports :
          Subscribed(i)' = IF i = g /\ refs[g][t] = 1 THEN Subscribed(i) \ {t} ELSE Subscribed(i)
    BY <1>1, <1>2, <1>5 DEF Subscribed, SubsTyped
  <2>2. ASSUME NEW i \in Transports, Reads(i)' PROVE server'[i].topics = Subscribed(i)'
    <3>1. Reads(i)
      BY <1>1, <1>2, <1>7, <2>2 DEF Reads, Live, SubsTyped
    <3>2. server[i].topics = Subscribed(i) /\ server[i] \in [up : BOOLEAN, topics : SUBSET Topics]
      BY <1>2, <3>1 DEF Subscriptions, Counted, SubsTyped
    <3>3. server'[i].topics = IF i = g /\ refs[g][t] = 1 THEN server[i].topics \ {t}
                              ELSE server[i].topics
      BY <1>1, <1>2, <1>7, <3>1, <3>2 DEF SubsTyped
    <3>4. QED
      BY <2>1, <3>2, <3>3
  <2>3. QED
    BY <2>2 DEF Counted
<1>10. QED
  BY <1>6, <1>8, <1>9 DEF Subscriptions

\* No step but those two touches the counts; a server that has gone, or a new
\* connection, agrees by what it is.
LEMMA OthersKeep ==
  ASSUME Connections, Subscriptions,
         InitRealtime \/ Dispose \/ (\E g \in Transports : ObjectStep(g)) \/ UNCHANGED vars
  PROVE  Subscriptions'
<1>1. UNCHANGED <<refs, holding>>
  BY DEF InitRealtime, Dispose, ObjectStep, Open, ServerGone, HandleClose, HandleLateClose,
     Reconnect, vars, subVars
<1>2. RefCountsExact'
  BY <1>1 DEF Subscriptions, RefCountsExact, HeldBy
<1>3. \A g \in Transports : Subscribed(g)' = Subscribed(g) /\ Subscribed(g) \in SUBSET Topics
  BY <1>1 DEF Subscribed
<1>4. CASE InitRealtime
  BY <1>2, <1>3, <1>4, TransportAssumption DEF Subscriptions, SubsTyped, Counted, Reads, Live,
     InitRealtime, subVars, Connections, ObjectsTyped, Transports
<1>5. CASE Dispose
  BY <1>2, <1>3, <1>5 DEF Subscriptions, SubsTyped, Counted, Reads, Live, Dispose, subVars,
     Connections, ObjectsTyped
<1>6. ASSUME NEW g \in Transports, Open(g) PROVE Subscriptions'
  BY <1>1, <1>2, <1>3, <1>6 DEF Subscriptions, SubsTyped, Counted, Reads, Live, Open,
     Connections, ObjectsTyped
<1>7. ASSUME NEW g \in Transports, ServerGone(g) \/ HandleClose(g) \/ HandleLateClose(g)
      PROVE  Subscriptions'
  <2>1. server' = [server EXCEPT ![g] = Down] /\ Down \in [up : BOOLEAN, topics : SUBSET Topics]
    BY <1>7 DEF ServerGone, HandleClose, HandleLateClose, Down
  <2>2. \A i \in Transports : i # g => socket'[i] = socket[i]
    BY <1>7 DEF ServerGone, HandleClose, HandleLateClose, clientVars, Connections, ObjectsTyped
  <2>3. SubsTyped'
    BY <1>1, <2>1 DEF Subscriptions, SubsTyped
  <2>4. \A i \in Transports : Reads(i)' => Reads(i) /\ i # g /\ server'[i] = server[i]
    BY <2>1, <2>2 DEF Subscriptions, SubsTyped, Reads, Live, Down
  <2>5. Counted'
    BY <1>3, <2>4 DEF Subscriptions, Counted
  <2>6. QED
    BY <1>2, <2>3, <2>5 DEF Subscriptions
<1>8. ASSUME NEW g \in Transports, Reconnect(g) PROVE Subscriptions'
  BY <1>1, <1>2, <1>3, <1>8 DEF Subscriptions, SubsTyped, Counted, Reads, Live, Reconnect,
     subVars, Connections, ObjectsTyped
<1>9. CASE UNCHANGED vars
  BY <1>2, <1>3, <1>9 DEF Subscriptions, SubsTyped, Counted, Reads, Live, vars, subVars, clientVars
<1>10. QED
  BY <1>4, <1>5, <1>6, <1>7, <1>8, <1>9 DEF ObjectStep

LEMMA StepIInv == IInv /\ [Next]_vars => IInv'
<1> SUFFICES ASSUME IInv, [Next]_vars PROVE IInv'
  OBVIOUS
<1>1. Connections /\ Subscriptions /\ Connections'
  BY StepConnections DEF IInv
<1>2. ASSUME NEW h \in Holders, (\E t \in Topics : Subscribe(h, t)) \/ Unsubscribe(h)
      PROVE  Subscriptions'
  BY <1>1, <1>2, SubscribeKeeps, UnsubscribeKeeps
<1>3. ASSUME InitRealtime \/ Dispose \/ (\E g \in Transports : ObjectStep(g)) \/ UNCHANGED vars
      PROVE  Subscriptions'
  BY <1>1, <1>3, OthersKeep
<1>4. QED
  BY <1>1, <1>2, <1>3 DEF IInv, Next, ObjectStep

LEMMA IInvHolds == Spec => []IInv
BY InitConnections, InitSubscriptions, StepIInv, PTL DEF Spec, IInv

\* Every variable keeps its type, the counts included.
THEOREM TransportTypes == Spec => []TypeOK
<1>1. IInv => TypeOK
  BY DEF IInv, Connections, Subscriptions, ObjectsTyped, SubsTyped, TypeOK
<1>2. QED
  BY <1>1, IInvHolds, PTL

\* A topic's count is the number of components that hold it, on every object,
\* disposed of or not (transport.ts:92-103).
THEOREM CountsAreExact == Spec => []RefCountsExact
<1>1. IInv => RefCountsExact
  BY DEF IInv, Subscriptions
<1>2. QED
  BY <1>1, IInvHolds, PTL

\* A connection that is up sends exactly the topics that somebody holds,
\* through any failures and reconnections (transport.ts:1-6, :137-145).
THEOREM ServerSendsWhatIsHeld == Spec => []ServerAgrees
<1>1. IInv => ServerAgrees
  <2> SUFFICES ASSUME IInv, NEW g \in Transports, Reads(g)
               PROVE  server[g].topics = {t \in Topics : HeldBy(g, t) # {}}
    BY DEF ServerAgrees
  <2>1. server[g].topics = Subscribed(g)
    BY DEF IInv, Subscriptions, Counted
  <2>2. \A t \in Topics : t \in Subscribed(g) <=> HeldBy(g, t) # {}
    BY CountedIsHeld DEF IInv, Subscriptions
  <2>3. QED
    BY <2>1, <2>2 DEF Subscribed
<1>2. QED
  BY <1>1, IInvHolds, PTL
=============================================================================
