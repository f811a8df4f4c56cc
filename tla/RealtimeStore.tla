--------------------------- MODULE RealtimeStore ---------------------------
(***************************************************************************)
(* The web client's event path: dedup, background-tab gate, reorder check, *)
(* per-topic buffers and their frame flush (store.ts, background-tab.ts,   *)
(* lru.ts).  Events arrive in any order, late, repeated or not at all.     *)
(* Stream callbacks run inside the push and are left out.                  *)
(***************************************************************************)
EXTENDS Naturals, Sequences, FiniteSets, SequencesExt

CONSTANTS
  Events,        \* records [topic, slot]: the id hashes topic, slot, payload
  Topics,
  Critical,      \* the topics of critical priority
  Tolerance,     \* realtimeBudget.reorderTolerance
  BufferMax,     \* realtimeBudget.backpressureBufferMax
  DedupEntries,  \* realtimeBudget.dedupLruEntries
  MaxPushes,     \* bound: events that pass dedup
  None

ASSUME StoreAssumption ==
  /\ \A e \in Events : e.topic \in Topics /\ e.slot \in Nat
  /\ IsFiniteSet(Topics) /\ Critical \subseteq Topics /\ None \notin Events
  /\ Tolerance \in Nat /\ BufferMax \in Nat \ {0} /\ DedupEntries \in Nat \ {0}

VARIABLES
  lru,        \* keys of the dedup map, oldest first
  docHidden,  \* document.visibilityState is "hidden"
  hidden,     \* GateState.hidden, what the gate believes
  parked,     \* GateState.parked
  skipped,    \* GateState.skippedTotal
  snapshot, buffer,  \* PerTopic; a buffered event is marked when it was replayed
  rafQueued,
  dropped, reordered,  \* droppedTotal, reorderedTotal
  recency,    \* history: every key seen, ordered by when it was last seen
  passed,     \* history: events of a topic that passed dedup
  replayed,   \* history: parked events replayed
  taken,      \* history: events of a topic that a flush has taken, shown or not
  tooOld      \* history: events of a topic refused by the reorder check

gateVars == <<docHidden, hidden, parked, skipped>>
topicVars == <<snapshot, buffer, rafQueued, dropped, reordered, taken, tooOld>>
vars == <<lru, gateVars, topicVars, recency, passed, replayed>>

Plain(e) == [event |-> e, replay |-> FALSE]
Replay(e) == [event |-> e, replay |-> TRUE]
IdOf(e) == <<e, "id">>
ResumeKey(e) == <<e, "resume">>

Sum(f) == FoldFunction(+, 0, f)

-----------------------------------------------------------------------------
(* lru.ts: the keys of an insertion-ordered Map *)

\* delete and set: a map holds a key once, and a key set anew is its last.
ToEnd(keys, k) == Append(RemoveFirst(keys, k), k)

\* Touch as a mere look-up: first in, first out.
TouchNothing(keys, k) == keys

\* A hit in has(), and set() of a key that is there, move it to the end.
Touch(keys, k) == ToEnd(keys, k)

\* set() of a new key makes room first.
Add(keys, k) ==
  IF Contains(keys, k) THEN Touch(keys, k)
  ELSE Append(IF Len(keys) >= DedupEntries THEN Tail(keys) ELSE keys, k)

\* What the flush reduces a buffer to: the first of the entries with the highest slot.
Latest(s) ==
  s[CHOOSE i \in DOMAIN s : \A j \in DOMAIN s :
      \/ s[j].event.slot < s[i].event.slot
      \/ s[j].event.slot = s[i].event.slot /\ i <= j]

-----------------------------------------------------------------------------
(* pushEvent *)

\* The dedup entry exists: dropped without a trace but the touch.
PushDuplicate(e) ==
  /\ Contains(lru, IdOf(e))
  /\ lru' = Touch(lru, IdOf(e))
  /\ recency' = ToEnd(recency, IdOf(e))
  /\ UNCHANGED <<gateVars, topicVars, passed, replayed>>

Fresh(e) ==
  /\ ~Contains(lru, IdOf(e))
  /\ Sum(passed) < MaxPushes
  /\ lru' = Add(lru, IdOf(e))
  /\ recency' = ToEnd(recency, IdOf(e))
  /\ passed' = [passed EXCEPT ![e.topic] = @ + 1]
  /\ UNCHANGED replayed

\* Park counting only the events it replaces.
ParkUncounted(e) ==
  /\ hidden /\ e.topic \notin Critical
  /\ parked' = IF parked[e.topic] = None \/ e.slot > parked[e.topic].slot
               THEN [parked EXCEPT ![e.topic] = e] ELSE parked
  /\ skipped' = IF parked[e.topic] = None THEN skipped ELSE skipped + 1
  /\ UNCHANGED <<docHidden, hidden, topicVars>>

\* shouldParkWhileHidden: a default topic keeps its latest event by slot.
Parks(e) == hidden /\ e.topic \notin Critical
Park(e) ==
  /\ Parks(e)
  /\ parked' = IF parked[e.topic] = None \/ e.slot > parked[e.topic].slot
               THEN [parked EXCEPT ![e.topic] = e] ELSE parked
  /\ skipped' = skipped + 1
  /\ UNCHANGED <<docHidden, hidden, topicVars>>

\* Late that gives the tolerance to both ends.
LateTwice(e) ==
  snapshot[e.topic] # None /\ snapshot[e.topic].slot > e.slot + 2 * Tolerance

\* The reorder check, against what is shown and not what is buffered.
Late(e) ==
  snapshot[e.topic] # None /\ snapshot[e.topic].slot > e.slot + Tolerance
RefuseLate(e) ==
  /\ ~Parks(e) /\ Late(e)
  /\ reordered' = reordered + 1
  /\ tooOld' = [tooOld EXCEPT ![e.topic] = @ + 1]
  /\ UNCHANGED <<gateVars, snapshot, buffer, rafQueued, dropped, taken>>

\* Excess without the priority.
ExcessOfAny(s, t) == IF Len(s) <= BufferMax THEN 0 ELSE Len(s) - BufferMax

\* Backpressure drops the oldest of a default topic.
Excess(s, t) == IF t \in Critical \/ Len(s) <= BufferMax THEN 0 ELSE Len(s) - BufferMax

Buffer(e) ==
  LET t == e.topic
      pushed == Append(buffer[t], Plain(e)) IN
  /\ ~Parks(e) /\ ~Late(e)
  /\ buffer' = [buffer EXCEPT ![t] = SubSeq(pushed, 1 + Excess(pushed, t), Len(pushed))]
  /\ dropped' = dropped + Excess(pushed, t)
  /\ rafQueued' = TRUE
  /\ UNCHANGED <<gateVars, snapshot, reordered, taken, tooOld>>

PushEvent(e) ==
  \/ PushDuplicate(e)
  \/ Fresh(e) /\ (Park(e) \/ RefuseLate(e) \/ Buffer(e))

-----------------------------------------------------------------------------
(* The frame and the visibility handler *)

\* Flush taking the last event to arrive.
FlushLastArrived ==
  /\ rafQueued /\ ~docHidden
  /\ rafQueued' = FALSE
  /\ snapshot' = [t \in Topics |-> IF buffer[t] = <<>> THEN snapshot[t]
                                   ELSE Last(buffer[t]).event]
  /\ taken' = [t \in Topics |-> taken[t] + Len(buffer[t])]
  /\ buffer' = [t \in Topics |-> <<>>]
  /\ UNCHANGED <<gateVars, lru, dropped, reordered, tooOld, recency, passed, replayed>>

\* The requestAnimationFrame callback, which a hidden document does not get:
\* every topic with a buffer shows its latest event by slot.
Flush ==
  /\ rafQueued /\ ~docHidden
  /\ rafQueued' = FALSE
  /\ snapshot' = [t \in Topics |-> IF buffer[t] = <<>> THEN snapshot[t]
                                   ELSE Latest(buffer[t]).event]
  /\ taken' = [t \in Topics |-> taken[t] + Len(buffer[t])]
  /\ buffer' = [t \in Topics |-> <<>>]
  /\ UNCHANGED <<gateVars, lru, dropped, reordered, tooOld, recency, passed, replayed>>

\* visibilitychange to hidden.
Hide ==
  /\ ~docHidden
  /\ docHidden' = TRUE /\ hidden' = TRUE
  /\ UNCHANGED <<lru, parked, skipped, topicVars, recency, passed, replayed>>

\* The order in which the gate replays: by slot, a stable sort.
ParkedTopics == {t \in Topics : parked[t] # None}
Replays(order) ==
  /\ order \in SetToSeqs(ParkedTopics)
  /\ \A i, j \in DOMAIN order : i < j => parked[order[i]].slot <= parked[order[j]].slot

\* Each parked event gets a second dedup entry, in that order.
Reenter(order) ==
  LET after[i \in 0 .. Len(order)] ==
        IF i = 0 THEN <<lru, recency>>
        ELSE LET k == ResumeKey(parked[order[i]]) IN
             <<Add(after[i - 1][1], k), ToEnd(after[i - 1][2], k)>> IN
  /\ lru' = after[Len(order)][1]
  /\ recency' = after[Len(order)][2]

\* visibilitychange to visible: every parked event goes into its buffer,
\* past the reorder check and the backpressure.
Resume ==
  /\ docHidden /\ hidden
  /\ docHidden' = FALSE /\ hidden' = FALSE
  /\ \E order \in SetToSeqs(ParkedTopics) :
       /\ Replays(order)
       /\ Reenter(order)
       /\ rafQueued' = (rafQueued \/ order # <<>>)
  /\ buffer' = [t \in Topics |-> IF parked[t] = None THEN buffer[t]
                                 ELSE Append(buffer[t], Replay(parked[t]))]
  /\ replayed' = replayed + Cardinality(ParkedTopics)
  /\ parked' = [t \in Topics |-> None]
  /\ UNCHANGED <<skipped, snapshot, dropped, reordered, taken, tooOld, passed>>

\* A document that was hidden when the gate was installed becomes visible: the
\* gate had not noticed and has nothing to replay.
ShowUnnoticed ==
  /\ docHidden /\ ~hidden
  /\ docHidden' = FALSE
  /\ UNCHANGED <<lru, hidden, parked, skipped, topicVars, recency, passed, replayed>>

-----------------------------------------------------------------------------
\* The gate starts with hidden = false whatever the document's state is.
Init ==
  /\ lru = <<>> /\ recency = <<>>
  /\ docHidden \in BOOLEAN /\ hidden = FALSE
  /\ parked = [t \in Topics |-> None] /\ skipped = 0
  /\ snapshot = [t \in Topics |-> None] /\ buffer = [t \in Topics |-> <<>>]
  /\ rafQueued = FALSE /\ dropped = 0 /\ reordered = 0 /\ replayed = 0
  /\ passed = [t \in Topics |-> 0] /\ taken = [t \in Topics |-> 0]
  /\ tooOld = [t \in Topics |-> 0]

Next ==
  \/ \E e \in Events : PushEvent(e)
  \/ Flush
  \/ Hide \/ Resume \/ ShowUnnoticed

\* A visible document gets its animation frames.
Spec == Init /\ [][Next]_vars /\ WF_vars(Flush)

-----------------------------------------------------------------------------
(* Properties *)

Entries == [event : Events, replay : BOOLEAN]

\* Every variable but the dedup map, which DedupWindow describes, has its type.
TypeOK ==
  /\ docHidden \in BOOLEAN /\ hidden \in BOOLEAN /\ rafQueued \in BOOLEAN
  /\ parked \in [Topics -> Events \cup {None}]
  /\ snapshot \in [Topics -> Events \cup {None}]
  /\ buffer \in [Topics -> Seq(Entries)]
  /\ passed \in [Topics -> Nat] /\ taken \in [Topics -> Nat] /\ tooOld \in [Topics -> Nat]
  /\ {skipped, dropped, reordered, replayed} \subseteq Nat

\* The dedup map holds the keys seen most recently, whichever way they were
\* seen, so a repetition within the window never passes (lru.ts:1-5).
DedupWindow ==
  LET n == IF Len(recency) < DedupEntries THEN Len(recency) ELSE DedupEntries IN
  lru = SubSeq(recency, Len(recency) - n + 1, Len(recency))

\* Each event that passed dedup, and each that was replayed, is waiting for a
\* frame that has been asked for, was taken by one, or is counted by the
\* counter of what refused it: the three totals that the status page reads
\* add up (store.ts:67-89, :91-139).
EventsAccounted ==
  /\ Sum(passed) + replayed =
       Sum([t \in Topics |-> Len(buffer[t])]) + Sum(taken)
         + skipped + reordered + dropped
  /\ (\E t \in Topics : buffer[t] # <<>>) => rafQueued

\* An event of a critical topic that passed dedup reaches the next frame,
\* hidden tab or burst or not, unless it came too late (store.ts:8-11).  Of the
\* events that a frame takes it shows the latest (store.ts:79-82).
CriticalKept ==
  \A t \in Critical : passed[t] = Len(buffer[t]) + taken[t] + tooOld[t]

\* A frame moves what is shown back by at most the tolerance, unless all it
\* takes was replayed after the tab was hidden (store.ts:101-112, :171-175).
BackByTolerance ==
  [][\A t \in Topics :
       snapshot[t] # None /\ snapshot'[t] # snapshot[t] =>
         \/ snapshot'[t].slot + Tolerance >= snapshot[t].slot
         \/ \A i \in DOMAIN buffer[t] : buffer[t][i].replay]_vars

\* Nothing leaves a buffer but by a frame that shows it or something later,
\* or by backpressure, which counts it: after a return to the tab the frame
\* shows what was parked (background-tab.ts:12-16).
Waiting(e) == \E i \in DOMAIN buffer[e.topic] : buffer[e.topic][i].event = e
Shown(e) == snapshot[e.topic] # None /\ snapshot[e.topic].slot >= e.slot
BufferedIsShown ==
  [][\A e \in Events :
       Waiting(e) /\ ~Waiting(e)' => Shown(e)' \/ dropped' > dropped]_vars
=============================================================================
