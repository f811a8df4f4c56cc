---------------------------- MODULE IngestProofs ----------------------------
(***************************************************************************)
(* Proofs about the ingestion fabric, for any number of injector tasks,    *)
(* any set of events and all window and channel sizes.                     *)
(***************************************************************************)
EXTENDS Ingest, FiniteSetTheorems, SequenceTheorems, WellFoundedInduction, TLAPS

\* Where a call of inject can be, and what the bus's variables hold.
Steps == {"dedup", "reorder", "send", "count"}
Frames == [at : Steps, event : Events]
BusTyped ==
  /\ call \in [Tasks -> {Idle} \cup Frames]
  /\ ring \in Seq(Events) /\ fresh \in Seq(Events)
  /\ commitment \in Seq(Events) /\ Len(commitment) <= CommitmentCapacity
  /\ monitoring \in Seq(Events) /\ Len(monitoring) <= MonitoringCapacity
  /\ latest \in Nat /\ counters \in [Counter -> Nat] /\ received \in Nat

-----------------------------------------------------------------------------
(* The shapes a step of inject can have *)

Rest == <<ring, latest, commitment, monitoring, fresh, received>>
Ends(t, step, c) ==
  /\ At(t, step)
  /\ call' = [call EXCEPT ![t] = Idle]
  /\ counters' = [counters EXCEPT ![c] = counters[c] + 1]
  /\ UNCHANGED Rest
Moves(t, from, to) ==
  /\ At(t, from)
  /\ call' = [call EXCEPT ![t] = [at |-> to, event |-> call[t].event]]
  /\ UNCHANGED counters
Accepts(t) ==
  /\ Moves(t, "dedup", IF call[t].event.bound THEN "reorder" ELSE "send")
  /\ ~Seen(call[t].event)
  /\ ring' = Insert(call[t].event) /\ fresh' = Append(fresh, call[t].event)
  /\ UNCHANGED <<latest, commitment, monitoring, received>>
Advances(t) ==
  /\ Moves(t, "reorder", "send")
  /\ latest' \in {latest, call[t].event.slot}
  /\ UNCHANGED <<ring, commitment, monitoring, fresh, received>>
Commits(t) ==
  /\ Moves(t, "send", "count") /\ call[t].event.bound
  /\ Len(commitment) < CommitmentCapacity
  /\ commitment' = Append(commitment, call[t].event)
  /\ UNCHANGED <<ring, latest, monitoring, fresh, received>>
Monitors(t) ==
  /\ Moves(t, "send", "count")
  /\ Len(monitoring) < MonitoringCapacity
  /\ monitoring' = Append(monitoring, call[t].event)
  /\ UNCHANGED <<ring, latest, commitment, fresh, received>>
Ended(t) ==
  \/ Ends(t, "dedup", "dedup_dropped") \/ Ends(t, "reorder", "reorder_dropped")
  \/ Ends(t, "send", "commitment_overflow") \/ Ends(t, "send", "monitoring_overflow")
  \/ Ends(t, "count", "published")

\* A task in a call holds an event.
LEMMA InACall ==
  ASSUME BusTyped, NEW t \in Tasks, NEW step \in Steps, At(t, step)
  PROVE  /\ call[t] \in Frames /\ call[t].event \in Events
         /\ \A s : [call EXCEPT ![t].at = s] =
                   [call EXCEPT ![t] = [at |-> s, event |-> call[t].event]]
<1>1. call[t] \in {Idle} \cup Frames /\ call[t].at # "idle"
  BY DEF BusTyped, At, Steps
<1>2. call[t] \in Frames
  BY <1>1 DEF Idle
<1>3. call[t].event \in Events
  BY <1>2 DEF Frames
<1>4. ASSUME NEW s
      PROVE  [call EXCEPT ![t].at = s] =
             [call EXCEPT ![t] = [at |-> s, event |-> call[t].event]]
  <2>1. [call[t] EXCEPT !.at = s] = [at |-> s, event |-> call[t].event]
    BY <1>2 DEF Frames
  <2>2. QED
    BY <2>1
<1>5. QED
  BY <1>2, <1>3, <1>4

LEMMA Shapes ==
  ASSUME BusTyped, NEW t \in Tasks, Inject(t)
  PROVE  Ended(t) \/ Accepts(t) \/ Advances(t) \/ Commits(t) \/ Monitors(t)
<1>1. CASE Dedup(t)
  <2>1. At(t, "dedup") /\ "dedup" \in Steps
    BY <1>1 DEF Dedup, Steps
  <2>2. QED
    BY <1>1, <2>1, InACall DEF Dedup, Return, Goto, Ended, Ends, Rest, Accepts, Moves
<1>2. CASE Reorder(t)
  <2>1. At(t, "reorder") /\ "reorder" \in Steps
    BY <1>2 DEF Reorder, Steps
  <2>2. QED
    BY <1>2, <2>1, InACall DEF Reorder, Return, Goto, Ended, Ends, Rest, Advances, Moves
<1>3. CASE TrySend(t)
  <2>1. At(t, "send") /\ "send" \in Steps
    BY <1>3 DEF TrySend, Steps
  <2>2. QED
    BY <1>3, <2>1, InACall
       DEF TrySend, Overflow, Return, Goto, Ended, Ends, Rest, Commits, Monitors, Moves
<1>4. CASE Count(t)
  BY <1>4 DEF Count, Return, Ended, Ends, Rest
<1>5. QED
  BY <1>1, <1>2, <1>3, <1>4 DEF Inject

-----------------------------------------------------------------------------
(* Types of the bus *)

\* Appending, and taking the first.
LEMMA Appending ==
  ASSUME NEW S, NEW s \in Seq(S), NEW e \in S
  PROVE  /\ Append(s, e) \in Seq(S) /\ Len(Append(s, e)) = Len(s) + 1
         /\ \A i \in 1 .. Len(s) : Append(s, e)[i] = s[i]
         /\ Append(s, e)[Len(s) + 1] = e
OBVIOUS

LEMMA Taking ==
  ASSUME NEW S, NEW s \in Seq(S), s # <<>>
  PROVE  /\ Tail(s) \in Seq(S) /\ Len(Tail(s)) = Len(s) - 1 /\ Len(s) > 0
         /\ \A i \in 1 .. Len(s) - 1 : Tail(s)[i] = s[i + 1]
         /\ Head(s) = s[1] /\ Head(s) \in S
OBVIOUS

\* What the ring is after a new event.
LEMMA Inserting ==
  ASSUME ring \in Seq(Events), NEW e \in Events
  PROVE  LET kept == IF Len(ring) >= DedupWindow THEN Len(ring) - 1 ELSE Len(ring) IN
         /\ Insert(e) \in Seq(Events) /\ Len(Insert(e)) = kept + 1
         /\ \A i \in 1 .. kept : Insert(e)[i] = ring[Len(ring) - kept + i]
         /\ Insert(e)[kept + 1] = e
<1>1. CASE Len(ring) >= DedupWindow
  <2>1. Len(ring) \in Nat /\ ring # <<>>
    BY <1>1, BusAssumption
  <2>2. /\ Tail(ring) \in Seq(Events) /\ Len(Tail(ring)) = Len(ring) - 1
        /\ \A i \in 1 .. Len(ring) - 1 : Tail(ring)[i] = ring[i + 1]
    BY <2>1, Taking
  <2>3. Insert(e) = Append(Tail(ring), e)
    BY <1>1 DEF Insert
  <2>4. /\ Insert(e) \in Seq(Events) /\ Len(Insert(e)) = Len(Tail(ring)) + 1
        /\ \A i \in 1 .. Len(Tail(ring)) : Insert(e)[i] = Tail(ring)[i]
        /\ Insert(e)[Len(Tail(ring)) + 1] = e
    BY <2>2, <2>3, Appending
  <2>5. QED
    BY <1>1, <2>1, <2>2, <2>4
<1>2. CASE ~(Len(ring) >= DedupWindow)
  <2>1. Insert(e) = Append(ring, e) /\ Len(ring) \in Nat
    BY <1>2 DEF Insert
  <2>2. QED
    BY <1>2, <2>1, Appending
<1>3. QED
  BY <1>1, <1>2

LEMMA BusTypedAtFirst == BusInit => BusTyped
BY BusAssumption DEF BusInit, BusTyped, Counter

LEMMA InjectKeepsTypes ==
  ASSUME BusTyped, NEW t \in Tasks, Inject(t)
  PROVE  BusTyped'
<1>1. ASSUME NEW step \in Steps, NEW c \in Counter, Ends(t, step, c) PROVE BusTyped'
  <2>1. call' \in [Tasks -> {Idle} \cup Frames]
    BY <1>1 DEF Ends, BusTyped
  <2>2. counters' \in [Counter -> Nat]
    BY <1>1 DEF Ends, BusTyped
  <2>3. QED
    BY <1>1, <2>1, <2>2 DEF Ends, Rest, BusTyped
<1>2. ASSUME NEW from \in Steps, NEW to \in Steps, Moves(t, from, to)
      PROVE  /\ call[t].event \in Events
             /\ call' \in [Tasks -> {Idle} \cup Frames] /\ counters' \in [Counter -> Nat]
  <2>1. call[t].event \in Events
    BY <1>2, InACall DEF Moves
  <2>2. [at |-> to, event |-> call[t].event] \in Frames
    BY <2>1 DEF Frames
  <2>3. QED
    BY <1>2, <2>1, <2>2 DEF Moves, BusTyped
<1>3. {"dedup", "reorder", "send", "count"} = Steps
  BY DEF Steps
<1>4. CASE Ended(t)
  BY <1>1, <1>3, <1>4 DEF Ended, Counter
<1>5. CASE Accepts(t)
  <2>1. /\ call[t].event \in Events
        /\ call' \in [Tasks -> {Idle} \cup Frames] /\ counters' \in [Counter -> Nat]
    BY <1>2, <1>3, <1>5 DEF Accepts
  <2>2. ring' \in Seq(Events) /\ fresh' \in Seq(Events)
    BY <1>5, <2>1, Inserting, Appending DEF Accepts, BusTyped
  <2>3. QED
    BY <1>5, <2>1, <2>2 DEF Accepts, BusTyped
<1>6. CASE Advances(t)
  <2>1. /\ call[t].event \in Events
        /\ call' \in [Tasks -> {Idle} \cup Frames] /\ counters' \in [Counter -> Nat]
    BY <1>2, <1>3, <1>6 DEF Advances
  <2>2. latest' \in Nat
    BY <1>6, <2>1, BusAssumption DEF Advances, BusTyped
  <2>3. QED
    BY <1>6, <2>1, <2>2 DEF Advances, BusTyped
<1>7. CASE Commits(t)
  <2>1. /\ call[t].event \in Events
        /\ call' \in [Tasks -> {Idle} \cup Frames] /\ counters' \in [Counter -> Nat]
    BY <1>2, <1>3, <1>7 DEF Commits
  <2>2. commitment' \in Seq(Events) /\ Len(commitment') <= CommitmentCapacity
    BY <1>7, <2>1, Appending, BusAssumption DEF Commits, BusTyped
  <2>3. QED
    BY <1>7, <2>1, <2>2 DEF Commits, BusTyped
<1>8. CASE Monitors(t)
  <2>1. /\ call[t].event \in Events
        /\ call' \in [Tasks -> {Idle} \cup Frames] /\ counters' \in [Counter -> Nat]
    BY <1>2, <1>3, <1>8 DEF Monitors
  <2>2. monitoring' \in Seq(Events) /\ Len(monitoring') <= MonitoringCapacity
    BY <1>8, <2>1, Appending, BusAssumption DEF Monitors, BusTyped
  <2>3. QED
    BY <1>8, <2>1, <2>2 DEF Monitors, BusTyped
<1>9. QED
  BY <1>4, <1>5, <1>6, <1>7, <1>8, Shapes

LEMMA BusTypedHolds ==
  ASSUME BusTyped, [Next]_allVars
  PROVE  BusTyped'
<1>1. ASSUME NEW t \in Tasks, NEW e \in Events, Call(t, e) PROVE BusTyped'
  <2>1. [at |-> "dedup", event |-> e] \in Frames
    BY DEF Frames, Steps
  <2>2. call' \in [Tasks -> {Idle} \cup Frames]
    BY <1>1, <2>1 DEF Call, BusTyped
  <2>3. QED
    BY <1>1, <2>2 DEF Call, BusTyped
<1>2. ASSUME NEW e \in Events, ReceiveCommitment(e) PROVE BusTyped'
  <2>1. commitment' \in Seq(Events) /\ Len(commitment') <= CommitmentCapacity
    BY <1>2, Taking, BusAssumption DEF ReceiveCommitment, BusTyped
  <2>2. QED
    BY <1>2, <2>1 DEF ReceiveCommitment, BusTyped
<1>3. ASSUME NEW e \in Events, ReceiveMonitoring(e) PROVE BusTyped'
  <2>1. monitoring' \in Seq(Events) /\ Len(monitoring') <= MonitoringCapacity
    BY <1>3, Taking, BusAssumption DEF ReceiveMonitoring, BusTyped
  <2>2. QED
    BY <1>3, <2>1 DEF ReceiveMonitoring, BusTyped
<1>4. CASE UNCHANGED allVars
  BY <1>4 DEF allVars, vars, BusTyped
<1>5. QED
  BY <1>1, <1>2, <1>3, <1>4, InjectKeepsTypes DEF Next, Receive

\* The ring and the history grow together, when an event is accepted.
LEMMA OnlyAcceptsGrow ==
  ASSUME BusTyped, [Next]_allVars
  PROVE  (\E t \in Tasks : Accepts(t)) \/ UNCHANGED <<ring, fresh>>
<1>1. ASSUME NEW t \in Tasks, Inject(t) PROVE Accepts(t) \/ UNCHANGED <<ring, fresh>>
  BY <1>1, Shapes DEF Ended, Ends, Rest, Advances, Commits, Monitors
<1>2. QED
  BY <1>1 DEF Next, Call, Receive, ReceiveCommitment, ReceiveMonitoring, allVars, vars

-----------------------------------------------------------------------------
(* The dedup ring *)

\* The ring holds the events accepted last.
RingIsRecent ==
  /\ Len(ring) = IF Len(fresh) < DedupWindow THEN Len(fresh) ELSE DedupWindow
  /\ \A i \in 1 .. Len(ring) : ring[i] = fresh[Len(fresh) - Len(ring) + i]

Spaced == BusTyped /\ RingIsRecent /\ DedupSpacing

LEMMA AcceptingKeepsSpacing ==
  ASSUME Spaced, NEW t \in Tasks, Accepts(t)
  PROVE  RingIsRecent' /\ DedupSpacing'
<1> DEFINE e == call[t].event
           n == Len(fresh)
           m == Len(ring)
           kept == IF m >= DedupWindow THEN m - 1 ELSE m
<1>1. e \in Events /\ ring \in Seq(Events) /\ fresh \in Seq(Events)
  BY InACall DEF Accepts, Moves, Steps, Spaced, BusTyped
<1>2. n \in Nat /\ m \in Nat /\ DedupWindow \in Nat \ {0} /\ kept \in Nat
  BY <1>1, BusAssumption
<1>3. /\ Len(ring') = kept + 1
      /\ \A i \in 1 .. kept : ring'[i] = ring[m - kept + i]
      /\ ring'[kept + 1] = e
  BY <1>1, Inserting DEF Accepts
<1>4. /\ Len(fresh') = n + 1 /\ fresh'[n + 1] = e
      /\ \A i \in 1 .. n : fresh'[i] = fresh[i]
      /\ DOMAIN fresh' = 1 .. n + 1
  BY <1>1, Appending DEF Accepts
<1>5. /\ m = IF n < DedupWindow THEN n ELSE DedupWindow
      /\ \A i \in 1 .. m : ring[i] = fresh[n - m + i]
      /\ \A i \in 1 .. m : ring[i] # e
      /\ \A i, j \in 1 .. n : i < j /\ fresh[i] = fresh[j] => j - i > DedupWindow
  <2>1. DOMAIN ring = 1 .. m /\ DOMAIN fresh = 1 .. n
    BY <1>1
  <2>2. \A i \in 1 .. m : ring[i] # e
    BY <2>1 DEF Accepts, Seen
  <2>3. \A i, j \in 1 .. n : i < j /\ fresh[i] = fresh[j] => j - i > DedupWindow
    BY <2>1 DEF Spaced, DedupSpacing
  <2>4. QED
    BY <2>2, <2>3 DEF Spaced, RingIsRecent
<1> HIDE DEF e, n, m
<1>6. RingIsRecent'
  <2>1. Len(ring') = IF Len(fresh') < DedupWindow THEN Len(fresh') ELSE DedupWindow
    BY <1>2, <1>3, <1>4, <1>5
  <2>2. ASSUME NEW i \in 1 .. Len(ring')
        PROVE  ring'[i] = fresh'[Len(fresh') - Len(ring') + i]
    <3>1. CASE i = kept + 1
      BY <1>2, <1>3, <1>4, <3>1
    <3>2. CASE i # kept + 1
      <4>1. i \in 1 .. kept /\ m - kept + i \in 1 .. m
        BY <1>2, <1>3, <2>2, <3>2
      <4>2. ring'[i] = fresh[n - m + (m - kept + i)]
        BY <1>3, <1>5, <4>1
      <4>3. n - m + (m - kept + i) = n - kept + i /\ n - kept + i \in 1 .. n
        BY <1>2, <1>5, <4>1
      <4>4. Len(fresh') - Len(ring') + i = n - kept + i
        BY <1>2, <1>3, <1>4, <4>1
      <4>5. QED
        BY <1>4, <4>2, <4>3, <4>4
    <3>3. QED
      BY <3>1, <3>2
  <2>3. QED
    BY <2>1, <2>2 DEF RingIsRecent
<1>7. DedupSpacing'
  <2> SUFFICES ASSUME NEW i \in 1 .. n + 1, NEW j \in 1 .. n + 1,
                      i < j, fresh'[i] = fresh'[j]
               PROVE  j - i > DedupWindow
    BY <1>4 DEF DedupSpacing
  <2>1. CASE j \in 1 .. n
    <3>1. i \in 1 .. n
      BY <1>2, <2>1
    <3>2. QED
      BY <1>4, <1>5, <2>1, <3>1
  <2>2. CASE j = n + 1
    <3>1. i \in 1 .. n /\ fresh[i] = e
      BY <1>2, <1>4, <2>2
    \* The ring would have known an event accepted less long ago.
    <3>2. ~(i > n - m)
      <4> SUFFICES ASSUME i > n - m PROVE FALSE
        OBVIOUS
      <4>1. i - (n - m) \in 1 .. m /\ n - m + (i - (n - m)) = i
        BY <1>2, <1>5, <3>1
      <4>2. ring[i - (n - m)] = fresh[i]
        BY <1>5, <4>1
      <4>3. QED
        BY <1>5, <3>1, <4>1, <4>2
    <3>3. QED
      BY <1>2, <1>5, <2>2, <3>1, <3>2
  <2>3. QED
    BY <1>2, <2>1, <2>2
<1>8. QED
  BY <1>6, <1>7

LEMMA SpacedHolds == Spec => []Spaced
<1>1. Init => Spaced
  <2> SUFFICES ASSUME Init PROVE Spaced
    OBVIOUS
  <2>1. BusTyped /\ ring = <<>> /\ fresh = <<>>
    BY BusTypedAtFirst DEF Init, BusInit
  <2>2. QED
    BY <2>1, BusAssumption DEF Spaced, RingIsRecent, DedupSpacing
<1>2. Spaced /\ [Next]_allVars => Spaced'
  <2> SUFFICES ASSUME Spaced, [Next]_allVars PROVE Spaced'
    OBVIOUS
  <2>1. BusTyped'
    BY BusTypedHolds DEF Spaced
  <2>2. CASE UNCHANGED <<ring, fresh>>
    BY <2>1, <2>2 DEF Spaced, RingIsRecent, DedupSpacing
  <2>3. QED
    BY <2>1, <2>2, OnlyAcceptsGrow, AcceptingKeepsSpacing DEF Spaced
<1>3. QED
  BY <1>1, <1>2, PTL DEF Spec

\* Between two passes of one event at least dedup_window others pass, for every
\* window, however many tasks inject and however their calls interleave
\* (bus.rs:9).
THEOREM WindowKeepsRepeatsApart == Spec => []DedupSpacing
<1>1. Spaced => DedupSpacing
  BY DEF Spaced
<1>2. QED
  BY <1>1, SpacedHolds, PTL

-----------------------------------------------------------------------------
(* What becomes of an event *)

\* How many tasks are at each step, and NothingLostSilently over that.
Inside == [step \in Steps |-> InCall(step)]
Waiting == Inside["reorder"] + Inside["send"]
Refused == counters["reorder_dropped"] + counters["commitment_overflow"]
             + counters["monitoring_overflow"]
Accounted ==
  /\ Len(fresh) = Sent + Waiting + Refused
  /\ Sent = counters["published"] + Inside["count"]

LEMMA TasksAtAStep ==
  ASSUME NEW step
  PROVE  IsFiniteSet({t \in Tasks : call[t].at = step}) /\ InCall(step) \in Nat
<1>1. IsFiniteSet({t \in Tasks : call[t].at = step})
  BY BusAssumption, FS_Subset
<1>2. QED
  BY <1>1, FS_CardinalityType DEF InCall

\* A task that goes from one place of the code to another.
Shifted(from, to) ==
  \A step \in Steps : Inside'[step] = Inside[step] + (IF step = to THEN 1 ELSE 0)
                                                   - (IF step = from THEN 1 ELSE 0)
LEMMA Going ==
  ASSUME BusTyped, NEW t \in Tasks, NEW r, call' = [call EXCEPT ![t] = r], call[t].at # r.at
  PROVE  Shifted(call[t].at, r.at)
<1> SUFFICES ASSUME NEW step \in Steps
             PROVE  Inside'[step] = Inside[step] + (IF step = r.at THEN 1 ELSE 0)
                                                 - (IF step = call[t].at THEN 1 ELSE 0)
  BY DEF Shifted
<1> DEFINE before == {u \in Tasks : call[u].at = step}
           after  == {u \in Tasks : call'[u].at = step}
<1>1. \A u \in Tasks : call'[u] = IF u = t THEN r ELSE call[u]
  BY DEF BusTyped
<1>2. IsFiniteSet(before) /\ Inside[step] = Cardinality(before)
      /\ Inside'[step] = Cardinality(after) /\ Cardinality(before) \in Nat
  BY TasksAtAStep DEF InCall, Inside
<1>3. CASE step = r.at
  <2>1. after = before \cup {t} /\ t \notin before
    BY <1>1, <1>3
  <2> HIDE DEF before, after
  <2>2. Cardinality(after) = Cardinality(before) + 1
    BY <1>2, <2>1, FS_AddElement
  <2>3. QED
    BY <1>2, <1>3, <2>2
<1>4. CASE step = call[t].at
  <2>1. after = before \ {t} /\ t \in before
    BY <1>1, <1>4
  <2> HIDE DEF before, after
  <2>2. Cardinality(after) = Cardinality(before) - 1
    BY <1>2, <2>1, FS_RemoveElement
  <2>3. QED
    BY <1>2, <1>4, <2>2
<1>5. CASE step # r.at /\ step # call[t].at
  <2>1. after = before
    BY <1>1, <1>5
  <2> HIDE DEF before, after
  <2>2. QED
    BY <1>2, <1>5, <2>1
<1>6. QED
  BY <1>3, <1>4, <1>5

Numbers ==
  /\ Len(fresh) \in Nat /\ Len(commitment) \in Nat /\ Len(monitoring) \in Nat
  /\ received \in Nat /\ Sent \in Nat /\ Waiting \in Nat /\ Refused \in Nat
  /\ Inside["reorder"] \in Nat /\ Inside["send"] \in Nat /\ Inside["count"] \in Nat
  /\ counters["published"] \in Nat

LEMMA NumbersAreNumbers ==
  ASSUME BusTyped
  PROVE  Numbers
<1>1. \A s : s \in Seq(Events) => Len(s) \in Nat
  OBVIOUS
<1>2. Len(fresh) \in Nat /\ Len(commitment) \in Nat /\ Len(monitoring) \in Nat
  BY <1>1 DEF BusTyped
<1>3. Inside["reorder"] \in Nat /\ Inside["send"] \in Nat /\ Inside["count"] \in Nat
  BY TasksAtAStep DEF Inside, Steps
<1>4. received \in Nat /\ \A c \in Counter : counters[c] \in Nat
  BY DEF BusTyped
<1>5. Waiting \in Nat
  BY ONLY <1>3 DEF Waiting
<1>6. Refused \in Nat
  BY ONLY <1>4 DEF Refused, Counter
<1>7. Sent \in Nat
  BY ONLY <1>2, <1>4 DEF Sent
<1>8. counters["published"] \in Nat
  BY <1>4 DEF Counter
<1>9. QED
  BY <1>2, <1>3, <1>4, <1>5, <1>6, <1>7, <1>8 DEF Numbers

\* What is added on both sides of the account.
LEMMA BothSides ==
  ASSUME NEW f \in Int, NEW s \in Int, NEW w \in Int, NEW r \in Int, f = s + w + r,
         NEW df \in Int, NEW ds \in Int, NEW dw \in Int, NEW dr \in Int, df = ds + dw + dr
  PROVE  f + df = (s + ds) + (w + dw) + (r + dr)
  OBVIOUS

\* A call that ends has been counted by the counter of what ended it.
LEMMA EndingAccounts ==
  ASSUME BusTyped, Accounted, NEW t \in Tasks, Ended(t)
  PROVE  Accounted'
<1>1. PICK step \in Steps, c \in Counter :
        /\ Ends(t, step, c)
        /\ \/ step = "dedup" /\ c = "dedup_dropped"
           \/ step = "reorder" /\ c = "reorder_dropped"
           \/ step = "send" /\ c \in {"commitment_overflow", "monitoring_overflow"}
           \/ step = "count" /\ c = "published"
  BY DEF Ended, Steps, Counter
<1>2. Numbers
  BY NumbersAreNumbers
<1> DEFINE less(s) == IF s = step THEN 1 ELSE 0
           more(d) == IF d = c THEN 1 ELSE 0
<1>3. Waiting' = Waiting - less("reorder") - less("send")
      /\ Inside'["count"] = Inside["count"] - less("count")
  <2>1. call[t].at = step /\ Idle.at = "idle" /\ "idle" \notin Steps
    BY <1>1 DEF Ends, At, Idle, Steps
  <2>2. call' = [call EXCEPT ![t] = Idle] /\ call[t].at # Idle.at
    BY <1>1, <2>1 DEF Ends
  <2>3. Shifted(call[t].at, Idle.at)
    BY <2>2, Going
  <2>4. \A s \in Steps : Inside[s] \in Nat => Inside'[s] = Inside[s] - less(s)
    BY <2>1, <2>3 DEF Shifted
  <2>5. /\ Inside["reorder"] \in Nat /\ Inside["send"] \in Nat /\ Inside["count"] \in Nat
        /\ less("reorder") \in Nat /\ less("send") \in Nat /\ less("count") \in Nat
    BY <1>2 DEF Numbers
  <2> HIDE DEF less
  <2>6. /\ Inside'["reorder"] = Inside["reorder"] - less("reorder")
        /\ Inside'["send"] = Inside["send"] - less("send")
        /\ Inside'["count"] = Inside["count"] - less("count")
    BY <2>4, <2>5 DEF Steps
  <2>7. QED
    BY <2>5, <2>6 DEF Waiting
<1>4. /\ Refused' = Refused + more("reorder_dropped") + more("commitment_overflow")
                      + more("monitoring_overflow")
      /\ counters'["published"] = counters["published"] + more("published")
  <2>1. \A d \in Counter : counters'[d] = counters[d] + more(d) /\ counters[d] \in Nat
    BY <1>1 DEF Ends, BusTyped
  <2>2. QED
    BY <2>1 DEF Counter, Refused
<1>5. Len(fresh') = Len(fresh) /\ Sent' = Sent
  BY <1>1 DEF Ends, Rest, Sent
<1>6. less("reorder") + less("send") = more("reorder_dropped") + more("commitment_overflow")
                                       + more("monitoring_overflow")
      /\ less("count") = more("published")
  BY <1>1
<1>7. /\ less("reorder") \in Nat /\ less("send") \in Nat /\ less("count") \in Nat
      /\ more("reorder_dropped") \in Nat /\ more("commitment_overflow") \in Nat
      /\ more("monitoring_overflow") \in Nat /\ more("published") \in Nat
  OBVIOUS
<1> HIDE DEF less, more
<1>8. Len(fresh') = Sent' + Waiting' + Refused'
  <2> DEFINE w == 0 - less("reorder") - less("send")
             q == more("reorder_dropped") + more("commitment_overflow")
                    + more("monitoring_overflow")
  <2>1. w \in Int /\ q \in Int /\ 0 = 0 + w + q
    BY ONLY <1>6, <1>7
  <2>2. Waiting' = Waiting + w
    BY ONLY <1>2, <1>3, <1>7 DEF Numbers
  <2>3. Refused' = Refused + q
    BY ONLY <1>2, <1>4, <1>7 DEF Numbers
  <2> HIDE DEF w, q
  <2>4. Len(fresh) + 0 = (Sent + 0) + (Waiting + w) + (Refused + q)
    <3>1. Len(fresh) \in Int /\ Sent \in Int /\ Waiting \in Int /\ Refused \in Int /\ 0 \in Int
      BY <1>2 DEF Numbers
    <3>2. Len(fresh) = Sent + Waiting + Refused
      BY DEF Accounted
    <3>3. QED
      BY ONLY <2>1, <3>1, <3>2, BothSides
  <2>5. Len(fresh) + 0 = Len(fresh) /\ Sent + 0 = Sent
    BY <1>2 DEF Numbers
  <2>6. QED
    BY ONLY <1>5, <2>2, <2>3, <2>4, <2>5
<1>9. Sent' = counters'["published"] + Inside'["count"]
  <2>1. Sent = counters["published"] + Inside["count"]
    BY DEF Accounted
  <2>2. /\ counters'["published"] = counters["published"] + more("published")
        /\ Inside'["count"] = Inside["count"] - more("published")
    BY <1>3, <1>4, <1>6
  <2>3. counters["published"] \in Nat /\ Inside["count"] \in Nat
    BY <1>2 DEF Numbers
  <2>4. QED
    BY ONLY <1>5, <1>7, <2>1, <2>2, <2>3
<1>10. QED
  BY <1>8, <1>9 DEF Accounted

\* What a move of a task from one step to another does to the numbers.
LEMMA MovingCounts ==
  ASSUME BusTyped, NEW t \in Tasks, NEW from \in Steps, NEW to \in Steps, from # to,
         Moves(t, from, to)
  PROVE  Shifted(from, to) /\ counters' = counters
<1> DEFINE r == [at |-> to, event |-> call[t].event]
<1>1. call' = [call EXCEPT ![t] = r] /\ call[t].at = from /\ r.at = to
  BY DEF Moves, At
<1> HIDE DEF r
<1>2. Shifted(call[t].at, r.at)
  BY <1>1, Going
<1>3. QED
  BY <1>1, <1>2 DEF Moves

LEMMA InjectAccounts ==
  ASSUME BusTyped, Accounted, NEW t \in Tasks, Inject(t)
  PROVE  Accounted'
<1>1. Numbers /\ fresh \in Seq(Events) /\ commitment \in Seq(Events) /\ monitoring \in Seq(Events)
  BY NumbersAreNumbers DEF BusTyped
<1>2. CASE Accepts(t)
  <2>1. PICK to \in {"reorder", "send"} : Moves(t, "dedup", to)
    BY <1>2 DEF Accepts
  <2>2. call[t].event \in Events
    BY <2>1, InACall DEF Moves, Steps
  <2>3. Len(fresh') = Len(fresh) + 1 /\ Sent' = Sent
    BY <1>1, <1>2, <2>2, Appending DEF Accepts, Sent
  <2>4. Shifted("dedup", to) /\ counters' = counters
    BY <2>1, MovingCounts DEF Steps
  <2>5. Inside'["count"] = Inside["count"] /\ Refused' = Refused
    BY ONLY <1>1, <2>1, <2>4 DEF Shifted, Numbers, Steps, Refused
  <2>6. Waiting' = Waiting + 1
    <3> Inside["reorder"] \in Nat /\ Inside["send"] \in Nat
      BY <1>1 DEF Numbers
    <3>1. CASE to = "reorder"
      <4>1. Inside'["reorder"] = Inside["reorder"] + 1 /\ Inside'["send"] = Inside["send"]
        BY <2>4, <3>1 DEF Shifted, Steps
      <4>2. QED
        BY <4>1 DEF Waiting
    <3>2. CASE to = "send"
      <4>1. Inside'["reorder"] = Inside["reorder"] /\ Inside'["send"] = Inside["send"] + 1
        BY <2>4, <3>2 DEF Shifted, Steps
      <4>2. QED
        BY <4>1 DEF Waiting
    <3>3. QED
      BY <2>1, <3>1, <3>2
  <2>7. QED
    <3>1. Len(fresh) \in Int /\ Sent \in Int /\ Waiting \in Int /\ Refused \in Int
      BY <1>1 DEF Numbers
    <3>2. Len(fresh) = Sent + Waiting + Refused /\ Sent = counters["published"] + Inside["count"]
      BY DEF Accounted
    <3>3. Len(fresh') = Sent' + Waiting' + Refused'
      BY ONLY <2>3, <2>4, <2>5, <2>6, <3>1, <3>2
    <3>4. Sent' = counters'["published"] + Inside'["count"]
      BY ONLY <2>3, <2>4, <2>5, <2>6, <3>2
    <3>5. QED
      BY <3>3, <3>4 DEF Accounted
<1>3. CASE Advances(t)
  <2>1. Len(fresh') = Len(fresh) /\ Sent' = Sent
    BY <1>3 DEF Advances, Sent
  <2>2. Shifted("reorder", "send") /\ counters' = counters
    BY <1>3, MovingCounts DEF Steps, Advances
  <2>3. Inside'["count"] = Inside["count"] /\ Refused' = Refused
    BY ONLY <1>1, <2>2 DEF Shifted, Numbers, Steps, Refused
  <2>4. Waiting' = Waiting
    <3>1. Inside["reorder"] \in Nat /\ Inside["send"] \in Nat
      BY <1>1 DEF Numbers
    <3>2. Inside'["reorder"] = Inside["reorder"] - 1 /\ Inside'["send"] = Inside["send"] + 1
      BY <2>2, <3>1 DEF Shifted, Steps
    <3>3. QED
      BY <3>1, <3>2 DEF Waiting
  <2>5. QED
    <3>1. Len(fresh) \in Int /\ Sent \in Int /\ Waiting \in Int /\ Refused \in Int
      BY <1>1 DEF Numbers
    <3>2. Len(fresh) = Sent + Waiting + Refused /\ Sent = counters["published"] + Inside["count"]
      BY DEF Accounted
    <3>3. Len(fresh') = Sent' + Waiting' + Refused'
      BY ONLY <2>1, <2>2, <2>3, <2>4, <3>1, <3>2
    <3>4. Sent' = counters'["published"] + Inside'["count"]
      BY ONLY <2>1, <2>2, <2>3, <2>4, <3>2
    <3>5. QED
      BY <3>3, <3>4 DEF Accounted
<1>4. CASE Commits(t) \/ Monitors(t)
  <2>1. call[t].event \in Events /\ Moves(t, "send", "count")
    BY <1>4, InACall DEF Commits, Monitors, Moves, Steps
  <2>2. Len(fresh') = Len(fresh) /\ Sent' = Sent + 1
    <3>1. CASE Commits(t)
      BY <1>1, <2>1, <3>1, Appending DEF Commits, Sent, Numbers
    <3>2. CASE Monitors(t)
      BY <1>1, <2>1, <3>2, Appending DEF Monitors, Sent, Numbers
    <3>3. QED
      BY <1>4, <3>1, <3>2
  <2>3. Shifted("send", "count") /\ counters' = counters
    BY <2>1, MovingCounts DEF Steps
  <2>4. Inside'["count"] = Inside["count"] + 1 /\ Refused' = Refused
    BY ONLY <1>1, <2>3 DEF Shifted, Numbers, Steps, Refused
  <2>5. Waiting' = Waiting - 1
    <3>1. Inside["reorder"] \in Nat /\ Inside["send"] \in Nat
      BY <1>1 DEF Numbers
    <3>2. Inside'["reorder"] = Inside["reorder"] /\ Inside'["send"] = Inside["send"] - 1
      BY <2>3, <3>1 DEF Shifted, Steps
    <3>3. QED
      BY <3>1, <3>2 DEF Waiting
  <2>6. Len(fresh') = Sent' + Waiting' + Refused'
    BY <1>1, <2>2, <2>4, <2>5 DEF Accounted, Numbers
  <2>7. Sent' = counters'["published"] + Inside'["count"]
    <3>1. Sent \in Int /\ counters["published"] \in Int /\ Inside["count"] \in Int
      BY <1>1 DEF Numbers
    <3>2. Sent = counters["published"] + Inside["count"]
      BY DEF Accounted
    <3>3. QED
      BY ONLY <2>2, <2>3, <2>4, <3>1, <3>2
  <2>8. QED
    BY <2>6, <2>7 DEF Accounted
<1>5. QED
  BY <1>2, <1>3, <1>4, Shapes, EndingAccounts

LEMMA AccountedHolds == Spec => [](BusTyped /\ Accounted)
<1>1. Init => BusTyped /\ Accounted
  <2> SUFFICES ASSUME Init PROVE BusTyped /\ Accounted
    OBVIOUS
  <2>1. BusTyped
    BY BusTypedAtFirst DEF Init
  <2>2. ASSUME NEW step \in Steps PROVE Inside[step] = 0
    <3>1. {t \in Tasks : call[t].at = step} = {}
      BY DEF Init, BusInit, Idle, Steps
    <3>2. QED
      BY <3>1, FS_EmptySet DEF InCall, Inside
  <2>3. /\ Len(fresh) = 0 /\ Len(commitment) = 0 /\ Len(monitoring) = 0 /\ received = 0
        /\ \A c \in Counter : counters[c] = 0
    BY DEF Init, BusInit
  <2>4. QED
    BY <2>1, <2>2, <2>3 DEF Accounted, Sent, Steps, Counter, Waiting, Refused
<1>2. BusTyped /\ Accounted /\ [Next]_allVars => (BusTyped /\ Accounted)'
  <2> SUFFICES ASSUME BusTyped, Accounted, [Next]_allVars
               PROVE  Accounted'
    BY BusTypedHolds
  <2>1. Numbers
    BY NumbersAreNumbers
  <2>2. ASSUME NEW t \in Tasks, NEW e \in Events, Call(t, e) PROVE Accounted'
    <3> DEFINE r == [at |-> "dedup", event |-> e]
    <3>1. call' = [call EXCEPT ![t] = r] /\ call[t].at # r.at /\ r.at = "dedup"
          /\ call[t].at = "idle"
      BY <2>2 DEF Call, At
    <3> HIDE DEF r
    <3>2. Shifted(call[t].at, r.at)
      BY <3>1, Going
    <3>3. \A s \in {"reorder", "send", "count"} : Inside'[s] = Inside[s]
      BY <2>1, <3>1, <3>2 DEF Numbers, Steps, Shifted
    <3>4. Len(fresh') = Len(fresh) /\ Sent' = Sent /\ counters' = counters
      BY <2>2 DEF Call, Sent
    <3>5. QED
      BY <3>3, <3>4 DEF Accounted, Waiting, Refused
  <2>3. ASSUME NEW e \in Events, ReceiveCommitment(e) \/ ReceiveMonitoring(e)
        PROVE  Accounted'
    <3>1. Sent' = Sent
      <4>1. commitment \in Seq(Events) /\ monitoring \in Seq(Events)
        BY DEF BusTyped
      <4>2. CASE ReceiveCommitment(e)
        BY <2>1, <4>1, <4>2, Taking DEF ReceiveCommitment, Sent, Numbers
      <4>3. CASE ReceiveMonitoring(e)
        BY <2>1, <4>1, <4>3, Taking DEF ReceiveMonitoring, Sent, Numbers
      <4>4. QED
        BY <2>3, <4>2, <4>3
    <3>2. UNCHANGED <<call, fresh, counters>>
      BY <2>3 DEF ReceiveCommitment, ReceiveMonitoring
    <3>3. QED
      BY <3>1, <3>2 DEF Accounted, Inside, InCall, Waiting, Refused
  <2>4. CASE UNCHANGED allVars
    BY <2>4 DEF allVars, vars, Accounted, Inside, InCall, Sent, Waiting, Refused
  <2>5. QED
    BY <2>2, <2>3, <2>4, InjectAccounts DEF Next, Receive
<1>3. QED
  BY <1>1, <1>2, PTL DEF Spec

\* Between dedup, reorder check, send and count no interleaving of any number
\* of tasks loses an event that no counter records, or counts one that was not
\* sent (bus.rs:194-212).
THEOREM NoEventVanishes == Spec => []NothingLostSilently
<1>1. BusTyped /\ Accounted => NothingLostSilently
  <2> SUFFICES ASSUME BusTyped, Accounted PROVE NothingLostSilently
    OBVIOUS
  <2>1. Numbers /\ Inside["reorder"] = InCall("reorder") /\ Inside["send"] = InCall("send")
        /\ Inside["count"] = InCall("count") /\ \A c \in Counter : counters[c] \in Nat
    BY NumbersAreNumbers DEF Inside, Steps, BusTyped
  <2>2. /\ counters["reorder_dropped"] \in Nat /\ counters["commitment_overflow"] \in Nat
        /\ counters["monitoring_overflow"] \in Nat
    BY <2>1 DEF Counter
  <2>3. /\ Len(fresh) = Sent + InCall("reorder") + InCall("send") + Refused
        /\ Sent = counters["published"] + InCall("count")
    BY ONLY <2>1, Accounted DEF Accounted, Waiting, Numbers
  <2>4. Len(fresh) = Sent + InCall("reorder") + InCall("send")
          + counters["reorder_dropped"] + counters["commitment_overflow"]
          + counters["monitoring_overflow"]
    <3>1. Sent \in Int /\ InCall("reorder") \in Int /\ InCall("send") \in Int
      BY <2>1 DEF Numbers
    <3>2. Len(fresh) = Sent + InCall("reorder") + InCall("send")
                        + (counters["reorder_dropped"] + counters["commitment_overflow"]
                           + counters["monitoring_overflow"])
      BY <2>3 DEF Refused
    <3>3. QED
      BY ONLY <2>2, <3>1, <3>2
  <2>5. QED
    BY <2>3, <2>4 DEF NothingLostSilently
<1>2. QED
  BY <1>1, AccountedHolds, PTL

-----------------------------------------------------------------------------
(* The reorder buffer *)

ReorderTyped ==
  /\ heap \in [SeqNos -> Nat] /\ next \in Nat /\ high \in Nat /\ released \in Seq(Nat)
  /\ IsFiniteSet(Entries) /\ Buffered <= MaxWindow

\* A bounded set of naturals that is not empty has a greatest element.
LEMMA MaxOfBounded ==
  ASSUME NEW S \in SUBSET Nat, S # {}, NEW b \in Nat, \A x \in S : x <= b
  PROVE  Max(S) \in S /\ \A x \in S : Max(S) >= x
<1> DEFINE B == {n \in Nat : \A x \in S : x <= n}
<1>1. B \subseteq Nat /\ B # {}
  OBVIOUS
<1> HIDE DEF B
<1>2. PICK m \in B : \A n \in B : <<n, m>> \notin OpToRel(<, Nat)
  BY <1>1, NatLessThanWellFounded, WFMin
<1>3. m \in Nat /\ \A n \in B : ~(n < m)
  BY <1>1, <1>2 DEF OpToRel
<1>4. \A x \in S : x <= m
  BY <1>2 DEF B
<1>5. m \in S
  <2> SUFFICES ASSUME m \notin S PROVE FALSE
    OBVIOUS
  <2>1. \A x \in S : x \in Nat /\ x < m
    BY <1>3, <1>4
  <2>2. m - 1 \in Nat
    <3>1. PICK x \in S : TRUE
      OBVIOUS
    <3>2. QED
      BY <1>3, <2>1, <3>1
  <2>3. \A x \in S : x <= m - 1
    BY <1>3, <2>1
  <2>4. m - 1 \in B
    BY <2>2, <2>3 DEF B
  <2>5. QED
    BY <1>3, <2>2, <2>4
<1>6. \E x \in S : \A y \in S : x >= y
  BY <1>3, <1>4, <1>5
<1>7. QED
  BY <1>6 DEF Max

\* The drain loop ends at the furthest place it can reach.
LEMMA Draining ==
  ASSUME NEW from \in Nat
  PROVE  /\ Drain(from) \in Nat
         /\ Drain(from) >= from /\ Drain(from) <= from + Cardinality(SeqNos)
         /\ Drainable(from, Drain(from))
         /\ \A to \in Nat : to >= from /\ to <= from + Cardinality(SeqNos) /\ Drainable(from, to)
              => to <= Drain(from)
<1> DEFINE S == {to \in from .. from + Cardinality(SeqNos) : Drainable(from, to)}
<1>1. Cardinality(SeqNos) \in Nat
  BY ReorderAssumption, FS_CardinalityType
<1>2. S \subseteq Nat /\ from \in S /\ \A x \in S : x <= from + Cardinality(SeqNos)
  BY <1>1 DEF Drainable
<1>3. from + Cardinality(SeqNos) \in Nat /\ S # {}
  BY <1>1, <1>2
<1>4. Max(S) \in S /\ \A x \in S : Max(S) >= x
  <2> HIDE DEF S
  <2>1. QED
    BY <1>2, <1>3, MaxOfBounded
<1>5. Drain(from) = Max(S)
  BY DEF Drain
<1>6. Drain(from) \in S /\ \A x \in S : Drain(from) >= x
  BY <1>4, <1>5
<1>7. QED
  BY <1>1, <1>6

\* What is inserted at `next` and what follows it leaves the heap.
LEMMA DrainedHeap ==
  ASSUME ReorderTyped, NEW s \in Nat, InsertExpected(s)
  PROVE  /\ next' \in Nat /\ next' >= s + 1
         /\ heap' \in [SeqNos -> Nat]
         /\ \A h \in SeqNos : heap'[h] <= heap[h]
         /\ \A h \in SeqNos : ~(h > s /\ h < next') => heap'[h] = heap[h]
         /\ \A h \in SeqNos : h > s /\ h < next' => heap[h] > 0 /\ heap'[h] = heap[h] - 1
<1>1. /\ next' = Drain(s + 1) /\ s + 1 \in Nat
      /\ heap' = [h \in SeqNos |-> IF h \in s + 1 .. next' - 1 THEN heap[h] - 1 ELSE heap[h]]
  BY DEF InsertExpected
<1>2. next' \in Nat /\ next' >= s + 1 /\ Drainable(s + 1, next')
  BY <1>1, Draining
<1>3. \A h \in SeqNos : h \in Nat /\ heap[h] \in Nat /\ Copies(h) = heap[h]
  BY ReorderAssumption DEF ReorderTyped, Copies
<1>4. \A h \in s + 1 .. next' - 1 : Copies(h) > 0
  <2>1. CASE next' = s + 1
    BY <2>1
  <2>2. CASE next' # s + 1
    BY <1>2, <2>2 DEF Drainable
  <2>3. QED
    BY <2>1, <2>2
<1>5. \A h \in SeqNos : h \in s + 1 .. next' - 1 => heap[h] > 0
  BY <1>3, <1>4
<1>6. \A h \in SeqNos : (h \in s + 1 .. next' - 1) <=> (h > s /\ h < next')
  BY <1>2, <1>3
<1>7. \A h \in SeqNos : heap'[h] = IF h > s /\ h < next' THEN heap[h] - 1 ELSE heap[h]
  BY <1>1, <1>6
<1>8. heap' \in [SeqNos -> Nat]
  <2>1. \A h \in SeqNos : heap'[h] \in Nat
    BY <1>3, <1>5, <1>6, <1>7
  <2>2. DOMAIN heap' = SeqNos /\ heap' = [h \in DOMAIN heap' |-> heap'[h]]
    BY <1>1
  <2>3. QED
    BY <2>1, <2>2
<1>9. QED
  BY <1>2, <1>3, <1>5, <1>6, <1>7, <1>8

\* What is in the heap.
LEMMA EntriesAre ==
  ASSUME NEW h \in [SeqNos -> Nat]
  PROVE  UNION {{s} \X (1 .. IF s \in DOMAIN h THEN h[s] ELSE 0) : s \in SeqNos}
           = {p \in SeqNos \X Nat : p[2] >= 1 /\ p[2] <= h[p[1]]}
<1> DEFINE C(s) == {s} \X (1 .. IF s \in DOMAIN h THEN h[s] ELSE 0)
           P == {p \in SeqNos \X Nat : p[2] >= 1 /\ p[2] <= h[p[1]]}
<1>1. ASSUME NEW s \in SeqNos, NEW p
      PROVE  p \in C(s) <=> p \in {s} \X Nat /\ p[2] >= 1 /\ p[2] <= h[s]
  BY DEF C
<1> HIDE DEF C
<1>2. \A p \in P : p[1] \in SeqNos /\ p \in C(p[1])
  BY <1>1
<1>3. \A s \in SeqNos : \A p \in C(s) : p \in P
  BY <1>1
<1>4. UNION {C(s) : s \in SeqNos} = P
  BY <1>2, <1>3
<1>5. QED
  BY <1>4 DEF C

\* A run of numbers released after others.
LEMMA Counting ==
  ASSUME NEW n \in Nat, NEW s \in Nat
  PROVE  /\ [i \in 1 .. n |-> s + i - 1] \in Seq(Nat)
         /\ Len([i \in 1 .. n |-> s + i - 1]) = n
         /\ \A i \in 1 .. n : [j \in 1 .. n |-> s + j - 1][i] = s + i - 1
<1>1. \A i \in 1 .. n : s + i - 1 \in Nat
  OBVIOUS
<1>2. [i \in 1 .. n |-> s + i - 1] \in [1 .. n -> Nat]
  BY <1>1
<1>3. [i \in 1 .. n |-> s + i - 1] \in Seq(Nat)
  BY <1>2, SeqDef
<1>4. QED
  BY <1>3

LEMMA Releasing ==
  ASSUME NEW s \in Nat, released \in Seq(Nat), InsertExpected(s), next' \in Nat, next' >= s + 1
  PROVE  /\ released' \in Seq(Nat) /\ Len(released') = Len(released) + (next' - s)
         /\ \A i \in 1 .. Len(released) : released'[i] = released[i]
         /\ \A i \in 1 .. next' - s : released'[Len(released) + i] = s + i - 1
<1> DEFINE n == next' - s
           r == [i \in 1 .. n |-> s + i - 1]
<1>1. n \in Nat /\ Len(released) \in Nat
  <2>1. Len(released) \in Nat
    BY LenProperties
  <2>2. n \in Nat
    <3>1. \A a \in Nat : a >= s + 1 => a - s \in Nat
      OBVIOUS
    <3>2. QED
      BY <3>1
  <2>3. QED
    BY <2>1, <2>2
<1>2. released' = released \o r
  BY DEF InsertExpected
<1>3. r \in Seq(Nat) /\ Len(r) = n /\ \A i \in 1 .. n : r[i] = s + i - 1
  <2> HIDE DEF n
  <2>1. QED
    BY <1>1, Counting
<1> HIDE DEF r
<1>4. /\ released \o r \in Seq(Nat) /\ Len(released \o r) = Len(released) + Len(r)
      /\ \A i \in 1 .. Len(released) + Len(r) : (released \o r)[i] =
              IF i <= Len(released) THEN released[i] ELSE r[i - Len(released)]
  BY <1>3, ConcatProperties
<1> HIDE DEF n
<1>5. \A i \in 1 .. Len(released) : released'[i] = released[i]
  BY <1>1, <1>2, <1>3, <1>4
<1>6. \A i \in 1 .. n : released'[Len(released) + i] = s + i - 1
  <2>1. ASSUME NEW i \in 1 .. n PROVE released'[Len(released) + i] = s + i - 1
    <3>1. Len(released) + i \in 1 .. Len(released) + Len(r) /\ ~(Len(released) + i <= Len(released))
          /\ (Len(released) + i) - Len(released) = i
      BY <1>1, <1>3
    <3>2. QED
      BY <1>2, <1>3, <1>4, <3>1
  <2>2. QED
    BY <2>1
<1>7. QED
  BY <1>2, <1>3, <1>4, <1>5, <1>6 DEF n

LEMMA InsertKeepsTypes ==
  ASSUME ReorderTyped, NEW s \in Nat, ReorderInsert(s)
  PROVE  ReorderTyped'
<1>1. CASE InsertEarlier(s)
  BY <1>1 DEF InsertEarlier, reorderVars, ReorderTyped, Buffered, Entries, Copies
<1>2. CASE InsertExpected(s)
  <2>1. /\ next' \in Nat /\ next' >= s + 1 /\ heap' \in [SeqNos -> Nat]
        /\ \A h \in SeqNos : heap'[h] <= heap[h]
    BY <1>2, DrainedHeap
  <2>2. high' \in Nat
    BY <1>2 DEF InsertExpected, Raise, ReorderTyped
  <2>3. released' \in Seq(Nat)
    BY <1>2, <2>1, Releasing DEF ReorderTyped
  <2>4. Entries' \subseteq Entries
    <3>1. Entries = {p \in SeqNos \X Nat : p[2] >= 1 /\ p[2] <= heap[p[1]]}
      BY EntriesAre DEF ReorderTyped, Entries, Copies
    <3>2. Entries' = {p \in SeqNos \X Nat : p[2] >= 1 /\ p[2] <= heap'[p[1]]}
      BY <2>1, EntriesAre DEF Entries, Copies
    <3>3. \A h \in SeqNos : heap[h] \in Nat /\ heap'[h] \in Nat
      BY <2>1 DEF ReorderTyped
    <3>4. QED
      BY <2>1, <3>1, <3>2, <3>3
  <2>5. IsFiniteSet(Entries') /\ Buffered' \in Nat /\ Buffered' <= Buffered
    BY <2>4, FS_Subset, FS_CardinalityType DEF ReorderTyped, Buffered
  <2>6. Buffered \in Nat /\ MaxWindow \in Nat
    BY FS_CardinalityType, ReorderAssumption DEF ReorderTyped, Buffered
  <2>7. QED
    BY <2>1, <2>2, <2>3, <2>5, <2>6 DEF ReorderTyped
<1>3. CASE InsertLater(s)
  <2>1. high' \in Nat /\ next' \in Nat /\ released' \in Seq(Nat)
    BY <1>3 DEF InsertLater, Raise, ReorderTyped
  <2>2. Buffered \in Nat /\ MaxWindow \in Nat
    BY FS_CardinalityType, ReorderAssumption DEF ReorderTyped, Buffered
  <2>3. CASE heap' = heap
    BY <2>1, <2>3 DEF ReorderTyped, Buffered, Entries, Copies
  <2>4. CASE heap' = [heap EXCEPT ![s] = heap[s] + 1] /\ s \in SeqNos /\ Buffered < MaxWindow
    <3>1. heap' \in [SeqNos -> Nat] /\ heap[s] \in Nat
          /\ \A h \in SeqNos : heap'[h] = IF h = s THEN heap[s] + 1 ELSE heap[h]
      BY <2>4 DEF ReorderTyped
    <3>2. Entries = {p \in SeqNos \X Nat : p[2] >= 1 /\ p[2] <= heap[p[1]]}
      BY EntriesAre DEF ReorderTyped, Entries, Copies
    <3>3. Entries' = {p \in SeqNos \X Nat : p[2] >= 1 /\ p[2] <= heap'[p[1]]}
      BY <3>1, EntriesAre DEF Entries, Copies
    <3> DEFINE p == <<s, heap[s] + 1>>
    <3>4. p \notin Entries
      BY <2>4, <3>1, <3>2
    <3>5. Entries' = Entries \cup {p}
      <4>1. \A q \in SeqNos \X Nat : heap[q[1]] \in Nat /\ q = <<q[1], q[2]>>
        BY DEF ReorderTyped
      <4>2. \A q \in SeqNos \X Nat : (q[2] >= 1 /\ q[2] <= heap'[q[1]])
                <=> (q = p \/ (q[2] >= 1 /\ q[2] <= heap[q[1]]))
        BY <2>4, <3>1, <4>1
      <4>3. p \in SeqNos \X Nat
        BY <2>4, <3>1
      <4>4. QED
        BY <3>2, <3>3, <4>2, <4>3
    <3> HIDE DEF p
    <3>6. IsFiniteSet(Entries') /\ Buffered' = Buffered + 1
      BY <3>4, <3>5, FS_AddElement DEF ReorderTyped, Buffered
    <3>7. Buffered' <= MaxWindow
      BY <2>2, <2>4, <3>6
    <3>8. QED
      BY <2>1, <3>1, <3>6, <3>7 DEF ReorderTyped
  <2>5. heap' = heap \/ (heap' = [heap EXCEPT ![s] = heap[s] + 1] /\ ~(Buffered >= MaxWindow))
    BY <1>3 DEF InsertLater
  <2>6. s \notin SeqNos => [heap EXCEPT ![s] = heap[s] + 1] = heap
    BY DEF ReorderTyped
  <2>7. QED
    BY <2>2, <2>3, <2>4, <2>5, <2>6
<1>4. QED
  BY <1>1, <1>2, <1>3 DEF ReorderInsert

\* What a step does to the buffer: it inserts what the consumer received.
LEMMA BufferSteps ==
  ASSUME BusTyped, Next
  PROVE  \/ UNCHANGED reorderVars
         \/ \E e \in Events : ReceiveCommitment(e) /\ ReorderInsert(e.seq) /\ e.seq \in Nat
BY BusAssumption DEF Next, Receive

LEMMA TypesHold == Spec => [](BusTyped /\ ReorderTyped)
<1>1. Init => BusTyped /\ ReorderTyped
  <2> SUFFICES ASSUME Init PROVE ReorderTyped
    BY BusTypedAtFirst DEF Init
  <2>1. heap \in [SeqNos -> Nat] /\ \A s \in SeqNos : heap[s] = 0
    BY DEF Init, ReorderInit
  <2>2. Entries = {p \in SeqNos \X Nat : p[2] >= 1 /\ p[2] <= heap[p[1]]}
    BY <2>1, EntriesAre DEF Entries, Copies
  <2>3. Entries = {}
    BY <2>1, <2>2
  <2>4. IsFiniteSet(Entries) /\ Buffered = 0
    BY <2>3, FS_EmptySet DEF Buffered
  <2>5. QED
    BY <2>1, <2>4, ReorderAssumption DEF Init, ReorderInit, ReorderTyped
<1>2. BusTyped /\ ReorderTyped /\ [Next]_allVars => (BusTyped /\ ReorderTyped)'
  <2> SUFFICES ASSUME BusTyped, ReorderTyped, [Next]_allVars PROVE ReorderTyped'
    BY BusTypedHolds
  <2>1. CASE UNCHANGED reorderVars
    BY <2>1 DEF reorderVars, ReorderTyped, Buffered, Entries, Copies
  <2>2. CASE \E e \in Events : ReorderInsert(e.seq) /\ e.seq \in Nat
    BY <2>2, InsertKeepsTypes
  <2>3. QED
    BY <2>1, <2>2, BufferSteps DEF allVars
<1>3. QED
  BY <1>1, <1>2, PTL DEF Spec

\* Every variable has its type, and no interleaving fills the dedup ring, a
\* channel or the reorder heap beyond its capacity (bus.rs:42-70, 194-212,
\* reorder.rs:96-115).
THEOREM NothingOverflows == Spec => []TypeOK
<1>1. BusTyped /\ ReorderTyped /\ Spaced => TypeOK
  <2> SUFFICES ASSUME BusTyped, ReorderTyped, Spaced PROVE TypeOK
    OBVIOUS
  <2>1. \A t \in Tasks : call[t] = Idle \/ call[t].event \in Events
    BY DEF BusTyped, Frames
  <2>2. Len(ring) <= DedupWindow
    BY BusAssumption DEF Spaced, RingIsRecent, BusTyped
  <2>3. /\ ring \in Seq(Events) /\ latest \in Nat /\ counters \in [Counter -> Nat] /\ received \in Nat
        /\ commitment \in Seq(Events) /\ Len(commitment) <= CommitmentCapacity
        /\ monitoring \in Seq(Events) /\ Len(monitoring) <= MonitoringCapacity
    BY DEF BusTyped
  <2>4. heap \in [SeqNos -> Nat] /\ Buffered <= MaxWindow /\ next \in Nat /\ high \in Nat
    BY DEF ReorderTyped
  <2>5. QED
    BY <2>1, <2>2, <2>3, <2>4 DEF TypeOK
<1>2. QED
  BY <1>1, TypesHold, SpacedHolds, PTL

-----------------------------------------------------------------------------
(* Where what the buffer holds and releases comes from *)

\* Tasks that still owe the channel an event, and of which number.
Owing == {"reorder", "send"}
Carries(c, t, s) == c[t].at \in Owing /\ c[t].event.bound /\ c[t].event.seq = s

Passing(f, s) == \E j \in DOMAIN f : f[j].bound /\ f[j].seq = s
Traced ==
  /\ \A t \in Tasks, s \in Nat : Carries(call, t, s) => Passing(fresh, s)
  /\ \A i \in DOMAIN commitment : commitment[i].bound /\ Passing(fresh, commitment[i].seq)
  /\ \A s \in Held : Passing(fresh, s)
  /\ \A s \in Nat : s < next => Passing(fresh, s)
Numbered ==
  /\ Len(released) = next
  /\ \A i \in 1 .. next : released[i] = i - 1

\* A sequence number that passed once is in one place: with a task, in the
\* channel, in the heap, or released.
OneEach ==
  /\ \A t, u \in Tasks, s \in Nat : Carries(call, t, s) /\ Carries(call, u, s) => t = u
  /\ \A i, j \in DOMAIN commitment : commitment[i].seq = commitment[j].seq => i = j
  /\ \A t \in Tasks, i \in DOMAIN commitment : ~Carries(call, t, commitment[i].seq)
  /\ \A t \in Tasks, s \in Nat : Carries(call, t, s) => s >= next /\ s \notin Held
  /\ \A i \in DOMAIN commitment : commitment[i].seq >= next /\ commitment[i].seq \notin Held
  /\ \A s \in Held : heap[s] = 1 /\ s > next

\* The steps, by what they do to the tasks that owe an event.
Quiet ==
  /\ UNCHANGED <<commitment, fresh, reorderVars>>
  /\ \A t \in Tasks, s \in Nat : Carries(call', t, s) => Carries(call, t, s)
Taken(t) ==
  LET e == call[t].event
  IN  /\ e \in Events /\ fresh' = Append(fresh, e)
      /\ \A u \in Tasks, s \in Nat :
           Carries(call', u, s) => (u = t /\ e.bound /\ s = e.seq) \/ (u # t /\ Carries(call, u, s))
      /\ UNCHANGED <<commitment, reorderVars>>
Handed(t) ==
  LET e == call[t].event
  IN  /\ e \in Events /\ Carries(call, t, e.seq) /\ e.bound /\ e.seq \in Nat
      /\ commitment' = Append(commitment, e)
      /\ \A u \in Tasks, s \in Nat : Carries(call', u, s) => u # t /\ Carries(call, u, s)
      /\ UNCHANGED <<fresh, reorderVars>>
Fed(e) ==
  /\ commitment # <<>> /\ e = commitment[1] /\ commitment' = Tail(commitment)
  /\ e.seq \in Nat /\ ReorderInsert(e.seq)
  /\ UNCHANGED <<call, fresh>>

LEMMA FourKinds ==
  ASSUME BusTyped, [Next]_allVars
  PROVE  Quiet \/ (\E t \in Tasks : Taken(t) \/ Handed(t)) \/ (\E e \in Events : Fed(e))
<1>1. \A t \in Tasks : \A r : call' = [call EXCEPT ![t] = r] =>
        /\ call'[t] = r /\ \A u \in Tasks \ {t} : call'[u] = call[u]
  BY DEF BusTyped
<1>2. ASSUME NEW t \in Tasks, NEW r, call' = [call EXCEPT ![t] = r], r.at \notin Owing,
             UNCHANGED <<commitment, fresh, reorderVars>>
      PROVE  Quiet
  BY <1>1, <1>2 DEF Quiet, Carries
<1>3. ASSUME NEW t \in Tasks, Inject(t), UNCHANGED reorderVars
      PROVE  Quiet \/ Taken(t) \/ Handed(t)
  <2>1. CASE Ended(t)
    <3>1. call' = [call EXCEPT ![t] = Idle] /\ UNCHANGED <<commitment, fresh>>
      BY <2>1 DEF Ended, Ends, Rest
    <3>2. Idle.at \notin Owing
      BY DEF Idle, Owing
    <3>3. QED
      BY <1>2, <1>3, <3>1, <3>2
  <2>2. CASE Accepts(t)
    <3> DEFINE to == IF call[t].event.bound THEN "reorder" ELSE "send"
               r  == [at |-> to, event |-> call[t].event]
    <3>1. call[t].event \in Events
      BY <2>2, InACall DEF Accepts, Moves, Steps
    <3>2. call' = [call EXCEPT ![t] = r] /\ fresh' = Append(fresh, call[t].event)
          /\ UNCHANGED commitment
      BY <2>2 DEF Accepts, Moves
    <3>3. r.event = call[t].event
      OBVIOUS
    <3> HIDE DEF r
    <3>4. QED
      BY <1>1, <1>3, <3>1, <3>2, <3>3 DEF Taken, Carries
  <2>3. CASE Advances(t)
    <3> DEFINE r == [at |-> "send", event |-> call[t].event]
    <3>1. call' = [call EXCEPT ![t] = r] /\ call[t].at = "reorder" /\ UNCHANGED <<commitment, fresh>>
      BY <2>3 DEF Advances, Moves, At
    <3>2. r.event = call[t].event
      OBVIOUS
    <3> HIDE DEF r
    <3>3. QED
      BY <1>1, <1>3, <3>1, <3>2 DEF Quiet, Carries, Owing
  <2>4. CASE Commits(t)
    <3> DEFINE r == [at |-> "count", event |-> call[t].event]
    <3>1. call[t].event \in Events /\ call[t].event.seq \in Nat
      BY <2>4, InACall, BusAssumption DEF Commits, Moves, Steps
    <3>2. /\ call' = [call EXCEPT ![t] = r] /\ call[t].at = "send" /\ call[t].event.bound
          /\ commitment' = Append(commitment, call[t].event) /\ UNCHANGED fresh
      BY <2>4 DEF Commits, Moves, At
    <3>3. r.at = "count"
      OBVIOUS
    <3> HIDE DEF r
    <3>4. QED
      BY <1>1, <1>3, <3>1, <3>2, <3>3 DEF Handed, Carries, Owing
  <2>5. CASE Monitors(t)
    <3> DEFINE r == [at |-> "count", event |-> call[t].event]
    <3>1. call' = [call EXCEPT ![t] = r] /\ UNCHANGED <<commitment, fresh>>
      BY <2>5 DEF Monitors, Moves
    <3>2. r.at \notin Owing
      BY DEF Owing
    <3> HIDE DEF r
    <3>3. QED
      BY <1>2, <1>3, <3>1, <3>2
  <2>6. QED
    BY <1>3, <2>1, <2>2, <2>3, <2>4, <2>5, Shapes
<1>4. ASSUME NEW t \in Tasks, NEW e \in Events, Call(t, e), UNCHANGED reorderVars
      PROVE  Quiet
  <2> DEFINE r == [at |-> "dedup", event |-> e]
  <2>1. call' = [call EXCEPT ![t] = r] /\ UNCHANGED <<commitment, fresh>> /\ r.at \notin Owing
    BY <1>4 DEF Call, Owing
  <2> HIDE DEF r
  <2>2. QED
    BY <1>2, <1>4, <2>1
<1>5. ASSUME NEW e \in Events, ReceiveCommitment(e), ReorderInsert(e.seq)
      PROVE  Fed(e)
  <2>1. Head(commitment) = commitment[1] /\ e.seq \in Nat
    BY <1>5, Taking, BusAssumption DEF ReceiveCommitment, BusTyped
  <2>2. QED
    BY <1>5, <2>1 DEF ReceiveCommitment, Fed
<1>6. ASSUME NEW e \in Events, ReceiveMonitoring(e), UNCHANGED reorderVars
      PROVE  Quiet
  BY <1>6 DEF ReceiveMonitoring, Quiet
<1>7. CASE UNCHANGED allVars
  BY <1>7 DEF allVars, vars, Quiet
<1>8. QED
  BY <1>3, <1>4, <1>5, <1>6, <1>7 DEF Next, Receive

\* What passed still has, and what has passed now has, or is the event taken.
LEMMA PassingGrows ==
  ASSUME BusTyped, NEW e \in Events, fresh' = Append(fresh, e)
  PROVE  /\ \A s : Passing(fresh, s) => Passing(fresh', s)
         /\ e.bound => Passing(fresh', e.seq)
         /\ AcceptedOnce' => AcceptedOnce
         /\ AcceptedOnce' /\ e.bound => ~Passing(fresh, e.seq)
<1>1. /\ Len(fresh) \in Nat /\ DOMAIN fresh = 1 .. Len(fresh)
      /\ DOMAIN fresh' = 1 .. Len(fresh) + 1 /\ fresh'[Len(fresh) + 1] = e
      /\ \A j \in 1 .. Len(fresh) : fresh'[j] = fresh[j]
  <2>1. fresh \in Seq(Events)
    BY DEF BusTyped
  <2>2. /\ fresh' \in Seq(Events) /\ Len(fresh') = Len(fresh) + 1
        /\ \A j \in 1 .. Len(fresh) : fresh'[j] = fresh[j] /\ fresh'[Len(fresh) + 1] = e
    BY <2>1, Appending
  <2>3. DOMAIN fresh = 1 .. Len(fresh) /\ DOMAIN fresh' = 1 .. Len(fresh') /\ Len(fresh) \in Nat
    BY <2>1, <2>2, LenProperties
  <2>4. fresh'[Len(fresh) + 1] = e
    BY <2>1, Appending
  <2>5. QED
    BY <2>2, <2>3, <2>4
<1>2. /\ \A j \in DOMAIN fresh : j \in DOMAIN fresh' /\ fresh'[j] = fresh[j] /\ j # Len(fresh) + 1
      /\ Len(fresh) + 1 \in DOMAIN fresh'
  BY <1>1
<1>3. QED
  BY <1>1, <1>2 DEF Passing, AcceptedOnce

\* The channel without its first event.
LEMMA ChannelShifts ==
  ASSUME BusTyped, commitment # <<>>, commitment' = Tail(commitment)
  PROVE  /\ 1 \in DOMAIN commitment
         /\ \A i \in DOMAIN commitment' :
              i \in Nat /\ i + 1 \in DOMAIN commitment /\ i + 1 # 1
              /\ commitment'[i] = commitment[i + 1]
<1>1. commitment \in Seq(Events)
  BY DEF BusTyped
<1>2. /\ commitment' \in Seq(Events) /\ Len(commitment') = Len(commitment) - 1
      /\ Len(commitment) > 0
      /\ \A i \in 1 .. Len(commitment) - 1 : commitment'[i] = commitment[i + 1]
  BY <1>1, Taking
<1>3. DOMAIN commitment = 1 .. Len(commitment) /\ DOMAIN commitment' = 1 .. Len(commitment')
      /\ Len(commitment) \in Nat
  BY <1>1, <1>2, LenProperties
<1>4. QED
  BY <1>2, <1>3

LEMMA ChannelGrows ==
  ASSUME BusTyped, NEW e \in Events, commitment' = Append(commitment, e)
  PROVE  LET n == Len(commitment) + 1 IN
         /\ n \notin DOMAIN commitment /\ DOMAIN commitment' = DOMAIN commitment \cup {n}
         /\ commitment'[n] = e
         /\ \A i \in DOMAIN commitment : commitment'[i] = commitment[i]
<1>1. commitment \in Seq(Events)
  BY DEF BusTyped
<1>2. /\ commitment' \in Seq(Events) /\ Len(commitment') = Len(commitment) + 1
      /\ \A i \in 1 .. Len(commitment) : commitment'[i] = commitment[i]
      /\ commitment'[Len(commitment) + 1] = e
  BY <1>1, Appending
<1>3. DOMAIN commitment = 1 .. Len(commitment) /\ DOMAIN commitment' = 1 .. Len(commitment) + 1
      /\ Len(commitment) \in Nat
  BY <1>1, <1>2, LenProperties
<1>4. Len(commitment) + 1 \notin DOMAIN commitment
      /\ DOMAIN commitment' = DOMAIN commitment \cup {Len(commitment) + 1}
  BY <1>3
<1>5. QED
  BY <1>2, <1>3, <1>4

\* What is in the buffer after an insertion.
LEMMA Inserted ==
  ASSUME ReorderTyped, NEW s \in Nat, ReorderInsert(s)
  PROVE  /\ \A h \in Held' : h \in Held \/ (h = s /\ s > next)
         /\ \A n \in Nat : n < next' => n < next \/ n = s \/ n \in Held
<1>1. Held = {h \in SeqNos : heap[h] > 0}
  BY DEF Held, Copies, ReorderTyped
<1>2. CASE InsertEarlier(s)
  BY <1>2 DEF InsertEarlier, reorderVars, Held, Copies
<1>3. CASE InsertLater(s)
  <2>1. next' = next /\ s > next
        /\ (heap' = heap \/ heap' = [heap EXCEPT ![s] = heap[s] + 1])
    BY <1>3 DEF InsertLater
  <2>2. \A h \in SeqNos : heap'[h] > 0 => heap[h] > 0 \/ h = s
    BY <2>1 DEF ReorderTyped
  <2>3. DOMAIN heap' = SeqNos
    BY <2>1 DEF ReorderTyped
  <2>4. Held' = {h \in SeqNos : heap'[h] > 0}
    BY <2>3 DEF Held, Copies
  <2>5. QED
    BY <1>1, <2>1, <2>2, <2>4
<1>4. CASE InsertExpected(s)
  <2>1. /\ next' \in Nat /\ next' >= s + 1 /\ heap' \in [SeqNos -> Nat]
        /\ \A h \in SeqNos : heap'[h] <= heap[h]
    BY <1>4, DrainedHeap
  <2>2. next' = Drain(s + 1) /\ s + 1 \in Nat /\ s = next
    BY <1>4 DEF InsertExpected
  <2>3. Drainable(s + 1, next')
    BY <2>2, Draining
  <2>4. \A h \in Held' : h \in Held
    <3>1. Held' = {h \in SeqNos : heap'[h] > 0}
      BY <2>1 DEF Held, Copies
    <3>2. \A h \in SeqNos : heap[h] \in Nat /\ heap'[h] \in Nat
      BY <2>1 DEF ReorderTyped
    <3>3. QED
      BY <1>1, <2>1, <3>1, <3>2
  <2>5. ASSUME NEW n \in Nat, n < next' PROVE n < next \/ n = s \/ n \in Held
    <3>1. CASE n < s + 1
      BY <2>2, <3>1
    <3>2. CASE ~(n < s + 1)
      <4>1. \A m \in Nat : n < m /\ ~(n < s + 1) => m # s + 1 /\ n \in s + 1 .. m - 1
        OBVIOUS
      <4>2. next' # s + 1 /\ n \in s + 1 .. next' - 1
        BY <2>1, <2>5, <3>2, <4>1
      <4>3. Copies(n) > 0
        BY <2>3, <4>2 DEF Drainable
      <4>4. n \in SeqNos
        BY <4>3 DEF Copies, ReorderTyped
      <4>5. QED
        BY <4>3, <4>4 DEF Held
    <3>3. QED
      BY <3>1, <3>2
  <2>6. QED
    BY <2>4, <2>5
<1>5. QED
  BY <1>2, <1>3, <1>4 DEF ReorderInsert

LEMMA TracedHolds ==
  ASSUME BusTyped, ReorderTyped, Traced, [Next]_allVars
  PROVE  Traced'
<1>1. ASSUME UNCHANGED reorderVars PROVE Held' = Held /\ next' = next
  BY <1>1 DEF reorderVars, Held, Copies
<1>2. CASE Quiet
  BY <1>1, <1>2 DEF Quiet, Traced
<1>3. ASSUME NEW t \in Tasks, Taken(t) PROVE Traced'
  <2> DEFINE e == call[t].event
  <2>1. e \in Events /\ fresh' = Append(fresh, e) /\ commitment' = commitment
        /\ Held' = Held /\ next' = next
    BY <1>1, <1>3 DEF Taken
  <2>2. (\A s : Passing(fresh, s) => Passing(fresh', s)) /\ (e.bound => Passing(fresh', e.seq))
    BY <2>1, PassingGrows
  <2>3. \A u \in Tasks, s \in Nat : Carries(call', u, s) => Passing(fresh', s)
    BY <1>3, <2>2 DEF Taken, Traced
  <2>4. \A i \in DOMAIN commitment' : commitment'[i].bound /\ Passing(fresh', commitment'[i].seq)
    BY <2>1, <2>2 DEF Traced
  <2>5. (\A s \in Held' : Passing(fresh', s)) /\ (\A s \in Nat : s < next' => Passing(fresh', s))
    BY <2>1, <2>2 DEF Traced
  <2>6. QED
    BY <2>3, <2>4, <2>5 DEF Traced
<1>4. ASSUME NEW t \in Tasks, Handed(t) PROVE Traced'
  <2> DEFINE e == call[t].event
             n == Len(commitment) + 1
  <2>1. e \in Events /\ commitment' = Append(commitment, e) /\ fresh' = fresh
        /\ Held' = Held /\ next' = next /\ e.bound /\ Passing(fresh, e.seq)
    BY <1>1, <1>4 DEF Handed, Traced
  <2>2. /\ n \notin DOMAIN commitment /\ DOMAIN commitment' = DOMAIN commitment \cup {n}
        /\ commitment'[n] = e
        /\ \A i \in DOMAIN commitment : commitment'[i] = commitment[i]
    BY <2>1, ChannelGrows
  <2> HIDE DEF n, e
  <2>3. \A i \in DOMAIN commitment' : commitment'[i].bound /\ Passing(fresh', commitment'[i].seq)
    BY <2>1, <2>2 DEF Traced
  <2>4. \A u \in Tasks, s \in Nat : Carries(call', u, s) => Passing(fresh', s)
    BY <1>4, <2>1 DEF Handed, Traced
  <2>5. (\A s \in Held' : Passing(fresh', s)) /\ (\A s \in Nat : s < next' => Passing(fresh', s))
    BY <2>1 DEF Traced
  <2>6. QED
    BY <2>3, <2>4, <2>5 DEF Traced
<1>5. ASSUME NEW e \in Events, Fed(e) PROVE Traced'
  <2>1. e = commitment[1] /\ commitment' = Tail(commitment) /\ commitment # <<>>
        /\ call' = call /\ fresh' = fresh /\ e.seq \in Nat
    BY <1>5 DEF Fed
  <2>2. /\ 1 \in DOMAIN commitment
        /\ \A i \in DOMAIN commitment' :
             i + 1 \in DOMAIN commitment /\ commitment'[i] = commitment[i + 1]
    BY <2>1, ChannelShifts
  <2>3. /\ \A h \in Held' : h \in Held \/ (h = e.seq /\ e.seq > next)
        /\ \A n \in Nat : n < next' => n < next \/ n = e.seq \/ n \in Held
    BY <1>5, <2>1, Inserted DEF Fed
  <2>4. Passing(fresh, e.seq)
    BY <2>1, <2>2 DEF Traced
  <2>5. \A i \in DOMAIN commitment' : commitment'[i].bound /\ Passing(fresh', commitment'[i].seq)
    BY <2>1, <2>2 DEF Traced
  <2>6. (\A s \in Held' : Passing(fresh', s)) /\ (\A s \in Nat : s < next' => Passing(fresh', s))
    BY <2>1, <2>3, <2>4 DEF Traced
  <2>7. \A u \in Tasks, s \in Nat : Carries(call', u, s) => Passing(fresh', s)
    BY <2>1 DEF Traced
  <2>8. QED
    BY <2>5, <2>6, <2>7 DEF Traced
<1>6. QED
  BY <1>2, <1>3, <1>4, <1>5, FourKinds

LEMMA NumberedHolds ==
  ASSUME BusTyped, ReorderTyped, Numbered, [Next]_allVars
  PROVE  Numbered'
<1>1. CASE UNCHANGED <<next, released>>
  BY <1>1 DEF Numbered
<1>2. ASSUME NEW s \in Nat, InsertExpected(s) PROVE Numbered'
  <2>1. next' \in Nat /\ next' >= s + 1 /\ s = next /\ released \in Seq(Nat)
    BY <1>2, DrainedHeap DEF InsertExpected, ReorderTyped
  <2>2. /\ Len(released') = Len(released) + (next' - s)
        /\ \A i \in 1 .. Len(released) : released'[i] = released[i]
        /\ \A i \in 1 .. next' - s : released'[Len(released) + i] = s + i - 1
    BY <1>2, <2>1, Releasing
  <2>3. PICK n \in Nat : n = next'
    BY <2>1
  <2>4. Len(released) = s /\ \A i \in 1 .. s : released[i] = i - 1
    BY <2>1 DEF Numbered
  <2>5. /\ Len(released') = s + (n - s)
        /\ \A i \in 1 .. s : released'[i] = i - 1
        /\ \A i \in 1 .. n - s : released'[s + i] = s + i - 1
    BY <2>2, <2>3, <2>4
  <2>6. \A i \in 1 .. n : released'[i] = i - 1
    <3>1. ASSUME NEW i \in 1 .. n, i > s PROVE released'[i] = i - 1
      <4>1. i - s \in 1 .. n - s /\ s + (i - s) = i
        BY <3>1
      <4>2. released'[s + (i - s)] = s + (i - s) - 1
        BY <2>5, <4>1
      <4>3. QED
        BY <4>1, <4>2
    <3>2. QED
      BY <2>5, <3>1
  <2>7. Len(released') = n
    BY <2>5
  <2>8. QED
    BY <2>3, <2>6, <2>7 DEF Numbered
<1>3. ASSUME NEW s \in Nat, ReorderInsert(s) PROVE Numbered'
  BY <1>1, <1>2, <1>3 DEF ReorderInsert, InsertEarlier, InsertLater, reorderVars
<1>4. QED
  BY <1>1, <1>3, BufferSteps DEF reorderVars, allVars

\* What the consumer gets out of the buffer is 0, 1, 2, ... with no gap and
\* nothing twice, each of it an event that passed the bus, for any interleaving
\* of the tasks and any window (reorder.rs:83-133).
THEOREM StreamIsContiguous == Spec => []ReleasedInOrder
<1> DEFINE I == BusTyped /\ ReorderTyped /\ Traced /\ Numbered
<1>1. Init => Traced /\ Numbered
  <2> SUFFICES ASSUME Init PROVE Traced /\ Numbered
    OBVIOUS
  <2>1. \A t \in Tasks : call[t].at \notin Owing
    BY DEF Init, BusInit, Idle, Owing
  <2>2. /\ commitment = <<>> /\ Held = {} /\ next = 0 /\ released = <<>>
    BY DEF Init, BusInit, ReorderInit, Held, Copies
  <2>3. Traced
    BY <2>1, <2>2 DEF Traced, Carries
  <2>4. QED
    BY <2>2, <2>3 DEF Numbered
<1>2. I /\ [Next]_allVars => Traced' /\ Numbered'
  BY TracedHolds, NumberedHolds
<1>3. I => ReleasedInOrder
  <2> SUFFICES ASSUME I PROVE ReleasedInOrder
    OBVIOUS
  <2>1. DOMAIN released = 1 .. next /\ Len(released) = next /\ next \in Nat
    BY LenProperties DEF ReorderTyped, Numbered
  <2>2. \A i \in 1 .. next : i - 1 \in Nat /\ i - 1 < next
    BY <2>1
  <2>3. \A i \in 1 .. next : \E j \in DOMAIN fresh : fresh[j].seq = i - 1
    BY <2>2 DEF Traced, Passing
  <2>4. QED
    BY <2>1, <2>3 DEF Numbered, ReleasedInOrder
<1>4. QED
  BY <1>1, <1>2, <1>3, TypesHold, PTL DEF Spec

-----------------------------------------------------------------------------
(* What the buffer holds lies after a gap *)

\* The drain loop stops at a number that is not held, when it starts with
\* every held number ahead of it and one copy of each.
LEMMA DrainStopsAtGap ==
  ASSUME ReorderTyped, NEW from \in Nat, \A h \in Held : h >= from /\ Copies(h) = 1
  PROVE  Drain(from) \notin Held
<1> DEFINE d == Drain(from)
           n == Cardinality(SeqNos)
<1>1. /\ d \in Nat /\ d >= from /\ d <= from + n /\ Drainable(from, d)
      /\ \A to \in Nat : to >= from /\ to <= from + n /\ Drainable(from, to) => to <= d
  BY Draining
<1>2. n \in Nat /\ IsFiniteSet(SeqNos)
  BY ReorderAssumption, FS_CardinalityType
<1> HIDE DEF d, n
<1> SUFFICES ASSUME d \in Held PROVE FALSE
  BY DEF d
<1>3. \A h \in from .. d : h \in Held
  <2>1. CASE d = from
    BY <1>1, <2>1
  <2>2. CASE d # from
    <3>1. \A h \in from .. d - 1 : Copies(h) > 0
      BY <1>1, <2>2 DEF Drainable
    <3>2. \A h : Copies(h) > 0 => h \in Held
      BY DEF Copies, Held, ReorderTyped
    <3>3. \A h \in from .. d : h = d \/ h \in from .. d - 1
      BY <1>1
    <3>4. QED
      BY <3>1, <3>2, <3>3
  <2>3. QED
    BY <2>1, <2>2
<1>4. Cardinality(from .. d) <= n
  BY <1>2, <1>3, FS_Subset DEF Held, n
<1>5. Cardinality(from .. d) = d - from + 1
  BY <1>1, FS_Interval
<1>6. d + 1 <= from + n
  BY <1>1, <1>2, <1>4, <1>5
<1>7. Drainable(from, d + 1)
  <2>1. PICK m \in Nat : m = d + 1
    BY <1>1
  <2>2. \A h \in from .. m - 1 : h \in Held
    BY <1>1, <1>3, <2>1
  <2>3. \A h \in from .. m - 2 : h \in Held
    BY <1>1, <1>3, <2>1
  <2>4. \A h \in Held : Copies(h) > 0 /\ Copies(h) = 1 /\ h >= from
    OBVIOUS
  <2>5. Drainable(from, m)
    BY <2>2, <2>3, <2>4 DEF Drainable
  <2>6. QED
    BY <2>1, <2>5
<1>8. d + 1 \in Nat /\ d + 1 >= from /\ ~(d + 1 <= d)
  BY <1>1
<1>9. QED
  BY <1>1, <1>6, <1>7, <1>8

\* Inserting a number that is nowhere else keeps the buffer behind its gap.
LEMMA InsertedBehindGap ==
  ASSUME ReorderTyped, NEW s \in Nat, ReorderInsert(s), s >= next, s \notin Held,
         \A h \in Held : heap[h] = 1 /\ h > next
  PROVE  /\ \A h \in Held' : heap'[h] = 1 /\ h > next' /\ (h \in Held \/ h = s)
         /\ \A n \in Nat : n >= next /\ n \notin Held /\ n # s => n >= next'
<1>1. Held = {h \in SeqNos : heap[h] > 0} /\ SeqNos \subseteq Nat /\ next \in Nat
  BY ReorderAssumption DEF Held, Copies, ReorderTyped
<1>2. \A h \in SeqNos : heap[h] \in Nat /\ Copies(h) = heap[h]
  BY DEF Copies, ReorderTyped
<1>3. ~InsertEarlier(s)
  BY <1>1, ReorderAssumption DEF InsertEarlier, Behind, Passed
<1>4. CASE InsertLater(s)
  <2>1. next' = next /\ s > next
        /\ (heap' = heap \/ heap' = [heap EXCEPT ![s] = heap[s] + 1])
    BY <1>4 DEF InsertLater
  <2>2. \A h \in SeqNos : heap'[h] = heap[h] \/ (h = s /\ heap'[h] = heap[h] + 1)
    BY <2>1 DEF ReorderTyped
  <2>3. Held' = {h \in SeqNos : heap'[h] > 0}
    <3>1. DOMAIN heap' = SeqNos
      BY <2>1 DEF ReorderTyped
    <3>2. QED
      BY <3>1 DEF Held, Copies
  <2>4. s \in SeqNos => heap[s] = 0
    BY <1>1, <1>2
  <2>5. \A h \in Held' : heap'[h] = 1 /\ (h \in Held \/ h = s)
    BY <1>1, <1>2, <2>2, <2>3, <2>4
  <2>6. QED
    BY <2>1, <2>5
<1>5. CASE InsertExpected(s)
  <2>1. next' = Drain(s + 1) /\ s + 1 \in Nat /\ s = next
    BY <1>5 DEF InsertExpected
  <2>2. \A h \in Held : h >= s + 1 /\ Copies(h) = 1
    BY <1>1, <1>2, <2>1
  <2>3. next' \notin Held
    BY <2>1, <2>2, DrainStopsAtGap
  <2>4. PICK d \in Nat : d = next' /\ d >= s + 1
    BY <2>1, Draining
  <2>5. /\ heap' \in [SeqNos -> Nat]
        /\ \A h \in SeqNos : ~(h > s /\ h < d) => heap'[h] = heap[h]
        /\ \A h \in SeqNos : h > s /\ h < d => heap[h] > 0 /\ heap'[h] = heap[h] - 1
    BY <1>5, <2>4, DrainedHeap
  <2>6. Held' = {h \in SeqNos : heap'[h] > 0}
    BY <2>5 DEF Held, Copies
  <2>7. ASSUME NEW h \in Held' PROVE heap'[h] = 1 /\ h > next' /\ h \in Held
    <3>1. h \in SeqNos /\ heap'[h] > 0 /\ h \in Nat
      BY <1>1, <2>6
    <3>2. ~(h > s /\ h < d)
      <4>1. h > s /\ h < d => h \in Held /\ heap'[h] = heap[h] - 1
        BY <1>1, <2>5, <3>1
      <4>2. QED
        BY <3>1, <4>1
    <3>3. h \in Held
      BY <1>1, <2>5, <3>1, <3>2
    <3>4. h >= s + 1 /\ h # d
      BY <2>2, <2>3, <2>4, <3>3
    <3>5. h > d
      BY <2>4, <3>1, <3>2, <3>4
    <3>6. QED
      BY <2>4, <2>5, <3>1, <3>2, <3>3, <3>5
  <2>8. ASSUME NEW n \in Nat, n >= next, n \notin Held, n # s PROVE n >= next'
    <3>1. n > s
      BY <2>1, <2>8
    <3>2. ~(n < d)
      <4> SUFFICES ASSUME n < d PROVE FALSE
        OBVIOUS
      <4>1. Drainable(s + 1, d) /\ d # s + 1 /\ n \in s + 1 .. d - 1
        BY <2>1, <2>4, <3>1, Draining
      <4>2. Copies(n) > 0
        BY <4>1 DEF Drainable
      <4>3. QED
        BY <2>8, <4>2 DEF Copies, Held, ReorderTyped
    <3>3. QED
      BY <2>4, <3>2
  <2>9. QED
    BY <2>7, <2>8
<1>6. QED
  BY <1>3, <1>4, <1>5 DEF ReorderInsert

LEMMA OneEachHolds ==
  ASSUME BusTyped, ReorderTyped, Traced, AcceptedOnce => OneEach, [Next]_allVars, AcceptedOnce'
  PROVE  OneEach'
<1>1. ASSUME UNCHANGED reorderVars PROVE Held' = Held /\ next' = next /\ heap' = heap
  BY <1>1 DEF reorderVars, Held, Copies
<1>2. ASSUME fresh' = fresh PROVE OneEach
  BY <1>2 DEF AcceptedOnce
<1>3. CASE Quiet
  <2>1. OneEach /\ commitment' = commitment /\ Held' = Held /\ next' = next /\ heap' = heap
        /\ \A t \in Tasks, s \in Nat : Carries(call', t, s) => Carries(call, t, s)
    BY <1>1, <1>2, <1>3 DEF Quiet
  <2>2. \A i \in DOMAIN commitment : commitment[i].seq \in Nat
    <3>1. \A i \in DOMAIN commitment : commitment[i] \in Events
      BY DEF BusTyped
    <3>2. QED
      BY <3>1, BusAssumption
  <2>3. QED
    BY <2>1, <2>2 DEF OneEach
<1>4. ASSUME NEW t \in Tasks, Taken(t) PROVE OneEach'
  <2> DEFINE e == call[t].event
  <2>1. e \in Events /\ fresh' = Append(fresh, e) /\ commitment' = commitment
        /\ Held' = Held /\ next' = next /\ heap' = heap
    BY <1>1, <1>4 DEF Taken
  <2>2. OneEach /\ (e.bound => ~Passing(fresh, e.seq))
    BY <2>1, PassingGrows
  <2>3. \A u \in Tasks, s \in Nat :
           Carries(call', u, s) => (u = t /\ ~Passing(fresh, s)) \/ (u # t /\ Carries(call, u, s))
    BY <1>4, <2>2 DEF Taken
  <2>4. \A i \in DOMAIN commitment : commitment[i].seq \in Nat
    <3>1. \A i \in DOMAIN commitment : commitment[i] \in Events
      BY DEF BusTyped
    <3>2. QED
      BY <3>1, BusAssumption
  <2>5. \A u, v \in Tasks, s \in Nat : Carries(call', u, s) /\ Carries(call', v, s) => u = v
    BY <2>2, <2>3 DEF OneEach, Traced
  <2>6. \A u \in Tasks, i \in DOMAIN commitment : ~Carries(call', u, commitment[i].seq)
    BY <2>2, <2>3, <2>4 DEF OneEach, Traced
  <2>7. \A u \in Tasks, s \in Nat : Carries(call', u, s) => s >= next /\ s \notin Held
    <3>1. \A s \in Nat : ~Passing(fresh, s) => s >= next /\ s \notin Held
      BY DEF Traced, ReorderTyped
    <3>2. QED
      BY <2>2, <2>3, <3>1 DEF OneEach
  <2>8. QED
    BY <2>1, <2>2, <2>5, <2>6, <2>7 DEF OneEach
<1>5. ASSUME NEW t \in Tasks, Handed(t) PROVE OneEach'
  <2> DEFINE e == call[t].event
             n == Len(commitment) + 1
  <2>1. e \in Events /\ commitment' = Append(commitment, e) /\ fresh' = fresh
        /\ Held' = Held /\ next' = next /\ heap' = heap /\ Carries(call, t, e.seq) /\ e.seq \in Nat
        /\ \A u \in Tasks, s \in Nat : Carries(call', u, s) => u # t /\ Carries(call, u, s)
    BY <1>1, <1>5 DEF Handed
  <2>2. /\ n \notin DOMAIN commitment /\ DOMAIN commitment' = DOMAIN commitment \cup {n}
        /\ commitment'[n] = e
        /\ \A i \in DOMAIN commitment : commitment'[i] = commitment[i]
    BY <2>1, ChannelGrows
  <2>3. OneEach
    BY <1>2, <2>1
  <2>4. \A i \in DOMAIN commitment : commitment[i].seq \in Nat /\ commitment[i].seq # e.seq
    <3>1. \A i \in DOMAIN commitment : commitment[i] \in Events
      BY DEF BusTyped
    <3>2. QED
      BY <2>1, <2>3, <3>1, BusAssumption DEF OneEach
  <2> HIDE DEF n, e
  <2>5. \A i, j \in DOMAIN commitment' : commitment'[i].seq = commitment'[j].seq => i = j
    BY <2>2, <2>3, <2>4 DEF OneEach
  <2>6. \A u \in Tasks, i \in DOMAIN commitment' : ~Carries(call', u, commitment'[i].seq)
    BY <2>1, <2>2, <2>3, <2>4 DEF OneEach
  <2>7. \A i \in DOMAIN commitment' : commitment'[i].seq >= next /\ commitment'[i].seq \notin Held
    BY <2>1, <2>2, <2>3 DEF OneEach
  <2>8. QED
    BY <2>1, <2>3, <2>5, <2>6, <2>7 DEF OneEach
<1>6. ASSUME NEW e \in Events, Fed(e) PROVE OneEach'
  <2>1. e = commitment[1] /\ commitment' = Tail(commitment) /\ commitment # <<>>
        /\ call' = call /\ fresh' = fresh /\ e.seq \in Nat /\ ReorderInsert(e.seq)
    BY <1>6 DEF Fed
  <2>2. /\ 1 \in DOMAIN commitment
        /\ \A i \in DOMAIN commitment' :
             i \in Nat /\ i + 1 \in DOMAIN commitment /\ i + 1 # 1
             /\ commitment'[i] = commitment[i + 1]
    BY <2>1, ChannelShifts
  <2>3. OneEach
    BY <1>2, <2>1
  <2>4. /\ \A h \in Held' : heap'[h] = 1 /\ h > next' /\ (h \in Held \/ h = e.seq)
        /\ \A n \in Nat : n >= next /\ n \notin Held /\ n # e.seq => n >= next'
    BY <2>1, <2>2, <2>3, InsertedBehindGap DEF OneEach
  <2>5. \A i \in DOMAIN commitment' :
          /\ commitment'[i].seq \in Nat /\ commitment'[i].seq # e.seq
          /\ commitment'[i].seq >= next /\ commitment'[i].seq \notin Held
    <3>1. \A i \in DOMAIN commitment : commitment[i].seq \in Nat
      <4>1. \A i \in DOMAIN commitment : commitment[i] \in Events
        BY DEF BusTyped
      <4>2. QED
        BY <4>1, BusAssumption
    <3>2. QED
      BY <2>1, <2>2, <2>3, <3>1 DEF OneEach
  <2>6. \A t \in Tasks, s \in Nat : Carries(call', t, s) =>
          s # e.seq /\ s >= next /\ s \notin Held
    BY <2>1, <2>2, <2>3 DEF OneEach
  <2>7. \A i, j \in DOMAIN commitment' : commitment'[i].seq = commitment'[j].seq => i = j
    <3>1. ASSUME NEW i \in DOMAIN commitment', NEW j \in DOMAIN commitment',
                 commitment'[i].seq = commitment'[j].seq
          PROVE  i = j
      <4>1. i \in Nat /\ j \in Nat /\ i + 1 = j + 1
        BY <2>2, <2>3, <3>1 DEF OneEach
      <4>2. QED
        BY <4>1
    <3>2. QED
      BY <3>1
  <2>8. \A t \in Tasks, i \in DOMAIN commitment' : ~Carries(call', t, commitment'[i].seq)
    BY <2>1, <2>2, <2>3 DEF OneEach
  <2>9. \A t \in Tasks, s \in Nat : Carries(call', t, s) => s >= next' /\ s \notin Held'
    BY <2>4, <2>6
  <2>10. \A i \in DOMAIN commitment' : commitment'[i].seq >= next' /\ commitment'[i].seq \notin Held'
    BY <2>4, <2>5
  <2>11. \A t, u \in Tasks, s \in Nat : Carries(call', t, s) /\ Carries(call', u, s) => t = u
    BY <2>1, <2>3 DEF OneEach
  <2>12. QED
    BY <2>4, <2>7, <2>8, <2>9, <2>10, <2>11 DEF OneEach
<1>7. QED
  BY <1>3, <1>4, <1>5, <1>6, FourKinds

\* While no sequence number has passed the bus twice, everything the buffer
\* holds lies after a number that has not arrived, for any interleaving and any
\* window: it never sits on what it could release (reorder.rs:83-133).
THEOREM NothingWaitsForNothing == Spec => []HoldsOnlyBehindGap
<1> DEFINE I == BusTyped /\ ReorderTyped /\ Traced /\ (AcceptedOnce => OneEach)
<1>1. Init => Traced /\ (AcceptedOnce => OneEach)
  <2> SUFFICES ASSUME Init PROVE Traced /\ OneEach
    OBVIOUS
  <2>1. \A t \in Tasks : call[t].at \notin Owing
    BY DEF Init, BusInit, Idle, Owing
  <2>2. /\ commitment = <<>> /\ Held = {} /\ next = 0
    BY DEF Init, BusInit, ReorderInit, Held, Copies
  <2>3. QED
    BY <2>1, <2>2 DEF Traced, OneEach, Carries
<1>2. I /\ [Next]_allVars => Traced' /\ (AcceptedOnce => OneEach)'
  BY TracedHolds, OneEachHolds
<1>3. I => HoldsOnlyBehindGap
  BY DEF OneEach, HoldsOnlyBehindGap
<1>4. QED
  BY <1>1, <1>2, <1>3, TypesHold, PTL DEF Spec
=============================================================================
