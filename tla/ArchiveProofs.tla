---------------------------- MODULE ArchiveProofs ----------------------------
(***************************************************************************)
(* Proofs about the archive path, for every set of writers and rows and    *)
(* all thresholds and channel sizes.                                       *)
(***************************************************************************)
EXTENDS ArchivePath, SequenceTheorems, WellFoundedInduction, TLAPS

\* A writer carries a row of its call, and the table is keyed by vault and slot.
GateTyped ==
  /\ writer \in [Writers -> {Idle} \cup [at: {"insert", "submit", "enqueue"}, row: Rows]]
  /\ \A k \in DOMAIN warehouse : warehouse[k] \in Rows /\ Key(warehouse[k]) = k

\* The row r, or one with the same public input, is in the archive.
Archived(r) == Key(r) \in DOMAIN warehouse /\ warehouse[Key(r)].input = r.input

\* SubmittedIsArchived says nothing of a writer that is about to submit; what
\* makes it inductive is that such a writer's row is in the archive already.
IInv ==
  /\ GateTyped
  /\ \A w \in Writers : writer[w].at \in {"submit", "enqueue"} => Archived(writer[w].row)
  /\ \A r \in submitted : Archived(r)

\* Two rows of one vault and slot that are both archived have one public input.
LEMMA IInvSuffices == IInv => SubmittedIsArchived
BY DEF IInv, Archived, SubmittedIsArchived

LEMMA InitIInv == Init => IInv
BY DEF Init, GateInit, IInv, GateTyped, Idle

\* Steps that leave the gate alone.
LEMMA GateUntouched ==
  ASSUME IInv, UNCHANGED gateVars
  PROVE  IInv'
BY DEF IInv, GateTyped, gateVars, Archived, Key

\* A writer that goes idle owes nothing; the other writers are as they were.
LEMMA GoingIdle ==
  ASSUME IInv, NEW w \in Writers, writer' = [writer EXCEPT ![w] = Idle],
         UNCHANGED <<warehouse, submitted>>
  PROVE  IInv'
BY DEF IInv, GateTyped, Archived, Key, Idle

\* An insert never changes or removes a row: what is archived stays archived.
LEMMA UpsertKeeps ==
  ASSUME NEW r \in Rows, Upsert(r), NEW s
  PROVE  Archived(s) => Archived(s)'
BY DEF Upsert, Archived, Key

LEMMA CallKeepsIInv ==
  ASSUME IInv, NEW w \in Writers, NEW r \in Rows, Call(w, r)
  PROVE  IInv'
BY DEF Call, At, IInv, GateTyped, Archived, Key, Idle

LEMMA InsertKeepsIInv ==
  ASSUME IInv, NEW w \in Writers, Insert(w)
  PROVE  IInv'
<1> DEFINE r == writer[w].row
<1>1. r \in Rows /\ writer[w] \in [at: {"insert", "submit", "enqueue"}, row: Rows]
  BY DEF Insert, At, IInv, GateTyped, Idle
<1>2. CASE Collision(r)
  BY <1>2, GoingIdle DEF Insert
<1>3. CASE ~Collision(r)
  <2>1. Upsert(r) /\ writer' = [writer EXCEPT ![w].at = "submit"] /\ submitted' = submitted
    BY <1>3 DEF Insert, Goto
  <2>2. \A s : Archived(s) => Archived(s)'
    BY <1>1, <2>1, UpsertKeeps
  \* Without a collision the row in the table has the writer's public input.
  <2>3. Archived(r)'
    BY <1>3, <2>1 DEF Upsert, Archived, Collision, Key
  <2>4. GateTyped'
    <3>1. writer' \in [Writers -> {Idle} \cup [at: {"insert", "submit", "enqueue"}, row: Rows]]
      BY <1>1, <2>1 DEF IInv, GateTyped
    <3>2. \A k \in DOMAIN warehouse' : warehouse'[k] \in Rows /\ Key(warehouse'[k]) = k
      BY <1>1, <2>1 DEF IInv, GateTyped, Upsert, Key
    <3>3. QED
      BY <3>1, <3>2 DEF GateTyped, Key
  <2>5. ASSUME NEW v \in Writers, writer'[v].at \in {"submit", "enqueue"}
        PROVE  Archived(writer[v].row)'
    <3>1. CASE v = w
      BY <1>1, <2>1, <2>3, <3>1 DEF IInv, GateTyped, Archived, Key
    <3>2. CASE v # w
      BY <2>1, <2>2, <2>5, <3>2 DEF IInv, GateTyped, Archived, Key
    <3>3. QED
      BY <3>1, <3>2
  <2>6. \A s \in submitted' : Archived(s)'
    BY <2>1, <2>2 DEF IInv
  <2>7. QED
    BY <2>4, <2>5, <2>6 DEF IInv
<1>4. QED
  BY <1>2, <1>3

LEMMA SubmitKeepsIInv ==
  ASSUME IInv, NEW w \in Writers, Submit(w)
  PROVE  IInv'
<1> DEFINE r == writer[w].row
<1>1. r \in Rows /\ Archived(r)
  BY DEF Submit, At, IInv, GateTyped, Idle
<1>2. submitted' = submitted \cup {r} /\ warehouse' = warehouse
  BY DEF Submit
<1>3. \A s \in submitted' : Archived(s)'
  BY <1>1, <1>2 DEF IInv, Archived, Key
<1>4. writer' = [writer EXCEPT ![w].at = "enqueue"] \/ writer' = [writer EXCEPT ![w] = Idle]
  BY DEF Submit, Goto
<1>5. GateTyped'
  BY <1>1, <1>2, <1>4 DEF Submit, At, IInv, GateTyped, Key, Idle
<1>6. ASSUME NEW v \in Writers, writer'[v].at \in {"submit", "enqueue"}
      PROVE  Archived(writer[v].row)'
  <2>1. CASE v = w
    <3>1. writer'[v] = [writer[w] EXCEPT !.at = "enqueue"] \/ writer'[v] = Idle
      BY <1>4, <2>1 DEF IInv, GateTyped
    <3>2. writer'[v].row = r
      BY <1>6, <3>1 DEF Submit, At, IInv, GateTyped, Idle
    <3>3. QED
      BY <1>1, <1>2, <3>2 DEF Archived, Key
  <2>2. CASE v # w
    <3>1. writer'[v] = writer[v]
      BY <1>4, <2>2 DEF IInv, GateTyped
    <3>2. Archived(writer[v].row)
      BY <1>6, <3>1 DEF IInv
    <3>3. QED
      BY <1>2, <3>1, <3>2 DEF Archived, Key
  <2>3. QED
    BY <2>1, <2>2
<1>7. QED
  BY <1>3, <1>5, <1>6 DEF IInv

LEMMA NextKeepsIInv == IInv /\ [Next]_vars => IInv'
<1> SUFFICES ASSUME IInv, [Next]_vars PROVE IInv'
  OBVIOUS
<1>1. ASSUME NEW w \in Writers, NEW r \in Rows, Call(w, r) PROVE IInv'
  BY <1>1, CallKeepsIInv
<1>2. ASSUME NEW w \in Writers, Gate(w) PROVE IInv'
  BY <1>2, InsertKeepsIInv, SubmitKeepsIInv DEF Gate
<1>3. ASSUME NEW w \in Writers, HandOver(w) PROVE IInv'
  BY <1>3, GoingIdle DEF HandOver
<1>4. ASSUME NEW w \in Writers, InsertFails(w) PROVE IInv'
  BY <1>4, GoingIdle DEF InsertFails
<1>5. ShutDown \/ Flusher \/ (TakeAnchor /\ UNCHANGED gateVars)
        \/ (StopListening /\ UNCHANGED gateVars) \/ UNCHANGED vars
        => UNCHANGED gateVars
  BY DEF ShutDown, Flusher, vars
<1>6. QED
  BY <1>1, <1>2, <1>3, <1>4, <1>5, GateUntouched DEF Next

\* Invariant I-8 (write_path.rs:3): for any number of concurrent writers, what
\* was submitted is in the archive and never has a rival with another input.
THEOREM ArchivedBeforeSubmit == Spec => []SubmittedIsArchived
<1>1. Spec => []IInv
  BY InitIInv, NextKeepsIInv, PTL DEF Spec
<1>2. QED
  BY <1>1, IInvSuffices, PTL

-----------------------------------------------------------------------------
(* Counterexamples, slots and sequences *)

\* A set of naturals that is not empty has a smallest element.
LEMMA SmallestNumber ==
  ASSUME NEW D \in SUBSET Nat, D # {}
  PROVE  \E m \in D : \A n \in D : m <= n
<1>1. PICK m \in D : \A n \in D : <<n, m>> \notin OpToRel(<, Nat)
  BY NatLessThanWellFounded, WFMin
<1>2. \A n \in D : ~(n < m)
  BY <1>1 DEF OpToRel
<1>3. QED
  BY <1>2

\* Some leaf has the largest slot of a batch, some the smallest.
LEMMA SomeIsExtreme ==
  ASSUME NEW n \in Nat \ {0}, NEW f, \A i \in 1 .. n : f[i] \in Nat
  PROVE  /\ \E i \in 1 .. n : \A j \in 1 .. n : f[i] >= f[j]
         /\ \E i \in 1 .. n : \A j \in 1 .. n : f[i] <= f[j]
<1> DEFINE Up(k)   == \E i \in 1 .. k : \A j \in 1 .. k : f[i] >= f[j]
           Down(k) == \E i \in 1 .. k : \A j \in 1 .. k : f[i] <= f[j]
           D == {k \in 1 .. n : ~(Up(k) /\ Down(k))}
<1> SUFFICES Up(n) /\ Down(n)
  OBVIOUS
<1>1. SUFFICES ASSUME D # {} PROVE FALSE
  <2> HIDE DEF Up, Down
  <2>1. n \in 1 .. n
    OBVIOUS
  <2>2. QED
    BY <2>1
<1>2. PICK m \in D : \A k \in D : m <= k
  <2>1. D \in SUBSET Nat
    OBVIOUS
  <2> HIDE DEF D
  <2>2. QED
    BY <1>1, <2>1, SmallestNumber
<1>3. m \in 1 .. n /\ m # 1
  BY <1>2
<1>4. m - 1 \in 1 .. n /\ m - 1 \notin D
  <2>1. m - 1 \in 1 .. n /\ ~(m <= m - 1)
    BY <1>3
  <2> HIDE DEF D
  <2>2. QED
    BY <1>2, <2>1
<1>5. PICK hi \in 1 .. m - 1 : \A j \in 1 .. m - 1 : f[hi] >= f[j]
  BY <1>4
<1>6. PICK lo \in 1 .. m - 1 : \A j \in 1 .. m - 1 : f[lo] <= f[j]
  BY <1>4
<1>7. \A j \in 1 .. m : j = m \/ j \in 1 .. m - 1
  BY <1>3
<1>8. f[m] \in Nat /\ f[hi] \in Nat /\ f[lo] \in Nat /\ \A j \in 1 .. m : f[j] \in Nat
  BY <1>3
<1>9. Up(m)
  <2>1. CASE f[m] >= f[hi]
    <3>1. \A j \in 1 .. m : f[m] >= f[j]
      BY <1>5, <1>7, <1>8, <2>1
    <3>2. QED
      BY <1>3, <3>1
  <2>2. CASE ~(f[m] >= f[hi])
    <3>1. \A j \in 1 .. m : f[hi] >= f[j]
      BY <1>5, <1>7, <1>8, <2>2
    <3>2. hi \in 1 .. m
      BY <1>3
    <3>3. QED
      BY <3>1, <3>2
  <2>3. QED
    BY <2>1, <2>2
<1>10. Down(m)
  <2>1. CASE f[m] <= f[lo]
    <3>1. \A j \in 1 .. m : f[m] <= f[j]
      BY <1>6, <1>7, <1>8, <2>1
    <3>2. QED
      BY <1>3, <3>1
  <2>2. CASE ~(f[m] <= f[lo])
    <3>1. \A j \in 1 .. m : f[lo] <= f[j]
      BY <1>6, <1>7, <1>8, <2>2
    <3>2. lo \in 1 .. m
      BY <1>3
    <3>3. QED
      BY <3>1, <3>2
  <2>3. QED
    BY <2>1, <2>2
<1>11. QED
  BY <1>2, <1>9, <1>10

\* What a batch says of its leaves.
Covers(b) ==
  /\ {b.low, b.high} \subseteq SlotsOf(b.leaves)
  /\ \A s \in SlotsOf(b.leaves) : b.low <= s /\ s <= b.high
Batches == {b \in [leaves: Seq(Receipts), low: Nat, high: Nat] : Covers(b)}

LEMMA BatchIsABatch ==
  ASSUME NEW leaves \in Seq(Receipts), leaves # <<>>
  PROVE  Batch(leaves) \in Batches
<1> DEFINE n == Len(leaves)
           f == [i \in 1 .. n |-> leaves[i].slot]
           S == SlotsOf(leaves)
<1>1. n \in Nat \ {0} /\ DOMAIN leaves = 1 .. n /\ \A i \in 1 .. n : leaves[i] \in Receipts
  BY EmptySeq, LenProperties, ElementOfSeq
<1>2. \A i \in 1 .. n : f[i] \in Nat /\ f[i] = leaves[i].slot
  BY <1>1, FlusherAssumption
<1>3. /\ \E i \in 1 .. n : \A j \in 1 .. n : f[i] >= f[j]
      /\ \E i \in 1 .. n : \A j \in 1 .. n : f[i] <= f[j]
  <2> HIDE DEF n, f
  <2>1. QED
    BY <1>1, <1>2, SomeIsExtreme
<1>4. \A s : s \in S <=> \E i \in 1 .. n : s = f[i]
  BY <1>1, <1>2 DEF SlotsOf
<1> HIDE DEF n, f, S
<1>5. (\E x \in S : \A y \in S : x >= y) /\ (\E x \in S : \A y \in S : x =< y)
  <2>1. PICK i \in 1 .. n : \A j \in 1 .. n : f[i] >= f[j]
    BY <1>3
  <2>2. PICK k \in 1 .. n : \A j \in 1 .. n : f[k] <= f[j]
    BY <1>3
  <2>3. f[i] \in S /\ f[k] \in S
    BY <1>4
  <2>4. \A y \in S : f[i] >= y /\ f[k] =< y
    BY <1>4, <2>1, <2>2
  <2>5. QED
    BY <2>3, <2>4
<1>6. Max(S) \in S /\ (\A y \in S : Max(S) >= y) /\ Min(S) \in S /\ (\A y \in S : Min(S) =< y)
  BY <1>5 DEF Max, Min
<1>7. S \subseteq Nat
  BY <1>2, <1>4
<1>8. \A s \in S : Min(S) <= s /\ s <= Max(S)
  BY <1>6, <1>7
<1>9. /\ Batch(leaves).leaves = leaves /\ Batch(leaves).low = Min(S) /\ Batch(leaves).high = Max(S)
      /\ Batch(leaves) = [leaves |-> leaves, low |-> Min(S), high |-> Max(S)]
  BY DEF Batch, S
<1>10. Covers(Batch(leaves))
  BY <1>6, <1>8, <1>9 DEF Covers, S
<1>11. QED
  BY <1>6, <1>7, <1>9, <1>10 DEF Batches

\* Moving an element along a line of sequences.
LEMMA LongerLine ==
  ASSUME NEW S, NEW a \in Seq(S), NEW b \in Seq(S), NEW x \in S
  PROVE  a \o Append(b, x) = Append(a \o b, x) /\ Append(a, x) = a \o <<x>>
<1>1. <<x>> \in Seq(S) /\ Append(b, x) = b \o <<x>> /\ Append(a, x) = a \o <<x>>
  BY AppendIsConcat
<1>2. a \o b \in Seq(S)
  BY ConcatProperties
<1>3. Append(a \o b, x) = (a \o b) \o <<x>>
  BY <1>2, AppendIsConcat
<1>4. a \o (b \o <<x>>) = (a \o b) \o <<x>>
  BY <1>1, ConcatAssociative
<1>5. QED
  BY <1>1, <1>3, <1>4

LEMMA FirstMovesUp ==
  ASSUME NEW S, NEW a \in Seq(S), NEW b \in Seq(S), b # <<>>
  PROVE  Append(a, Head(b)) \o Tail(b) = a \o b
<1>1. /\ Head(b) \in S /\ Tail(b) \in Seq(S) /\ <<Head(b)>> \in Seq(S)
      /\ Append(a, Head(b)) = a \o <<Head(b)>>
  BY HeadTailProperties, AppendIsConcat
<1>2. <<Head(b)>> \o Tail(b) = b
  <2>1. <<Head(b)>> \o Tail(b) \in Seq(S) /\ Len(<<Head(b)>> \o Tail(b)) = Len(b)
        /\ Len(b) \in Nat
    BY <1>1, HeadTailProperties, ConcatProperties, LenProperties
  <2>2. \A i \in 1 .. Len(b) : (<<Head(b)>> \o Tail(b))[i] = b[i]
    BY <1>1, HeadTailProperties
  <2>3. QED
    BY <2>1, <2>2, SeqEqual
<1>3. QED
  BY <1>1, <1>2, ConcatAssociative

-----------------------------------------------------------------------------
(* The flusher *)

FlusherTyped ==
  /\ inbox \in Seq(Receipts) /\ Len(inbox) <= ReceiptBuffer /\ enqueued \in Seq(Receipts)
  /\ pending \in Seq(Receipts)
  /\ Len(pending) < FlushEveryNLeaves /\ Len(pending) < MaxPendingLeaves
  /\ lastFlush \in {<<>>} \cup {<<s>> : s \in Nat}
  /\ highest \in Nat /\ task \in {"recv", "publish", "done"}
  /\ open \in BOOLEAN /\ listening \in BOOLEAN
  /\ batches \in Seq(Batches) /\ anchored \in Seq(Batches)
  /\ outbox \in Seq(Batches) /\ Len(outbox) <= AnchorBuffer
  /\ task = "publish" => batches # <<>>

LEMMA FlushKeepsTypes ==
  ASSUME FlusherTyped, NEW leaves \in Seq(Receipts), leaves # <<>>, Flush(leaves)
  PROVE  /\ Batch(leaves) \in Batches /\ batches' = Append(batches, Batch(leaves))
         /\ batches' \in Seq(Batches) /\ batches' # <<>> /\ task' = "publish"
         /\ lastFlush' \in {<<>>} \cup {<<s>> : s \in Nat}
         /\ pending' = <<>> /\ pending' \in Seq(Receipts)
         /\ Len(pending') < FlushEveryNLeaves /\ Len(pending') < MaxPendingLeaves
<1>1. Batch(leaves) \in Batches
  BY BatchIsABatch
<1>2. batches' = Append(batches, Batch(leaves)) /\ batches \in Seq(Batches)
      /\ pending' = <<>> /\ lastFlush' = <<Batch(leaves).high>> /\ task' = "publish"
  BY DEF Flush, FlusherTyped
<1>3. batches' \in Seq(Batches) /\ batches' # <<>>
  BY <1>1, <1>2, AppendProperties
<1>4. Batch(leaves).high \in Nat
  BY <1>1 DEF Batches
<1>5. pending' \in Seq(Receipts) /\ Len(pending') = 0
  BY <1>2, EmptySeq
<1>6. FlushEveryNLeaves \in Nat \ {0} /\ MaxPendingLeaves \in Nat \ {0}
  BY FlusherAssumption
<1>7. QED
  BY <1>1, <1>2, <1>3, <1>4, <1>5, <1>6

\* The task takes the first receipt of the channel.
LEMMA Taking ==
  ASSUME FlusherTyped, inbox # <<>>
  PROVE  /\ Head(inbox) \in Receipts /\ Head(inbox).slot \in Nat
         /\ Append(pending, Head(inbox)) \in Seq(Receipts) /\ Append(pending, Head(inbox)) # <<>>
         /\ Tail(inbox) \in Seq(Receipts) /\ Len(Tail(inbox)) <= ReceiptBuffer
<1>1. inbox \in Seq(Receipts) /\ pending \in Seq(Receipts) /\ Len(inbox) <= ReceiptBuffer
  BY DEF FlusherTyped
<1>2. Head(inbox) \in Receipts /\ Tail(inbox) \in Seq(Receipts) /\ Len(Tail(inbox)) = Len(inbox) - 1
  BY <1>1, HeadTailProperties
<1>3. Append(pending, Head(inbox)) \in Seq(Receipts) /\ Append(pending, Head(inbox)) # <<>>
  BY <1>1, <1>2, AppendProperties
<1>4. Len(inbox) \in Nat /\ ReceiptBuffer \in Nat
  BY <1>1, LenProperties, FlusherAssumption
<1>5. QED
  BY <1>1, <1>2, <1>3, <1>4, FlusherAssumption

LEMMA ProcessKeepsTypes ==
  ASSUME FlusherTyped, Process
  PROVE  FlusherTyped'
<1> DEFINE r == Head(inbox)
           leaves == Append(pending, r)
<1>1. /\ r \in Receipts /\ r.slot \in Nat /\ leaves \in Seq(Receipts) /\ leaves # <<>>
      /\ Tail(inbox) \in Seq(Receipts) /\ Len(Tail(inbox)) <= ReceiptBuffer
  BY Taking DEF Process
<1>2. highest' \in Nat
  BY <1>1 DEF Process, Larger, FlusherTyped
<1>3. inbox' = Tail(inbox) /\ UNCHANGED <<open, outbox, listening, enqueued, anchored>>
  BY DEF Process
<1>4. CASE Flush(leaves)
  <2> HIDE DEF leaves
  <2>1. /\ batches' \in Seq(Batches) /\ batches' # <<>> /\ task' = "publish"
        /\ lastFlush' \in {<<>>} \cup {<<s>> : s \in Nat} /\ pending' \in Seq(Receipts)
        /\ Len(pending') < FlushEveryNLeaves /\ Len(pending') < MaxPendingLeaves
    BY <1>1, <1>4, FlushKeepsTypes
  <2>2. QED
    BY <1>1, <1>2, <1>3, <2>1 DEF FlusherTyped
<1>5. CASE ~DueByLeaves(leaves) /\ ~Due(leaves, r.slot) /\ ~Flush(leaves)
  <2>1. /\ pending' = leaves /\ UNCHANGED <<batches, task>>
        /\ lastFlush' = IF lastFlush = <<>> THEN <<r.slot>> ELSE lastFlush
    BY <1>5 DEF Process
  <2>2. Len(leaves) \in Nat /\ FlushEveryNLeaves \in Nat /\ MaxPendingLeaves \in Nat
    BY <1>1, LenProperties, FlusherAssumption
  <2>3. ~(Len(leaves) >= FlushEveryNLeaves) /\ ~(Len(leaves) >= MaxPendingLeaves)
    BY <1>5 DEF DueByLeaves, Due
  <2>4. Len(leaves) < FlushEveryNLeaves /\ Len(leaves) < MaxPendingLeaves
    BY <2>2, <2>3
  <2>5. lastFlush' \in {<<>>} \cup {<<s>> : s \in Nat}
    BY <1>1, <2>1 DEF FlusherTyped
  <2> HIDE DEF leaves
  <2>6. QED
    BY <1>1, <1>2, <1>3, <2>1, <2>4, <2>5 DEF FlusherTyped
<1>6. QED
  BY <1>4, <1>5 DEF Process

\* The other steps of the flusher's variables.
LEMMA OthersKeepTypes ==
  ASSUME FlusherTyped
  PROVE  /\ Publish => FlusherTyped'
         /\ Finish => FlusherTyped'
         /\ TakeAnchor => FlusherTyped'
         /\ StopListening => FlusherTyped'
         /\ CloseProducers => FlusherTyped'
         /\ \A r \in Receipts : Enqueue(r) => FlusherTyped'
<1>1. ASSUME Publish PROVE FlusherTyped'
  <2>1. CASE listening
    <3>1. batches[Len(batches)] \in Batches
      <4>1. batches \in Seq(Batches) /\ batches # <<>>
        BY <1>1 DEF Publish, FlusherTyped
      <4>2. Len(batches) \in 1 .. Len(batches)
        BY <4>1, EmptySeq
      <4>3. QED
        BY <4>1, <4>2, ElementOfSeq
    <3>2. /\ Append(outbox, batches[Len(batches)]) \in Seq(Batches)
          /\ Len(Append(outbox, batches[Len(batches)])) = Len(outbox) + 1
      BY <3>1, AppendProperties DEF FlusherTyped
    <3>3. outbox' \in Seq(Batches) /\ Len(outbox') <= AnchorBuffer
      <4>1. Len(outbox) \in Nat /\ AnchorBuffer \in Nat /\ Len(outbox) < AnchorBuffer
        BY <1>1, <2>1, LenProperties, FlusherAssumption DEF Publish, FlusherTyped
      <4>2. QED
        BY <1>1, <2>1, <3>2, <4>1 DEF Publish
    <3>4. QED
      BY <1>1, <3>3 DEF Publish, FlusherTyped
  <2>2. CASE ~listening
    BY <1>1, <2>2 DEF Publish, FlusherTyped
  <2>3. QED
    BY <2>1, <2>2
<1>2. ASSUME Finish PROVE FlusherTyped'
  <2>1. CASE pending # <<>>
    <3>1. Flush(pending) /\ pending \in Seq(Receipts)
      BY <1>2, <2>1 DEF Finish, FinalFlush, FlusherTyped
    <3>2. /\ batches' \in Seq(Batches) /\ batches' # <<>> /\ task' = "publish"
          /\ lastFlush' \in {<<>>} \cup {<<s>> : s \in Nat} /\ pending' \in Seq(Receipts)
          /\ Len(pending') < FlushEveryNLeaves /\ Len(pending') < MaxPendingLeaves
      BY <2>1, <3>1, FlushKeepsTypes
    <3>3. QED
      BY <1>2, <3>2 DEF Finish, FlusherTyped
  <2>2. CASE pending = <<>>
    BY <1>2, <2>2 DEF Finish, FinalFlush, FlusherTyped
  <2>3. QED
    BY <2>1, <2>2
<1>3. ASSUME TakeAnchor PROVE FlusherTyped'
  <2>1. outbox \in Seq(Batches) /\ anchored \in Seq(Batches) /\ outbox # <<>>
        /\ Len(outbox) <= AnchorBuffer
    BY <1>3 DEF TakeAnchor, FlusherTyped
  <2>2. Head(outbox) \in Batches /\ Tail(outbox) \in Seq(Batches)
        /\ Len(Tail(outbox)) = Len(outbox) - 1
    BY <2>1, HeadTailProperties
  <2>3. Append(anchored, Head(outbox)) \in Seq(Batches)
    BY <2>1, <2>2, AppendProperties
  <2>4. Len(Tail(outbox)) <= AnchorBuffer
    <3>1. Len(outbox) \in Nat /\ AnchorBuffer \in Nat
      BY <2>1, LenProperties, FlusherAssumption
    <3>2. QED
      BY <2>1, <2>2, <3>1
  <2>5. QED
    BY <1>3, <2>2, <2>3, <2>4 DEF TakeAnchor, FlusherTyped
<1>4. ASSUME StopListening PROVE FlusherTyped'
  <2>1. outbox' \in Seq(Batches) /\ Len(outbox') <= AnchorBuffer
    <3>1. outbox' = <<>> /\ AnchorBuffer \in Nat
      BY <1>4, FlusherAssumption DEF StopListening
    <3>2. QED
      BY <3>1, EmptySeq
  <2>2. QED
    BY <1>4, <2>1 DEF StopListening, FlusherTyped
<1>5. ASSUME CloseProducers PROVE FlusherTyped'
  BY <1>5 DEF CloseProducers, FlusherTyped
<1>6. ASSUME NEW r \in Receipts, Enqueue(r) PROVE FlusherTyped'
  <2>1. inbox \in Seq(Receipts) /\ enqueued \in Seq(Receipts) /\ Len(inbox) < ReceiptBuffer
    BY <1>6 DEF Enqueue, FlusherTyped
  <2>2. /\ Append(inbox, r) \in Seq(Receipts) /\ Len(Append(inbox, r)) = Len(inbox) + 1
        /\ Append(enqueued, r) \in Seq(Receipts)
    BY <2>1, AppendProperties
  <2>3. Len(Append(inbox, r)) <= ReceiptBuffer
    <3>1. Len(inbox) \in Nat /\ ReceiptBuffer \in Nat
      BY <2>1, LenProperties, FlusherAssumption
    <3>2. QED
      BY <2>1, <2>2, <3>1
  <2>4. QED
    BY <1>6, <2>2, <2>3 DEF Enqueue, FlusherTyped
<1>7. QED
  BY <1>1, <1>2, <1>3, <1>4, <1>5, <1>6

\* What a step does to the flusher's variables.
LEMMA FlusherSteps ==
  ASSUME GateTyped, [Next]_vars
  PROVE  \/ Process \/ Publish \/ Finish \/ TakeAnchor \/ StopListening \/ CloseProducers
         \/ \E r \in Receipts : Enqueue(r)
         \/ UNCHANGED flusherVars
<1>1. ASSUME NEW w \in Writers, HandOver(w) PROVE \E r \in Receipts : Enqueue(r)
  <2>1. writer[w].row \in Rows /\ Enqueue(writer[w].row)
    BY <1>1 DEF HandOver, At, GateTyped, Idle
  <2>2. QED
    BY <2>1, ArchiveAssumption
<1>2. QED
  BY <1>1 DEF Next, Gate, ShutDown, Flusher, vars

\* The rest of the gate's types.
Counted == submitted \subseteq Rows /\ calls \in 0 .. MaxCalls

LEMMA CountedHolds ==
  ASSUME GateTyped, Counted, [Next]_vars
  PROVE  Counted'
<1>1. calls \in Nat /\ MaxCalls \in Nat
  BY GateAssumption DEF Counted
<1>2. ASSUME NEW w \in Writers, NEW r \in Rows, Call(w, r) PROVE Counted'
  BY <1>1, <1>2 DEF Call, Counted
<1>3. ASSUME NEW w \in Writers, Submit(w) PROVE Counted'
  <2>1. writer[w].row \in Rows
    BY <1>3 DEF Submit, At, GateTyped, Idle
  <2>2. QED
    BY <1>3, <2>1 DEF Submit, Counted
<1>4. CASE UNCHANGED <<submitted, calls>>
  BY <1>4 DEF Counted
<1>5. QED
  BY <1>2, <1>3, <1>4
     DEF Next, Gate, Insert, InsertFails, HandOver, ShutDown, Flusher, gateVars, vars

Typed == IInv /\ Counted /\ FlusherTyped

LEMMA TypedHolds == Spec => []Typed
<1>1. Init => Typed
  <2> SUFFICES ASSUME Init PROVE Counted /\ FlusherTyped
    BY InitIInv DEF Typed
  <2>1. \A S : <<>> \in Seq(S) /\ Len(<<>>) = 0
    BY EmptySeq
  <2>2. QED
    BY <2>1, GateAssumption, FlusherAssumption
       DEF Init, GateInit, FlusherInit, Counted, FlusherTyped
<1>2. Typed /\ [Next]_vars => Typed'
  <2> SUFFICES ASSUME Typed, [Next]_vars PROVE FlusherTyped'
    BY NextKeepsIInv, CountedHolds DEF Typed, IInv
  <2>1. CASE UNCHANGED flusherVars
    BY <2>1 DEF flusherVars, Typed, FlusherTyped
  <2>2. QED
    BY <2>1, FlusherSteps, ProcessKeepsTypes, OthersKeepTypes DEF Typed, IInv
<1>3. QED
  BY <1>1, <1>2, PTL DEF Spec

\* No interleaving of writers, flusher and anchor receiver fills a channel or
\* the batch being built beyond its bound (flusher.rs:60-86, bubblegum.rs).
THEOREM BuffersStayBounded == Spec => []TypeOK
<1>1. Typed => TypeOK
  <2> SUFFICES ASSUME Typed PROVE TypeOK
    OBVIOUS
  <2>1. \A w \in Writers : writer[w] = Idle \/ writer[w].row \in Rows
    BY DEF Typed, IInv, GateTyped
  <2>2. \A k \in DOMAIN warehouse : warehouse[k] \in Rows /\ Key(warehouse[k]) = k
    BY DEF Typed, IInv, GateTyped
  <2>3. QED
    BY <2>1, <2>2 DEF Typed, Counted, FlusherTyped, TypeOK
<1>2. QED
  BY <1>1, TypedHolds, PTL

\* SlotThresholdKept alone is not inductive: after the send the task waits
\* again, and only because a flush leaves nothing pending is nothing overdue.
InTime == SlotThresholdKept /\ (task = "publish" => pending = <<>>)

\* While a leaf is pending and the task waits, it is less than the threshold of
\* slots past its last flush, for every pair of thresholds (flusher.rs:92-111).
THEOREM SlotsStayBelowThreshold == Spec => []SlotThresholdKept
<1>1. Init => InTime
  BY DEF Init, FlusherInit, SlotThresholdKept, InTime
<1>2. Typed /\ InTime /\ [Next]_vars => InTime'
  <2> SUFFICES ASSUME Typed, InTime, [Next]_vars PROVE InTime'
    OBVIOUS
  <2>1. FlusherTyped /\ GateTyped
    BY DEF Typed, IInv
  <2>2. CASE Process
    <3> DEFINE r == Head(inbox)
               leaves == Append(pending, r)
    <3>1. CASE Flush(leaves)
      BY <3>1 DEF Flush, InTime, SlotThresholdKept
    <3>2. CASE ~Due(leaves, r.slot) /\ ~Flush(leaves)
      <4>1. r.slot \in Nat /\ highest' \in Nat /\ FlushEveryNSlots \in Nat
        BY <2>1, <2>2, Taking, FlusherAssumption DEF Process, Larger, FlusherTyped
      <4>2. ~(Since(r.slot) >= FlushEveryNSlots)
        BY <3>2 DEF Due
      <4>3. lastFlush' = IF lastFlush = <<>> THEN <<r.slot>> ELSE lastFlush
        BY <2>2, <3>2 DEF Process
      <4>4. Since(r.slot) = highest' - lastFlush'[1] /\ lastFlush'[1] \in Nat
        BY <2>1, <4>1, <4>3 DEF FlusherTyped, Since
      <4>5. \A h, l \in Nat : ~(h - l >= FlushEveryNSlots) => h - l < FlushEveryNSlots
        BY <4>1
      <4>6. highest' - lastFlush'[1] < FlushEveryNSlots
        BY <4>1, <4>2, <4>4, <4>5
      <4>7. task' = "recv"
        BY <2>2, <3>2 DEF Process
      <4>8. QED
        BY <4>6, <4>7 DEF InTime, SlotThresholdKept
    <3>3. QED
      BY <2>2, <3>1, <3>2 DEF Process
  <2>3. CASE Publish
    <3>1. pending' = <<>> /\ task' = "recv"
      BY <2>3 DEF Publish, InTime
    <3>2. QED
      BY <3>1 DEF InTime, SlotThresholdKept
  <2>4. CASE Finish
    BY <2>4 DEF Finish, FinalFlush, Flush, InTime, SlotThresholdKept
  <2>5. CASE UNCHANGED <<task, pending, highest, lastFlush>>
    BY <2>5 DEF InTime, SlotThresholdKept
  <2>6. QED
    BY <2>1, <2>2, <2>3, <2>4, <2>5, FlusherSteps
       DEF TakeAnchor, StopListening, CloseProducers, Enqueue, flusherVars
<1>3. InTime => SlotThresholdKept
  BY DEF InTime
<1>4. QED
  BY <1>1, <1>2, <1>3, TypedHolds, PTL DEF Spec

-----------------------------------------------------------------------------
(* The line of anchors *)

Sending == IF task = "publish" THEN <<batches[Len(batches)]>> ELSE <<>>
InLine == listening => batches = anchored \o outbox \o Sending

\* A flush puts one batch at the end, which is then the one about to be sent.
LEMMA FlushJoinsLine ==
  ASSUME FlusherTyped, InLine, task = "recv", NEW leaves \in Seq(Receipts), leaves # <<>>,
         Flush(leaves), UNCHANGED <<anchored, outbox, listening>>
  PROVE  InLine'
<1> SUFFICES ASSUME listening PROVE batches' = anchored \o outbox \o Sending'
  BY DEF InLine
<1>1. /\ Batch(leaves) \in Batches /\ batches' = Append(batches, Batch(leaves))
      /\ task' = "publish"
  BY FlushKeepsTypes
<1>2. batches \in Seq(Batches) /\ anchored \in Seq(Batches) /\ outbox \in Seq(Batches)
  BY DEF FlusherTyped
<1>3. anchored \o outbox \in Seq(Batches) /\ batches = anchored \o outbox
  <2>1. anchored \o outbox \in Seq(Batches)
    BY <1>2, ConcatProperties
  <2>2. Sending = <<>>
    BY DEF Sending
  <2>3. QED
    BY <2>1, <2>2, ConcatEmptySeq DEF InLine
<1>4. Len(batches') = Len(batches) + 1 /\ batches'[Len(batches) + 1] = Batch(leaves)
  BY <1>1, <1>2, AppendProperties
<1>5. Sending' = <<Batch(leaves)>>
  BY <1>1, <1>4 DEF Sending
<1>6. Append(batches, Batch(leaves)) = batches \o <<Batch(leaves)>>
  BY <1>1, <1>2, LongerLine
<1>7. QED
  BY <1>1, <1>3, <1>5, <1>6

LEMMA InLineHolds ==
  ASSUME Typed, InLine, [Next]_vars
  PROVE  InLine'
<1>1. FlusherTyped /\ GateTyped
  BY DEF Typed, IInv
<1>2. batches \in Seq(Batches) /\ anchored \in Seq(Batches) /\ outbox \in Seq(Batches)
  BY <1>1 DEF FlusherTyped
<1>3. anchored \o outbox \in Seq(Batches)
  BY <1>2, ConcatProperties
<1>4. CASE Process
  <2> DEFINE leaves == Append(pending, Head(inbox))
  <2>1. leaves \in Seq(Receipts) /\ leaves # <<>>
    BY <1>1, <1>4, Taking DEF Process
  <2>2. task = "recv" /\ UNCHANGED <<anchored, outbox, listening>>
    BY <1>4 DEF Process
  <2>3. CASE Flush(leaves)
    <3> HIDE DEF leaves
    <3>1. QED
      BY <1>1, <2>1, <2>2, <2>3, FlushJoinsLine
  <2>4. CASE ~Flush(leaves)
    BY <1>4, <2>4 DEF Process, InLine, Sending
  <2>5. QED
    BY <2>3, <2>4
<1>5. CASE Publish
  <2> SUFFICES ASSUME listening' PROVE batches' = anchored' \o outbox' \o Sending'
    BY DEF InLine
  <2> DEFINE b == batches[Len(batches)]
  <2>1. /\ listening /\ outbox' = Append(outbox, b) /\ Sending = <<b>> /\ Sending' = <<>>
        /\ batches' = batches /\ anchored' = anchored
    BY <1>5 DEF Publish, Sending
  <2>2. b \in Batches
    <3>1. batches # <<>>
      BY <1>1, <1>5 DEF Publish, FlusherTyped
    <3>2. Len(batches) \in 1 .. Len(batches)
      BY <1>2, <3>1, EmptySeq
    <3>3. QED
      BY <1>2, <3>2, ElementOfSeq
  <2> HIDE DEF b
  <2>3. anchored \o Append(outbox, b) = Append(anchored \o outbox, b)
    BY <1>2, <2>2, LongerLine
  <2>4. Append(anchored \o outbox, b) = (anchored \o outbox) \o <<b>>
        /\ Append(anchored \o outbox, b) \in Seq(Batches)
    BY <1>3, <2>2, LongerLine, AppendProperties
  <2>5. batches = (anchored \o outbox) \o <<b>>
    BY <2>1 DEF InLine
  <2>6. Append(anchored \o outbox, b) \o <<>> = Append(anchored \o outbox, b)
    BY <2>4, ConcatEmptySeq
  <2>7. QED
    BY <2>1, <2>3, <2>4, <2>5, <2>6
<1>6. CASE Finish
  <2>1. task = "recv" /\ UNCHANGED <<anchored, outbox, listening>>
    BY <1>6 DEF Finish
  <2>2. CASE pending # <<>>
    <3>1. Flush(pending) /\ pending \in Seq(Receipts)
      BY <1>1, <1>6, <2>2 DEF Finish, FinalFlush, FlusherTyped
    <3>2. QED
      BY <1>1, <2>1, <2>2, <3>1, FlushJoinsLine
  <2>3. CASE pending = <<>>
    BY <1>6, <2>3 DEF Finish, FinalFlush, InLine, Sending
  <2>4. QED
    BY <2>2, <2>3
<1>7. CASE TakeAnchor
  <2>1. /\ listening /\ outbox # <<>> /\ outbox' = Tail(outbox)
        /\ anchored' = Append(anchored, Head(outbox)) /\ UNCHANGED <<batches, task, listening>>
    BY <1>7 DEF TakeAnchor
  <2>2. anchored' \o outbox' = anchored \o outbox
    BY <1>2, <2>1, FirstMovesUp
  <2>3. Sending' = Sending
    BY <2>1 DEF Sending
  <2>4. QED
    BY <2>1, <2>2, <2>3 DEF InLine
<1>8. CASE StopListening
  BY <1>8 DEF StopListening, InLine
<1>9. CASE UNCHANGED <<batches, anchored, outbox, listening, task>>
  BY <1>9 DEF InLine, Sending
<1>10. QED
  BY <1>1, <1>4, <1>5, <1>6, <1>7, <1>8, <1>9, FlusherSteps
     DEF CloseProducers, Enqueue, flusherVars

\* A batch's slots are the smallest and the largest of its leaves', and what
\* the anchor receiver has taken and will take are the batches in order, for
\* any receipts and any channel size (flusher.rs:113-143, bubblegum.rs).
THEOREM BatchesAreSentInOrder == Spec => []BatchesCoverLeaves
<1>1. Init => InLine
  <2> SUFFICES ASSUME Init PROVE InLine
    OBVIOUS
  <2>1. Sending = <<>> /\ batches = <<>> /\ anchored = <<>> /\ outbox = <<>>
    BY DEF Init, FlusherInit, Sending
  <2>2. <<>> \in Seq({}) /\ <<>> \o <<>> = <<>>
    BY EmptySeq, ConcatEmptySeq
  <2>3. QED
    BY <2>1, <2>2 DEF InLine
<1>2. Typed /\ InLine /\ [Next]_vars => InLine'
  BY InLineHolds
<1>3. Typed /\ InLine => BatchesCoverLeaves
  <2> SUFFICES ASSUME Typed, InLine PROVE BatchesCoverLeaves
    OBVIOUS
  <2>1. batches \in Seq(Batches)
    BY DEF Typed, FlusherTyped
  <2>2. \A i \in DOMAIN batches : batches[i] \in Batches
    BY <2>1, LenProperties, ElementOfSeq
  <2>3. \A i \in DOMAIN batches : Covers(batches[i])
    BY <2>2 DEF Batches
  <2>4. QED
    BY <2>3 DEF Covers, InLine, Sending, BatchesCoverLeaves
<1>4. QED
  BY <1>1, <1>2, <1>3, TypedHolds, PTL DEF Spec

-----------------------------------------------------------------------------
(* Flattening *)

\* FlattenSeq is the last entry of a table of the flattened prefixes.
IsFlat(f, ss, n) ==
  f = [i \in 1 .. n |-> IF i = 1 THEN ss[1] ELSE f[i - 1] \o ss[i]]

LEMMA FlatSteps ==
  ASSUME NEW f, NEW ss, NEW n \in Nat, IsFlat(f, ss, n), NEW i \in 1 .. n
  PROVE  f[i] = IF i = 1 THEN ss[1] ELSE f[i - 1] \o ss[i]
BY DEF IsFlat

LEMMA FlatExists ==
  ASSUME NEW ss, NEW n \in Nat
  PROVE  \E f : IsFlat(f, ss, n)
<1> DEFINE D == {k \in Nat : ~ \E f : IsFlat(f, ss, k)}
<1>1. SUFFICES ASSUME D # {} PROVE FALSE
  OBVIOUS
<1>2. PICK k \in D : \A m \in D : k <= m
  <2>1. D \in SUBSET Nat
    OBVIOUS
  <2> HIDE DEF D
  <2>2. QED
    BY <1>1, <2>1, SmallestNumber
<1>3. k # 0
  <2>1. IsFlat([i \in 1 .. 0 |-> 0], ss, 0)
    BY DEF IsFlat
  <2>2. QED
    BY <1>2, <2>1
<1>4. k - 1 \in Nat /\ k - 1 \notin D
  <2>1. k - 1 \in Nat /\ ~(k <= k - 1)
    BY <1>2, <1>3
  <2> HIDE DEF D
  <2>2. QED
    BY <1>2, <2>1
<1>5. PICK g : IsFlat(g, ss, k - 1)
  BY <1>4
<1> DEFINE h == [i \in 1 .. k |-> IF i = k THEN IF k = 1 THEN ss[1] ELSE g[k - 1] \o ss[k]
                                  ELSE g[i]]
<1>6. ASSUME NEW i \in 1 .. k
      PROVE  h[i] = IF i = 1 THEN ss[1] ELSE h[i - 1] \o ss[i]
  <2>1. CASE i = k
    <3>1. k # 1 => k - 1 \in 1 .. k /\ k - 1 # k
      BY <1>3
    <3>2. QED
      BY <2>1, <3>1
  <2>2. CASE i # k
    <3>1. i \in 1 .. k - 1
      BY <2>2
    <3>2. g[i] = IF i = 1 THEN ss[1] ELSE g[i - 1] \o ss[i]
      BY <1>4, <1>5, <3>1, FlatSteps
    <3>3. i # 1 => i - 1 \in 1 .. k /\ i - 1 # k
      BY <2>2
    <3>4. QED
      BY <2>2, <3>2, <3>3
  <2>3. QED
    BY <2>1, <2>2
<1>7. IsFlat(h, ss, k)
  <2>1. h = [i \in 1 .. k |-> h[i]]
    OBVIOUS
  <2> HIDE DEF h
  <2>2. QED
    BY <1>6, <2>1 DEF IsFlat
<1>8. QED
  BY <1>2, <1>7

\* Tables of sequences that agree so far agree so far.
LEMMA FlatsAgree ==
  ASSUME NEW ss, NEW tt, NEW n \in Nat, NEW m \in Nat, n <= m,
         \A i \in 1 .. n : ss[i] = tt[i],
         NEW f, IsFlat(f, ss, n), NEW g, IsFlat(g, tt, m)
  PROVE  \A i \in 1 .. n : f[i] = g[i]
<1> DEFINE D == {i \in 1 .. n : f[i] # g[i]}
<1>1. SUFFICES ASSUME D # {} PROVE FALSE
  OBVIOUS
<1>2. PICK k \in D : \A i \in D : k <= i
  <2>1. D \in SUBSET Nat
    OBVIOUS
  <2> HIDE DEF D
  <2>2. QED
    BY <1>1, <2>1, SmallestNumber
<1>3. k \in 1 .. n /\ k \in 1 .. m
  OBVIOUS
<1>4. /\ f[k] = IF k = 1 THEN ss[1] ELSE f[k - 1] \o ss[k]
      /\ g[k] = IF k = 1 THEN tt[1] ELSE g[k - 1] \o tt[k]
  BY <1>3, FlatSteps
<1>5. k # 1
  BY <1>2, <1>3, <1>4
<1>6. k - 1 \in 1 .. n /\ k - 1 \notin D
  <2>1. k - 1 \in 1 .. n /\ ~(k <= k - 1)
    BY <1>3, <1>5
  <2> HIDE DEF D
  <2>2. QED
    BY <1>2, <2>1
<1>7. QED
  BY <1>2, <1>3, <1>4, <1>5, <1>6

Agree(f, g, n) == \A i \in 1 .. n : f[i] = g[i]

LEMMA FlatsMeet ==
  ASSUME NEW ss, NEW tt, NEW n \in Nat \ {0}, NEW m \in Nat, n <= m, Agree(ss, tt, n),
         NEW f, IsFlat(f, ss, n), NEW g, IsFlat(g, tt, m)
  PROVE  f[n] = g[n]
<1>1. \A i \in 1 .. n : f[i] = g[i]
  BY FlatsAgree DEF Agree
<1>2. n \in 1 .. n
  OBVIOUS
<1>3. QED
  BY <1>1, <1>2

LEMMA FlatsAreTyped ==
  ASSUME NEW S, NEW ss \in Seq(Seq(S)), NEW f, IsFlat(f, ss, Len(ss))
  PROVE  \A i \in 1 .. Len(ss) : f[i] \in Seq(S)
<1> DEFINE n == Len(ss)
           D == {i \in 1 .. n : f[i] \notin Seq(S)}
<1>1. n \in Nat /\ \A i \in 1 .. n : ss[i] \in Seq(S)
  BY LenProperties, ElementOfSeq
<1> SUFFICES ASSUME D # {} PROVE FALSE
  OBVIOUS
<1> HIDE DEF n
<1>2. PICK k \in D : \A i \in D : k <= i
  <2>1. D \in SUBSET Nat
    BY <1>1
  <2> HIDE DEF D
  <2>2. QED
    BY <2>1, SmallestNumber
<1>3. k \in 1 .. n /\ f[k] = IF k = 1 THEN ss[1] ELSE f[k - 1] \o ss[k]
  BY <1>1, FlatSteps DEF n
<1>4. k # 1 /\ ss[k] \in Seq(S)
  BY <1>1, <1>2, <1>3
<1>5. k - 1 \in 1 .. n /\ k - 1 \notin D
  <2>1. k - 1 \in 1 .. n /\ ~(k <= k - 1)
    BY <1>1, <1>3, <1>4
  <2> HIDE DEF D
  <2>2. QED
    BY <1>2, <2>1
<1>6. f[k - 1] \in Seq(S)
  BY <1>5
<1>7. f[k - 1] \o ss[k] \in Seq(S)
  BY <1>4, <1>6, ConcatProperties
<1>8. QED
  BY <1>2, <1>3, <1>4, <1>7

LEMMA FlattenIsFlat ==
  ASSUME NEW ss, Len(ss) \in Nat, Len(ss) # 0
  PROVE  \E f : IsFlat(f, ss, Len(ss)) /\ FlattenSeq(ss) = f[Len(ss)]
<1> DEFINE g == CHOOSE f : IsFlat(f, ss, Len(ss))
<1>1. IsFlat(g, ss, Len(ss))
  BY FlatExists
<1>2. FlattenSeq(ss) = g[Len(ss)]
  BY DEF FlattenSeq, IsFlat
<1>3. QED
  BY <1>1, <1>2

LEMMA FlattenAppends ==
  ASSUME NEW S, NEW ss \in Seq(Seq(S)), NEW l \in Seq(S)
  PROVE  /\ FlattenSeq(ss) \in Seq(S)
         /\ FlattenSeq(Append(ss, l)) = FlattenSeq(ss) \o l
<1> DEFINE n  == Len(ss)
           tt == Append(ss, l)
<1>1. /\ n \in Nat /\ tt \in Seq(Seq(S)) /\ Len(tt) = n + 1
      /\ \A i \in 1 .. n : ss[i] = tt[i]
      /\ tt[n + 1] = l
  BY LenProperties, AppendProperties
<1> HIDE DEF tt
<1>2. PICK m \in Nat : m = n + 1 /\ m - 1 = n /\ m \in 1 .. m /\ n <= m /\ Len(tt) = m
  BY <1>1
<1>3. PICK g : IsFlat(g, tt, m) /\ FlattenSeq(tt) = g[m]
  BY <1>2, FlattenIsFlat
<1>4. g[m] = IF m = 1 THEN tt[1] ELSE g[m - 1] \o tt[m]
  BY <1>2, <1>3, FlatSteps
<1>5. CASE n = 0
  <2>1. FlattenSeq(ss) = ss /\ ss = <<>>
    BY <1>5, EmptySeq DEF FlattenSeq
  <2>2. FlattenSeq(tt) = l
    BY <1>1, <1>2, <1>3, <1>4, <1>5
  <2>3. <<>> \in Seq(S) /\ <<>> \o l = l
    BY EmptySeq, ConcatEmptySeq
  <2>4. QED
    BY <2>1, <2>2, <2>3 DEF tt
<1>6. CASE n # 0
  <2>1. PICK f : IsFlat(f, ss, n) /\ FlattenSeq(ss) = f[n]
    BY <1>1, <1>6, FlattenIsFlat
  <2>2. f[n] \in Seq(S)
    BY <1>1, <1>6, <2>1, FlatsAreTyped
  <2>3. f[n] = g[n]
    <3>1. n \in Nat \ {0} /\ m \in Nat /\ n <= m /\ Agree(ss, tt, n)
      BY <1>1, <1>2, <1>6 DEF Agree
    <3>2. IsFlat(f, ss, n) /\ IsFlat(g, tt, m)
      BY <1>3, <2>1
    <3> HIDE DEF n
    <3>3. QED
      BY ONLY <3>1, <3>2, FlatsMeet
  <2>4. g[m] = g[n] \o l
    BY <1>1, <1>2, <1>4, <1>6
  <2>5. QED
    BY <1>3, <2>1, <2>2, <2>3, <2>4 DEF tt
<1>7. QED
  BY <1>5, <1>6

-----------------------------------------------------------------------------
(* Receipts on their way into the batches *)

Leaves == [i \in DOMAIN batches |-> batches[i].leaves]
OnTheWay == LeavesOf(batches) \o (pending \o inbox) = enqueued

LEMMA LeavesAreTyped ==
  ASSUME FlusherTyped
  PROVE  Leaves \in Seq(Seq(Receipts)) /\ LeavesOf(batches) \in Seq(Receipts)
<1>1. batches \in Seq(Batches) /\ DOMAIN batches = 1 .. Len(batches) /\ Len(batches) \in Nat
  BY LenProperties DEF FlusherTyped
<1>2. \A i \in 1 .. Len(batches) : batches[i].leaves \in Seq(Receipts)
  BY <1>1, ElementOfSeq DEF Batches
<1>3. Leaves \in [1 .. Len(batches) -> Seq(Receipts)]
  BY <1>1, <1>2 DEF Leaves
<1>4. Leaves \in Seq(Seq(Receipts))
  BY <1>1, <1>3, SeqDef
<1>5. <<>> \in Seq(Receipts)
  BY EmptySeq
<1>6. FlattenSeq(Leaves) \in Seq(Receipts)
  BY <1>4, <1>5, FlattenAppends
<1>7. QED
  BY <1>4, <1>6 DEF LeavesOf, Leaves

LEMMA FlushAddsLeaves ==
  ASSUME FlusherTyped, NEW leaves \in Seq(Receipts), leaves # <<>>, Flush(leaves)
  PROVE  LeavesOf(batches)' = LeavesOf(batches) \o leaves /\ pending' = <<>>
<1>1. /\ Batch(leaves) \in Batches /\ batches' = Append(batches, Batch(leaves))
      /\ batches' \in Seq(Batches) /\ pending' = <<>>
  BY FlushKeepsTypes
<1>2. batches \in Seq(Batches) /\ Leaves \in Seq(Seq(Receipts)) /\ Batch(leaves).leaves = leaves
  BY LeavesAreTyped DEF FlusherTyped, Batch
<1>3. Leaves' = Append(Leaves, leaves)
  <2> DEFINE n == Len(batches)
  <2>1. /\ n \in Nat /\ DOMAIN batches = 1 .. n /\ DOMAIN batches' = 1 .. n + 1
        /\ \A i \in 1 .. n : batches'[i] = batches[i]
        /\ batches'[n + 1] = Batch(leaves)
    BY <1>1, <1>2, LenProperties, AppendProperties
  <2>2. Len(Leaves) = n /\ \A i \in 1 .. n : Leaves[i] = batches[i].leaves
    BY <1>2, <2>1, LenProperties DEF Leaves
  <2>3. /\ Append(Leaves, leaves) \in Seq(Seq(Receipts)) /\ Len(Append(Leaves, leaves)) = n + 1
        /\ \A i \in 1 .. n : Append(Leaves, leaves)[i] = Leaves[i]
        /\ Append(Leaves, leaves)[n + 1] = leaves
    BY <1>2, <2>2, AppendProperties
  <2>4. DOMAIN Append(Leaves, leaves) = 1 .. n + 1
        /\ Append(Leaves, leaves) = [i \in 1 .. n + 1 |-> Append(Leaves, leaves)[i]]
    BY <2>3, LenProperties
  <2>5. Leaves' = [i \in 1 .. n + 1 |-> batches'[i].leaves]
    BY <2>1 DEF Leaves
  <2> HIDE DEF n
  <2>6. \A i \in 1 .. n + 1 : batches'[i].leaves = Append(Leaves, leaves)[i]
    <3>1. ASSUME NEW i \in 1 .. n + 1
          PROVE  batches'[i].leaves = Append(Leaves, leaves)[i]
      <4>1. i \in 1 .. n \/ i = n + 1
        BY <2>1
      <4>2. QED
        BY <1>2, <2>1, <2>2, <2>3, <4>1
    <3>2. QED
      BY <3>1
  <2>7. QED
    BY <2>4, <2>5, <2>6
<1>4. FlattenSeq(Append(Leaves, leaves)) = FlattenSeq(Leaves) \o leaves
  BY <1>2, FlattenAppends
<1>5. LeavesOf(batches) = FlattenSeq(Leaves) /\ LeavesOf(batches)' = FlattenSeq(Leaves')
  BY DEF LeavesOf, Leaves
<1>6. QED
  BY <1>1, <1>3, <1>4, <1>5

LEMMA OnTheWayHolds ==
  ASSUME Typed, OnTheWay, [Next]_vars
  PROVE  OnTheWay'
<1>1. FlusherTyped /\ GateTyped
  BY DEF Typed, IInv
<1> DEFINE L == LeavesOf(batches)
<1>2. L \in Seq(Receipts) /\ pending \in Seq(Receipts) /\ inbox \in Seq(Receipts)
      /\ <<>> \in Seq(Receipts)
  BY <1>1, LeavesAreTyped, EmptySeq DEF FlusherTyped
<1>3. ASSUME UNCHANGED batches PROVE LeavesOf(batches)' = L
  BY <1>3 DEF LeavesOf
<1>4. ASSUME NEW a \in Seq(Receipts), pending' = <<>>, LeavesOf(batches)' = L \o a,
             a \o inbox' = pending \o inbox, inbox' \in Seq(Receipts), enqueued' = enqueued
      PROVE  OnTheWay'
  <2> HIDE DEF L
  <2>1. PICK q \in Seq(Receipts) : q = inbox'
    BY <1>4
  <2>2. <<>> \o q = q /\ (L \o a) \o q = L \o (a \o q)
    <3>1. q \in Seq(Receipts) /\ L \in Seq(Receipts) /\ a \in Seq(Receipts)
      BY <1>2, <1>4
    <3>2. <<>> \o q = q
      BY <3>1, ConcatEmptySeq
    <3>3. (L \o a) \o q = L \o (a \o q)
      BY ONLY <3>1, ConcatAssociative
    <3>4. QED
      BY <3>2, <3>3
  <2>3. L \o (pending \o inbox) = enqueued
    BY DEF OnTheWay, L
  <2>4. QED
    BY <1>4, <2>1, <2>2, <2>3 DEF OnTheWay
<1>5. CASE Process
  <2> DEFINE leaves == Append(pending, Head(inbox))
  <2>1. /\ leaves \in Seq(Receipts) /\ leaves # <<>> /\ inbox # <<>>
        /\ Tail(inbox) \in Seq(Receipts) /\ inbox' = Tail(inbox) /\ enqueued' = enqueued
    BY <1>1, <1>5, Taking DEF Process
  <2>2. leaves \o inbox' = pending \o inbox
    BY <1>2, <2>1, FirstMovesUp
  <2>3. CASE Flush(leaves)
    <3> HIDE DEF leaves, L
    <3>1. LeavesOf(batches)' = LeavesOf(batches) \o leaves /\ pending' = <<>>
      BY <1>1, <2>1, <2>3, FlushAddsLeaves
    <3>2. QED
      BY <1>4, <2>1, <2>2, <3>1 DEF L
  <2>4. CASE ~Flush(leaves)
    <3>1. pending' = leaves /\ UNCHANGED batches
      BY <1>5, <2>4 DEF Process
    <3> HIDE DEF leaves
    <3>2. QED
      BY <1>3, <2>1, <2>2, <3>1 DEF OnTheWay
  <2>5. QED
    BY <2>3, <2>4
<1>6. CASE Finish
  <2>1. inbox' = inbox /\ enqueued' = enqueued
    BY <1>6 DEF Finish
  <2>2. CASE pending # <<>>
    <3>1. Flush(pending)
      BY <1>6, <2>2 DEF Finish, FinalFlush
    <3>2. LeavesOf(batches)' = LeavesOf(batches) \o pending /\ pending' = <<>>
      BY <1>1, <1>2, <2>2, <3>1, FlushAddsLeaves
    <3>3. QED
      BY <1>2, <1>4, <2>1, <3>2
  <2>3. CASE pending = <<>>
    <3>1. UNCHANGED <<batches, pending>>
      BY <1>6, <2>3 DEF Finish, FinalFlush
    <3>2. QED
      BY <1>3, <2>1, <3>1 DEF OnTheWay
  <2>4. QED
    BY <2>2, <2>3
<1>7. ASSUME NEW r \in Receipts, Enqueue(r) PROVE OnTheWay'
  <2>1. inbox' = Append(inbox, r) /\ enqueued' = Append(enqueued, r)
        /\ UNCHANGED <<batches, pending>>
    BY <1>7 DEF Enqueue
  <2> HIDE DEF L
  <2>2. pending \o Append(inbox, r) = Append(pending \o inbox, r)
        /\ pending \o inbox \in Seq(Receipts)
    BY <1>2, LongerLine, ConcatProperties
  <2>3. L \o Append(pending \o inbox, r) = Append(L \o (pending \o inbox), r)
    BY <1>2, <2>2, LongerLine
  <2>4. L \o (pending \o inbox) = enqueued
    BY DEF OnTheWay, L
  <2>5. QED
    BY <1>3, <2>1, <2>2, <2>3, <2>4 DEF OnTheWay, L
<1>8. CASE UNCHANGED <<batches, pending, inbox, enqueued>>
  BY <1>3, <1>8 DEF OnTheWay
<1>9. QED
  BY <1>1, <1>5, <1>6, <1>7, <1>8, FlusherSteps
     DEF Publish, TakeAnchor, StopListening, CloseProducers, flusherVars

\* No receipt is lost, repeated or moved between the channel, the batch being
\* built and the batches sent, for any receipts, sizes and interleaving of
\* writers and flusher (flusher.rs:60-143).
THEOREM EveryReceiptInOneBatch == Spec => []EachLeafOnce
<1>1. Init => OnTheWay
  <2> SUFFICES ASSUME Init PROVE OnTheWay
    OBVIOUS
  <2>1. batches = <<>> /\ pending = <<>> /\ inbox = <<>> /\ enqueued = <<>>
    BY DEF Init, FlusherInit
  <2>2. LeavesOf(batches) = <<>>
    <3> DEFINE e == [i \in DOMAIN batches |-> batches[i].leaves]
    <3>1. e \in Seq({}) /\ Len(e) = 0 /\ e = <<>>
      BY <2>1
    <3> HIDE DEF e
    <3>2. FlattenSeq(e) = <<>>
      BY <3>1 DEF FlattenSeq
    <3>3. QED
      BY <3>2 DEF LeavesOf, e
  <2>3. <<>> \in Seq({}) /\ <<>> \o <<>> = <<>>
    BY EmptySeq, ConcatEmptySeq
  <2>4. QED
    BY <2>1, <2>2, <2>3 DEF OnTheWay
<1>2. Typed /\ OnTheWay /\ [Next]_vars => OnTheWay'
  BY OnTheWayHolds
<1>3. Typed /\ OnTheWay => EachLeafOnce
  <2> SUFFICES ASSUME Typed, OnTheWay PROVE EachLeafOnce
    OBVIOUS
  <2>1. LeavesOf(batches) \in Seq(Receipts) /\ pending \in Seq(Receipts) /\ inbox \in Seq(Receipts)
    BY LeavesAreTyped DEF Typed, FlusherTyped
  <2>2. (LeavesOf(batches) \o pending) \o inbox = LeavesOf(batches) \o (pending \o inbox)
    BY <2>1, ConcatAssociative
  <2>3. QED
    BY <2>2 DEF OnTheWay, EachLeafOnce
<1>4. QED
  BY <1>1, <1>2, <1>3, TypedHolds, PTL DEF Spec
=============================================================================
