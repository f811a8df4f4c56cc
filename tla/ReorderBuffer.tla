--------------------------- MODULE ReorderBuffer ----------------------------
(***************************************************************************)
(* The reorder buffer for the commitment channel (crates/atlas-bus:        *)
(* reorder.rs), which turns events that arrive out of order into a stream  *)
(* in sequence order.  The buffer orders by seq alone, so an event is its  *)
(* seq, and the heap is a bag of them.                                     *)
(***************************************************************************)
EXTENDS Integers, Sequences, FiniteSetsExt

CONSTANTS SeqNos, MaxWindow   \* ReorderConfig.max_window

ASSUME ReorderAssumption ==
  SeqNos \subseteq Nat /\ IsFiniteSet(SeqNos) /\ MaxWindow \in Nat \ {0}

VARIABLES
  heap,      \* seq -> number of copies in the heap
  next,      \* next_expected
  high,      \* high_watermark
  released   \* history: everything insert has returned, in order

reorderVars == <<heap, next, high, released>>

Copies(s) == IF s \in DOMAIN heap THEN heap[s] ELSE 0
Held      == {s \in SeqNos : Copies(s) > 0}
Entries   == UNION {{s} \X (1 .. Copies(s)) : s \in SeqNos}
Buffered  == Cardinality(Entries)

Behind(s) == s + MaxWindow <= next
Passed(s) == s < next
Raise(s)  == high' = IF s > high THEN s ELSE high

\* The drain loop looks at the smallest entry only: it takes from, from + 1,
\* ... while the smallest is the one expected.  A smaller entry, or a second
\* copy of the one just taken, stops it.
Drainable(from, to) ==
  \/ to = from
  \/ /\ \A s \in Held : s >= from
     /\ \A s \in from .. to - 1 : Copies(s) > 0
     /\ \A s \in from .. to - 2 : Copies(s) = 1
DrainNothing(from) == from
DrainPastGap(from) == Max({from} \cup {s + 1 : s \in Held})
Drain(from) == Max({to \in from .. from + Cardinality(SeqNos) : Drainable(from, to)})

\* The expected event: it and what follows it without a gap is released.
InsertExpected(s) ==
  /\ s = next
  /\ Raise(s)
  /\ next' = Drain(s + 1)
  /\ released' = released \o [i \in 1 .. next' - s |-> s + i - 1]
  /\ heap' = [h \in SeqNos |-> IF h \in s + 1 .. next' - 1 THEN heap[h] - 1 ELSE heap[h]]

\* A later event: held, unless the heap is full (OutOfWindow).
InsertLater(s) ==
  /\ s > next
  /\ Raise(s)
  /\ heap' = IF Buffered >= MaxWindow THEN heap ELSE [heap EXCEPT ![s] = @ + 1]
  /\ UNCHANGED <<next, released>>

\* Too far behind (OutOfWindow), or already released (dropped).
InsertEarlier(s) ==
  /\ Behind(s) \/ Passed(s)
  /\ UNCHANGED reorderVars

\* ReorderBuffer::insert
ReorderInsert(s) == InsertEarlier(s) \/ InsertExpected(s) \/ InsertLater(s)

ReorderInit ==
  /\ heap = [s \in SeqNos |-> 0]
  /\ next = 0 /\ high = 0
  /\ released = <<>>
=============================================================================
