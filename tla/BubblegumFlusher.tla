-------------------------- MODULE BubblegumFlusher --------------------------
(***************************************************************************)
(* The Bubblegum flusher task and its anchor keeper (crates/atlas-         *)
(* warehouse: flusher.rs, bubblegum.rs).                                   *)
(*                                                                         *)
(* The task receives receipts over a bounded channel, batches their leaves *)
(* and sends one anchor receipt per batch over another bounded channel; it *)
(* waits while that channel is full.  When all producer handles are gone it*)
(* flushes what is pending and ends.  A Merkle root is its leaves.         *)
(***************************************************************************)
EXTENDS Integers, Sequences, SequencesExt

CONSTANTS
  Receipts,            \* PendingReceipt: [slot, ...]
  FlushEveryNLeaves, FlushEveryNSlots, MaxPendingLeaves,   \* FlusherConfig
  ReceiptBuffer, AnchorBuffer                              \* channel sizes

ASSUME FlusherAssumption ==
  /\ \A r \in Receipts : r.slot \in Nat
  /\ {FlushEveryNLeaves, FlushEveryNSlots, MaxPendingLeaves, ReceiptBuffer, AnchorBuffer}
       \subseteq Nat \ {0}

VARIABLES
  inbox,      \* receipt channel
  open,       \* a producer handle exists
  pending,    \* keeper.pending: leaves of the batch being built
  batches,    \* keeper.batches: [leaves, low, high]
  lastFlush,  \* last_flush_slot: <<>> or <<slot>>
  highest,    \* highest_slot_seen
  task,       \* the task's state: "recv", "publish", "done"
  outbox,     \* anchor channel
  listening,  \* the anchor receiver exists
  enqueued,   \* history: receipts enqueued
  anchored    \* history: batches the anchor receiver has taken

flusherVars ==
  <<inbox, open, pending, batches, lastFlush, highest, task, outbox, listening,
    enqueued, anchored>>

Larger(a, b)  == IF a > b THEN a ELSE b
SlotsOf(s)    == {s[i].slot : i \in DOMAIN s}
Batch(leaves) == [leaves |-> leaves, low |-> Min(SlotsOf(leaves)), high |-> Max(SlotsOf(leaves))]

-----------------------------------------------------------------------------
(* Producers *)

\* FlusherHandle::enqueue waits for room in the channel.
Enqueue(r) ==
  /\ open
  /\ Len(inbox) < ReceiptBuffer
  /\ inbox' = Append(inbox, r)
  /\ enqueued' = Append(enqueued, r)
  /\ UNCHANGED <<open, pending, batches, lastFlush, highest, task, outbox, listening, anchored>>

\* The last producer handle is dropped.
CloseProducers ==
  /\ open
  /\ open' = FALSE
  /\ UNCHANGED <<inbox, pending, batches, lastFlush, highest, task, outbox, listening,
                 enqueued, anchored>>

-----------------------------------------------------------------------------
(* The task *)

\* BubblegumAnchorKeeper::flush, and publish_anchor up to the send.
FlushKeepingPending(leaves) ==
  /\ batches' = Append(batches, Batch(leaves))
  /\ pending' = leaves
  /\ lastFlush' = <<Batch(leaves).high>>
  /\ task' = "publish"
FlushLastSlot(leaves) ==
  /\ batches' = Append(batches, [Batch(leaves) EXCEPT !.high = leaves[Len(leaves)].slot])
  /\ pending' = <<>>
  /\ lastFlush' = <<leaves[Len(leaves)].slot>>
  /\ task' = "publish"
Flush(leaves) ==
  /\ batches' = Append(batches, Batch(leaves))
  /\ pending' = <<>>
  /\ lastFlush' = <<Batch(leaves).high>>
  /\ task' = "publish"

\* Slots are measured from the last flush, or from the first receipt seen.
Since(slot) == highest' - (IF lastFlush = <<>> THEN slot ELSE lastFlush[1])

DueByLeavesLate(leaves) == Len(leaves) > FlushEveryNLeaves
DueByLeaves(leaves) == Len(leaves) >= FlushEveryNLeaves
DueByLeavesOnly(leaves, slot) == Len(leaves) >= MaxPendingLeaves
Due(leaves, slot) ==
  \/ Since(slot) >= FlushEveryNSlots
  \/ Len(leaves) >= MaxPendingLeaves

\* BubblegumFlusher::process
Process ==
  LET r == Head(inbox)
      leaves == Append(pending, r)
  IN  /\ task = "recv" /\ inbox # <<>>
      /\ inbox' = Tail(inbox)
      /\ highest' = Larger(highest, r.slot)
      /\ \/ (DueByLeaves(leaves) \/ Due(leaves, r.slot)) /\ Flush(leaves)
         \/ /\ ~DueByLeaves(leaves) /\ ~Due(leaves, r.slot)
            /\ pending' = leaves
            /\ lastFlush' = IF lastFlush = <<>> THEN <<r.slot>> ELSE lastFlush
            /\ UNCHANGED <<batches, task>>
      /\ UNCHANGED <<open, outbox, listening, enqueued, anchored>>

\* Publish to a receiver that is still there after it has stopped receiving.
PublishToNobody ==
  /\ task = "publish"
  /\ Len(outbox) < AnchorBuffer
  /\ outbox' = Append(outbox, batches[Len(batches)])
  /\ task' = "recv"
  /\ UNCHANGED <<inbox, open, pending, batches, lastFlush, highest, listening,
                 enqueued, anchored>>

\* The send of publish_anchor: it waits for room, and is dropped when nobody
\* listens.  After the final flush the task ends.
Publish ==
  /\ task = "publish"
  /\ IF listening
     THEN /\ Len(outbox) < AnchorBuffer
          /\ outbox' = Append(outbox, batches[Len(batches)])
     ELSE UNCHANGED outbox
  /\ task' = "recv"
  /\ UNCHANGED <<inbox, open, pending, batches, lastFlush, highest, listening,
                 enqueued, anchored>>

\* The channel is closed and drained: the final flush, then the end.
FinalFlushSkipped ==
  pending # <<>> /\ task' = "done" /\ UNCHANGED <<pending, batches, lastFlush>>
FinalFlush == pending # <<>> /\ Flush(pending)
Finish ==
  /\ task = "recv" /\ ~open /\ inbox = <<>>
  /\ \/ FinalFlush
     \/ /\ pending = <<>> /\ task' = "done"
        /\ UNCHANGED <<pending, batches, lastFlush>>
  /\ UNCHANGED <<inbox, open, highest, outbox, listening, enqueued, anchored>>

-----------------------------------------------------------------------------
(* The anchor receiver (external: the keeper that commits on chain) *)

TakeAnchor ==
  /\ listening /\ outbox # <<>>
  /\ outbox' = Tail(outbox)
  /\ anchored' = Append(anchored, Head(outbox))
  /\ UNCHANGED <<inbox, open, pending, batches, lastFlush, highest, task, listening, enqueued>>

StopListening ==
  /\ listening
  /\ listening' = FALSE
  /\ outbox' = <<>>
  /\ UNCHANGED <<inbox, open, pending, batches, lastFlush, highest, task, enqueued, anchored>>

FlusherInit ==
  /\ inbox = <<>> /\ open = TRUE
  /\ pending = <<>> /\ batches = <<>>
  /\ lastFlush = <<>> /\ highest = 0
  /\ task = "recv"
  /\ outbox = <<>> /\ listening = TRUE
  /\ enqueued = <<>> /\ anchored = <<>>
=============================================================================
