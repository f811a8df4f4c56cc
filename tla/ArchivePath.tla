---------------------------- MODULE ArchivePath -----------------------------
(***************************************************************************)
(* The archive path of a rebalance: the archive-before-submit gate, and    *)
(* the flusher to which a pipeline writer hands what it has submitted.     *)
(* The hand-over is external (flusher.rs:42 says who calls enqueue).       *)
(***************************************************************************)
EXTENDS ArchiveGate, BubblegumFlusher

\* The receipt of a rebalance is the row that was archived for it.
ASSUME ArchiveAssumption == Rows \subseteq Receipts

vars == <<gateVars, flusherVars>>

\* A writer whose bundle was submitted enqueues its receipt.
HandOver(w) ==
  /\ At(w, "enqueue")
  /\ Enqueue(writer[w].row)
  /\ writer' = [writer EXCEPT ![w] = Idle]
  /\ UNCHANGED <<warehouse, submitted, calls>>

\* The pipeline ends between calls and drops the handles.
ShutDown ==
  /\ \A w \in Writers : At(w, "idle")
  /\ CloseProducers
  /\ UNCHANGED gateVars

Gate(w) == (Insert(w) \/ Submit(w)) /\ UNCHANGED flusherVars
Flusher == (Process \/ Publish \/ Finish) /\ UNCHANGED gateVars

Init == GateInit /\ FlusherInit

Next ==
  \/ \E w \in Writers, r \in Rows : open /\ Call(w, r) /\ UNCHANGED flusherVars
  \/ \E w \in Writers : Gate(w) \/ HandOver(w)
  \/ \E w \in Writers : InsertFails(w) /\ UNCHANGED flusherVars
  \/ ShutDown
  \/ Flusher
  \/ TakeAnchor /\ UNCHANGED gateVars
  \/ StopListening /\ UNCHANGED gateVars

\* The runtime polls the flusher and the writers that can go on, the on-chain
\* keeper takes its anchors.  Nothing makes a pipeline shut down.
Fairness ==
  /\ WF_vars(Flusher)
  /\ WF_vars(TakeAnchor /\ UNCHANGED gateVars)
  /\ \A w \in Writers : WF_vars(Gate(w) \/ HandOver(w))

Spec == Init /\ [][Next]_vars /\ Fairness

-----------------------------------------------------------------------------
(* Properties *)

\* Every variable has its type, and every buffer its bound: the batch being
\* built never holds as many leaves as either threshold.
TypeOK ==
  /\ \A w \in Writers : writer[w] = Idle \/ writer[w].row \in Rows
  /\ \A k \in DOMAIN warehouse : warehouse[k] \in Rows /\ Key(warehouse[k]) = k
  /\ submitted \subseteq Rows /\ calls \in 0 .. MaxCalls
  /\ inbox \in Seq(Receipts) /\ Len(inbox) <= ReceiptBuffer
  /\ pending \in Seq(Receipts)
  /\ Len(pending) < FlushEveryNLeaves /\ Len(pending) < MaxPendingLeaves
  /\ Len(outbox) <= AnchorBuffer
  /\ highest \in Nat /\ {open, listening} \subseteq BOOLEAN

\* Invariant I-8 (write_path.rs:3): what was submitted is in the archive,
\* under its own vault and slot, and stays there; so no two rebalances with
\* different public inputs are ever submitted for one vault and slot.
SubmittedIsArchived ==
  /\ \A r \in submitted : Key(r) \in DOMAIN warehouse /\ warehouse[Key(r)].input = r.input
  /\ \A r, s \in submitted : Key(r) = Key(s) => r.input = s.input

\* No receipt is lost, duplicated or reordered on its way into the batches.
LeavesOf(bs) == FlattenSeq([i \in DOMAIN bs |-> bs[i].leaves])
EachLeafOnce == LeavesOf(batches) \o pending \o inbox = enqueued

\* Each batch covers its leaves: they lie between its slots, which are slots of
\* leaves; and as long as somebody listens, the anchors taken, waiting and
\* about to be sent are the batches, in order.
BatchesCoverLeaves ==
  /\ \A i \in DOMAIN batches :
       LET slots == SlotsOf(batches[i].leaves)
       IN  /\ {batches[i].low, batches[i].high} \subseteq slots
           /\ \A s \in slots : batches[i].low <= s /\ s <= batches[i].high
  /\ listening =>
       batches = anchored \o outbox
                   \o (IF task = "publish" THEN <<batches[Len(batches)]>> ELSE <<>>)

\* While the task waits for a receipt, the newest slot it has seen is less
\* than flush_every_n_slots past its last flush, whenever a leaf is pending.
SlotThresholdKept ==
  task = "recv" /\ pending # <<>> => highest - lastFlush[1] < FlushEveryNSlots

\* A writer that finds the receipt channel full does not wait on a task that
\* waits on the anchor channel (flusher.rs:147): the task always comes back for a
\* receipt, and the channel has room again.
FullChannelDrains ==
  Len(inbox) = ReceiptBuffer ~> Len(inbox) < ReceiptBuffer

\* Once the producers are gone, everything they enqueued ends up in a batch
\* and the task ends, even if the anchor receiver stops in between.
AllAnchoredAtEnd == ~open ~> task = "done" /\ LeavesOf(batches) = enqueued
=============================================================================
