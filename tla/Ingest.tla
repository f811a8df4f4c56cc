------------------------------- MODULE Ingest -------------------------------
(***************************************************************************)
(* The ingestion fabric: injector tasks, the bus, and the consumer that    *)
(* feeds the commitment channel through the reorder buffer.  The source    *)
(* holds no consumer loop; reorder.rs says what the buffer is for, and the *)
(* loop is modelled as one: receive, then insert.                          *)
(***************************************************************************)
EXTENDS AtlasBus, ReorderBuffer

\* Sequence numbers are those of the commitment-bound events.
ASSUME IngestAssumption == \A e \in Events : e.bound => e.seq \in SeqNos

Receive == \E e \in Events : ReceiveCommitment(e) /\ ReorderInsert(e.seq)

Init == BusInit /\ ReorderInit

Next ==
  \/ \E t \in Tasks, e \in Events : Call(t, e) /\ UNCHANGED reorderVars
  \/ \E t \in Tasks : Inject(t) /\ UNCHANGED reorderVars
  \/ Receive
  \/ \E e \in Events : ReceiveMonitoring(e) /\ UNCHANGED reorderVars

allVars == <<vars, reorderVars>>

\* A runtime task that is not waiting on anything is polled again.  Nothing is
\* assumed of the consumer, which may be slow or stop.
Fairness == \A t \in Tasks : WF_allVars(Inject(t) /\ UNCHANGED reorderVars)

Spec == Init /\ [][Next]_allVars /\ Fairness

-----------------------------------------------------------------------------
(* Properties *)

\* Every variable has its type, and every queue, ring and heap its bound.
TypeOK ==
  /\ \A t \in Tasks : call[t] = Idle \/ call[t].event \in Events
  /\ ring \in Seq(Events) /\ Len(ring) <= DedupWindow
  /\ commitment \in Seq(Events) /\ Len(commitment) <= CommitmentCapacity
  /\ monitoring \in Seq(Events) /\ Len(monitoring) <= MonitoringCapacity
  /\ latest \in Nat /\ counters \in [Counter -> Nat] /\ received \in Nat
  /\ heap \in [SeqNos -> Nat] /\ Buffered <= MaxWindow
  /\ next \in Nat /\ high \in Nat

\* The dedup ring (bus.rs:9): between two passes of one event at least
\* dedup_window others pass, whatever tasks inject and in whatever order.
DedupSpacing ==
  \A i, j \in DOMAIN fresh : i < j /\ fresh[i] = fresh[j] => j - i > DedupWindow

\* Every event that passed dedup is in a call, in a channel, received, or
\* counted by the counter of what refused it; and `published` lags what was
\* sent by the calls that have sent and not yet counted (bus.rs:194-212).
InCall(step) == Cardinality({t \in Tasks : call[t].at = step})
Sent == Len(commitment) + Len(monitoring) + received
NothingLostSilently ==
  /\ Len(fresh) = Sent + InCall("reorder") + InCall("send")
       + counters["reorder_dropped"] + counters["commitment_overflow"]
       + counters["monitoring_overflow"]
  /\ Sent = counters["published"] + InCall("count")

\* What the buffer has released is 0, 1, 2, ... with no gap and nothing
\* twice, and each of them had passed the bus (reorder.rs:83-133).
ReleasedInOrder ==
  /\ Len(released) = next
  /\ \A i \in DOMAIN released :
       released[i] = i - 1 /\ \E j \in DOMAIN fresh : fresh[j].seq = i - 1

\* As long as no sequence number passed the bus twice, the buffer never sits on
\* an event it could release: what it holds lies after a real gap.
AcceptedOnce ==
  \A i, j \in DOMAIN fresh :
    fresh[i].bound /\ fresh[j].bound /\ fresh[i].seq = fresh[j].seq => i = j
HoldsOnlyBehindGap == AcceptedOnce => \A s \in Held : s > next

\* bus.rs:22: "Maximum out-of-order events tolerated on the commitment channel",
\* which bus.rs:182-183 counts in slots: the channel carries nothing that is more
\* than max_reorder_window slots behind an event ahead of it.
ChannelWithinWindow ==
  \A i, j \in DOMAIN commitment :
    i < j => commitment[j].slot + MaxReorderWindow >= commitment[i].slot

\* A call of inject always returns, whatever the consumer does: a full channel
\* refuses and never makes a source wait.
InjectReturns == \A t \in Tasks : call[t] # Idle ~> call[t] = Idle
=============================================================================
