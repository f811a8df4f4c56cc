------------------------------ MODULE AtlasBus ------------------------------
(***************************************************************************)
(* The in-process event bus (crates/atlas-bus: bus.rs).                    *)
(*                                                                         *)
(* Injector tasks call `inject` concurrently.  A call takes the dedup lock,*)
(* then, for a commitment-bound event, the reorder lock, then sends on a   *)
(* bounded channel with try_send, then counts: four steps between which    *)
(* other tasks run.  An event id is the hash of the whole event, modelled  *)
(* as the event itself.                                                    *)
(***************************************************************************)
EXTENDS Integers, Sequences, FiniteSets

CONSTANTS
  Tasks,               \* injector tasks
  Events,              \* [seq, slot, bound]: bound is is_commitment_bound
  CommitmentCapacity, MonitoringCapacity,
  DedupWindow, MaxReorderWindow,   \* BusConfig
  MaxCalls             \* bound: calls of inject

ASSUME BusAssumption ==
  /\ \A e \in Events : e.seq \in Nat /\ e.slot \in Nat /\ e.bound \in BOOLEAN
  /\ {CommitmentCapacity, MonitoringCapacity, DedupWindow} \subseteq Nat \ {0}
  /\ IsFiniteSet(Tasks) /\ MaxReorderWindow \in Nat /\ MaxCalls \in Nat

VARIABLES
  call,        \* task -> [at, event]: the call it is in, and where
  ring,        \* DedupRing.queue, oldest first
  latest,      \* ReorderState.latest_commitment_slot
  commitment,  \* commitment channel
  monitoring,  \* monitoring channel
  counters,    \* BusCounters and the overflow telemetry
  fresh,       \* history: every event the ring has taken, in order
  received     \* history: how many events the consumer has taken

vars == <<call, ring, latest, commitment, monitoring, counters, fresh, received>>

Idle == [at |-> "idle"]
Counter == {"published", "dedup_dropped", "reorder_dropped",
            "monitoring_overflow", "commitment_overflow"}

Calls == Cardinality({t \in Tasks : call[t] # Idle})
         + counters["published"] + counters["dedup_dropped"]
         + counters["reorder_dropped"] + counters["monitoring_overflow"]
         + counters["commitment_overflow"]

At(t, step)    == call[t].at = step
Goto(t, step)  == call' = [call EXCEPT ![t].at = step]
Return(t, c)   == /\ call' = [call EXCEPT ![t] = Idle]
                  /\ counters' = [counters EXCEPT ![c] = @ + 1]

Call(t, e) ==
  /\ At(t, "idle") /\ Calls < MaxCalls
  /\ call' = [call EXCEPT ![t] = [at |-> "dedup", event |-> e]]
  /\ UNCHANGED <<ring, latest, commitment, monitoring, counters, fresh, received>>

-----------------------------------------------------------------------------
(* The steps of inject *)

\* DedupRing::insert of a new id: at capacity the oldest makes room.
InsertUnbounded(e) == Append(ring, e)
InsertEvictingNewest(e) ==
  IF Len(ring) >= DedupWindow THEN Append(SubSeq(ring, 1, Len(ring) - 1), e) ELSE Append(ring, e)
Insert(e) == Append(IF Len(ring) >= DedupWindow THEN Tail(ring) ELSE ring, e)

Seen(e) == \E i \in DOMAIN ring : ring[i] = e

\* Under the dedup lock.
Dedup(t) ==
  LET e == call[t].event
  IN  /\ At(t, "dedup")
      /\ IF Seen(e)
         THEN Return(t, "dedup_dropped") /\ UNCHANGED <<ring, fresh>>
         ELSE /\ ring' = Insert(e)
              /\ fresh' = Append(fresh, e)
              /\ Goto(t, IF e.bound THEN "reorder" ELSE "send")
              /\ UNCHANGED counters
      /\ UNCHANGED <<latest, commitment, monitoring, received>>

\* Events too far behind the latest slot are refused.
TooOld(e) == latest > 0 /\ e.slot + MaxReorderWindow < latest

\* Under the reorder lock: the latest slot advances before anything is sent.
Reorder(t) ==
  LET e == call[t].event
  IN  /\ At(t, "reorder")
      /\ IF TooOld(e)
         THEN Return(t, "reorder_dropped") /\ UNCHANGED latest
         ELSE /\ latest' = IF e.slot > latest THEN e.slot ELSE latest
              /\ Goto(t, "send")
              /\ UNCHANGED counters
      /\ UNCHANGED <<ring, commitment, monitoring, fresh, received>>

\* A full channel refuses: the call does not wait for room.
OverflowWaits(t, c) == FALSE
OverflowUncounted(t, c) == call' = [call EXCEPT ![t] = Idle] /\ UNCHANGED counters
Overflow(t, c) == Return(t, c)

\* try_send
TrySend(t) ==
  LET e == call[t].event
  IN  /\ At(t, "send")
      /\ IF e.bound
         THEN /\ UNCHANGED monitoring
              /\ IF Len(commitment) < CommitmentCapacity
                 THEN /\ commitment' = Append(commitment, e)
                      /\ Goto(t, "count") /\ UNCHANGED counters
                 ELSE Overflow(t, "commitment_overflow") /\ UNCHANGED commitment
         ELSE /\ UNCHANGED commitment
              /\ IF Len(monitoring) < MonitoringCapacity
                 THEN /\ monitoring' = Append(monitoring, e)
                      /\ Goto(t, "count") /\ UNCHANGED counters
                 ELSE Overflow(t, "monitoring_overflow") /\ UNCHANGED monitoring
      /\ UNCHANGED <<ring, latest, fresh, received>>

Count(t) ==
  /\ At(t, "count")
  /\ Return(t, "published")
  /\ UNCHANGED <<ring, latest, commitment, monitoring, fresh, received>>

-----------------------------------------------------------------------------
(* The consumer's end of the channels: BusReceiver *)

ReceiveCommitment(e) ==
  /\ commitment # <<>> /\ e = Head(commitment)
  /\ commitment' = Tail(commitment)
  /\ received' = received + 1
  /\ UNCHANGED <<call, ring, latest, monitoring, counters, fresh>>

ReceiveMonitoring(e) ==
  /\ monitoring # <<>> /\ e = Head(monitoring)
  /\ monitoring' = Tail(monitoring)
  /\ received' = received + 1
  /\ UNCHANGED <<call, ring, latest, commitment, counters, fresh>>

BusInit ==
  /\ call = [t \in Tasks |-> Idle]
  /\ ring = <<>> /\ latest = 0
  /\ commitment = <<>> /\ monitoring = <<>>
  /\ counters = [c \in Counter |-> 0]
  /\ fresh = <<>> /\ received = 0

Inject(t) == Dedup(t) \/ Reorder(t) \/ TrySend(t) \/ Count(t)
=============================================================================
