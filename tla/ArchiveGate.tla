---------------------------- MODULE ArchiveGate -----------------------------
(***************************************************************************)
(* The archive-before-submit gate of the rebalance pipeline                *)
(* (crates/atlas-warehouse: write_path.rs, client.rs, mock.rs).            *)
(*                                                                         *)
(* Writers call archive_then_submit concurrently: the warehouse insert is  *)
(* awaited, then the submit closure runs.  A writer may fail, be retried   *)
(* with the same row, or try a rival row for the same vault and slot.      *)
(***************************************************************************)
EXTENDS Integers, Sequences, FiniteSets

CONSTANTS
  Writers,
  Rows,      \* RebalanceRow: [vault, slot, input], input is public_input_hash
  MaxCalls   \* bound: calls of archive_then_submit

ASSUME GateAssumption ==
  /\ \A r \in Rows : r.slot \in Nat
  /\ MaxCalls \in Nat

VARIABLES
  writer,     \* writer -> [at, row]: where in archive_then_submit it is
  warehouse,  \* the rebalances table: (vault, slot) -> row
  submitted,  \* history: rows handed to the submit closure
  calls       \* history: calls so far

gateVars == <<writer, warehouse, submitted, calls>>

Idle == [at |-> "idle"]
At(w, step) == writer[w].at = step
Goto(w, step) == writer' = [writer EXCEPT ![w].at = step]

Key(r) == <<r.vault, r.slot>>

Call(w, r) ==
  /\ At(w, "idle") /\ calls < MaxCalls
  /\ calls' = calls + 1
  /\ writer' = [writer EXCEPT ![w] = [at |-> "insert", row |-> r]]
  /\ UNCHANGED <<warehouse, submitted>>

\* insert_rebalance holds the table lock.  A row of this vault and slot with
\* another public input is a collision; with the same it is a hit and stays.
CollisionUnchecked(r) == FALSE
Collision(r) == Key(r) \in DOMAIN warehouse /\ warehouse[Key(r)].input # r.input

Upsert(r) ==
  warehouse' = [k \in DOMAIN warehouse \cup {Key(r)} |->
                  IF k \in DOMAIN warehouse THEN warehouse[k] ELSE r]

Insert(w) ==
  LET r == writer[w].row
  IN  /\ At(w, "insert")
      /\ IF Collision(r)
         THEN writer' = [writer EXCEPT ![w] = Idle] /\ UNCHANGED warehouse
         ELSE Upsert(r) /\ Goto(w, "submit")
      /\ UNCHANGED <<submitted, calls>>

\* Any other warehouse error: nothing is written and submit does not run.
InsertFails(w) ==
  /\ At(w, "insert")
  /\ writer' = [writer EXCEPT ![w] = Idle]
  /\ UNCHANGED <<warehouse, submitted, calls>>

\* The submit closure is external: it lands the bundle, or reports an error
\* after which the bundle may or may not have landed.
Submit(w) ==
  /\ At(w, "submit")
  /\ submitted' = submitted \cup {writer[w].row}
  /\ Goto(w, "enqueue") \/ writer' = [writer EXCEPT ![w] = Idle]
  /\ UNCHANGED <<warehouse, calls>>

GateInit ==
  /\ writer = [w \in Writers |-> Idle]
  /\ warehouse = [k \in {} |-> {}]
  /\ submitted = {}
  /\ calls = 0
=============================================================================
