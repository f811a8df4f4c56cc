--------------------------- MODULE DelegationLog ---------------------------
(***************************************************************************)
(* What the private-execution gateway promises, without its sessions: a    *)
(* vault has at most one running session at a time, which ends in one of   *)
(* three ways, and the public event log records each beginning and each    *)
(* end, exactly once and in order.  A session that is settled or expired   *)
(* gives the vault back.  A disputed one does not: the gateway leaves it   *)
(* to the operators, never ends it, and yet lets the vault run another.    *)
(***************************************************************************)
EXTENDS Naturals, Sequences, FiniteSets

CONSTANTS Vaults

VARIABLES
  running,   \* vaults with a running session
  disputed,  \* vaults that a disputed session has not given back
  log        \* what happened: <<vault, kind>>

vars == <<running, disputed, log>>

Init == running = {} /\ disputed = {} /\ log = <<>>

Delegate(v) ==
  /\ v \notin running
  /\ running' = running \cup {v}
  /\ log' = Append(log, <<v, "SessionOpened">>)
  /\ UNCHANGED disputed

\* The running session gives the vault back.
Return(v, how) ==
  /\ v \in running
  /\ running' = running \ {v}
  /\ log' = Append(log, <<v, how>>)
  /\ UNCHANGED disputed

\* The running session stops running and keeps the vault.
Dispute(v) ==
  /\ v \in running
  /\ running' = running \ {v}
  /\ disputed' = disputed \cup {v}
  /\ log' = Append(log, <<v, "SessionDisputed">>)

\* Stalled sessions are ended together, each with an entry of its own.
Reclaim(order) ==
  /\ \A i, j \in DOMAIN order : order[i] = order[j] => i = j
  /\ \A i \in DOMAIN order : order[i] \in running
  /\ running' = running \ {order[i] : i \in DOMAIN order}
  /\ log' = log \o [i \in DOMAIN order |-> <<order[i], "SessionExpired">>]
  /\ UNCHANGED disputed

Next ==
  \/ \E v \in Vaults : Delegate(v)
  \/ \E v \in Vaults, how \in {"SessionSettled", "SessionExpired"} : Return(v, how)
  \/ \E v \in Vaults : Dispute(v)
  \/ \E n \in 1 .. Cardinality(Vaults) : \E order \in [1 .. n -> Vaults] : Reclaim(order)

Spec == Init /\ [][Next]_vars
=============================================================================
