-------------------------- MODULE MCRealtimeStore --------------------------
(* Small instances of RealtimeStore for TLC: a default topic whose events   *)
(* lie within and beyond the tolerance, and a critical one.                 *)
EXTENDS RealtimeStore

MCEvents ==
  [topic : {"stream.network"}, slot : {2, 3, 4}] \cup
  [topic : {"vault.alert"}, slot : {1, 3}]
MCTopics == {"stream.network", "vault.alert"}
MCCritical == {"vault.alert"}
=============================================================================
