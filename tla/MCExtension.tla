---------------------------- MODULE MCExtension -----------------------------
(* Small instances of Extension for TLC: one window with two tabs of one     *)
(* origin, which may or may not be on the list.                              *)
EXTENDS Extension

MCHome == [t \in Tabs |-> "w1"]
MCOriginOf == [t \in Tabs |-> "o1"]
=============================================================================
