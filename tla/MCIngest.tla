------------------------------ MODULE MCIngest ------------------------------
(* Small instances of Ingest for TLC: three commitment-bound events of one  *)
(* source, the last of them far ahead in slots, and a monitoring event.     *)
EXTENDS Ingest, TLC

MCEvents ==
  {[seq |-> 0, slot |-> 1, bound |-> TRUE],
   [seq |-> 1, slot |-> 2, bound |-> TRUE],
   [seq |-> 2, slot |-> 4, bound |-> TRUE],
   [seq |-> 9, slot |-> 0, bound |-> FALSE]}

MCSeqNos == 0 .. 2
MCSymmetry == Permutations(Tasks)
=============================================================================
