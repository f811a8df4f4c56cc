--------------------------- MODULE MCArchivePath ----------------------------
(* Small instances of ArchivePath for TLC: two rows that are rivals for one  *)
(* vault and slot, and a row of a later slot.                                *)
EXTENDS ArchivePath, TLC

MCRows ==
  {[vault |-> 1, slot |-> 1, input |-> 1],
   [vault |-> 1, slot |-> 1, input |-> 2],
   [vault |-> 1, slot |-> 4, input |-> 1]}
=============================================================================
