--------------------------- MODULE MCRegistryCtl ----------------------------
(* Small instance of RegistryCtl for TLC. *)
EXTENDS RegistryCtl, TLC

\* Operators are interchangeable, and so are keys.
MCSymmetry == Permutations(Operators) \cup Permutations(Keys)
=============================================================================
