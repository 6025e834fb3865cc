--------------------------- MODULE MCCustomerEnroll ---------------------------
(***************************************************************************)
(* Small registers: a few cases, names, countries and registration numbers,*)
(* interchangeable within each set.                                        *)
(***************************************************************************)
EXTENDS CustomerEnroll, TLC

Symmetry ==
  Permutations(Requests) \cup Permutations(Names) \cup Permutations(Countries) \cup Permutations(Regs)
=============================================================================
