---------------------------- MODULE MCValueTypes ----------------------------
(***************************************************************************)
(* ValueTypes on a small instance.                                          *)
(***************************************************************************)
EXTENDS ValueTypes, TLC

\* Variables are interchangeable, and so are strings.
CONSTANTS x1, x2, x3, x4
MCVar == {x1, x2, x3, x4}
MCSymmetry == Permutations(MCVar)
=============================================================================
