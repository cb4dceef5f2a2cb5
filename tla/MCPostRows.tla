------------------------------ MODULE MCPostRows ------------------------------
(***************************************************************************)
(* A small instance of PostRows for TLC.                                   *)
(***************************************************************************)
EXTENDS PostRows, TLC

\* Positions of the list are interchangeable, and so are taps.
Symmetric == Permutations(Positions) \cup Permutations(Calls)
=============================================================================
