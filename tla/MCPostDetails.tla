----------------------------- MODULE MCPostDetails -----------------------------
(***************************************************************************)
(* Small instances of PostDetails for TLC.                                 *)
(***************************************************************************)
EXTENDS PostDetails, TLC

\* Calls are interchangeable; the author of the post is not.
CallSymmetry == Permutations(Calls)
=============================================================================
