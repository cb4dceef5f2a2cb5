----------------------------- MODULE MCPublishing -----------------------------
(***************************************************************************)
(* Publishing on a device two people use.                                  *)
(***************************************************************************)
EXTENDS Publishing, TLC

\* The people, the forms and the presses are interchangeable.
DeviceSymmetry ==
    Permutations(Accounts) \cup Permutations(FormIds) \cup Permutations(Subs)
=============================================================================
