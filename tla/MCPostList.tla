------------------------------ MODULE MCPostList ------------------------------
(***************************************************************************)
(* A small instance of PostList for TLC.                                   *)
(***************************************************************************)
EXTENDS PostList
=============================================================================
