------------------------------ MODULE MCBlogPost ------------------------------
(***************************************************************************)
(* Small instances of BlogPost for TLC.                                    *)
(***************************************************************************)
EXTENDS BlogPost, TLC

\* Calls are interchangeable; the author of the post is not.
CallSymmetry == Permutations(Calls)
=============================================================================
