--------------------------- MODULE MCSocialPosts ---------------------------
(* Three requests, so that two may race after a third has made a row, or two    *)
(* batches while the toggle is switched; two posts, so that a batch has a      *)
(* middle.                                                                     *)
EXTENDS SocialPosts, TLC

MCSymmetry == Permutations(Requests) \cup Permutations(Posts)
=============================================================================
