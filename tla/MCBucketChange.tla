---------------------------- MODULE MCBucketChange ----------------------------
(* BucketChange for TLC: files and changes are interchangeable.              *)
EXTENDS BucketChange, TLC

Interchange == Permutations(Paths) \union Permutations(Changes)
=============================================================================
