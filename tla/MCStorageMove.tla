---------------------------- MODULE MCStorageMove ----------------------------
(* StorageMove for TLC: model values for the places and the ids, of which    *)
(* those that play the same part are interchangeable.                        *)
EXTENDS StorageMove, TLC

MoveSymmetry  == Permutations(Moves)
PlaceSymmetry == Permutations(Moves) \union Permutations(Remotes)
=============================================================================
