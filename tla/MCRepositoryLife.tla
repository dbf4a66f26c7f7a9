-------------------------- MODULE MCRepositoryLife --------------------------
(* Two files and two sessions: one replaces a file and deletes the other,    *)
(* one replaces both.                                                        *)
EXTENDS RepositoryLife, TLC

CONSTANTS weights, card, s1, s2, h1, h2

MCWrites == s1 :> {weights} @@ s2 :> {weights, card}
MCDeletes == s1 :> {card} @@ s2 :> {}
MCSymmetry == Permutations(Handlers)
=============================================================================
