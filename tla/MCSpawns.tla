------------------------------ MODULE MCSpawns ------------------------------
(* Two spawns below two roots: a user's session, and a child of depth one   *)
(* that an earlier process recorded.                                        *)
EXTENDS Spawns, TLC

CONSTANTS user, heir, c1, c2, k1, k2

MCRootDepth == [p \in Roots |-> IF p = heir THEN 1 ELSE 0]

\* Keys differ in nothing but their name; used by the safety run only.
KeySymmetry == Permutations(Keys)
=============================================================================
