-------------------------- MODULE MCDebugArtifacts --------------------------
(***************************************************************************)
(* A small instance of DebugArtifacts, and of ResponseCache in it, for TLC.*)
(***************************************************************************)
EXTENDS DebugArtifacts, TLC

CONSTANTS k1, k2, k3, b

MCCacheKeys == {k1, k2, k3}
MCBodies == {b}
MCBodySizes == {1, 3, 4}
MCFileSizes == {1, 3, 4}
MCTtls == {0, 3}

KeySymmetry == Permutations(MCCacheKeys)

=============================================================================
