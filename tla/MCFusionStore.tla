---------------------------- MODULE MCFusionStore ----------------------------
(* Small instances of FusionStore.                                            *)
EXTENDS FusionStore, TLC
StoreSymmetry == Permutations(Updates) \cup Permutations(Readers)
=============================================================================
