--------------------------- MODULE MCVectorStores ---------------------------
(* A batch of no and one of two documents, for TLC, and stores of one      *)
(* class, of which none is special.                                        *)
EXTENDS VectorStores, TLC

CONSTANTS a, b

MCBatches == {<<>>, <<a, b>>}
Interchangeable == Permutations(Qdrant)
=============================================================================
