-------------------------------- MODULE MCKvDb --------------------------------
(* KvDb for TLC: its callers and values are interchangeable.                   *)
EXTENDS KvDb, TLC

KvSymmetry == Permutations(Callers) \cup Permutations(Values)
===============================================================================
