-------------------------- MODULE MC_UpdateManager --------------------------
(* Instantiates UpdateManager for TLC.  MAX_OBJECT_IDS = 2 and an overload *)
(* of 1 let three ids overflow the hash, so the overload loop of           *)
(* containersChanged is entered; the code's 1000 and 30 change only how    *)
(* many ids that takes.                                                    *)
EXTENDS UpdateManager, TLC

MCSymmetry == Permutations(Ids) \cup Permutations(Callers)
=============================================================================
