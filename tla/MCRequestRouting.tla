-------------------------- MODULE MCRequestRouting --------------------------
(***************************************************************************)
(* RequestRouting on small instances: one pair, and a malformed key in     *)
(* MIDTID_MAPPINGS or not.                                                 *)
(***************************************************************************)
EXTENDS RequestRouting, TLC

CONSTANTS k1, bad, s1, s2

CleanConfig == [k \in {k1} |-> s1]
DirtyConfig == [k \in {k1, bad} |-> s1]

MCSymmetry == Permutations(Migrations)
OnePair == [r \in Requests |-> k1]
=============================================================================
