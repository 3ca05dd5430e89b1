--------------------------- MODULE MCShardTracker ---------------------------
(***************************************************************************)
(* ShardTracker for TLC, which evaluates the assumption below: the number   *)
(* of leading bits that two words share is the number of leading zeros of   *)
(* their exclusive or.                                                      *)
(***************************************************************************)
EXTENDS ShardTracker, Bitwise

LeadingZeros(w) == WordWidth - Min({n \in 0..WordWidth : w < 2^n})

ASSUME XorAssumption ==
    \A v, w \in 0..(2^WordWidth - 1) : LeadingZerosXor(v, w) = LeadingZeros(v ^^ w)
=============================================================================
