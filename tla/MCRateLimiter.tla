---------------------------- MODULE MCRateLimiter ----------------------------
(***************************************************************************)
(* Instances of RateLimiter for TLC.  The address set decides whether one  *)
(* bucket is watched for long or several share a shard.                    *)
(***************************************************************************)
EXTENDS RateLimiter, TLC

CONSTANTS ipA, ipB

\* Every address hashes to the first shard; a second one has no entries.
SameShard(i) == 1

WorkerSymmetry == Permutations(Workers)
=============================================================================
