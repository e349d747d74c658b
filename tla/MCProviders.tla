---------------------------- MODULE MCProviders ----------------------------
(***************************************************************************)
(* A directory pool and a ceph pool, set up twice.                         *)
(***************************************************************************)
EXTENDS Providers

CONSTANTS dir, rbd, v1, v2

\* The second has other hosts and another secret, the third is refused by
\* Validate, the fourth once its pools are set up, and the last makes
\* Validate panic.
MCConfigs == {
  [pools |-> <<dir, rbd>>, default |-> dir,  version |-> v1],
  [pools |-> <<rbd>>,      default |-> None, version |-> v2],
  [pools |-> <<rbd>>,      default |-> dir,  version |-> v2],
  [pools |-> <<rbd, dir>>, default |-> None, version |-> v2],
  [pools |-> None,         default |-> None, version |-> v1] }
=============================================================================
