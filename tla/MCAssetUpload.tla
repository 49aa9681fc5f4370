---------------------------- MODULE MCAssetUpload ----------------------------
(***************************************************************************)
(* One ticket used up to three times, two completions at a time.           *)
(***************************************************************************)
EXTENDS AssetUpload, TLC

CONSTANTS u1, u2, c1, c2

CallSymmetry == Permutations({u1, u2}) \cup Permutations({c1, c2})
=============================================================================
