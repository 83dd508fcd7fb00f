--------------------------- MODULE MCWeightCache ---------------------------
(***************************************************************************)
(* Model-checking instance of WeightCache: two tensors, and two weight     *)
(* types and capacities chosen so that f32 of 256 elements and bf16 of 512 *)
(* elements have the same compressed size (1024 bytes): only the type      *)
(* prefix of CacheKey tells those files apart.                             *)
(***************************************************************************)
EXTENDS WeightCache

MCRefs == 1..NumTensors \cup {ScalesRef}
MCKeys == {CacheKey(ty, r) : ty \in Types \cup {"f32"}, r \in MCRefs}
MCData == Contents \cup {Uninit, Ones}
=============================================================================
