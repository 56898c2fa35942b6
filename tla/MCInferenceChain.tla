--------------------------- MODULE MCInferenceChain ---------------------------
(***************************************************************************)
(* Values for TLC: a tier of each kind of quota, the last one with a lower *)
(* threshold (_OVERRIDES). Requests are interchangeable.                   *)
(***************************************************************************)
EXTENDS InferenceChain, TLC

CONSTANTS groq, cloudflare, sambanova

FullChain == <<groq, cloudflare, sambanova>>
PoolChain == <<cloudflare>>

Kind == [t \in Tiers |-> CASE t = groq       -> "header"
                           [] t = cloudflare -> "pool"
                           [] t = sambanova  -> "sliding"]

Thresholds == [t \in Tiers |-> IF t = sambanova THEN 1 ELSE Window]

Symmetry == Permutations(Callers)
=============================================================================
