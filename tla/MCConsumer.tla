----------------------------- MODULE MCConsumer -----------------------------
(* Values for the constants of Consumer.                                    *)
EXTENDS Consumer, TLC

CONSTANTS m1, m2, m3, h1, h2

OneBroken == [m \in Msgs |-> IF m = m1 THEN "not_json" ELSE "json"]
OneBinary == [m \in Msgs |-> IF m = m1 THEN "not_text" ELSE "json"]
OneOfEach == m1 :> "not_text" @@ m2 :> "not_json" @@ m3 :> "json"

(* m2 is claimed by a handler of the consumer and one of the registry, m3   *)
(* by that of the registry only, m1 by none.                                 *)
OwnHandlers      == <<h1>>
RegistryHandlers == <<h2>>
PatternClaims    == h1 :> {m2} @@ h2 :> (Msgs \ {m1})

Symmetry == Permutations(Workers)
=============================================================================
