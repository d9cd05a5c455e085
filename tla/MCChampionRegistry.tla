---------------------------- MODULE MCChampionRegistry ----------------------------
(***************************************************************************)
(* TLC instances of ChampionRegistry: a champion, a candidate, a model yet *)
(* to be registered; requests and appliers are interchangeable.            *)
(***************************************************************************)
EXTENDS ChampionRegistry, TLC

CONSTANTS m1, m2, m3

FirstRegistry ==
    [m \in Models |-> CASE m = m1 -> "champion" [] m = m2 -> "candidate" [] OTHER -> "absent"]

RegistrySymmetry == Permutations(Requests) \cup Permutations(Appliers)
=============================================================================
