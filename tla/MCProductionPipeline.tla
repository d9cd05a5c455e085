--------------------------- MODULE MCProductionPipeline ---------------------------
(***************************************************************************)
(* TLC instances of ProductionPipeline: one stage of each sort.            *)
(* Invocations are interchangeable, but a symmetry set is only used where  *)
(* no liveness property is checked.                                        *)
(***************************************************************************)
EXTENDS ProductionPipeline, TLC

MCDaily == <<"features_build">>
MCReport == <<"model_predict">>
MCSoft == <<"monitoring">>
NoStages == <<>>
MCStageNames == Elements(ProductionPlan) \cup Elements(PlanOf("dry")) \cup Elements(PlanOf("full"))

InvocationSymmetry == Permutations(Invocations)
=============================================================================
