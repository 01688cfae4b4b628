--------------------------- MODULE MCAnalysisQueue ---------------------------
(* The HTTP daemon's pool, two workers and a budget of 3, offered one job of
   every price, two of the commonest one, and one whose profile runs alone. *)
EXTENDS AnalysisQueue, TLC

CONSTANTS impact, safety, deadCode, embeddings, builder

MCCost == impact :> 1 @@ safety :> 2 @@ deadCode :> 3
            @@ embeddings :> 4 @@ builder :> 2

MCParallelism == impact :> 2 @@ safety :> 2 @@ deadCode :> 2
                   @@ embeddings :> 2 @@ builder :> 1
=============================================================================
