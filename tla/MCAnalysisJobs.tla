---------------------------- MODULE MCAnalysisJobs ----------------------------
(* Instances of AnalysisJobs for TLC. *)
EXTENDS AnalysisJobs

CONSTANTS j1, j2, home, other

MCProjects == {home, other}
MCCost == [j \in Jobs |-> 1]
MCParallelism == [j \in Jobs |-> Cardinality(Workers)]
MCIndexed == {j1}
MCReport == {j2}
AllAtHome == [j \in Jobs |-> home]
AllElsewhere == [j \in Jobs |-> other]

(* Bound: one job is started, the one that waits for memory and has no result,
   or the report.  A record's races are its own. *)
OneJob == Cardinality(created) <= 1
=============================================================================
