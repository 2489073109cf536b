---------------------------- MODULE MCWorkerBroker ----------------------------
(* Three jobs: two whose ids agree in the characters _job_name keeps, and one *)
(* with a name of its own whose capability the local broker lacks.            *)
EXTENDS WorkerBroker

MCJob == {"case:A2.50:command-1", "case:A2.50:command-10", "case:A2.50:recipe"}
MCJobName == [j \in MCJob |-> IF j = "case:A2.50:recipe" THEN "recipe" ELSE "command-1"]
MCSupported == MCJob \ {"case:A2.50:recipe"}
=============================================================================
