--------------------------- MODULE EvaluationJobs ----------------------------
(***************************************************************************)
(* What a client that submits and polls evaluation jobs is promised: one    *)
(* job is active at a time, a job advances from queued over running to one  *)
(* final outcome, and only a job with an outcome is ever forgotten.         *)
(***************************************************************************)
CONSTANT Jobs

VARIABLE status   \* of each job, as a poll reports it

Active(j)   == status[j] \in {"queued", "running"}
Terminal(j) == status[j] \in {"completed", "failed"}

Init == status = [j \in Jobs |-> "unknown"]

\* The registration of a job may make room by forgetting jobs that have an outcome.
Submit(j) ==
  /\ status[j] = "unknown"
  /\ \A k \in Jobs : ~Active(k)
  /\ \E forgotten \in SUBSET {k \in Jobs : Terminal(k)} :
       status' = [k \in Jobs |-> IF k = j THEN "queued"
                                 ELSE IF k \in forgotten THEN "forgotten"
                                 ELSE status[k]]

Begin(j)  == status[j] = "queued" /\ status' = [status EXCEPT ![j] = "running"]
Finish(j) == status[j] = "running" /\ \E outcome \in {"completed", "failed"} :
               status' = [status EXCEPT ![j] = outcome]
NeverBegin(j) == status[j] = "queued" /\ status' = [status EXCEPT ![j] = "failed"]

Next == \E j \in Jobs : Submit(j) \/ Begin(j) \/ Finish(j) \/ NeverBegin(j)

Spec == Init /\ [][Next]_status
=============================================================================
