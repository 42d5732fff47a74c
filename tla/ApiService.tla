----------------------------- MODULE ApiService ------------------------------
(***************************************************************************)
(* The process-wide coordinator of the HTTP API (src/evidenceops/api) with  *)
(* the threads that meet in it: the event loop that runs the handlers of    *)
(* POST /v1/query and POST /v1/eval/run, the worker thread of an admitted   *)
(* query, and the daemon thread of an evaluation.  Every section under one  *)
(* lock is one step.                                                        *)
(***************************************************************************)
EXTENDS Integers, FiniteSets, Sequences, SequencesExt

CONSTANTS
  QueryRequests,   \* POST /v1/query requests
  Submissions,     \* POST /v1/eval/run requests, and the jobs they create
  HistoryLimit,    \* api_run_history_limit: bounds the runs and the jobs kept
  MaxEvaluations   \* api_max_concurrent_evaluations

Nobody == "nobody"

ASSUME ApiAssumption ==
  /\ HistoryLimit \in Nat \ {0}
  /\ MaxEvaluations \in 1..2
  /\ QueryRequests \cap Submissions = {} /\ Nobody \notin Submissions

VARIABLES
  work_lock,            \* the lock shared by queries and evaluations: held or not
  handler,              \* the submission whose handler occupies the event loop
  query, records, reply, client,
  history,              \* run identifiers, oldest first
  metrics,              \* counters of queries
  submission, registry, job_counts

querying   == <<query, records, reply, client, history, metrics>>
evaluating == <<submission, registry, job_counts, handler>>
vars == <<work_lock, querying, evaluating>>

-----------------------------------------------------------------------------
(* What a query may come to, what the worker then records, section by       *)
(* section, and the status code of the response.                            *)

Outcomes == {"completed", "abstained", "failed", "raises",
             "raises_timeout", "raises_store_error",
             "generator_timeout", "dependency_unavailable"}

RecordsOf(outcome) ==
  CASE outcome \in {"completed", "abstained"} -> <<"history", outcome>>
    [] outcome = "raises_timeout"             -> <<"failed", "timeout">>
    [] outcome = "raises_store_error"         -> <<"failed", "store_error">>
    [] outcome = "generator_timeout"          -> <<"timeout", "failed">>
    [] OTHER                                  -> <<"failed">>

ReplyTo(outcome) ==
  CASE outcome \in {"completed", "abstained"}                            -> 200
    [] outcome \in {"raises_timeout", "generator_timeout"}               -> 504
    [] outcome \in {"raises_store_error", "dependency_unavailable"}      -> 503
    [] outcome \in {"failed", "raises"}                                  -> 500

QueryStatuses == {"completed", "abstained", "failed"}
Counters == QueryStatuses \cup {"timeout", "store_error"}
JobCounters == {"submitted", "running", "completed", "failed"}

-----------------------------------------------------------------------------
Init ==
  /\ work_lock = FALSE
  /\ handler = Nobody
  /\ query = [q \in QueryRequests |-> "unsent"]
  /\ records = [q \in QueryRequests |-> <<>>]
  /\ reply = [q \in QueryRequests |-> 0]
  /\ client = [q \in QueryRequests |-> "waiting"]
  /\ history = <<>>
  /\ metrics = [c \in Counters |-> 0]
  /\ submission = [e \in Submissions |-> "unsent"]
  /\ registry = <<>>
  /\ job_counts = [c \in JobCounters |-> 0]

-----------------------------------------------------------------------------
(* POST /v1/query.  The handler runs up to its first await as one step of   *)
(* the event loop; the worker is a task of its own, shielded from the       *)
(* disconnection of the client.                                             *)

PostQuery(q) ==
  /\ handler = Nobody
  /\ query[q] = "unsent"
  /\ IF work_lock
     THEN /\ query' = [query EXCEPT ![q] = "rejected"]
          /\ reply' = [reply EXCEPT ![q] = 429]
          /\ UNCHANGED work_lock
     ELSE /\ work_lock' = TRUE
          /\ query' = [query EXCEPT ![q] = "admitted"]
          /\ UNCHANGED reply
  /\ UNCHANGED <<records, client, history, metrics, evaluating>>

\* Mutated: a disconnection cancels a worker that has not begun.
DisconnectCancels(q) ==
  /\ query[q] \notin {"unsent", "rejected"} /\ client[q] = "waiting"
  /\ client' = [client EXCEPT ![q] = "gone"]
  /\ query' = [query EXCEPT ![q] = IF @ = "admitted" THEN "rejected" ELSE @]
  /\ UNCHANGED <<work_lock, records, reply, history, metrics, evaluating>>

Disconnect(q) ==
  /\ query[q] \notin {"unsent", "rejected"} /\ client[q] = "waiting"
  /\ client' = [client EXCEPT ![q] = "gone"]
  /\ UNCHANGED <<work_lock, query, records, reply, history, metrics, evaluating>>

\* QueryService.execute_query returns or raises; QueryWorkflow says how.
ExecuteQuery(q) ==
  /\ query[q] = "admitted"
  /\ \E outcome \in Outcomes :
       /\ records' = [records EXCEPT ![q] = RecordsOf(outcome)]
       /\ reply' = [reply EXCEPT ![q] = ReplyTo(outcome)]
  /\ query' = [query EXCEPT ![q] = "recording"]
  /\ UNCHANGED <<work_lock, client, history, metrics, evaluating>>

\* record_run: the oldest run gives way.
Remember(q) ==
  Append(IF Len(history) >= HistoryLimit THEN Tail(history) ELSE history, q)

Record(q) ==
  /\ query[q] = "recording" /\ records[q] # <<>>
  /\ records' = [records EXCEPT ![q] = Tail(records[q])]
  /\ IF Head(records[q]) = "history"
     THEN history' = Remember(q) /\ UNCHANGED metrics
     ELSE /\ metrics' = [metrics EXCEPT ![Head(records[q])] = @ + 1]
          /\ UNCHANGED history
  /\ UNCHANGED <<work_lock, query, reply, client, evaluating>>

\* Mutated: the lock is released before everything is recorded.
RecordedEnough(q) == query[q] = "recording"

Recorded(q) == query[q] = "recording" /\ records[q] = <<>>

ReleaseQuery(q) ==
  /\ Recorded(q)
  /\ work_lock' = FALSE
  /\ query' = [query EXCEPT ![q] = "released"]
  /\ UNCHANGED <<records, reply, client, history, metrics, evaluating>>

\* The event loop resumes the handler, if the client is still there to wait for it,
\* with the worker's result or exception.
Respond(q) ==
  /\ query[q] = "released" /\ client[q] = "waiting" /\ handler = Nobody
  /\ client' = [client EXCEPT ![q] = "answered"]
  /\ UNCHANGED <<work_lock, query, records, reply, history, metrics, evaluating>>

-----------------------------------------------------------------------------
(* POST /v1/eval/run.  The handler never awaits, so it keeps the event loop *)
(* to itself; worker threads run between its steps.                         *)

JobIsActive(job) == job.status \in {"queued", "running"}

JobStatuses == {"queued", "running", "completed", "failed"}
Job == [id : Submissions, status : JobStatuses]

HasActiveEvaluation ==
  \/ \E i \in DOMAIN registry : JobIsActive(registry[i])
  \/ job_counts.running >= MaxEvaluations

PostEvaluation(e) ==
  /\ handler = Nobody /\ submission[e] = "unsent"
  /\ IF HasActiveEvaluation
     THEN submission' = [submission EXCEPT ![e] = "refused"] /\ UNCHANGED handler
     ELSE submission' = [submission EXCEPT ![e] = "checked"] /\ handler' = e
  /\ UNCHANGED <<work_lock, querying, registry, job_counts>>

\* Mutated: relies on has_active_evaluation alone.
AcquireUnchecked(e) ==
  /\ submission[e] = "checked"
  /\ work_lock' = TRUE
  /\ submission' = [submission EXCEPT ![e] = "locked"]
  /\ UNCHANGED <<querying, handler, registry, job_counts>>

AcquireForEvaluation(e) ==
  /\ submission[e] = "checked"
  /\ IF work_lock
     THEN /\ submission' = [submission EXCEPT ![e] = "refused"]
          /\ handler' = Nobody /\ UNCHANGED work_lock
     ELSE /\ submission' = [submission EXCEPT ![e] = "locked"]
          /\ work_lock' = TRUE /\ UNCHANGED handler
  /\ UNCHANGED <<querying, registry, job_counts>>

\* Mutated: only jobs that completed make room.
MakesRoomIfCompleted(job) == job.status = "completed"

MakesRoom(job) == ~JobIsActive(job)

\* The first job that can make room.
GoesFirst(i) ==
  MakesRoom(registry[i]) /\ \A k \in 1..(i - 1) : ~MakesRoom(registry[k])

RegistryIsFull ==
  Len(registry) >= HistoryLimit /\ \A i \in DOMAIN registry : ~MakesRoom(registry[i])

Registered(e, others) ==
  /\ registry' = Append(others, [id |-> e, status |-> "queued"])
  /\ job_counts' = [job_counts EXCEPT !.submitted = @ + 1, !.running = @ + 1]
  /\ submission' = [submission EXCEPT ![e] = "registered"]
  /\ UNCHANGED handler

\* register_evaluation_job: the limit was never exceeded, so one job at most goes.
\* It raises when no job can make room, and nothing then releases the lock.
Register(e) ==
  /\ submission[e] = "locked"
  /\ \/ Len(registry) < HistoryLimit /\ Registered(e, registry)
     \/ /\ Len(registry) >= HistoryLimit
        /\ \E i \in DOMAIN registry : GoesFirst(i) /\ Registered(e, RemoveAt(registry, i))
     \/ /\ RegistryIsFull
        /\ submission' = [submission EXCEPT ![e] = "crashed"]
        /\ handler' = Nobody
        /\ UNCHANGED <<registry, job_counts>>
  /\ UNCHANGED <<work_lock, querying>>

StartThread(e) ==
  /\ submission[e] = "registered"
  /\ submission' = [submission EXCEPT ![e] = "started"]
  /\ handler' = Nobody
  /\ UNCHANGED <<work_lock, querying, registry, job_counts>>

\* Thread.start raises: the lock is released first, the job is failed after.
StartFails(e) ==
  /\ submission[e] = "registered"
  /\ work_lock' = FALSE
  /\ submission' = [submission EXCEPT ![e] = "start_failed"]
  /\ UNCHANGED <<querying, handler, registry, job_counts>>

\* Mutated: a failed job is not taken off the running ones.
CountedKeepsRunning(status) ==
  [job_counts EXCEPT !.completed = IF status = "completed" THEN @ + 1 ELSE @,
                     !.failed    = IF status = "failed" THEN @ + 1 ELSE @,
                     !.running   = IF status = "completed" /\ @ > 0 THEN @ - 1 ELSE @]

\* Mutated: every update takes the job off the running ones, without a floor.
CountedEveryTime(status) ==
  [job_counts EXCEPT !.completed = IF status = "completed" THEN @ + 1 ELSE @,
                     !.failed    = IF status = "failed" THEN @ + 1 ELSE @,
                     !.running   = @ - 1]

Counted(status) ==
  [job_counts EXCEPT !.completed = IF status = "completed" THEN @ + 1 ELSE @,
                     !.failed    = IF status = "failed" THEN @ + 1 ELSE @,
                     !.running   = IF status # "running" /\ @ > 0 THEN @ - 1 ELSE @]

\* update_evaluation_job: an unknown job, or one with an outcome, is left alone.
UpdateJob(e, status) ==
  IF \E i \in DOMAIN registry : registry[i].id = e /\ JobIsActive(registry[i])
  THEN /\ registry' = [i \in DOMAIN registry |->
                         IF registry[i].id = e THEN [registry[i] EXCEPT !.status = status]
                         ELSE registry[i]]
       /\ job_counts' = Counted(status)
  ELSE UNCHANGED <<registry, job_counts>>

\* Mutated: the job of a thread that did not start stays queued.
FailUnstartedForgets(e) ==
  /\ submission[e] = "start_failed"
  /\ submission' = [submission EXCEPT ![e] = "unavailable"]
  /\ handler' = Nobody
  /\ UNCHANGED <<work_lock, querying, registry, job_counts>>

FailUnstarted(e) ==
  /\ submission[e] = "start_failed"
  /\ UpdateJob(e, "failed")
  /\ submission' = [submission EXCEPT ![e] = "unavailable"]
  /\ handler' = Nobody
  /\ UNCHANGED <<work_lock, querying>>

\* Mutated: the thread does not report that it runs.
BeginJobSilently(e) ==
  /\ submission[e] = "started"
  /\ submission' = [submission EXCEPT ![e] = "running"]
  /\ UNCHANGED <<work_lock, querying, handler, registry, job_counts>>

\* The daemon thread: it says so, runs the benchmark, records the outcome and,
\* whatever happened, releases the lock.
BeginJob(e) ==
  /\ submission[e] = "started"
  /\ UpdateJob(e, "running")
  /\ submission' = [submission EXCEPT ![e] = "running"]
  /\ UNCHANGED <<work_lock, querying, handler>>

FinishJob(e) ==
  /\ submission[e] = "running"
  /\ \E outcome \in {"completed", "failed"} : UpdateJob(e, outcome)
  /\ submission' = [submission EXCEPT ![e] = "finishing"]
  /\ UNCHANGED <<work_lock, querying, handler>>

ReleaseJob(e) ==
  /\ submission[e] = "finishing"
  /\ work_lock' = FALSE
  /\ submission' = [submission EXCEPT ![e] = "released"]
  /\ UNCHANGED <<querying, handler, registry, job_counts>>

-----------------------------------------------------------------------------
QueryWorker(q) == ExecuteQuery(q) \/ Record(q) \/ ReleaseQuery(q)
EvaluationWorker(e) == BeginJob(e) \/ FinishJob(e) \/ ReleaseJob(e)
\* A handler that has begun goes on to its end.
SubmissionHandler(e) ==
  AcquireForEvaluation(e) \/ Register(e) \/ StartThread(e) \/ StartFails(e) \/ FailUnstarted(e)

\* Nothing is left to be done for the requests of the instance.
Settled ==
  /\ \A q \in QueryRequests : query[q] = "rejected" \/ client[q] \in {"answered", "gone"}
  /\ \A q \in QueryRequests : query[q] \in {"rejected", "released"}
  /\ \A e \in Submissions : submission[e] \in {"refused", "unavailable", "released"}
  /\ UNCHANGED vars

Next ==
  \/ \E q \in QueryRequests :
       PostQuery(q) \/ Disconnect(q) \/ QueryWorker(q) \/ Respond(q)
  \/ \E e \in Submissions :
       PostEvaluation(e) \/ SubmissionHandler(e) \/ EvaluationWorker(e)
  \/ Settled

Spec == Init /\ [][Next]_vars

\* Threads are scheduled and the event loop resumes what is ready; nothing says
\* that a request is ever sent.
Fairness ==
  /\ \A q \in QueryRequests : WF_vars(QueryWorker(q)) /\ WF_vars(Respond(q))
  /\ \A e \in Submissions : WF_vars(SubmissionHandler(e)) /\ WF_vars(EvaluationWorker(e))

FairSpec == Spec /\ Fairness

-----------------------------------------------------------------------------
(* Properties.                                                              *)

QueryStates == {"unsent", "rejected", "admitted", "recording", "released"}
SubmissionStates ==
  {"unsent", "refused", "checked", "locked", "crashed", "registered", "started",
   "start_failed", "unavailable", "running", "finishing", "released"}

TypeOK ==
  /\ work_lock \in BOOLEAN /\ handler \in Submissions \cup {Nobody}
  /\ query \in [QueryRequests -> QueryStates]
  /\ records \in [QueryRequests -> Seq(Counters \cup {"history"})]
  /\ reply \in [QueryRequests -> {0, 200, 429, 500, 503, 504}]
  /\ client \in [QueryRequests -> {"waiting", "answered", "gone"}]
  /\ history \in Seq(QueryRequests) /\ metrics \in [Counters -> Nat]
  /\ submission \in [Submissions -> SubmissionStates]
  /\ registry \in Seq(Job)
  /\ job_counts \in [JobCounters -> Nat]

\* The queries and submissions that hold the work lock.
Working ==
  {q \in QueryRequests : query[q] \in {"admitted", "recording"}} \cup
  {e \in Submissions :
     submission[e] \in {"locked", "registered", "started", "running", "finishing"}}

\* One query or one evaluation works at a time, and the lock is held exactly
\* then: a client that leaves, a query that raises, a thread that does not start
\* neither free it early nor keep it.
OneWorkAtATime ==
  /\ \A a, b \in Working : a = b
  /\ work_lock <=> Working # {}

\* Registering never meets a full registry, which would raise with the lock held.
RegistryHasRoom == \A e \in Submissions : submission[e] # "crashed"

\* Whenever no update is under way the job counters add up and agree with the
\* registry: at most one job is active, and it is the one counted as running.
JobCountersAgree ==
  /\ job_counts.submitted = job_counts.running + job_counts.completed + job_counts.failed
  /\ job_counts.running = Cardinality({i \in DOMAIN registry : JobIsActive(registry[i])})
  /\ job_counts.running <= 1
  /\ Len(registry) <= HistoryLimit

Answered(codes) == {q \in QueryRequests : query[q] = "released" /\ reply[q] \in codes}

\* When no query is at work, everything the finished ones had to record has been
\* recorded, once: under its status, and a successful run in the history.
QueriesAreAccounted ==
  (\A q \in QueryRequests : query[q] \notin {"admitted", "recording"}) =>
    LET runs == Cardinality(Answered({200}))
    IN  /\ metrics["completed"] + metrics["abstained"] = runs
        /\ metrics["failed"] = Cardinality(Answered({500, 503, 504}))
        /\ metrics["timeout"] = Cardinality(Answered({504}))
        /\ Len(history) = IF runs < HistoryLimit THEN runs ELSE HistoryLimit

\* What a poll of GET /v1/eval/{id} would say of a job.
JobStatus ==
  [e \in Submissions |->
     IF \E i \in DOMAIN registry : registry[i].id = e
     THEN registry[CHOOSE i \in DOMAIN registry : registry[i].id = e].status
     ELSE IF submission[e] \in {"unsent", "refused", "checked", "locked", "crashed"} THEN "unknown"
     ELSE "forgotten"]

\* The registry implements the promise made to the clients that poll it.
Board == INSTANCE EvaluationJobs WITH Jobs <- Submissions, status <- JobStatus
JobsKeepPromise == Board!Spec

\* Every admitted query runs to its end and frees the lock, whether its client
\* waits or not, and a client that waits is answered.
QueriesAreAnswered ==
  \A q \in QueryRequests :
    query[q] = "admitted" ~> query[q] = "released" /\ client[q] \in {"answered", "gone"}

\* Every registered job gets its outcome, and the lock never stays.
JobsAreFinished ==
  /\ \A e \in Submissions :
       submission[e] = "registered" ~> JobStatus[e] \notin {"queued", "running"}
  /\ work_lock ~> ~work_lock
=============================================================================
