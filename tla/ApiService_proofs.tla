-------------------------- MODULE ApiService_proofs --------------------------
(***************************************************************************)
(* Mutual exclusion of all work, for any number of requests; and the        *)
(* registry of evaluation jobs, for any number of submissions and any       *)
(* history limit: its counters agree with it, and what a client that polls  *)
(* it sees is what EvaluationJobs promises.                                 *)
(***************************************************************************)
EXTENDS ApiService, FiniteSetTheorems, SequenceTheorems, TLAPS

\* The state functions the exclusion depends on.
StatesTyped ==
  /\ query \in [QueryRequests -> QueryStates]
  /\ submission \in [Submissions -> SubmissionStates]
  /\ registry \in Seq(Job)

\* The handler between its first look at the registry and its end has the event
\* loop to itself, and until it registers its job nothing is active.
HandlerControl ==
  \A e \in Submissions :
    /\ submission[e] \in {"checked", "locked", "registered", "start_failed"} => handler = e
    /\ submission[e] \in {"checked", "locked"} =>
         \A i \in DOMAIN registry : ~JobIsActive(registry[i])

\* OneWorkAtATime alone is not inductive: a registration that raised would keep
\* the lock with nobody at work.
ExclusionInv == StatesTyped /\ HandlerControl /\ RegistryHasRoom /\ OneWorkAtATime

QueryWorks(s)      == s \in {"admitted", "recording"}
SubmissionWorks(s) == s \in {"locked", "registered", "started", "running", "finishing"}

\* Who works is a matter of these two functions only.
LEMMA WorkingIs ==
  /\ \A w : w \in Working <=> \/ w \in QueryRequests /\ QueryWorks(query[w])
                              \/ w \in Submissions /\ SubmissionWorks(submission[w])
  /\ \A w : w \in Working' <=> \/ w \in QueryRequests /\ QueryWorks(query'[w])
                               \/ w \in Submissions /\ SubmissionWorks(submission'[w])
  BY DEF Working, QueryWorks, SubmissionWorks

\* A step that changes neither the lock nor who works.
LEMMA KeepsExclusion ==
  ASSUME OneWorkAtATime, UNCHANGED work_lock, Working' = Working
  PROVE  OneWorkAtATime'
  BY DEF OneWorkAtATime

\* A step that finds the lock free, takes it and starts to work.
LEMMA TakesLock ==
  ASSUME OneWorkAtATime, ~work_lock, work_lock' = TRUE,
         NEW w, \A v : v \in Working' <=> v \in Working \/ v = w
  PROVE  OneWorkAtATime'
<1>1. Working = {}
  BY DEF OneWorkAtATime
<1>2. Working' = {w}
  BY <1>1
<1>3. QED
  BY <1>2 DEF OneWorkAtATime

\* A step of the one that works by which it frees the lock and stops.
LEMMA FreesLock ==
  ASSUME OneWorkAtATime, work_lock' = FALSE, NEW w \in Working,
         \A v : v \in Working' <=> v \in Working /\ v # w
  PROVE  OneWorkAtATime'
<1>1. \A v \in Working : v = w
  BY DEF OneWorkAtATime
<1>2. Working' = {}
  BY <1>1
<1>3. QED
  BY <1>2 DEF OneWorkAtATime

\* An update of a job leaves a registry of the same jobs, and changes nothing when
\* no job is active.
LEMMA UpdateKeepsRegistry ==
  ASSUME registry \in Seq(Job), NEW e, NEW status \in JobStatuses, UpdateJob(e, status)
  PROVE  /\ registry' \in Seq(Job)
         /\ (\A i \in DOMAIN registry : ~JobIsActive(registry[i])) => UNCHANGED registry
<1>1. CASE UNCHANGED registry
  BY <1>1
<1>2. CASE /\ \E i \in DOMAIN registry : registry[i].id = e /\ JobIsActive(registry[i])
           /\ registry' = [i \in DOMAIN registry |->
                             IF registry[i].id = e
                             THEN [registry[i] EXCEPT !.status = status] ELSE registry[i]]
  <2>1. DOMAIN registry = 1..Len(registry) /\ Len(registry) \in Nat
    BY LenProperties
  <2>2. \A i \in 1..Len(registry) : registry[i] \in Job
    BY ElementOfSeq
  <2>3. \A i \in 1..Len(registry) :
          (IF registry[i].id = e THEN [registry[i] EXCEPT !.status = status] ELSE registry[i])
            \in Job
    BY <2>2 DEF Job
  <2>4. registry' \in [1..Len(registry) -> Job]
    BY <1>2, <2>1, <2>3
  <2>5. QED
    BY <1>2, <2>1, <2>4, SeqDef
<1>3. QED
  BY <1>1, <1>2 DEF UpdateJob

\* A job may be registered whenever none is active: either there is room or the
\* first job goes.
LEMMA RegistrationKeepsRegistry ==
  ASSUME StatesTyped, HandlerControl, NEW e \in Submissions, Register(e)
  PROVE  /\ registry' \in Seq(Job)
         /\ submission' = [submission EXCEPT ![e] = "registered"]
         /\ UNCHANGED handler
<1>1. [id |-> e, status |-> "queued"] \in Job
  BY DEF Job, JobStatuses
<1>2. registry \in Seq(Job) /\ Len(registry) \in Nat /\ DOMAIN registry = 1..Len(registry)
  BY LenProperties DEF StatesTyped
<1>3. ~RegistryIsFull
  <2>1. \A i \in DOMAIN registry : MakesRoom(registry[i])
    BY DEF Register, HandlerControl, MakesRoom
  <2>2. Len(registry) >= HistoryLimit => 1 \in DOMAIN registry
    BY <1>2, ApiAssumption
  <2>3. QED
    BY <2>1, <2>2 DEF RegistryIsFull
<1>4. ASSUME NEW i \in DOMAIN registry
      PROVE  RemoveAt(registry, i) \in Seq(Job)
  <2>1. i \in Int /\ 1 <= i /\ i <= Len(registry)
    BY <1>2
  <2>2. \A k \in 1..(i - 1) : registry[k] \in Job
    BY <1>2, <2>1, ElementOfSeq
  <2>3. \A k \in (i + 1)..Len(registry) : registry[k] \in Job
    BY <1>2, <2>1, ElementOfSeq
  <2>4. SubSeq(registry, 1, i - 1) \in Seq(Job)
    BY <2>1, <2>2, SubSeqProperties
  <2>5. SubSeq(registry, i + 1, Len(registry)) \in Seq(Job)
    BY <1>2, <2>1, <2>3, SubSeqProperties
  <2>6. QED
    BY <2>4, <2>5, ConcatProperties DEF RemoveAt
<1>5. \E others \in Seq(Job) : Registered(e, others)
  BY <1>2, <1>3, <1>4 DEF Register
<1>6. QED
  BY <1>1, <1>5, AppendProperties DEF Registered

\* A step that leaves the jobs and the handler's states alone.
LEMMA KeepsControl ==
  ASSUME HandlerControl, RegistryHasRoom, UNCHANGED <<submission, registry, handler>>
  PROVE  HandlerControl' /\ RegistryHasRoom'
  BY DEF HandlerControl, RegistryHasRoom

\* The exclusion and what it depends on are inductive.
LEMMA ExclusionHolds == Spec => []ExclusionInv
<1>1. Init => ExclusionInv
  <2> SUFFICES ASSUME Init PROVE ExclusionInv
    OBVIOUS
  <2>1. StatesTyped
    BY DEF Init, StatesTyped, QueryStates, SubmissionStates
  <2>2. HandlerControl /\ RegistryHasRoom
    BY DEF Init, HandlerControl, RegistryHasRoom
  <2>3. \A w : w \notin Working
    BY WorkingIs DEF Init, QueryWorks, SubmissionWorks
  <2>4. QED
    BY <2>1, <2>2, <2>3 DEF ExclusionInv, OneWorkAtATime, Init
<1>2. ExclusionInv /\ [Next]_vars => ExclusionInv'
  <2> SUFFICES ASSUME StatesTyped, HandlerControl, RegistryHasRoom, OneWorkAtATime, [Next]_vars
               PROVE  ExclusionInv'
    BY DEF ExclusionInv
  <2> USE DEF querying, evaluating
  <2>1. ASSUME NEW q \in QueryRequests, PostQuery(q) PROVE ExclusionInv'
    <3>1. StatesTyped'
      BY <2>1 DEF PostQuery, StatesTyped, QueryStates, SubmissionStates
    <3>2. HandlerControl' /\ RegistryHasRoom'
      BY <2>1, KeepsControl DEF PostQuery
    <3>3. CASE work_lock
      <4>1. Working' = Working /\ UNCHANGED work_lock
        <5>1. /\ query[q] = "unsent" /\ query' = [query EXCEPT ![q] = "rejected"]
              /\ UNCHANGED work_lock /\ UNCHANGED submission
          BY <2>1, <3>3 DEF PostQuery
        <5>2. \A w : w \in Working' <=> w \in Working
          BY <5>1, WorkingIs DEF StatesTyped, QueryWorks, SubmissionWorks
        <5>3. QED
          BY <5>1, <5>2
      <4>2. QED
        BY <3>1, <3>2, <4>1, KeepsExclusion DEF ExclusionInv
    <3>4. CASE ~work_lock
      <4>1. \A v : v \in Working' <=> v \in Working \/ v = q
        BY <2>1, <3>4, WorkingIs, ApiAssumption
           DEF PostQuery, StatesTyped, QueryWorks, SubmissionWorks
      <4>2. work_lock' = TRUE
        BY <2>1, <3>4 DEF PostQuery
      <4>3. QED
        BY <3>1, <3>2, <3>4, <4>1, <4>2, TakesLock DEF ExclusionInv
    <3>5. QED
      BY <3>3, <3>4
  <2>2. ASSUME NEW q \in QueryRequests, Disconnect(q) PROVE ExclusionInv'
    <3>1. StatesTyped'
      BY <2>2 DEF Disconnect, StatesTyped, QueryStates, SubmissionStates
    <3>2. HandlerControl' /\ RegistryHasRoom'
      BY <2>2, KeepsControl DEF Disconnect
    <3>3. Working' = Working /\ UNCHANGED work_lock
      BY <2>2, WorkingIs DEF Disconnect, StatesTyped, QueryWorks, SubmissionWorks
    <3>4. QED
      BY <3>1, <3>2, <3>3, KeepsExclusion DEF ExclusionInv
  <2>3. ASSUME NEW q \in QueryRequests, ExecuteQuery(q) PROVE ExclusionInv'
    <3>1. StatesTyped'
      BY <2>3 DEF ExecuteQuery, StatesTyped, QueryStates, SubmissionStates
    <3>2. HandlerControl' /\ RegistryHasRoom'
      BY <2>3, KeepsControl DEF ExecuteQuery
    <3>3. Working' = Working /\ UNCHANGED work_lock
      BY <2>3, WorkingIs DEF ExecuteQuery, StatesTyped, QueryWorks, SubmissionWorks
    <3>4. QED
      BY <3>1, <3>2, <3>3, KeepsExclusion DEF ExclusionInv
  <2>4. ASSUME NEW q \in QueryRequests, Record(q) PROVE ExclusionInv'
    <3>1. StatesTyped'
      BY <2>4 DEF Record, StatesTyped, QueryStates, SubmissionStates
    <3>2. HandlerControl' /\ RegistryHasRoom'
      BY <2>4, KeepsControl DEF Record
    <3>3. Working' = Working /\ UNCHANGED work_lock
      BY <2>4, WorkingIs DEF Record, StatesTyped, QueryWorks, SubmissionWorks
    <3>4. QED
      BY <3>1, <3>2, <3>3, KeepsExclusion DEF ExclusionInv
  <2>5. ASSUME NEW q \in QueryRequests, ReleaseQuery(q) PROVE ExclusionInv'
    <3>1. StatesTyped'
      BY <2>5 DEF ReleaseQuery, Recorded, StatesTyped, QueryStates, SubmissionStates
    <3>2. HandlerControl' /\ RegistryHasRoom'
      BY <2>5, KeepsControl DEF ReleaseQuery, Recorded
    <3>3. q \in Working /\ work_lock' = FALSE
      BY <2>5, WorkingIs DEF ReleaseQuery, Recorded, StatesTyped, QueryWorks, SubmissionWorks
    <3>4. \A v : v \in Working' <=> v \in Working /\ v # q
      BY <2>5, WorkingIs, ApiAssumption
         DEF ReleaseQuery, Recorded, StatesTyped, QueryWorks, SubmissionWorks
    <3>5. QED
      BY <3>1, <3>2, <3>3, <3>4, FreesLock DEF ExclusionInv
  <2>6. ASSUME NEW q \in QueryRequests, Respond(q) PROVE ExclusionInv'
    <3>1. StatesTyped'
      BY <2>6 DEF Respond, StatesTyped, QueryStates, SubmissionStates
    <3>2. HandlerControl' /\ RegistryHasRoom'
      BY <2>6, KeepsControl DEF Respond
    <3>3. Working' = Working /\ UNCHANGED work_lock
      BY <2>6, WorkingIs DEF Respond, StatesTyped, QueryWorks, SubmissionWorks
    <3>4. QED
      BY <3>1, <3>2, <3>3, KeepsExclusion DEF ExclusionInv
  <2>7. ASSUME NEW e \in Submissions, PostEvaluation(e) PROVE ExclusionInv'
    <3>1. StatesTyped'
      BY <2>7 DEF PostEvaluation, StatesTyped, QueryStates, SubmissionStates
    <3>2. HandlerControl' /\ RegistryHasRoom'
      <4>1. CASE HasActiveEvaluation
        BY <2>7, <4>1 DEF PostEvaluation, HandlerControl, RegistryHasRoom, StatesTyped
      <4>2. CASE ~HasActiveEvaluation
        <5>1. \A i \in DOMAIN registry : ~JobIsActive(registry[i])
          BY <4>2 DEF HasActiveEvaluation
        <5>2. \A other \in Submissions :
                submission[other] \notin {"checked", "locked", "registered", "start_failed"}
          BY <2>7, ApiAssumption DEF PostEvaluation, HandlerControl
        <5>3. QED
          BY <2>7, <4>2, <5>1, <5>2
             DEF PostEvaluation, HandlerControl, RegistryHasRoom, StatesTyped
      <4>3. QED
        BY <4>1, <4>2
    <3>3. Working' = Working /\ UNCHANGED work_lock
      BY <2>7, WorkingIs DEF PostEvaluation, StatesTyped, QueryWorks, SubmissionWorks
    <3>4. QED
      BY <3>1, <3>2, <3>3, KeepsExclusion DEF ExclusionInv
  <2>8. ASSUME NEW e \in Submissions, AcquireForEvaluation(e) PROVE ExclusionInv'
    <3>1. StatesTyped'
      BY <2>8 DEF AcquireForEvaluation, StatesTyped, QueryStates, SubmissionStates
    <3>2. HandlerControl' /\ RegistryHasRoom'
      BY <2>8 DEF AcquireForEvaluation, HandlerControl, RegistryHasRoom, StatesTyped
    <3>3. CASE work_lock
      <4>1. Working' = Working /\ UNCHANGED work_lock
        BY <2>8, <3>3, WorkingIs
           DEF AcquireForEvaluation, StatesTyped, QueryWorks, SubmissionWorks
      <4>2. QED
        BY <3>1, <3>2, <4>1, KeepsExclusion DEF ExclusionInv
    <3>4. CASE ~work_lock
      <4>1. \A v : v \in Working' <=> v \in Working \/ v = e
        BY <2>8, <3>4, WorkingIs, ApiAssumption
           DEF AcquireForEvaluation, StatesTyped, QueryWorks, SubmissionWorks
      <4>2. work_lock' = TRUE
        BY <2>8, <3>4 DEF AcquireForEvaluation
      <4>3. QED
        BY <3>1, <3>2, <3>4, <4>1, <4>2, TakesLock DEF ExclusionInv
    <3>5. QED
      BY <3>3, <3>4
  <2>9. ASSUME NEW e \in Submissions, Register(e) PROVE ExclusionInv'
    <3>1. StatesTyped'
      BY <2>9, RegistrationKeepsRegistry DEF Register, StatesTyped, QueryStates, SubmissionStates
    <3>2. HandlerControl' /\ RegistryHasRoom'
      BY <2>9, RegistrationKeepsRegistry
         DEF Register, HandlerControl, RegistryHasRoom, StatesTyped
    <3>3. Working' = Working /\ UNCHANGED work_lock
      BY <2>9, WorkingIs, RegistrationKeepsRegistry
         DEF Register, StatesTyped, QueryWorks, SubmissionWorks
    <3>4. QED
      BY <3>1, <3>2, <3>3, KeepsExclusion DEF ExclusionInv
  <2>10. ASSUME NEW e \in Submissions, StartThread(e) PROVE ExclusionInv'
    <3>1. StatesTyped'
      BY <2>10 DEF StartThread, StatesTyped, QueryStates, SubmissionStates
    <3>2. HandlerControl' /\ RegistryHasRoom'
      BY <2>10 DEF StartThread, HandlerControl, RegistryHasRoom, StatesTyped
    <3>3. Working' = Working /\ UNCHANGED work_lock
      BY <2>10, WorkingIs DEF StartThread, StatesTyped, QueryWorks, SubmissionWorks
    <3>4. QED
      BY <3>1, <3>2, <3>3, KeepsExclusion DEF ExclusionInv
  <2>11. ASSUME NEW e \in Submissions, StartFails(e) PROVE ExclusionInv'
    <3>1. StatesTyped'
      BY <2>11 DEF StartFails, StatesTyped, QueryStates, SubmissionStates
    <3>2. HandlerControl' /\ RegistryHasRoom'
      BY <2>11 DEF StartFails, HandlerControl, RegistryHasRoom, StatesTyped
    <3>3. e \in Working /\ work_lock' = FALSE
      BY <2>11, WorkingIs DEF StartFails, StatesTyped, QueryWorks, SubmissionWorks
    <3>4. \A v : v \in Working' <=> v \in Working /\ v # e
      BY <2>11, WorkingIs, ApiAssumption DEF StartFails, StatesTyped, QueryWorks, SubmissionWorks
    <3>5. QED
      BY <3>1, <3>2, <3>3, <3>4, FreesLock DEF ExclusionInv
  <2>12. ASSUME NEW e \in Submissions, FailUnstarted(e) PROVE ExclusionInv'
    <3>1. StatesTyped'
      BY <2>12, UpdateKeepsRegistry
         DEF FailUnstarted, StatesTyped, QueryStates, SubmissionStates, JobStatuses
    <3>2. HandlerControl' /\ RegistryHasRoom'
      <4>1. (\A i \in DOMAIN registry : ~JobIsActive(registry[i])) => UNCHANGED registry
        BY <2>12, UpdateKeepsRegistry
           DEF FailUnstarted, StatesTyped, QueryStates, SubmissionStates, JobStatuses
      <4>2. QED
        BY <2>12, <4>1 DEF FailUnstarted, HandlerControl, RegistryHasRoom, StatesTyped
    <3>3. Working' = Working /\ UNCHANGED work_lock
      BY <2>12, WorkingIs DEF FailUnstarted, StatesTyped, QueryWorks, SubmissionWorks
    <3>4. QED
      BY <3>1, <3>2, <3>3, KeepsExclusion DEF ExclusionInv
  <2>13. ASSUME NEW e \in Submissions, BeginJob(e) PROVE ExclusionInv'
    <3>1. StatesTyped'
      BY <2>13, UpdateKeepsRegistry
         DEF BeginJob, StatesTyped, QueryStates, SubmissionStates, JobStatuses
    <3>2. HandlerControl' /\ RegistryHasRoom'
      <4>1. (\A i \in DOMAIN registry : ~JobIsActive(registry[i])) => UNCHANGED registry
        BY <2>13, UpdateKeepsRegistry
           DEF BeginJob, StatesTyped, QueryStates, SubmissionStates, JobStatuses
      <4>2. QED
        BY <2>13, <4>1 DEF BeginJob, HandlerControl, RegistryHasRoom, StatesTyped
    <3>3. Working' = Working /\ UNCHANGED work_lock
      BY <2>13, WorkingIs DEF BeginJob, StatesTyped, QueryWorks, SubmissionWorks
    <3>4. QED
      BY <3>1, <3>2, <3>3, KeepsExclusion DEF ExclusionInv
  <2>14. ASSUME NEW e \in Submissions, FinishJob(e) PROVE ExclusionInv'
    <3>1. StatesTyped'
      BY <2>14, UpdateKeepsRegistry
         DEF FinishJob, StatesTyped, QueryStates, SubmissionStates, JobStatuses
    <3>2. HandlerControl' /\ RegistryHasRoom'
      <4>1. (\A i \in DOMAIN registry : ~JobIsActive(registry[i])) => UNCHANGED registry
        BY <2>14, UpdateKeepsRegistry
           DEF FinishJob, StatesTyped, QueryStates, SubmissionStates, JobStatuses
      <4>2. QED
        BY <2>14, <4>1 DEF FinishJob, HandlerControl, RegistryHasRoom, StatesTyped
    <3>3. Working' = Working /\ UNCHANGED work_lock
      BY <2>14, WorkingIs DEF FinishJob, StatesTyped, QueryWorks, SubmissionWorks
    <3>4. QED
      BY <3>1, <3>2, <3>3, KeepsExclusion DEF ExclusionInv
  <2>15. ASSUME NEW e \in Submissions, ReleaseJob(e) PROVE ExclusionInv'
    <3>1. StatesTyped'
      BY <2>15 DEF ReleaseJob, StatesTyped, QueryStates, SubmissionStates
    <3>2. HandlerControl' /\ RegistryHasRoom'
      BY <2>15 DEF ReleaseJob, HandlerControl, RegistryHasRoom, StatesTyped
    <3>3. e \in Working /\ work_lock' = FALSE
      BY <2>15, WorkingIs DEF ReleaseJob, StatesTyped, QueryWorks, SubmissionWorks
    <3>4. \A v : v \in Working' <=> v \in Working /\ v # e
      BY <2>15, WorkingIs, ApiAssumption DEF ReleaseJob, StatesTyped, QueryWorks, SubmissionWorks
    <3>5. QED
      BY <3>1, <3>2, <3>3, <3>4, FreesLock DEF ExclusionInv
  <2>16. CASE UNCHANGED vars
    <3>1. StatesTyped'
      BY <2>16 DEF vars, StatesTyped, QueryStates, SubmissionStates
    <3>2. HandlerControl' /\ RegistryHasRoom'
      BY <2>16, KeepsControl DEF vars
    <3>3. Working' = Working /\ UNCHANGED work_lock
      BY <2>16, WorkingIs DEF vars, StatesTyped, QueryWorks, SubmissionWorks
    <3>4. QED
      BY <3>1, <3>2, <3>3, KeepsExclusion DEF ExclusionInv
  <2>17. QED
    BY <2>1, <2>2, <2>3, <2>4, <2>5, <2>6, <2>7, <2>8, <2>9, <2>10, <2>11, <2>12, <2>13, <2>14, <2>15, <2>16
       DEF Next, QueryWorker, SubmissionHandler, EvaluationWorker, Settled
<1>3. QED
  BY <1>1, <1>2, PTL DEF Spec

\* Queries and evaluations exclude each other, however many are sent and however
\* the threads interleave (routes/query.py, routes/evaluation.py: work_lock).
THEOREM MutualExclusion == Spec => []OneWorkAtATime
<1>1. ExclusionInv => OneWorkAtATime
  BY DEF ExclusionInv
<1>2. QED
  BY <1>1, ExclusionHolds, PTL

\* No registration meets a registry it cannot make room in, which would raise with
\* the lock held (service.py register_evaluation_job).
THEOREM RegistrationsFindRoom == Spec => []RegistryHasRoom
<1>1. ExclusionInv => RegistryHasRoom
  BY DEF ExclusionInv
<1>2. QED
  BY <1>1, ExclusionHolds, PTL

-----------------------------------------------------------------------------
(* The registry of evaluation jobs.                                         *)

\* Where a submission is while its job is active, and from its registration on.
Waits  == {"registered", "start_failed", "started"}
Works  == Waits \cup {"running"}
HasJob == Works \cup {"unavailable", "finishing", "released"}

\* The registry `reg' and the submissions `sub' tell the same of every job, no job is in it
\* twice, and at most one is active.
RegistryKeeps(reg, sub) ==
  /\ Len(reg) <= HistoryLimit
  /\ \A i, j \in DOMAIN reg : reg[i].id = reg[j].id => i = j
  /\ \A i \in DOMAIN reg :
       /\ sub[reg[i].id] \in HasJob
       /\ reg[i].status = "queued" <=> sub[reg[i].id] \in Waits
       /\ reg[i].status = "running" <=> sub[reg[i].id] = "running"
  /\ \A e \in Submissions : sub[e] \in Works => \E i \in DOMAIN reg : reg[i].id = e
  /\ \A i, j \in DOMAIN reg : JobIsActive(reg[i]) /\ JobIsActive(reg[j]) => i = j

CountersKeep(reg, counts) ==
  /\ counts \in [JobCounters -> Nat]
  /\ counts.submitted = counts.running + counts.completed + counts.failed
  /\ counts.running = IF \E i \in DOMAIN reg : JobIsActive(reg[i]) THEN 1 ELSE 0

JobInv == RegistryKeeps(registry, submission) /\ CountersKeep(registry, job_counts)

-----------------------------------------------------------------------------
(* What a poll sees.                                                        *)

StatusOf(reg, sub) ==
  [e \in Submissions |->
     IF \E i \in DOMAIN reg : reg[i].id = e
     THEN reg[CHOOSE i \in DOMAIN reg : reg[i].id = e].status
     ELSE IF sub[e] \in {"unsent", "refused", "checked", "locked", "crashed"} THEN "unknown"
     ELSE "forgotten"]

LEMMA StatusIs == JobStatus = StatusOf(registry, submission) /\ JobStatus' = StatusOf(registry', submission')
  BY DEF JobStatus, StatusOf

\* A job that is in the registry has the status it has there.
LEMMA RegisteredStatus ==
  ASSUME NEW reg, NEW sub, RegistryKeeps(reg, sub), NEW i \in DOMAIN reg,
         reg[i].id \in Submissions
  PROVE  StatusOf(reg, sub)[reg[i].id] = reg[i].status
<1> DEFINE e == reg[i].id
           k == CHOOSE j \in DOMAIN reg : reg[j].id = e
<1>1. k \in DOMAIN reg /\ reg[k].id = e
  OBVIOUS
<1>2. k = i
  BY <1>1 DEF RegistryKeeps
<1>3. \E j \in DOMAIN reg : reg[j].id = e
  OBVIOUS
<1>4. StatusOf(reg, sub)[e] = reg[k].status
  BY <1>3 DEF StatusOf
<1>5. QED
  BY <1>2, <1>4

\* A job that is not there is unknown or forgotten.
LEMMA OtherStatus ==
  ASSUME NEW reg, NEW sub, NEW e \in Submissions, \A i \in DOMAIN reg : reg[i].id # e
  PROVE  StatusOf(reg, sub)[e] =
           IF sub[e] \in {"unsent", "refused", "checked", "locked", "crashed"} THEN "unknown"
           ELSE "forgotten"
  BY DEF StatusOf

\* The jobs of a registry are submissions.
LEMMA JobsTyped ==
  ASSUME NEW reg \in Seq(Job)
  PROVE  /\ DOMAIN reg = 1..Len(reg) /\ Len(reg) \in Nat
         /\ \A i \in DOMAIN reg :
              reg[i] \in Job /\ reg[i].id \in Submissions /\ reg[i].status \in JobStatuses
<1>1. DOMAIN reg = 1..Len(reg) /\ Len(reg) \in Nat
  BY LenProperties
<1>2. \A i \in DOMAIN reg : reg[i] \in Job
  BY <1>1, ElementOfSeq
<1>3. QED
  BY <1>1, <1>2 DEF Job

-----------------------------------------------------------------------------
(* Steps that leave the registry alone.                                     *)

\* A submission that moves this way takes no job with it.
SameKind(s, t) ==
  \/ s = t
  \/ s \notin HasJob /\ t \notin HasJob
  \/ s \in Waits /\ t \in Waits
  \/ s \in HasJob \ Works /\ t \in HasJob \ Works

LEMMA JobsUntouched ==
  ASSUME StatesTyped, StatesTyped', JobInv, UNCHANGED <<registry, job_counts>>,
         \A e \in Submissions : SameKind(submission[e], submission'[e])
  PROVE  JobInv' /\ UNCHANGED JobStatus
<1>1. \A i \in DOMAIN registry : registry[i].id \in Submissions
  BY JobsTyped DEF StatesTyped
<1>2. RegistryKeeps(registry', submission')
  BY <1>1 DEF JobInv, RegistryKeeps, SameKind, HasJob, Works, Waits
<1>3. CountersKeep(registry', job_counts')
  BY DEF JobInv
<1>4. ASSUME NEW e \in Submissions
      PROVE  StatusOf(registry, submission)[e] = StatusOf(registry', submission')[e]
  <2>1. submission[e] \in HasJob <=> submission'[e] \in HasJob
    BY DEF SameKind, HasJob, Works
  <2>2. submission[e] \in SubmissionStates /\ submission'[e] \in SubmissionStates
    BY DEF StatesTyped
  <2>3. submission[e] \in {"unsent", "refused", "checked", "locked", "crashed"}
          <=> submission'[e] \in {"unsent", "refused", "checked", "locked", "crashed"}
    BY <2>1, <2>2 DEF SubmissionStates, HasJob, Works, Waits
  <2>4. QED
    BY <2>3 DEF StatusOf
<1>5. StatusOf(registry, submission) = StatusOf(registry', submission')
  BY <1>4 DEF StatusOf
<1>6. QED
  BY <1>2, <1>3, <1>5, StatusIs DEF JobInv

-----------------------------------------------------------------------------
(* Registration.                                                            *)

\* What stays of a registry: jobs it has, none of them twice, with room for another.
Remains(others, reg) ==
  /\ others \in Seq(Job) /\ Len(others) < HistoryLimit
  /\ \A k \in DOMAIN others : \E m \in DOMAIN reg : others[k] = reg[m]
  /\ \A j, k \in DOMAIN others : others[j].id = others[k].id => j = k

\* How the positions behind i among n are counted.
LEMMA PositionsBehind ==
  ASSUME NEW n \in Nat, NEW i \in Int, 1 <= i, i <= n
  PROVE  /\ (IF i + 1 <= n THEN n - (i + 1) + 1 ELSE 0) = n - i
         /\ \A k \in 1..(n - i) : k \in 1..(n - (i + 1) + 1) /\ (i + 1) + k - 1 = k + i
  OBVIOUS

LEMMA RemovalRemains ==
  ASSUME NEW reg \in Seq(Job), NEW i \in DOMAIN reg, Len(reg) <= HistoryLimit,
         \A j, k \in DOMAIN reg : reg[j].id = reg[k].id => j = k
  PROVE  Remains(RemoveAt(reg, i), reg)
<1> DEFINE before == SubSeq(reg, 1, i - 1)
           after == SubSeq(reg, i + 1, Len(reg))
           Was(k) == IF k < i THEN k ELSE k + 1
<1>1. DOMAIN reg = 1..Len(reg) /\ Len(reg) \in Nat /\ \A k \in 1..Len(reg) : reg[k] \in Job
  BY JobsTyped
<1>2. i \in Int /\ 1 <= i /\ i <= Len(reg) /\ HistoryLimit \in Nat
  BY <1>1, ApiAssumption
<1>3. /\ before \in Seq(Job) /\ Len(before) = i - 1
      /\ \A k \in 1..(i - 1) : before[k] = reg[k]
  <2>1. \A k \in 1..(i - 1) : reg[k] \in Job
    BY <1>1, <1>2
  <2>2. /\ before \in Seq(Job) /\ Len(before) = IF 1 <= i - 1 THEN (i - 1) - 1 + 1 ELSE 0
        /\ \A k \in 1..((i - 1) - 1 + 1) : before[k] = reg[1 + k - 1]
    BY <2>1, <1>2, SubSeqProperties
  <2>3. QED
    BY <2>2, <1>2
<1>4. /\ after \in Seq(Job) /\ Len(after) = Len(reg) - i
      /\ \A k \in 1..(Len(reg) - i) : after[k] = reg[k + i]
  <2>1. \A k \in (i + 1)..Len(reg) : reg[k] \in Job
    BY <1>1, <1>2
  <2>2. /\ after \in Seq(Job)
        /\ Len(after) = IF i + 1 <= Len(reg) THEN Len(reg) - (i + 1) + 1 ELSE 0
        /\ \A k \in 1..(Len(reg) - (i + 1) + 1) : after[k] = reg[(i + 1) + k - 1]
    BY <2>1, <1>1, <1>2, SubSeqProperties
  <2> HIDE DEF after
  <2>3. Len(reg) \in Nat /\ i \in Int /\ 1 <= i /\ i <= Len(reg)
    BY <1>1, <1>2, Zenon
  <2>4. Len(after) = Len(reg) - i
    BY <2>2, <2>3, PositionsBehind
  <2>5. ASSUME NEW k \in 1..(Len(reg) - i) PROVE after[k] = reg[k + i]
    <3>1. k \in 1..(Len(reg) - (i + 1) + 1) /\ (i + 1) + k - 1 = k + i
      BY <2>3, PositionsBehind
    <3>2. QED
      BY <2>2, <3>1, Zenon
  <2>6. QED
    BY <2>2, <2>4, <2>5, Zenon
<1>5. /\ RemoveAt(reg, i) \in Seq(Job) /\ Len(RemoveAt(reg, i)) = Len(reg) - 1
      /\ \A k \in 1..(Len(reg) - 1) : RemoveAt(reg, i)[k] = reg[Was(k)]
  <2>0. before \in Seq(Job) /\ after \in Seq(Job)
    BY <1>3, <1>4, Zenon
  <2> HIDE DEF before, after
  <2>1. /\ before \o after \in Seq(Job)
        /\ Len(before \o after) = Len(before) + Len(after)
        /\ \A k \in 1..(Len(before) + Len(after)) :
             (before \o after)[k] = IF k <= Len(before) THEN before[k] ELSE after[k - Len(before)]
    BY <2>0, ConcatProperties
  <2>2. ASSUME NEW k \in 1..(Len(reg) - 1) PROVE (before \o after)[k] = reg[Was(k)]
    <3>0. k \in 1..(Len(before) + Len(after)) /\ (k < i <=> k <= Len(before))
      BY <1>1, <1>2, <1>3, <1>4
    <3>1. CASE k < i
      <4>1. (before \o after)[k] = before[k]
        BY <2>1, <3>0, <3>1
      <4>2. before[k] = reg[k]
        BY <1>2, <1>3, <3>1
      <4>3. QED
        BY <4>1, <4>2, <3>1
    <3>2. CASE k >= i
      <4>1. k - (i - 1) \in 1..(Len(reg) - i)
        BY <1>1, <1>2, <3>2
      <4>2. after[k - (i - 1)] = reg[k - (i - 1) + i]
        BY <4>1, <1>4
      <4>3. QED
        <5>1. (before \o after)[k] = after[k - Len(before)] /\ ~(k < i)
          BY <2>1, <3>0, <3>2, <1>2
        <5>2. k - (i - 1) + i = k + 1
          BY <1>1, <1>2
        <5>3. QED
          BY <1>3, <4>2, <5>1, <5>2
    <3>3. k < i \/ k >= i
      BY <1>1, <1>2
    <3>4. QED
      BY <3>1, <3>2, <3>3, Zenon
  <2>3. Len(before) + Len(after) = Len(reg) - 1
    BY <1>1, <1>2, <1>3, <1>4
  <2>4. RemoveAt(reg, i) = before \o after
    BY Zenon DEF RemoveAt, before, after
  <2>5. QED
    BY <2>1, <2>2, <2>3, <2>4, Zenon
<1> DEFINE shorter == RemoveAt(reg, i)
           n == Len(reg) - 1
<1>6. DOMAIN shorter = 1..n
  BY <1>5, LenProperties
<1>7. \A k \in 1..n : Was(k) \in DOMAIN reg
  BY <1>1, <1>2
<1>8. \A j, k \in 1..n : Was(j) = Was(k) => j = k
  BY <1>1, <1>2
<1>9. \A j, k \in DOMAIN shorter : shorter[j].id = shorter[k].id => j = k
  <2> SUFFICES ASSUME NEW j \in 1..n, NEW k \in 1..n, shorter[j].id = shorter[k].id PROVE j = k
    BY <1>6, Zenon
  <2>1. shorter[j] = reg[Was(j)] /\ shorter[k] = reg[Was(k)]
    BY <1>5, Zenon
  <2>2. Was(j) = Was(k)
    BY <2>1, <1>7, Zenon
  <2>3. QED
    BY <2>2, <1>8, Zenon
<1>10. \A k \in DOMAIN shorter : \E m \in DOMAIN reg : shorter[k] = reg[m]
  BY <1>5, <1>6, <1>7, Zenon
<1>11. shorter \in Seq(Job) /\ Len(shorter) < HistoryLimit
  <2>1. n < HistoryLimit
    BY <1>1, <1>2
  <2>2. QED
    BY <2>1, <1>5, Zenon
<1>12. QED
  BY <1>9, <1>10, <1>11, Zenon DEF Remains

\* A registration replaces the registry by what stays of it and the new job.
LEMMA RegistrationAppends ==
  ASSUME StatesTyped, HandlerControl, JobInv, NEW e \in Submissions, Register(e)
  PROVE  \E others : Remains(others, registry) /\ Registered(e, others)
<1>1. registry \in Seq(Job) /\ Len(registry) <= HistoryLimit
      /\ \A j, k \in DOMAIN registry : registry[j].id = registry[k].id => j = k
  BY DEF StatesTyped, JobInv, RegistryKeeps
<1>2. DOMAIN registry = 1..Len(registry) /\ Len(registry) \in Nat /\ HistoryLimit \in Nat \ {0}
  BY <1>1, JobsTyped, ApiAssumption
<1>3. ~RegistryIsFull
  <2>1. \A i \in DOMAIN registry : MakesRoom(registry[i])
    BY DEF Register, HandlerControl, MakesRoom
  <2>2. Len(registry) >= HistoryLimit => 1 \in DOMAIN registry
    BY <1>2
  <2>3. QED
    BY <2>1, <2>2 DEF RegistryIsFull
<1>4. Len(registry) < HistoryLimit => Remains(registry, registry)
  BY <1>1 DEF Remains
<1>5. \A i \in DOMAIN registry : Remains(RemoveAt(registry, i), registry)
  BY <1>1, RemovalRemains
<1>6. QED
  BY <1>3, <1>4, <1>5 DEF Register

\* The new job is the only active one, and finished jobs at most are forgotten.
LEMMA JobRegistered ==
  ASSUME StatesTyped, StatesTyped', HandlerControl, JobInv, NEW e \in Submissions, Register(e)
  PROVE  JobInv' /\ Board!Submit(e)
<1>1. PICK others : Remains(others, registry) /\ Registered(e, others)
  BY RegistrationAppends
<1> DEFINE new == [id |-> e, status |-> "queued"]
<1>2. new \in Job /\ new.id = e /\ new.status = "queued"
  BY DEF Job, JobStatuses
<1>3. others \in Seq(Job) /\ registry' = Append(others, new)
  BY <1>1 DEF Remains, Registered
<1>4. /\ DOMAIN others = 1..Len(others) /\ Len(others) \in Nat
      /\ \A k \in DOMAIN others : others[k].id \in Submissions /\ others[k].status \in JobStatuses
  BY <1>3, JobsTyped
<1>5. /\ Len(registry') = Len(others) + 1
      /\ \A k \in 1..Len(others) : registry'[k] = others[k]
      /\ registry'[Len(others) + 1] = new
      /\ DOMAIN registry' = 1..(Len(others) + 1)
  <2>1. /\ Append(others, new) \in Seq(Job)
        /\ Len(Append(others, new)) = Len(others) + 1
        /\ \A k \in 1..Len(others) : Append(others, new)[k] = others[k]
        /\ Append(others, new)[Len(others) + 1] = new
    BY <1>2, <1>3, AppendProperties
  <2>2. QED
    BY <2>1, <1>3, LenProperties
<1>6. submission[e] = "locked" /\ submission' = [submission EXCEPT ![e] = "registered"]
  BY <1>1 DEF Register, Registered
<1>7. \A i \in DOMAIN registry : ~JobIsActive(registry[i]) /\ registry[i].id # e
  BY <1>6 DEF HandlerControl, JobInv, RegistryKeeps, HasJob, Works, Waits
<1>8. \A k \in DOMAIN others : ~JobIsActive(others[k]) /\ others[k].id # e
  BY <1>1, <1>7 DEF Remains
<1>9. \A d \in Submissions : submission[d] \notin Works
  BY <1>7 DEF JobInv, RegistryKeeps, JobIsActive, Works
<1>10. RegistryKeeps(registry', submission')
  <2>1. Len(registry') <= HistoryLimit
    BY <1>1, <1>4, <1>5, ApiAssumption DEF Remains
  <2>2. \A i, j \in DOMAIN registry' : registry'[i].id = registry'[j].id => i = j
    BY <1>1, <1>2, <1>4, <1>5, <1>8 DEF Remains
  <2>3. ASSUME NEW i \in DOMAIN registry'
        PROVE  /\ submission'[registry'[i].id] \in HasJob
               /\ registry'[i].status = "queued" <=> submission'[registry'[i].id] \in Waits
               /\ registry'[i].status = "running" <=> submission'[registry'[i].id] = "running"
    <3>1. CASE i = Len(others) + 1
      <4>1. submission'[e] = "registered"
        BY <1>6 DEF StatesTyped
      <4>2. QED
        BY <3>1, <4>1, <1>2, <1>5 DEF HasJob, Works, Waits
    <3>2. CASE i \in DOMAIN others
      <4>1. PICK m \in DOMAIN registry : others[i] = registry[m]
        BY <1>1, <3>2 DEF Remains
      <4>2. registry'[i] = registry[m] /\ submission'[registry[m].id] = submission[registry[m].id]
        BY <1>4, <1>5, <1>6, <1>7, <3>2, <4>1 DEF StatesTyped
      <4>3. QED
        BY <4>2 DEF JobInv, RegistryKeeps
    <3>3. QED
      BY <3>1, <3>2, <1>4, <1>5
  <2>4. \A d \in Submissions : submission'[d] \in Works => \E i \in DOMAIN registry' : registry'[i].id = d
    <3>1. \A d \in Submissions : submission'[d] \in Works => d = e
      BY <1>6, <1>9 DEF StatesTyped
    <3>2. Len(others) + 1 \in DOMAIN registry' /\ registry'[Len(others) + 1].id = e
      BY <1>2, <1>4, <1>5
    <3>3. QED
      BY <3>1, <3>2
  <2>5. \A i \in DOMAIN registry' : JobIsActive(registry'[i]) => i = Len(others) + 1
    BY <1>4, <1>5, <1>8
  <2>6. QED
    BY <2>1, <2>2, <2>3, <2>4, <2>5 DEF RegistryKeeps
<1>11. CountersKeep(registry', job_counts')
  <2>1. JobIsActive(registry'[Len(others) + 1]) /\ Len(others) + 1 \in DOMAIN registry'
    BY <1>2, <1>4, <1>5 DEF JobIsActive
  <2>2. job_counts' = [job_counts EXCEPT !.submitted = @ + 1, !.running = @ + 1]
    BY <1>1 DEF Registered
  <2>3. job_counts.running = 0
    BY <1>7 DEF JobInv, CountersKeep
  <2>4. /\ job_counts \in [JobCounters -> Nat]
        /\ job_counts.submitted = job_counts.running + job_counts.completed + job_counts.failed
    BY DEF JobInv, CountersKeep
  <2>5. /\ job_counts' \in [JobCounters -> Nat]
        /\ job_counts'.submitted = job_counts.submitted + 1 /\ job_counts'.running = 1
        /\ job_counts'.completed = job_counts.completed /\ job_counts'.failed = job_counts.failed
    <3>1. DOMAIN job_counts = JobCounters /\ \A c \in JobCounters : job_counts[c] \in Nat
      BY <2>4
    <3>2. job_counts' = [c \in JobCounters |-> IF c = "submitted" THEN job_counts["submitted"] + 1
                                               ELSE IF c = "running" THEN job_counts["running"] + 1
                                               ELSE job_counts[c]]
      BY <2>2, <3>1, Zenon DEF JobCounters
    <3>3. QED
      BY <2>3, <3>1, <3>2 DEF JobCounters
  <2>6. job_counts'.submitted = job_counts'.running + job_counts'.completed + job_counts'.failed
    BY <2>3, <2>4, <2>5 DEF JobCounters
  <2>7. \E i \in DOMAIN registry' : JobIsActive(registry'[i])
    BY <2>1, Zenon
  <2>8. QED
    BY <2>5, <2>6, <2>7 DEF CountersKeep
<1> DEFINE was == StatusOf(registry, submission)
           is == StatusOf(registry', submission')
<1>12. was[e] = "unknown"
  BY <1>6, <1>7, OtherStatus
<1>13. is[e] = "queued"
  BY <1>2, <1>4, <1>5, <1>10, RegisteredStatus
<1>14. ASSUME NEW i \in DOMAIN registry
       PROVE  /\ was[registry[i].id] = registry[i].status
              /\ registry[i].status \in {"completed", "failed"}
              /\ registry[i].id \in Submissions
  BY <1>7, RegisteredStatus, JobsTyped DEF JobInv, StatesTyped, JobIsActive, JobStatuses
<1>15. \A d \in Submissions : was[d] \notin {"queued", "running"}
  <2>1. ASSUME NEW d \in Submissions, \A i \in DOMAIN registry : registry[i].id # d
        PROVE  was[d] \in {"unknown", "forgotten"}
    BY <2>1, OtherStatus
  <2>2. QED
    BY <2>1, <1>14
<1> DEFINE forgotten == {d \in Submissions : /\ \E i \in DOMAIN registry : registry[i].id = d
                                            /\ \A k \in DOMAIN others : others[k].id # d}
<1>16. ASSUME NEW d \in Submissions, d # e
       PROVE  is[d] = IF d \in forgotten THEN "forgotten" ELSE was[d]
  <2>1. submission'[d] = submission[d]
    BY <1>6, <1>16 DEF StatesTyped
  <2>2. CASE \E k \in DOMAIN others : others[k].id = d
    <3>1. PICK k \in DOMAIN others : others[k].id = d
      BY <2>2
    <3>2. PICK m \in DOMAIN registry : others[k] = registry[m]
      BY <1>1, <3>1 DEF Remains
    <3>3. k \in DOMAIN registry' /\ registry'[k] = others[k]
      BY <1>4, <1>5
    <3>4. is[d] = registry'[k].status
      BY <3>1, <3>3, <1>10, RegisteredStatus
    <3>5. was[d] = registry[m].status
      BY <3>1, <3>2, <1>14
    <3>6. QED
      BY <2>2, <3>2, <3>3, <3>4, <3>5
  <2>3. CASE \A k \in DOMAIN others : others[k].id # d
    <3>1. \A k \in DOMAIN registry' : registry'[k].id # d
      BY <2>3, <1>2, <1>4, <1>5, <1>16
    <3>2. is[d] = IF submission[d] \in {"unsent", "refused", "checked", "locked", "crashed"}
                  THEN "unknown" ELSE "forgotten"
      BY <2>1, <3>1, OtherStatus
    <3>3. CASE \E i \in DOMAIN registry : registry[i].id = d
      <4>1. submission[d] \in HasJob
        BY <3>3 DEF JobInv, RegistryKeeps
      <4>2. QED
        BY <2>3, <3>2, <3>3, <4>1 DEF HasJob, Works, Waits
    <3>4. CASE \A i \in DOMAIN registry : registry[i].id # d
      BY <2>3, <3>2, <3>4, OtherStatus
    <3>5. QED
      BY <3>3, <3>4
  <2>4. QED
    BY <2>2, <2>3
<1>17. forgotten \in SUBSET {k \in Submissions : was[k] \in {"completed", "failed"}}
  BY <1>14
<1>18. e \notin forgotten
  BY <1>7
<1>19. is = [k \in Submissions |-> IF k = e THEN "queued"
                                   ELSE IF k \in forgotten THEN "forgotten" ELSE was[k]]
  <2>1. is = [k \in Submissions |-> is[k]]
    BY DEF StatusOf
  <2>2. \A k \in Submissions : is[k] = IF k = e THEN "queued"
                                      ELSE IF k \in forgotten THEN "forgotten" ELSE was[k]
    BY <1>13, <1>16
  <2> HIDE DEF is, was, forgotten
  <2>3. QED
    BY <2>1, <2>2
<1>20. Board!Submit(e)
  <2>1. JobStatus = was /\ JobStatus' = is
    BY StatusIs
  <2>2. \A k \in Submissions : ~Board!Active(k)
    BY <2>1, <1>15 DEF Board!Active
  <2>3. forgotten \in SUBSET {k \in Submissions : Board!Terminal(k)}
    BY <2>1, <1>17 DEF Board!Terminal
  <2>4. QED
    BY <2>1, <2>2, <2>3, <1>12, <1>19 DEF Board!Submit
<1>21. QED
  BY <1>10, <1>11, <1>20 DEF JobInv

-----------------------------------------------------------------------------
(* Updates.                                                                 *)

\* What an update leaves of the job it is about, and where the submission is then.
Moves(status, s, t) ==
  \/ status = "running" /\ s \in Waits /\ t = "running"
  \/ status \in {"completed", "failed"} /\ s \in Works /\ t \in HasJob \ Works

\* The counters after an update of the only active job.
LEMMA UpdateCounts ==
  ASSUME NEW status \in {"running", "completed", "failed"},
         CountersKeep(registry, job_counts), job_counts.running = 1
  PROVE  /\ Counted(status) \in [JobCounters -> Nat]
         /\ Counted(status).submitted =
              Counted(status).running + Counted(status).completed + Counted(status).failed
         /\ Counted(status).running = IF status = "running" THEN 1 ELSE 0
<1>1. /\ job_counts \in [JobCounters -> Nat]
      /\ job_counts.submitted = job_counts.running + job_counts.completed + job_counts.failed
  BY DEF CountersKeep
<1>2. DOMAIN job_counts = JobCounters /\ \A c \in JobCounters : job_counts[c] \in Nat
  BY <1>1
<1> DEFINE counts == [c \in JobCounters |->
                        IF c = "completed" /\ status = "completed" THEN job_counts["completed"] + 1
                        ELSE IF c = "failed" /\ status = "failed" THEN job_counts["failed"] + 1
                        ELSE IF c = "running" /\ status # "running" THEN 0
                        ELSE job_counts[c]]
<1>3. job_counts["running"] = 1
  OBVIOUS
<1>4. Counted(status) = counts
  <2> DEFINE done == IF status = "completed" THEN job_counts["completed"] + 1 ELSE job_counts["completed"]
             lost == IF status = "failed" THEN job_counts["failed"] + 1 ELSE job_counts["failed"]
             left == IF status # "running" /\ job_counts["running"] > 0 THEN job_counts["running"] - 1
                     ELSE job_counts["running"]
  <2>1. Counted(status) = [c \in JobCounters |-> IF c = "running" THEN left
                                                ELSE IF c = "failed" THEN lost
                                                ELSE IF c = "completed" THEN done
                                                ELSE job_counts[c]]
    BY <1>2, Zenon DEF Counted, JobCounters
  <2>2. left = IF status = "running" THEN 1 ELSE 0
    BY <1>3
  <2>3. QED
    BY <2>1, <2>2, <1>3
<1>5. /\ counts \in [JobCounters -> Nat]
      /\ counts["submitted"] = counts["running"] + counts["completed"] + counts["failed"]
      /\ counts["running"] = IF status = "running" THEN 1 ELSE 0
  BY <1>1, <1>2, <1>3 DEF JobCounters
<1>6. QED
  BY <1>4, <1>5

\* A submission whose job is active updates that job and no other.
LEMMA JobUpdated ==
  ASSUME StatesTyped, StatesTyped', JobInv, NEW e \in Submissions, NEW status, NEW t,
         Moves(status, submission[e], t), UpdateJob(e, status),
         submission' = [submission EXCEPT ![e] = t]
  PROVE  /\ JobInv'
         /\ JobStatus[e] = (IF submission[e] \in Waits THEN "queued" ELSE "running")
         /\ JobStatus' = [JobStatus EXCEPT ![e] = status]
<1>1. submission[e] \in Works /\ status \in {"running", "completed", "failed"}
  BY DEF Moves, Works
<1>2. PICK i \in DOMAIN registry : registry[i].id = e
  BY <1>1 DEF JobInv, RegistryKeeps
<1>3. JobIsActive(registry[i])
  BY <1>1, <1>2 DEF JobInv, RegistryKeeps, JobIsActive, Works
<1>4. registry \in Seq(Job) /\ registry' \in Seq(Job)
  BY DEF StatesTyped
<1>5. DOMAIN registry = 1..Len(registry) /\ Len(registry) \in Nat
      /\ \A k \in DOMAIN registry : registry[k] \in Job /\ registry[k].id \in Submissions
  BY <1>4, JobsTyped
<1>6. \A k \in DOMAIN registry : registry[k].id = e <=> k = i
  BY <1>2 DEF JobInv, RegistryKeeps
<1>7. /\ registry' = [k \in DOMAIN registry |->
                        IF registry[k].id = e THEN [registry[k] EXCEPT !.status = status]
                        ELSE registry[k]]
      /\ job_counts' = Counted(status)
  BY <1>2, <1>3, Zenon DEF UpdateJob
<1>8. /\ DOMAIN registry' = DOMAIN registry /\ Len(registry') = Len(registry)
      /\ \A k \in DOMAIN registry : k # i => registry'[k] = registry[k]
      /\ registry'[i].id = e /\ registry'[i].status = status
  <2>1. DOMAIN registry' = DOMAIN registry
    BY <1>7
  <2>2. DOMAIN registry' = 1..Len(registry') /\ Len(registry') \in Nat
    BY <1>4, JobsTyped
  <2>3. Len(registry') = Len(registry)
    BY <1>5, <2>1, <2>2
  <2>4. \A k \in DOMAIN registry : k # i => registry'[k] = registry[k]
    BY <1>6, <1>7
  <2>5. registry[i] \in Job /\ registry'[i] = [registry[i] EXCEPT !.status = status]
    BY <1>2, <1>5, <1>7
  <2>6. QED
    BY <1>2, <2>1, <2>3, <2>4, <2>5 DEF Job
<1>9. \A k \in DOMAIN registry : k # i => ~JobIsActive(registry[k])
  BY <1>3 DEF JobInv, RegistryKeeps
<1>10. submission'[e] = t /\ \A d \in Submissions : d # e => submission'[d] = submission[d]
  BY DEF StatesTyped
<1>11. RegistryKeeps(registry', submission')
  <2>1. Len(registry') <= HistoryLimit
    BY <1>8 DEF JobInv, RegistryKeeps
  <2>2. \A j, k \in DOMAIN registry' : registry'[j].id = registry'[k].id => j = k
    BY <1>2, <1>8 DEF JobInv, RegistryKeeps
  <2>3. ASSUME NEW k \in DOMAIN registry'
        PROVE  /\ submission'[registry'[k].id] \in HasJob
               /\ registry'[k].status = "queued" <=> submission'[registry'[k].id] \in Waits
               /\ registry'[k].status = "running" <=> submission'[registry'[k].id] = "running"
    <3>1. CASE k = i
      BY <3>1, <1>8, <1>10 DEF Moves, HasJob, Works, Waits
    <3>2. CASE k # i
      <4>1. registry'[k] = registry[k] /\ submission'[registry[k].id] = submission[registry[k].id]
        BY <3>2, <1>5, <1>6, <1>8, <1>10
      <4>2. QED
        BY <4>1, <1>8 DEF JobInv, RegistryKeeps
    <3>3. QED
      BY <3>1, <3>2
  <2>4. ASSUME NEW d \in Submissions, submission'[d] \in Works
        PROVE  \E k \in DOMAIN registry' : registry'[k].id = d
    <3>1. submission[d] \in Works
      BY <2>4, <1>1, <1>10
    <3>2. PICK k \in DOMAIN registry : registry[k].id = d
      BY <3>1 DEF JobInv, RegistryKeeps
    <3>3. registry'[k].id = d
      BY <3>2, <1>2, <1>8
    <3>4. QED
      BY <3>2, <3>3, <1>8
  <2>5. \A k \in DOMAIN registry' : JobIsActive(registry'[k]) => k = i
    BY <1>8, <1>9
  <2>6. QED
    BY <2>1, <2>2, <2>3, <2>4, <2>5 DEF RegistryKeeps
<1>12. CountersKeep(registry', job_counts')
  <2>1. job_counts.running = 1
    BY <1>2, <1>3 DEF JobInv, CountersKeep
  <2>2. (\E k \in DOMAIN registry' : JobIsActive(registry'[k])) <=> status = "running"
    BY <1>1, <1>8, <1>9 DEF JobIsActive
  <2>3. QED
    BY <1>1, <1>7, <2>1, <2>2, UpdateCounts DEF JobInv, CountersKeep
<1> DEFINE was == StatusOf(registry, submission)
           is == StatusOf(registry', submission')
<1>13. was[e] = registry[i].status
  BY <1>2, RegisteredStatus DEF JobInv
<1>14. is[e] = status
  BY <1>2, <1>8, <1>11, RegisteredStatus
<1>15. ASSUME NEW d \in Submissions, d # e PROVE is[d] = was[d]
  <2>1. CASE \E k \in DOMAIN registry : registry[k].id = d
    <3>1. PICK k \in DOMAIN registry : registry[k].id = d
      BY <2>1
    <3>2. k # i /\ k \in DOMAIN registry' /\ registry'[k] = registry[k]
      BY <3>1, <1>2, <1>8, <1>15
    <3>3. was[d] = registry[k].status
      BY <3>1, RegisteredStatus DEF JobInv
    <3>4. is[d] = registry'[k].status
      BY <3>1, <3>2, <1>11, RegisteredStatus
    <3>5. QED
      BY <3>2, <3>3, <3>4
  <2>2. CASE \A k \in DOMAIN registry : registry[k].id # d
    <3>1. \A k \in DOMAIN registry' : registry'[k].id # d
      BY <2>2, <1>8, <1>15
    <3>2. submission'[d] = submission[d]
      BY <1>10, <1>15
    <3>3. was[d] = IF submission[d] \in {"unsent", "refused", "checked", "locked", "crashed"}
                   THEN "unknown" ELSE "forgotten"
      BY <2>2, OtherStatus
    <3>4. is[d] = IF submission'[d] \in {"unsent", "refused", "checked", "locked", "crashed"}
                  THEN "unknown" ELSE "forgotten"
      BY <3>1, OtherStatus
    <3> HIDE DEF is, was
    <3>5. QED
      BY <3>2, <3>3, <3>4
  <2>3. QED
    BY <2>1, <2>2
<1>16. is = [was EXCEPT ![e] = status]
  <2>1. is = [k \in Submissions |-> is[k]] /\ was = [k \in Submissions |-> was[k]]
    BY DEF StatusOf
  <2> HIDE DEF is, was
  <2>2. QED
    BY <2>1, <1>14, <1>15
<1>17. was[e] = IF submission[e] \in Waits THEN "queued" ELSE "running"
  BY <1>1, <1>2, <1>13 DEF JobInv, RegistryKeeps, Works
<1>18. QED
  BY <1>11, <1>12, <1>16, <1>17, StatusIs DEF JobInv

-----------------------------------------------------------------------------
(* The registry over all steps.                                             *)

\* Initially there are no jobs.
LEMMA NoJobsAtFirst == Init => JobInv /\ Board!Init
<1> SUFFICES ASSUME Init PROVE JobInv /\ Board!Init
  OBVIOUS
<1>1. registry = <<>> /\ DOMAIN registry = {} /\ Len(registry) = 0
  BY DEF Init
<1>2. \A e \in Submissions : submission[e] = "unsent"
  BY DEF Init
<1>3. RegistryKeeps(registry, submission)
  BY <1>1, <1>2, ApiAssumption DEF RegistryKeeps, Works, Waits
<1>4. job_counts = [c \in JobCounters |-> 0]
  BY DEF Init
<1>5. CountersKeep(registry, job_counts)
  BY <1>1, <1>4 DEF CountersKeep, JobCounters
<1>6. JobStatus = [e \in Submissions |-> "unknown"]
  BY <1>1, <1>2 DEF JobStatus
<1>7. QED
  BY <1>3, <1>5, <1>6 DEF JobInv, Board!Init

\* Every step keeps the registry and is one EvaluationJobs allows.
LEMMA StepsKeepJobs ==
  ASSUME ExclusionInv, ExclusionInv', JobInv, [Next]_vars
  PROVE  JobInv' /\ [Board!Next]_JobStatus
<1>1. StatesTyped /\ StatesTyped' /\ HandlerControl
  BY DEF ExclusionInv
<1>2. CASE UNCHANGED <<submission, registry, job_counts>>
  BY <1>1, <1>2, JobsUntouched DEF SameKind
<1>3. ASSUME NEW q \in QueryRequests, PostQuery(q) \/ Disconnect(q) \/ QueryWorker(q) \/ Respond(q)
      PROVE  UNCHANGED <<submission, registry, job_counts>>
  BY <1>3, Zenon DEF PostQuery, Disconnect, QueryWorker, ExecuteQuery, Record, ReleaseQuery, Respond,
     evaluating
<1>4. ASSUME NEW e \in Submissions, PostEvaluation(e) PROVE JobInv' /\ UNCHANGED JobStatus
  <2>1. \A d \in Submissions : SameKind(submission[d], submission'[d])
    BY <1>1, <1>4 DEF PostEvaluation, StatesTyped, SameKind, HasJob, Works, Waits
  <2>2. QED
    BY <1>1, <1>4, <2>1, JobsUntouched DEF PostEvaluation
<1>5. ASSUME NEW e \in Submissions, AcquireForEvaluation(e) PROVE JobInv' /\ UNCHANGED JobStatus
  <2>1. \A d \in Submissions : SameKind(submission[d], submission'[d])
    BY <1>1, <1>5 DEF AcquireForEvaluation, StatesTyped, SameKind, HasJob, Works, Waits
  <2>2. QED
    BY <1>1, <1>5, <2>1, JobsUntouched DEF AcquireForEvaluation
<1>6. ASSUME NEW e \in Submissions, Register(e) PROVE JobInv' /\ Board!Submit(e)
  BY <1>1, <1>6, JobRegistered
<1>7. ASSUME NEW e \in Submissions, StartThread(e) PROVE JobInv' /\ UNCHANGED JobStatus
  <2>1. \A d \in Submissions : SameKind(submission[d], submission'[d])
    BY <1>1, <1>7 DEF StartThread, StatesTyped, SameKind, Waits
  <2>2. QED
    BY <1>1, <1>7, <2>1, JobsUntouched DEF StartThread
<1>8. ASSUME NEW e \in Submissions, StartFails(e) PROVE JobInv' /\ UNCHANGED JobStatus
  <2>1. \A d \in Submissions : SameKind(submission[d], submission'[d])
    BY <1>1, <1>8 DEF StartFails, StatesTyped, SameKind, Waits
  <2>2. UNCHANGED <<registry, job_counts>>
    BY <1>8 DEF StartFails
  <2>3. QED
    BY <1>1, <2>1, <2>2, JobsUntouched
<1>9. ASSUME NEW e \in Submissions, FailUnstarted(e) PROVE JobInv' /\ Board!NeverBegin(e)
  <2>1. Moves("failed", submission[e], "unavailable") /\ submission[e] \in Waits
    BY <1>9 DEF FailUnstarted, Moves, HasJob, Works, Waits
  <2>2. /\ JobInv' /\ JobStatus[e] = "queued"
        /\ JobStatus' = [JobStatus EXCEPT ![e] = "failed"]
    BY <1>1, <1>9, <2>1, JobUpdated DEF FailUnstarted
  <2>3. QED
    BY <2>2 DEF Board!NeverBegin
<1>10. ASSUME NEW e \in Submissions, BeginJob(e) PROVE JobInv' /\ Board!Begin(e)
  <2>1. Moves("running", submission[e], "running") /\ submission[e] \in Waits
    BY <1>10 DEF BeginJob, Moves, Waits
  <2>2. /\ JobInv' /\ JobStatus[e] = "queued"
        /\ JobStatus' = [JobStatus EXCEPT ![e] = "running"]
    BY <1>1, <1>10, <2>1, JobUpdated DEF BeginJob
  <2>3. QED
    BY <2>2 DEF Board!Begin
<1>11. ASSUME NEW e \in Submissions, FinishJob(e) PROVE JobInv' /\ Board!Finish(e)
  <2>1. PICK outcome \in {"completed", "failed"} : UpdateJob(e, outcome)
    BY <1>11 DEF FinishJob
  <2>2. Moves(outcome, submission[e], "finishing") /\ submission[e] \notin Waits
    BY <1>11 DEF FinishJob, Moves, HasJob, Works, Waits
  <2>3. submission' = [submission EXCEPT ![e] = "finishing"]
    BY <1>11 DEF FinishJob
  <2>4. /\ JobInv' /\ JobStatus[e] = "running"
        /\ JobStatus' = [JobStatus EXCEPT ![e] = outcome]
    BY <1>1, <2>1, <2>2, <2>3, JobUpdated
  <2>5. QED
    BY <2>4 DEF Board!Finish
<1>12. ASSUME NEW e \in Submissions, ReleaseJob(e) PROVE JobInv' /\ UNCHANGED JobStatus
  <2>1. \A d \in Submissions : SameKind(submission[d], submission'[d])
    BY <1>1, <1>12 DEF ReleaseJob, StatesTyped, SameKind, HasJob, Works, Waits
  <2>2. UNCHANGED <<registry, job_counts>>
    BY <1>12 DEF ReleaseJob
  <2>3. QED
    BY <1>1, <2>1, <2>2, JobsUntouched
<1>13. UNCHANGED vars => UNCHANGED <<submission, registry, job_counts>>
  BY DEF vars, evaluating
<1>14. QED
  BY <1>2, <1>3, <1>4, <1>5, <1>6, <1>7, <1>8, <1>9, <1>10, <1>11, <1>12, <1>13
     DEF Next, SubmissionHandler, EvaluationWorker, Settled, Board!Next

LEMMA JobsHold == Spec => []JobInv
<1>1. Init => JobInv
  BY NoJobsAtFirst
<1>2. ExclusionInv /\ ExclusionInv' /\ JobInv /\ [Next]_vars => JobInv'
  BY StepsKeepJobs
<1>3. QED
  BY <1>1, <1>2, ExclusionHolds, PTL DEF Spec

\* Between two updates the job counters add up and agree with the registry, which never holds
\* more than its limit (service.py register_evaluation_job, update_evaluation_job).
THEOREM CountersAgree == Spec => []JobCountersAgree
<1>1. StatesTyped /\ JobInv => JobCountersAgree
  <2> SUFFICES ASSUME StatesTyped, JobInv PROVE JobCountersAgree
    OBVIOUS
  <2> DEFINE active == {i \in DOMAIN registry : JobIsActive(registry[i])}
  <2>1. CASE active = {}
    BY <2>1, FS_EmptySet DEF JobInv, RegistryKeeps, CountersKeep, JobCountersAgree
  <2>2. CASE active # {}
    <3>1. PICK i \in DOMAIN registry : JobIsActive(registry[i])
      BY <2>2
    <3>2. active = {i}
      BY <3>1 DEF JobInv, RegistryKeeps
    <3>3. Cardinality(active) = 1
      BY <3>2, FS_Singleton
    <3>4. QED
      BY <3>1, <3>3 DEF JobInv, RegistryKeeps, CountersKeep, JobCountersAgree
  <2>3. QED
    BY <2>1, <2>2
<1>2. ExclusionInv => StatesTyped
  BY DEF ExclusionInv
<1>3. QED
  BY <1>1, <1>2, ExclusionHolds, JobsHold, PTL

\* What a client that polls GET /v1/eval/{id} sees of the jobs is what EvaluationJobs allows:
\* one is active at a time, each goes from queued over running to one outcome, and a job
\* without an outcome is never forgotten, whatever fails and however the threads interleave.
THEOREM PollersAreToldTheTruth == Spec => JobsKeepPromise
<1>1. Init => Board!Init
  BY NoJobsAtFirst
<1>2. ExclusionInv /\ ExclusionInv' /\ JobInv /\ [Next]_vars => [Board!Next]_JobStatus
  BY StepsKeepJobs
<1>3. QED
  BY <1>1, <1>2, ExclusionHolds, JobsHold, PTL DEF Spec, JobsKeepPromise, Board!Spec
=============================================================================
