--------------------------- MODULE ApiQueries_proofs ---------------------------
(***************************************************************************)
(* What the queries leave in the metrics and the history, for any number of *)
(* queries and any history limit; and the types of the whole coordinator.   *)
(***************************************************************************)
EXTENDS ApiService_proofs

Names == Counters \cup {"history"}

\* One, if x is among these.
One(x, S) == IF x \in S THEN 1 ELSE 0

\* How often a worker that still has to record r will record under this name; r has two
\* entries at most.
Pending(r, name) ==
  IF r = <<>> THEN 0
  ELSE One(Head(r), {name}) + (IF Tail(r) = <<>> THEN 0 ELSE One(Head(Tail(r)), {name}))

\* With `ok', `failed' and `late' queries released that answered 200, with an error, and with
\* 504, the metrics m and a history of length h are right once the query that will answer with
\* this code has recorded r.
Balanced(ok, failed, late, m, h, r, code) ==
  LET runs == ok + One(code, {200}) - Pending(r, "history")
  IN  /\ m["completed"] + m["abstained"] + Pending(r, "completed") + Pending(r, "abstained")
           = ok + One(code, {200})
      /\ m["failed"] + Pending(r, "failed") = failed + One(code, {500, 503, 504})
      /\ m["timeout"] + Pending(r, "timeout") = late + One(code, {504})
      /\ runs >= 0 /\ h = IF runs < HistoryLimit THEN runs ELSE HistoryLimit

Balance(r, code) ==
  Balanced(Cardinality(Answered({200})), Cardinality(Answered({500, 503, 504})),
           Cardinality(Answered({504})), metrics, Len(history), r, code)

\* One query records at a time, so that nothing else is missing from the balance.
AccountInv ==
  /\ IsFiniteSet({q \in QueryRequests : query[q] = "released"})
  /\ (\A q \in QueryRequests : query[q] # "recording") => Balance(<<>>, 0)
  /\ \A q \in QueryRequests : query[q] = "recording" =>
       Len(records[q]) <= 2 /\ Balance(records[q], reply[q])

QueriesTyped ==
  /\ records \in [QueryRequests -> Seq(Names)]
  /\ reply \in [QueryRequests -> {0, 200, 429, 500, 503, 504}]
  /\ client \in [QueryRequests -> {"waiting", "answered", "gone"}]
  /\ history \in Seq(QueryRequests) /\ metrics \in [Counters -> Nat]
  /\ work_lock \in BOOLEAN /\ handler \in Submissions \cup {Nobody}

-----------------------------------------------------------------------------
(* The balance as a query goes on.                                          *)

LEMMA RecordsTyped ==
  ASSUME NEW outcome \in Outcomes
  PROVE  /\ RecordsOf(outcome) \in Seq(Names) /\ Len(RecordsOf(outcome)) <= 2
         /\ ReplyTo(outcome) \in {200, 500, 503, 504}
<1>1. \A x, y \in Names : /\ <<x>> \in Seq(Names) /\ Len(<<x>>) = 1
                          /\ <<x, y>> \in Seq(Names) /\ Len(<<x, y>>) = 2
  OBVIOUS
<1>2. {"history", "completed", "abstained", "failed", "timeout", "store_error"} \subseteq Names
  BY DEF Names, Counters, QueryStatuses
<1>3. ReplyTo(outcome) \in {200, 500, 503, 504}
  BY DEF ReplyTo, Outcomes
<1>4. \/ \E x \in Names : RecordsOf(outcome) = <<x>>
      \/ \E x, y \in Names : RecordsOf(outcome) = <<x, y>>
  BY <1>2 DEF RecordsOf, Outcomes
<1>5. RecordsOf(outcome) \in Seq(Names) /\ Len(RecordsOf(outcome)) <= 2
  <2>1. CASE \E x \in Names : RecordsOf(outcome) = <<x>>
    BY <2>1, <1>1
  <2>2. CASE \E x, y \in Names : RecordsOf(outcome) = <<x, y>>
    BY <2>2, <1>1
  <2>3. QED
    BY <2>1, <2>2, <1>4
<1>6. QED
  BY <1>3, <1>5

\* Whatever comes of a query, it will record what its answer says.
LEMMA ExecutionBalances ==
  ASSUME NEW outcome \in Outcomes, NEW ok \in Nat, NEW failed \in Nat, NEW late \in Nat,
         NEW m \in [Counters -> Nat], NEW h \in Nat, Balanced(ok, failed, late, m, h, <<>>, 0)
  PROVE  Balanced(ok, failed, late, m, h, RecordsOf(outcome), ReplyTo(outcome))
<1> DEFINE r == RecordsOf(outcome)
           code == ReplyTo(outcome)
<1>1. /\ Pending(r, "completed") + Pending(r, "abstained") = One(code, {200})
      /\ Pending(r, "failed") = One(code, {500, 503, 504})
      /\ Pending(r, "timeout") = One(code, {504})
      /\ Pending(r, "history") = One(code, {200})
      /\ Pending(r, "completed") \in Nat /\ Pending(r, "abstained") \in Nat
  BY DEF RecordsOf, ReplyTo, Outcomes, Pending, One
<1>2. /\ m["completed"] \in Nat /\ m["abstained"] \in Nat /\ m["failed"] \in Nat /\ m["timeout"] \in Nat
  BY DEF Counters, QueryStatuses
<1>3. /\ m["completed"] + m["abstained"] = ok /\ m["failed"] = failed /\ m["timeout"] = late
      /\ h = IF ok < HistoryLimit THEN ok ELSE HistoryLimit
  BY <1>2, ApiAssumption DEF Balanced, Pending, One
<1>4. One(code, {200}) \in 0..1 /\ One(code, {500, 503, 504}) \in 0..1 /\ One(code, {504}) \in 0..1
  BY DEF One
<1> HIDE DEF r, code
<1>5. Balanced(ok, failed, late, m, h, r, code)
  <2>1. m["completed"] + m["abstained"] + Pending(r, "completed") + Pending(r, "abstained")
          = ok + One(code, {200})
    BY <1>1, <1>2, <1>3, <1>4
  <2>2. /\ m["failed"] + Pending(r, "failed") = failed + One(code, {500, 503, 504})
        /\ m["timeout"] + Pending(r, "timeout") = late + One(code, {504})
    BY <1>1, <1>3
  <2>3. ok + One(code, {200}) - Pending(r, "history") = ok
    BY <1>1, <1>4
  <2>4. QED
    BY <1>3, <2>1, <2>2, <2>3 DEF Balanced
<1>6. QED
  BY <1>5 DEF r, code

\* What is recorded is no longer pending.
LEMMA PendingTail ==
  ASSUME NEW r \in Seq(Names), r # <<>>, Len(r) <= 2, NEW name
  PROVE  /\ Pending(r, name) = One(Head(r), {name}) + Pending(Tail(r), name)
         /\ Pending(Tail(r), name) \in Nat /\ One(Head(r), {name}) \in 0..1
<1>1. Tail(r) \in Seq(Names) /\ Len(Tail(r)) <= 1
  BY HeadTailProperties, LenProperties
<1>2. CASE Tail(r) = <<>>
  BY <1>2 DEF Pending, One
<1>3. CASE Tail(r) # <<>>
  <2>1. Tail(Tail(r)) \in Seq(Names) /\ Len(Tail(Tail(r))) = 0
    <3>1. Tail(Tail(r)) \in Seq(Names) /\ Len(Tail(Tail(r))) = Len(Tail(r)) - 1
      BY <1>1, <1>3, HeadTailProperties
    <3>2. Len(Tail(r)) \in Nat /\ Len(Tail(Tail(r))) \in Nat
      BY <1>1, <3>1, LenProperties
    <3> DEFINE one == Len(Tail(r))
               none == Len(Tail(Tail(r)))
    <3>3. one \in Nat /\ none \in Nat /\ none = one - 1 /\ one <= 1
      BY <1>1, <3>1, <3>2, Zenon
    <3> HIDE DEF one, none
    <3>4. none = 0
      BY <3>3
    <3>5. QED
      BY <3>1, <3>4, Zenon DEF none
  <2>2. Tail(Tail(r)) = <<>>
    BY <2>1, EmptySeq
  <2>3. QED
    BY <1>3, <2>2 DEF Pending, One
<1>4. QED
  BY <1>2, <1>3

LEMMA RecordingBalances ==
  ASSUME NEW ok \in Nat, NEW failed \in Nat, NEW late \in Nat, NEW m \in [Counters -> Nat],
         NEW h \in Nat, NEW r \in Seq(Names), r # <<>>, Len(r) <= 2, NEW code,
         Balanced(ok, failed, late, m, h, r, code)
  PROVE  /\ Head(r) = "history" =>
              Balanced(ok, failed, late, m, IF h >= HistoryLimit THEN h ELSE h + 1, Tail(r), code)
         /\ Head(r) # "history" =>
              Balanced(ok, failed, late, [m EXCEPT ![Head(r)] = @ + 1], h, Tail(r), code)
<1>1. /\ m["completed"] \in Nat /\ m["abstained"] \in Nat /\ m["failed"] \in Nat /\ m["timeout"] \in Nat
      /\ DOMAIN m = Counters
      /\ {"completed", "abstained", "failed", "timeout"} \subseteq Counters
  BY DEF Counters, QueryStatuses
<1>2. \A name : /\ Pending(r, name) = One(Head(r), {name}) + Pending(Tail(r), name)
                /\ Pending(Tail(r), name) \in Nat /\ One(Head(r), {name}) \in 0..1
  BY PendingTail
<1>3. One(code, {200}) \in 0..1 /\ One(code, {500, 503, 504}) \in 0..1 /\ One(code, {504}) \in 0..1
  BY DEF One
<1>4. /\ m["completed"] + m["abstained"] + Pending(r, "completed") + Pending(r, "abstained")
           = ok + One(code, {200})
      /\ m["failed"] + Pending(r, "failed") = failed + One(code, {500, 503, 504})
      /\ m["timeout"] + Pending(r, "timeout") = late + One(code, {504})
      /\ ok + One(code, {200}) - Pending(r, "history") >= 0
      /\ h = IF ok + One(code, {200}) - Pending(r, "history") < HistoryLimit
             THEN ok + One(code, {200}) - Pending(r, "history") ELSE HistoryLimit
  BY DEF Balanced
<1>5. CASE Head(r) = "history"
  <2>1. /\ Pending(r, "history") = 1 + Pending(Tail(r), "history")
        /\ \A name : name # "history" => Pending(r, name) = Pending(Tail(r), name)
    BY <1>2, <1>5 DEF One
  <2>2. /\ Pending(r, "completed") = Pending(Tail(r), "completed")
        /\ Pending(r, "abstained") = Pending(Tail(r), "abstained")
        /\ Pending(r, "failed") = Pending(Tail(r), "failed")
        /\ Pending(r, "timeout") = Pending(Tail(r), "timeout")
    BY <2>1
  <2> DEFINE next == IF h >= HistoryLimit THEN h ELSE h + 1
             before == Pending(r, "history")
             after == Pending(Tail(r), "history")
             good == One(code, {200})
  <2>3. /\ before = 1 + after /\ after \in Nat /\ good \in 0..1
        /\ ok + good - before >= 0
        /\ h = IF ok + good - before < HistoryLimit THEN ok + good - before ELSE HistoryLimit
    <3>1. before = 1 + after
      BY <2>1, Zenon
    <3>2. after \in Nat /\ good \in 0..1
      BY <1>2, <1>3, Zenon
    <3>3. /\ ok + good - before >= 0
          /\ h = IF ok + good - before < HistoryLimit THEN ok + good - before ELSE HistoryLimit
      BY <1>4, Zenon
    <3>4. QED
      BY <3>1, <3>2, <3>3, Zenon
  <2> HIDE DEF before, after, good
  <2>4. /\ ok + good - after >= 0
        /\ next = IF ok + good - after < HistoryLimit THEN ok + good - after ELSE HistoryLimit
    BY <2>3, ApiAssumption
  <2>5. Balanced(ok, failed, late, m, next, Tail(r), code)
    BY <1>4, <2>2, <2>4 DEF Balanced, good, after
  <2>6. QED
    BY <1>5, <2>5
<1>6. CASE Head(r) # "history"
  <2> DEFINE n == [m EXCEPT ![Head(r)] = @ + 1]
  <2>1. \A c \in Counters : n[c] = m[c] + One(Head(r), {c})
    BY <1>1 DEF One
  <2>2. /\ n["completed"] = m["completed"] + One(Head(r), {"completed"})
        /\ n["abstained"] = m["abstained"] + One(Head(r), {"abstained"})
        /\ n["failed"] = m["failed"] + One(Head(r), {"failed"})
        /\ n["timeout"] = m["timeout"] + One(Head(r), {"timeout"})
    BY <2>1, <1>1
  <2>3. Pending(r, "history") = Pending(Tail(r), "history")
    BY <1>2, <1>6 DEF One
  <2> HIDE DEF n
  <2>4. n["completed"] + n["abstained"] + Pending(Tail(r), "completed")
          + Pending(Tail(r), "abstained") = ok + One(code, {200})
    <3>1. /\ Pending(r, "completed") = One(Head(r), {"completed"}) + Pending(Tail(r), "completed")
          /\ Pending(r, "abstained") = One(Head(r), {"abstained"}) + Pending(Tail(r), "abstained")
          /\ One(Head(r), {"completed"}) \in 0..1 /\ One(Head(r), {"abstained"}) \in 0..1
          /\ Pending(Tail(r), "completed") \in Nat /\ Pending(Tail(r), "abstained") \in Nat
      BY <1>2, Zenon
    <3> DEFINE pc == Pending(r, "completed")
               pa == Pending(r, "abstained")
               tc == Pending(Tail(r), "completed")
               ta == Pending(Tail(r), "abstained")
               hc == One(Head(r), {"completed"})
               ha == One(Head(r), {"abstained"})
               mc == m["completed"]
               ma == m["abstained"]
               good == One(code, {200})
    <3>2. /\ pc = hc + tc /\ pa = ha + ta /\ hc \in 0..1 /\ ha \in 0..1 /\ tc \in Nat /\ ta \in Nat
          /\ mc + ma + pc + pa = ok + good /\ good \in 0..1 /\ mc \in Nat /\ ma \in Nat
      <4>1. pc = hc + tc /\ pa = ha + ta /\ hc \in 0..1 /\ ha \in 0..1 /\ tc \in Nat /\ ta \in Nat
        BY <3>1, Zenon
      <4>2. mc + ma + pc + pa = ok + good
        BY <1>4, Zenon
      <4>3. good \in 0..1 /\ mc \in Nat /\ ma \in Nat
        BY <1>1, <1>3, Zenon
      <4>4. QED
        BY <4>1, <4>2, <4>3, Zenon
    <3>3. n["completed"] = mc + hc /\ n["abstained"] = ma + ha
      BY <2>2, Zenon
    <3> HIDE DEF pc, pa, tc, ta, hc, ha, mc, ma, good
    <3>4. (mc + hc) + (ma + ha) + tc + ta = ok + good
      BY <3>2
    <3>5. n["completed"] + n["abstained"] + tc + ta = ok + good
      BY <3>3, <3>4
    <3>6. QED
      BY <3>5 DEF tc, ta, good
  <2>5. n["failed"] + Pending(Tail(r), "failed") = failed + One(code, {500, 503, 504})
    <3>1. /\ Pending(r, "failed") = One(Head(r), {"failed"}) + Pending(Tail(r), "failed")
          /\ One(Head(r), {"failed"}) \in 0..1 /\ Pending(Tail(r), "failed") \in Nat
      BY <1>2, Zenon
    <3>2. QED
      BY <1>1, <1>4, <2>2, <3>1
  <2>6. n["timeout"] + Pending(Tail(r), "timeout") = late + One(code, {504})
    <3>1. /\ Pending(r, "timeout") = One(Head(r), {"timeout"}) + Pending(Tail(r), "timeout")
          /\ One(Head(r), {"timeout"}) \in 0..1 /\ Pending(Tail(r), "timeout") \in Nat
      BY <1>2, Zenon
    <3>2. QED
      BY <1>1, <1>4, <2>2, <3>1
  <2>7. Balanced(ok, failed, late, n, h, Tail(r), code)
    BY <1>4, <2>3, <2>4, <2>5, <2>6 DEF Balanced
  <2>8. QED
    BY <1>6, <2>7 DEF n
<1>7. QED
  BY <1>5, <1>6

\* The query that is released is counted from then on.
LEMMA ReleaseBalances ==
  ASSUME NEW ok \in Nat, NEW failed \in Nat, NEW late \in Nat, NEW m, NEW h, NEW code,
         Balanced(ok, failed, late, m, h, <<>>, code)
  PROVE  Balanced(ok + One(code, {200}), failed + One(code, {500, 503, 504}),
                  late + One(code, {504}), m, h, <<>>, 0)
  BY DEF Balanced, Pending, One

-----------------------------------------------------------------------------
(* One lemma for each kind of step.                                         *)

\* The queries released are finitely many, and so are those with certain answers.
LEMMA AnsweredCounted ==
  ASSUME IsFiniteSet({q \in QueryRequests : query[q] = "released"}), NEW codes
  PROVE  IsFiniteSet(Answered(codes)) /\ Cardinality(Answered(codes)) \in Nat
<1>1. Answered(codes) \subseteq {q \in QueryRequests : query[q] = "released"}
  BY DEF Answered
<1>2. QED
  BY <1>1, FS_Subset, FS_CardinalityType

\* Whoever is at work is the only one.
LEMMA OneQueryAtWork ==
  ASSUME OneWorkAtATime, NEW q \in QueryRequests, query[q] \in {"admitted", "recording"}
  PROVE  \A p \in QueryRequests \ {q} : query[p] \notin {"admitted", "recording"}
  BY DEF OneWorkAtATime, Working

\* A step that touches no query that is released or recording.
LEMMA KeepsAccount ==
  ASSUME AccountInv, UNCHANGED <<history, metrics>>,
         \A p \in QueryRequests : (query'[p] = "released") <=> (query[p] = "released"),
         \A p \in QueryRequests : (query'[p] = "recording") <=> (query[p] = "recording"),
         \A p \in QueryRequests : query[p] \in {"released", "recording"} =>
           records'[p] = records[p] /\ reply'[p] = reply[p]
  PROVE  AccountInv'
<1>1. \A codes : {p \in QueryRequests : query'[p] = "released" /\ reply'[p] \in codes}
                  = {p \in QueryRequests : query[p] = "released" /\ reply[p] \in codes}
  OBVIOUS
<1>2. /\ Answered({200})' = Answered({200})
      /\ Answered({500, 503, 504})' = Answered({500, 503, 504})
      /\ Answered({504})' = Answered({504})
  BY <1>1 DEF Answered
<1>3. {p \in QueryRequests : query[p] = "released"}' = {p \in QueryRequests : query[p] = "released"}
  OBVIOUS
<1>4. IsFiniteSet({p \in QueryRequests : query[p] = "released"})'
  BY <1>3 DEF AccountInv
<1>5. ASSUME \A p \in QueryRequests : query'[p] # "recording" PROVE Balance(<<>>, 0)'
  BY <1>2, <1>5 DEF AccountInv, Balance
<1>6. ASSUME NEW p \in QueryRequests, query'[p] = "recording"
      PROVE  Len(records'[p]) <= 2 /\ Balance(records[p], reply[p])'
  BY <1>2, <1>6 DEF AccountInv, Balance
<1>7. QED
  BY <1>4, <1>5, <1>6 DEF AccountInv

\* The history grows by the run, up to its limit.
LEMMA RememberedOnce ==
  ASSUME NEW q \in QueryRequests, history \in Seq(QueryRequests)
  PROVE  /\ Remember(q) \in Seq(QueryRequests)
         /\ Len(Remember(q)) = IF Len(history) >= HistoryLimit THEN Len(history) ELSE Len(history) + 1
<1>1. CASE Len(history) >= HistoryLimit
  <2>1. history # <<>>
    BY <1>1, ApiAssumption
  <2>2. Tail(history) \in Seq(QueryRequests) /\ Len(Tail(history)) = Len(history) - 1
    BY <2>1, HeadTailProperties
  <2>3. Append(Tail(history), q) \in Seq(QueryRequests) /\ Len(Append(Tail(history), q)) = Len(Tail(history)) + 1
    BY <2>2, AppendProperties
  <2>4. Len(history) \in Nat
    BY LenProperties
  <2> DEFINE n == Len(history)
             t == Len(Tail(history))
             a == Len(Append(Tail(history), q))
  <2>5. n \in Nat /\ t = n - 1 /\ a = t + 1
    BY <2>2, <2>3, <2>4, Zenon
  <2> HIDE DEF n, t, a
  <2>6. a = n
    BY <2>5
  <2>7. Len(Append(Tail(history), q)) = Len(history)
    BY <2>6 DEF a, n
  <2>8. Remember(q) = Append(Tail(history), q)
    BY <1>1 DEF Remember
  <2>9. QED
    BY <1>1, <2>3, <2>7, <2>8
<1>2. CASE ~(Len(history) >= HistoryLimit)
  BY <1>2, AppendProperties DEF Remember
<1>3. QED
  BY <1>1, <1>2

LEMMA ExecutionAccounts ==
  ASSUME ExclusionInv, QueriesTyped, AccountInv, NEW q \in QueryRequests, ExecuteQuery(q)
  PROVE  AccountInv' /\ QueriesTyped'
<1>1. PICK outcome \in Outcomes :
        /\ records' = [records EXCEPT ![q] = RecordsOf(outcome)]
        /\ reply' = [reply EXCEPT ![q] = ReplyTo(outcome)]
  BY DEF ExecuteQuery
<1>2. /\ query[q] = "admitted" /\ query' = [query EXCEPT ![q] = "recording"]
      /\ UNCHANGED <<work_lock, client, history, metrics, evaluating>>
  BY DEF ExecuteQuery
<1>3. /\ records'[q] = RecordsOf(outcome) /\ reply'[q] = ReplyTo(outcome) /\ query'[q] = "recording"
      /\ \A p \in QueryRequests \ {q} :
           records'[p] = records[p] /\ reply'[p] = reply[p] /\ query'[p] = query[p]
  BY <1>1, <1>2 DEF QueriesTyped, ExclusionInv, StatesTyped
<1>4. \A p \in QueryRequests \ {q} : query[p] \notin {"admitted", "recording"}
  BY <1>2, OneQueryAtWork DEF ExclusionInv
<1>5. Balance(<<>>, 0)
  BY <1>2, <1>4 DEF AccountInv
<1>6. /\ Answered({200})' = Answered({200})
      /\ Answered({500, 503, 504})' = Answered({500, 503, 504})
      /\ Answered({504})' = Answered({504})
      /\ {p \in QueryRequests : query[p] = "released"}' = {p \in QueryRequests : query[p] = "released"}
  BY <1>2, <1>3 DEF Answered
<1>7. /\ Cardinality(Answered({200})) \in Nat /\ Cardinality(Answered({500, 503, 504})) \in Nat
      /\ Cardinality(Answered({504})) \in Nat
  BY AnsweredCounted DEF AccountInv
<1>8. metrics \in [Counters -> Nat] /\ Len(history) \in Nat
  BY LenProperties DEF QueriesTyped
<1>9. Balance(records[q], reply[q])'
  <2>1. Balance(RecordsOf(outcome), ReplyTo(outcome))
    BY <1>5, <1>7, <1>8, ExecutionBalances DEF Balance
  <2>2. QED
    BY <1>2, <1>3, <1>6, <2>1 DEF Balance
<1>10. RecordsOf(outcome) \in Seq(Names) /\ Len(RecordsOf(outcome)) <= 2
       /\ ReplyTo(outcome) \in {200, 500, 503, 504}
  BY RecordsTyped
<1>11. AccountInv'
  <2>1. IsFiniteSet({p \in QueryRequests : query[p] = "released"})'
    <3>1. IsFiniteSet({p \in QueryRequests : query[p] = "released"})
      BY Zenon DEF AccountInv
    <3>2. QED
      BY <1>6, <3>1
  <2>2. \E p \in QueryRequests : query'[p] = "recording"
    BY <1>3
  <2>3. \A p \in QueryRequests : query'[p] = "recording" => p = q
    BY <1>3, <1>4
  <2>4. Len(records'[q]) <= 2
    BY <1>3, <1>10
  <2>5. \A p \in QueryRequests : query'[p] = "recording" =>
          Len(records'[p]) <= 2 /\ Balance(records[p], reply[p])'
    BY <1>9, <2>3, <2>4
  <2>6. QED
    BY <2>1, <2>2, <2>5 DEF AccountInv
<1>12. QueriesTyped'
  BY <1>1, <1>2, <1>10 DEF QueriesTyped, evaluating
<1>13. QED
  BY <1>11, <1>12

LEMMA RecordingAccounts ==
  ASSUME ExclusionInv, QueriesTyped, AccountInv, NEW q \in QueryRequests, Record(q)
  PROVE  AccountInv' /\ QueriesTyped'
<1>1. /\ query[q] = "recording" /\ records[q] # <<>>
      /\ records' = [records EXCEPT ![q] = Tail(records[q])]
      /\ UNCHANGED <<work_lock, query, reply, client, evaluating>>
  BY DEF Record
<1>2. /\ records[q] \in Seq(Names) /\ Len(records[q]) <= 2 /\ Balance(records[q], reply[q])
      /\ metrics \in [Counters -> Nat] /\ history \in Seq(QueryRequests)
  BY <1>1 DEF QueriesTyped, AccountInv
<1>3. /\ Head(records[q]) \in Names /\ Tail(records[q]) \in Seq(Names)
      /\ Len(Tail(records[q])) = Len(records[q]) - 1
      /\ Len(records[q]) \in Nat
  BY <1>1, <1>2, HeadTailProperties, LenProperties
<1>4. Len(Tail(records[q])) <= 2
  <2> DEFINE now == Len(Tail(records[q]))
             was == Len(records[q])
  <2>1. now = was - 1 /\ was \in Nat /\ was <= 2
    BY <1>2, <1>3, Zenon
  <2> HIDE DEF now, was
  <2>2. now <= 2
    BY <2>1
  <2>3. QED
    BY <2>2 DEF now
<1>5. records'[q] = Tail(records[q]) /\ records' \in [QueryRequests -> Seq(Names)]
      /\ \A p \in QueryRequests \ {q} : records'[p] = records[p]
  BY <1>1, <1>3 DEF QueriesTyped
<1>6. \A p \in QueryRequests \ {q} : query[p] \notin {"admitted", "recording"}
  BY <1>1, OneQueryAtWork DEF ExclusionInv
<1>7. /\ Answered({200})' = Answered({200})
      /\ Answered({500, 503, 504})' = Answered({500, 503, 504})
      /\ Answered({504})' = Answered({504})
      /\ {p \in QueryRequests : query[p] = "released"}' = {p \in QueryRequests : query[p] = "released"}
  BY <1>1 DEF Answered
<1>8. /\ Cardinality(Answered({200})) \in Nat /\ Cardinality(Answered({500, 503, 504})) \in Nat
      /\ Cardinality(Answered({504})) \in Nat
  BY AnsweredCounted DEF AccountInv
<1>9. Len(history) \in Nat
  BY <1>2, LenProperties
<1>10. /\ Head(records[q]) = "history" =>
            Balanced(Cardinality(Answered({200})), Cardinality(Answered({500, 503, 504})),
                     Cardinality(Answered({504})), metrics,
                     IF Len(history) >= HistoryLimit THEN Len(history) ELSE Len(history) + 1,
                     Tail(records[q]), reply[q])
       /\ Head(records[q]) # "history" =>
            Balanced(Cardinality(Answered({200})), Cardinality(Answered({500, 503, 504})),
                     Cardinality(Answered({504})), [metrics EXCEPT ![Head(records[q])] = @ + 1],
                     Len(history), Tail(records[q]), reply[q])
  <2> DEFINE ok == Cardinality(Answered({200}))
             failed == Cardinality(Answered({500, 503, 504}))
             late == Cardinality(Answered({504}))
             r == records[q]
             h == Len(history)
             code == reply[q]
  <2>1. /\ ok \in Nat /\ failed \in Nat /\ late \in Nat /\ h \in Nat
        /\ metrics \in [Counters -> Nat] /\ r \in Seq(Names) /\ r # <<>> /\ Len(r) <= 2
    BY <1>1, <1>2, <1>8, <1>9
  <2>2. Balanced(ok, failed, late, metrics, h, r, code)
    BY <1>2 DEF Balance
  <2> HIDE DEF ok, failed, late, r, h, code
  <2>3. /\ Head(r) = "history" =>
             Balanced(ok, failed, late, metrics, IF h >= HistoryLimit THEN h ELSE h + 1, Tail(r), code)
        /\ Head(r) # "history" =>
             Balanced(ok, failed, late, [metrics EXCEPT ![Head(r)] = @ + 1], h, Tail(r), code)
    BY <2>1, <2>2, RecordingBalances
  <2>4. QED
    BY <2>3 DEF ok, failed, late, r, h, code
<1>11. /\ Balance(records[q], reply[q])' /\ history' \in Seq(QueryRequests)
       /\ metrics' \in [Counters -> Nat]
  <2>1. CASE Head(records[q]) = "history"
    <3>1. history' = Remember(q) /\ metrics' = metrics
      BY <2>1 DEF Record
    <3>2. /\ Remember(q) \in Seq(QueryRequests)
          /\ Len(Remember(q)) = IF Len(history) >= HistoryLimit THEN Len(history) ELSE Len(history) + 1
      BY <1>2, RememberedOnce
    <3>3. QED
      BY <1>1, <1>2, <1>5, <1>7, <1>10, <2>1, <3>1, <3>2 DEF Balance
  <2>2. CASE Head(records[q]) # "history"
    <3>1. metrics' = [metrics EXCEPT ![Head(records[q])] = @ + 1] /\ history' = history
      BY <2>2 DEF Record
    <3>2. Head(records[q]) \in Counters
      BY <1>3, <2>2 DEF Names
    <3>3. metrics' \in [Counters -> Nat]
      BY <1>2, <3>1, <3>2
    <3>4. QED
      BY <1>1, <1>2, <1>5, <1>7, <1>10, <2>2, <3>1, <3>3 DEF Balance
  <2>3. QED
    BY <2>1, <2>2
<1>12. AccountInv'
  BY <1>1, <1>4, <1>5, <1>6, <1>7, <1>11 DEF AccountInv
<1>13. QueriesTyped'
  BY <1>1, <1>5, <1>11 DEF QueriesTyped, evaluating
<1>14. QED
  BY <1>12, <1>13

LEMMA ReleaseAccounts ==
  ASSUME ExclusionInv, QueriesTyped, AccountInv, NEW q \in QueryRequests, ReleaseQuery(q)
  PROVE  AccountInv' /\ QueriesTyped'
<1>1. /\ query[q] = "recording" /\ records[q] = <<>>
      /\ query' = [query EXCEPT ![q] = "released"] /\ work_lock' = FALSE
      /\ UNCHANGED <<records, reply, client, history, metrics, evaluating>>
  BY DEF ReleaseQuery, Recorded
<1>2. query'[q] = "released" /\ \A p \in QueryRequests \ {q} : query'[p] = query[p]
  BY <1>1 DEF ExclusionInv, StatesTyped
<1>3. \A p \in QueryRequests : query'[p] # "recording"
  BY <1>1, <1>2, OneQueryAtWork DEF ExclusionInv
<1>4. Balance(<<>>, reply[q])
  BY <1>1 DEF AccountInv
<1>5. ASSUME NEW codes
      PROVE  /\ Cardinality(Answered(codes)) \in Nat
             /\ Cardinality({p \in QueryRequests : query'[p] = "released" /\ reply'[p] \in codes})
                  = Cardinality(Answered(codes)) + One(reply[q], codes)
  <2>1. IsFiniteSet(Answered(codes)) /\ Cardinality(Answered(codes)) \in Nat
    BY AnsweredCounted DEF AccountInv
  <2>2. q \notin Answered(codes)
    BY <1>1 DEF Answered
  <2>3. CASE reply[q] \in codes
    <3>1. {p \in QueryRequests : query'[p] = "released" /\ reply'[p] \in codes}
            = Answered(codes) \cup {q}
      BY <1>1, <1>2, <2>3 DEF Answered
    <3>2. Cardinality(Answered(codes) \cup {q}) = Cardinality(Answered(codes)) + 1
      BY <2>1, <2>2, FS_AddElement
    <3>3. QED
      BY <2>1, <2>3, <3>1, <3>2 DEF One
  <2>4. CASE reply[q] \notin codes
    <3>1. {p \in QueryRequests : query'[p] = "released" /\ reply'[p] \in codes} = Answered(codes)
      BY <1>1, <1>2, <2>4 DEF Answered
    <3>2. QED
      BY <2>1, <2>4, <3>1 DEF One
  <2>5. QED
    BY <2>3, <2>4
<1>6. /\ Cardinality(Answered({200})') = Cardinality(Answered({200})) + One(reply[q], {200})
      /\ Cardinality(Answered({500, 503, 504})')
           = Cardinality(Answered({500, 503, 504})) + One(reply[q], {500, 503, 504})
      /\ Cardinality(Answered({504})') = Cardinality(Answered({504})) + One(reply[q], {504})
      /\ Cardinality(Answered({200})) \in Nat /\ Cardinality(Answered({500, 503, 504})) \in Nat
      /\ Cardinality(Answered({504})) \in Nat
  <2> DEFINE After(codes) ==
               Cardinality({p \in QueryRequests : query'[p] = "released" /\ reply'[p] \in codes})
  <2>1. /\ Cardinality(Answered({200})') = After({200})
        /\ Cardinality(Answered({500, 503, 504})') = After({500, 503, 504})
        /\ Cardinality(Answered({504})') = After({504})
    BY DEF Answered
  <2>2. \A codes : /\ After(codes) = Cardinality(Answered(codes)) + One(reply[q], codes)
                   /\ Cardinality(Answered(codes)) \in Nat
    BY <1>5
  <2> HIDE DEF After
  <2>3. /\ After({200}) = Cardinality(Answered({200})) + One(reply[q], {200})
        /\ Cardinality(Answered({200})) \in Nat
    BY <2>2
  <2>4. /\ After({500, 503, 504}) = Cardinality(Answered({500, 503, 504})) + One(reply[q], {500, 503, 504})
        /\ Cardinality(Answered({500, 503, 504})) \in Nat
    BY <2>2
  <2>5. /\ After({504}) = Cardinality(Answered({504})) + One(reply[q], {504})
        /\ Cardinality(Answered({504})) \in Nat
    BY <2>2
  <2>6. QED
    BY <2>1, <2>3, <2>4, <2>5
<1>7. Balance(<<>>, 0)'
  BY <1>1, <1>4, <1>6, ReleaseBalances DEF Balance
<1>8. IsFiniteSet({p \in QueryRequests : query[p] = "released"})'
  <2>1. {p \in QueryRequests : query[p] = "released"}'
          = {p \in QueryRequests : query[p] = "released"} \cup {q}
    BY <1>2
  <2>2. QED
    BY <2>1, FS_AddElement DEF AccountInv
<1>9. AccountInv'
  BY <1>3, <1>7, <1>8 DEF AccountInv
<1>10. QueriesTyped'
  BY <1>1 DEF QueriesTyped, evaluating
<1>11. QED
  BY <1>9, <1>10

\* The steps of evaluations have nothing to do with queries.
LEMMA EvaluationsAccount ==
  ASSUME QueriesTyped, AccountInv, NEW e \in Submissions,
         PostEvaluation(e) \/ SubmissionHandler(e) \/ EvaluationWorker(e)
  PROVE  AccountInv' /\ QueriesTyped'
<1>1. /\ UNCHANGED querying
      /\ UNCHANGED work_lock \/ work_lock' = TRUE \/ work_lock' = FALSE
      /\ UNCHANGED handler \/ handler' = Nobody \/ handler' = e
  <2>1. CASE PostEvaluation(e)
    BY <2>1, Zenon DEF PostEvaluation
  <2>2. CASE AcquireForEvaluation(e)
    BY <2>2, Zenon DEF AcquireForEvaluation
  <2>3. CASE Register(e)
    BY <2>3, Zenon DEF Register, Registered
  <2>4. CASE StartThread(e)
    BY <2>4, Zenon DEF StartThread
  <2>5. CASE StartFails(e)
    BY <2>5, Zenon DEF StartFails
  <2>6. CASE FailUnstarted(e)
    BY <2>6, Zenon DEF FailUnstarted
  <2>7. CASE BeginJob(e)
    BY <2>7, Zenon DEF BeginJob
  <2>8. CASE FinishJob(e)
    BY <2>8, Zenon DEF FinishJob
  <2>9. CASE ReleaseJob(e)
    BY <2>9, Zenon DEF ReleaseJob
  <2>10. QED
    BY <2>1, <2>2, <2>3, <2>4, <2>5, <2>6, <2>7, <2>8, <2>9, Zenon DEF SubmissionHandler, EvaluationWorker
<1>2. work_lock \in BOOLEAN /\ handler \in Submissions \cup {Nobody}
  BY DEF QueriesTyped
<1>3. work_lock' \in BOOLEAN
  BY <1>1, <1>2, Zenon
<1>4. handler' \in Submissions \cup {Nobody}
  BY <1>1, <1>2
<1>5. UNCHANGED <<query, records, reply, client, history, metrics>>
  BY <1>1 DEF querying
<1>6. AccountInv'
  BY <1>5, KeepsAccount
<1>7. QueriesTyped'
  BY <1>3, <1>4, <1>5 DEF QueriesTyped
<1>8. QED
  BY <1>6, <1>7

LEMMA StepsAccount ==
  ASSUME ExclusionInv, QueriesTyped, AccountInv, [Next]_vars
  PROVE  AccountInv' /\ QueriesTyped'
<1>1. ASSUME NEW q \in QueryRequests, PostQuery(q) PROVE AccountInv' /\ QueriesTyped'
  <2>1. /\ query[q] = "unsent" /\ UNCHANGED <<records, client, history, metrics, evaluating>>
        /\ work_lock' \in BOOLEAN
        /\ \/ query' = [query EXCEPT ![q] = "rejected"] /\ reply' = [reply EXCEPT ![q] = 429]
           \/ query' = [query EXCEPT ![q] = "admitted"] /\ UNCHANGED reply
    <3>1. /\ query[q] = "unsent" /\ UNCHANGED <<records, client, history, metrics, evaluating>>
          /\ \/ /\ query' = [query EXCEPT ![q] = "rejected"] /\ reply' = [reply EXCEPT ![q] = 429]
                /\ UNCHANGED work_lock
             \/ /\ query' = [query EXCEPT ![q] = "admitted"] /\ UNCHANGED reply
                /\ work_lock' = TRUE
      BY <1>1, Zenon DEF PostQuery
    <3>2. work_lock' \in BOOLEAN
      BY <3>1, Zenon DEF QueriesTyped
    <3>3. QED
      BY <3>1, <3>2, Zenon
  <2>2. /\ query'[q] \in {"rejected", "admitted"}
        /\ \A p \in QueryRequests \ {q} : query'[p] = query[p] /\ reply'[p] = reply[p]
        /\ reply' \in [QueryRequests -> {0, 200, 429, 500, 503, 504}]
    <3>1. query \in [QueryRequests -> QueryStates] /\ reply \in [QueryRequests -> {0, 200, 429, 500, 503, 504}]
      BY DEF ExclusionInv, StatesTyped, QueriesTyped
    <3>2. CASE query' = [query EXCEPT ![q] = "rejected"] /\ reply' = [reply EXCEPT ![q] = 429]
      BY <3>1, <3>2
    <3>3. CASE query' = [query EXCEPT ![q] = "admitted"] /\ UNCHANGED reply
      BY <3>1, <3>3
    <3>4. QED
      BY <2>1, <3>2, <3>3, Zenon
  <2>3. AccountInv'
    BY <2>1, <2>2, KeepsAccount
  <2>4. QueriesTyped'
    BY <2>1, <2>2 DEF QueriesTyped, evaluating
  <2>5. QED
    BY <2>3, <2>4
<1>2. ASSUME NEW q \in QueryRequests, Disconnect(q) \/ Respond(q) PROVE AccountInv' /\ QueriesTyped'
  <2>1. /\ UNCHANGED <<work_lock, query, records, reply, history, metrics, evaluating>>
        /\ client' \in [QueryRequests -> {"waiting", "answered", "gone"}]
    <3>1. /\ UNCHANGED <<work_lock, query, records, reply, history, metrics, evaluating>>
          /\ \/ client' = [client EXCEPT ![q] = "gone"]
             \/ client' = [client EXCEPT ![q] = "answered"]
      BY <1>2, Zenon DEF Disconnect, Respond
    <3>2. client \in [QueryRequests -> {"waiting", "answered", "gone"}]
      BY DEF QueriesTyped
    <3>3. client' \in [QueryRequests -> {"waiting", "answered", "gone"}]
      BY <3>1, <3>2
    <3>4. QED
      BY <3>1, <3>3
  <2>2. AccountInv'
    BY <2>1, KeepsAccount
  <2>3. QueriesTyped'
    BY <2>1 DEF QueriesTyped, evaluating
  <2>4. QED
    BY <2>2, <2>3
<1>3. ASSUME UNCHANGED vars PROVE AccountInv' /\ QueriesTyped'
  <2>1. UNCHANGED <<work_lock, query, records, reply, client, history, metrics, handler>>
    BY <1>3 DEF vars, querying, evaluating
  <2>2. AccountInv'
    BY <2>1, KeepsAccount
  <2>3. QueriesTyped'
    BY <2>1 DEF QueriesTyped
  <2>4. QED
    BY <2>2, <2>3
<1>4. QED
  BY <1>1, <1>2, <1>3, ExecutionAccounts, RecordingAccounts, ReleaseAccounts, EvaluationsAccount
     DEF Next, QueryWorker, Settled

LEMMA AccountsHold == Spec => [](AccountInv /\ QueriesTyped)
<1>1. Init => AccountInv /\ QueriesTyped
  <2> SUFFICES ASSUME Init PROVE AccountInv /\ QueriesTyped
    OBVIOUS
  <2>1. /\ {q \in QueryRequests : query[q] = "released"} = {}
        /\ Answered({200}) = {} /\ Answered({500, 503, 504}) = {} /\ Answered({504}) = {}
        /\ \A q \in QueryRequests : query[q] # "recording"
    BY DEF Init, Answered
  <2>2. Balance(<<>>, 0)
    <3>1. Cardinality({}) = 0 /\ Len(history) = 0
      BY FS_EmptySet DEF Init
    <3>2. metrics = [c \in Counters |-> 0]
          /\ {"completed", "abstained", "failed", "timeout"} \subseteq Counters
      BY DEF Init, Counters, QueryStatuses
    <3>3. /\ metrics["completed"] = 0 /\ metrics["abstained"] = 0
          /\ metrics["failed"] = 0 /\ metrics["timeout"] = 0
      BY <3>2
    <3>4. QED
      <4>1. Balanced(0, 0, 0, metrics, 0, <<>>, 0)
        <5>1. /\ Pending(<<>>, "completed") = 0 /\ Pending(<<>>, "abstained") = 0
              /\ Pending(<<>>, "failed") = 0 /\ Pending(<<>>, "timeout") = 0
              /\ Pending(<<>>, "history") = 0
          BY DEF Pending
        <5>2. One(0, {200}) = 0 /\ One(0, {500, 503, 504}) = 0 /\ One(0, {504}) = 0
          BY DEF One
        <5>3. QED
          BY <3>3, <5>1, <5>2, ApiAssumption DEF Balanced
      <4>2. /\ Cardinality(Answered({200})) = 0 /\ Cardinality(Answered({500, 503, 504})) = 0
            /\ Cardinality(Answered({504})) = 0
        <5>1. \A S : S = {} => Cardinality(S) = 0
          BY <3>1
        <5>2. QED
          BY <2>1, <5>1
      <4>3. QED
        BY <3>1, <4>1, <4>2 DEF Balance
  <2>3. AccountInv
    BY <2>1, <2>2, FS_EmptySet DEF AccountInv
  <2>4. QueriesTyped
    <3>1. <<>> \in Seq(Names) /\ <<>> \in Seq(QueryRequests)
      OBVIOUS
    <3>2. records \in [QueryRequests -> Seq(Names)]
      BY <3>1 DEF Init
    <3>3. /\ reply \in [QueryRequests -> {0, 200, 429, 500, 503, 504}]
          /\ client \in [QueryRequests -> {"waiting", "answered", "gone"}]
      BY DEF Init
    <3>4. history \in Seq(QueryRequests) /\ metrics \in [Counters -> Nat]
          /\ work_lock \in BOOLEAN /\ handler \in Submissions \cup {Nobody}
      BY <3>1 DEF Init
    <3>5. QED
      BY <3>2, <3>3, <3>4 DEF QueriesTyped
  <2>5. QED
    BY <2>3, <2>4
<1>2. ExclusionInv /\ AccountInv /\ QueriesTyped /\ [Next]_vars => (AccountInv /\ QueriesTyped)'
  BY StepsAccount
<1>3. QED
  BY <1>1, <1>2, ExclusionHolds, PTL DEF Spec

-----------------------------------------------------------------------------
(* The theorems.                                                            *)

\* Once no query is at work the counters of GET /v1/metrics and the run history say what the
\* queries answered: nothing is recorded twice or forgotten, whatever a query raises, whether
\* or not its client waits, and however full the history is (service.py record_run,
\* record_query; routes/query.py).
THEOREM QueriesAreRecordedOnce == Spec => []QueriesAreAccounted
<1>1. AccountInv /\ QueriesTyped => QueriesAreAccounted
  <2> SUFFICES ASSUME AccountInv, QueriesTyped,
                      \A q \in QueryRequests : query[q] \notin {"admitted", "recording"}
               PROVE  /\ metrics["completed"] + metrics["abstained"] = Cardinality(Answered({200}))
                      /\ metrics["failed"] = Cardinality(Answered({500, 503, 504}))
                      /\ metrics["timeout"] = Cardinality(Answered({504}))
                      /\ Len(history) = IF Cardinality(Answered({200})) < HistoryLimit
                                        THEN Cardinality(Answered({200})) ELSE HistoryLimit
    BY DEF QueriesAreAccounted
  <2> DEFINE ok == Cardinality(Answered({200}))
             failed == Cardinality(Answered({500, 503, 504}))
             late == Cardinality(Answered({504}))
             h == Len(history)
  <2>1. Balanced(ok, failed, late, metrics, h, <<>>, 0)
    BY DEF AccountInv, Balance
  <2>2. /\ ok \in Nat /\ failed \in Nat /\ late \in Nat
        /\ metrics["completed"] \in Nat /\ metrics["abstained"] \in Nat
        /\ metrics["failed"] \in Nat /\ metrics["timeout"] \in Nat
    BY AnsweredCounted DEF AccountInv, QueriesTyped, Counters, QueryStatuses
  <2> HIDE DEF ok, failed, late, h
  <2>3. /\ metrics["completed"] + metrics["abstained"] = ok
        /\ metrics["failed"] = failed /\ metrics["timeout"] = late
        /\ h = IF ok < HistoryLimit THEN ok ELSE HistoryLimit
    BY <2>1, <2>2, ApiAssumption DEF Balanced, Pending, One
  <2>4. QED
    BY <2>3 DEF ok, failed, late, h
<1>2. QED
  BY <1>1, AccountsHold, PTL

\* Every variable of the coordinator keeps to its domain; in particular the number of running
\* jobs never becomes negative (service.py update_evaluation_job).
THEOREM TypesAreKept == Spec => []TypeOK
<1>1. ExclusionInv /\ JobInv /\ QueriesTyped => TypeOK
  BY DEF ExclusionInv, StatesTyped, JobInv, CountersKeep, QueriesTyped, TypeOK, Names
<1>2. QED
  BY <1>1, ExclusionHolds, JobsHold, AccountsHold, PTL
=============================================================================
