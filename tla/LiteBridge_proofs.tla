--------------------------- MODULE LiteBridge_proofs ---------------------------
(***************************************************************************)
(* LiteBridge, for any number of callers, any sizes, any deployments and    *)
(* any requests: the package stores are the table of handles it promises,   *)
(* an issued handle is found within its lifetime, what a package costs      *)
(* stays inside the request's budget, every value stays in its type, no     *)
(* text of a document that may not be sent out reaches a generator, every   *)
(* package keeps the limits of its request, and a compressed one says       *)
(* nothing that its parent does not.                                        *)
(***************************************************************************)
EXTENDS LiteBridgeProperties, FiniteSetTheorems, SequenceTheorems, WellFoundedInduction, TLAPS

\* A store has few entries, and each is the package that was issued under its handle.
StoreKeeps(s) ==
  /\ Entries(s) \subseteq DOMAIN issued
  /\ IsFiniteSet(Entries(s)) /\ Cardinality(Entries(s)) <= MaxEntries
  /\ \A h \in Entries(s) : stores[s][h].package = issued[h].package

\* That the store in use keeps its promise is not inductive: a caller may still hold an
\* earlier store, and the next store in use is one that was just built.
HandleInv ==
  /\ issued \in Seq(ToSet(issued))
  /\ stores \in Seq(ToSet(stores))
  /\ app = [sdk |-> app.sdk, store |-> app.store] /\ app.store \in 0..Len(stores)
  /\ \A s \in DOMAIN stores : StoreKeeps(s)

Bound == [h \in DOMAIN issued |-> issued[h].package]
Usable == IF app.store = 0 THEN <<>>
          ELSE [h \in DOMAIN stores[app.store] |-> stores[app.store][h].package]

LEMMA Limits ==
  /\ NoCaller \notin Callers
  /\ MaxEntries \in Nat /\ MaxEntries >= 1 /\ PackageTtl \in Nat /\ PackageTtl >= 1
  /\ CacheEntries \in Nat /\ CacheEntries >= 1 /\ CacheTtl \in Nat
  BY LiteBridgeAssumption

\* Whatever is appended to a sequence, the result is a sequence of its elements.
LEMMA AppendIsSequence ==
  ASSUME NEW s, s \in Seq(ToSet(s)), NEW e
  PROVE  /\ Append(s, e) \in Seq(ToSet(Append(s, e)))
         /\ DOMAIN Append(s, e) = DOMAIN s \cup {Len(s) + 1}
         /\ Len(s) + 1 \notin DOMAIN s
         /\ \A i \in DOMAIN s : Append(s, e)[i] = s[i]
         /\ Append(s, e)[Len(s) + 1] = e
         /\ DOMAIN s = 1..Len(s) /\ Len(s) \in Nat
<1> DEFINE S == ToSet(s) \cup {e}
<1>1. s \in Seq(S)
  OBVIOUS
<1>2. /\ Append(s, e) \in Seq(S)
      /\ Len(Append(s, e)) = Len(s) + 1
      /\ \A i \in 1..Len(s) : Append(s, e)[i] = s[i]
      /\ Append(s, e)[Len(s) + 1] = e
  BY <1>1, AppendProperties
<1>3. DOMAIN s = 1..Len(s) /\ Len(s) \in Nat
  BY <1>1, LenProperties
<1>4. DOMAIN Append(s, e) = 1..(Len(s) + 1)
  BY <1>2, LenProperties
<1>5. S \subseteq ToSet(Append(s, e))
  BY <1>2, <1>3, <1>4 DEF ToSet
<1>6. Append(s, e) \in Seq(ToSet(Append(s, e)))
  BY <1>2, <1>5
<1>7. QED
  BY <1>2, <1>3, <1>4, <1>6

(***************************************************************************)
(* Steps of the stores                                                      *)
(***************************************************************************)

\* The table counts as its stores do.
LEMMA TableCounts == \A S : Table!Cardinality(S) = Cardinality(S)
  BY DEF Cardinality, Table!Cardinality, IsFiniteSet, Table!IsFiniteSet

\* A step that leaves the stores alone is none of the table.
LEMMA OtherSteps ==
  ASSUME HandleInv, UNCHANGED <<issued, stores>>, app'.store = app.store,
         app' = [sdk |-> app'.sdk, store |-> app'.store]
  PROVE  HandleInv' /\ UNCHANGED Table!vars
<1>1. HandleInv'
  BY DEF HandleInv, StoreKeeps, Entries
<1>2. UNCHANGED Bound /\ UNCHANGED Usable
  BY DEF Bound, Usable
<1>3. QED
  BY <1>1, <1>2 DEF Table!vars, Bound, Usable

\* Handles go from the store in use, and none is issued.
LEMMA ForgetsHandles ==
  ASSUME HandleInv, UNCHANGED issued, NEW live, live \subseteq DOMAIN Usable,
         Cardinality(live) <= MaxEntries,
         Usable' = [h \in live |-> Bound[h]]
  PROVE  Table!Forget
<1>1. UNCHANGED Bound
  BY DEF Bound
<1>2. Table!Keeps(DOMAIN Usable, Bound)
  BY TableCounts DEF Table!Keeps, Bound, Usable
<1>3. QED
  BY <1>1, <1>2 DEF Table!Forget, Bound, Usable

\* The next handle is issued, and some are forgotten for it.
LEMMA IssuesHandle ==
  ASSUME HandleInv, NEW record, issued' = Append(issued, record),
         NEW live, live \subseteq DOMAIN Usable \cup {Len(issued) + 1},
         Cardinality(live) <= MaxEntries,
         Usable' = [h \in live |-> Bound'[h]]
  PROVE  Table!Issue
<1> DEFINE n == Len(issued)
<1>1. /\ issued' \in Seq(ToSet(issued'))
      /\ DOMAIN issued' = DOMAIN issued \cup {n + 1}
      /\ \A i \in DOMAIN issued : issued'[i] = issued[i]
      /\ DOMAIN issued = 1..n /\ n \in Nat
  BY AppendIsSequence DEF HandleInv
<1> DEFINE P == {issued'[h].package : h \in DOMAIN issued'}
<1>2. Bound \in Seq(P) /\ Len(Bound) = n
  <2>1. Bound \in [1..n -> P]
    BY <1>1 DEF Bound
  <2>2. QED
    BY <2>1, <1>1, LenProperties
<1>3. Bound' \in Seq(P) /\ Len(Bound') = n + 1
  <2>1. Bound' \in [1..(n + 1) -> P]
    BY <1>1 DEF Bound
  <2>2. QED
    BY <2>1, <1>1, LenProperties
<1>4. Bound' = Append(Bound, Bound'[Len(Bound) + 1])
  <2>1. Bound'[n + 1] \in P
    BY <1>1 DEF Bound
  <2> DEFINE t == Append(Bound, Bound'[n + 1])
  <2>2. /\ t \in Seq(P) /\ Len(t) = n + 1
        /\ \A i \in 1..n : t[i] = Bound[i]
        /\ t[n + 1] = Bound'[n + 1]
    <3> HIDE DEF P, n
    <3>1. QED
      BY <1>2, <2>1, AppendProperties
  <2>3. \A i \in 1..n : Bound'[i] = Bound[i]
    BY <1>1 DEF Bound
  <2>4. \A i \in 1..(n + 1) : Bound'[i] = t[i]
    BY <1>1, <2>2, <2>3
  <2> HIDE DEF t
  <2>5. Bound' = t
    BY <1>3, <2>2, <2>4, SeqEqual
  <2>6. QED
    BY <2>5, <1>2 DEF t
<1>5. Table!Keeps(DOMAIN Usable \cup {Len(Bound) + 1}, Bound')
  BY <1>2, TableCounts DEF Table!Keeps, Bound, Usable
<1>6. QED
  BY <1>2, <1>3, <1>4, <1>5 DEF Table!Issue, Bound, Usable

\* put: the store keeps enough entries less for one more (package_store.py put).
LEMMA PutsIssues ==
  ASSUME HandleInv, NEW c \in Callers, Puts(c)
  PROVE  HandleInv' /\ Table!Issue
<1>0. PICK s : s = work[c].store
  OBVIOUS
<1>n. PICK n : n = Len(issued)
  OBVIOUS
<1>r. PICK record : record = [package |-> work[c].package, created_at |-> work[c].now, store |-> s]
  OBVIOUS
<1>e. PICK entry : entry = [package |-> work[c].package, created_at |-> work[c].now,
                            expires_at |-> work[c].now + PackageTtl]
  OBVIOUS
<1>1. PICK kept \in SUBSET Entries(work[c].store) :
        /\ Kept(work[c].store, work[c].now, kept)
        /\ stores' = [stores EXCEPT ![work[c].store] =
                        [k \in kept \cup {Len(issued) + 1} |->
                           IF k = Len(issued) + 1
                           THEN [package |-> work[c].package, created_at |-> work[c].now,
                                 expires_at |-> work[c].now + PackageTtl]
                           ELSE stores[work[c].store][k]]]
  BY Zenon DEF Puts
<1>f. PICK filled : filled = [k \in kept \cup {Len(issued) + 1} |->
                                IF k = Len(issued) + 1
                                THEN [package |-> work[c].package, created_at |-> work[c].now,
                                      expires_at |-> work[c].now + PackageTtl]
                                ELSE stores[work[c].store][k]]
  OBVIOUS
<1>g. stores' = [stores EXCEPT ![s] = filled]
  BY <1>0, <1>1, <1>f
<1>h. filled = [k \in kept \cup {n + 1} |-> IF k = n + 1 THEN entry ELSE stores[s][k]]
  BY <1>0, <1>n, <1>e, <1>f
<1>k. kept \subseteq Entries(s) /\ Kept(s, work[c].now, kept)
  BY <1>0, <1>1
<1>2. issued' = Append(issued, record) /\ UNCHANGED app
  BY <1>0, <1>r DEF Puts
<1>3. /\ issued' \in Seq(ToSet(issued'))
      /\ DOMAIN issued' = DOMAIN issued \cup {n + 1}
      /\ n + 1 \notin DOMAIN issued
      /\ \A h \in DOMAIN issued : issued'[h] = issued[h]
      /\ issued'[n + 1] = record
  BY <1>2, <1>n, AppendIsSequence DEF HandleInv
<1>4. record.package = entry.package
  BY <1>r, <1>e
<1>5. /\ DOMAIN stores' = DOMAIN stores
      /\ stores' \in Seq(ToSet(stores'))
  <2>1. DOMAIN stores = 1..Len(stores) /\ Len(stores) \in Nat
    BY LenProperties DEF HandleInv
  <2>2. DOMAIN stores' = DOMAIN stores /\ stores' = [t \in DOMAIN stores |-> stores'[t]]
    BY <1>g DEF HandleInv
  <2>3. stores' \in [1..Len(stores) -> ToSet(stores')]
    BY <2>1, <2>2 DEF ToSet
  <2>4. QED
    BY <2>1, <2>2, <2>3
<1>6. \A t \in DOMAIN stores : t # s => stores'[t] = stores[t]
  BY <1>g DEF HandleInv
<1>7. s \in DOMAIN stores =>
        stores'[s] = [k \in kept \cup {n + 1} |-> IF k = n + 1 THEN entry ELSE stores[s][k]]
  BY <1>g, <1>h DEF HandleInv
<1>8. ASSUME s \in DOMAIN stores
      PROVE  /\ IsFiniteSet(kept \cup {n + 1}) /\ Cardinality(kept \cup {n + 1}) <= MaxEntries
             /\ Entries(s)' = kept \cup {n + 1}
             /\ \A h \in kept \cup {n + 1} : stores'[s][h].package = issued'[h].package
  <2>1. StoreKeeps(s)
    BY <1>8 DEF HandleInv
  <2>2. IsFiniteSet(kept) /\ Cardinality(kept) \in Nat
    BY <1>k, <2>1, FS_Subset, FS_CardinalityType DEF StoreKeeps
  <2>3. Cardinality(kept) < MaxEntries
    BY <1>k DEF Kept
  <2>4. IsFiniteSet(kept \cup {n + 1}) /\ Cardinality(kept \cup {n + 1}) <= MaxEntries
    <3>1. \/ Cardinality(kept \cup {n + 1}) = Cardinality(kept)
          \/ Cardinality(kept \cup {n + 1}) = Cardinality(kept) + 1
      BY <2>2, FS_AddElement
    <3>2. IsFiniteSet(kept \cup {n + 1})
      BY <2>2, FS_AddElement
    <3> QED
      BY <2>2, <2>3, <3>1, <3>2, Limits
  <2>5. Entries(s)' = kept \cup {n + 1}
    BY <1>7, <1>8 DEF Entries
  <2>6. \A h \in kept : stores'[s][h].package = issued'[h].package
    <3>1. kept \subseteq DOMAIN issued
      BY <1>k, <2>1 DEF StoreKeeps
    <3>2. \A h \in kept : stores[s][h].package = issued[h].package
      BY <1>k, <2>1 DEF StoreKeeps
    <3>3. \A h \in kept : stores'[s][h] = stores[s][h]
      BY <1>3, <1>7, <1>8, <3>1
    <3>4. QED
      BY <1>3, <3>1, <3>2, <3>3
  <2>7. stores'[s][n + 1].package = issued'[n + 1].package
    BY <1>3, <1>4, <1>7, <1>8
  <2>8. QED
    BY <2>4, <2>5, <2>6, <2>7
<1>9. ASSUME NEW t \in DOMAIN stores', t # s
      PROVE  StoreKeeps(t)'
  BY <1>3, <1>5, <1>6, <1>9 DEF HandleInv, StoreKeeps, Entries
<1>10. s \in DOMAIN stores => StoreKeeps(s)'
  <2>1. ASSUME s \in DOMAIN stores
        PROVE  kept \cup {n + 1} \subseteq DOMAIN issued'
    BY <1>3, <1>k, <2>1 DEF HandleInv, StoreKeeps
  <2>2. QED
    BY <1>8, <2>1 DEF StoreKeeps
<1>11. HandleInv'
  BY <1>2, <1>3, <1>5, <1>9, <1>10 DEF HandleInv
<1>12. /\ \A h \in DOMAIN issued : Bound'[h] = issued[h].package
       /\ \A h \in DOMAIN issued' : Bound'[h] = issued'[h].package
  BY <1>3 DEF Bound
<1>13. CASE app.store = s /\ app.store # 0
  <2>1. s \in DOMAIN stores
    BY <1>13, LenProperties DEF HandleInv
  <2>2. DOMAIN Usable = Entries(s)
    BY <1>13 DEF Usable, Entries
  <2>3. kept \cup {n + 1} \subseteq DOMAIN Usable \cup {n + 1}
    BY <1>k, <2>2
  <2>4. kept \cup {n + 1} \subseteq DOMAIN issued'
    BY <1>10, <1>8, <2>1 DEF StoreKeeps
  <2>5. Usable' = [h \in kept \cup {n + 1} |-> Bound'[h]]
    <3>1. Usable' = [h \in kept \cup {n + 1} |-> stores'[s][h].package]
      BY <1>2, <1>7, <1>13, <2>1 DEF Usable
    <3>2. QED
      BY <3>1, <1>8, <2>1, <2>4, <1>12
  <2>6. QED
    BY <1>2, <1>8, <1>n, <2>1, <2>3, <2>5, <1>11, IssuesHandle
<1>14. CASE app.store # s \/ app.store = 0
  <2>2. app.store # 0 => app.store \in DOMAIN stores
    BY LenProperties DEF HandleInv
  <2>1. UNCHANGED Usable
    <3>1. app.store # 0 => stores'[app.store] = stores[app.store]
      BY <2>2, <1>6, <1>14
    <3>2. QED
      BY <3>1, <1>2 DEF Usable
  <2>3. /\ DOMAIN Usable \subseteq DOMAIN issued
        /\ Cardinality(DOMAIN Usable) <= MaxEntries
        /\ Usable = [h \in DOMAIN Usable |-> issued[h].package]
    <3>1. CASE app.store = 0
      BY <3>1, FS_EmptySet, Limits DEF Usable
    <3>2. CASE app.store # 0
      BY <3>2, <2>2 DEF Usable, HandleInv, StoreKeeps, Entries
    <3>3. QED
      BY <3>1, <3>2
  <2>4. Usable' = [h \in DOMAIN Usable |-> Bound'[h]]
    BY <1>12, <2>1, <2>3
  <2>5. QED
    BY <1>2, <1>n, <2>3, <2>4, <1>11, IssuesHandle
<1>15. QED
  BY <1>11, <1>13, <1>14

\* The request that finds an entry too old, or none, removes it.
LEMMA NotFoundForgets ==
  ASSUME HandleInv, NEW c \in Callers, NotFound(c)
  PROVE  HandleInv' /\ Table!Forget
<1>0. PICK s : s = work[c].store
  OBVIOUS
<1>1. PICK rest : rest = [h \in Entries(s) \ {HandleOf(c)} |-> stores[s][h]]
  OBVIOUS
<1>2. stores' = [stores EXCEPT ![s] = rest] /\ UNCHANGED <<issued, app>>
  BY <1>0, <1>1 DEF NotFound
<1>3. /\ DOMAIN rest \subseteq Entries(s)
      /\ \A h \in DOMAIN rest : rest[h] = stores[s][h]
  BY <1>1
<1>4. /\ DOMAIN stores' = DOMAIN stores
      /\ stores' \in Seq(ToSet(stores'))
      /\ DOMAIN stores = 1..Len(stores) /\ Len(stores) \in Nat /\ Len(stores') = Len(stores)
  <2>1. DOMAIN stores = 1..Len(stores) /\ Len(stores) \in Nat
    BY LenProperties DEF HandleInv
  <2>2. DOMAIN stores' = DOMAIN stores /\ stores' = [t \in DOMAIN stores |-> stores'[t]]
    BY <1>2 DEF HandleInv
  <2>3. stores' \in [1..Len(stores) -> ToSet(stores')]
    BY <2>1, <2>2 DEF ToSet
  <2>4. QED
    BY <2>1, <2>2, <2>3, LenProperties
<1>5. \A t \in DOMAIN stores : t # s => stores'[t] = stores[t]
  BY <1>2 DEF HandleInv
<1>6. s \in DOMAIN stores => stores'[s] = rest
  BY <1>2 DEF HandleInv
<1>7. ASSUME NEW t \in DOMAIN stores
      PROVE  /\ StoreKeeps(t)
             /\ DOMAIN stores'[t] \subseteq Entries(t)
             /\ \A h \in DOMAIN stores'[t] : stores'[t][h] = stores[t][h]
  BY <1>3, <1>5, <1>6 DEF HandleInv, Entries
<1>8. ASSUME NEW t \in DOMAIN stores
      PROVE  StoreKeeps(t)'
  <2>1. /\ IsFiniteSet(DOMAIN stores'[t])
        /\ Cardinality(DOMAIN stores'[t]) <= Cardinality(Entries(t))
        /\ Cardinality(DOMAIN stores'[t]) \in Nat /\ Cardinality(Entries(t)) \in Nat
    BY <1>7, FS_Subset, FS_CardinalityType DEF StoreKeeps
  <2>2. Cardinality(DOMAIN stores'[t]) <= MaxEntries
    BY <1>7, <2>1, Limits DEF StoreKeeps
  <2>3. QED
    BY <1>2, <1>7, <2>1, <2>2 DEF StoreKeeps, Entries
<1>9. HandleInv'
  BY <1>2, <1>4, <1>8 DEF HandleInv
<1>10. CASE app.store = 0
  <2>1. Usable = <<>> /\ Usable' = <<>>
    BY <1>2, <1>10 DEF Usable
  <2>2. Usable' = [h \in {} |-> Bound[h]]
    BY <2>1
  <2>3. QED
    BY <1>2, <1>9, <2>2, FS_EmptySet, Limits, ForgetsHandles
<1>11. CASE app.store # 0
  <2>1. PICK t : t = app.store
    OBVIOUS
  <2>2. t \in DOMAIN stores
    BY <1>4, <1>11, <2>1 DEF HandleInv
  <2>3. PICK live : live = DOMAIN stores'[t]
    OBVIOUS
  <2>4. live \subseteq DOMAIN Usable
    BY <1>7, <1>11, <2>1, <2>2, <2>3 DEF Usable, Entries
  <2>5. Cardinality(live) <= MaxEntries
    BY <1>8, <2>2, <2>3 DEF StoreKeeps, Entries
  <2>6. Usable' = [h \in live |-> stores'[t][h].package]
    BY <1>2, <1>11, <2>1, <2>3 DEF Usable
  <2>7. \A h \in live : stores'[t][h].package = Bound[h]
    BY <1>7, <2>2, <2>3 DEF StoreKeeps, Entries, Bound
  <2>8. Usable' = [h \in live |-> Bound[h]]
    BY <2>6, <2>7
  <2>9. QED
    BY <1>2, <1>9, <2>4, <2>5, <2>8, ForgetsHandles
<1>12. QED
  BY <1>10, <1>11

\* A second first request puts its own, empty store in use: all handles are forgotten
\* (api/routes/litebridge.py _get_package_store).
LEMMA BuildsStoreForgets ==
  ASSUME HandleInv, NEW c \in Callers, BuildsStore(c)
  PROVE  HandleInv' /\ Table!Forget
<1>1. /\ stores' = Append(stores, <<>>) /\ UNCHANGED issued
      /\ app' = [app EXCEPT !.store = Len(stores')]
  BY DEF BuildsStore
<1>2. /\ stores' \in Seq(ToSet(stores'))
      /\ DOMAIN stores' = DOMAIN stores \cup {Len(stores) + 1}
      /\ \A s \in DOMAIN stores : stores'[s] = stores[s]
      /\ stores'[Len(stores) + 1] = <<>>
      /\ DOMAIN stores = 1..Len(stores) /\ Len(stores) \in Nat
  BY <1>1, AppendIsSequence DEF HandleInv
<1>3. Len(stores') = Len(stores) + 1
  BY <1>2, LenProperties
<1>4. app' = [sdk |-> app'.sdk, store |-> app'.store] /\ app'.store = Len(stores) + 1
  BY <1>1, <1>2, <1>3 DEF HandleInv
<1>5. \A s \in DOMAIN stores : StoreKeeps(s)'
  BY <1>1, <1>2 DEF HandleInv, StoreKeeps, Entries
<1>6. \A s \in DOMAIN stores' \ DOMAIN stores : StoreKeeps(s)'
  <2>1. \A s \in DOMAIN stores' \ DOMAIN stores : DOMAIN stores'[s] = {}
    BY <1>2
  <2>2. IsFiniteSet({}) /\ Cardinality({}) <= MaxEntries
    BY FS_EmptySet, Limits
  <2>3. QED
    BY <2>1, <2>2 DEF StoreKeeps, Entries
<1>7. HandleInv'
  BY <1>1, <1>2, <1>3, <1>4, <1>5, <1>6 DEF HandleInv
<1>8. Usable' = [h \in {} |-> Bound[h]]
  <2>1. app'.store # 0 /\ stores'[app'.store] = <<>>
    BY <1>2, <1>4
  <2>2. Usable' = [h \in DOMAIN <<>> |-> stores'[app'.store][h].package]
    BY <2>1 DEF Usable
  <2>3. QED
    BY <2>2
<1>9. QED
  BY <1>1, <1>7, <1>8, FS_EmptySet, Limits, ForgetsHandles

\* What the other actions of a caller leave alone.
LEMMA StoresUntouched ==
  ASSUME NEW c \in Callers
  PROVE  (\/ Accept(c) \/ NeedsSdk(c) \/ NeedsStore(c) \/ Starts(c) \/ PrepareRefused(c)
          \/ PrepareBlocked(c) \/ PrepareRetrieves(c) \/ SearchesLocally(c) \/ LooksInCache(c)
          \/ SearchesWeb(c) \/ FillsCache(c) \/ Builds(c) \/ ReadsClock(c) \/ LooksUp(c)
          \/ Compresses(c) \/ AnswersAlone(c) \/ Asks(c) \/ Answers(c))
         => UNCHANGED <<app, issued, stores>>
<1>1. Accept(c) => UNCHANGED <<app, issued, stores>>
  BY Zenon DEF Accept
<1>2. NeedsSdk(c) => UNCHANGED <<app, issued, stores>>
  BY Zenon DEF NeedsSdk
<1>3. NeedsStore(c) => UNCHANGED <<app, issued, stores>>
  BY Zenon DEF NeedsStore
<1>4. Starts(c) => UNCHANGED <<app, issued, stores>>
  BY Zenon DEF Starts
<1>5. PrepareRefused(c) => UNCHANGED <<app, issued, stores>>
  BY Zenon DEF PrepareRefused
<1>6. PrepareBlocked(c) => UNCHANGED <<app, issued, stores>>
  BY Zenon DEF PrepareBlocked
<1>7. PrepareRetrieves(c) => UNCHANGED <<app, issued, stores>>
  BY Zenon DEF PrepareRetrieves
<1>8. SearchesLocally(c) => UNCHANGED <<app, issued, stores>>
  BY Zenon DEF SearchesLocally
<1>9. LooksInCache(c) => UNCHANGED <<app, issued, stores>>
  BY Zenon DEF LooksInCache
<1>10. SearchesWeb(c) => UNCHANGED <<app, issued, stores>>
  BY Zenon DEF SearchesWeb
<1>11. FillsCache(c) => UNCHANGED <<app, issued, stores>>
  BY Zenon DEF FillsCache
<1>12. Builds(c) => UNCHANGED <<app, issued, stores>>
  BY Zenon DEF Builds
<1>13. ReadsClock(c) => UNCHANGED <<app, issued, stores>>
  BY Zenon DEF ReadsClock
<1>14. LooksUp(c) => UNCHANGED <<app, issued, stores>>
  BY Zenon DEF LooksUp
<1>15. Compresses(c) => UNCHANGED <<app, issued, stores>>
  BY Zenon DEF Compresses
<1>16. AnswersAlone(c) => UNCHANGED <<app, issued, stores>>
  BY Zenon DEF AnswersAlone
<1>17. Asks(c) => UNCHANGED <<app, issued, stores>>
  BY Zenon DEF Asks
<1>18. Answers(c) => UNCHANGED <<app, issued, stores>>
  BY Zenon DEF Answers
<1>19. QED
  BY <1>1, <1>2, <1>3, <1>4, <1>5, <1>6, <1>7, <1>8, <1>9, <1>10, <1>11, <1>12,
     <1>13, <1>14, <1>15, <1>16, <1>17, <1>18

\* A new SDK has a cache of its own, and no store.
LEMMA BuildsSdkKeeps ==
  ASSUME HandleInv, NEW c \in Callers, BuildsSdk(c)
  PROVE  /\ UNCHANGED <<issued, stores>>
         /\ app' = [sdk |-> app'.sdk, store |-> app'.store] /\ app'.store = app.store
<1>1. UNCHANGED <<issued, stores>>
  BY Zenon DEF BuildsSdk
<1>2. app' = app \/ app' = [app EXCEPT !.sdk = Len(caches')]
  BY Zenon DEF BuildsSdk
<1>3. QED
  BY <1>1, <1>2 DEF HandleInv

(***************************************************************************)
(* The theorem                                                              *)
(***************************************************************************)

LEMMA InitHolds == Init => HandleInv /\ Table!Init
<1> SUFFICES ASSUME Init
             PROVE  HandleInv /\ Table!Init
  OBVIOUS
<1>1. issued = <<>> /\ issued \in Seq(ToSet(issued))
  BY DEF Init
<1>2. PICK none : none = <<>>
  OBVIOUS
<1>3. \/ app = [sdk |-> 0, store |-> 0] /\ stores = <<>>
      \/ app = [sdk |-> 1, store |-> 1] /\ stores = <<none>>
  BY <1>2 DEF Init
<1>4. /\ stores \in Seq(ToSet(stores))
      /\ \A s \in DOMAIN stores : stores[s] = <<>>
      /\ app = [sdk |-> app.sdk, store |-> app.store] /\ app.store \in 0..Len(stores)
  <2>1. CASE stores = <<>>
    BY <1>3, <2>1
  <2>2. CASE stores = <<none>>
    <3>1. ToSet(stores) = {none} /\ stores \in Seq({none})
      BY <2>2 DEF ToSet
    <3>2. \A s \in DOMAIN stores : stores[s] = <<>>
      BY <1>2, <2>2
    <3>3. app = [sdk |-> app.sdk, store |-> app.store] /\ app.store \in 0..Len(stores)
      BY <1>3, <2>2
    <3>4. QED
      BY <3>1, <3>2, <3>3
  <2>3. QED
    BY <1>3, <2>1, <2>2
<1>5. HandleInv
  BY <1>1, <1>4, FS_EmptySet, Limits DEF HandleInv, StoreKeeps, Entries
<1>6. Bound = <<>>
  BY <1>1 DEF Bound
<1>7. Usable = <<>>
  <2>1. CASE app.store = 0
    BY <2>1 DEF Usable
  <2>2. CASE app.store # 0
    <3>1. stores[app.store] = <<>>
      BY <1>2, <1>3, <2>2
    <3>2. QED
      BY <3>1 DEF Usable
  <2>3. QED
    BY <2>1, <2>2
<1>8. QED
  BY <1>5, <1>6, <1>7 DEF Table!Init, Bound, Usable

LEMMA StepHolds == HandleInv /\ [Next]_vars => HandleInv' /\ [Table!Next]_Table!vars
<1> SUFFICES ASSUME HandleInv, [Next]_vars
             PROVE  HandleInv' /\ [Table!Next]_Table!vars
  OBVIOUS
<1>1. CASE UNCHANGED <<app, issued, stores>>
  BY <1>1, OtherSteps DEF HandleInv
<1>2. ASSUME NEW c \in Callers, BuildsSdk(c)
      PROVE  HandleInv' /\ UNCHANGED Table!vars
  BY <1>2, BuildsSdkKeeps, OtherSteps
<1>3. ASSUME NEW c \in Callers, Accept(c) \/ Handler(c)
      PROVE  HandleInv' /\ [Table!Next]_Table!vars
  BY <1>1, <1>2, <1>3, StoresUntouched, PutsIssues, NotFoundForgets, BuildsStoreForgets
     DEF Handler, Table!Next
<1>4. Tick \/ Rest => UNCHANGED <<app, issued, stores>>
  BY DEF Tick, Rest, vars
<1>5. UNCHANGED vars => UNCHANGED <<app, issued, stores>>
  BY DEF vars
<1>6. QED
  BY <1>1, <1>3, <1>4, <1>5 DEF Next

\* Every behaviour of LiteBridge is one of the table of handles: a handle gives the package it
\* was issued for, a full store keeps its size, and a forgotten handle stays forgotten
\* (bridge/package_store.py put, get; api/routes/litebridge.py _get_package_store).
THEOREM HandlesAreKept == Spec => HandlesKeepPromise
<1>1. Spec => []HandleInv
  BY InitHolds, StepHolds, PTL DEF Spec
<1>2. QED
  BY <1>1, InitHolds, StepHolds, PTL DEF Spec, HandlesKeepPromise, Table!Spec

(***************************************************************************)
(* What callers hold                                                        *)
(***************************************************************************)

\* A caller that got this far was given the store in use, and before it the SDK.
StoreHeld ==
  {"ready", "handle", "search_local", "cache", "search_web", "fill_cache", "build", "put",
   "look_up", "compress", "answer", "generate"}
SdkHeld == StoreHeld \cup {"needs_store", "builds_store"}

WorkFields ==
  {"request", "handle", "sdk", "store", "now", "decision", "batch", "parent", "package",
   "searches", "outcome"}
IsWork(w) == w = [field \in WorkFields |-> w[field]]

CallerInv(c) ==
  /\ IsWork(work[c])
  /\ work[c].handle \in 0..Len(issued) /\ work[c].now \in 0..clock
  /\ work[c].sdk \in 0..Len(caches) /\ work[c].store \in 0..Len(stores)
  /\ pc[c] # "idle" => Asked(c) \in deployment.requests
  /\ pc[c] \in StoreHeld => work[c].store # 0
  /\ pc[c] \in SdkHeld /\ Asked(c).op # "get" => work[c].sdk # 0
  /\ pc[c] = "look_up" => Asked(c).op \in {"get", "compress", "answer"}

FrameInv ==
  /\ HandleInv
  /\ deployment \in Configurations /\ clock \in 0..deployment.ticks
  /\ loop \in Callers \cup {NoCaller}
  /\ caches \in Seq(ToSet(caches)) /\ app.sdk \in 0..Len(caches)
  /\ deployment.kind # "api" => app.sdk # 0 /\ app.store # 0
  /\ pc \in [Callers -> Steps]
  /\ left \in [Callers -> 0..deployment.requests_each]
  /\ work = [c \in Callers |-> work[c]]
  /\ \A c \in Callers : CallerInv(c)

LEMMA Deployed ==
  ASSUME NEW d \in Configurations
  PROVE  /\ d.kind \in {"sdk", "api", "mcp"}
         /\ d.requests_each \in Nat /\ d.ticks \in Nat
         /\ \A r \in d.requests : r.op \in Operations
  BY LiteBridgeAssumption DEF DeploymentIsPossible

\* A caller moves on, holding this.
Moves(c, to, held) ==
  /\ pc' = [pc EXCEPT ![c] = to]
  /\ work' = [work EXCEPT ![c] = held]

\* Clocks and sequences only grow under a caller's step.
Grows ==
  /\ UNCHANGED <<deployment, clock>>
  /\ Len(issued) <= Len(issued') /\ Len(stores) <= Len(stores') /\ Len(caches) <= Len(caches')
  /\ Len(issued') \in Nat /\ Len(stores') \in Nat /\ Len(caches') \in Nat

LEMMA Sizes ==
  ASSUME FrameInv
  PROVE  /\ Len(issued) \in Nat /\ Len(stores) \in Nat /\ Len(caches) \in Nat /\ clock \in Nat
         /\ DOMAIN issued = 1..Len(issued) /\ DOMAIN stores = 1..Len(stores)
         /\ DOMAIN caches = 1..Len(caches)
  BY LenProperties DEF FrameInv, HandleInv

LEMMA OthersKeep ==
  ASSUME FrameInv, NEW c \in Callers, NEW to \in Steps, NEW held, Moves(c, to, held), Grows
  PROVE  /\ pc' \in [Callers -> Steps] /\ work' = [d \in Callers |-> work'[d]]
         /\ pc'[c] = to /\ work'[c] = held
         /\ \A d \in Callers \ {c} : pc'[d] = pc[d] /\ work'[d] = work[d]
         /\ \A d \in Callers \ {c} : CallerInv(d)'
<1>1. /\ pc' \in [Callers -> Steps] /\ work' = [d \in Callers |-> work'[d]]
      /\ pc'[c] = to /\ work'[c] = held
      /\ \A d \in Callers \ {c} : pc'[d] = pc[d] /\ work'[d] = work[d]
  BY DEF FrameInv, Moves
<1>2. ASSUME NEW d \in Callers \ {c}
      PROVE  CallerInv(d)'
  <2>1. CallerInv(d) /\ pc'[d] = pc[d] /\ work'[d] = work[d]
    BY <1>1 DEF FrameInv
  <2>2. clock' = clock /\ deployment' = deployment
    BY DEF Grows
  <2> QED
    BY <2>1, <2>2, Sizes DEF CallerInv, IsWork, Asked, Grows
<1> QED
  BY <1>1, <1>2

\* What a step of a caller leaves, once it is known what the caller holds.
LEMMA ActorMoves ==
  ASSUME FrameInv, NEW c \in Callers, NEW to \in Steps, NEW held, Moves(c, to, held), Grows,
         HandleInv', UNCHANGED <<app, caches, left>>, loop' \in {loop, NoCaller, c},
         CallerInv(c)'
  PROVE  FrameInv'
<1>1. /\ pc' \in [Callers -> Steps] /\ work' = [d \in Callers |-> work'[d]]
      /\ \A d \in Callers \ {c} : CallerInv(d)'
  BY OthersKeep
<1>2. UNCHANGED <<deployment, clock, app, caches, left>>
  BY DEF Grows
<1> QED
  BY <1>1, <1>2 DEF FrameInv

LEMMA IdleHolds ==
  ASSUME NEW outcome
  PROVE  /\ IsWork([NoWork EXCEPT !.outcome = outcome])
         /\ [NoWork EXCEPT !.outcome = outcome].handle = 0
         /\ [NoWork EXCEPT !.outcome = outcome].now = 0
         /\ [NoWork EXCEPT !.outcome = outcome].sdk = 0
         /\ [NoWork EXCEPT !.outcome = outcome].store = 0
         /\ [NoWork EXCEPT !.outcome = outcome].searches = 0
         /\ [NoWork EXCEPT !.outcome = outcome].outcome = outcome
  BY DEF IsWork, WorkFields, NoWork

\* The end of a request leaves nothing behind.
LEMMA EndKeeps ==
  ASSUME FrameInv, NEW c \in Callers, NEW outcome, Ends(c, outcome),
         Grows, HandleInv', UNCHANGED <<app, caches, left>>
  PROVE  FrameInv' /\ pc'[c] = "idle" /\ work'[c] = [NoWork EXCEPT !.outcome = outcome]
<1> DEFINE held == [NoWork EXCEPT !.outcome = outcome]
<1>1. "idle" \in Steps /\ Moves(c, "idle", held) /\ loop' \in {loop, NoCaller, c}
  BY DEF Steps, Ends, Goes, Holds, Moves
<1>h. /\ IsWork(held) /\ held.handle = 0 /\ held.now = 0 /\ held.sdk = 0 /\ held.store = 0
  BY IdleHolds
<1> HIDE DEF held
<1>2. pc'[c] = "idle" /\ work'[c] = held
  BY <1>1, OthersKeep
<1>3. clock' \in Nat
  BY Sizes DEF Grows
<1>4. CallerInv(c)'
  BY <1>2, <1>3, <1>h DEF CallerInv, IsWork, StoreHeld, SdkHeld, Grows
<1>5. FrameInv'
  BY <1>1, <1>4, ActorMoves
<1> QED
  BY <1>2, <1>5 DEF held

\* Nothing is stored or built.
Quiet == UNCHANGED <<deployment, clock, app, caches, stores, issued, left>>

LEMMA QuietKeeps ==
  ASSUME FrameInv, Quiet
  PROVE  Grows /\ HandleInv' /\ UNCHANGED <<app, caches, left>>
<1>1. Grows
  BY Sizes DEF Quiet, Grows
<1>2. HandleInv'
  BY OtherSteps DEF FrameInv, HandleInv, Quiet
<1> QED
  BY <1>1, <1>2 DEF Quiet

\* A caller goes on with its request.
Continues(w, v) ==
  /\ IsWork(v) /\ v.request = w.request /\ v.handle = w.handle /\ v.sdk = w.sdk
  /\ v.store = w.store

LEMMA GoesOn ==
  ASSUME FrameInv, NEW c \in Callers, pc[c] # "idle", NEW to \in Steps, NEW held,
         Moves(c, to, held), Continues(work[c], held), held.now \in 0..clock, Quiet,
         loop' \in {loop, c},
         to \in StoreHeld => pc[c] \in StoreHeld,
         to \in SdkHeld => pc[c] \in SdkHeld,
         to = "look_up" => Asked(c).op \in {"get", "compress", "answer"}
  PROVE  FrameInv' /\ pc'[c] = to /\ work'[c] = held
<1>1. Grows /\ HandleInv' /\ UNCHANGED <<app, caches, left>>
  BY QuietKeeps
<1>2. pc'[c] = to /\ work'[c] = held
  BY <1>1, OthersKeep
<1>3. CallerInv(c)
  BY DEF FrameInv
<1>4. CallerInv(c)'
  BY <1>2, <1>3 DEF CallerInv, Continues, Asked, Quiet
<1> QED
  BY <1>1, <1>2, <1>4, ActorMoves

\* Ends that store nothing.
LEMMA FailKeeps ==
  ASSUME FrameInv, NEW c \in Callers, NEW error, Fails(c, error), Quiet
  PROVE  FrameInv' /\ pc'[c] = "idle" /\ work'[c].searches = 0
<1>1. Grows /\ HandleInv' /\ UNCHANGED <<app, caches, left>>
  BY QuietKeeps
<1>2. FrameInv' /\ pc'[c] = "idle"
      /\ work'[c] = [NoWork EXCEPT !.outcome = Response(deployment.kind, error)]
  BY <1>1, EndKeeps DEF Fails
<1> QED
  BY <1>2, IdleHolds

LEMMA NotingDecision ==
  ASSUME NEW w, IsWork(w), NEW decision
  PROVE  LET v == [w EXCEPT !.decision = decision]
         IN  /\ Continues(w, v) /\ v.now = w.now /\ v.searches = w.searches
             /\ v.decision = decision
  BY DEF IsWork, WorkFields, Continues

(***************************************************************************)
(* The steps of a caller: where it goes and what it notes                   *)
(***************************************************************************)

\* A step that stores nothing and goes on with the request, now holding `held'.
GoesOnWith(c, to, held) ==
  /\ FrameInv' /\ Quiet /\ pc'[c] = to /\ work'[c] = held
  /\ Continues(work[c], held)

Drops(c) == FrameInv' /\ Quiet /\ pc'[c] = "idle" /\ work'[c].searches = 0

LEMMA Failing ==
  ASSUME FrameInv, NEW c \in Callers, NEW error, Fails(c, error), Quiet
  PROVE  Drops(c)
  BY FailKeeps DEF Drops

LEMMA GoingOn ==
  ASSUME FrameInv, NEW c \in Callers, pc[c] # "idle", NEW to \in Steps, NEW held,
         Goes(c, to), Holds(c, held), Continues(work[c], held), held.now \in 0..clock, Quiet,
         loop' \in {loop, c},
         to \in StoreHeld => pc[c] \in StoreHeld,
         to \in SdkHeld => pc[c] \in SdkHeld,
         to = "look_up" => Asked(c).op \in {"get", "compress", "answer"}
  PROVE  GoesOnWith(c, to, held)
<1>1. Moves(c, to, held)
  BY DEF Goes, Holds, Moves
<1> QED
  BY <1>1, GoesOn DEF GoesOnWith

LEMMA Now ==
  ASSUME FrameInv, NEW c \in Callers
  PROVE  clock \in 0..clock /\ work[c].now \in 0..clock /\ IsWork(work[c])
  BY Sizes DEF FrameInv, CallerInv

LEMMA StartsSteps ==
  ASSUME FrameInv, NEW c \in Callers, Starts(c)
  PROVE  GoesOnWith(c, "handle", work[c])
<1>1. pc[c] = "ready" /\ loop' = c /\ Quiet /\ Goes(c, "handle")
  BY DEF Starts, Working, Quiet
<1>2. Holds(c, work[c])
  BY DEF Holds, Starts, FrameInv
<1>3. Continues(work[c], work[c]) /\ work[c].now \in 0..clock
  BY Now DEF Continues
<1> QED
  BY <1>1, <1>2, <1>3, GoingOn DEF Steps, StoreHeld, SdkHeld

LEMMA PrepareRefusedSteps ==
  ASSUME FrameInv, NEW c \in Callers, PrepareRefused(c)
  PROVE  Drops(c)
<1>1. Fails(c, RefusalOf(c)) /\ Quiet
  BY DEF PrepareRefused, Quiet
<1> QED
  BY <1>1, Failing

LEMMA PrepareBlockedSteps ==
  ASSUME FrameInv, NEW c \in Callers, PrepareBlocked(c)
  PROVE  /\ Handles(c, "prepare") /\ RefusalOf(c) = "none" /\ DecisionFor(c).route = "blocked"
         /\ GoesOnWith(c, "put",
              [work[c] EXCEPT !.now = clock, !.decision = DecisionFor(c),
                 !.package = BuildBlockedContextPackage(RetrievalPolicyOf(c), DecisionFor(c))])
<1> DEFINE d == DecisionFor(c)
           p == BuildBlockedContextPackage(RetrievalPolicyOf(c), DecisionFor(c))
           held == [work[c] EXCEPT !.now = clock, !.decision = d, !.package = p]
<1>1. /\ pc[c] = "handle" /\ loop' = loop /\ Quiet /\ Goes(c, "put") /\ Holds(c, held)
      /\ Handles(c, "prepare") /\ RefusalOf(c) = "none" /\ DecisionFor(c).route = "blocked"
  BY DEF PrepareBlocked, Handles, Working, Quiet
<1> HIDE DEF d, p
<1>2. Continues(work[c], held) /\ held.now = clock
  BY Now DEF IsWork, WorkFields, Continues
<1> HIDE DEF held
<1>3. GoesOnWith(c, "put", held)
  BY <1>1, <1>2, Now, GoingOn DEF Steps, StoreHeld, SdkHeld
<1> QED
  BY <1>1, <1>3 DEF held, d, p

LEMMA PrepareRetrievesSteps ==
  ASSUME FrameInv, NEW c \in Callers, PrepareRetrieves(c)
  PROVE  LET d == ResolvedSource(DecisionFor(c), deployment.registry) IN
         /\ Handles(c, "prepare") /\ RefusalOf(c) = "none" /\ DecisionFor(c).route # "blocked"
         /\ \/ Drops(c)
            \/ /\ ConsentError(RetrievalPolicyOf(c), d) = "none"
               /\ GoesOnWith(c, IF d.source_kind = "web_search_snippet" THEN "cache"
                                ELSE "search_local",
                             [work[c] EXCEPT !.decision = DecisionFor(c)])
<1> DEFINE d == ResolvedSource(DecisionFor(c), deployment.registry)
           to == IF d.source_kind = "web_search_snippet" THEN "cache" ELSE "search_local"
           x == DecisionFor(c)
           held == [work[c] EXCEPT !.decision = x]
           error == ConsentError(RetrievalPolicyOf(c), d)
<1>1. /\ pc[c] = "handle" /\ Quiet
      /\ Handles(c, "prepare") /\ RefusalOf(c) = "none" /\ DecisionFor(c).route # "blocked"
      /\ IF error # "none" THEN Fails(c, error)
         ELSE Holds(c, held) /\ Goes(c, to) /\ loop' = loop
  BY DEF PrepareRetrieves, Handles, Working, Quiet
<1> HIDE DEF x
<1>2. Continues(work[c], held) /\ held.now = work[c].now
  BY Now, NotingDecision
<1>3. to \in Steps /\ to \in StoreHeld /\ to # "look_up"
  BY DEF Steps, StoreHeld
<1> HIDE DEF held, to, d, error
<1>4. CASE error # "none"
  <2>1. Drops(c)
    BY <1>1, <1>4, Failing
  <2> QED
    BY <1>1, <2>1 DEF d
<1>5. CASE error = "none"
  <2>1. GoesOnWith(c, to, held)
    BY <1>1, <1>2, <1>3, <1>5, Now, GoingOn DEF StoreHeld, SdkHeld
  <2> QED
    BY <1>1, <1>5, <2>1 DEF held, to, d, x, error
<1> QED
  BY <1>4, <1>5

\* A retriever's error ends the request, its candidates are what the package is made of.
LEMMA SearchesLocallySteps ==
  ASSUME FrameInv, NEW c \in Callers, SearchesLocally(c)
  PROVE  /\ pc[c] = "search_local"
         /\ \/ Drops(c)
            \/ \E ranked \in deployment.local_results :
                 LET found == IF deployment.own_retriever THEN Answer(ranked)
                              ELSE LocalRetrieve(Asked(c).query, RetrievalPolicyOf(c), ranked)
                 IN  /\ found.error = "none"
                     /\ GoesOnWith(c, "build",
                          [work[c] EXCEPT !.batch = RetrievalBatch(found.candidates, 0)])
<1>1. pc[c] = "search_local" /\ Quiet
  BY DEF SearchesLocally, Working, Quiet
<1>2. CASE \E error \in LocalFailures : Fails(c, error)
  BY <1>1, <1>2, Failing
<1>3. ASSUME NEW ranked \in deployment.local_results,
             LET found == IF deployment.own_retriever THEN Answer(ranked)
                          ELSE LocalRetrieve(Asked(c).query, RetrievalPolicyOf(c), ranked)
             IN  IF found.error # "none" THEN Fails(c, found.error)
                 ELSE Receives(c, RetrievalBatch(found.candidates, 0), "build") /\ UNCHANGED loop
      PROVE  \/ Drops(c)
             \/ LET found == IF deployment.own_retriever THEN Answer(ranked)
                             ELSE LocalRetrieve(Asked(c).query, RetrievalPolicyOf(c), ranked)
                IN  /\ found.error = "none"
                    /\ GoesOnWith(c, "build",
                         [work[c] EXCEPT !.batch = RetrievalBatch(found.candidates, 0)])
  <2> DEFINE found == IF deployment.own_retriever THEN Answer(ranked)
                      ELSE LocalRetrieve(Asked(c).query, RetrievalPolicyOf(c), ranked)
             batch == RetrievalBatch(found.candidates, 0)
             held == [work[c] EXCEPT !.batch = batch]
  <2> HIDE DEF found
  <2>1. IF found.error # "none" THEN Fails(c, found.error)
        ELSE Holds(c, held) /\ Goes(c, "build") /\ UNCHANGED loop
    BY <1>3 DEF found, Receives
  <2> HIDE DEF batch
  <2>2. Continues(work[c], held) /\ held.now = work[c].now
    BY Now DEF IsWork, WorkFields, Continues
  <2> HIDE DEF held
  <2>3. CASE found.error # "none"
    BY <1>1, <2>1, <2>3, Failing
  <2>4. CASE found.error = "none"
    <3>1. GoesOnWith(c, "build", held)
      BY <1>1, <2>1, <2>2, <2>4, Now, GoingOn DEF Steps, StoreHeld, SdkHeld
    <3> QED
      BY <2>4, <3>1 DEF held, batch, found
  <2> QED
    BY <2>3, <2>4
<1> QED
  BY <1>1, <1>2, <1>3, Zenon DEF SearchesLocally

LEMMA SearchesWebSteps ==
  ASSUME FrameInv, NEW c \in Callers, SearchesWeb(c)
  PROVE  /\ pc[c] = "search_web"
         /\ \/ Drops(c)
            \/ \E results \in deployment.web_results :
                 LET hits == TavilySearch(results, ResultsFor(c))
                     found == WebCandidates(hits)
                 IN  /\ found.error = "none"
                     /\ GoesOnWith(c, IF hits = <<>> THEN "build" ELSE "fill_cache",
                          [work[c] EXCEPT !.batch = RetrievalBatch(found.candidates, 1),
                                          !.searches = @ + 1, !.now = clock])
<1>1. pc[c] = "search_web" /\ Quiet
  BY DEF SearchesWeb, Working, Quiet
<1>2. CASE \E error \in SearchFailures : Fails(c, error)
  BY <1>1, <1>2, Failing
<1>3. ASSUME NEW results \in deployment.web_results,
             LET hits == TavilySearch(results, ResultsFor(c))
                 found == WebCandidates(hits)
             IN  IF found.error # "none" THEN Fails(c, found.error)
                 ELSE /\ Holds(c, [work[c] EXCEPT !.batch = RetrievalBatch(found.candidates, 1),
                                                  !.searches = @ + 1, !.now = clock])
                      /\ Goes(c, IF hits = <<>> THEN "build" ELSE "fill_cache")
                      /\ UNCHANGED loop
      PROVE  \/ Drops(c)
             \/ LET hits == TavilySearch(results, ResultsFor(c))
                    found == WebCandidates(hits)
                IN  /\ found.error = "none"
                    /\ GoesOnWith(c, IF hits = <<>> THEN "build" ELSE "fill_cache",
                         [work[c] EXCEPT !.batch = RetrievalBatch(found.candidates, 1),
                                         !.searches = @ + 1, !.now = clock])
  <2> DEFINE hits == TavilySearch(results, ResultsFor(c))
             found == WebCandidates(hits)
             to == IF hits = <<>> THEN "build" ELSE "fill_cache"
             batch == RetrievalBatch(found.candidates, 1)
             held == [work[c] EXCEPT !.batch = batch, !.searches = @ + 1, !.now = clock]
  <2>1. IF found.error # "none" THEN Fails(c, found.error)
        ELSE Holds(c, held) /\ Goes(c, to) /\ UNCHANGED loop
    BY <1>3
  <2> HIDE DEF hits, found, batch
  <2>2. Continues(work[c], held) /\ held.now = clock
    BY Now DEF IsWork, WorkFields, Continues
  <2>3. to \in Steps /\ to \in StoreHeld /\ to # "look_up"
    BY DEF Steps, StoreHeld
  <2> HIDE DEF held, to
  <2>4. CASE found.error # "none"
    BY <1>1, <2>1, <2>4, Failing
  <2>5. CASE found.error = "none"
    <3>1. GoesOnWith(c, to, held)
      BY <1>1, <2>1, <2>2, <2>3, <2>5, Now, GoingOn DEF StoreHeld, SdkHeld
    <3> QED
      BY <2>5, <3>1 DEF held, to, batch, found, hits
  <2> QED
    BY <2>4, <2>5
<1> QED
  BY <1>1, <1>2, <1>3, Zenon DEF SearchesWeb

LEMMA BuildsSteps ==
  ASSUME FrameInv, NEW c \in Callers, Builds(c)
  PROVE  /\ pc[c] = "build"
         /\ \/ Drops(c)
            \/ /\ CandidatesPermitted(work[c].batch.candidates, RetrievalPolicyOf(c), SourceFor(c),
                                      deployment.registry)
               /\ \E elapsed \in deployment.elapsed :
                    GoesOnWith(c, "put",
                      [work[c] EXCEPT !.now = clock, !.package =
                        PreparedPackage(RetrievalPolicyOf(c), work[c].batch,
                          SelectRecords(work[c].batch.candidates, RetrievalPolicyOf(c)),
                          work[c].decision, elapsed, SourceFor(c))])
<1> DEFINE permitted ==
             CandidatesPermitted(work[c].batch.candidates, RetrievalPolicyOf(c), SourceFor(c),
                                 deployment.registry)
           Package(elapsed) ==
             PreparedPackage(RetrievalPolicyOf(c), work[c].batch,
                             SelectRecords(work[c].batch.candidates, RetrievalPolicyOf(c)),
                             work[c].decision, elapsed, SourceFor(c))
           Held(elapsed) == [work[c] EXCEPT !.now = clock, !.package = Package(elapsed)]
<1>1. /\ pc[c] = "build" /\ Quiet
      /\ IF ~permitted THEN Fails(c, "retrieval_error")
         ELSE /\ \E elapsed \in deployment.elapsed : Holds(c, Held(elapsed))
              /\ Goes(c, "put") /\ UNCHANGED loop
  BY DEF Builds, Working, Quiet
<1> HIDE DEF permitted
<1>2. CASE ~permitted
  BY <1>1, <1>2, Failing
<1>3. CASE permitted
  <2>1. PICK elapsed \in deployment.elapsed : Holds(c, Held(elapsed))
    BY <1>1, <1>3
  <2> DEFINE package == Package(elapsed)
             held == [work[c] EXCEPT !.now = clock, !.package = package]
  <2>2. Holds(c, held)
    BY <2>1
  <2> HIDE DEF package, Package
  <2>3. Continues(work[c], held) /\ held.now = clock
    BY Now DEF IsWork, WorkFields, Continues
  <2> HIDE DEF held
  <2>4. GoesOnWith(c, "put", held)
    BY <1>1, <1>3, <2>2, <2>3, Now, GoingOn DEF Steps, StoreHeld, SdkHeld
  <2>5. GoesOnWith(c, "put", Held(elapsed))
    BY <2>4 DEF held, package
  <2> QED
    BY <1>1, <1>3, <2>5 DEF permitted, Package
<1> QED
  BY <1>2, <1>3

LEMMA ReadsClockSteps ==
  ASSUME FrameInv, NEW c \in Callers, ReadsClock(c)
  PROVE  /\ \E op \in {"get", "compress", "answer"} : Handles(c, op)
         /\ GoesOnWith(c, "look_up", [work[c] EXCEPT !.now = clock])
<1> DEFINE held == [work[c] EXCEPT !.now = clock]
<1>1. /\ pc[c] = "handle" /\ loop' = loop /\ Quiet /\ Goes(c, "look_up") /\ Holds(c, held)
      /\ \E op \in {"get", "compress", "answer"} : Handles(c, op)
      /\ Asked(c).op \in {"get", "compress", "answer"}
  BY DEF ReadsClock, Handles, Working, Quiet
<1>2. Continues(work[c], held) /\ held.now = clock
  BY Now DEF IsWork, WorkFields, Continues
<1> HIDE DEF held
<1>3. GoesOnWith(c, "look_up", held)
  BY <1>1, <1>2, Now, GoingOn DEF Steps, StoreHeld, SdkHeld
<1> QED
  BY <1>1, <1>3 DEF held

\* A package that is found is in time.
LEMMA LooksUpSteps ==
  ASSUME FrameInv, NEW c \in Callers, LooksUp(c)
  PROVE  /\ pc[c] = "look_up" /\ Found(c)
         /\ \/ Drops(c) /\ work'[c].outcome = "ok"
            \/ /\ Asked(c).op \in {"compress", "answer"}
               /\ GoesOnWith(c, Asked(c).op,
                    [work[c] EXCEPT !.package = stores[work[c].store][HandleOf(c)].package])
<1> DEFINE package == stores[work[c].store][HandleOf(c)].package
           held == [work[c] EXCEPT !.package = package]
<1>1. /\ pc[c] = "look_up" /\ Quiet /\ Found(c)
      /\ IF Asked(c).op = "get" THEN Ends(c, "ok")
         ELSE Holds(c, held) /\ Goes(c, Asked(c).op) /\ UNCHANGED loop
  BY DEF LooksUp, Working, Quiet
<1> HIDE DEF package
<1>2. Continues(work[c], held) /\ held.now = work[c].now
  BY Now DEF IsWork, WorkFields, Continues
<1> HIDE DEF held
<1>3. Asked(c).op \in {"get", "compress", "answer"}
  BY <1>1 DEF FrameInv, CallerInv
<1>4. CASE Asked(c).op = "get"
  <2>1. Grows /\ HandleInv' /\ UNCHANGED <<app, caches, left>>
    BY <1>1, QuietKeeps
  <2>2. FrameInv' /\ pc'[c] = "idle" /\ work'[c] = [NoWork EXCEPT !.outcome = "ok"]
    BY <1>1, <1>4, <2>1, EndKeeps
  <2>3. Drops(c) /\ work'[c].outcome = "ok"
    BY <1>1, <2>2, IdleHolds DEF Drops
  <2> QED
    BY <1>1, <2>3
<1>5. CASE Asked(c).op \in {"compress", "answer"}
  <2>1. GoesOnWith(c, Asked(c).op, held)
    BY <1>1, <1>2, <1>5, Now, GoingOn DEF Steps, StoreHeld, SdkHeld
  <2> QED
    BY <1>1, <1>5, <2>1 DEF held, package
<1> QED
  BY <1>3, <1>4, <1>5

LEMMA CompressesSteps ==
  ASSUME FrameInv, NEW c \in Callers, Compresses(c)
  PROVE  LET parent == work[c].package
             compressed == CompressContextPackage(parent, Asked(c).policy)
         IN  /\ pc[c] = "compress"
             /\ \/ Drops(c)
                \/ /\ Asked(c).policy \in CompressionPolicy
                   /\ QualityControlsPass(parent, compressed, Asked(c).policy)
                   /\ GoesOnWith(c, "put",
                        [work[c] EXCEPT !.parent = parent, !.package = compressed, !.now = clock])
<1> DEFINE parent == work[c].package
           compressed == CompressContextPackage(parent, Asked(c).policy)
           held == [work[c] EXCEPT !.parent = parent, !.package = compressed, !.now = clock]
           accepted == /\ Asked(c).policy \in CompressionPolicy
                       /\ QualityControlsPass(parent, compressed, Asked(c).policy)
<1>1. /\ pc[c] = "compress" /\ Quiet
      /\ IF accepted THEN Holds(c, held) /\ Goes(c, "put") /\ UNCHANGED loop
         ELSE Fails(c, "validation_error")
  BY DEF Compresses, Working, Quiet
<1> HIDE DEF parent, compressed
<1>2. Continues(work[c], held) /\ held.now = clock
  BY Now DEF IsWork, WorkFields, Continues
<1> HIDE DEF held, accepted
<1>3. CASE ~accepted
  BY <1>1, <1>3, Failing
<1>4. CASE accepted
  <2>1. GoesOnWith(c, "put", held)
    BY <1>1, <1>2, <1>4, Now, GoingOn DEF Steps, StoreHeld, SdkHeld
  <2> QED
    BY <1>1, <1>4, <2>1 DEF held, accepted, parent, compressed
<1> QED
  BY <1>3, <1>4

LEMMA AnswersAloneSteps ==
  ASSUME FrameInv, NEW c \in Callers, AnswersAlone(c)
  PROVE  Drops(c)
<1>1. Quiet
  BY DEF AnswersAlone, Quiet
<1>2. \E outcome : Ends(c, outcome)
  BY DEF AnswersAlone, Fails
<1>3. PICK outcome : Ends(c, outcome)
  BY <1>2
<1>4. Grows /\ HandleInv' /\ UNCHANGED <<app, caches, left>>
  BY <1>1, QuietKeeps
<1>5. FrameInv' /\ pc'[c] = "idle" /\ work'[c] = [NoWork EXCEPT !.outcome = outcome]
  BY <1>3, <1>4, EndKeeps
<1> QED
  BY <1>1, <1>5, IdleHolds DEF Drops

LEMMA AsksSteps ==
  ASSUME FrameInv, NEW c \in Callers, Asks(c)
  PROVE  /\ pc[c] = "answer" /\ AnswerRefusal(c) = "none" /\ AnswerOf(c) = {}
         /\ GoesOnWith(c, "generate", work[c])
<1>1. /\ pc[c] = "answer" /\ AnswerRefusal(c) = "none" /\ AnswerOf(c) = {}
      /\ loop' = loop /\ Quiet /\ Goes(c, "generate")
  BY DEF Asks, Working, Quiet
<1>2. Holds(c, work[c])
  BY DEF Holds, Asks, FrameInv
<1>3. Continues(work[c], work[c])
  BY Now DEF Continues
<1> QED
  BY <1>1, <1>2, <1>3, Now, GoingOn DEF Steps, StoreHeld, SdkHeld

LEMMA AnswersSteps ==
  ASSUME FrameInv, NEW c \in Callers, Answers(c)
  PROVE  Drops(c)
<1>1. Quiet
  BY DEF Answers, Quiet
<1>2. \E outcome : Ends(c, outcome)
  BY DEF Answers
<1>3. PICK outcome : Ends(c, outcome)
  BY <1>2
<1>4. Grows /\ HandleInv' /\ UNCHANGED <<app, caches, left>>
  BY <1>1, QuietKeeps
<1>5. FrameInv' /\ pc'[c] = "idle" /\ work'[c] = [NoWork EXCEPT !.outcome = outcome]
  BY <1>3, <1>4, EndKeeps
<1> QED
  BY <1>1, <1>5, IdleHolds DEF Drops

(***************************************************************************)
(* Steps at a cache                                                         *)
(***************************************************************************)

LEMMA ListIsSequence ==
  ASSUME NEW n \in Nat, NEW T, NEW t \in [1..n -> T]
  PROVE  t \in Seq(T) /\ Len(t) = n
<1>1. t \in Seq(T)
  BY SeqDef
<1> QED
  BY <1>1, LenProperties

LEMMA UpdateIsSequence ==
  ASSUME NEW s, s \in Seq(ToSet(s)), NEW t, NEW i, NEW e, t = [s EXCEPT ![i] = e]
  PROVE  /\ t \in Seq(ToSet(t)) /\ Len(t) = Len(s) /\ DOMAIN t = DOMAIN s
         /\ \A j \in DOMAIN s : t[j] = IF j = i THEN e ELSE s[j]
<1>1. DOMAIN s = 1..Len(s) /\ Len(s) \in Nat
  BY LenProperties
<1>2. DOMAIN t = DOMAIN s /\ t = [j \in DOMAIN s |-> t[j]]
  OBVIOUS
<1>3. \A j \in DOMAIN s : t[j] = IF j = i THEN e ELSE s[j]
  OBVIOUS
<1>4. t \in [1..Len(s) -> ToSet(t)]
  BY <1>1, <1>2 DEF ToSet
<1>5. t \in Seq(ToSet(t)) /\ Len(t) = Len(s)
  BY <1>1, <1>4, ListIsSequence, Zenon
<1> QED
  BY <1>2, <1>3, <1>5

\* A step that changes a cache and goes on with the request.
GoesOnCaching(c, to, held, cache) ==
  /\ FrameInv' /\ UNCHANGED <<deployment, clock, app, stores, issued, left>>
  /\ pc'[c] = to /\ work'[c] = held /\ Continues(work[c], held)
  /\ caches' = [caches EXCEPT ![work[c].sdk] = cache]

LEMMA GoingOnCaching ==
  ASSUME FrameInv, NEW c \in Callers, pc[c] \in StoreHeld, NEW to \in Steps, NEW held, NEW cache,
         Goes(c, to), Holds(c, held), Continues(work[c], held), held.now \in 0..clock,
         UNCHANGED <<deployment, clock, loop, app, stores, issued, left>>,
         caches' = [caches EXCEPT ![work[c].sdk] = cache],
         to \in StoreHeld, to # "look_up"
  PROVE  GoesOnCaching(c, to, held, cache)
<1>1. Moves(c, to, held)
  BY DEF Goes, Holds, Moves
<1>2. /\ caches' \in Seq(ToSet(caches')) /\ Len(caches') = Len(caches)
  BY UpdateIsSequence DEF FrameInv
<1>3. Grows
  BY <1>2, Sizes DEF Grows
<1>4. HandleInv'
  BY OtherSteps DEF FrameInv, HandleInv
<1>5. /\ pc' \in [Callers -> Steps] /\ work' = [d \in Callers |-> work'[d]]
      /\ pc'[c] = to /\ work'[c] = held
      /\ \A d \in Callers \ {c} : CallerInv(d)'
  BY <1>1, <1>3, OthersKeep
<1>6. CallerInv(c)
  BY DEF FrameInv
<1>7. CallerInv(c)'
  BY <1>2, <1>5, <1>6 DEF CallerInv, Continues, Asked, StoreHeld, SdkHeld
<1>8. FrameInv'
  BY <1>2, <1>4, <1>5, <1>7 DEF FrameInv
<1> QED
  BY <1>5, <1>8 DEF GoesOnCaching

\* A cached result, no result when no call is allowed, or a search to be made.
LEMMA LooksInCacheSteps ==
  ASSUME FrameInv, NEW c \in Callers, LooksInCache(c)
  PROVE  LET after == CacheAfterGet(CacheOf(c), KeyOf(c), clock)
             hit == CacheOf(c)[Position(CacheOf(c), KeyOf(c))]
         IN  /\ pc[c] = "cache"
             /\ \/ /\ CacheHit(CacheOf(c), KeyOf(c), clock)
                   /\ GoesOnCaching(c, "build",
                        [work[c] EXCEPT !.batch = RetrievalBatch(hit.candidates, 0)], after)
                \/ GoesOnCaching(c, "build", [work[c] EXCEPT !.batch = RetrievalBatch(<<>>, 0)], after)
                \/ /\ RetrievalPolicyOf(c).budget.max_web_calls # 0
                   /\ GoesOnCaching(c, "search_web", work[c], after)
<1> DEFINE after == CacheAfterGet(CacheOf(c), KeyOf(c), clock)
           hit == CacheOf(c)[Position(CacheOf(c), KeyOf(c))]
           batch == RetrievalBatch(hit.candidates, 0)
           empty == RetrievalBatch(<<>>, 0)
           isHit == CacheHit(CacheOf(c), KeyOf(c), clock)
           spent == RetrievalPolicyOf(c).budget.max_web_calls = 0
           Holding(b) == [work[c] EXCEPT !.batch = b]
<1>1. /\ pc[c] = "cache"
      /\ UNCHANGED <<deployment, clock, loop, app, stores, issued, left>>
      /\ caches' = [caches EXCEPT ![work[c].sdk] = CacheAfterGet(@, KeyOf(c), clock)]
      /\ IF isHit THEN Holds(c, Holding(batch)) /\ Goes(c, "build")
         ELSE IF spent THEN Holds(c, Holding(empty)) /\ Goes(c, "build")
         ELSE Goes(c, "search_web") /\ UNCHANGED work
  BY DEF LooksInCache, Working, Receives
<1>2. caches' = [caches EXCEPT ![work[c].sdk] = after]
  BY <1>1, Zenon DEF CacheOf
<1> HIDE DEF after, hit, batch, empty, isHit, spent
<1>3. /\ Continues(work[c], Holding(batch)) /\ Holding(batch).now = work[c].now
      /\ Continues(work[c], Holding(empty)) /\ Holding(empty).now = work[c].now
  BY Now DEF IsWork, WorkFields, Continues
<1> HIDE DEF Holding
<1>4. Continues(work[c], work[c])
  BY Now DEF Continues
<1>5. CASE isHit
  <2>1. GoesOnCaching(c, "build", Holding(batch), after)
    BY <1>1, <1>2, <1>3, <1>5, Now, GoingOnCaching DEF Steps, StoreHeld
  <2> QED
    BY <1>1, <1>5, <2>1 DEF Holding, batch, hit, after, isHit
<1>6. CASE ~isHit /\ spent
  <2>1. GoesOnCaching(c, "build", Holding(empty), after)
    BY <1>1, <1>2, <1>3, <1>6, Now, GoingOnCaching DEF Steps, StoreHeld
  <2> QED
    BY <1>1, <2>1 DEF Holding, empty, after
<1>7. CASE ~isHit /\ ~spent
  <2>1. Holds(c, work[c])
    BY <1>1, <1>7 DEF Holds, FrameInv
  <2>2. GoesOnCaching(c, "search_web", work[c], after)
    BY <1>1, <1>2, <1>4, <1>7, <2>1, Now, GoingOnCaching DEF Steps, StoreHeld
  <2> QED
    BY <1>1, <1>7, <2>2 DEF after, spent
<1> QED
  BY <1>5, <1>6, <1>7

LEMMA FillsCacheSteps ==
  ASSUME FrameInv, NEW c \in Callers, FillsCache(c)
  PROVE  /\ pc[c] = "fill_cache"
         /\ GoesOnCaching(c, "build", work[c],
              CacheAfterPut(CacheOf(c), KeyOf(c), work[c].batch.candidates,
                            work[c].now + CacheTtl, CacheEntries))
<1> DEFINE after == CacheAfterPut(CacheOf(c), KeyOf(c), work[c].batch.candidates,
                                  work[c].now + CacheTtl, CacheEntries)
<1>1. /\ pc[c] = "fill_cache" /\ Goes(c, "build")
      /\ UNCHANGED <<deployment, clock, loop, app, stores, issued, left, work>>
      /\ caches' = [caches EXCEPT ![work[c].sdk] =
           CacheAfterPut(@, KeyOf(c), work[c].batch.candidates, work[c].now + CacheTtl, CacheEntries)]
  BY DEF FillsCache, Working
<1>2. caches' = [caches EXCEPT ![work[c].sdk] = after]
  BY <1>1, Zenon DEF CacheOf
<1> HIDE DEF after
<1>3. Continues(work[c], work[c]) /\ Holds(c, work[c])
  BY <1>1, Now DEF Continues, Holds, FrameInv
<1>4. GoesOnCaching(c, "build", work[c], after)
  BY <1>1, <1>2, <1>3, Now, GoingOnCaching DEF Steps, StoreHeld
<1> QED
  BY <1>1, <1>4 DEF after

(***************************************************************************)
(* Steps towards an SDK and a store                                         *)
(***************************************************************************)

\* A caller takes note of the SDK or the store.
Finds(w, v) ==
  /\ IsWork(v) /\ v.request = w.request /\ v.handle = w.handle /\ v.now = w.now
  /\ v.searches = w.searches

\* A caller on its way to the handler.
OnTheWay(c) ==
  /\ FrameInv' /\ UNCHANGED <<deployment, clock, issued, left>>
  /\ pc'[c] \in {"needs_sdk", "builds_sdk", "needs_store", "builds_store", "ready", "handle"}
  /\ Finds(work[c], work'[c])

LEMMA WorkOfCallers ==
  ASSUME FrameInv, NEW c \in Callers
  PROVE  IsWork(work[c])
  BY Now

\* A caller that finds the SDK or the store built holds it, and keeps the rest.
HoldsSdk(w, x, v) == v = [w EXCEPT !.sdk = x]
HoldsStore(w, x, v) == v = [w EXCEPT !.store = x]

LEMMA SdkFound ==
  ASSUME FrameInv, NEW c \in Callers, NEW x, NEW held, HoldsSdk(work[c], x, held)
  PROVE  Finds(work[c], held) /\ held.sdk = x /\ held.store = work[c].store
<1> DEFINE w == work[c]
<1>1. IsWork(w)
  BY WorkOfCallers
<1>2. held = [w EXCEPT !.sdk = x]
  BY DEF HoldsSdk
<1> HIDE DEF w
<1>3. Finds(w, held) /\ held.sdk = x /\ held.store = w.store
  BY <1>1, <1>2 DEF Finds, IsWork, WorkFields
<1> QED
  BY <1>3 DEF w

LEMMA StoreFound ==
  ASSUME FrameInv, NEW c \in Callers, NEW x, NEW held, HoldsStore(work[c], x, held)
  PROVE  Finds(work[c], held) /\ held.store = x /\ held.sdk = work[c].sdk
<1> DEFINE w == work[c]
<1>1. IsWork(w)
  BY WorkOfCallers
<1>2. held = [w EXCEPT !.store = x]
  BY DEF HoldsStore
<1> HIDE DEF w
<1>3. Finds(w, held) /\ held.store = x /\ held.sdk = w.sdk
  BY <1>1, <1>2 DEF Finds, IsWork, WorkFields
<1> QED
  BY <1>3 DEF w

LEMMA NeedsSdkSteps ==
  ASSUME FrameInv, NEW c \in Callers, NeedsSdk(c)
  PROVE  OnTheWay(c) /\ pc[c] = "needs_sdk" /\ UNCHANGED <<stores, caches>>
<1> DEFINE held == [work[c] EXCEPT !.sdk = app.sdk]
           to == IF app.sdk = 0 THEN "builds_sdk" ELSE "needs_store"
<1>1. pc[c] = "needs_sdk" /\ Quiet /\ loop' = loop /\ Moves(c, to, held)
  BY DEF NeedsSdk, Working, Goes, Holds, Moves, Quiet
<1>2. Finds(work[c], held) /\ held.sdk = app.sdk /\ held.store = work[c].store
  BY Now DEF Finds, IsWork, WorkFields
<1>3. to \in Steps /\ to \in {"builds_sdk", "needs_store"} /\ (to = "needs_store" => app.sdk # 0)
  BY DEF Steps
<1> HIDE DEF held, to
<1>4. Grows /\ HandleInv' /\ UNCHANGED <<app, caches, left>>
  BY <1>1, QuietKeeps
<1>5. pc'[c] = to /\ work'[c] = held
  BY <1>1, <1>3, <1>4, OthersKeep
<1>6. CallerInv(c) /\ app.sdk \in 0..Len(caches)
  BY DEF FrameInv
<1>7. CallerInv(c)'
  BY <1>1, <1>2, <1>3, <1>4, <1>5, <1>6
     DEF CallerInv, Finds, Asked, StoreHeld, SdkHeld, Quiet
<1>8. FrameInv'
  BY <1>1, <1>3, <1>4, <1>7, ActorMoves
<1> QED
  BY <1>1, <1>2, <1>3, <1>5, <1>8 DEF OnTheWay, Quiet

LEMMA NeedsStoreSteps ==
  ASSUME FrameInv, NEW c \in Callers, NeedsStore(c)
  PROVE  OnTheWay(c) /\ pc[c] = "needs_store" /\ UNCHANGED <<stores, caches>>
<1> DEFINE held == [work[c] EXCEPT !.store = app.store]
           to == IF app.store = 0 THEN "builds_store" ELSE "ready"
<1>1. pc[c] = "needs_store" /\ Quiet /\ loop' = loop /\ Moves(c, to, held)
  BY DEF NeedsStore, Working, Goes, Holds, Moves, Quiet
<1>2. Finds(work[c], held) /\ held.store = app.store /\ held.sdk = work[c].sdk
  BY Now DEF Finds, IsWork, WorkFields
<1>3. to \in Steps /\ to \in {"builds_store", "ready"} /\ (to = "ready" => app.store # 0)
  BY DEF Steps
<1> HIDE DEF held, to
<1>4. Grows /\ HandleInv' /\ UNCHANGED <<app, caches, left>>
  BY <1>1, QuietKeeps
<1>5. pc'[c] = to /\ work'[c] = held
  BY <1>1, <1>3, <1>4, OthersKeep
<1>6. CallerInv(c) /\ app.store \in 0..Len(stores)
  BY DEF FrameInv, HandleInv
<1>7. CallerInv(c)'
  BY <1>1, <1>2, <1>3, <1>4, <1>5, <1>6
     DEF CallerInv, Finds, Asked, StoreHeld, SdkHeld, Quiet
<1>8. FrameInv'
  BY <1>1, <1>3, <1>4, <1>7, ActorMoves
<1> QED
  BY <1>1, <1>2, <1>3, <1>5, <1>8 DEF OnTheWay, Quiet

LEMMA BuildsSdkSteps ==
  ASSUME FrameInv, NEW c \in Callers, BuildsSdk(c)
  PROVE  /\ pc[c] = "builds_sdk"
         /\ \/ Drops(c)
            \/ OnTheWay(c) /\ UNCHANGED stores /\ caches' = Append(caches, <<>>)
<1> DEFINE error == BuildError(deployment.settings)
<1>1. /\ pc[c] = "builds_sdk" /\ UNCHANGED <<deployment, clock, stores, issued, left>>
      /\ IF error # "none" THEN Fails(c, error) /\ UNCHANGED <<app, caches>>
         ELSE /\ caches' = Append(caches, <<>>)
              /\ app' = [app EXCEPT !.sdk = Len(caches')]
              /\ Moves(c, "needs_store", [work[c] EXCEPT !.sdk = Len(caches')])
              /\ UNCHANGED loop
  BY DEF BuildsSdk, Working, Goes, Holds, Moves
<1> HIDE DEF error
<1>2. CASE error # "none"
  <2>1. Quiet
    BY <1>1, <1>2 DEF Quiet
  <2> QED
    BY <1>1, <1>2, <2>1, Failing
<1>3. CASE error = "none"
  <2> DEFINE held == [work[c] EXCEPT !.sdk = Len(caches')]
  <2>1. /\ caches' \in Seq(ToSet(caches')) /\ Len(caches') = Len(caches) + 1
    <3>1. caches' \in Seq(ToSet(caches')) /\ DOMAIN caches' = DOMAIN caches \cup {Len(caches) + 1}
          /\ DOMAIN caches = 1..Len(caches) /\ Len(caches) \in Nat
      <4>1. caches \in Seq(ToSet(caches)) /\ caches' = Append(caches, <<>>)
        BY <1>1, <1>3 DEF FrameInv
      <4> QED
        BY <4>1, AppendIsSequence
    <3> QED
      BY <3>1, LenProperties
  <2>2. Finds(work[c], held) /\ held.sdk = Len(caches') /\ held.store = work[c].store
    <3>1. HoldsSdk(work[c], Len(caches'), held)
      BY DEF HoldsSdk
    <3> HIDE DEF held
    <3> QED
      BY <3>1, SdkFound
  <2>3. Moves(c, "needs_store", held)
    BY <1>1, <1>3
  <2> HIDE DEF held
  <2>4. Grows
    BY <1>1, <2>1, Sizes DEF Grows
  <2>5. app' = [sdk |-> app'.sdk, store |-> app'.store] /\ app'.store = app.store
        /\ app'.sdk = Len(caches')
    BY <1>1, <1>3 DEF FrameInv, HandleInv
  <2>6. HandleInv'
    BY <1>1, <2>5, OtherSteps DEF FrameInv
  <2>7. /\ pc' \in [Callers -> Steps] /\ work' = [d \in Callers |-> work'[d]]
        /\ pc'[c] = "needs_store" /\ work'[c] = held
        /\ \A d \in Callers \ {c} : CallerInv(d)'
    BY <2>3, <2>4, OthersKeep DEF Steps
  <2>8. CallerInv(c)
    BY DEF FrameInv
  <2>9. CallerInv(c)'
    BY <1>1, <2>1, <2>2, <2>7, <2>8, Sizes DEF CallerInv, Finds, Asked, StoreHeld, SdkHeld
  <2>10. FrameInv'
    BY <1>1, <1>3, <2>1, <2>5, <2>6, <2>7, <2>9, Sizes DEF FrameInv
  <2> QED
    BY <1>1, <1>3, <2>2, <2>7, <2>10 DEF OnTheWay
<1> QED
  BY <1>2, <1>3

LEMMA BuildsStoreSteps ==
  ASSUME FrameInv, NEW c \in Callers, BuildsStore(c)
  PROVE  /\ pc[c] = "builds_store" /\ OnTheWay(c) /\ UNCHANGED caches
         /\ stores' = Append(stores, <<>>)
<1> DEFINE held == [work[c] EXCEPT !.store = Len(stores')]
<1>1. /\ pc[c] = "builds_store" /\ UNCHANGED <<deployment, clock, loop, caches, issued, left>>
      /\ stores' = Append(stores, <<>>) /\ app' = [app EXCEPT !.store = Len(stores')]
      /\ Moves(c, "ready", held)
  BY DEF BuildsStore, Working, Goes, Holds, Moves
<1>2. Len(stores') = Len(stores) + 1
  <2>1. stores' \in Seq(ToSet(stores')) /\ DOMAIN stores' = DOMAIN stores \cup {Len(stores) + 1}
        /\ DOMAIN stores = 1..Len(stores) /\ Len(stores) \in Nat
    BY <1>1, AppendIsSequence DEF FrameInv, HandleInv
  <2> QED
    BY <2>1, LenProperties
<1>3. Finds(work[c], held) /\ held.store = Len(stores') /\ held.sdk = work[c].sdk
  <2>1. HoldsStore(work[c], Len(stores'), held)
    BY DEF HoldsStore
  <2> HIDE DEF held
  <2> QED
    BY <2>1, StoreFound
<1> HIDE DEF held
<1>4. Grows
  BY <1>1, <1>2, Sizes DEF Grows
<1>5. HandleInv'
  BY BuildsStoreForgets DEF FrameInv
<1>6. app'.sdk = app.sdk /\ app'.store # 0
  BY <1>1, <1>2, Sizes DEF FrameInv, HandleInv
<1>7. /\ pc' \in [Callers -> Steps] /\ work' = [d \in Callers |-> work'[d]]
      /\ pc'[c] = "ready" /\ work'[c] = held
      /\ \A d \in Callers \ {c} : CallerInv(d)'
  BY <1>1, <1>4, OthersKeep DEF Steps
<1>8. CallerInv(c)
  BY DEF FrameInv
<1>9. CallerInv(c)'
  <2>1. Len(stores') \in 0..Len(stores') /\ Len(stores') # 0
    BY <1>2, Sizes
  <2>2. /\ IsWork(held) /\ held.request = work[c].request /\ held.handle = work[c].handle
        /\ held.now = work[c].now /\ held.store = Len(stores') /\ held.sdk = work[c].sdk
    BY <1>3 DEF Finds
  <2>3. "builds_store" \in SdkHeld /\ "ready" \in StoreHeld /\ "builds_store" # "idle"
    BY DEF SdkHeld, StoreHeld
  <2> QED
    BY <1>1, <1>7, <1>8, <2>1, <2>2, <2>3 DEF CallerInv, Asked
<1>10. FrameInv'
  BY <1>1, <1>5, <1>6, <1>7, <1>9 DEF FrameInv
<1> QED
  BY <1>1, <1>3, <1>7, <1>10 DEF OnTheWay

(***************************************************************************)
(* The other steps                                                          *)
(***************************************************************************)

LEMMA AcceptSteps ==
  ASSUME FrameInv, NEW c \in Callers, Accept(c)
  PROVE  /\ FrameInv' /\ UNCHANGED <<deployment, clock, app, caches, stores, issued>>
         /\ pc[c] = "idle" /\ pc'[c] \in {"handle", "needs_sdk", "needs_store", "ready"}
         /\ work'[c].searches = 0
<1>1. /\ pc[c] = "idle" /\ left[c] > 0 /\ left' = [left EXCEPT ![c] = @ - 1]
      /\ UNCHANGED <<deployment, clock, loop, app, caches, stores, issued>>
  BY DEF Accept, Working
<1> DEFINE To(r) == IF deployment.kind = "sdk" THEN "handle"
                    ELSE IF deployment.kind = "api" /\ r.op # "get" THEN "needs_sdk"
                    ELSE IF deployment.kind = "api" THEN "needs_store"
                    ELSE "ready"
<1>2. PICK r \in deployment.requests, h \in 0..Len(issued) :
        Moves(c, To(r), [NoWork EXCEPT !.request = r, !.handle = h, !.sdk = app.sdk,
                                       !.store = app.store])
  <2>1. \E r \in deployment.requests :
          \E h \in IF r.op = "prepare" THEN {0} ELSE 0..Len(issued) :
            Moves(c, To(r), [NoWork EXCEPT !.request = r, !.handle = h, !.sdk = app.sdk,
                                           !.store = app.store])
    BY Zenon DEF Accept, Moves, Goes, Holds
  <2>2. PICK r \in deployment.requests :
          \E h \in IF r.op = "prepare" THEN {0} ELSE 0..Len(issued) :
            Moves(c, To(r), [NoWork EXCEPT !.request = r, !.handle = h, !.sdk = app.sdk,
                                           !.store = app.store])
    BY <2>1
  <2> HIDE DEF To
  <2>3. 0 \in 0..Len(issued)
    BY Sizes
  <2> QED
    BY <2>2, <2>3
<1> DEFINE held == [NoWork EXCEPT !.request = r, !.handle = h, !.sdk = app.sdk,
                                  !.store = app.store]
           to == To(r)
<1>3. /\ IsWork(held) /\ held.request = r /\ held.handle = h /\ held.sdk = app.sdk
      /\ held.store = app.store /\ held.now = 0 /\ held.searches = 0
  BY DEF IsWork, WorkFields, NoWork
<1>4. Moves(c, to, held)
  BY <1>2
<1>5. /\ to \in Steps /\ to \in {"handle", "needs_sdk", "needs_store", "ready"}
      /\ (to \in {"handle", "ready"} => deployment.kind # "api")
      /\ (to = "needs_store" => r.op = "get")
  <2>1. deployment.kind \in {"sdk", "api", "mcp"}
    BY Deployed DEF FrameInv
  <2> QED
    BY <2>1 DEF Steps
<1> HIDE DEF held, to, To
<1>6. Grows
  BY <1>1, Sizes DEF Grows
<1>7. HandleInv'
  BY <1>1, OtherSteps DEF FrameInv, HandleInv
<1>8. /\ pc' \in [Callers -> Steps] /\ work' = [d \in Callers |-> work'[d]]
      /\ pc'[c] = to /\ work'[c] = held
      /\ \A d \in Callers \ {c} : CallerInv(d)'
  BY <1>4, <1>5, <1>6, OthersKeep
<1>9. /\ app.sdk \in 0..Len(caches) /\ app.store \in 0..Len(stores)
      /\ (deployment.kind # "api" => app.sdk # 0 /\ app.store # 0)
  BY DEF FrameInv, HandleInv
<1>10. CallerInv(c)'
  BY <1>1, <1>3, <1>5, <1>8, <1>9, Sizes DEF CallerInv, Asked, StoreHeld, SdkHeld
<1>11. left' \in [Callers -> 0..deployment.requests_each]
  <2>1. left \in [Callers -> 0..deployment.requests_each] /\ deployment.requests_each \in Nat
    BY Deployed DEF FrameInv
  <2> QED
    BY <1>1, <2>1
<1>12. FrameInv'
  BY <1>1, <1>7, <1>8, <1>9, <1>10, <1>11 DEF FrameInv
<1> QED
  BY <1>1, <1>3, <1>5, <1>8, <1>12

LEMMA PutsSteps ==
  ASSUME FrameInv, NEW c \in Callers, Puts(c)
  PROVE  /\ FrameInv' /\ UNCHANGED <<deployment, clock, app, caches, left>>
         /\ pc[c] = "put" /\ pc'[c] = "idle" /\ work'[c].searches = 0
         /\ issued' = Append(issued, [package |-> work[c].package, created_at |-> work[c].now,
                                      store |-> work[c].store])
<1>1. /\ UNCHANGED <<deployment, clock, app, caches, left>> /\ pc[c] = "put" /\ Ends(c, "ok")
      /\ issued' = Append(issued, [package |-> work[c].package, created_at |-> work[c].now,
                                   store |-> work[c].store])
  BY DEF Puts, Working
<1>2. HandleInv'
  BY PutsIssues DEF FrameInv
<1>3. Len(issued') = Len(issued) + 1
  BY <1>1, AppendIsSequence, LenProperties DEF FrameInv, HandleInv
<1>4. Len(stores') = Len(stores)
  BY UpdateIsSequence DEF Puts, FrameInv, HandleInv
<1>5. Grows
  BY <1>1, <1>3, <1>4, Sizes DEF Grows
<1>6. FrameInv' /\ pc'[c] = "idle" /\ work'[c] = [NoWork EXCEPT !.outcome = "ok"]
  BY <1>1, <1>2, <1>5, EndKeeps
<1>7. work'[c].searches = 0
  BY <1>6, IdleHolds
<1> QED
  BY <1>1, <1>6, <1>7, Zenon

LEMMA NotFoundSteps ==
  ASSUME FrameInv, NEW c \in Callers, NotFound(c)
  PROVE  /\ FrameInv' /\ UNCHANGED <<deployment, clock, app, caches, issued, left>>
         /\ pc[c] = "look_up" /\ ~Found(c) /\ pc'[c] = "idle" /\ work'[c].searches = 0
         /\ stores' = [stores EXCEPT ![work[c].store] =
              [h \in Entries(work[c].store) \ {HandleOf(c)} |-> stores[work[c].store][h]]]
<1>1. /\ UNCHANGED <<deployment, clock, app, caches, issued, left>>
      /\ pc[c] = "look_up" /\ ~Found(c) /\ Fails(c, "package_not_found")
      /\ stores' = [stores EXCEPT ![work[c].store] =
           [h \in Entries(work[c].store) \ {HandleOf(c)} |-> stores[work[c].store][h]]]
  BY DEF NotFound, Working
<1>2. HandleInv'
  BY NotFoundForgets DEF FrameInv
<1>3. Len(stores') = Len(stores)
  BY <1>1, UpdateIsSequence DEF FrameInv, HandleInv
<1>4. Grows
  BY <1>1, <1>3, Sizes DEF Grows
<1>5. FrameInv' /\ pc'[c] = "idle"
      /\ work'[c] = [NoWork EXCEPT !.outcome = Response(deployment.kind, "package_not_found")]
  BY <1>1, <1>2, <1>4, EndKeeps DEF Fails
<1> QED
  BY <1>1, <1>5, IdleHolds

LEMMA TickSteps ==
  ASSUME FrameInv, Tick
  PROVE  /\ FrameInv' /\ clock' = clock + 1
         /\ UNCHANGED <<deployment, loop, app, caches, stores, issued, pc, left, work>>
<1>1. /\ clock' = clock + 1 /\ clock < deployment.ticks
      /\ UNCHANGED <<deployment, loop, app, caches, stores, issued, pc, left, work>>
  BY DEF Tick
<1>2. HandleInv'
  BY <1>1, OtherSteps DEF FrameInv, HandleInv
<1>3. deployment.ticks \in Nat /\ clock \in Nat
  BY Deployed, Sizes DEF FrameInv
<1>4. ASSUME NEW c \in Callers PROVE CallerInv(c)'
  BY <1>1, <1>3 DEF FrameInv, CallerInv, Asked
<1> QED
  BY <1>1, <1>2, <1>3, <1>4 DEF FrameInv

(***************************************************************************)
(* Handles are found while they may be                                      *)
(***************************************************************************)

\* An entry holds what was issued, and one that is gone has a reason to be.
KeepsEntries(s) ==
  \A h \in Entries(s) :
    /\ stores[s][h].created_at = issued[h].created_at
    /\ stores[s][h].expires_at = issued[h].created_at + PackageTtl
    /\ issued[h].store = s

Excused(h) ==
  \/ clock > issued[h].created_at + PackageTtl
  \/ Cardinality(MakeRoom(h)) >= MaxEntries

StoredInv ==
  /\ \A s \in DOMAIN stores : KeepsEntries(s)
  /\ \A h \in DOMAIN issued :
       /\ issued[h].created_at \in 0..clock /\ issued[h].store \in DOMAIN stores
       /\ h \in Entries(issued[h].store) \/ Excused(h)

LEMMA MakeRoomIsFinite ==
  ASSUME FrameInv, NEW h
  PROVE  IsFiniteSet(MakeRoom(h)) /\ Cardinality(MakeRoom(h)) \in Nat
<1>1. IsFiniteSet(1..Len(issued))
  BY Sizes, FS_Interval
<1>2. MakeRoom(h) \subseteq 1..Len(issued)
  BY Sizes DEF MakeRoom
<1> QED
  BY <1>1, <1>2, FS_Subset, FS_CardinalityType

\* Time excuses more and more, and so do the packages that follow.
LEMMA StaysExcused ==
  ASSUME FrameInv, FrameInv', NEW h \in DOMAIN issued, Excused(h), issued[h].created_at \in Nat,
         clock' >= clock, DOMAIN issued \subseteq DOMAIN issued',
         \A k \in DOMAIN issued : issued'[k] = issued[k]
  PROVE  Excused(h)'
<1>1. CASE clock > issued[h].created_at + PackageTtl
  <2>1. clock \in Nat /\ clock' \in Nat
    BY DEF FrameInv
  <2> QED
    BY <1>1, <2>1, Limits DEF Excused
<1>2. CASE Cardinality(MakeRoom(h)) >= MaxEntries
  <2>1. MakeRoom(h) \subseteq MakeRoom(h)'
    BY DEF MakeRoom
  <2>2. IsFiniteSet(MakeRoom(h)') /\ Cardinality(MakeRoom(h)') \in Nat
    <3>1. DOMAIN issued' = 1..Len(issued') /\ Len(issued') \in Nat
      BY LenProperties DEF FrameInv, HandleInv
    <3>2. IsFiniteSet(1..Len(issued'))
      BY <3>1, FS_Interval
    <3>3. MakeRoom(h)' \subseteq 1..Len(issued')
      BY <3>1 DEF MakeRoom
    <3> QED
      BY <3>2, <3>3, FS_Subset, FS_CardinalityType
  <2>3. Cardinality(MakeRoom(h)) <= Cardinality(MakeRoom(h)')
    BY <2>1, <2>2, FS_Subset
  <2>4. Cardinality(MakeRoom(h)) \in Nat
    BY MakeRoomIsFinite
  <2> QED
    BY <1>2, <2>2, <2>3, <2>4, Limits DEF Excused
<1> QED
  BY <1>1, <1>2 DEF Excused

LEMMA UntouchedStores ==
  ASSUME FrameInv, FrameInv', StoredInv, UNCHANGED <<stores, issued>>, clock' >= clock
  PROVE  StoredInv'
<1>1. \A s \in DOMAIN stores' : KeepsEntries(s)'
  BY DEF StoredInv, KeepsEntries, Entries
<1>2. clock \in Nat /\ clock' \in Nat
  BY DEF FrameInv
<1>3. ASSUME NEW h \in DOMAIN issued
      PROVE  /\ issued'[h].created_at \in 0..clock' /\ issued'[h].store \in DOMAIN stores'
             /\ h \in Entries(issued[h].store)' \/ Excused(h)'
  <2>1. /\ issued[h].created_at \in 0..clock /\ issued[h].store \in DOMAIN stores
        /\ h \in Entries(issued[h].store) \/ Excused(h)
    BY <1>3 DEF StoredInv
  <2>2. Excused(h) => Excused(h)'
    BY <1>3, <2>1, StaysExcused
  <2> QED
    BY <1>2, <2>1, <2>2 DEF Entries
<1> QED
  BY <1>1, <1>3 DEF StoredInv, Entries

LEMMA BuildsStoreStores ==
  ASSUME FrameInv, FrameInv', StoredInv, UNCHANGED <<issued, clock>>, stores' = Append(stores, <<>>)
  PROVE  StoredInv'
<1>1. /\ DOMAIN stores' = DOMAIN stores \cup {Len(stores) + 1}
      /\ \A s \in DOMAIN stores : stores'[s] = stores[s]
      /\ stores'[Len(stores) + 1] = <<>>
  <2>1. stores \in Seq(ToSet(stores))
    BY DEF FrameInv, HandleInv
  <2> QED
    BY <2>1, AppendIsSequence
<1>2. ASSUME NEW s \in DOMAIN stores'
      PROVE  KeepsEntries(s)'
  <2>1. CASE s \in DOMAIN stores
    BY <1>1, <2>1 DEF StoredInv, KeepsEntries, Entries
  <2>2. CASE s = Len(stores) + 1
    BY <1>1, <2>2 DEF KeepsEntries, Entries
  <2> QED
    BY <1>1, <2>1, <2>2
<1>3. ASSUME NEW h \in DOMAIN issued
      PROVE  /\ issued'[h].created_at \in 0..clock' /\ issued'[h].store \in DOMAIN stores'
             /\ h \in Entries(issued[h].store)' \/ Excused(h)'
  <2>1. /\ issued[h].created_at \in 0..clock /\ issued[h].store \in DOMAIN stores
        /\ h \in Entries(issued[h].store) \/ Excused(h)
    BY <1>3 DEF StoredInv
  <2>2. Excused(h)' <=> Excused(h)
    BY DEF Excused, MakeRoom
  <2> QED
    BY <1>1, <2>1, <2>2 DEF Entries
<1> QED
  BY <1>2, <1>3 DEF StoredInv, Entries

\* Only an entry that is too old is removed by a request for it.
LEMMA NotFoundStores ==
  ASSUME FrameInv, FrameInv', StoredInv, NEW c \in Callers, NotFound(c),
         UNCHANGED <<issued, clock>>
  PROVE  StoredInv'
<1> DEFINE s == work[c].store
           rest == [h \in Entries(s) \ {HandleOf(c)} |-> stores[s][h]]
<1>1. stores' = [stores EXCEPT ![s] = rest] /\ ~Found(c) /\ pc[c] = "look_up"
  BY DEF NotFound, Working
<1> HIDE DEF rest
<1>2. /\ DOMAIN stores' = DOMAIN stores
      /\ \A t \in DOMAIN stores : stores'[t] = IF t = s THEN rest ELSE stores[t]
  BY <1>1, UpdateIsSequence DEF FrameInv, HandleInv
<1>3. /\ DOMAIN rest = Entries(s) \ {HandleOf(c)}
      /\ \A h \in DOMAIN rest : rest[h] = stores[s][h]
  BY DEF rest
<1>4. ASSUME NEW t \in DOMAIN stores'
      PROVE  KeepsEntries(t)'
  <2>1. KeepsEntries(t)
    BY <1>2, <1>4 DEF StoredInv
  <2>2. Entries(t)' \subseteq Entries(t) /\ \A h \in Entries(t)' : stores'[t][h] = stores[t][h]
    BY <1>2, <1>3, <1>4 DEF Entries
  <2> QED
    BY <2>1, <2>2 DEF KeepsEntries
<1>5. ASSUME NEW h \in DOMAIN issued
      PROVE  h \in Entries(issued[h].store)' \/ Excused(h)'
  <2>1. /\ issued[h].created_at \in 0..clock /\ issued[h].store \in DOMAIN stores
        /\ h \in Entries(issued[h].store) \/ Excused(h)
    BY <1>5 DEF StoredInv
  <2>2. Excused(h)' <=> Excused(h)
    BY DEF Excused, MakeRoom
  <2>3. CASE issued[h].store # s \/ h # HandleOf(c)
    BY <1>2, <1>3, <2>1, <2>2, <2>3 DEF Entries
  <2>4. CASE issued[h].store = s /\ h = HandleOf(c) /\ h \in Entries(s)
    <3>1. work[c].now > issued[h].created_at + PackageTtl
      <4>1. ~(work[c].now <= stores[s][h].expires_at)
        BY <1>1, <2>4 DEF Found
      <4>2. stores[s][h].expires_at = issued[h].created_at + PackageTtl
        BY <2>1, <2>4 DEF StoredInv, KeepsEntries
      <4>3. work[c].now \in 0..clock
        BY Now
      <4> QED
        BY <2>1, <4>1, <4>2, <4>3, Limits
    <3>2. work[c].now \in 0..clock /\ clock \in Nat
      BY Now, Sizes
    <3>3. Excused(h)
      BY <2>1, <3>1, <3>2, Limits DEF Excused
    <3> QED
      BY <2>2, <3>3
  <2> QED
    BY <2>1, <2>2, <2>3, <2>4
<1> QED
  BY <1>2, <1>4, <1>5 DEF StoredInv, Entries

(***************************************************************************)
(* Issued handles are found within their lifetime                           *)
(***************************************************************************)

LEMMA PutStore ==
  ASSUME FrameInv, NEW c \in Callers, pc[c] = "put"
  PROVE  work[c].store \in DOMAIN stores /\ work[c].now \in 0..clock
<1>1. CallerInv(c)
  BY DEF FrameInv
<1> QED
  BY <1>1, Sizes DEF CallerInv, StoreHeld

\* What a full store gives up is older than all it keeps.
LEMMA PutsStores ==
  ASSUME FrameInv, FrameInv', StoredInv, NEW c \in Callers, Puts(c)
  PROVE  StoredInv'
<1> DEFINE s == work[c].store
           now == work[c].now
           n == Len(issued)
           entry == [package |-> work[c].package, created_at |-> work[c].now,
                     expires_at |-> work[c].now + PackageTtl]
           record == [package |-> work[c].package, created_at |-> work[c].now,
                      store |-> work[c].store]
<1>1. /\ pc[c] = "put" /\ UNCHANGED clock
      /\ issued' = Append(issued, record)
  BY DEF Puts, Working
<1>2. s \in DOMAIN stores /\ now \in 0..clock /\ clock \in Nat /\ n \in Nat
  BY <1>1, PutStore, Sizes
<1>3. PICK kept \in SUBSET Entries(s) :
        /\ Kept(s, now, kept)
        /\ stores' = [stores EXCEPT ![s] =
                        [k \in kept \cup {n + 1} |-> IF k = n + 1 THEN entry ELSE stores[s][k]]]
  BY Zenon DEF Puts
<1> DEFINE filled == [k \in kept \cup {n + 1} |-> IF k = n + 1 THEN entry ELSE stores[s][k]]
<1>4. /\ record.created_at = now /\ record.store = s
      /\ entry.created_at = now /\ entry.expires_at = now + PackageTtl
  OBVIOUS
<1> HIDE DEF entry, record, n
<1>5. /\ DOMAIN issued' = DOMAIN issued \cup {n + 1} /\ n + 1 \notin DOMAIN issued
      /\ \A h \in DOMAIN issued : issued'[h] = issued[h]
      /\ issued'[n + 1] = record
      /\ DOMAIN issued = 1..n
  <2>1. issued \in Seq(ToSet(issued))
    BY DEF FrameInv, HandleInv
  <2> QED
    BY <1>1, <2>1, AppendIsSequence DEF n
<1>6. /\ DOMAIN filled = kept \cup {n + 1} /\ filled[n + 1] = entry
      /\ \A k \in kept \ {n + 1} : filled[k] = stores[s][k]
  OBVIOUS
<1>7. stores' = [stores EXCEPT ![s] = filled]
  BY <1>3
<1> HIDE DEF filled
<1>8. /\ DOMAIN stores' = DOMAIN stores
      /\ \A t \in DOMAIN stores : stores'[t] = IF t = s THEN filled ELSE stores[t]
  BY <1>7, UpdateIsSequence DEF FrameInv, HandleInv
<1>9. /\ Entries(s) \subseteq DOMAIN issued /\ IsFiniteSet(Entries(s))
      /\ KeepsEntries(s)
  BY <1>2 DEF FrameInv, HandleInv, StoreKeeps, StoredInv
<1>10. kept \subseteq DOMAIN issued /\ n + 1 \notin kept
  BY <1>3, <1>5, <1>9
<1> HIDE DEF s, now
<1>11. ASSUME NEW t \in DOMAIN stores'
       PROVE  KeepsEntries(t)'
  <2>1. CASE t # s
    <3>1. KeepsEntries(t) /\ Entries(t) \subseteq DOMAIN issued
      BY <1>8, <1>11 DEF FrameInv, HandleInv, StoreKeeps, StoredInv
    <3>2. Entries(t)' = Entries(t) /\ \A h \in Entries(t) : stores'[t][h] = stores[t][h]
      BY <1>8, <1>11, <2>1 DEF Entries
    <3> QED
      BY <1>5, <3>1, <3>2 DEF KeepsEntries
  <2>2. CASE t = s
    <3>1. Entries(t)' = kept \cup {n + 1} /\ stores'[t] = filled
      BY <1>6, <1>8, <1>11, <2>2 DEF Entries
    <3>2. ASSUME NEW h \in kept
          PROVE  /\ stores'[t][h].created_at = issued'[h].created_at
                 /\ stores'[t][h].expires_at = issued'[h].created_at + PackageTtl
                 /\ issued'[h].store = t
      BY <1>3, <1>5, <1>6, <1>9, <1>10, <2>2, <3>1, <3>2 DEF KeepsEntries
    <3>3. /\ stores'[t][n + 1].created_at = issued'[n + 1].created_at
          /\ stores'[t][n + 1].expires_at = issued'[n + 1].created_at + PackageTtl
          /\ issued'[n + 1].store = t
      BY <1>4, <1>5, <1>6, <2>2, <3>1
    <3> QED
      BY <3>1, <3>2, <3>3 DEF KeepsEntries
  <2> QED
    BY <2>1, <2>2
<1>12. ASSUME NEW h \in DOMAIN issued
       PROVE  /\ issued'[h].created_at \in 0..clock' /\ issued'[h].store \in DOMAIN stores'
              /\ h \in Entries(issued[h].store)' \/ Excused(h)'
  <2>1. /\ issued[h].created_at \in 0..clock /\ issued[h].store \in DOMAIN stores
        /\ h \in Entries(issued[h].store) \/ Excused(h)
    BY <1>12 DEF StoredInv
  <2>2. issued'[h] = issued[h] /\ clock' = clock
    BY <1>1, <1>5, <1>12
  <2>3. CASE Excused(h)
    <3>1. issued[h].created_at \in Nat /\ clock' >= clock
      BY <1>2, <2>1, <2>2
    <3>2. Excused(h)'
      BY <1>5, <1>12, <2>3, <3>1, StaysExcused
    <3> QED
      BY <1>8, <2>1, <2>2, <3>2
  <2>4. CASE h \in Entries(issued[h].store) /\ issued[h].store # s
    <3>1. h \in Entries(issued[h].store)'
      BY <1>8, <2>1, <2>2, <2>4 DEF Entries
    <3> QED
      BY <1>8, <2>1, <2>2, <3>1
  <2>5. CASE h \in kept /\ issued[h].store = s
    <3>1. h \in Entries(issued[h].store)'
      BY <1>6, <1>8, <2>1, <2>2, <2>5 DEF Entries
    <3> QED
      BY <1>8, <2>1, <2>2, <3>1
  <2>6. CASE h \in Entries(s) \ Unexpired(s, now) /\ issued[h].store = s
    <3>1. ~(now <= issued[h].created_at + PackageTtl)
      BY <1>9, <2>6 DEF Unexpired, KeepsEntries
    <3>2. clock' > issued'[h].created_at + PackageTtl
      BY <1>2, <2>1, <2>2, <3>1, Limits
    <3>3. Excused(h)'
      BY <3>2 DEF Excused
    <3> QED
      BY <1>8, <2>1, <2>2, <3>3
  <2>7. CASE h \in Unexpired(s, now) \ kept /\ issued[h].store = s
    <3>1. /\ kept \subseteq Entries(s) /\ Cardinality(kept) = MaxEntries - 1
          /\ OldestFirst(s, kept, Unexpired(s, now) \ kept)
      BY <1>3, <2>7 DEF Kept
    <3>2. IsFiniteSet(kept) /\ Cardinality(kept) \in Nat
      BY <1>9, <3>1, FS_Subset, FS_CardinalityType
    <3>3. Cardinality(kept \cup {n + 1}) = MaxEntries
      <4>1. Cardinality(kept \cup {n + 1}) = Cardinality(kept) + 1
        BY <1>10, <3>2, FS_AddElement
      <4> QED
        BY <3>1, <3>2, <4>1, Limits
    <3>4. ASSUME NEW k \in kept
          PROVE  k \in MakeRoom(h)'
      <4>1. \/ stores[s][h].created_at < stores[s][k].created_at
            \/ stores[s][h].created_at = stores[s][k].created_at /\ h < k
        BY <2>7, <3>1, <3>4 DEF OldestFirst
      <4>2. h \in Entries(s) /\ k \in Entries(s) /\ h \in DOMAIN issued /\ k \in DOMAIN issued
        BY <1>12, <2>7, <3>1, <3>4, <1>10 DEF Unexpired
      <4>3. /\ stores[s][h].created_at = issued[h].created_at
            /\ stores[s][k].created_at = issued[k].created_at /\ issued[k].store = s
        BY <1>9, <4>2 DEF KeepsEntries
      <4>4. issued[k].created_at \in Nat /\ issued[h].created_at \in Nat /\ h \in Nat /\ k \in Nat
        BY <1>2, <1>5, <4>2 DEF StoredInv
      <4>5. issued'[k] = issued[k] /\ k \in DOMAIN issued'
        BY <1>5, <4>2
      <4>6. k # h /\ issued'[k].created_at >= issued'[h].created_at
        BY <2>2, <4>1, <4>3, <4>4, <4>5
      <4> QED
        BY <2>2, <2>7, <4>3, <4>5, <4>6 DEF MakeRoom
    <3>5. n + 1 \in MakeRoom(h)'
      <4>1. n + 1 > h /\ n + 1 # h
        BY <1>2, <1>5, <1>12
      <4> QED
        BY <1>4, <1>5, <2>2, <2>7, <4>1 DEF MakeRoom
    <3>6. kept \cup {n + 1} \subseteq MakeRoom(h)'
      BY <3>4, <3>5
    <3>7. IsFiniteSet(MakeRoom(h)') /\ Cardinality(MakeRoom(h)') \in Nat
      <4>1. MakeRoom(h)' \subseteq 1..n + 1
        BY <1>2, <1>5 DEF MakeRoom
      <4>2. IsFiniteSet(1..n + 1)
        BY <1>2, FS_Interval
      <4> QED
        BY <4>1, <4>2, FS_Subset, FS_CardinalityType
    <3>8. Cardinality(MakeRoom(h)') >= MaxEntries
      <4>1. Cardinality(kept \cup {n + 1}) <= Cardinality(MakeRoom(h)')
        BY <3>6, <3>7, FS_Subset
      <4> QED
        BY <3>3, <3>7, <4>1, Limits
    <3>9. Excused(h)'
      BY <3>8 DEF Excused
    <3> QED
      BY <1>8, <2>1, <2>2, <3>9
  <2> QED
    BY <2>1, <2>3, <2>4, <2>5, <2>6, <2>7
<1>13. /\ issued'[n + 1].created_at \in 0..clock' /\ issued'[n + 1].store \in DOMAIN stores'
       /\ n + 1 \in DOMAIN stores'[issued'[n + 1].store]
  BY <1>1, <1>2, <1>4, <1>5, <1>6, <1>8
<1>14. ASSUME NEW h \in DOMAIN issued'
       PROVE  /\ issued'[h].created_at \in 0..clock' /\ issued'[h].store \in DOMAIN stores'
              /\ h \in Entries(issued[h].store)' \/ Excused(h)'
  BY <1>5, <1>12, <1>13, <1>14 DEF Entries
<1> QED
  BY <1>11, <1>14 DEF StoredInv

\* Nobody but the caller whose step it is moves.
Goings(c) == (\E to : Goes(c, to)) /\ (work' = work \/ \E held : Holds(c, held))

LEMMA EndsGo ==
  ASSUME NEW c, NEW outcome, Ends(c, outcome)
  PROVE  Goings(c)
  BY Zenon DEF Ends, Goings

LEMMA FailsGo ==
  ASSUME NEW c, NEW error, Fails(c, error)
  PROVE  Goings(c)
  BY EndsGo DEF Fails

LEMMA StepsGo ==
  ASSUME NEW c \in Callers, Accept(c) \/ Handler(c)
  PROVE  Goings(c)
<1>1. Accept(c) => Goings(c)
  BY Zenon, EndsGo, FailsGo DEF Accept, Goings, Receives
<1>2. NeedsSdk(c) => Goings(c)
  BY Zenon, EndsGo, FailsGo DEF NeedsSdk, Goings, Receives
<1>3. BuildsSdk(c) => Goings(c)
  BY Zenon, EndsGo, FailsGo DEF BuildsSdk, Goings, Receives
<1>4. NeedsStore(c) => Goings(c)
  BY Zenon, EndsGo, FailsGo DEF NeedsStore, Goings, Receives
<1>5. BuildsStore(c) => Goings(c)
  BY Zenon, EndsGo, FailsGo DEF BuildsStore, Goings, Receives
<1>6. Starts(c) => Goings(c)
  BY Zenon, EndsGo, FailsGo DEF Starts, Goings, Receives
<1>7. PrepareRefused(c) => Goings(c)
  BY Zenon, EndsGo, FailsGo DEF PrepareRefused, Goings, Receives
<1>8. PrepareBlocked(c) => Goings(c)
  BY Zenon, EndsGo, FailsGo DEF PrepareBlocked, Goings, Receives
<1>9. PrepareRetrieves(c) => Goings(c)
  BY Zenon, EndsGo, FailsGo DEF PrepareRetrieves, Goings, Receives
<1>10. SearchesLocally(c) => Goings(c)
  BY Zenon, EndsGo, FailsGo DEF SearchesLocally, Goings, Receives
<1>11. LooksInCache(c) => Goings(c)
  BY Zenon, EndsGo, FailsGo DEF LooksInCache, Goings, Receives
<1>12. SearchesWeb(c) => Goings(c)
  BY Zenon, EndsGo, FailsGo DEF SearchesWeb, Goings, Receives
<1>13. FillsCache(c) => Goings(c)
  BY Zenon, EndsGo, FailsGo DEF FillsCache, Goings, Receives
<1>14. Builds(c) => Goings(c)
  BY Zenon, EndsGo, FailsGo DEF Builds, Goings, Receives
<1>15. Puts(c) => Goings(c)
  BY Zenon, EndsGo, FailsGo DEF Puts, Goings, Receives
<1>16. ReadsClock(c) => Goings(c)
  BY Zenon, EndsGo, FailsGo DEF ReadsClock, Goings, Receives
<1>17. NotFound(c) => Goings(c)
  BY Zenon, EndsGo, FailsGo DEF NotFound, Goings, Receives
<1>18. LooksUp(c) => Goings(c)
  BY Zenon, EndsGo, FailsGo DEF LooksUp, Goings, Receives
<1>19. Compresses(c) => Goings(c)
  BY Zenon, EndsGo, FailsGo DEF Compresses, Goings, Receives
<1>20. AnswersAlone(c) => Goings(c)
  BY Zenon, EndsGo, FailsGo DEF AnswersAlone, Goings, Receives
<1>21. Asks(c) => Goings(c)
  BY Zenon, EndsGo, FailsGo DEF Asks, Goings, Receives
<1>22. Answers(c) => Goings(c)
  BY Zenon, EndsGo, FailsGo DEF Answers, Goings, Receives
<1> QED
  BY <1>1, <1>2, <1>3, <1>4, <1>5, <1>6, <1>7, <1>8, <1>9, <1>10, <1>11, <1>12,
     <1>13, <1>14, <1>15, <1>16, <1>17, <1>18, <1>19, <1>20, <1>21, <1>22, Zenon DEF Handler

LEMMA OthersWait ==
  ASSUME FrameInv, NEW c \in Callers, Accept(c) \/ Handler(c), NEW d \in Callers, d # c
  PROVE  pc'[d] = pc[d] /\ work'[d] = work[d]
<1>1. Goings(c)
  BY StepsGo
<1>2. pc'[d] = pc[d]
  BY <1>1 DEF Goings, Goes, FrameInv
<1>3. work'[d] = work[d]
  BY <1>1 DEF Goings, Holds, FrameInv
<1> QED
  BY <1>2, <1>3

LEMMA InitFrame == Init => FrameInv
<1> SUFFICES ASSUME Init
             PROVE  FrameInv
  OBVIOUS
<1>1. HandleInv
  BY InitHolds
<1>2. PICK none : none = <<>>
  OBVIOUS
<1>3. /\ deployment \in Configurations /\ clock = 0 /\ loop = NoCaller
      /\ issued = <<>>
      /\ pc = [c \in Callers |-> "idle"]
      /\ work = [c \in Callers |-> NoWork]
      /\ \/ /\ deployment.kind = "api" /\ app = [sdk |-> 0, store |-> 0]
            /\ caches = <<>> /\ stores = <<>>
         \/ app = [sdk |-> 1, store |-> 1] /\ caches = <<none>> /\ stores = <<none>>
  BY <1>2 DEF Init
<1>4. deployment.requests_each \in Nat /\ deployment.ticks \in Nat
  BY <1>3, Deployed
<1>5. left \in [Callers -> 0..deployment.requests_each]
  BY <1>4 DEF Init
<1>6. /\ caches \in Seq(ToSet(caches)) /\ app.sdk \in 0..Len(caches)
      /\ Len(caches) \in Nat /\ Len(stores) \in Nat
      /\ (deployment.kind # "api" => app.sdk # 0 /\ app.store # 0)
  <2>1. CASE caches = <<>>
    BY <1>3, <2>1
  <2>2. CASE caches = <<none>>
    <3>1. ToSet(caches) = {none} /\ caches \in Seq({none})
      BY <2>2 DEF ToSet
    <3> QED
      BY <1>3, <2>2, <3>1
  <2> QED
    BY <1>3, <2>1, <2>2
<1>7. ASSUME NEW c \in Callers PROVE CallerInv(c)
  <2>1. work[c] = NoWork /\ pc[c] = "idle"
    BY <1>3
  <2>2. IsWork(NoWork) /\ NoWork.handle = 0 /\ NoWork.now = 0 /\ NoWork.sdk = 0 /\ NoWork.store = 0
    BY DEF IsWork, WorkFields, NoWork
  <2>3. Len(issued) = 0
    BY <1>3
  <2> QED
    BY <1>3, <1>6, <2>1, <2>2, <2>3 DEF CallerInv, StoreHeld, SdkHeld
<1> QED
  BY <1>1, <1>3, <1>4, <1>5, <1>6, <1>7 DEF FrameInv, Steps

\* What the steps of a caller other than these leave: a quiet step, or one of the caches.
LEMMA CallerFrame ==
  ASSUME FrameInv, NEW c \in Callers, Accept(c) \/ Handler(c)
  PROVE  /\ FrameInv' /\ UNCHANGED <<deployment, clock>>
         /\ \/ UNCHANGED <<stores, issued>>
            \/ BuildsStore(c) /\ UNCHANGED issued /\ stores' = Append(stores, <<>>)
            \/ Puts(c)
            \/ NotFound(c) /\ UNCHANGED issued
<1> DEFINE Framed == /\ FrameInv' /\ UNCHANGED <<deployment, clock>>
                         /\ \/ UNCHANGED <<stores, issued>>
                            \/ BuildsStore(c) /\ UNCHANGED issued /\ stores' = Append(stores, <<>>)
                            \/ Puts(c)
                            \/ NotFound(c) /\ UNCHANGED issued
<1>1. Accept(c) => Framed
  BY AcceptSteps, Zenon DEF GoesOnWith, Drops, Quiet, GoesOnCaching, OnTheWay
<1>2. NeedsSdk(c) => Framed
  BY NeedsSdkSteps, Zenon DEF GoesOnWith, Drops, Quiet, GoesOnCaching, OnTheWay
<1>3. BuildsSdk(c) => Framed
  BY BuildsSdkSteps, Zenon DEF GoesOnWith, Drops, Quiet, GoesOnCaching, OnTheWay
<1>4. NeedsStore(c) => Framed
  BY NeedsStoreSteps, Zenon DEF GoesOnWith, Drops, Quiet, GoesOnCaching, OnTheWay
<1>5. BuildsStore(c) => Framed
  BY BuildsStoreSteps, Zenon DEF GoesOnWith, Drops, Quiet, GoesOnCaching, OnTheWay
<1>6. Starts(c) => Framed
  BY StartsSteps, Zenon DEF GoesOnWith, Drops, Quiet, GoesOnCaching, OnTheWay
<1>7. PrepareRefused(c) => Framed
  BY PrepareRefusedSteps, Zenon DEF GoesOnWith, Drops, Quiet, GoesOnCaching, OnTheWay
<1>8. PrepareBlocked(c) => Framed
  BY PrepareBlockedSteps, Zenon DEF GoesOnWith, Drops, Quiet, GoesOnCaching, OnTheWay
<1>9. PrepareRetrieves(c) => Framed
  BY PrepareRetrievesSteps, Zenon DEF GoesOnWith, Drops, Quiet, GoesOnCaching, OnTheWay
<1>10. SearchesLocally(c) => Framed
  BY SearchesLocallySteps, Zenon DEF GoesOnWith, Drops, Quiet, GoesOnCaching, OnTheWay
<1>11. LooksInCache(c) => Framed
  BY LooksInCacheSteps, Zenon DEF GoesOnWith, Drops, Quiet, GoesOnCaching, OnTheWay
<1>12. SearchesWeb(c) => Framed
  BY SearchesWebSteps, Zenon DEF GoesOnWith, Drops, Quiet, GoesOnCaching, OnTheWay
<1>13. FillsCache(c) => Framed
  BY FillsCacheSteps, Zenon DEF GoesOnWith, Drops, Quiet, GoesOnCaching, OnTheWay
<1>14. Builds(c) => Framed
  BY BuildsSteps, Zenon DEF GoesOnWith, Drops, Quiet, GoesOnCaching, OnTheWay
<1>15. Puts(c) => Framed
  BY PutsSteps, Zenon DEF GoesOnWith, Drops, Quiet, GoesOnCaching, OnTheWay
<1>16. ReadsClock(c) => Framed
  BY ReadsClockSteps, Zenon DEF GoesOnWith, Drops, Quiet, GoesOnCaching, OnTheWay
<1>17. NotFound(c) => Framed
  BY NotFoundSteps, Zenon DEF GoesOnWith, Drops, Quiet, GoesOnCaching, OnTheWay
<1>18. LooksUp(c) => Framed
  BY LooksUpSteps, Zenon DEF GoesOnWith, Drops, Quiet, GoesOnCaching, OnTheWay
<1>19. Compresses(c) => Framed
  BY CompressesSteps, Zenon DEF GoesOnWith, Drops, Quiet, GoesOnCaching, OnTheWay
<1>20. AnswersAlone(c) => Framed
  BY AnswersAloneSteps, Zenon DEF GoesOnWith, Drops, Quiet, GoesOnCaching, OnTheWay
<1>21. Asks(c) => Framed
  BY AsksSteps, Zenon DEF GoesOnWith, Drops, Quiet, GoesOnCaching, OnTheWay
<1>22. Answers(c) => Framed
  BY AnswersSteps, Zenon DEF GoesOnWith, Drops, Quiet, GoesOnCaching, OnTheWay
<1> HIDE DEF Framed
<1>q. Framed
  BY <1>1, <1>2, <1>3, <1>4, <1>5, <1>6, <1>7, <1>8, <1>9, <1>10, <1>11, <1>12,
     <1>13, <1>14, <1>15, <1>16, <1>17, <1>18, <1>19, <1>20, <1>21, <1>22, Zenon DEF Handler
<1> QED
  BY <1>q DEF Framed

LEMMA StutterFrame ==
  ASSUME FrameInv, UNCHANGED vars
  PROVE  FrameInv'
<1>1. UNCHANGED <<deployment, clock, loop, app, caches, stores, issued, pc, left, work>>
  BY DEF vars
<1>2. HandleInv'
  BY <1>1, OtherSteps DEF FrameInv, HandleInv
<1>3. ASSUME NEW c \in Callers PROVE CallerInv(c)'
  BY <1>1 DEF FrameInv, CallerInv, Asked
<1> QED
  BY <1>1, <1>2, <1>3 DEF FrameInv

LEMMA FrameStep == FrameInv /\ [Next]_vars => FrameInv'
<1> SUFFICES ASSUME FrameInv, [Next]_vars
             PROVE  FrameInv'
  OBVIOUS
<1>1. Rest \/ UNCHANGED vars => FrameInv'
  BY StutterFrame DEF Rest
<1> QED
  BY <1>1, TickSteps, CallerFrame DEF Next

LEMMA InitStored == Init => StoredInv
<1> SUFFICES ASSUME Init
             PROVE  StoredInv
  OBVIOUS
<1>1. \A s \in DOMAIN stores : stores[s] = <<>>
  <2>1. PICK none : none = <<>>
    OBVIOUS
  <2>2. stores = <<>> \/ stores = <<none>>
    BY <2>1 DEF Init
  <2> QED
    BY <2>1, <2>2
<1>2. issued = <<>>
  BY DEF Init
<1> QED
  BY <1>1, <1>2 DEF StoredInv, KeepsEntries, Entries

LEMMA StoredStep == FrameInv /\ StoredInv /\ [Next]_vars => StoredInv'
<1> SUFFICES ASSUME FrameInv, StoredInv, [Next]_vars
             PROVE  StoredInv'
  OBVIOUS
<1>1. FrameInv' /\ clock \in Nat
  BY FrameStep, Sizes
<1>2. CASE Tick
  BY <1>1, <1>2, TickSteps, UntouchedStores
<1>3. CASE Rest \/ UNCHANGED vars
  <2>1. UNCHANGED <<stores, issued, clock>>
    BY <1>3 DEF Rest, vars
  <2> QED
    BY <1>1, <2>1, UntouchedStores
<1>4. ASSUME NEW c \in Callers, Accept(c) \/ Handler(c)
      PROVE  StoredInv'
  <2>1. /\ UNCHANGED clock
        /\ \/ UNCHANGED <<stores, issued>>
           \/ UNCHANGED issued /\ stores' = Append(stores, <<>>)
           \/ Puts(c)
           \/ NotFound(c) /\ UNCHANGED issued
    BY <1>4, CallerFrame
  <2> QED
    BY <1>1, <2>1, UntouchedStores, BuildsStoreStores, PutsStores, NotFoundStores
<1> QED
  BY <1>2, <1>3, <1>4 DEF Next

\* A lookup that fails has its reason.
LEMMA LookupMisses ==
  ASSUME FrameInv, StoredInv, NEW c \in Callers, pc[c] = "look_up", ~Found(c),
         work[c].handle # 0
  PROVE  LET h == work[c].handle
         IN  \/ clock > issued[h].created_at + PackageTtl
             \/ Cardinality(MakeRoom(h)) >= MaxEntries
             \/ issued[h].store # work[c].store
<1> DEFINE h == work[c].handle
           s == work[c].store
<1>1. h \in DOMAIN issued
  BY Sizes DEF FrameInv, CallerInv
<1>2. /\ issued[h].created_at \in Nat /\ work[c].now \in 0..clock /\ clock \in Nat
      /\ (h \in Entries(issued[h].store) \/ Excused(h))
  BY <1>1, Sizes, Now DEF StoredInv
<1>3. CASE Excused(h)
  BY <1>3 DEF Excused
<1>4. CASE h \in Entries(s) /\ issued[h].store = s
  <2>1. ~(work[c].now <= stores[s][h].expires_at)
    BY <1>4 DEF Found, HandleOf
  <2>2. stores[s][h].expires_at = issued[h].created_at + PackageTtl
    <3>1. s \in DOMAIN stores
      BY <1>1, <1>4 DEF StoredInv
    <3> QED
      BY <1>4, <3>1 DEF StoredInv, KeepsEntries
  <2>3. clock > issued[h].created_at + PackageTtl
    BY <1>2, <2>1, <2>2, Limits
  <2> QED
    BY <2>3
<1> QED
  BY <1>2, <1>3, <1>4

LEMMA LookupIsInTime ==
  ASSUME FrameInv, StoredInv, NEW c \in Callers, pc[c] = "look_up", Found(c)
  PROVE  work[c].now <= issued[work[c].handle].created_at + PackageTtl
<1>1. work[c].store \in DOMAIN stores
  BY Sizes DEF FrameInv, CallerInv, StoreHeld
<1>2. /\ work[c].handle \in Entries(work[c].store)
      /\ work[c].now <= stores[work[c].store][work[c].handle].expires_at
  BY DEF Found, HandleOf
<1>3. KeepsEntries(work[c].store)
  BY <1>1 DEF StoredInv
<1> QED
  BY <1>2, <1>3 DEF KeepsEntries

LookupIsFair(c) ==
  LET h == work[c].handle IN
  /\ pc[c] = "look_up" /\ pc'[c] = "idle" /\ work'[c].outcome # "ok" /\ h # 0 =>
       \/ clock > issued[h].created_at + PackageTtl
       \/ Cardinality(MakeRoom(h)) >= MaxEntries
       \/ issued[h].store # work[c].store
  /\ pc[c] = "look_up" /\ (pc'[c] # pc[c] /\ (pc'[c] = "idle" => work'[c].outcome = "ok")) =>
       work[c].now <= issued[h].created_at + PackageTtl

\* Only two steps leave the lookup.
LEMMA StepIsFair ==
  ASSUME FrameInv, StoredInv, [Next]_vars, NEW c \in Callers
  PROVE  LookupIsFair(c)
<1>1. CASE pc[c] # "look_up" \/ pc'[c] = pc[c]
  BY <1>1 DEF LookupIsFair
<1>2. CASE pc[c] = "look_up" /\ pc'[c] # pc[c]
  <2>1. ~UNCHANGED vars /\ ~Rest /\ ~Tick
    BY <1>2 DEF vars, Rest, Tick
  <2>2. PICK d \in Callers : Accept(d) \/ Handler(d)
    BY <2>1 DEF Next
  <2>3. d = c
    BY <1>2, <2>2, OthersWait
  <2>4. NotFound(c) \/ LooksUp(c)
    BY <1>2, <2>2, <2>3, Zenon
       DEF Handler, Accept, NeedsSdk, BuildsSdk, NeedsStore, BuildsStore, Starts,
           PrepareRefused, PrepareBlocked, PrepareRetrieves, SearchesLocally, LooksInCache,
           SearchesWeb, FillsCache, Builds, Puts, ReadsClock, Compresses, AnswersAlone, Asks,
           Answers, Working, Handles
  <2>5. CASE NotFound(c)
    <3>1. ~Found(c) /\ Fails(c, "package_not_found")
      BY <2>5 DEF NotFound
    <3>2. pc'[c] = "idle" /\ work'[c].outcome # "ok"
      <4>1. pc'[c] = "idle"
        BY <2>5, NotFoundSteps
      <4>2. work'[c] = [NoWork EXCEPT !.outcome = Response(deployment.kind, "package_not_found")]
        BY <3>1 DEF Fails, Ends, Holds, FrameInv
      <4>3. work'[c].outcome = Response(deployment.kind, "package_not_found")
        BY <4>2, IdleHolds
      <4>4. Response(deployment.kind, "package_not_found") # "ok"
        BY DEF Response
      <4> QED
        BY <4>1, <4>3, <4>4
    <3> QED
      BY <1>2, <3>1, <3>2, LookupMisses DEF LookupIsFair
  <2>6. CASE LooksUp(c)
    <3>1. Found(c)
      BY <2>6, LooksUpSteps
    <3>2. pc'[c] = "idle" => work'[c].outcome = "ok"
      BY <2>6, LooksUpSteps DEF GoesOnWith
    <3> QED
      BY <1>2, <3>1, <3>2, LookupIsInTime DEF LookupIsFair
  <2> QED
    BY <2>4, <2>5, <2>6
<1> QED
  BY <1>1, <1>2

\* A request that finds no package under an issued handle comes after its time, after enough
\* other packages to fill the store, or holds another store; one that finds it is in time
\* (bridge/package_store.py put, get).
THEOREM HandlesAreFoundInTime == Spec => HandlesAreFound
<1>1. Init => FrameInv /\ StoredInv
  BY InitFrame, InitStored
<1>2. FrameInv /\ StoredInv /\ [Next]_vars => (FrameInv /\ StoredInv)'
  BY FrameStep, StoredStep
<1>3. FrameInv /\ StoredInv /\ [Next]_vars => [\A c \in Callers : LookupIsFair(c)]_vars
  BY StepIsFair
<1>4. HandlesAreFound <=> [][\A c \in Callers : LookupIsFair(c)]_vars
  BY Zenon DEF HandlesAreFound, LookupIsFair
<1> QED
  BY <1>1, <1>2, <1>3, <1>4, PTL DEF Spec

(***************************************************************************)
(* What the planner decides                                                 *)
(***************************************************************************)

LEMMA LeastIsThere ==
  ASSUME NEW S, S \subseteq Nat, S # {}
  PROVE  /\ Min(S) \in S /\ \A y \in S : Min(S) <= y
<1>1. \E x \in S : \A y \in S : ~(<<y, x>> \in OpToRel(<, Nat))
  BY NatLessThanWellFounded, WFMin, Zenon
<1>2. PICK x \in S : \A y \in S : ~(<<y, x>> \in OpToRel(<, Nat))
  BY <1>1
<1>3. \A y \in S : ~(y < x)
  BY <1>2, Zenon DEF OpToRel
<1>4. \A y \in S : x <= y
  BY <1>3
<1>5. \E z \in S : \A y \in S : z <= y
  BY <1>4
<1> QED
  BY <1>5, Zenon DEF Min

\* What is registered is sound.
RegistryIsSound(reg) ==
  /\ reg.descriptors \in Seq(ToSet(reg.descriptors))
  /\ \A d \in ToSet(reg.descriptors) : DescriptorIsSound(d)

LEMMA DeployedRegistry ==
  ASSUME NEW d \in Configurations
  PROVE  RegistryIsSound(d.registry)
  BY LiteBridgeAssumption DEF DeploymentIsPossible, RegistryIsSound

\* A decision names a reason for each thing it says, and a source if it selects one.
DecisionIsSound(reg, p) ==
  /\ p.route \in PlannerRoute
  /\ p.route = "blocked" <=> p.selected_source_id = "none"
  /\ \A i \in DOMAIN p.reason_codes : p.reason_codes[i] \in PlannerReason
  /\ p.route # "blocked" => reg.direct \/ HasSource(reg, p.selected_source_id)

LEMMA BlockedIsSound ==
  ASSUME NEW reg, NEW reason \in PlannerReason
  PROVE  DecisionIsSound(reg, Blocked(reason)) /\ Blocked(reason).route = "blocked"
  BY DEF DecisionIsSound, Blocked, PlannerDecision, PlannerRoute

LEMMA SelectionIsSound ==
  ASSUME NEW reg, NEW id, id # "none", reg.direct \/ HasSource(reg, id),
         NEW route \in {"local", "web"}, NEW reasons,
         \A i \in DOMAIN reasons : reasons[i] \in PlannerReason
  PROVE  DecisionIsSound(reg, PlannerDecision(route, id, reasons))
  BY DEF DecisionIsSound, PlannerDecision, PlannerRoute

LEMMA OneReason ==
  ASSUME NEW reason \in PlannerReason
  PROVE  /\ \A i \in DOMAIN <<reason>> : <<reason>>[i] \in PlannerReason
         /\ \A i \in DOMAIN Append(<<reason>>, "default_local") :
              Append(<<reason>>, "default_local")[i] \in PlannerReason
         /\ Append(<<>>, "default_local") = <<"default_local">>
         /\ Head(<<reason>>) = reason /\ <<reason>> # <<>>
<1>1. "default_local" \in PlannerReason
  BY DEF PlannerReason
<1>2. Append(<<reason>>, "default_local") \in Seq(PlannerReason)
  BY <1>1, AppendProperties
<1>3. \A i \in DOMAIN Append(<<reason>>, "default_local") :
        Append(<<reason>>, "default_local")[i] \in PlannerReason
  BY <1>2, ElementOfSeq, LenProperties
<1> QED
  BY <1>1, <1>3

LEMMA SourceOfKindIsThere ==
  ASSUME NEW reg, RegistryIsSound(reg), NEW kind, NEW d \in SourceOfKind(reg, kind)
  PROVE  /\ d \in ToSet(reg.descriptors) /\ HasSource(reg, d.source_id) /\ d.source_id # "none"
         /\ d.source_kind = kind
<1> DEFINE default == {x \in SourcesNamed(reg, reg.default) : x.source_kind = kind}
           I == {i \in 1..Len(reg.descriptors) : reg.descriptors[i].source_kind = kind}
<1>1. SourceOfKind(reg, kind) = (IF default # {} THEN default
                                 ELSE IF I = {} \/ Min(I) = 0 THEN {}
                                 ELSE {reg.descriptors[Min(I)]})
  BY DEF SourceOfKind, SelectInSeq
<1>2. Len(reg.descriptors) \in Nat /\ DOMAIN reg.descriptors = 1..Len(reg.descriptors)
  BY LenProperties DEF RegistryIsSound
<1>3. d \in ToSet(reg.descriptors) /\ d.source_kind = kind
  <2>1. CASE default # {}
    BY <1>1, <2>1 DEF SourcesNamed
  <2>2. CASE default = {}
    <3>1. I # {} /\ d = reg.descriptors[Min(I)]
      BY <1>1, <2>2
    <3>2. I \subseteq Nat
      BY <1>2
    <3>3. Min(I) \in I
      BY <3>1, <3>2, LeastIsThere
    <3> QED
      BY <1>2, <3>1, <3>3 DEF ToSet
  <2> QED
    BY <2>1, <2>2
<1> QED
  BY <1>3 DEF SourcesNamed, HasSource, RegistryIsSound, DescriptorIsSound

LEMMA ObstacleIsReason ==
  /\ \A policy, web : WebObstacle(policy, web) \in PlannerReason \cup {"none"}
  /\ \A policy, local : LocalObstacle(policy, local) \in PlannerReason
  BY DEF WebObstacle, LocalObstacle, PlannerReason

LEMMA NamedPlanIsSound ==
  ASSUME NEW reg, RegistryIsSound(reg), NEW policy, NEW id, id # "none"
  PROVE  DecisionIsSound(reg, PlanNamedSource(policy, id, reg))
<1> DEFINE obstacle == WebObstacle(policy, {Descriptor(reg, id)})
<1>1. obstacle \in PlannerReason \cup {"none"}
  BY ObstacleIsReason
<1>2. \A r \in {"web_source_unavailable", "local_source_unavailable", "invalid_profile"} :
        DecisionIsSound(reg, Blocked(r))
  BY BlockedIsSound DEF PlannerReason
<1>3. obstacle # "none" => DecisionIsSound(reg, Blocked(obstacle))
  BY <1>1, BlockedIsSound
<1>4. HasSource(reg, id) =>
        \A route \in {"local", "web"} :
          DecisionIsSound(reg, PlannerDecision(route, id, <<"caller_selected_source">>))
  <2>1. "caller_selected_source" \in PlannerReason
    BY DEF PlannerReason
  <2> QED
    BY <2>1, SelectionIsSound, OneReason
<1> HIDE DEF obstacle
<1>5. PlanNamedSource(policy, id, reg) =
        (IF ~HasSource(reg, id) THEN Blocked("web_source_unavailable")
         ELSE IF ~Descriptor(reg, id).enabled
              THEN Blocked(IF Descriptor(reg, id).source_kind = "web_search_snippet"
                           THEN "web_source_unavailable" ELSE "local_source_unavailable")
         ELSE IF Descriptor(reg, id).source_kind = "web_search_snippet"
              THEN IF obstacle = "none"
                   THEN PlannerDecision("web", id, <<"caller_selected_source">>)
                   ELSE Blocked(obstacle)
         ELSE IF ~Supports(policy, Descriptor(reg, id)) THEN Blocked("invalid_profile")
         ELSE PlannerDecision("local", id, <<"caller_selected_source">>))
  BY DEF PlanNamedSource, obstacle
<1> QED
  BY <1>2, <1>3, <1>4, <1>5

LEMMA LocalPlanIsSound ==
  ASSUME NEW reg, RegistryIsSound(reg), NEW policy, NEW why,
         why = <<>> \/ \E r \in PlannerReason : why = <<r>>
  PROVE  DecisionIsSound(reg, PlanLocal(policy, SourceOfKind(reg, "local_document"), why))
<1> DEFINE local == SourceOfKind(reg, "local_document")
           chosen == CHOOSE d \in local : TRUE
<1>1. CASE UsableLocal(policy, local)
  <2>1. chosen \in local
    BY <1>1 DEF UsableLocal
  <2>2. HasSource(reg, chosen.source_id) /\ chosen.source_id # "none"
    BY <2>1, SourceOfKindIsThere
  <2>3. \A i \in DOMAIN Append(why, "default_local") :
          Append(why, "default_local")[i] \in PlannerReason
    BY OneReason DEF PlannerReason
  <2>4. PlanLocal(policy, local, why)
          = PlannerDecision("local", chosen.source_id, Append(why, "default_local"))
    BY <1>1 DEF PlanLocal
  <2> HIDE DEF local, chosen
  <2>5. DecisionIsSound(reg, PlanLocal(policy, local, why))
    BY <2>2, <2>3, <2>4, SelectionIsSound
  <2> QED
    BY <2>5 DEF local
<1>2. CASE ~UsableLocal(policy, local)
  <2>1. PICK r \in PlannerReason : PlanLocal(policy, local, why) = Blocked(r)
    <3>1. CASE why = <<>>
      BY <1>2, <3>1, ObstacleIsReason DEF PlanLocal
    <3>2. CASE \E r \in PlannerReason : why = <<r>>
      BY <1>2, <3>2, OneReason DEF PlanLocal
    <3> QED
      BY <3>1, <3>2
  <2> QED
    BY <2>1, BlockedIsSound
<1> QED
  BY <1>1, <1>2

LEMMA WebPlanIsSound ==
  ASSUME NEW reg, RegistryIsSound(reg), NEW policy, NEW reason \in PlannerReason
  PROVE  LET web == SourceOfKind(reg, "web_search_snippet")
         IN  DecisionIsSound(reg, PlanWeb(WebObstacle(policy, web), web, reason))
<1> DEFINE web == SourceOfKind(reg, "web_search_snippet")
           obstacle == WebObstacle(policy, web)
           chosen == CHOOSE d \in web : TRUE
<1>1. CASE obstacle = "none"
  <2>1. \E d \in web : d.enabled
    BY <1>1 DEF WebObstacle
  <2>2. chosen \in web
    BY <2>1
  <2>3. HasSource(reg, chosen.source_id) /\ chosen.source_id # "none"
    BY <2>2, SourceOfKindIsThere
  <2>4. PlanWeb(obstacle, web, reason) = PlannerDecision("web", chosen.source_id, <<reason>>)
    BY <1>1 DEF PlanWeb
  <2> HIDE DEF web, chosen, obstacle
  <2>5. DecisionIsSound(reg, PlanWeb(obstacle, web, reason))
    BY <2>3, <2>4, SelectionIsSound, OneReason
  <2> QED
    BY <2>5 DEF web, obstacle
<1>2. CASE obstacle # "none"
  <2>1. obstacle \in PlannerReason
    BY <1>2, ObstacleIsReason
  <2>2. PlanWeb(obstacle, web, reason) = Blocked(obstacle)
    BY <1>2 DEF PlanWeb
  <2> QED
    BY <2>1, <2>2, BlockedIsSound
<1> QED
  BY <1>1, <1>2

LEMMA PlanIsSound ==
  ASSUME NEW reg, RegistryIsSound(reg), NEW query, NEW policy, NEW source
  PROVE  DecisionIsSound(reg, Plan(query, policy, source, reg))
<1>1. DecisionIsSound(reg, Blocked("retrieval_budget_exhausted"))
  BY BlockedIsSound DEF PlannerReason
<1>2. reg.direct =>
        DecisionIsSound(reg, PlannerDecision("local", "direct_retriever", <<"default_local">>))
  <2>1. "default_local" \in PlannerReason
    BY DEF PlannerReason
  <2> QED
    BY <2>1, SelectionIsSound, OneReason
<1>3. source # "none" => DecisionIsSound(reg, PlanNamedSource(policy, source, reg))
  BY NamedPlanIsSound
<1>4. DecisionIsSound(reg, PlanDefaultSource(query, policy, reg))
  <2> DEFINE local == SourceOfKind(reg, "local_document")
             web == SourceOfKind(reg, "web_search_snippet")
             obstacle == WebObstacle(policy, web)
             webIsDefault == \E d \in web : d.source_id = reg.default
  <2>1. /\ DecisionIsSound(reg, PlanLocal(policy, local, <<>>))
        /\ (obstacle # "none" => DecisionIsSound(reg, PlanLocal(policy, local, <<obstacle>>)))
    BY LocalPlanIsSound, ObstacleIsReason
  <2>2. /\ DecisionIsSound(reg, PlanWeb(obstacle, web, "freshness_cue"))
        /\ DecisionIsSound(reg, PlanWeb(obstacle, web, "default_local"))
    BY WebPlanIsSound DEF PlannerReason
  <2>3. PlanDefaultSource(query, policy, reg) =
          (IF query.has_local_reference_cue THEN PlanLocal(policy, local, <<>>)
           ELSE IF query.has_freshness_cue
                THEN IF obstacle = "none" THEN PlanWeb(obstacle, web, "freshness_cue")
                                          ELSE PlanLocal(policy, local, <<obstacle>>)
           ELSE IF webIsDefault THEN PlanWeb(obstacle, web, "default_local")
           ELSE PlanLocal(policy, local, <<>>))
    BY Zenon DEF PlanDefaultSource
  <2> HIDE DEF local, web, obstacle, webIsDefault
  <2> QED
    BY <2>1, <2>2, <2>3
<1> QED
  BY <1>1, <1>2, <1>3, <1>4 DEF Plan

\* What is left of a plan after the preflight check is within the budget.
LEMMA CheckedDecisionIsSound ==
  ASSUME NEW reg, RegistryIsSound(reg), NEW query, NEW policy, NEW source
  PROVE  LET p == CheckedDecision(query, policy, source, reg)
             d == ResolvedSource(p, reg)
         IN  /\ DecisionIsSound(reg, p)
             /\ p.route # "blocked" =>
                  /\ d.estimated_external_cost_microusd \in Nat
                  /\ PreflightObstacle(policy.budget, p, d) = "none"
                  /\ reg.direct \/ d \in ToSet(reg.descriptors)
<1> DEFINE p == CheckedDecision(query, policy, source, reg)
           d == ResolvedSource(p, reg)
           plan == Plan(query, policy, source, reg)
           obstacle == PreflightObstacle(policy.budget, plan, ResolvedSource(plan, reg))
<1>1. DecisionIsSound(reg, plan)
  BY PlanIsSound
<1>2. p = (IF plan.route = "blocked" THEN plan
           ELSE IF obstacle # "none" THEN Blocked(obstacle) ELSE plan)
  BY DEF CheckedDecision
<1>3. obstacle \in PlannerReason \cup {"none"}
  BY DEF PreflightObstacle, PlannerReason
<1>4. obstacle # "none" =>
        DecisionIsSound(reg, Blocked(obstacle)) /\ Blocked(obstacle).route = "blocked"
  BY <1>3, BlockedIsSound
<1>5. DecisionIsSound(reg, p)
  BY <1>1, <1>2, <1>4
<1>6. ASSUME p.route # "blocked"
      PROVE  p = plan /\ obstacle = "none"
  BY <1>2, <1>4, <1>6
<1>7. ASSUME p.route # "blocked"
      PROVE  /\ d.estimated_external_cost_microusd \in Nat
             /\ reg.direct \/ d \in ToSet(reg.descriptors)
  <2>1. CASE reg.direct
    BY <2>1 DEF ResolvedSource, DirectSource, LocalSource
  <2>2. CASE ~reg.direct
    <3>1. HasSource(reg, p.selected_source_id)
      BY <1>5, <1>7, <2>2 DEF DecisionIsSound
    <3>2. d \in SourcesNamed(reg, p.selected_source_id)
      BY <2>2, <3>1 DEF ResolvedSource, Descriptor, HasSource
    <3>3. d \in ToSet(reg.descriptors)
      BY <3>2 DEF SourcesNamed
    <3> QED
      BY <3>3 DEF RegistryIsSound, DescriptorIsSound
  <2> QED
    BY <2>1, <2>2
<1>8. p.route # "blocked" => PreflightObstacle(policy.budget, p, d) = "none"
  BY <1>6
<1> QED
  BY <1>5, <1>7, <1>8

(***************************************************************************)
(* What is spent for a package                                              *)
(***************************************************************************)

Retrieving == {"search_local", "cache", "search_web", "fill_cache", "build"}

\* The client, and in a server the settings, let the query leave for the web.
WebConsent(c) ==
  LET policy == RetrievalPolicyOf(c)
  IN  /\ policy.execution_profile = "hybrid" /\ policy.web.allow_external_query
      /\ OnEventLoop => deployment.settings.allow_external_retrieval
      /\ policy.budget.max_web_calls # 0

\* What the package of a prepared request says was spent is what was.
SpentAsSaid(c) ==
  LET package == work[c].package
      budget == package.effective_policy.budget
      cost == package.budget_used.estimated_external_cost_microusd
  IN  /\ package.web_calls = work[c].searches
      /\ cost = (IF work[c].searches = 0 THEN 0
                 ELSE SourceFor(c).estimated_external_cost_microusd)
      /\ cost <= budget.max_estimated_external_cost_microusd
      /\ package.web_calls <= budget.max_web_calls
      /\ package.retrieval_calls <= budget.max_retrieval_calls

\* That the budget is kept is not inductive: it needs what was decided before the search.
PlanInv(c) ==
  /\ pc[c] \in Retrieving =>
       /\ Asked(c).op = "prepare" /\ RefusalOf(c) = "none"
       /\ work[c].decision = DecisionFor(c) /\ work[c].decision.route # "blocked"
  /\ pc[c] \in {"cache", "search_web"} =>
       /\ SourceFor(c).source_kind = "web_search_snippet"
       /\ ConsentError(RetrievalPolicyOf(c), SourceFor(c)) = "none"
  /\ pc[c] = "search_web" => RetrievalPolicyOf(c).budget.max_web_calls # 0
  /\ pc[c] \in {"fill_cache", "build"} =>
       work[c].batch.retrieval_calls = 1 /\ work[c].batch.web_calls = work[c].searches
  /\ work[c].searches # 0 =>
       /\ pc[c] \in {"fill_cache", "build", "put"} /\ work[c].searches = 1
       /\ WebConsent(c)
  /\ pc[c] = "put" /\ Asked(c).op = "prepare" => SpentAsSaid(c)
  /\ pc[c] = "compress" => Asked(c).op = "compress"

LEMMA SameRequest ==
  ASSUME UNCHANGED deployment, NEW c, work'[c].request = work[c].request
  PROVE  /\ Asked(c)' = Asked(c) /\ RetrievalPolicyOf(c)' = RetrievalPolicyOf(c)
         /\ RefusalOf(c)' = RefusalOf(c) /\ DecisionFor(c)' = DecisionFor(c)
         /\ WebConsent(c)' <=> WebConsent(c)
         /\ work'[c].decision = work[c].decision => SourceFor(c)' = SourceFor(c)
<1>1. Asked(c)' = Asked(c) /\ RetrievalPolicyOf(c)' = RetrievalPolicyOf(c)
      /\ (OnEventLoop' <=> OnEventLoop)
  BY DEF Asked, RetrievalPolicyOf, OnEventLoop
<1>2. RefusalOf(c)' = RefusalOf(c) /\ DecisionFor(c)' = DecisionFor(c)
  BY <1>1 DEF RefusalOf, DecisionFor
<1>3. WebConsent(c)' <=> WebConsent(c)
  BY <1>1 DEF WebConsent
<1>4. work'[c].decision = work[c].decision => SourceFor(c)' = SourceFor(c)
  BY DEF SourceFor
<1> QED
  BY <1>1, <1>2, <1>3, <1>4

LEMMA PlanWaits ==
  ASSUME UNCHANGED deployment, NEW c, pc'[c] = pc[c], work'[c] = work[c], PlanInv(c)
  PROVE  PlanInv(c)'
<1>1. /\ Asked(c)' = Asked(c) /\ RetrievalPolicyOf(c)' = RetrievalPolicyOf(c)
      /\ RefusalOf(c)' = RefusalOf(c) /\ DecisionFor(c)' = DecisionFor(c)
      /\ (WebConsent(c)' <=> WebConsent(c)) /\ SourceFor(c)' = SourceFor(c)
  BY SameRequest
<1>2. SpentAsSaid(c)' <=> SpentAsSaid(c)
  BY <1>1 DEF SpentAsSaid
<1> QED
  BY <1>1, <1>2 DEF PlanInv

\* Where nothing is retrieved nothing is spent.
LEMMA Elsewhere ==
  ASSUME NEW c, pc'[c] \notin Retrieving \cup {"put", "compress"}, work'[c].searches = 0
  PROVE  PlanInv(c)'
<1>1. pc'[c] \notin {"search_local", "cache", "search_web", "fill_cache", "build", "put", "compress"}
  BY DEF Retrieving
<1>2. pc'[c] \notin Retrieving
  OBVIOUS
<1> QED
  BY <1>1, <1>2 DEF PlanInv

LEMMA UnrefusedPolicy ==
  ASSUME NEW c, RefusalOf(c) = "none"
  PROVE  /\ RetrievalPolicyOf(c) \in RetrievalPolicy
         /\ ~(OnEventLoop /\ RetrievalForbidden(Asked(c), deployment.settings))
  BY DEF RefusalOf

LEMMA BudgetIsNumbers ==
  ASSUME NEW policy \in RetrievalPolicy
  PROVE  /\ policy.budget.max_estimated_external_cost_microusd \in Nat
         /\ policy.budget.max_web_calls \in 0..1 /\ policy.budget.max_retrieval_calls \in 0..1
<1>1. PICK b \in BudgetPolicy : b = policy.budget
  BY DEF RetrievalPolicy
<1>2. /\ b.max_estimated_external_cost_microusd \in 0..Dollar
      /\ b.max_web_calls \in 0..1 /\ b.max_retrieval_calls \in 0..1
  BY DEF BudgetPolicy
<1>3. Dollar \in Nat
  BY DEF Dollar
<1> QED
  BY <1>1, <1>2, <1>3

LEMMA BlockedSpendsNothing ==
  ASSUME FrameInv, NEW c \in Callers, PlanInv(c), PrepareBlocked(c)
  PROVE  PlanInv(c)'
<1> DEFINE package == BuildBlockedContextPackage(RetrievalPolicyOf(c), DecisionFor(c))
           d == DecisionFor(c)
           policy == RetrievalPolicyOf(c)
<1>1. /\ pc[c] = "handle" /\ RefusalOf(c) = "none" /\ pc'[c] = "put" /\ UNCHANGED deployment
      /\ work'[c] = [work[c] EXCEPT !.now = clock, !.decision = d, !.package = package]
      /\ work'[c].request = work[c].request
  <2>1. /\ Handles(c, "prepare") /\ RefusalOf(c) = "none"
        /\ GoesOnWith(c, "put", [work[c] EXCEPT !.now = clock, !.decision = d, !.package = package])
    BY PrepareBlockedSteps
  <2> HIDE DEF d, package
  <2> QED
    BY <2>1, Zenon DEF GoesOnWith, Handles, Working, Quiet, Continues
<1>2. /\ package.effective_policy = policy /\ package.web_calls = 0 /\ package.retrieval_calls = 0
      /\ package.budget_used.estimated_external_cost_microusd = 0
  BY DEF BuildBlockedContextPackage
<1> HIDE DEF package, d, policy
<1>3. work'[c].package = package /\ work'[c].searches = work[c].searches
  BY <1>1, Now DEF IsWork, WorkFields
<1>4. work[c].searches = 0
  BY <1>1 DEF PlanInv
<1>5. policy \in RetrievalPolicy
  BY <1>1, UnrefusedPolicy DEF policy
<1>6. SpentAsSaid(c)'
  BY <1>2, <1>3, <1>4, <1>5, BudgetIsNumbers DEF SpentAsSaid
<1> QED
  BY <1>1, <1>3, <1>4, <1>6 DEF PlanInv, Retrieving

LEMMA RetrievesByPlan ==
  ASSUME FrameInv, NEW c \in Callers, PlanInv(c), PrepareRetrieves(c)
  PROVE  PlanInv(c)'
<1> DEFINE d == ResolvedSource(DecisionFor(c), deployment.registry)
           to == IF d.source_kind = "web_search_snippet" THEN "cache" ELSE "search_local"
           x == DecisionFor(c)
<1>1. /\ pc[c] = "handle" /\ Asked(c).op = "prepare" /\ RefusalOf(c) = "none"
      /\ x.route # "blocked"
      /\ \/ Drops(c)
         \/ /\ ConsentError(RetrievalPolicyOf(c), d) = "none"
            /\ GoesOnWith(c, to, [work[c] EXCEPT !.decision = x])
  BY PrepareRetrievesSteps DEF Handles, Working
<1>2. CASE Drops(c)
  BY <1>2, Elsewhere DEF Drops, Retrieving
<1>3. CASE /\ ConsentError(RetrievalPolicyOf(c), d) = "none"
           /\ GoesOnWith(c, to, [work[c] EXCEPT !.decision = x])
  <2>1. /\ pc'[c] = to /\ UNCHANGED deployment /\ work'[c] = [work[c] EXCEPT !.decision = x]
        /\ work'[c].request = work[c].request
    BY <1>3 DEF GoesOnWith, Quiet, Continues
  <2> HIDE DEF x, to
  <2>2. work'[c].decision = x /\ work'[c].searches = work[c].searches
    BY <2>1, Now DEF IsWork, WorkFields
  <2>3. work[c].searches = 0
    BY <1>1 DEF PlanInv
  <2>4. SourceFor(c)' = d
    BY <2>1, <2>2 DEF SourceFor, d, x
  <2>5. /\ Asked(c)' = Asked(c) /\ RetrievalPolicyOf(c)' = RetrievalPolicyOf(c)
        /\ RefusalOf(c)' = RefusalOf(c) /\ DecisionFor(c)' = DecisionFor(c)
    BY <2>1, SameRequest
  <2>6. DecisionFor(c)' = x
    BY <2>5 DEF x
  <2> HIDE DEF d
  <2>7. to \in {"cache", "search_local"} /\ (to = "cache" => d.source_kind = "web_search_snippet")
    BY DEF to
  <2> QED
    BY <1>1, <1>3, <2>1, <2>2, <2>3, <2>4, <2>5, <2>6, <2>7 DEF PlanInv
<1> QED
  BY <1>1, <1>2, <1>3

LEMMA BatchFields ==
  ASSUME NEW candidates, NEW calls
  PROVE  /\ RetrievalBatch(candidates, calls).candidates = candidates
         /\ RetrievalBatch(candidates, calls).retrieval_calls = 1
         /\ RetrievalBatch(candidates, calls).web_calls = calls
  BY DEF RetrievalBatch

\* What was found without a call of the web's provider.
LEMMA FindsFreely ==
  ASSUME FrameInv, NEW c \in Callers, PlanInv(c), pc[c] \in {"search_local", "cache"},
         UNCHANGED deployment, pc'[c] = "build", NEW candidates,
         work'[c] = [work[c] EXCEPT !.batch = RetrievalBatch(candidates, 0)]
  PROVE  PlanInv(c)'
<1> DEFINE batch == RetrievalBatch(candidates, 0)
<1>1. batch.retrieval_calls = 1 /\ batch.web_calls = 0
  BY BatchFields
<1> HIDE DEF batch
<1>2. /\ work'[c].batch = batch /\ work'[c].searches = work[c].searches
      /\ work'[c].decision = work[c].decision /\ work'[c].request = work[c].request
  BY Now DEF IsWork, WorkFields, batch
<1>3. work[c].searches = 0
  BY DEF PlanInv
<1>4. /\ Asked(c)' = Asked(c) /\ RefusalOf(c)' = RefusalOf(c) /\ DecisionFor(c)' = DecisionFor(c)
  BY <1>2, SameRequest
<1> QED
  BY <1>1, <1>2, <1>3, <1>4 DEF PlanInv, Retrieving

LEMMA SearchesLocallyFreely ==
  ASSUME FrameInv, NEW c \in Callers, PlanInv(c), SearchesLocally(c)
  PROVE  PlanInv(c)'
<1>1. CASE Drops(c)
  BY <1>1, Elsewhere DEF Drops, Retrieving
<1>2. CASE \E candidates : GoesOnWith(c, "build",
             [work[c] EXCEPT !.batch = RetrievalBatch(candidates, 0)])
  <2>1. PICK candidates : GoesOnWith(c, "build",
             [work[c] EXCEPT !.batch = RetrievalBatch(candidates, 0)])
    BY <1>2
  <2>2. pc[c] = "search_local"
    BY SearchesLocallySteps
  <2> QED
    BY <2>1, <2>2, FindsFreely DEF GoesOnWith, Quiet
<1> QED
  BY <1>1, <1>2, SearchesLocallySteps, Zenon

LEMMA LooksInCacheFreely ==
  ASSUME FrameInv, NEW c \in Callers, PlanInv(c), LooksInCache(c)
  PROVE  PlanInv(c)'
<1> DEFINE after == CacheAfterGet(CacheOf(c), KeyOf(c), clock)
<1>1. CASE \E candidates : GoesOnCaching(c, "build",
             [work[c] EXCEPT !.batch = RetrievalBatch(candidates, 0)], after)
  <2>1. PICK candidates : GoesOnCaching(c, "build",
             [work[c] EXCEPT !.batch = RetrievalBatch(candidates, 0)], after)
    BY <1>1
  <2>2. pc[c] = "cache"
    BY LooksInCacheSteps
  <2> QED
    BY <2>1, <2>2, FindsFreely DEF GoesOnCaching
<1>2. CASE /\ RetrievalPolicyOf(c).budget.max_web_calls # 0
           /\ GoesOnCaching(c, "search_web", work[c], after)
  <2>1. /\ pc'[c] = "search_web" /\ work'[c] = work[c] /\ UNCHANGED deployment
        /\ pc[c] = "cache"
    BY <1>2, LooksInCacheSteps DEF GoesOnCaching
  <2>2. /\ Asked(c)' = Asked(c) /\ RetrievalPolicyOf(c)' = RetrievalPolicyOf(c)
        /\ RefusalOf(c)' = RefusalOf(c) /\ DecisionFor(c)' = DecisionFor(c)
        /\ SourceFor(c)' = SourceFor(c)
    BY <2>1, SameRequest
  <2> QED
    BY <1>2, <2>1, <2>2 DEF PlanInv, Retrieving
<1> QED
  BY <1>1, <1>2, LooksInCacheSteps, Zenon

\* The one call of the web's provider has consent.
LEMMA SearchesWebWithConsent ==
  ASSUME FrameInv, NEW c \in Callers, PlanInv(c), SearchesWeb(c)
  PROVE  PlanInv(c)'
<1>1. CASE Drops(c)
  BY <1>1, Elsewhere DEF Drops, Retrieving
<1>2. CASE \E candidates : \E to \in {"build", "fill_cache"} : GoesOnWith(c, to,
             [work[c] EXCEPT !.batch = RetrievalBatch(candidates, 1), !.searches = @ + 1,
                             !.now = clock])
  <2>0. PICK candidates : \E to \in {"build", "fill_cache"} : GoesOnWith(c, to,
             [work[c] EXCEPT !.batch = RetrievalBatch(candidates, 1), !.searches = @ + 1,
                             !.now = clock])
    BY <1>2
  <2>1. PICK to \in {"build", "fill_cache"} : GoesOnWith(c, to,
             [work[c] EXCEPT !.batch = RetrievalBatch(candidates, 1), !.searches = @ + 1,
                             !.now = clock])
    BY <2>0
  <2> DEFINE batch == RetrievalBatch(candidates, 1)
  <2>2. batch.retrieval_calls = 1 /\ batch.web_calls = 1
    BY BatchFields
  <2> HIDE DEF batch
  <2>3. /\ pc'[c] = to /\ UNCHANGED deployment
        /\ work'[c] = [work[c] EXCEPT !.batch = batch, !.searches = @ + 1, !.now = clock]
    BY <2>1 DEF GoesOnWith, Quiet, batch
  <2>4. /\ work'[c].batch = batch /\ work'[c].searches = work[c].searches + 1
        /\ work'[c].decision = work[c].decision /\ work'[c].request = work[c].request
    BY <2>3, Now DEF IsWork, WorkFields
  <2>5. pc[c] = "search_web"
    BY SearchesWebSteps
  <2>6. work[c].searches = 0
    BY <2>5 DEF PlanInv
  <2>7. /\ Asked(c)' = Asked(c) /\ RefusalOf(c)' = RefusalOf(c)
        /\ DecisionFor(c)' = DecisionFor(c) /\ (WebConsent(c)' <=> WebConsent(c))
    BY <2>3, <2>4, SameRequest
  <2>8. WebConsent(c)
    <3>1. /\ RefusalOf(c) = "none" /\ SourceFor(c).source_kind = "web_search_snippet"
          /\ ConsentError(RetrievalPolicyOf(c), SourceFor(c)) = "none"
          /\ RetrievalPolicyOf(c).budget.max_web_calls # 0
      BY <2>5 DEF PlanInv, Retrieving
    <3>2. /\ RetrievalPolicyOf(c).execution_profile = "hybrid"
          /\ RetrievalPolicyOf(c).web.allow_external_query
      BY <3>1 DEF ConsentError
    <3>3. OnEventLoop => Asked(c).execution_profile = "hybrid"
      BY <3>2 DEF RetrievalPolicyOf, FrontEndPolicy
    <3>4. OnEventLoop => deployment.settings.allow_external_retrieval
      BY <3>1, <3>3, UnrefusedPolicy DEF RetrievalForbidden
    <3> QED
      BY <3>1, <3>2, <3>4 DEF WebConsent
  <2>9. work'[c].searches = 1
    BY <2>4, <2>6
  <2> QED
    BY <2>1, <2>2, <2>3, <2>4, <2>5, <2>7, <2>8, <2>9 DEF PlanInv, Retrieving
<1> QED
  BY <1>1, <1>2, SearchesWebSteps, Zenon

LEMMA FillsCacheFreely ==
  ASSUME FrameInv, NEW c \in Callers, PlanInv(c), FillsCache(c)
  PROVE  PlanInv(c)'
<1>1. pc'[c] = "build" /\ work'[c] = work[c] /\ UNCHANGED deployment /\ pc[c] = "fill_cache"
  BY FillsCacheSteps DEF GoesOnCaching
<1>2. /\ Asked(c)' = Asked(c) /\ RefusalOf(c)' = RefusalOf(c)
      /\ DecisionFor(c)' = DecisionFor(c) /\ (WebConsent(c)' <=> WebConsent(c))
  BY <1>1, SameRequest
<1> QED
  BY <1>1, <1>2 DEF PlanInv, Retrieving

LEMMA PreparedFields ==
  ASSUME NEW policy, NEW batch, NEW records, NEW decision, NEW elapsed, NEW d
  PROVE  LET p == PreparedPackage(policy, batch, records, decision, elapsed, d)
         IN  /\ p.effective_policy = policy /\ p.evidence = records
             /\ p.context_text = RenderContextText(records)
             /\ p.context_chars = ContextChars(records)
             /\ p.web_calls = batch.web_calls /\ p.retrieval_calls = batch.retrieval_calls
             /\ p.budget_used.estimated_external_cost_microusd
                  = d.estimated_external_cost_microusd * batch.web_calls
             /\ p.budget_used.wall_clock_ms = elapsed
             /\ p.planner_decision = decision
             /\ p.stop_reason = AfterWallClock(policy.budget, elapsed,
                  IF batch.candidates = <<>> THEN "no_evidence"
                  ELSE IF Len(records) < Len(batch.candidates) THEN "budget_exceeded"
                  ELSE "success")
  BY DEF PreparedPackage, BuildContextPackage, BudgetUsed

LEMMA BuildsWithinBudget ==
  ASSUME FrameInv, NEW c \in Callers, PlanInv(c), Builds(c)
  PROVE  PlanInv(c)'
<1>1. CASE Drops(c)
  BY <1>1, Elsewhere DEF Drops, Retrieving
<1>2. CASE \E records, elapsed : GoesOnWith(c, "put",
             [work[c] EXCEPT !.now = clock, !.package =
               PreparedPackage(RetrievalPolicyOf(c), work[c].batch, records, work[c].decision,
                               elapsed, SourceFor(c))])
  <2>1. PICK records, elapsed : GoesOnWith(c, "put",
             [work[c] EXCEPT !.now = clock, !.package =
               PreparedPackage(RetrievalPolicyOf(c), work[c].batch, records, work[c].decision,
                               elapsed, SourceFor(c))])
    BY <1>2
  <2> DEFINE package == PreparedPackage(RetrievalPolicyOf(c), work[c].batch, records,
                                        work[c].decision, elapsed, SourceFor(c))
             policy == RetrievalPolicyOf(c)
             d == SourceFor(c)
  <2>2. /\ package.effective_policy = policy
        /\ package.web_calls = work[c].batch.web_calls
        /\ package.retrieval_calls = work[c].batch.retrieval_calls
        /\ package.budget_used.estimated_external_cost_microusd
             = d.estimated_external_cost_microusd * work[c].batch.web_calls
    BY PreparedFields
  <2> HIDE DEF package
  <2>3. /\ pc'[c] = "put" /\ UNCHANGED deployment
        /\ work'[c] = [work[c] EXCEPT !.now = clock, !.package = package]
    BY <2>1 DEF GoesOnWith, Quiet, package
  <2>4. /\ work'[c].package = package /\ work'[c].searches = work[c].searches
        /\ work'[c].decision = work[c].decision /\ work'[c].request = work[c].request
    BY <2>3, Now DEF IsWork, WorkFields
  <2>5. pc[c] = "build"
    BY BuildsSteps
  <2>6. /\ RefusalOf(c) = "none" /\ work[c].decision = DecisionFor(c)
        /\ DecisionFor(c).route # "blocked"
        /\ work[c].batch.retrieval_calls = 1 /\ work[c].batch.web_calls = work[c].searches
        /\ (work[c].searches # 0 => work[c].searches = 1 /\ WebConsent(c))
    BY <2>5 DEF PlanInv, Retrieving
  <2>7. /\ SourceFor(c)' = d /\ (WebConsent(c)' <=> WebConsent(c))
    BY <2>3, <2>4, SameRequest
  <2>8. policy \in RetrievalPolicy
    BY <2>6, UnrefusedPolicy
  <2>9. /\ d.estimated_external_cost_microusd \in Nat
        /\ PreflightObstacle(policy.budget, work[c].decision, d) = "none"
    <3>1. RegistryIsSound(deployment.registry)
      BY DeployedRegistry DEF FrameInv
    <3> QED
      BY <2>6, <3>1, CheckedDecisionIsSound DEF SourceFor, DecisionFor
  <2> HIDE DEF policy, d
  <2>10. /\ policy.budget.max_estimated_external_cost_microusd \in Nat
         /\ policy.budget.max_web_calls \in 0..1 /\ policy.budget.max_retrieval_calls \in 0..1
    BY <2>8, BudgetIsNumbers
  <2>11. /\ policy.budget.max_retrieval_calls >= 1
         /\ d.estimated_external_cost_microusd
              <= policy.budget.max_estimated_external_cost_microusd
    BY <2>9, <2>10 DEF PreflightObstacle
  <2>12. work[c].searches = 1 => policy.budget.max_web_calls = 1
    BY <2>6, <2>10 DEF WebConsent, policy
  <2>13. SpentAsSaid(c)'
    <3>1. CASE work[c].searches = 0
      BY <2>2, <2>4, <2>6, <2>9, <2>10, <2>11, <3>1 DEF SpentAsSaid
    <3>2. CASE work[c].searches = 1
      BY <2>2, <2>4, <2>6, <2>7, <2>9, <2>10, <2>11, <2>12, <3>2 DEF SpentAsSaid
    <3> QED
      BY <2>6, <3>1, <3>2
  <2> QED
    BY <2>3, <2>4, <2>6, <2>7, <2>13 DEF PlanInv, Retrieving
<1> QED
  BY <1>1, <1>2, BuildsSteps, Zenon

LEMMA LooksUpFreely ==
  ASSUME FrameInv, NEW c \in Callers, PlanInv(c), LooksUp(c)
  PROVE  PlanInv(c)'
<1> DEFINE package == stores[work[c].store][HandleOf(c)].package
           held == [work[c] EXCEPT !.package = package]
<1>0. \/ Drops(c)
      \/ Asked(c).op \in {"compress", "answer"} /\ GoesOnWith(c, Asked(c).op, held)
  BY LooksUpSteps
<1> HIDE DEF package
<1>1. CASE Drops(c)
  BY <1>1, Elsewhere DEF Drops, Retrieving
<1>2. CASE Asked(c).op \in {"compress", "answer"} /\ GoesOnWith(c, Asked(c).op, held)
  <2>2. pc'[c] = Asked(c).op /\ UNCHANGED deployment /\ work'[c] = held
    BY <1>2 DEF GoesOnWith, Quiet
  <2>3. work'[c].searches = work[c].searches /\ work'[c].request = work[c].request
    BY <2>2, Now DEF IsWork, WorkFields
  <2>4. work[c].searches = 0
    BY LooksUpSteps DEF PlanInv
  <2>5. Asked(c)' = Asked(c)
    BY <2>2, <2>3, SameRequest
  <2> QED
    BY <1>2, <2>2, <2>3, <2>4, <2>5 DEF PlanInv, Retrieving
<1> QED
  BY <1>0, <1>1, <1>2

LEMMA CompressesFreely ==
  ASSUME FrameInv, NEW c \in Callers, PlanInv(c), Compresses(c)
  PROVE  PlanInv(c)'
<1>0. pc[c] = "compress"
  BY CompressesSteps
<1>1. CASE Drops(c)
  BY <1>1, Elsewhere DEF Drops, Retrieving
<1>2. CASE \E parent, package :
             GoesOnWith(c, "put",
               [work[c] EXCEPT !.parent = parent, !.package = package, !.now = clock])
  <2>1. PICK parent, package :
             GoesOnWith(c, "put",
               [work[c] EXCEPT !.parent = parent, !.package = package, !.now = clock])
    BY <1>2
  <2>2. /\ pc'[c] = "put" /\ UNCHANGED deployment
        /\ work'[c] = [work[c] EXCEPT !.parent = parent, !.package = package, !.now = clock]
    BY <2>1 DEF GoesOnWith, Quiet
  <2>3. work'[c].searches = work[c].searches /\ work'[c].request = work[c].request
    BY <2>2, Now DEF IsWork, WorkFields
  <2>4. work[c].searches = 0 /\ Asked(c).op = "compress"
    BY <1>0 DEF PlanInv
  <2>5. Asked(c)' = Asked(c)
    BY <2>2, <2>3, SameRequest
  <2> QED
    BY <2>2, <2>3, <2>4, <2>5 DEF PlanInv, Retrieving
<1> QED
  BY <1>1, <1>2, CompressesSteps, Zenon

LEMMA PlanCaller ==
  ASSUME FrameInv, NEW c \in Callers, PlanInv(c), Accept(c) \/ Handler(c)
  PROVE  PlanInv(c)'
<1>d. ASSUME Drops(c) PROVE PlanInv(c)'
  BY <1>d, Elsewhere DEF Drops, Retrieving
<1>w. ASSUME OnTheWay(c), pc[c] \in {"needs_sdk", "builds_sdk", "needs_store", "builds_store"}
      PROVE  PlanInv(c)'
  <2>1. work'[c].searches = 0
    BY <1>w DEF OnTheWay, Finds, PlanInv
  <2> QED
    BY <1>w, <2>1, Elsewhere DEF OnTheWay, Retrieving
<1>g. ASSUME NEW to, to \notin Retrieving \cup {"put", "compress"}, NEW held,
             GoesOnWith(c, to, held), held.searches = 0
      PROVE  PlanInv(c)'
  BY <1>g, Elsewhere DEF GoesOnWith
<1>s. \A at : pc[c] = at /\ at \notin {"fill_cache", "build", "put"} => work[c].searches = 0
  BY DEF PlanInv
<1>1. Accept(c) => PlanInv(c)'
  BY AcceptSteps, Elsewhere DEF Retrieving
<1>2. NeedsSdk(c) => PlanInv(c)'
  BY NeedsSdkSteps, <1>w, <1>d
<1>3. BuildsSdk(c) => PlanInv(c)'
  BY BuildsSdkSteps, <1>w, <1>d
<1>4. NeedsStore(c) => PlanInv(c)'
  BY NeedsStoreSteps, <1>w, <1>d
<1>5. BuildsStore(c) => PlanInv(c)'
  BY BuildsStoreSteps, <1>w, <1>d
<1>6. Starts(c) => PlanInv(c)'
  <2> SUFFICES ASSUME Starts(c) PROVE PlanInv(c)'
    OBVIOUS
  <2>1. pc[c] \in {"ready", "answer"} /\ GoesOnWith(c, "handle", work[c])
    BY StartsSteps DEF Starts, Working
  <2> QED
    BY <1>g, <1>s, <2>1 DEF Retrieving
<1>7. PrepareRefused(c) => PlanInv(c)'
  BY PrepareRefusedSteps, <1>d
<1>8. PrepareBlocked(c) => PlanInv(c)'
  BY BlockedSpendsNothing
<1>9. PrepareRetrieves(c) => PlanInv(c)'
  BY RetrievesByPlan
<1>10. SearchesLocally(c) => PlanInv(c)'
  BY SearchesLocallyFreely
<1>11. LooksInCache(c) => PlanInv(c)'
  BY LooksInCacheFreely
<1>12. SearchesWeb(c) => PlanInv(c)'
  BY SearchesWebWithConsent
<1>13. FillsCache(c) => PlanInv(c)'
  BY FillsCacheFreely
<1>14. Builds(c) => PlanInv(c)'
  BY BuildsWithinBudget
<1>15. Puts(c) => PlanInv(c)'
  BY PutsSteps, Elsewhere DEF Retrieving
<1>16. ReadsClock(c) => PlanInv(c)'
  <2> SUFFICES ASSUME ReadsClock(c) PROVE PlanInv(c)'
    OBVIOUS
  <2>1. pc[c] = "handle" /\ GoesOnWith(c, "look_up", [work[c] EXCEPT !.now = clock])
    BY ReadsClockSteps DEF Handles, Working
  <2>2. [work[c] EXCEPT !.now = clock].searches = work[c].searches
    BY Now DEF IsWork, WorkFields
  <2> QED
    BY <1>g, <1>s, <2>1, <2>2 DEF Retrieving
<1>17. NotFound(c) => PlanInv(c)'
  BY NotFoundSteps, Elsewhere DEF Retrieving
<1>18. LooksUp(c) => PlanInv(c)'
  BY LooksUpFreely
<1>19. Compresses(c) => PlanInv(c)'
  BY CompressesFreely
<1>20. AnswersAlone(c) => PlanInv(c)'
  BY AnswersAloneSteps, <1>d
<1>21. Asks(c) => PlanInv(c)'
  <2> SUFFICES ASSUME Asks(c) PROVE PlanInv(c)'
    OBVIOUS
  <2>1. pc[c] \in {"ready", "answer"} /\ GoesOnWith(c, "generate", work[c])
    BY AsksSteps DEF Asks, Working
  <2> QED
    BY <1>g, <1>s, <2>1 DEF Retrieving
<1>22. Answers(c) => PlanInv(c)'
  BY AnswersSteps, <1>d
<1> QED
  BY <1>1, <1>2, <1>3, <1>4, <1>5, <1>6, <1>7, <1>8, <1>9, <1>10, <1>11, <1>12,
     <1>13, <1>14, <1>15, <1>16, <1>17, <1>18, <1>19, <1>20, <1>21, <1>22, Zenon DEF Handler

LEMMA PlanStep == FrameInv /\ (\A c \in Callers : PlanInv(c)) /\ [Next]_vars
                    => (\A c \in Callers : PlanInv(c))'
<1> SUFFICES ASSUME FrameInv, \A c \in Callers : PlanInv(c), [Next]_vars, NEW d \in Callers
             PROVE  PlanInv(d)'
  OBVIOUS
<1>1. CASE Tick \/ Rest \/ UNCHANGED vars
  <2>1. UNCHANGED <<deployment, pc, work>>
    BY <1>1 DEF Tick, Rest, vars
  <2> QED
    BY <2>1, PlanWaits
<1>2. ASSUME NEW c \in Callers, Accept(c) \/ Handler(c)
      PROVE  PlanInv(d)'
  <2>1. CASE c = d
    BY <1>2, <2>1, PlanCaller
  <2>2. CASE c # d
    <3>1. pc'[d] = pc[d] /\ work'[d] = work[d]
      BY <1>2, <2>2, OthersWait
    <3>2. UNCHANGED deployment
      BY <1>2, CallerFrame
    <3> QED
      BY <3>1, <3>2, PlanWaits
  <2> QED
    BY <2>1, <2>2
<1> QED
  BY <1>1, <1>2 DEF Next

LEMMA InitPlan == Init => \A c \in Callers : PlanInv(c)
<1> SUFFICES ASSUME Init, NEW c \in Callers
             PROVE  PlanInv(c)
  OBVIOUS
<1>1. pc[c] = "idle" /\ work[c] = NoWork
  BY DEF Init
<1>2. work[c].searches = 0
  BY <1>1 DEF NoWork
<1> QED
  BY <1>1, <1>2 DEF PlanInv, Retrieving

\* What was searched for a package is what it says was spent, no more than its caller allowed,
\* and no query left for the web without consent (planner.py, budget.py, service.py
\* prepare_context).
THEOREM BudgetIsKept == Spec => []BudgetIsTrue
<1>1. FrameInv /\ (\A c \in Callers : PlanInv(c)) => BudgetIsTrue
  BY DEF BudgetIsTrue, PlanInv, SpentAsSaid, WebConsent
<1> QED
  BY <1>1, InitFrame, FrameStep, InitPlan, PlanStep, PTL DEF Spec

(***************************************************************************)
(* Elements in order                                                        *)
(***************************************************************************)

UpTo(S, i) == {j \in S : j <= i}

LEMMA UpToIsFinite ==
  ASSUME NEW S, IsFiniteSet(S), NEW i
  PROVE  /\ UpTo(S, i) \in SUBSET S /\ IsFiniteSet(UpTo(S, i))
         /\ Cardinality(UpTo(S, i)) \in Nat /\ Cardinality(S) \in Nat
         /\ Cardinality(UpTo(S, i)) <= Cardinality(S)
<1>1. UpTo(S, i) \in SUBSET S
  BY DEF UpTo
<1> QED
  BY <1>1, FS_Subset, FS_CardinalityType

LEMMA UpToGrows ==
  ASSUME NEW S, S \subseteq Nat, NEW x \in Nat, NEW y \in Nat, x <= y
  PROVE  UpTo(S, x) \subseteq UpTo(S, y)
<1>1. ASSUME NEW j \in S, j <= x PROVE j <= y
  <2>1. j \in Nat
    BY <1>1
  <2> QED
    BY <1>1, <2>1
<1> QED
  BY <1>1 DEF UpTo

\* The n-th smallest element of a finite set of numbers.
LEMMA PlaceIsThere ==
  ASSUME NEW S, S \subseteq Nat, IsFiniteSet(S), NEW n \in 1..Cardinality(S)
  PROVE  \E i \in S : Cardinality(UpTo(S, i)) = n
<1> DEFINE Bad == {m \in 1..Cardinality(S) : ~\E i \in S : Cardinality(UpTo(S, i)) = m}
<1>1. SUFFICES ASSUME n \in Bad PROVE FALSE
  OBVIOUS
<1>2. Cardinality(S) \in Nat
  BY FS_CardinalityType
<1> DEFINE least == Min(Bad)
<1>3. least \in Bad /\ \A m \in Bad : least <= m
  <2>1. Bad \subseteq Nat /\ Bad # {}
    BY <1>1, <1>2
  <2> HIDE DEF Bad
  <2> QED
    BY <2>1, LeastIsThere
<1> HIDE DEF least
<1>4. CASE least = 1
  <2>1. S # {}
    BY <1>2, <1>3, <1>4, FS_EmptySet
  <2> DEFINE i == Min(S)
  <2>2. i \in S /\ \A j \in S : i <= j
    BY <2>1, LeastIsThere
  <2> HIDE DEF i
  <2>3. UpTo(S, i) = {i}
    <3>1. \A j \in S : j <= i => j = i
      BY <2>2
    <3> QED
      BY <2>2, <3>1 DEF UpTo
  <2>4. Cardinality(UpTo(S, i)) = 1
    BY <2>3, FS_Singleton
  <2> QED
    BY <1>3, <1>4, <2>2, <2>4
<1>5. CASE least # 1
  <2>1. least - 1 \in 1..Cardinality(S) /\ least - 1 \notin Bad
    <3>1. least \in 1..Cardinality(S) /\ \A m \in Bad : least <= m /\ m \in Nat
      BY <1>2, <1>3
    <3> HIDE DEF Bad
    <3> QED
      BY <1>2, <1>5, <3>1
  <2>2. PICK i \in S : Cardinality(UpTo(S, i)) = least - 1
    BY <2>1
  <2> DEFINE Rest1 == S \ UpTo(S, i)
             k == Min(Rest1)
  <2>3. Rest1 # {}
    <3>1. UpTo(S, i) # S
      BY <1>2, <1>3, <2>2
    <3> QED
      BY <3>1 DEF UpTo
  <2>4. k \in Rest1 /\ \A j \in Rest1 : k <= j
    <3>1. Rest1 \subseteq Nat
      BY DEF UpTo
    <3> HIDE DEF Rest1
    <3> QED
      BY <2>3, <3>1, LeastIsThere
  <2> HIDE DEF k
  <2>5. UpTo(S, k) = UpTo(S, i) \cup {k} /\ k \notin UpTo(S, i) /\ k \in S
    <3>1. k \in S /\ k \notin UpTo(S, i) /\ ~(k <= i)
      BY <2>4 DEF UpTo
    <3>2. \A j \in S : j <= k <=> j <= i \/ j = k
      <4> TAKE j \in S
      <4>1. i \in Nat /\ j \in Nat /\ k \in Nat
        BY <2>2, <3>1
      <4>2. j \in UpTo(S, i) \/ k <= j
        BY <2>4
      <4>3. j <= i \/ k <= j
        BY <4>2 DEF UpTo
      <4> QED
        BY <3>1, <4>1, <4>3
    <3> QED
      BY <3>1, <3>2 DEF UpTo
  <2>6. IsFiniteSet(UpTo(S, i))
    BY UpToIsFinite
  <2>7. Cardinality(UpTo(S, k)) = Cardinality(UpTo(S, i)) + 1
    BY <2>5, <2>6, FS_AddElement, Zenon
  <2>8. Cardinality(UpTo(S, k)) = least
    BY <1>2, <1>3, <2>2, <2>7
  <2> QED
    BY <1>3, <2>5, <2>8
<1> QED
  BY <1>4, <1>5

LEMMA InOrderIsThere ==
  ASSUME NEW S, S \subseteq Nat, IsFiniteSet(S)
  PROVE  /\ DOMAIN InOrder(S) = 1..Cardinality(S) /\ Cardinality(S) \in Nat
         /\ \A n \in 1..Cardinality(S) :
              InOrder(S)[n] \in S /\ Cardinality(UpTo(S, InOrder(S)[n])) = n
         /\ InOrder(S) \in Seq(S) /\ Len(InOrder(S)) = Cardinality(S)
<1>1. Cardinality(S) \in Nat
  BY FS_CardinalityType
<1>2. DOMAIN InOrder(S) = 1..Cardinality(S)
  BY DEF InOrder
<1>3. ASSUME NEW n \in 1..Cardinality(S)
      PROVE  InOrder(S)[n] \in S /\ Cardinality(UpTo(S, InOrder(S)[n])) = n
  <2>1. \E i \in S : Cardinality(UpTo(S, i)) = n
    BY PlaceIsThere
  <2>2. InOrder(S)[n] = CHOOSE i \in S : Cardinality(UpTo(S, i)) = n
    BY Zenon DEF InOrder, UpTo
  <2> QED
    BY <2>1, <2>2
<1>4. InOrder(S) \in [1..Cardinality(S) -> S]
  BY <1>2, <1>3 DEF InOrder
<1> QED
  BY <1>1, <1>2, <1>3, <1>4, ListIsSequence

LEMMA InOrderIncreases ==
  ASSUME NEW S, S \subseteq Nat, IsFiniteSet(S),
         NEW m \in 1..Cardinality(S), NEW n \in 1..Cardinality(S), m < n
  PROVE  InOrder(S)[m] < InOrder(S)[n]
<1> DEFINE x == InOrder(S)[m]
           y == InOrder(S)[n]
<1>1. /\ x \in S /\ Cardinality(UpTo(S, x)) = m
      /\ y \in S /\ Cardinality(UpTo(S, y)) = n
      /\ m \in Nat /\ n \in Nat
  <2>1. Cardinality(S) \in Nat
    BY FS_CardinalityType
  <2>2. /\ x \in S /\ Cardinality(UpTo(S, x)) = m
        /\ y \in S /\ Cardinality(UpTo(S, y)) = n
    BY InOrderIsThere, Zenon
  <2> QED
    BY <2>1, <2>2
<1> HIDE DEF x, y
<1>n. x \in Nat /\ y \in Nat
  BY <1>1
<1>2. ASSUME y <= x PROVE FALSE
  <2>1. UpTo(S, y) \subseteq UpTo(S, x)
    BY <1>n, <1>2, UpToGrows
  <2>2. IsFiniteSet(UpTo(S, x))
    BY UpToIsFinite
  <2>3. Cardinality(UpTo(S, y)) <= Cardinality(UpTo(S, x))
    BY <2>1, <2>2, FS_Subset
  <2> QED
    BY <1>1, <2>3
<1>3. x < y
  BY <1>n, <1>2
<1> QED
  BY <1>3 DEF x, y

\* Every element has its place.
LEMMA InOrderIsAll ==
  ASSUME NEW S, S \subseteq Nat, IsFiniteSet(S), NEW i \in S
  PROVE  \E n \in 1..Cardinality(S) : InOrder(S)[n] = i
<1> DEFINE n == Cardinality(UpTo(S, i))
           x == InOrder(S)[n]
<1>1. /\ IsFiniteSet(UpTo(S, i)) /\ n \in Nat /\ n <= Cardinality(S) /\ Cardinality(S) \in Nat
      /\ i \in UpTo(S, i)
  BY UpToIsFinite DEF UpTo
<1>2. n # 0
  BY <1>1, FS_EmptySet
<1>3. n \in 1..Cardinality(S)
  BY <1>1, <1>2
<1>4. x \in S /\ Cardinality(UpTo(S, x)) = n
  BY <1>3, InOrderIsThere
<1> HIDE DEF x
<1>5. /\ IsFiniteSet(UpTo(S, x)) /\ x \in UpTo(S, x)
      /\ UpTo(S, x) \subseteq UpTo(S, i) \/ UpTo(S, i) \subseteq UpTo(S, x)
  <2>1. x \in Nat /\ i \in Nat /\ \A j \in S : j \in Nat
    BY <1>4
  <2>2. x \in UpTo(S, x)
    BY <1>4, <2>1 DEF UpTo
  <2>3. x <= i \/ i <= x
    BY <2>1
  <2>4. UpTo(S, x) \subseteq UpTo(S, i) \/ UpTo(S, i) \subseteq UpTo(S, x)
    BY <2>1, <2>3, UpToGrows
  <2> QED
    BY <2>2, <2>4, UpToIsFinite
<1> HIDE DEF n
<1>6. UpTo(S, x) = UpTo(S, i)
  BY <1>1, <1>4, <1>5, FS_Subset DEF n
<1>7. x = i
  BY <1>1, <1>4, <1>5, <1>6 DEF UpTo
<1> QED
  BY <1>3, <1>7 DEF x

\* Places takes elements of the sequence, as many as there are places.
LEMMA PlacesAreThere ==
  ASSUME NEW T, NEW seq, NEW S, S \subseteq Nat, IsFiniteSet(S), \A i \in S : seq[i] \in T
  PROVE  /\ Places(seq, S) \in Seq(T) /\ Len(Places(seq, S)) = Cardinality(S)
         /\ Cardinality(S) \in Nat /\ DOMAIN Places(seq, S) = 1..Cardinality(S)
         /\ \A n \in 1..Cardinality(S) : Places(seq, S)[n] = seq[InOrder(S)[n]]
<1>1. /\ DOMAIN InOrder(S) = 1..Cardinality(S) /\ Cardinality(S) \in Nat
      /\ \A n \in 1..Cardinality(S) : InOrder(S)[n] \in S
  BY InOrderIsThere
<1>2. Places(seq, S) \in [1..Cardinality(S) -> T]
  BY <1>1 DEF Places
<1> QED
  BY <1>1, <1>2, ListIsSequence DEF Places

(***************************************************************************)
(* The caches                                                               *)
(***************************************************************************)

LEMMA PositionIsThere ==
  ASSUME NEW S, NEW cache \in Seq(S), NEW key
  PROVE  /\ Position(cache, key) \in 0..Len(cache) /\ Len(cache) \in Nat
         /\ Position(cache, key) # 0 => cache[Position(cache, key)] \in S
<1> DEFINE I == {i \in 1..Len(cache) : cache[i].key = key}
<1>1. Position(cache, key) = IF I # {} THEN Min(I) ELSE 0
  BY DEF Position, SelectInSeq
<1>2. Len(cache) \in Nat
  BY LenProperties
<1>3. I \subseteq Nat
  BY <1>2
<1>4. I # {} => Min(I) \in I
  <2> HIDE DEF I
  <2> QED
    BY <1>3, LeastIsThere
<1>5. Position(cache, key) \in 0..Len(cache)
  BY <1>1, <1>2, <1>4
<1>6. ASSUME Position(cache, key) # 0
      PROVE  cache[Position(cache, key)] \in S
  BY <1>2, <1>5, <1>6, ElementOfSeq
<1> QED
  BY <1>2, <1>5, <1>6

\* Without the entry of a key a cache is no longer, and shorter if there was one.
LEMMA WithoutIsShorter ==
  ASSUME NEW S, NEW cache \in Seq(S), NEW key
  PROVE  /\ Without(cache, key) \in Seq(S) /\ Len(cache) \in Nat
         /\ Len(Without(cache, key)) = (IF Position(cache, key) = 0 THEN Len(cache)
                                        ELSE Len(cache) - 1)
<1> DEFINE p == Position(cache, key)
<1>1. p \in 0..Len(cache) /\ Len(cache) \in Nat
  BY PositionIsThere
<1>2. \A i \in 1..Len(cache) : cache[i] \in S
  BY ElementOfSeq
<1>3. Without(cache, key) = (IF p = 0 THEN cache
                             ELSE SubSeq(cache, 1, p - 1) \o SubSeq(cache, p + 1, Len(cache)))
  BY DEF Without, RemoveAt
<1> HIDE DEF p
<1>4. CASE p = 0
  BY <1>1, <1>3, <1>4 DEF p
<1>5. CASE p # 0
  <2>1. SubSeq(cache, 1, p - 1) \in Seq(S) /\ Len(SubSeq(cache, 1, p - 1)) = p - 1
    <3>1. p - 1 \in Int /\ (1 <= p - 1 => (p - 1) - 1 + 1 = p - 1) /\ (~(1 <= p - 1) => p - 1 = 0)
      BY <1>1, <1>5
    <3>2. \A i \in 1..(p - 1) : cache[i] \in S
      BY <1>1, <1>2
    <3> QED
      BY <3>1, <3>2, SubSeqProperties
  <2>2. /\ SubSeq(cache, p + 1, Len(cache)) \in Seq(S)
        /\ Len(SubSeq(cache, p + 1, Len(cache))) = Len(cache) - p
    <3>1. /\ p + 1 \in Int /\ Len(cache) \in Int
          /\ (p + 1 <= Len(cache) => Len(cache) - (p + 1) + 1 = Len(cache) - p)
          /\ (~(p + 1 <= Len(cache)) => Len(cache) - p = 0)
      BY <1>1, <1>5
    <3>2. \A i \in (p + 1)..Len(cache) : cache[i] \in S
      BY <1>1, <1>2
    <3> QED
      BY <3>1, <3>2, SubSeqProperties
  <2>3. /\ Without(cache, key) \in Seq(S)
        /\ Len(Without(cache, key)) = (p - 1) + (Len(cache) - p)
    BY <1>3, <1>5, <2>1, <2>2, ConcatProperties
  <2> QED
    BY <1>1, <1>5, <2>3 DEF p
<1> QED
  BY <1>4, <1>5

\* A cache is a short list of entries of S.
IsCache(S, cache) == cache \in Seq(S) /\ Len(cache) <= CacheEntries

LEMMA GetKeepsCache ==
  ASSUME NEW S, NEW cache, IsCache(S, cache), NEW key, NEW now
  PROVE  IsCache(S, CacheAfterGet(cache, key, now))
<1> DEFINE p == Position(cache, key)
<1>1. /\ cache \in Seq(S) /\ Len(cache) \in Nat
      /\ p # 0 => cache[p] \in S
  BY PositionIsThere DEF IsCache
<1>2. /\ Without(cache, key) \in Seq(S)
      /\ Len(Without(cache, key)) = (IF p = 0 THEN Len(cache) ELSE Len(cache) - 1)
  BY <1>1, WithoutIsShorter
<1> DEFINE rest == Without(cache, key)
<1>3. CacheAfterGet(cache, key, now) = (IF CacheHit(cache, key, now) THEN Append(rest, cache[p])
                                        ELSE rest)
  BY DEF CacheAfterGet
<1>4. CacheHit(cache, key, now) => p # 0
  BY DEF CacheHit
<1> HIDE DEF p, rest
<1>5. CASE CacheHit(cache, key, now)
  <2>1. Append(rest, cache[p]) \in Seq(S) /\ Len(Append(rest, cache[p])) = Len(rest) + 1
    BY <1>1, <1>2, <1>4, <1>5, AppendProperties DEF rest
  <2> QED
    BY <1>1, <1>2, <1>3, <1>4, <1>5, <2>1 DEF IsCache, rest
<1>6. CASE ~CacheHit(cache, key, now)
  BY <1>1, <1>2, <1>3, <1>6, Limits DEF IsCache, rest
<1> QED
  BY <1>5, <1>6

\* However full a cache is, one more key makes it no longer than it may be.
LEMMA PutKeepsCache ==
  ASSUME NEW S, NEW cache, IsCache(S, cache), NEW key, NEW candidates, NEW expiry,
         [key |-> key, candidates |-> candidates, expiry_time |-> expiry] \in S
  PROVE  IsCache(S, CacheAfterPut(cache, key, candidates, expiry, CacheEntries))
<1> DEFINE p == Position(cache, key)
           entry == [key |-> key, candidates |-> candidates, expiry_time |-> expiry]
           kept == IF p = 0 /\ Len(cache) >= CacheEntries THEN Tail(cache) ELSE Without(cache, key)
<1>1. /\ cache \in Seq(S) /\ Len(cache) \in Nat /\ Len(cache) <= CacheEntries
  BY LenProperties DEF IsCache
<1>2. /\ Without(cache, key) \in Seq(S)
      /\ Len(Without(cache, key)) = (IF p = 0 THEN Len(cache) ELSE Len(cache) - 1)
  BY <1>1, WithoutIsShorter
<1>3. CacheAfterPut(cache, key, candidates, expiry, CacheEntries) = Append(kept, entry)
  BY DEF CacheAfterPut
<1> HIDE DEF p, entry
<1>4. kept \in Seq(S) /\ Len(kept) \in Nat /\ Len(kept) + 1 <= CacheEntries
  <2>1. CASE p = 0 /\ Len(cache) >= CacheEntries
    <3>1. cache # <<>>
      BY <2>1, EmptySeq, Limits
    <3>2. Tail(cache) \in Seq(S) /\ Len(Tail(cache)) = Len(cache) - 1
      BY <1>1, <3>1, HeadTailProperties
    <3> QED
      BY <1>1, <2>1, <3>2, Limits
  <2>2. CASE ~(p = 0 /\ Len(cache) >= CacheEntries)
    <3>1. Len(Without(cache, key)) + 1 <= CacheEntries
      BY <1>1, <1>2, <2>2, Limits
    <3> QED
      BY <1>1, <1>2, <2>2, <3>1, LenProperties
  <2> QED
    BY <2>1, <2>2
<1>5. Append(kept, entry) \in Seq(S) /\ Len(Append(kept, entry)) = Len(kept) + 1
  <2> HIDE DEF kept
  <2> QED
    BY <1>4, AppendProperties DEF entry
<1> QED
  BY <1>3, <1>4, <1>5 DEF IsCache

(***************************************************************************)
(* What is found, and the records made of it                                *)
(***************************************************************************)

\* A sequence of elements of S is one of its own.
LEMMA OwnElements ==
  ASSUME NEW S, NEW s \in Seq(S)
  PROVE  /\ s \in Seq(ToSet(s)) /\ ToSet(s) \subseteq S
         /\ DOMAIN s = 1..Len(s) /\ Len(s) \in Nat /\ \A i \in DOMAIN s : s[i] \in S
<1>1. DOMAIN s = 1..Len(s) /\ Len(s) \in Nat /\ \A i \in DOMAIN s : s[i] \in S
  BY ElementOfSeq, LenProperties
<1>2. ToSet(s) \subseteq S
  BY <1>1 DEF ToSet
<1>3. s \in [1..Len(s) -> ToSet(s)]
  BY <1>1, LenProperties DEF ToSet
<1> QED
  BY <1>1, <1>2, <1>3, ListIsSequence

\* The beginning of a list.
LEMMA ShortenedIsThere ==
  ASSUME NEW S, NEW seq \in Seq(S), NEW n \in Nat
  PROVE  /\ Shortened(seq, n) \in Seq(S) /\ Len(Shortened(seq, n)) <= n
         /\ Len(Shortened(seq, n)) <= Len(seq)
<1> DEFINE m == Min({Len(seq), n})
<1>1. Len(seq) \in Nat
  BY LenProperties
<1>2. m \in {Len(seq), n} /\ m <= Len(seq) /\ m <= n
  <2> DEFINE both == {Len(seq), n}
  <2>1. both \subseteq Nat /\ both # {} /\ Len(seq) \in both /\ n \in both
    BY <1>1
  <2> HIDE DEF both
  <2>2. Min(both) \in both /\ \A y \in both : Min(both) <= y
    BY <2>1, LeastIsThere
  <2> QED
    BY <2>1, <2>2 DEF both
<1>3. Shortened(seq, n) = SubSeq(seq, 1, m)
  BY DEF Shortened
<1> HIDE DEF m
<1>4. m \in Nat /\ m <= Len(seq) /\ m <= n
  BY <1>1, <1>2
<1>5. \A i \in 1..m : seq[i] \in S
  BY <1>1, <1>4, ElementOfSeq
<1>6. SubSeq(seq, 1, m) \in Seq(S) /\ Len(SubSeq(seq, 1, m)) = IF 1 <= m THEN m - 1 + 1 ELSE 0
  BY <1>4, <1>5, SubSeqProperties
<1> QED
  BY <1>1, <1>3, <1>4, <1>6

LEMMA FoundTexts ==
  ASSUME NEW d \in Configurations, NEW x \in CandidatesOf(d)
  PROVE  IsText(x.text) /\ x.frame_chars \in Nat
  BY LiteBridgeAssumption DEF DeploymentIsPossible

LEMMA FoundLists ==
  ASSUME NEW d \in Configurations
  PROVE  /\ \A ranked \in d.local_results : ranked \in Seq(CandidatesOf(d))
         /\ \A results \in d.web_results :
              /\ results \in Seq(ToSet(results))
              /\ \A i \in DOMAIN results : results[i].candidate \in CandidatesOf(d)
<1>1. \A list \in d.local_results \cup d.web_results : list \in Seq(ToSet(list))
  BY LiteBridgeAssumption DEF DeploymentIsPossible
<1>2. ASSUME NEW ranked \in d.local_results
      PROVE  ranked \in Seq(CandidatesOf(d))
  <2>1. ranked \in Seq(ToSet(ranked)) /\ ToSet(ranked) \subseteq CandidatesOf(d)
    BY <1>1 DEF CandidatesOf
  <2> QED
    BY <2>1, SeqMonotonic
<1>3. ASSUME NEW results \in d.web_results, NEW i \in DOMAIN results
      PROVE  results[i].candidate \in CandidatesOf(d)
  <2> DEFINE hits == UNION {ToSet(list) : list \in d.web_results}
  <2>1. results[i] \in hits
    BY DEF ToSet
  <2> DEFINE local == UNION {ToSet(ranked) : ranked \in d.local_results}
  <2>2. CandidatesOf(d) = local \cup {hit.candidate : hit \in hits}
    BY DEF CandidatesOf
  <2> HIDE DEF hits, local
  <2>3. results[i].candidate \in {hit.candidate : hit \in hits}
    BY <2>1
  <2> QED
    BY <2>2, <2>3, Zenon
<1> QED
  BY <1>1, <1>2, <1>3

LEMMA LocallyFound ==
  ASSUME NEW d \in Configurations, NEW ranked \in d.local_results, NEW query,
         NEW policy \in RetrievalPolicy
  PROVE  /\ Answer(ranked).candidates \in Seq(CandidatesOf(d))
         /\ LocalRetrieve(query, policy, ranked).candidates \in Seq(CandidatesOf(d))
<1>1. ranked \in Seq(CandidatesOf(d))
  BY FoundLists
<1>2. policy.max_evidence_items \in Nat
  BY DEF RetrievalPolicy
<1>3. Shortened(ranked, policy.max_evidence_items) \in Seq(CandidatesOf(d))
  BY <1>1, <1>2, ShortenedIsThere
<1> DEFINE short == Shortened(ranked, policy.max_evidence_items)
<1>4. /\ Answer(ranked).candidates = ranked /\ Answer(short).candidates = short
      /\ Raises("retrieval_error").candidates = <<>>
  BY DEF Answer, Raises
<1>5. LocalRetrieve(query, policy, ranked)
        = IF query.single_character THEN Raises("retrieval_error") ELSE Answer(short)
  BY DEF LocalRetrieve
<1> HIDE DEF short
<1> QED
  BY <1>1, <1>3, <1>4, <1>5, EmptySeq DEF short

LEMMA FoundOnTheWeb ==
  ASSUME NEW d \in Configurations, NEW results \in d.web_results,
         NEW policy \in RetrievalPolicy
  PROVE  LET hits == TavilySearch(results, EffectiveResults(policy, d.settings.web_max_results))
         IN  WebCandidates(hits).candidates \in Seq(CandidatesOf(d))
<1> DEFINE n == EffectiveResults(policy, d.settings.web_max_results)
           shown == Shortened(results, n)
           complete == {i \in DOMAIN shown : shown[i].complete}
           hits == TavilySearch(results, n)
<1>1. results \in Seq(ToSet(results)) /\ \A hit \in ToSet(results) : hit.candidate \in CandidatesOf(d)
  BY FoundLists DEF ToSet
<1>2. n \in Nat
  <2> DEFINE caps == {policy.web.max_search_results, d.settings.web_max_results,
                      policy.max_evidence_items}
  <2>1. policy.max_evidence_items \in 1..6 /\ policy.web \in WebRetrievalPolicy
    BY DEF RetrievalPolicy
  <2>2. policy.web.max_search_results \in 1..5
    BY <2>1 DEF WebRetrievalPolicy
  <2>3. d.settings.web_max_results \in 1..5
    BY LiteBridgeAssumption DEF DeploymentIsPossible
  <2>4. caps \subseteq Nat /\ caps # {}
    BY <2>1, <2>2, <2>3
  <2>5. n = Min(caps)
    BY DEF EffectiveResults
  <2> HIDE DEF caps
  <2> QED
    BY <2>4, <2>5, LeastIsThere
<1>3. hits = Places(shown, complete)
  BY DEF TavilySearch
<1> HIDE DEF n, hits
<1>4. shown \in Seq(ToSet(results))
  BY <1>1, <1>2, ShortenedIsThere
<1>5. /\ DOMAIN shown = 1..Len(shown) /\ Len(shown) \in Nat
      /\ \A i \in DOMAIN shown : shown[i] \in ToSet(results)
  BY <1>4, OwnElements
<1> HIDE DEF shown
<1>6. complete \subseteq Nat /\ IsFiniteSet(complete)
  <2>1. IsFiniteSet(1..Len(shown)) /\ complete \subseteq 1..Len(shown)
    BY <1>5, FS_Interval
  <2> QED
    BY <1>5, <2>1, FS_Subset
<1>7. hits \in Seq(ToSet(results))
  BY <1>3, <1>5, <1>6, PlacesAreThere
<1>8. /\ DOMAIN hits = 1..Len(hits) /\ Len(hits) \in Nat
      /\ \A i \in DOMAIN hits : hits[i].candidate \in CandidatesOf(d)
  BY <1>1, <1>7, OwnElements
<1>9. [i \in DOMAIN hits |-> hits[i].candidate] \in Seq(CandidatesOf(d))
  BY <1>8, ListIsSequence
<1>10. WebCandidates(hits).candidates \in {<<>>, [i \in DOMAIN hits |-> hits[i].candidate]}
  BY DEF WebCandidates, Answer, Raises
<1> QED
  BY <1>9, <1>10, EmptySeq DEF hits, n

(***************************************************************************)
(* The records that fit                                                     *)
(***************************************************************************)

\* HasRoom looks at what was taken before only.
LEMMA RoomLooksBack ==
  ASSUME NEW candidates, NEW policy, NEW i, NEW s, NEW t,
         {j \in s : j < i} = {j \in t : j < i}
  PROVE  HasRoom(candidates, s, i, policy) = HasRoom(candidates, t, i, policy)
  BY DEF HasRoom

\* The candidates that are taken: each that had room after those before it.
LEMMA SelectionIsThere ==
  ASSUME NEW S, NEW candidates \in Seq(S), NEW policy
  PROVE  \E taken \in SUBSET DOMAIN candidates :
           taken = {i \in DOMAIN candidates : HasRoom(candidates, taken, i, policy)}
<1> DEFINE n == Len(candidates)
           Good(m) == \E t \in SUBSET (1..m) :
                        t = {i \in 1..m : HasRoom(candidates, t, i, policy)}
           Bad == {m \in 0..n : ~Good(m)}
<1>1. n \in Nat /\ DOMAIN candidates = 1..n
  BY LenProperties
<1> HIDE DEF n
<1>2. ASSUME Bad # {} PROVE FALSE
  <2> DEFINE least == Min(Bad)
  <2>1. least \in Bad /\ \A m \in Bad : least <= m
    <3>1. Bad \subseteq Nat
      BY <1>1
    <3> HIDE DEF Bad
    <3> QED
      BY <1>2, <3>1, LeastIsThere
  <2> HIDE DEF least
  <2>2. least \in 0..n /\ ~Good(least)
    BY <2>1
  <2>3. Good(0)
    <3>1. {} \in SUBSET (1..0) /\ {} = {i \in 1..0 : HasRoom(candidates, {}, i, policy)}
      OBVIOUS
    <3> QED
      BY <3>1
  <2>4. least # 0 /\ least \in Nat /\ least - 1 \in 0..n
    <3>1. least # 0
      BY <2>2, <2>3
    <3> HIDE DEF Good
    <3> QED
      BY <1>1, <2>2, <3>1
  <2>5. Good(least - 1)
    <3>1. least - 1 \notin Bad
      <4> HIDE DEF Bad, Good
      <4> QED
        BY <2>1, <2>4
    <3> HIDE DEF Good
    <3> QED
      BY <2>4, <3>1
  <2>6. PICK t \in SUBSET (1..(least - 1)) :
          t = {i \in 1..(least - 1) : HasRoom(candidates, t, i, policy)}
    BY <2>5
  <2> DEFINE s == IF HasRoom(candidates, t, least, policy) THEN t \cup {least} ELSE t
  <2>7. /\ s \subseteq 1..least
        /\ \A i \in 1..(least - 1) : i \in s <=> i \in t
        /\ least \in s <=> HasRoom(candidates, t, least, policy)
    BY <2>4, <2>6
  <2> HIDE DEF s
  <2>8. ASSUME NEW i \in 1..least
        PROVE  HasRoom(candidates, s, i, policy) = HasRoom(candidates, t, i, policy)
    <3>1. \A j \in 1..least : j < i => j \in 1..(least - 1)
      BY <2>4
    <3>2. \A j \in t : j \in 1..least
      BY <2>4, <2>6
    <3>3. {j \in s : j < i} = {j \in t : j < i}
      BY <2>7, <3>1, <3>2
    <3> QED
      BY <3>3, RoomLooksBack
  <2>9. s = {i \in 1..least : HasRoom(candidates, s, i, policy)}
    <3>1. ASSUME NEW i \in 1..least
          PROVE  i \in s <=> HasRoom(candidates, s, i, policy)
      <4>1. CASE i = least
        BY <2>7, <2>8, <4>1
      <4>2. CASE i # least
        <5>1. i \in 1..(least - 1)
          BY <2>4, <4>2
        <5>2. i \in t <=> HasRoom(candidates, t, i, policy)
          BY <2>6, <5>1
        <5> QED
          BY <2>7, <2>8, <5>1, <5>2
      <4> QED
        BY <4>1, <4>2
    <3> QED
      BY <2>7, <3>1
  <2>10. Good(least)
    BY <2>7, <2>9
  <2> QED
    BY <2>2, <2>10
<1>3. Good(n)
  <2>1. n \in 0..n
    BY <1>1
  <2> HIDE DEF Good
  <2> QED
    BY <1>2, <2>1
<1> QED
  BY <1>1, <1>3

LEMMA GreatestIsThere ==
  ASSUME NEW S, S \subseteq Nat, IsFiniteSet(S), S # {}
  PROVE  \E i \in S : \A j \in S : j <= i
<1> DEFINE n == Cardinality(S)
           i == InOrder(S)[n]
<1>1. n \in Nat /\ n # 0
  BY FS_CardinalityType, FS_EmptySet
<1>2. i \in S /\ Cardinality(UpTo(S, i)) = Cardinality(S)
  <2>1. n \in 1..Cardinality(S)
    BY <1>1
  <2> QED
    BY <2>1, InOrderIsThere
<1> HIDE DEF n, i
<1>3. UpTo(S, i) = S
  BY <1>2, UpToIsFinite, FS_Subset
<1> QED
  BY <1>2, <1>3 DEF UpTo

LEMMA RecordsAreOfCandidates ==
  ASSUME NEW S, NEW candidates \in Seq(S), NEW taken \in SUBSET DOMAIN candidates
  PROVE  LET records == RecordsOf(candidates, taken)
         IN  /\ records \in Seq(ToSet(records)) /\ Len(records) = Cardinality(taken)
             /\ DOMAIN records = 1..Cardinality(taken)
             /\ IsFiniteSet(taken) /\ taken \subseteq Nat
             /\ Cardinality(taken) \in Nat /\ Cardinality(taken) <= Len(candidates)
             /\ \A n \in DOMAIN records : \E x \in S : records[n] = EvidenceRecord(x, n)
<1> DEFINE records == RecordsOf(candidates, taken)
<1>1. DOMAIN candidates = 1..Len(candidates) /\ Len(candidates) \in Nat
  BY LenProperties
<1>2. /\ taken \subseteq Nat /\ IsFiniteSet(taken) /\ Cardinality(taken) <= Len(candidates)
      /\ Cardinality(taken) \in Nat
  <2>1. /\ IsFiniteSet(1..Len(candidates)) /\ Cardinality(1..Len(candidates)) = Len(candidates)
    <3>1. /\ IsFiniteSet(1..Len(candidates))
          /\ Cardinality(1..Len(candidates))
               = IF 1 > Len(candidates) THEN 0 ELSE Len(candidates) - 1 + 1
      BY <1>1, FS_Interval
    <3> QED
      BY <1>1, <3>1
  <2>2. taken \in SUBSET (1..Len(candidates))
    BY <1>1
  <2> QED
    BY <1>1, <2>1, <2>2, FS_Subset, FS_CardinalityType
<1>3. /\ DOMAIN InOrder(taken) = 1..Cardinality(taken)
      /\ \A n \in 1..Cardinality(taken) : InOrder(taken)[n] \in taken
  BY <1>2, InOrderIsThere
<1>4. /\ DOMAIN records = 1..Cardinality(taken)
      /\ records = [n \in 1..Cardinality(taken) |->
                      EvidenceRecord(candidates[InOrder(taken)[n]], n)]
  BY <1>3 DEF RecordsOf
<1>5. \A n \in DOMAIN records : \E x \in S : records[n] = EvidenceRecord(x, n)
  <2> TAKE n \in DOMAIN records
  <2>1. candidates[InOrder(taken)[n]] \in S
    BY <1>1, <1>3, <1>4, ElementOfSeq
  <2> QED
    BY <1>4, <2>1
<1> HIDE DEF records
<1>6. records \in [1..Cardinality(taken) -> ToSet(records)]
  BY <1>4 DEF ToSet
<1>7. records \in Seq(ToSet(records)) /\ Len(records) = Cardinality(taken)
  BY <1>2, <1>6, ListIsSequence
<1> QED
  BY <1>2, <1>4, <1>5, <1>7 DEF records

\* What is selected is of the candidates and within the limits.
LEMMA SelectedFit ==
  ASSUME NEW S, NEW candidates \in Seq(S), NEW policy \in RetrievalPolicy
  PROVE  LET records == SelectRecords(candidates, policy)
         IN  /\ records \in Seq(ToSet(records)) /\ Len(records) <= Len(candidates)
             /\ \A n \in DOMAIN records : \E x \in S : records[n] = EvidenceRecord(x, n)
             /\ Len(records) <= policy.max_evidence_items
             /\ records = <<>> \/ FitsPolicy(records, policy)
<1> DEFINE Fixed(t) == t = {i \in DOMAIN candidates : HasRoom(candidates, t, i, policy)}
           taken == CHOOSE t \in SUBSET DOMAIN candidates : Fixed(t)
           records == RecordsOf(candidates, taken)
<1>1. taken \in SUBSET DOMAIN candidates /\ Fixed(taken)
  <2>1. \E t \in SUBSET DOMAIN candidates : Fixed(t)
    BY SelectionIsThere
  <2> HIDE DEF Fixed
  <2> QED
    BY <2>1
<1>2. SelectRecords(candidates, policy) = records
  BY DEF SelectRecords
<1> HIDE DEF taken
<1>3. /\ records \in Seq(ToSet(records)) /\ Len(records) = Cardinality(taken)
      /\ DOMAIN records = 1..Cardinality(taken)
      /\ IsFiniteSet(taken) /\ taken \subseteq Nat
      /\ Cardinality(taken) \in Nat /\ Cardinality(taken) <= Len(candidates)
      /\ \A n \in DOMAIN records : \E x \in S : records[n] = EvidenceRecord(x, n)
  <2> HIDE DEF Fixed
  <2> QED
    BY <1>1, RecordsAreOfCandidates, Zenon
<1>4. policy.max_evidence_items \in 1..6
  BY DEF RetrievalPolicy
<1>5. CASE taken = {}
  <2>1. Cardinality(taken) = 0
    BY <1>5, FS_EmptySet
  <2>2. records = <<>>
    <3> HIDE DEF records
    <3> QED
      BY <1>3, <2>1, EmptySeq
  <2> QED
    BY <1>2, <1>3, <1>4, <2>1, <2>2
<1>6. CASE taken # {}
  <2>1. PICK i \in taken : \A j \in taken : j <= i
    BY <1>3, <1>6, GreatestIsThere
  <2> DEFINE before == {j \in taken : j < i}
  <2>2. Cardinality(before) < policy.max_evidence_items
        /\ FitsPolicy(RecordsOf(candidates, before \cup {i}), policy)
    <3>1. HasRoom(candidates, taken, i, policy)
      BY <1>1, <2>1
    <3> QED
      BY <3>1 DEF HasRoom
  <2>3. before \cup {i} = taken /\ i \notin before
    <3>1. \A j \in taken : j \in Nat /\ j <= i
      BY <1>3, <2>1
    <3> QED
      BY <2>1, <3>1
  <2>4. IsFiniteSet(before) /\ Cardinality(before) \in Nat
    <3>1. before \in SUBSET taken
      OBVIOUS
    <3> HIDE DEF before
    <3> QED
      BY <1>3, <3>1, FS_Subset, FS_CardinalityType
  <2> HIDE DEF before
  <2>5. Cardinality(taken) = Cardinality(before) + 1
    BY <2>3, <2>4, FS_AddElement
  <2>6. Cardinality(taken) <= policy.max_evidence_items
    BY <1>4, <2>2, <2>4, <2>5
  <2>7. FitsPolicy(records, policy)
    BY <2>2, <2>3
  <2> HIDE DEF records
  <2> QED
    BY <1>2, <1>3, <2>6, <2>7
<1> QED
  BY <1>5, <1>6

(***************************************************************************)
(* Recursive functions over sequences                                       *)
(***************************************************************************)

\* g is computed element by element, up to n.
IsFold(g, first, step, n) == g[0] = first /\ \A i \in 1..n : g[i] = step[<<g[i - 1], i>>]

\* Two functions that agree at low, and everywhere up to n if they did just before.
GoOnAgreeing(g, h, low, n) ==
  g[low] = h[low] /\ \A i \in (low + 1)..n : g[i - 1] = h[i - 1] => g[i] = h[i]

\* What is computed element by element is there, and is only one.
LEMMA FoldIsThere ==
  ASSUME NEW T, NEW n \in Nat, NEW first \in T, NEW step \in [T \X (1..n) -> T]
  PROVE  \E g \in [0..n -> T] : IsFold(g, first, step, n)
<1> USE DEF IsFold
<1> DEFINE Folds(g, m) == g[0] = first /\ \A i \in 1..m : g[i] = step[<<g[i - 1], i>>]
           Good(m) == \E g \in [0..m -> T] : Folds(g, m)
           Bad == {m \in 0..n : ~Good(m)}
<1>1. ASSUME Bad # {} PROVE FALSE
  <2> DEFINE least == Min(Bad)
  <2>1. least \in Bad /\ \A m \in Bad : least <= m
    <3>1. Bad \subseteq Nat
      OBVIOUS
    <3> HIDE DEF Bad
    <3> QED
      BY <1>1, <3>1, LeastIsThere
  <2> HIDE DEF least
  <2>2. least \in 0..n /\ ~Good(least)
    BY <2>1
  <2>3. Good(0)
    <3>1. [i \in 0..0 |-> first] \in [0..0 -> T] /\ Folds([i \in 0..0 |-> first], 0)
      OBVIOUS
    <3> HIDE DEF Folds
    <3> QED
      BY <3>1
  <2>4. least # 0 /\ least \in Nat /\ least - 1 \in 0..n
    <3>1. least # 0
      BY <2>2, <2>3
    <3> HIDE DEF Good
    <3> QED
      BY <2>2, <3>1
  <2>5. Good(least - 1)
    <3>1. least - 1 \notin Bad
      <4> HIDE DEF Bad, Good
      <4> QED
        BY <2>1, <2>4
    <3> HIDE DEF Good
    <3> QED
      BY <2>4, <3>1
  <2>6. PICK g \in [0..(least - 1) -> T] : Folds(g, least - 1)
    BY <2>5
  <2> DEFINE last == step[<<g[least - 1], least>>]
             h == [i \in 0..least |-> IF i = least THEN last ELSE g[i]]
  <2>7. last \in T
    <3>1. g[least - 1] \in T /\ least \in 1..n
      BY <2>2, <2>4, <2>6
    <3> QED
      BY <3>1
  <2>8. h \in [0..least -> T] /\ h[least] = last /\ \A i \in 0..(least - 1) : h[i] = g[i]
    <3> HIDE DEF last
    <3> QED
      BY <2>4, <2>6, <2>7
  <2> HIDE DEF h
  <2>9. Folds(h, least)
    <3>1. h[0] = first
      BY <2>4, <2>6, <2>8
    <3>2. ASSUME NEW i \in 1..least
          PROVE  h[i] = step[<<h[i - 1], i>>]
      <4>1. i - 1 \in 0..(least - 1) /\ (i # least => i \in 1..(least - 1) /\ i \in 0..(least - 1))
        BY <2>4
      <4>2. h[i - 1] = g[i - 1]
        BY <2>8, <4>1
      <4>3. CASE i = least
        BY <2>8, <4>2, <4>3
      <4>4. CASE i # least
        BY <2>6, <2>8, <4>1, <4>2, <4>4
      <4> QED
        BY <4>3, <4>4
    <3> QED
      BY <3>1, <3>2
  <2>10. Good(least)
    <3> HIDE DEF Folds
    <3> QED
      BY <2>8, <2>9
  <2> QED
    BY <2>2, <2>10
<1>2. Good(n)
  <2> HIDE DEF Good
  <2> QED
    BY <1>1
<1> QED
  BY <1>2

LEMMA FoldIsUnique ==
  ASSUME NEW n \in Nat, NEW g, NEW h, NEW low \in Nat, GoOnAgreeing(g, h, low, n)
  PROVE  \A i \in low..n : g[i] = h[i]
<1> USE DEF GoOnAgreeing
<1> DEFINE Bad == {i \in low..n : g[i] # h[i]}
<1>1. ASSUME Bad # {} PROVE FALSE
  <2> DEFINE least == Min(Bad)
  <2>1. least \in Bad /\ \A m \in Bad : least <= m
    <3>1. Bad \subseteq Nat
      OBVIOUS
    <3> HIDE DEF Bad
    <3> QED
      BY <1>1, <3>1, LeastIsThere
  <2> HIDE DEF least
  <2>2. least \in low..n /\ g[least] # h[least]
    BY <2>1
  <2>3. least # low
    BY <2>2
  <2>4. least - 1 \in low..n /\ least \in (low + 1)..n /\ least \in Nat
    BY <2>2, <2>3
  <2>5. g[least - 1] = h[least - 1]
    <3>1. least - 1 \notin Bad
      <4> HIDE DEF Bad
      <4> QED
        BY <2>1, <2>4
    <3> QED
      BY <2>4, <3>1
  <2> QED
    BY <2>2, <2>4, <2>5
<1> QED
  BY <1>1

\* A sequence of n sequences of elements of S, one at least.
AreLists(S, seqs, n) == Len(seqs) = n /\ n # 0 /\ \A i \in 1..n : seqs[i] \in Seq(S)

\* What was joined of them, one more at each place.
JoinsUp(g, seqs, n) ==
  g[0] = <<>> /\ (\A i \in 1..n : g[i] = g[i - 1] \o seqs[i]) /\ FlattenSeq(seqs) = g[n]

LEMMA FlattenIsThere ==
  ASSUME NEW S, NEW seqs, NEW n \in Nat, AreLists(S, seqs, n)
  PROVE  \E g \in [0..n -> Seq(S)] : JoinsUp(g, seqs, n)
<1> USE DEF AreLists, JoinsUp
<1> DEFINE step == [p \in Seq(S) \X (1..n) |-> p[1] \o seqs[p[2]]]
<1>1. step \in [Seq(S) \X (1..n) -> Seq(S)]
  <2>1. ASSUME NEW p \in Seq(S) \X (1..n)
        PROVE  p[1] \o seqs[p[2]] \in Seq(S)
    BY ConcatProperties
  <2> QED
    BY <2>1
<1>2. <<>> \in Seq(S)
  BY EmptySeq
<1>3. PICK g \in [0..n -> Seq(S)] : g[0] = <<>> /\ \A i \in 1..n : g[i] = step[<<g[i - 1], i>>]
  <2> DEFINE T == Seq(S)
             first == <<>>
  <2>1. first \in T /\ step \in [T \X (1..n) -> T]
    BY <1>1, <1>2
  <2>2. \E g \in [0..n -> T] : IsFold(g, first, step, n)
    <3> HIDE DEF step, T, first
    <3> QED
      BY <2>1, FoldIsThere
  <2> QED
    BY <2>2, Zenon DEF IsFold
<1>4. \A i \in 1..n : g[i] = g[i - 1] \o seqs[i]
  <2> TAKE i \in 1..n
  <2>1. <<g[i - 1], i>> \in Seq(S) \X (1..n)
    OBVIOUS
  <2> QED
    BY <1>3, <2>1
<1> HIDE DEF step
<1> DEFINE Eqn(h) == h = [i \in 1..n |-> IF i = 1 THEN seqs[i] ELSE h[i - 1] \o seqs[i]]
           flatten == CHOOSE h : Eqn(h)
<1>5. FlattenSeq(seqs) = flatten[n]
  BY DEF FlattenSeq
<1>6. Eqn([i \in 1..n |-> g[i]])
  <2> DEFINE h == [i \in 1..n |-> g[i]]
  <2>1. ASSUME NEW i \in 1..n
        PROVE  g[i] = IF i = 1 THEN seqs[i] ELSE h[i - 1] \o seqs[i]
    <3>1. CASE i = 1
      <4>1. <<>> \o seqs[1] = seqs[1]
        <5>1. seqs[1] \in Seq(S)
          BY <3>1
        <5> QED
          BY <5>1, ConcatEmptySeq
      <4>2. g[1] = g[1 - 1] \o seqs[1] /\ 1 - 1 = 0
        <5>1. 1 \in 1..n /\ 1 - 1 = 0
          BY <3>1
        <5> QED
          BY <1>4, <5>1, Zenon
      <4>3. g[1] = seqs[1]
        BY <1>3, <4>1, <4>2
      <4> HIDE DEF h
      <4> QED
        BY <3>1, <4>3
    <3>2. CASE i # 1
      <4>1. i - 1 \in 1..n
        BY <3>2
      <4>2. h[i - 1] = g[i - 1]
        BY <4>1
      <4> HIDE DEF h
      <4> QED
        BY <1>4, <3>2, <4>2
    <3> QED
      BY <3>1, <3>2
  <2> QED
    BY <2>1, Zenon
<1>7. Eqn(flatten)
  <2> HIDE DEF Eqn
  <2> QED
    BY <1>6
<1> HIDE DEF flatten
<1>8. \A i \in 1..n : flatten[i] = IF i = 1 THEN seqs[i] ELSE flatten[i - 1] \o seqs[i]
  BY <1>7, Zenon
<1>9. \A i \in 1..n : flatten[i] = g[i]
  <2>1. flatten[1] = g[1]
    <3>1. 1 \in 1..n /\ 1 - 1 = 0 /\ seqs[1] \in Seq(S)
      OBVIOUS
    <3>2. <<>> \o seqs[1] = seqs[1]
      BY <3>1, ConcatEmptySeq
    <3>3. g[1] = g[1 - 1] \o seqs[1]
      BY <1>4, <3>1
    <3> QED
      BY <1>3, <1>8, <3>1, <3>2, <3>3
  <2>2. \A i \in (1 + 1)..n : flatten[i - 1] = g[i - 1] => flatten[i] = g[i]
    <3> TAKE i \in (1 + 1)..n
    <3>1. i \in 1..n /\ i # 1
      OBVIOUS
    <3>2. flatten[i] = flatten[i - 1] \o seqs[i]
      BY <1>8, <3>1, Zenon
    <3>3. g[i] = g[i - 1] \o seqs[i]
      BY <1>4, <3>1, Zenon
    <3> QED
      BY <3>2, <3>3, Zenon
  <2>3. 1 \in Nat /\ GoOnAgreeing(flatten, g, 1, n)
    BY <2>1, <2>2 DEF GoOnAgreeing
  <2> HIDE DEF Eqn
  <2> QED
    BY <2>3, FoldIsUnique
<1>10. flatten[n] = g[n]
  BY <1>9
<1> QED
  BY <1>3, <1>4, <1>5, <1>10

(***************************************************************************)
(* What compression leaves of a text                                        *)
(***************************************************************************)

LEMMA PartOfRange ==
  ASSUME NEW n \in Nat, NEW S, S \in SUBSET (1..n)
  PROVE  S \subseteq Nat /\ IsFiniteSet(S) /\ Cardinality(S) \in Nat
<1>1. 1..n \subseteq Nat /\ IsFiniteSet(1..n)
  <2>1. 1 \in Int /\ n \in Int
    OBVIOUS
  <2> QED
    BY <2>1, FS_Interval
<1>2. IsFiniteSet(S)
  BY <1>1, FS_Subset
<1> QED
  BY <1>1, <1>2, FS_CardinalityType

Increases(h, n) == \A j \in 1..n, k \in 1..n : j < k => h[j] < h[k]

\* The elements of part are those of seq at the places h, all of them among the first n.
IsPart(part, seq, h, n) ==
  /\ h \in [1..Len(part) -> 1..n] /\ Increases(h, Len(part))
  /\ \A k \in 1..Len(part) : part[k] = seq[h[k]]

\* A part is followed by a later stretch.
LEMMA StretchFollows ==
  ASSUME NEW T, NEW seq \in Seq(T), NEW part \in Seq(T), NEW h, NEW x \in Nat,
         IsPart(part, seq, h, x), NEW m \in Nat, NEW n \in Nat, x < m, m <= n, n <= Len(seq)
  PROVE  /\ part \o SubSeq(seq, m, n) \in Seq(T)
         /\ \E f : IsPart(part \o SubSeq(seq, m, n), seq, f, n)
<1> DEFINE l == Len(part)
           s == SubSeq(seq, m, n)
           r == part \o s
           f == [k \in 1..Len(r) |-> IF k <= l THEN h[k] ELSE m + (k - l) - 1]
<1>1. l \in Nat /\ DOMAIN seq = 1..Len(seq) /\ Len(seq) \in Nat /\ \A i \in m..n : seq[i] \in T
  BY OwnElements
<1>2. s \in Seq(T) /\ Len(s) = n - m + 1 /\ \A k \in 1..(n - m + 1) : s[k] = seq[m + k - 1]
  <2>1. m \in 1..(Len(seq) + 1) /\ n \in (m - 1)..Len(seq) /\ m <= n + 1
    BY <1>1
  <2>2. (IF m <= n THEN n - m + 1 ELSE 0) = n - m + 1
    OBVIOUS
  <2> QED
    BY <1>1, <2>1, <2>2, SubSeqProperties
<1> HIDE DEF s
<1>3. /\ r \in Seq(T) /\ Len(r) = l + (n - m + 1)
      /\ \A k \in 1..Len(r) : r[k] = IF k <= l THEN part[k] ELSE s[k - l]
  <2>0. s \in Seq(T) /\ part \in Seq(T)
    BY <1>2
  <2>1. /\ r \in Seq(T) /\ Len(r) = Len(part) + Len(s)
        /\ \A k \in 1..(Len(part) + Len(s)) : r[k] = IF k <= Len(part) THEN part[k]
                                                     ELSE s[k - Len(part)]
    BY <2>0, ConcatProperties, Zenon
  <2> HIDE DEF r
  <2>2. Len(r) = l + (n - m + 1)
    BY <1>2, <2>1
  <2>3. \A k \in 1..Len(r) : r[k] = IF k <= l THEN part[k] ELSE s[k - l]
    BY <2>1
  <2> QED
    BY <2>1, <2>2, <2>3
<1> HIDE DEF r
<1>4. ASSUME NEW k \in 1..Len(r)
      PROVE  /\ k <= l => f[k] = h[k] /\ h[k] \in 1..x /\ r[k] = seq[h[k]]
             /\ ~(k <= l) => f[k] = m + (k - l) - 1 /\ f[k] \in m..n /\ r[k] = seq[f[k]]
  <2>1. CASE k <= l
    <3>1. k \in 1..l
      BY <1>1, <2>1
    <3> QED
      BY <1>3, <2>1, <3>1 DEF IsPart
  <2>2. CASE ~(k <= l)
    <3>1. k - l \in 1..(n - m + 1) /\ m + (k - l) - 1 \in m..n
      BY <1>1, <1>3, <2>2
    <3>2. r[k] = s[k - l] /\ s[k - l] = seq[m + (k - l) - 1]
      BY <1>2, <1>3, <2>2, <3>1
    <3> QED
      BY <2>2, <3>1, <3>2
  <2> QED
    BY <2>1, <2>2
<1>5. ASSUME NEW k \in 1..Len(r)
      PROVE  f[k] \in 1..n /\ r[k] = seq[f[k]]
  <2>1. l \in Nat /\ h[k] \in 1..x => h[k] \in 1..n
    BY <1>1
  <2>2. f[k] \in m..n => f[k] \in 1..n
    OBVIOUS
  <2> QED
    BY <1>4, <2>1, <2>2
<1>6. ASSUME NEW j \in 1..Len(r), NEW k \in 1..Len(r), j < k
      PROVE  f[j] < f[k]
  <2>1. CASE k <= l
    <3>1. j \in 1..l /\ k \in 1..l
      BY <1>1, <1>3, <1>6, <2>1
    <3>2. h[j] < h[k]
      BY <1>6, <3>1 DEF IsPart, Increases
    <3> QED
      BY <1>4, <2>1, <3>1, <3>2
  <2>2. CASE j <= l /\ ~(k <= l)
    <3>1. h[j] \in 1..x /\ f[j] = h[j] /\ f[k] \in m..n
      BY <1>4, <2>2
    <3> HIDE DEF f
    <3> QED
      BY <3>1
  <2>3. CASE ~(j <= l) /\ ~(k <= l)
    <3>1. f[j] = m + (j - l) - 1 /\ f[k] = m + (k - l) - 1
      BY <1>4, <2>3
    <3> HIDE DEF f, l
    <3> QED
      BY <1>1, <1>6, <3>1
  <2>4. j <= k
    BY <1>1, <1>3, <1>6
  <2> QED
    BY <1>1, <1>3, <1>6, <2>1, <2>2, <2>3
<1>7. DOMAIN f = 1..Len(r)
  OBVIOUS
<1>8. f \in [1..Len(r) -> 1..n]
  BY <1>5
<1> HIDE DEF f
<1>9. IsPart(r, seq, f, n)
  BY <1>5, <1>6, <1>8 DEF IsPart, Increases
<1> QED
  BY <1>3, <1>9 DEF r, s
LEMMA TextIsList ==
  ASSUME NEW text, IsText(text)
  PROVE  /\ text \in Seq(ToSet(text)) /\ DOMAIN text = 1..Len(text) /\ Len(text) \in Nat
         /\ \A i \in 1..Len(text) :
              /\ text[i] \in ToSet(text) /\ text[i] = [f \in ClauseFields |-> text[i][f]]
              /\ text[i].sep = "end" <=> i = Len(text)
<1>1. text \in Seq(ToSet(text)) /\ DOMAIN text = 1..Len(text) /\ Len(text) \in Nat
  BY OwnElements DEF IsText
<1> QED
  BY <1>1 DEF IsText, ToSet

Followed(x, sep) == [x EXCEPT !.sep = sep]

\* What WithSeparator makes of a list of clauses.
LEMMA SeparatorIsSet ==
  ASSUME NEW T, NEW s \in Seq(T), NEW sep
  PROVE  /\ DOMAIN WithSeparator(s, sep) = 1..Len(s) /\ Len(WithSeparator(s, sep)) = Len(s)
         /\ \E U : WithSeparator(s, sep) \in Seq(U)
         /\ \A i \in 1..Len(s) :
              WithSeparator(s, sep)[i] = IF i = Len(s) THEN Followed(s[i], sep) ELSE s[i]
<1> DEFINE w == WithSeparator(s, sep)
<1>1. DOMAIN s = 1..Len(s) /\ Len(s) \in Nat /\ \A i \in 1..Len(s) : s[i] \in T
  BY OwnElements
<1>2. w = [i \in 1..Len(s) |-> IF i = Len(s) THEN Followed(s[i], sep) ELSE s[i]]
  BY <1>1 DEF WithSeparator, Followed
<1> HIDE DEF w
<1>3. w \in [1..Len(s) -> {w[i] : i \in 1..Len(s)}]
  BY <1>2
<1>4. w \in Seq({w[i] : i \in 1..Len(s)}) /\ Len(w) = Len(s)
  BY <1>1, <1>3, ListIsSequence
<1> QED
  BY <1>2, <1>4 DEF w

\* Of two separators that are set, the last one counts; one that is there already changes
\* nothing.
LEMMA SeparatorIsSetAgain ==
  ASSUME NEW T, NEW s \in Seq(T), \A x \in T : x = [f \in ClauseFields |-> x[f]],
         NEW first, NEW sep
  PROVE  /\ WithSeparator(WithSeparator(s, first), sep) = WithSeparator(s, sep)
         /\ s # <<>> /\ sep = s[Len(s)].sep => WithSeparator(s, sep) = s
         /\ s = <<>> => WithSeparator(s, sep) = s
<1> DEFINE w == WithSeparator(s, first)
           v == WithSeparator(w, sep)
           u == WithSeparator(s, sep)
<1>1. DOMAIN s = 1..Len(s) /\ Len(s) \in Nat /\ \A i \in 1..Len(s) : s[i] \in T
  BY OwnElements
<1>2. /\ Len(w) = Len(s) /\ DOMAIN w = 1..Len(s)
      /\ \A i \in 1..Len(s) : w[i] = IF i = Len(s) THEN Followed(s[i], first) ELSE s[i]
  BY SeparatorIsSet
<1>3. /\ u = [i \in 1..Len(s) |-> IF i = Len(s) THEN Followed(s[i], sep) ELSE s[i]]
      /\ v = [i \in 1..Len(s) |-> IF i = Len(s) THEN Followed(w[i], sep) ELSE w[i]]
  <2> HIDE DEF w
  <2> QED
    BY <1>1, <1>2 DEF WithSeparator, Followed
<1>4. \A x \in T : /\ Followed(Followed(x, first), sep) = Followed(x, sep)
                   /\ Followed(x, x.sep) = x
  <2> TAKE x \in T
  <2>1. x = [f \in ClauseFields |-> x[f]]
    OBVIOUS
  <2>2. [[x EXCEPT !.sep = first] EXCEPT !.sep = sep] = [x EXCEPT !.sep = sep]
    BY <2>1
  <2>3. [x EXCEPT !.sep = x.sep] = x
    BY <2>1
  <2> QED
    BY <2>2, <2>3 DEF Followed
<1> HIDE DEF u, v, w
<1>5. u = v
  <2>1. ASSUME NEW i \in 1..Len(s)
        PROVE  (IF i = Len(s) THEN Followed(s[i], sep) ELSE s[i])
                 = (IF i = Len(s) THEN Followed(w[i], sep) ELSE w[i])
    BY <1>1, <1>2, <1>4
  <2> QED
    BY <1>3, <2>1
<1>6. s = [i \in 1..Len(s) |-> s[i]]
  BY <1>1
<1>7. ASSUME s # <<>>, sep = s[Len(s)].sep
      PROVE  u = s
  <2>1. \A i \in 1..Len(s) : (IF i = Len(s) THEN Followed(s[i], sep) ELSE s[i]) = s[i]
    BY <1>1, <1>4, <1>7
  <2> QED
    BY <1>3, <1>6, <2>1
<1>8. ASSUME s = <<>>
      PROVE  u = s
  <2>1. Len(s) = 0
    BY <1>8
  <2> QED
    BY <1>3, <1>6, <2>1
<1> QED
  BY <1>5, <1>7, <1>8 DEF u, v, w
\* The boundaries bs are n stretches of a text, one after the other.
AreStretches(bs, text, starts, ends, n) ==
  /\ DOMAIN bs = 1..n /\ Len(bs) = n
  /\ starts \in [1..n -> Nat] /\ ends \in [1..n -> Nat]
  /\ \A k \in 1..n : 1 <= starts[k] /\ starts[k] <= ends[k] /\ ends[k] <= Len(text)
  /\ \A j \in 1..n, k \in 1..n : j < k => ends[j] < starts[k]
  /\ \A k \in 1..n : /\ bs[k].text = WithSeparator(SubSeq(text, starts[k], ends[k]), "end")
                     /\ bs[k].separator = text[ends[k]].sep

LEMMA ParsedIsStretches ==
  ASSUME NEW text, IsText(text)
  PROVE  \E n \in Nat : \E starts, ends :
           AreStretches(ParseSentenceBoundaries(text), text, starts, ends, n)
<1> DEFINE S == {i \in DOMAIN text : EndsBoundary(text, i)}
           n == Cardinality(S)
           ends == InOrder(S)
           starts == [k \in DOMAIN ends |-> IF k = 1 THEN 1 ELSE ends[k - 1] + 1]
           parsed == ParseSentenceBoundaries(text)
<1>1. DOMAIN text = 1..Len(text) /\ Len(text) \in Nat
  BY TextIsList
<1>2. S \subseteq Nat /\ IsFiniteSet(S) /\ S \in SUBSET (1..Len(text))
  <2>1. S \in SUBSET (1..Len(text))
    BY <1>1
  <2> HIDE DEF S
  <2> QED
    BY <1>1, <2>1, PartOfRange
<1>3. parsed = [k \in DOMAIN ends |->
                  [text |-> WithSeparator(SubSeq(text, starts[k], ends[k]), "end"),
                   separator |-> text[ends[k]].sep]]
  BY DEF ParseSentenceBoundaries
<1> HIDE DEF S, parsed
<1>4. DOMAIN ends = 1..n /\ n \in Nat /\ ends \in Seq(S) /\ \A k \in 1..n : ends[k] \in S
  BY <1>2, InOrderIsThere
<1>5. \A k \in 1..n : ends[k] \in Nat /\ 1 <= ends[k] /\ ends[k] <= Len(text)
  <2> HIDE DEF ends, n
  <2> TAKE k \in 1..n
  <2>1. ends[k] \in 1..Len(text)
    BY <1>2, <1>4
  <2> QED
    BY <1>1, <2>1
<1>6. ASSUME NEW j \in 1..n, NEW k \in 1..n, j < k
      PROVE  ends[j] < ends[k]
  BY <1>2, <1>6, InOrderIncreases
<1> HIDE DEF ends, n
<1>7. ASSUME NEW k \in 1..n
      PROVE  /\ starts[k] \in Nat /\ 1 <= starts[k] /\ starts[k] <= ends[k]
             /\ \A j \in 1..n : j < k => ends[j] < starts[k]
  <2>1. CASE k = 1
    <3>1. starts[k] = 1
      BY <1>4, <2>1
    <3>2. \A j \in 1..n : ~(j < k)
      BY <2>1
    <3> HIDE DEF starts
    <3> QED
      BY <1>5, <3>1, <3>2
  <2>2. CASE k # 1
    <3>1. k - 1 \in 1..n /\ k - 1 < k
      BY <1>4, <2>2
    <3>2. starts[k] = ends[k - 1] + 1
      BY <1>4, <2>2
    <3> HIDE DEF starts
    <3>3. ends[k - 1] \in Nat /\ ends[k] \in Nat /\ ends[k - 1] < ends[k]
      BY <1>5, <1>6, <3>1
    <3>4. ASSUME NEW j \in 1..n, j < k
          PROVE  ends[j] < starts[k]
      <4>1. j = k - 1 \/ j < k - 1
        BY <1>4, <3>4
      <4>2. ends[j] \in Nat /\ (ends[j] = ends[k - 1] \/ ends[j] < ends[k - 1])
        BY <1>5, <1>6, <3>1, <4>1
      <4> QED
        BY <3>2, <3>3, <4>2
    <3> QED
      BY <3>2, <3>3, <3>4
  <2> QED
    BY <2>1, <2>2
<1>8. starts = [k \in 1..n |-> starts[k]] /\ ends = [k \in 1..n |-> ends[k]]
  <2>1. ends = [k \in 1..n |-> ends[k]]
    BY <1>4
  <2> QED
    BY <1>4, <2>1
<1> HIDE DEF starts
<1>9. starts \in [1..n -> Nat] /\ ends \in [1..n -> Nat]
  BY <1>5, <1>7, <1>8
<1>10. DOMAIN parsed = 1..n
  BY <1>3, <1>4
<1>11. Len(parsed) = n
  <2>1. parsed \in [1..n -> {parsed[k] : k \in 1..n}]
    BY <1>3, <1>4
  <2> QED
    BY <1>4, <2>1, ListIsSequence
<1>12. \A k \in 1..n : /\ parsed[k].text = WithSeparator(SubSeq(text, starts[k], ends[k]), "end")
                       /\ parsed[k].separator = text[ends[k]].sep
  BY <1>3, <1>4
<1>13. AreStretches(parsed, text, starts, ends, n)
  BY <1>5, <1>7, <1>9, <1>10, <1>11, <1>12 DEF AreStretches
<1> QED
  BY <1>4, <1>13 DEF parsed

LEMMA ChosenAreStretches ==
  ASSUME NEW bs, NEW text, NEW starts, NEW ends, NEW n \in Nat,
         AreStretches(bs, text, starts, ends, n), NEW chosen \in SUBSET (1..n)
  PROVE  \E m \in Nat : \E first, last : AreStretches(Places(bs, chosen), text, first, last, m)
<1> DEFINE m == Cardinality(chosen)
           order == InOrder(chosen)
           first == [k \in 1..m |-> starts[order[k]]]
           last == [k \in 1..m |-> ends[order[k]]]
           places == Places(bs, chosen)
<1>1. chosen \subseteq Nat /\ IsFiniteSet(chosen)
  BY PartOfRange
<1>2. m \in Nat /\ \A k \in 1..m : order[k] \in 1..n
  BY <1>1, InOrderIsThere
<1>3. \A j \in 1..m, k \in 1..m : j < k => order[j] < order[k]
  BY <1>1, InOrderIncreases
<1>4. /\ DOMAIN places = 1..m /\ Len(places) = m
      /\ \A k \in 1..m : places[k] = bs[order[k]]
  <2>1. DOMAIN order = 1..m
    BY <1>1, InOrderIsThere
  <2>2. places = [k \in DOMAIN order |-> bs[order[k]]]
    BY DEF Places
  <2> HIDE DEF m, order, places
  <2>3. places \in [1..m -> {bs[order[k]] : k \in 1..m}]
    BY <2>1, <2>2
  <2>4. Len(places) = m
    BY <1>2, <2>3, ListIsSequence
  <2> QED
    BY <2>1, <2>2, <2>4
<1> HIDE DEF m, order, places
<1>5. first \in [1..m -> Nat] /\ last \in [1..m -> Nat]
  <2>1. \A k \in 1..m : starts[order[k]] \in Nat /\ ends[order[k]] \in Nat
    BY <1>2 DEF AreStretches
  <2> QED
    BY <2>1
<1>6. \A k \in 1..m : first[k] = starts[order[k]] /\ last[k] = ends[order[k]]
  OBVIOUS
<1> HIDE DEF first, last
<1>7. ASSUME NEW k \in 1..m
      PROVE  /\ 1 <= first[k] /\ first[k] <= last[k] /\ last[k] <= Len(text)
             /\ places[k].text = WithSeparator(SubSeq(text, first[k], last[k]), "end")
             /\ places[k].separator = text[last[k]].sep
             /\ \A j \in 1..m : j < k => last[j] < first[k]
  <2>1. order[k] \in 1..n /\ first[k] = starts[order[k]] /\ last[k] = ends[order[k]]
    BY <1>2, <1>6
  <2>2. \A j \in 1..m : j < k => order[j] \in 1..n /\ order[j] < order[k]
                                /\ last[j] = ends[order[j]]
    BY <1>2, <1>3, <1>6
  <2> QED
    BY <1>4, <2>1, <2>2 DEF AreStretches
<1>8. AreStretches(places, text, first, last, m)
  BY <1>4, <1>5, <1>7 DEF AreStretches
<1> QED
  BY <1>2, <1>8 DEF places
LEMMA SeparatorAtEnd ==
  ASSUME NEW T, NEW s \in Seq(T), NEW t \in Seq(T), Len(t) # 0, NEW sep
  PROVE  s \o WithSeparator(t, sep) = WithSeparator(s \o t, sep)
<1> DEFINE w == WithSeparator(t, sep)
           r == s \o t
           v == s \o w
           l == Len(s)
           m == Len(t)
<1>1. /\ r \in Seq(T) /\ Len(r) = l + m /\ l \in Nat /\ m \in Nat /\ DOMAIN r = 1..Len(r)
      /\ \A i \in 1..(l + m) : r[i] = IF i <= l THEN s[i] ELSE t[i - l]
  BY ConcatProperties, OwnElements
<1>2. /\ Len(w) = m /\ \A i \in 1..m : w[i] = IF i = m THEN Followed(t[i], sep) ELSE t[i]
  BY SeparatorIsSet
<1>3. PICK U : s \in Seq(U) /\ w \in Seq(U)
  <2>1. PICK V : w \in Seq(V)
    BY SeparatorIsSet
  <2> HIDE DEF w
  <2>2. s \in Seq(T \cup V) /\ w \in Seq(T \cup V)
    BY <2>1, SeqMonotonic
  <2> QED
    BY <2>2
<1> HIDE DEF w
<1>4. /\ v \in Seq(U) /\ Len(v) = l + m /\ DOMAIN v = 1..(l + m)
      /\ \A i \in 1..(l + m) : v[i] = IF i <= l THEN s[i] ELSE w[i - l]
  <2>1. /\ v \in Seq(U) /\ Len(v) = Len(s) + Len(w)
        /\ \A i \in 1..(Len(s) + Len(w)) : v[i] = IF i <= Len(s) THEN s[i] ELSE w[i - Len(s)]
    BY <1>3, ConcatProperties
  <2> HIDE DEF v
  <2> QED
    BY <1>2, <2>1, OwnElements
<1>5. WithSeparator(r, sep)
        = [i \in 1..(l + m) |-> IF i = l + m THEN Followed(r[i], sep) ELSE r[i]]
  <2> HIDE DEF r
  <2> QED
    BY <1>1 DEF WithSeparator, Followed
<1>6. v = [i \in 1..(l + m) |-> v[i]]
  <2> HIDE DEF v
  <2>1. v \in [1..(l + m) -> U]
    BY <1>4, LenProperties
  <2> QED
    BY <2>1
<1> HIDE DEF v, r
<1>7. ASSUME NEW i \in 1..(l + m)
      PROVE  v[i] = IF i = l + m THEN Followed(r[i], sep) ELSE r[i]
  <2>1. CASE i <= l
    <3>1. i # l + m
      BY <1>1, <2>1
    <3> QED
      BY <1>1, <1>4, <2>1, <3>1
  <2>2. CASE ~(i <= l)
    <3>1. i - l \in 1..m /\ (i - l = m <=> i = l + m)
      BY <1>1, <2>2
    <3>2. v[i] = w[i - l] /\ r[i] = t[i - l]
      BY <1>1, <1>4, <2>2
    <3> QED
      BY <1>2, <3>1, <3>2
  <2> QED
    BY <2>1, <2>2
<1> QED
  BY <1>5, <1>6, <1>7 DEF v, r, w
\* e are clauses of a text in their order, the last of which ends it.
IsExtractOf(e, text) ==
  \E part, h : /\ part \in Seq(ToSet(text)) /\ IsPart(part, text, h, Len(text))
               /\ e = WithSeparator(part, "end")

LEMMA EmptyIsPart ==
  ASSUME NEW seq, NEW n \in Nat
  PROVE  \E h : IsPart(<<>>, seq, h, n)
<1>1. Len(<<>>) = 0
  OBVIOUS
<1>2. [k \in 1..0 |-> 1] \in [1..0 -> 1..n]
  OBVIOUS
<1>3. IsPart(<<>>, seq, [k \in 1..0 |-> 1], n)
  BY <1>1, <1>2 DEF IsPart, Increases
<1> QED
  BY <1>3

\* Stretches joined anew are an extract.
LEMMA JoinedIsExtract ==
  ASSUME NEW text, IsText(text), NEW n \in Nat, NEW bs, NEW starts, NEW ends,
         AreStretches(bs, text, starts, ends, n)
  PROVE  IsExtractOf(Joined(bs), text)
<1> DEFINE T == ToSet(text)
           Stretch(k) == SubSeq(text, starts[k], ends[k])
           sep(k) == IF k = Len(bs) THEN "end"
                     ELSE IF bs[k].separator = "end" THEN "space"
                     ELSE bs[k].separator
           seqs == [k \in DOMAIN bs |-> WithSeparator(bs[k].text, sep(k))]
           last == WithSeparator(Stretch(n), "end")
           reach(i) == IF i = 0 THEN 0 ELSE ends[i]
<1>1. /\ text \in Seq(T) /\ DOMAIN text = 1..Len(text) /\ Len(text) \in Nat
      /\ \A i \in 1..Len(text) : text[i] \in T /\ (text[i].sep = "end" <=> i = Len(text))
      /\ \A x \in T : x = [f \in ClauseFields |-> x[f]]
  <2>1. /\ text \in Seq(T) /\ DOMAIN text = 1..Len(text) /\ Len(text) \in Nat
        /\ \A i \in 1..Len(text) : text[i] \in T /\ (text[i].sep = "end" <=> i = Len(text))
        /\ \A i \in 1..Len(text) : text[i] = [f \in ClauseFields |-> text[i][f]]
    BY TextIsList
  <2> QED
    BY <2>1 DEF ToSet
<1>2. ASSUME NEW k \in 1..n
      PROVE  /\ starts[k] \in Nat /\ ends[k] \in Nat
             /\ 1 <= starts[k] /\ starts[k] <= ends[k] /\ ends[k] <= Len(text)
             /\ bs[k].text = WithSeparator(Stretch(k), "end") /\ bs[k].separator = text[ends[k]].sep
             /\ \A j \in 1..n : j < k => ends[j] < starts[k]
  BY DEF AreStretches
<1>3. Joined(bs) = FlattenSeq(seqs) /\ DOMAIN bs = 1..n /\ Len(bs) = n
  BY DEF Joined, AreStretches
<1> HIDE DEF T
<1>4. ASSUME NEW k \in 1..n
      PROVE  /\ Stretch(k) \in Seq(T) /\ Len(Stretch(k)) = ends[k] - starts[k] + 1
             /\ Len(Stretch(k)) # 0 /\ Stretch(k) # <<>>
             /\ Stretch(k)[Len(Stretch(k))] = text[ends[k]]
  <2> DEFINE m == starts[k]
             e == ends[k]
  <2>1. m \in Nat /\ e \in Nat /\ 1 <= m /\ m <= e /\ e <= Len(text)
    BY <1>2
  <2> HIDE DEF m, e
  <2>2. \A i \in m..e : text[i] \in T
    BY <1>1, <2>1
  <2>3. /\ SubSeq(text, m, e) \in Seq(T) /\ Len(SubSeq(text, m, e)) = e - m + 1
        /\ \A i \in 1..(e - m + 1) : SubSeq(text, m, e)[i] = text[m + i - 1]
    BY <2>1, <2>2, SubSeqProperties
  <2>4. e - m + 1 \in 1..(e - m + 1) /\ m + (e - m + 1) - 1 = e /\ e - m + 1 # 0
    BY <2>1
  <2> QED
    BY <2>3, <2>4 DEF m, e
<1>5. ASSUME NEW k \in 1..n
      PROVE  seqs[k] = IF k = n THEN last ELSE Stretch(k)
  <2>1. seqs[k] = WithSeparator(WithSeparator(Stretch(k), "end"), sep(k))
    BY <1>2, <1>3
  <2>2. seqs[k] = WithSeparator(Stretch(k), sep(k))
    <3> DEFINE x == Stretch(k)
               y == sep(k)
    <3>1. x \in Seq(T) /\ \A z \in T : z = [f \in ClauseFields |-> z[f]]
      BY <1>1, <1>4
    <3>2. seqs[k] = WithSeparator(WithSeparator(x, "end"), y)
      BY <2>1
    <3> HIDE DEF x, y, seqs
    <3>3. WithSeparator(WithSeparator(x, "end"), y) = WithSeparator(x, y)
      BY <3>1, SeparatorIsSetAgain
    <3>4. seqs[k] = WithSeparator(x, y)
      BY <3>2, <3>3
    <3> QED
      BY <3>4 DEF x, y
  <2>3. CASE k = n
    BY <1>3, <2>2, <2>3
  <2>4. CASE k # n
    <3>1. k < n /\ n \in 1..n
      BY <2>4
    <3>2. ends[k] < starts[n] /\ ends[k] \in 1..Len(text) /\ ends[k] # Len(text)
      BY <1>1, <1>2, <3>1
    <3>3. sep(k) = text[ends[k]].sep
      BY <1>1, <1>2, <1>3, <2>4, <3>2
    <3>4. sep(k) = Stretch(k)[Len(Stretch(k))].sep
      BY <1>4, <3>3
    <3> HIDE DEF sep, Stretch
    <3>5. WithSeparator(Stretch(k), sep(k)) = Stretch(k)
      BY <1>1, <1>4, <3>4, SeparatorIsSetAgain
    <3> QED
      BY <2>2, <2>4, <3>5
  <2> QED
    BY <2>3, <2>4
<1>6. DOMAIN seqs = 1..n /\ Len(seqs) = n
  <2>1. DOMAIN seqs = 1..n
    BY <1>3
  <2>2. seqs \in [1..n -> {seqs[k] : k \in 1..n}]
    BY <1>3
  <2> HIDE DEF seqs
  <2>3. Len(seqs) = n
    BY <2>2, ListIsSequence
  <2> QED
    BY <2>1, <2>3
<1>7. CASE n = 0
  <2>1. FlattenSeq(seqs) = <<>>
    <3>1. seqs = <<>>
      <4>1. seqs = [k \in 1..0 |-> 0]
        BY <1>3, <1>7
      <4> QED
        BY <4>1
    <3> QED
      BY <3>1 DEF FlattenSeq
  <2>2. WithSeparator(<<>>, "end") = <<>>
    BY DEF WithSeparator
  <2>3. <<>> \in Seq(T) /\ \E h : IsPart(<<>>, text, h, Len(text))
    BY <1>1, EmptySeq, EmptyIsPart
  <2> QED
    BY <1>3, <2>1, <2>2, <2>3 DEF IsExtractOf, T
<1>8. CASE n # 0
  <2>1. n \in 1..n /\ n - 1 \in Nat
    BY <1>8
  <2>2. PICK U : last \in Seq(U)
    BY <1>4, <2>1, SeparatorIsSet
  <2> DEFINE S == T \cup U
  <2>3. AreLists(S, seqs, n)
    <3>1. last \in Seq(S)
      BY <2>2, SeqMonotonic
    <3>2. \A k \in 1..n : Stretch(k) \in Seq(S)
      BY <1>4, SeqMonotonic
    <3> HIDE DEF last, Stretch, S, seqs
    <3>3. \A k \in 1..n : seqs[k] \in Seq(S)
      BY <1>5, <3>1, <3>2
    <3> QED
      BY <1>6, <1>8, <3>3 DEF AreLists
  <2>4. PICK g \in [0..n -> Seq(S)] : JoinsUp(g, seqs, n)
    BY <2>3, FlattenIsThere
  <2>5. /\ g[0] = <<>> /\ FlattenSeq(seqs) = g[n]
        /\ \A i \in 1..n : g[i] = g[i - 1] \o (IF i = n THEN last ELSE Stretch(i))
    <3> HIDE DEF seqs, last, Stretch
    <3> QED
      BY <1>5, <2>4 DEF JoinsUp
  <2> DEFINE Good(i) == g[i] \in Seq(T) /\ \E h : IsPart(g[i], text, h, reach(i))
             Bad == {i \in 0..(n - 1) : ~Good(i)}
  <2>6. reach(0) = 0 /\ \A i \in 1..n : reach(i) = ends[i] /\ reach(i) \in Nat
    BY <1>2
  <2>7. ASSUME NEW i \in 1..n, Good(i - 1)
        PROVE  /\ g[i - 1] \o Stretch(i) \in Seq(T)
               /\ \E h : IsPart(g[i - 1] \o Stretch(i), text, h, ends[i])
    <3>1. PICK h : g[i - 1] \in Seq(T) /\ IsPart(g[i - 1], text, h, reach(i - 1))
      BY <2>7
    <3>2. reach(i - 1) \in Nat /\ reach(i - 1) < starts[i]
      <4>1. CASE i = 1
        BY <1>2, <2>6, <4>1
      <4>2. CASE i # 1
        <5>1. i - 1 \in 1..n /\ i - 1 < i
          BY <4>2
        <5> QED
          BY <1>2, <2>6, <5>1
      <4> QED
        BY <4>1, <4>2
    <3> HIDE DEF Good, reach
    <3>3. /\ starts[i] \in Nat /\ ends[i] \in Nat /\ starts[i] <= ends[i]
          /\ ends[i] <= Len(text) /\ text \in Seq(T)
      BY <1>1, <1>2
    <3> QED
      BY <3>1, <3>2, <3>3, StretchFollows
  <2>8. ASSUME Bad # {} PROVE FALSE
    <3> DEFINE least == Min(Bad)
    <3>1. least \in Bad /\ \A i \in Bad : least <= i
      <4>1. Bad \subseteq Nat
        OBVIOUS
      <4> HIDE DEF Bad
      <4> QED
        BY <2>8, <4>1, LeastIsThere
    <3> HIDE DEF least
    <3>2. least \in 0..(n - 1) /\ ~Good(least)
      <4> HIDE DEF Good
      <4> QED
        BY <3>1
    <3>3. Good(0)
      <4>1. <<>> \in Seq(T) /\ \E h : IsPart(<<>>, text, h, 0)
        BY EmptySeq, EmptyIsPart
      <4> QED
        BY <2>5, <2>6, <4>1
    <3> HIDE DEF Good
    <3>4. least # 0 /\ least \in 1..n /\ least # n /\ least - 1 \in 0..(n - 1)
      <4>1. least # 0
        BY <3>2, <3>3
      <4> QED
        BY <3>2, <4>1
    <3>5. Good(least - 1)
      <4>1. least - 1 \notin Bad
        BY <3>1, <3>4
      <4> QED
        BY <3>4, <4>1
    <3>6. g[least] = g[least - 1] \o Stretch(least)
      BY <2>5, <3>4
    <3>7. Good(least)
      BY <2>6, <2>7, <3>4, <3>5, <3>6 DEF Good
    <3> QED
      BY <3>2, <3>7
  <2>9. Good(n - 1)
    <3> HIDE DEF Good
    <3>1. n - 1 \in 0..(n - 1)
      BY <2>1
    <3> QED
      BY <2>8, <3>1
  <2> DEFINE part == g[n - 1] \o Stretch(n)
  <2>10. PICK h : part \in Seq(T) /\ IsPart(part, text, h, ends[n])
    <3> HIDE DEF Good
    <3> QED
      BY <2>1, <2>7, <2>9
  <2>11. IsPart(part, text, h, Len(text))
    <3> HIDE DEF part
    <3>1. ends[n] \in Nat /\ ends[n] <= Len(text)
      BY <1>2, <2>1
    <3>2. 1..ends[n] \subseteq 1..Len(text)
      BY <1>1, <3>1
    <3> QED
      BY <2>10, <3>2 DEF IsPart
  <2>12. g[n] = WithSeparator(part, "end")
    <3>1. g[n] = g[n - 1] \o last
      BY <2>1, <2>5
    <3>2. g[n - 1] \in Seq(T) /\ Stretch(n) \in Seq(T) /\ Len(Stretch(n)) # 0
      BY <1>4, <2>1, <2>9
    <3> DEFINE before == g[n - 1]
               stretch == Stretch(n)
    <3>3. before \in Seq(T) /\ stretch \in Seq(T) /\ Len(stretch) # 0
      BY <3>2
    <3>4. g[n] = before \o WithSeparator(stretch, "end") /\ part = before \o stretch
      BY <3>1
    <3> HIDE DEF Stretch, T, S, Good, Bad, last, reach, seqs, sep, part, before, stretch
    <3> QED
      BY <3>3, <3>4, SeparatorAtEnd
  <2> HIDE DEF part
  <2>13. Joined(bs) = WithSeparator(part, "end")
    BY <1>3, <2>5, <2>12
  <2> QED
    BY <2>10, <2>11, <2>13 DEF IsExtractOf, T
<1> QED
  BY <1>7, <1>8

\* A text is an extract of itself.
LEMMA WholeIsExtract ==
  ASSUME NEW text, IsText(text)
  PROVE  IsExtractOf(text, text)
<1> DEFINE T == ToSet(text)
           h == [k \in 1..Len(text) |-> k]
<1>1. /\ text \in Seq(T) /\ DOMAIN text = 1..Len(text) /\ Len(text) \in Nat
      /\ \A i \in 1..Len(text) : text[i].sep = "end" <=> i = Len(text)
      /\ \A i \in 1..Len(text) : text[i] = [f \in ClauseFields |-> text[i][f]]
  BY TextIsList
<1>2. \A x \in T : x = [f \in ClauseFields |-> x[f]]
  BY <1>1 DEF ToSet
<1> HIDE DEF T
<1>3. IsPart(text, text, h, Len(text))
  BY <1>1 DEF IsPart, Increases
<1>4. text # <<>> => "end" = text[Len(text)].sep
  <2>1. text # <<>> => Len(text) # 0
    BY <1>1, EmptySeq, Zenon
  <2>2. text # <<>> => Len(text) \in 1..Len(text)
    <3>1. Len(text) \in Nat
      BY <1>1
    <3> DEFINE n == Len(text)
    <3> HIDE DEF n
    <3>2. n \in Nat /\ n # 0 => n \in 1..n
      OBVIOUS
    <3> QED
      BY <2>1, <3>1, <3>2 DEF n
  <2> QED
    BY <1>1, <2>2
<1>5. text = WithSeparator(text, "end")
  BY <1>1, <1>2, <1>4, SeparatorIsSetAgain
<1> HIDE DEF h
<1> QED
  BY <1>1, <1>3, <1>5 DEF IsExtractOf, T

\* What extraction leaves of a text is an extract of it.
LEMMA ExtractedIsExtract ==
  ASSUME NEW text, IsText(text), NEW policy
  PROVE  IsExtractOf(ExtractedExcerpt(text, policy), text)
<1> DEFINE parsed == ParseSentenceBoundaries(text)
           chosen == TopBoundaries(parsed, policy.max_sentences_per_evidence)
           places == Places(parsed, chosen)
<1>1. ExtractedExcerpt(text, policy) = IF Len(parsed) <= policy.max_sentences_per_evidence
                                       THEN text ELSE Joined(places)
  BY DEF ExtractedExcerpt
<1>2. IsExtractOf(Joined(places), text)
  <2>1. PICK n \in Nat : \E starts, ends : AreStretches(parsed, text, starts, ends, n)
    BY ParsedIsStretches
  <2>2. PICK starts, ends : AreStretches(parsed, text, starts, ends, n)
    BY <2>1
  <2> HIDE DEF parsed
  <2>3. chosen \in SUBSET (1..n)
    BY <2>2 DEF AreStretches, TopBoundaries
  <2> HIDE DEF chosen
  <2>4. PICK m \in Nat : \E first, last : AreStretches(places, text, first, last, m)
    BY <2>2, <2>3, ChosenAreStretches
  <2>5. PICK first, last : AreStretches(places, text, first, last, m)
    BY <2>4
  <2> HIDE DEF places
  <2> QED
    BY <2>5, JoinedIsExtract
<1>3. IsExtractOf(text, text)
  BY WholeIsExtract
<1> QED
  BY <1>1, <1>2, <1>3

\* The clauses of e are those of text at the places h, but that the last one ends it.
IsPlaced(e, text, h) ==
  /\ h \in [1..Len(e) -> 1..Len(text)] /\ Increases(h, Len(e))
  /\ \A k \in 1..Len(e) :
       e[k] = IF k = Len(e) THEN Followed(text[h[k]], "end") ELSE text[h[k]]

\* An extract is a text of its own.
LEMMA ExtractIsText ==
  ASSUME NEW text, IsText(text), NEW e, IsExtractOf(e, text)
  PROVE  IsText(e) /\ \E h : IsPlaced(e, text, h)
<1> DEFINE T == ToSet(text)
<1>1. PICK part, h : /\ part \in Seq(T) /\ IsPart(part, text, h, Len(text))
                     /\ e = WithSeparator(part, "end")
  BY DEF IsExtractOf
<1> HIDE DEF T
<1>2. /\ DOMAIN e = 1..Len(part) /\ Len(e) = Len(part) /\ \E U : e \in Seq(U)
      /\ \A k \in 1..Len(part) : e[k] = IF k = Len(part) THEN Followed(part[k], "end") ELSE part[k]
  BY <1>1, SeparatorIsSet
<1>3. IsPlaced(e, text, h)
  <2>1. h \in [1..Len(e) -> 1..Len(text)] /\ Increases(h, Len(e))
    BY <1>1, <1>2 DEF IsPart
  <2>2. \A k \in 1..Len(e) :
          e[k] = IF k = Len(e) THEN Followed(text[h[k]], "end") ELSE text[h[k]]
    BY <1>1, <1>2 DEF IsPart
  <2> QED
    BY <2>1, <2>2 DEF IsPlaced
<1>4. e \in Seq(ToSet(e)) /\ Len(e) \in Nat /\ DOMAIN e = 1..Len(e)
  BY <1>2, OwnElements
<1>5. ASSUME NEW k \in 1..Len(e)
      PROVE  /\ e[k] = [f \in ClauseFields |-> e[k][f]]
             /\ e[k].chars \in Nat /\ e[k].hits \in Nat /\ e[k].sep \in Separators
             /\ e[k].sep = "end" <=> k = Len(e)
  <2> DEFINE x == text[h[k]]
  <2>1. h[k] \in 1..Len(text) /\ (k # Len(e) => h[k] # Len(text))
    <3>1. Len(text) \in Nat
      BY TextIsList
    <3>2. Len(e) \in 1..Len(e) /\ (k # Len(e) => k < Len(e))
      <4> DEFINE n == Len(e)
      <4>1. n \in Nat /\ k \in 1..n
        BY <1>4
      <4> HIDE DEF n
      <4>2. n \in 1..n /\ (k # n => k < n)
        BY <4>1
      <4> QED
        BY <4>2 DEF n
    <3>3. h \in [1..Len(e) -> 1..Len(text)] /\ (k < Len(e) => h[k] < h[Len(e)])
      BY <1>3, <3>2 DEF IsPlaced, Increases
    <3>4. h[k] \in 1..Len(text) /\ h[Len(e)] \in 1..Len(text)
      BY <3>2, <3>3
    <3> QED
      BY <3>1, <3>2, <3>3, <3>4
  <2>2. /\ x = [f \in ClauseFields |-> x[f]]
        /\ x.chars \in Nat /\ x.hits \in Nat /\ x.sep \in Separators
        /\ x.sep = "end" <=> h[k] = Len(text)
    BY <2>1, TextIsList DEF IsText
  <2>3. e[k] = IF k = Len(e) THEN Followed(x, "end") ELSE x
    BY <1>3 DEF IsPlaced
  <2> HIDE DEF x
  <2>4. CASE k # Len(e)
    BY <2>1, <2>2, <2>3, <2>4
  <2>5. CASE k = Len(e)
    <3> DEFINE y == [f \in ClauseFields |-> IF f = "sep" THEN "end" ELSE x[f]]
    <3>1. e[k] = [x EXCEPT !.sep = "end"]
      BY <2>3, <2>5 DEF Followed
    <3>2. DOMAIN x = ClauseFields
      BY <2>2
    <3>3. [x EXCEPT !.sep = "end"] = y
      BY <3>2
    <3>4. /\ y.chars = x.chars /\ y.hits = x.hits /\ y.sep = "end"
          /\ y = [f \in ClauseFields |-> y[f]]
      BY DEF ClauseFields
    <3>5. e[k] = y
      BY <3>1, <3>3
    <3> HIDE DEF y
    <3>6. y.chars \in Nat /\ y.hits \in Nat /\ y.sep \in Separators
      BY <2>2, <3>4 DEF Separators
    <3> QED
      BY <2>5, <3>4, <3>5, <3>6
  <2> QED
    BY <2>4, <2>5
<1>6. IsText(e)
  BY <1>4, <1>5 DEF IsText
<1> QED
  BY <1>3, <1>6
(***************************************************************************)
(* Sums                                                                     *)
(***************************************************************************)

AddsUp(g, costs, n) == g[0] = 0 /\ \A i \in 1..n : g[i] = g[i - 1] + costs[i]

LEMMA SumIsThere ==
  ASSUME NEW n \in Nat, NEW costs \in [1..n -> Nat]
  PROVE  \E g \in [0..n -> Nat] : AddsUp(g, costs, n)
<1> DEFINE step == [p \in Nat \X (1..n) |-> p[1] + costs[p[2]]]
<1>1. step \in [Nat \X (1..n) -> Nat]
  <2>1. ASSUME NEW p \in Nat \X (1..n)
        PROVE  p[1] + costs[p[2]] \in Nat
    OBVIOUS
  <2> QED
    BY <2>1
<1>2. \A t \in Nat, i \in 1..n : step[<<t, i>>] = t + costs[i]
  OBVIOUS
<1> HIDE DEF step
<1>3. PICK g \in [0..n -> Nat] : IsFold(g, 0, step, n)
  BY <1>1, FoldIsThere
<1>4. ASSUME NEW i \in 1..n
      PROVE  g[i] = g[i - 1] + costs[i]
  <2>1. i - 1 \in 0..n
    OBVIOUS
  <2>2. g[i - 1] \in Nat
    BY <2>1
  <2> QED
    BY <1>2, <1>3, <2>2 DEF IsFold
<1>5. AddsUp(g, costs, n)
  BY <1>3, <1>4 DEF AddsUp, IsFold
<1> QED
  BY <1>5

LEMMA SumGrows ==
  ASSUME NEW n \in Nat, NEW costs \in [1..n -> Nat], NEW g \in [0..n -> Nat], AddsUp(g, costs, n),
         NEW i \in 0..n, NEW j \in 0..n, i <= j
  PROVE  g[i] <= g[j]
<1> DEFINE Bad == {l \in i..n : ~(g[i] <= g[l])}
<1>1. ASSUME Bad # {} PROVE FALSE
  <2> DEFINE least == Min(Bad)
  <2>1. least \in Bad /\ \A l \in Bad : least <= l
    <3>1. Bad \subseteq Nat
      OBVIOUS
    <3> HIDE DEF Bad
    <3> QED
      BY <1>1, <3>1, LeastIsThere
  <2> HIDE DEF least
  <2>2. least \in i..n /\ ~(g[i] <= g[least])
    BY <2>1
  <2>3. g[i] \in Nat /\ least # i
    BY <2>2
  <2>4. least - 1 \in i..n /\ least \in 1..n /\ least - 1 \in 0..n /\ ~(least <= least - 1)
    BY <2>2, <2>3
  <2>5. g[i] <= g[least - 1]
    BY <2>1, <2>4
  <2>6. g[least] = g[least - 1] + costs[least] /\ costs[least] \in Nat /\ g[least - 1] \in Nat
    BY <2>4 DEF AddsUp
  <2> QED
    BY <2>2, <2>3, <2>5, <2>6
<1>2. j \in i..n
  OBVIOUS
<1> QED
  BY <1>1, <1>2

LEMMA SumsCompare ==
  \A u \in Nat, v \in Nat, x \in Nat, y \in Nat, z \in Nat :
    u <= x /\ x <= y /\ v <= z => u + v <= y + z
  OBVIOUS

\* A sum of costs, each at most the one at its place among others, is at most their sum.
LEMMA SumOfPart ==
  ASSUME NEW m \in Nat, NEW a \in [1..m -> Nat], NEW f \in [0..m -> Nat], AddsUp(f, a, m),
         NEW n \in Nat, NEW b \in [1..n -> Nat], NEW g \in [0..n -> Nat], AddsUp(g, b, n),
         NEW h \in [1..m -> 1..n], Increases(h, m), \A k \in 1..m : a[k] <= b[h[k]]
  PROVE  f[m] <= g[n]
<1> DEFINE reach == [k \in 0..m |-> IF k = 0 THEN 0 ELSE h[k]]
           Bad == {k \in 0..m : ~(f[k] <= g[reach[k]])}
<1>2. reach[0] = 0 /\ \A k \in 1..m : reach[k] = h[k] /\ h[k] \in 1..n
  <2>1. reach[0] = 0
    <3>1. 0 \in 0..m
      OBVIOUS
    <3> QED
      BY <3>1, Zenon
  <2>2. ASSUME NEW k \in 1..m PROVE reach[k] = h[k] /\ h[k] \in 1..n
    <3>1. h[k] \in 1..n /\ k \in 0..m /\ k # 0
      OBVIOUS
    <3> QED
      BY <3>1, Zenon
  <2> QED
    BY <2>1, <2>2, Zenon
<1>1. \A k \in 0..m : reach[k] \in 0..n
  <2> TAKE k \in 0..m
  <2>1. k = 0 \/ k \in 1..m
    OBVIOUS
  <2>2. reach[k] = 0 \/ reach[k] \in 1..n
    BY <1>2, <2>1
  <2> HIDE DEF reach
  <2> QED
    BY <2>2
<1> HIDE DEF reach
<1>3. \A k \in 1..m : reach[k - 1] <= h[k] - 1
  <2> TAKE k \in 1..m
  <2>1. CASE k = 1
    <3>1. reach[k - 1] = 0
      BY <1>2, <2>1
    <3>2. h[k] \in 1..n
      BY <1>2
    <3> DEFINE x == h[k]
    <3> HIDE DEF x
    <3>3. x \in 1..n => 0 <= x - 1
      OBVIOUS
    <3> QED
      BY <3>1, <3>2, <3>3 DEF x
  <2>2. CASE k # 1
    <3>1. k - 1 \in 1..m /\ k - 1 < k
      BY <2>2
    <3>2. reach[k - 1] = h[k - 1] /\ h[k - 1] < h[k]
      BY <1>2, <3>1 DEF Increases
    <3>3. h[k - 1] \in 1..n /\ h[k] \in 1..n
      BY <1>2, <3>1
    <3>4. \A x \in 1..n, y \in 1..n : x < y => x <= y - 1
      OBVIOUS
    <3> QED
      BY <3>2, <3>3, <3>4
  <2> QED
    BY <2>1, <2>2
<1>4. ASSUME Bad # {} PROVE FALSE
  <2> DEFINE least == Min(Bad)
  <2>1. least \in Bad /\ \A l \in Bad : least <= l
    <3>1. Bad \subseteq Nat
      OBVIOUS
    <3> HIDE DEF Bad
    <3> QED
      BY <1>4, <3>1, LeastIsThere
  <2> HIDE DEF least
  <2>2. least \in 0..m /\ ~(f[least] <= g[reach[least]])
    BY <2>1
  <2>3. least # 0
    <3>1. f[0] = 0 /\ g[0] = 0
      BY DEF AddsUp
    <3> QED
      BY <1>2, <2>2, <3>1
  <2>4. least - 1 \in 0..m /\ least \in 1..m /\ ~(least <= least - 1)
    BY <2>2, <2>3
  <2>5. f[least - 1] <= g[reach[least - 1]]
    BY <2>1, <2>4
  <2> DEFINE p == h[least]
             x == reach[least - 1]
  <2>6. p \in 1..n /\ x \in 0..n /\ x <= p - 1
    <3>1. p \in 1..n
      BY <2>4
    <3>2. x \in 0..n
      BY <1>1, <2>4
    <3>3. x <= p - 1
      BY <1>3, <2>4
    <3> QED
      BY <3>1, <3>2, <3>3
  <2>7. reach[least] = p
    BY <1>2, <2>4
  <2>8. f[least] = f[least - 1] + a[least] /\ a[least] <= b[p]
    BY <2>4 DEF AddsUp
  <2>9. f[least - 1] \in Nat /\ a[least] \in Nat
    BY <2>4
  <2> HIDE DEF p, x
  <2>10. p - 1 \in 0..n
    BY <2>6
  <2>11. g[x] <= g[p - 1]
    BY <2>6, <2>10, SumGrows
  <2>12. g[p] = g[p - 1] + b[p]
    BY <2>6 DEF AddsUp
  <2>13. g[x] \in Nat /\ g[p - 1] \in Nat /\ b[p] \in Nat
    BY <2>6, <2>10
  <2>14. f[least - 1] <= g[x]
    BY <2>5 DEF x
  <2>15. f[least] <= g[p]
    <3>1. f[least - 1] + a[least] <= g[p - 1] + b[p]
      BY <2>8, <2>9, <2>11, <2>13, <2>14, SumsCompare, Zenon
    <3> QED
      BY <2>8, <2>12, <3>1, Zenon
  <2> QED
    BY <2>2, <2>7, <2>15
<1>5. f[m] <= g[reach[m]]
  <2>1. m \in 0..m /\ m \notin Bad
    <3>1. m \in 0..m
      OBVIOUS
    <3> HIDE DEF Bad
    <3> QED
      BY <1>4, <3>1
  <2> QED
    BY <2>1
<1>6. g[reach[m]] <= g[n]
  <2> DEFINE x == reach[m]
  <2>1. x \in 0..n /\ n \in 0..n
    BY <1>1
  <2> HIDE DEF x
  <2>2. x <= n
    BY <2>1
  <2>3. g[x] <= g[n]
    BY <2>1, <2>2, SumGrows
  <2> QED
    BY <2>3 DEF x
<1>7. f[m] \in Nat /\ g[n] \in Nat /\ g[reach[m]] \in Nat
  BY <1>1
<1> QED
  BY <1>5, <1>6, <1>7

\* What a recursive function that sums the costs is.
IsTotal(total, costs, n) ==
  total = [i \in 0..n |-> IF i = 0 THEN 0 ELSE total[i - 1] + costs[i]]

LEMMA TotalIsSum ==
  ASSUME NEW n \in Nat, NEW costs \in [1..n -> Nat], NEW g \in [0..n -> Nat], AddsUp(g, costs, n),
         NEW total, IsTotal(total, costs, n)
  PROVE  total[n] = g[n]
<1>0. \A i \in 0..n : total[i] = IF i = 0 THEN 0 ELSE total[i - 1] + costs[i]
  BY Zenon DEF IsTotal
<1>1. total[0] = g[0]
  <2>1. 0 \in 0..n
    OBVIOUS
  <2> QED
    BY <1>0, <2>1 DEF AddsUp
<1>2. \A i \in (0 + 1)..n : total[i - 1] = g[i - 1] => total[i] = g[i]
  <2> TAKE i \in (0 + 1)..n
  <2>1. i \in 1..n /\ i \in 0..n /\ i # 0
    OBVIOUS
  <2>2. total[i] = total[i - 1] + costs[i]
    BY <1>0, <2>1, Zenon
  <2>3. g[i] = g[i - 1] + costs[i]
    BY <2>1 DEF AddsUp
  <2> QED
    BY <2>2, <2>3, Zenon
<1>3. GoOnAgreeing(total, g, 0, n)
  BY <1>1, <1>2 DEF GoOnAgreeing
<1>4. 0 \in Nat /\ n \in 0..n
  OBVIOUS
<1>5. \A i \in 0..n : total[i] = g[i]
  BY <1>3, <1>4, FoldIsUnique
<1> QED
  BY <1>4, <1>5

\* What each clause adds to a text, and each record to a context.
ClauseCosts(text) == [i \in 1..Len(text) |-> text[i].chars + SeparatorChars[text[i].sep]]
RecordCosts(records) == [i \in 1..Len(records) |-> 2 + BlockChars(records[i])]

LEMMA SeparatorIsCounted ==
  /\ \A sep \in Separators : SeparatorChars[sep] \in Nat
  /\ SeparatorChars["end"] = 0
  BY DEF Separators, SeparatorChars

LEMMA TextCharsAre ==
  ASSUME NEW text, IsText(text)
  PROVE  /\ ClauseCosts(text) \in [1..Len(text) -> Nat] /\ TextChars(text) \in Nat
         /\ \E g \in [0..Len(text) -> Nat] :
              AddsUp(g, ClauseCosts(text), Len(text)) /\ TextChars(text) = g[Len(text)]
<1> DEFINE n == Len(text)
           costs == ClauseCosts(text)
           Eqn(h) == h = [i \in 0..n |-> IF i = 0 THEN 0
                            ELSE h[i - 1] + (text[i].chars + SeparatorChars[text[i].sep])]
           total == CHOOSE h : Eqn(h)
<1>1. n \in Nat /\ \A i \in 1..n : text[i].chars \in Nat /\ text[i].sep \in Separators
  BY TextIsList DEF IsText
<1>2. TextChars(text) = total[n]
  BY DEF TextChars, SumOver
<1>3. /\ costs \in [1..n -> Nat]
      /\ \A i \in 1..n : costs[i] = text[i].chars + SeparatorChars[text[i].sep]
  <2>1. ASSUME NEW i \in 1..n
        PROVE  text[i].chars + SeparatorChars[text[i].sep] \in Nat
    <3>1. text[i].chars \in Nat /\ SeparatorChars[text[i].sep] \in Nat
      BY <1>1, SeparatorIsCounted
    <3> QED
      BY <3>1
  <2> QED
    BY <2>1 DEF ClauseCosts
<1> HIDE DEF costs, n
<1>4. PICK g \in [0..n -> Nat] : AddsUp(g, costs, n)
  BY <1>1, <1>3, SumIsThere
<1>5. Eqn(g)
  <2>1. \A i \in 0..n : g[i] = IF i = 0 THEN 0
                                 ELSE g[i - 1] + (text[i].chars + SeparatorChars[text[i].sep])
    <3> TAKE i \in 0..n
    <3>1. CASE i = 0
      BY <1>4, <3>1 DEF AddsUp
    <3>2. CASE i # 0
      <4>1. i \in 1..n
        BY <1>1, <3>2
      <4> QED
        BY <1>3, <1>4, <3>2, <4>1, Zenon DEF AddsUp
    <3> QED
      BY <3>1, <3>2
  <2> QED
    BY <2>1, Zenon
<1>6. Eqn(total)
  <2> HIDE DEF Eqn
  <2> QED
    BY <1>5
<1> HIDE DEF total
<1>7. IsTotal(total, costs, n)
  <2>1. \A i \in 0..n : (IF i = 0 THEN 0
                           ELSE total[i - 1] + (text[i].chars + SeparatorChars[text[i].sep]))
                          = (IF i = 0 THEN 0 ELSE total[i - 1] + costs[i])
    <3> TAKE i \in 0..n
    <3>1. i # 0 => i \in 1..n
      BY <1>1
    <3> QED
      BY <1>3, <3>1, Zenon
  <2> QED
    BY <1>6, <2>1, Zenon DEF IsTotal
<1>8. total[n] = g[n]
  <2> HIDE DEF Eqn
  <2> QED
    BY <1>1, <1>3, <1>4, <1>7, TotalIsSum
<1>9. g[n] \in Nat
  BY <1>1, <1>4
<1> QED
  BY <1>2, <1>3, <1>4, <1>8, <1>9 DEF n, costs

\* Records whose characters can be counted.
AreCounted(records) ==
  /\ Len(records) \in Nat
  /\ \A i \in 1..Len(records) : records[i].frame_chars \in Nat /\ IsText(records[i].excerpt)

LEMMA ContextCharsAre ==
  ASSUME NEW records, AreCounted(records)
  PROVE  /\ RecordCosts(records) \in [1..Len(records) -> Nat]
         /\ \E g \in [0..Len(records) -> Nat] :
              /\ AddsUp(g, RecordCosts(records), Len(records))
              /\ ContextChars(records)
                   = IF records = <<>> THEN 0 ELSE HeaderChars + g[Len(records)]
<1> DEFINE n == Len(records)
           costs == RecordCosts(records)
           Eqn(h) == h = [i \in 0..n |-> IF i = 0 THEN 0
                            ELSE h[i - 1] + (2 + BlockChars(records[i]))]
           total == CHOOSE h : Eqn(h)
<1>1. n \in Nat
  BY DEF AreCounted
<1>2. ContextChars(records) = IF records = <<>> THEN 0 ELSE HeaderChars + total[n]
  BY DEF ContextChars, SumOver
<1>3. costs \in [1..n -> Nat] /\ \A i \in 1..n : costs[i] = 2 + BlockChars(records[i])
  <2>1. ASSUME NEW i \in 1..n
        PROVE  2 + BlockChars(records[i]) \in Nat
    <3>1. records[i].frame_chars \in Nat /\ IsText(records[i].excerpt)
      BY DEF AreCounted
    <3>2. TextChars(records[i].excerpt) \in Nat
      BY <3>1, TextCharsAre
    <3>3. BlockChars(records[i]) \in Nat
      BY <3>1, <3>2 DEF BlockChars
    <3> QED
      BY <3>3
  <2> QED
    BY <2>1 DEF RecordCosts
<1> HIDE DEF costs, n
<1>4. PICK g \in [0..n -> Nat] : AddsUp(g, costs, n)
  BY <1>1, <1>3, SumIsThere
<1>5. Eqn(g)
  <2>1. \A i \in 0..n : g[i] = IF i = 0 THEN 0 ELSE g[i - 1] + (2 + BlockChars(records[i]))
    <3> TAKE i \in 0..n
    <3>1. CASE i = 0
      BY <1>4, <3>1 DEF AddsUp
    <3>2. CASE i # 0
      <4>1. i \in 1..n
        BY <1>1, <3>2
      <4> QED
        BY <1>3, <1>4, <3>2, <4>1, Zenon DEF AddsUp
    <3> QED
      BY <3>1, <3>2
  <2> QED
    BY <2>1, Zenon
<1>6. Eqn(total)
  <2> HIDE DEF Eqn
  <2> QED
    BY <1>5
<1> HIDE DEF total
<1>7. IsTotal(total, costs, n)
  <2>1. \A i \in 0..n : (IF i = 0 THEN 0 ELSE total[i - 1] + (2 + BlockChars(records[i])))
                          = (IF i = 0 THEN 0 ELSE total[i - 1] + costs[i])
    <3> TAKE i \in 0..n
    <3>1. i # 0 => i \in 1..n
      BY <1>1
    <3> QED
      BY <1>3, <3>1, Zenon
  <2> QED
    BY <1>6, <2>1, Zenon DEF IsTotal
<1>8. total[n] = g[n]
  <2> HIDE DEF Eqn
  <2> QED
    BY <1>1, <1>3, <1>4, <1>7, TotalIsSum
<1>9. ContextChars(records) = IF records = <<>> THEN 0 ELSE HeaderChars + g[n]
  BY <1>2, <1>8
<1> QED
  BY <1>3, <1>4, <1>9, Zenon DEF n, costs

\* An extract is no longer than its text.
LEMMA ExtractIsNoLonger ==
  ASSUME NEW text, IsText(text), NEW e, IsText(e), NEW h, IsPlaced(e, text, h)
  PROVE  TextChars(e) <= TextChars(text)
<1> DEFINE m == Len(e)
           n == Len(text)
           a == ClauseCosts(e)
           b == ClauseCosts(text)
<1>1. m \in Nat /\ n \in Nat
  BY TextIsList
<1>2. h \in [1..m -> 1..n] /\ Increases(h, m)
  BY DEF IsPlaced
<1>3. ASSUME NEW k \in 1..m
      PROVE  a[k] <= b[h[k]]
  <2> DEFINE x == text[h[k]]
  <2>1. h[k] \in 1..n
    BY <1>2
  <2>2. x = [f \in ClauseFields |-> x[f]] /\ x.chars \in Nat /\ x.sep \in Separators
    BY <2>1, TextIsList DEF IsText
  <2>3. e[k] = IF k = m THEN Followed(x, "end") ELSE x
    BY DEF IsPlaced
  <2>4. a[k] = e[k].chars + SeparatorChars[e[k].sep]
    BY DEF ClauseCosts
  <2>5. b[h[k]] = x.chars + SeparatorChars[x.sep]
    BY <2>1 DEF ClauseCosts
  <2>6. e[k].chars = x.chars /\ (e[k].sep = "end" \/ e[k].sep = x.sep)
    <3> HIDE DEF x
    <3>1. [x EXCEPT !.sep = "end"].chars = x.chars /\ [x EXCEPT !.sep = "end"].sep = "end"
      BY <2>2 DEF ClauseFields
    <3> QED
      BY <2>3, <3>1 DEF Followed
  <2>7. SeparatorChars[e[k].sep] <= SeparatorChars[x.sep] /\ SeparatorChars[e[k].sep] \in Nat
        /\ SeparatorChars[x.sep] \in Nat
    <3> DEFINE p == SeparatorChars[x.sep]
               q == SeparatorChars[e[k].sep]
    <3>1. p \in Nat /\ (q = 0 \/ q = p)
      BY <2>2, <2>6, SeparatorIsCounted
    <3> HIDE DEF p, q
    <3>2. q <= p /\ q \in Nat /\ p \in Nat
      BY <3>1
    <3> QED
      BY <3>2 DEF p, q
  <2> HIDE DEF x, a, b, m, n
  <2> DEFINE p == SeparatorChars[x.sep]
             q == SeparatorChars[e[k].sep]
             y == x.chars
  <2>8. a[k] = y + q /\ b[h[k]] = y + p /\ q <= p /\ q \in Nat /\ p \in Nat /\ y \in Nat
    BY <2>2, <2>4, <2>5, <2>6, <2>7
  <2> HIDE DEF p, q, y
  <2> QED
    BY <2>8
<1>4. PICK f \in [0..m -> Nat] : AddsUp(f, a, m) /\ TextChars(e) = f[m]
  BY TextCharsAre
<1>5. PICK g \in [0..n -> Nat] : AddsUp(g, b, n) /\ TextChars(text) = g[n]
  BY TextCharsAre
<1>6. a \in [1..m -> Nat] /\ b \in [1..n -> Nat]
  BY TextCharsAre
<1> HIDE DEF a, b, m, n
<1>7. f[m] <= g[n]
  BY <1>1, <1>2, <1>3, <1>4, <1>5, <1>6, SumOfPart
<1> QED
  BY <1>4, <1>5, <1>7

\* The records of part stand at the places h of records, framed as those and no longer.
AreShortened(part, records, h) ==
  /\ h \in [1..Len(part) -> 1..Len(records)] /\ Increases(h, Len(part))
  /\ \A k \in 1..Len(part) :
       /\ part[k].frame_chars = records[h[k]].frame_chars
       /\ TextChars(part[k].excerpt) <= TextChars(records[h[k]].excerpt)

LEMMA ShortenedIsNoLonger ==
  ASSUME NEW part, AreCounted(part), NEW records, AreCounted(records), records # <<>>,
         NEW h, AreShortened(part, records, h)
  PROVE  ContextChars(part) <= ContextChars(records)
<1> DEFINE m == Len(part)
           n == Len(records)
           a == RecordCosts(part)
           b == RecordCosts(records)
<1>1. m \in Nat /\ n \in Nat
  BY DEF AreCounted
<1>2. h \in [1..m -> 1..n] /\ Increases(h, m)
  BY DEF AreShortened
<1>3. ASSUME NEW k \in 1..m
      PROVE  a[k] <= b[h[k]]
  <2>1. h[k] \in 1..n
    BY <1>2
  <2> DEFINE x == part[k].frame_chars
             p == TextChars(part[k].excerpt)
             q == TextChars(records[h[k]].excerpt)
  <2>2. a[k] = 2 + (x + p)
    BY DEF RecordCosts, BlockChars
  <2>3. b[h[k]] = 2 + (x + q)
    BY <2>1 DEF RecordCosts, BlockChars, AreShortened
  <2>4. x \in Nat /\ p \in Nat
    BY TextCharsAre DEF AreCounted
  <2>5. q \in Nat
    <3>1. IsText(records[h[k]].excerpt)
      BY <2>1 DEF AreCounted
    <3> QED
      BY <3>1, TextCharsAre
  <2>6. p <= q
    BY DEF AreShortened
  <2> HIDE DEF a, b, x, p, q
  <2> QED
    BY <2>2, <2>3, <2>4, <2>5, <2>6
<1>4. PICK f \in [0..m -> Nat] :
        AddsUp(f, a, m) /\ ContextChars(part) = IF part = <<>> THEN 0 ELSE HeaderChars + f[m]
  BY ContextCharsAre
<1>5. PICK g \in [0..n -> Nat] :
        AddsUp(g, b, n) /\ ContextChars(records) = IF records = <<>> THEN 0 ELSE HeaderChars + g[n]
  BY ContextCharsAre
<1>6. a \in [1..m -> Nat] /\ b \in [1..n -> Nat]
  BY ContextCharsAre
<1> HIDE DEF a, b, m, n
<1>7. f[m] <= g[n]
  BY <1>1, <1>2, <1>3, <1>4, <1>5, <1>6, SumOfPart
<1>8. f[m] \in Nat /\ g[n] \in Nat
  BY <1>1
<1> DEFINE x == f[m]
           y == g[n]
<1>9. x <= y /\ x \in Nat /\ y \in Nat
  BY <1>7, <1>8
<1>10. ContextChars(records) = HeaderChars + y
       /\ (ContextChars(part) = 0 \/ ContextChars(part) = HeaderChars + x)
  BY <1>4, <1>5
<1> HIDE DEF x, y
<1> QED
  BY <1>9, <1>10 DEF HeaderChars

\* Places that increase are those of their set in order.
LEMMA PlacesInOrder ==
  ASSUME NEW m \in Nat, NEW n \in Nat, NEW h \in [1..m -> 1..n], Increases(h, m)
  PROVE  LET S == {h[k] : k \in 1..m}
         IN  /\ S \in SUBSET (1..n) /\ Cardinality(S) = m
             /\ \A k \in 1..m : InOrder(S)[k] = h[k]
<1> DEFINE S == {h[k] : k \in 1..m}
<1>1. S \in SUBSET (1..n)
  OBVIOUS
<1>2. ASSUME NEW j \in 1..m, NEW k \in 1..m
      PROVE  (h[j] <= h[k] <=> j <= k) /\ (h[j] = h[k] => j = k)
  <2>1. h[j] \in 1..n /\ h[k] \in 1..n
    OBVIOUS
  <2>2. (j < k => h[j] < h[k]) /\ (k < j => h[k] < h[j])
    BY DEF Increases
  <2>3. j < k \/ k < j \/ j = k
    OBVIOUS
  <2> DEFINE x == h[j]
             y == h[k]
  <2>4. x \in 1..n /\ y \in 1..n /\ (j < k => x < y) /\ (k < j => y < x) /\ (j = k => x = y)
    BY <2>1, <2>2
  <2> HIDE DEF x, y
  <2>5. (x <= y <=> j <= k) /\ (x = y => j = k)
    BY <2>3, <2>4
  <2> QED
    BY <2>5 DEF x, y
<1>3. ASSUME NEW k \in 0..m
      PROVE  LET part == {h[j] : j \in 1..k} IN IsFiniteSet(part) /\ Cardinality(part) = k
  <2> DEFINE part == {h[j] : j \in 1..k}
             f == [j \in 1..k |-> h[j]]
  <2>1. IsFiniteSet(1..k) /\ Cardinality(1..k) = k
    <3>1. 1 \in Int /\ k \in Int /\ (1 > k <=> k = 0)
      OBVIOUS
    <3>2. Cardinality(1..k) = IF 1 > k THEN 0 ELSE k - 1 + 1
      BY <3>1, FS_Interval
    <3> QED
      BY <3>1, <3>2, FS_Interval
  <2>2. f \in [1..k -> part] /\ \A t \in part : \E j \in 1..k : f[j] = t
    OBVIOUS
  <2>3. \A i \in 1..k, j \in 1..k : f[i] = f[j] => i = j
    <3> TAKE i \in 1..k, j \in 1..k
    <3>1. i \in 1..m /\ j \in 1..m
      OBVIOUS
    <3> QED
      BY <1>2, <3>1
  <2> HIDE DEF f, part
  <2>4. f \in Surjection(1..k, part) /\ f \in Injection(1..k, part)
    BY <2>2, <2>3 DEF Surjection, Injection, IsInjective
  <2> QED
    BY <2>1, <2>4, FS_Surjection DEF part
<1>4. IsFiniteSet(S) /\ Cardinality(S) = m /\ S \subseteq Nat
  <2>1. m \in 0..m
    OBVIOUS
  <2>2. IsFiniteSet(S) /\ Cardinality(S) = m
    BY <1>3, <2>1
  <2> HIDE DEF S
  <2>3. S \subseteq Nat
    BY <1>1, PartOfRange
  <2> QED
    BY <2>2, <2>3
<1>5. ASSUME NEW k \in 1..m
      PROVE  InOrder(S)[k] = h[k]
  <2> DEFINE x == InOrder(S)[k]
  <2>1. x \in S /\ Cardinality(UpTo(S, x)) = k
    <3> HIDE DEF S
    <3> QED
      BY <1>4, InOrderIsThere
  <2>2. PICK j \in 1..m : x = h[j]
    BY <2>1
  <2>3. UpTo(S, h[j]) = {h[i] : i \in 1..j}
    <3>1. \A i \in 1..m : h[i] <= h[j] <=> i \in 1..j
      BY <1>2
    <3>2. \A i \in 1..j : i \in 1..m
      OBVIOUS
    <3> QED
      BY <3>1, <3>2 DEF UpTo
  <2>4. j \in 0..m
    OBVIOUS
  <2>5. Cardinality(UpTo(S, h[j])) = j
    BY <1>3, <2>3, <2>4
  <2> HIDE DEF x
  <2>6. j = k
    BY <2>1, <2>2, <2>5
  <2> QED
    BY <2>2, <2>6 DEF x
<1> QED
  BY <1>1, <1>4, <1>5

\* What is left of a text is an extract.
LEMMA PlacedIsExtract ==
  ASSUME NEW text, IsText(text), NEW e, IsText(e), NEW h, IsPlaced(e, text, h)
  PROVE  IsExtract(e, text)
<1> DEFINE m == Len(e)
           n == Len(text)
           S == {h[k] : k \in 1..m}
           order == InOrder(S)
<1>1. m \in Nat /\ n \in Nat /\ DOMAIN text = 1..n
  BY TextIsList
<1>2. h \in [1..m -> 1..n] /\ Increases(h, m)
  BY DEF IsPlaced
<1>3. ASSUME NEW k \in 1..m
      PROVE  e[k].words = text[h[k]].words
  <2> DEFINE x == text[h[k]]
  <2>1. h[k] \in 1..n
    BY <1>2
  <2>2. x = [f \in ClauseFields |-> x[f]]
    BY <2>1, TextIsList
  <2>3. e[k] = IF k = m THEN Followed(x, "end") ELSE x
    BY DEF IsPlaced
  <2> HIDE DEF x, m
  <2>4. [x EXCEPT !.sep = "end"].words = x.words
    BY <2>2 DEF ClauseFields
  <2> QED
    BY <2>3, <2>4 DEF Followed, x
<1>4. S \in SUBSET (1..n) /\ Cardinality(S) = m /\ \A k \in 1..m : order[k] = h[k]
  <2> HIDE DEF m, n
  <2> QED
    BY <1>1, <1>2, PlacesInOrder
<1>5. Len(order) = m /\ DOMAIN order = 1..m
  <2> HIDE DEF S
  <2>1. S \subseteq Nat /\ IsFiniteSet(S)
    BY <1>1, <1>4, PartOfRange
  <2> QED
    BY <1>4, <2>1, InOrderIsThere
<1> HIDE DEF S, order, m, n
<1>6. \A k \in DOMAIN order : e[k].words = text[order[k]].words
  BY <1>3, <1>4, <1>5
<1> QED
  BY <1>1, <1>4, <1>5, <1>6 DEF IsExtract, order, m, n

(***************************************************************************)
(* Packages                                                                 *)
(***************************************************************************)

RecordFields ==
  {"evidence_id", "citation_id", "source_kind", "source_id", "document_id", "chunk_id", "url",
   "frame_chars", "frame_mentions", "excerpt"}
PackageFields ==
  {"effective_policy", "evidence", "context_text", "context_chars", "estimated_tokens",
   "retrieval_calls", "web_calls", "stop_reason", "planner_decision", "budget_used",
   "compression_report"}

\* A text has none of these words.
Avoids(text, P) == \A i \in DOMAIN text : text[i].words \notin P

\* Evidence of the web does not say what is private.
RecordIsSound(r, P) ==
  /\ DOMAIN r = RecordFields
  /\ r.citation_id \in Nat /\ r.frame_chars \in Nat /\ IsText(r.excerpt)
  /\ Avoids(r.excerpt, IF r.source_kind = "local_document" THEN {} ELSE P)

\* Records are numbered in their order.
AreNumbered(records) ==
  \A j \in DOMAIN records, k \in DOMAIN records :
    j < k => records[j].citation_id < records[k].citation_id

\* What a policy limits.
KeepLimits(records, policy) ==
  /\ Len(records) <= policy.max_evidence_items
  /\ FitsPolicy(records, policy)

PackageIsSound(p, P) ==
  /\ DOMAIN p = PackageFields /\ ConsistentPackage(p)
  /\ p.evidence \in Seq(ToSet(p.evidence))
  /\ p.context_text = RenderContextText(p.evidence)
  /\ AreNumbered(p.evidence) /\ KeepLimits(p.evidence, p.effective_policy)
  /\ \A r \in ToSet(p.evidence) : RecordIsSound(r, P)

\* What compression makes of a record.
Extracted(r, policy) == [r EXCEPT !.excerpt = ExtractedExcerpt(r.excerpt, policy)]

\* What extraction leaves of a text is an extract, no longer and without other words.
LEMMA ExtractIsSound ==
  ASSUME NEW text, IsText(text), NEW policy, NEW P, Avoids(text, P)
  PROVE  LET e == ExtractedExcerpt(text, policy)
         IN  /\ IsText(e) /\ IsExtract(e, text) /\ TextChars(e) <= TextChars(text)
             /\ Avoids(e, P)
<1> DEFINE e == ExtractedExcerpt(text, policy)
<1>1. IsExtractOf(e, text)
  BY ExtractedIsExtract
<1> HIDE DEF e
<1>2. IsText(e) /\ \E h : IsPlaced(e, text, h)
  BY <1>1, ExtractIsText
<1>3. PICK h : IsPlaced(e, text, h)
  BY <1>2
<1>4. IsExtract(e, text) /\ TextChars(e) <= TextChars(text)
  BY <1>2, <1>3, PlacedIsExtract, ExtractIsNoLonger
<1>5. ASSUME NEW k \in DOMAIN e
      PROVE  e[k].words \notin P
  <2> DEFINE x == text[h[k]]
  <2>1. k \in 1..Len(e)
    BY <1>2, TextIsList
  <2>2. h[k] \in 1..Len(text) /\ DOMAIN text = 1..Len(text)
    BY <1>3, <2>1, TextIsList DEF IsPlaced
  <2>3. x = [f \in ClauseFields |-> x[f]] /\ x.words \notin P
    BY <2>2, TextIsList DEF Avoids
  <2>4. e[k] = IF k = Len(e) THEN Followed(x, "end") ELSE x
    BY <1>3, <2>1 DEF IsPlaced
  <2> HIDE DEF x
  <2>5. [x EXCEPT !.sep = "end"].words = x.words
    BY <2>3 DEF ClauseFields
  <2> QED
    BY <2>3, <2>4, <2>5 DEF Followed
<1> QED
  BY <1>2, <1>4, <1>5 DEF Avoids, e

\* Extraction leaves a record what it is.
LEMMA ExtractedRecordIsSound ==
  ASSUME NEW r, NEW P, RecordIsSound(r, P), NEW policy
  PROVE  LET x == Extracted(r, policy)
         IN  /\ RecordIsSound(x, P)
             /\ x.evidence_id = r.evidence_id /\ x.citation_id = r.citation_id
             /\ x.source_kind = r.source_kind /\ x.frame_chars = r.frame_chars
             /\ IsExtract(x.excerpt, r.excerpt)
             /\ TextChars(x.excerpt) <= TextChars(r.excerpt)
<1> DEFINE e == ExtractedExcerpt(r.excerpt, policy)
           Q == IF r.source_kind = "local_document" THEN {} ELSE P
           x == Extracted(r, policy)
<1>1. /\ DOMAIN r = RecordFields /\ Avoids(r.excerpt, Q) /\ IsText(r.excerpt)
      /\ r.citation_id \in Nat /\ r.frame_chars \in Nat
  BY DEF RecordIsSound
<1> HIDE DEF Q
<1>2. /\ IsText(e) /\ IsExtract(e, r.excerpt) /\ TextChars(e) <= TextChars(r.excerpt)
      /\ Avoids(e, Q)
  BY <1>1, ExtractIsSound
<1>3. x = [r EXCEPT !.excerpt = e]
  BY DEF Extracted
<1> HIDE DEF e, x
<1>4. /\ DOMAIN x = RecordFields /\ x.excerpt = e /\ x.source_kind = r.source_kind
      /\ x.evidence_id = r.evidence_id /\ x.citation_id = r.citation_id
      /\ x.frame_chars = r.frame_chars
  BY <1>1, <1>3 DEF RecordFields
<1>5. RecordIsSound(x, P)
  BY <1>1, <1>2, <1>4 DEF RecordIsSound, Q
<1> QED
  BY <1>2, <1>4, <1>5 DEF x

\* Some record stays, and no more than there were.
LEMMA KeptCountIsThere ==
  ASSUME NEW records, NEW n \in Nat, n # 0, DOMAIN records = 1..n, Len(records) = n, NEW policy
  PROVE  /\ KeptCount(records, policy) \in 1..n
         /\ ~policy.allow_evidence_drop => KeptCount(records, policy) = n
<1> DEFINE fitting == {m \in DOMAIN records :
                         WithinCeilings(ContextChars(SubSeq(records, 1, m)), policy)}
           S == {1} \cup fitting
<1>1. KeptCount(records, policy) = IF ~policy.allow_evidence_drop THEN n ELSE Max(S)
  BY DEF KeptCount
<1>2. fitting \subseteq 1..n
  OBVIOUS
<1> HIDE DEF fitting
<1>3. S \in SUBSET (1..n) /\ S # {}
  BY <1>2
<1> HIDE DEF S
<1>4. S \subseteq Nat /\ IsFiniteSet(S)
  BY <1>3, PartOfRange
<1>5. Max(S) \in S
  <2>1. \E i \in S : \A j \in S : j <= i
    BY <1>3, <1>4, GreatestIsThere
  <2>2. \E i \in S : \A j \in S : i >= j
    <3>1. PICK i \in S : \A j \in S : j <= i
      BY <2>1
    <3>2. ASSUME NEW j \in S PROVE i >= j
      <4>1. i \in Nat /\ j \in Nat /\ j <= i
        BY <1>4, <3>1
      <4> QED
        BY <4>1
    <3> QED
      BY <3>2
  <2> QED
    BY <2>2 DEF Max
<1>6. n \in 1..n
  OBVIOUS
<1>7. Max(S) \in 1..n
  <2> DEFINE most == Max(S)
  <2>1. most \in S
    BY <1>5
  <2> HIDE DEF most
  <2>2. most \in 1..n
    BY <1>3, <2>1
  <2> QED
    BY <2>2 DEF most
<1> QED
  BY <1>1, <1>6, <1>7

\* The places of the records that are no copies.
Distinct(evidence, policy) ==
  InOrder({i \in DOMAIN evidence : ~IsDroppedCopy(evidence, i, policy)})

\* What is left are the first of the distinct records, each extracted.
IsReduction(q, p, policy) ==
  LET distinct == Distinct(p.evidence, policy)
  IN  /\ DOMAIN q = PackageFields
      /\ q.evidence \in Seq(ToSet(q.evidence))
      /\ DOMAIN distinct = 1..Len(distinct) /\ Len(distinct) \in Nat
      /\ Len(distinct) <= Len(p.evidence) /\ Increases(distinct, Len(distinct))
      /\ \A k \in 1..Len(distinct) : distinct[k] \in DOMAIN p.evidence
      /\ Len(q.evidence) \in 1..Len(distinct)
      /\ ~policy.allow_evidence_drop => Len(q.evidence) = Len(distinct)
      /\ \A k \in DOMAIN q.evidence : q.evidence[k] = Extracted(p.evidence[distinct[k]], policy)
      /\ q.context_text = RenderContextText(q.evidence)
      /\ q.context_chars = ContextChars(q.evidence)
      /\ q.compression_report.outcome
           = IF WithinCeilings(q.context_chars, policy) THEN "reduced" ELSE "target_unachievable"
      /\ \A field \in PackageFields \ {"evidence", "context_text", "context_chars",
                                       "estimated_tokens", "compression_report"} :
           q[field] = p[field]

LEMMA ReducedEvidence ==
  ASSUME NEW p, DOMAIN p = PackageFields, p.evidence \in Seq(ToSet(p.evidence)),
         p.evidence # <<>>, NEW policy
  PROVE  IsReduction(Reduced(p, policy), p, policy)
<1> DEFINE evidence == p.evidence
           S == {i \in DOMAIN evidence : ~IsDroppedCopy(evidence, i, policy)}
           distinct == InOrder(S)
           extracted == [k \in DOMAIN distinct |->
                           [evidence[distinct[k]] EXCEPT
                              !.excerpt = ExtractedExcerpt(evidence[distinct[k]].excerpt, policy)]]
           count == KeptCount(extracted, policy)
           kept == SubSeq(extracted, 1, count)
           chars == ContextChars(kept)
           q == Reduced(p, policy)
           outcome == IF WithinCeilings(chars, policy) THEN "reduced" ELSE "target_unachievable"
<1>1. \E trace : q = [p EXCEPT
         !.evidence = kept, !.context_text = RenderContextText(kept),
         !.context_chars = chars, !.estimated_tokens = EstimateTokens(chars),
         !.compression_report = Report(outcome, trace)]
  BY Zenon DEF Reduced
<1>2. DOMAIN evidence = 1..Len(evidence) /\ Len(evidence) \in Nat /\ Len(evidence) # 0
  BY OwnElements, EmptySeq
<1>3. S \in SUBSET (1..Len(evidence)) /\ 1 \in S
  <2>1. ~IsDroppedCopy(evidence, 1, policy)
    BY DEF IsDroppedCopy, DuplicateOf
  <2> QED
    BY <1>2, <2>1
<1> HIDE DEF S
<1>4. S \subseteq Nat /\ IsFiniteSet(S) /\ Cardinality(S) \in Nat
  BY <1>2, <1>3, PartOfRange
<1> DEFINE n == Cardinality(S)
<1>5. n # 0 /\ n <= Len(evidence)
  <2>1. n # 0
    BY <1>3, <1>4, FS_EmptySet
  <2>2. IsFiniteSet(1..Len(evidence)) /\ Cardinality(1..Len(evidence)) = Len(evidence)
    BY <1>2, FS_Interval
  <2>3. n <= Len(evidence)
    BY <1>3, <2>2, FS_Subset
  <2> QED
    BY <2>1, <2>3
<1>6. DOMAIN distinct = 1..n /\ \A k \in 1..n : distinct[k] \in DOMAIN evidence
  BY <1>2, <1>3, <1>4, InOrderIsThere
<1> HIDE DEF distinct, n
<1>7. DOMAIN extracted = 1..n /\ \A k \in 1..n : extracted[k] = Extracted(evidence[distinct[k]], policy)
  BY <1>6 DEF Extracted
<1>8. extracted \in [1..n -> ToSet(extracted)]
  BY <1>6 DEF ToSet
<1> HIDE DEF extracted
<1>9. extracted \in Seq(ToSet(extracted)) /\ Len(extracted) = n
  BY <1>4, <1>8, ListIsSequence DEF n
<1>10. count \in 1..n /\ (~policy.allow_evidence_drop => count = n)
  BY <1>4, <1>5, <1>7, <1>9, KeptCountIsThere DEF n
<1> HIDE DEF count
<1>11. /\ kept \in Seq(ToSet(extracted)) /\ Len(kept) = count
       /\ \A k \in 1..count : kept[k] = extracted[k]
  <2>1. n \in Nat /\ count \in Nat /\ 1 <= count /\ count <= n
    BY <1>4, <1>10 DEF n
  <2>2. ASSUME NEW k \in 1..count
        PROVE  extracted[k] \in ToSet(extracted)
    BY <1>7, <2>1 DEF ToSet
  <2> DEFINE T == ToSet(extracted)
  <2>3. /\ SubSeq(extracted, 1, count) \in Seq(T)
        /\ Len(SubSeq(extracted, 1, count)) = count - 1 + 1
        /\ \A k \in 1..(count - 1 + 1) : SubSeq(extracted, 1, count)[k] = extracted[1 + k - 1]
    <3>1. \A k \in 1..count : extracted[k] \in T
      BY <2>2
    <3> HIDE DEF T
    <3> QED
      BY <2>1, <3>1, SubSeqProperties
  <2>4. ASSUME NEW k \in 1..count
        PROVE  kept[k] = extracted[k]
    <3>1. k \in 1..(count - 1 + 1) /\ 1 + k - 1 = k
      BY <2>1
    <3> QED
      BY <2>3, <3>1
  <2>5. count - 1 + 1 = count
    BY <2>1
  <2> QED
    BY <2>3, <2>4, <2>5
<1> HIDE DEF kept
<1>12. kept \in Seq(ToSet(kept)) /\ DOMAIN kept = 1..count
  BY <1>11, OwnElements
<1>13. PICK trace : q = [p EXCEPT
         !.evidence = kept, !.context_text = RenderContextText(kept),
         !.context_chars = chars, !.estimated_tokens = EstimateTokens(chars),
         !.compression_report = Report(outcome, trace)]
  BY <1>1, Zenon
<1> DEFINE report == Report(outcome, trace)
<1>14. report.outcome = outcome
  BY DEF Report
<1> HIDE DEF q, report
<1>15. /\ DOMAIN q = PackageFields /\ q.evidence = kept
       /\ q.context_text = RenderContextText(kept) /\ q.context_chars = ContextChars(kept)
       /\ q.compression_report = report
  BY <1>13 DEF PackageFields, report
<1>16. \A field \in PackageFields \ {"evidence", "context_text", "context_chars",
                                     "estimated_tokens", "compression_report"} :
         q[field] = p[field]
  BY <1>13 DEF PackageFields
<1>17. distinct = Distinct(evidence, policy)
  BY DEF distinct, S, Distinct
<1>18. Len(distinct) = n /\ n \in Nat /\ Increases(distinct, n)
  <2>1. \A j \in 1..n, k \in 1..n : j < k => InOrder(S)[j] < InOrder(S)[k]
    BY <1>4, InOrderIncreases DEF n
  <2>2. Len(InOrder(S)) = n /\ n \in Nat
    BY <1>4, InOrderIsThere DEF n
  <2> QED
    BY <2>1, <2>2 DEF Increases, distinct
<1>19. \A k \in 1..count : kept[k] = Extracted(evidence[distinct[k]], policy)
  <2> TAKE k \in 1..count
  <2>1. k \in 1..n
    BY <1>10, <1>18
  <2> QED
    BY <1>7, <1>11, <2>1
<1>20. outcome = IF WithinCeilings(q.context_chars, policy) THEN "reduced" ELSE "target_unachievable"
  BY <1>15
<1> HIDE DEF outcome
<1>21. \A field \in PackageFields \ {"evidence", "context_text", "context_chars",
                                     "estimated_tokens", "compression_report"} :
         q[field] = p[field]
  BY <1>16
<1>22. IsReduction(q, p, policy)
  BY <1>5, <1>6, <1>10, <1>11, <1>12, <1>14, <1>15, <1>17, <1>18, <1>19, <1>20, <1>21, Zenon
     DEF IsReduction
<1> QED
  BY <1>22 DEF q

\* A reduction is no longer, and numbered as what it was made of.
LEMMA ReductionFits ==
  ASSUME NEW p, NEW P, PackageIsSound(p, P), p.evidence # <<>>, NEW policy,
         NEW q, IsReduction(q, p, policy)
  PROVE  /\ \A r \in ToSet(q.evidence) : RecordIsSound(r, P)
         /\ AreNumbered(q.evidence)
         /\ Len(q.evidence) <= Len(p.evidence)
         /\ ContextChars(q.evidence) <= ContextChars(p.evidence)
<1> DEFINE distinct == Distinct(p.evidence, policy)
           part == q.evidence
           records == p.evidence
           m == Len(part)
           h == [k \in 1..m |-> distinct[k]]
<1>1. /\ records \in Seq(ToSet(records)) /\ AreNumbered(records)
      /\ \A r \in ToSet(records) : RecordIsSound(r, P)
  BY DEF PackageIsSound
<1>2. /\ part \in Seq(ToSet(part)) /\ Len(distinct) \in Nat /\ Len(distinct) <= Len(records)
      /\ Increases(distinct, Len(distinct)) /\ m \in 1..Len(distinct)
      /\ \A k \in 1..Len(distinct) : distinct[k] \in DOMAIN records
      /\ \A k \in DOMAIN part : part[k] = Extracted(records[distinct[k]], policy)
  BY DEF IsReduction
<1> HIDE DEF distinct
<1>3. /\ DOMAIN part = 1..m /\ m \in Nat
      /\ DOMAIN records = 1..Len(records) /\ Len(records) \in Nat
  BY <1>1, <1>2, OwnElements
<1>4. ASSUME NEW k \in 1..m
      PROVE  /\ distinct[k] \in 1..Len(records)
             /\ RecordIsSound(records[distinct[k]], P)
             /\ part[k] = Extracted(records[distinct[k]], policy)
  <2>1. k \in 1..Len(distinct)
    BY <1>2, <1>3
  <2> QED
    BY <1>1, <1>2, <1>3, <2>1 DEF ToSet
<1>5. ASSUME NEW k \in 1..m
      PROVE  /\ RecordIsSound(part[k], P)
             /\ part[k].citation_id = records[distinct[k]].citation_id
             /\ part[k].frame_chars = records[distinct[k]].frame_chars
             /\ TextChars(part[k].excerpt) <= TextChars(records[distinct[k]].excerpt)
  BY <1>4, ExtractedRecordIsSound
<1>6. ASSUME NEW j \in 1..m, NEW k \in 1..m, j < k
      PROVE  distinct[j] < distinct[k]
  <2>1. j \in 1..Len(distinct) /\ k \in 1..Len(distinct)
    BY <1>2, <1>3
  <2> QED
    BY <1>2, <1>6, <2>1 DEF Increases
<1>7. AreNumbered(part)
  <2>1. ASSUME NEW j \in 1..m, NEW k \in 1..m, j < k
        PROVE  part[j].citation_id < part[k].citation_id
    <3>1. distinct[j] < distinct[k]
      BY <1>6, <2>1
    <3>2. records[distinct[j]].citation_id < records[distinct[k]].citation_id
      BY <1>1, <1>3, <1>4, <3>1 DEF AreNumbered
    <3> QED
      BY <1>5, <3>2
  <2> QED
    BY <1>3, <2>1 DEF AreNumbered
<1>8. AreCounted(part) /\ AreCounted(records)
  <2>1. \A k \in 1..m : RecordIsSound(part[k], P)
    BY <1>5
  <2>2. \A k \in 1..Len(records) : RecordIsSound(records[k], P)
    BY <1>1, <1>3 DEF ToSet
  <2> QED
    BY <1>3, <2>1, <2>2 DEF AreCounted, RecordIsSound
<1>9. AreShortened(part, records, h)
  <2>1. h \in [1..m -> 1..Len(records)]
    BY <1>4
  <2>2. \A k \in 1..m : h[k] = distinct[k]
    OBVIOUS
  <2> HIDE DEF h
  <2>3. Increases(h, m)
    BY <1>6, <2>2 DEF Increases
  <2>4. \A k \in 1..m : /\ part[k].frame_chars = records[h[k]].frame_chars
                        /\ TextChars(part[k].excerpt) <= TextChars(records[h[k]].excerpt)
    BY <1>5, <2>2
  <2> QED
    BY <2>1, <2>3, <2>4 DEF AreShortened
<1> HIDE DEF h
<1>10. ContextChars(part) <= ContextChars(records)
  BY <1>8, <1>9, ShortenedIsNoLonger
<1>11. \A r \in ToSet(part) : RecordIsSound(r, P)
  BY <1>3, <1>5 DEF ToSet
<1>12. m <= Len(records)
  BY <1>2, <1>3
<1> QED
  BY <1>7, <1>10, <1>11, <1>12

LEMMA ContextCharsAreCounted ==
  ASSUME NEW records, AreCounted(records)
  PROVE  ContextChars(records) \in Nat
<1> DEFINE n == Len(records)
<1>1. PICK g \in [0..n -> Nat] :
        ContextChars(records) = IF records = <<>> THEN 0 ELSE HeaderChars + g[n]
  BY ContextCharsAre
<1>2. n \in Nat
  BY DEF AreCounted
<1> HIDE DEF n
<1>3. g[n] \in Nat
  BY <1>2
<1> QED
  BY <1>1, <1>3 DEF HeaderChars

LEMMA SoundRecordsAreCounted ==
  ASSUME NEW records, records \in Seq(ToSet(records)), NEW P,
         \A r \in ToSet(records) : RecordIsSound(r, P)
  PROVE  AreCounted(records)
<1>1. DOMAIN records = 1..Len(records) /\ Len(records) \in Nat
  BY OwnElements
<1> QED
  BY <1>1 DEF AreCounted, RecordIsSound, ToSet

\* What is shorter than what keeps the limits keeps them.
LEMMA ShorterKeepsLimits ==
  ASSUME NEW policy \in RetrievalPolicy, NEW records, NEW part, KeepLimits(records, policy),
         Len(part) \in Nat, Len(records) \in Nat, Len(part) <= Len(records),
         ContextChars(part) \in Nat, ContextChars(records) \in Nat,
         ContextChars(part) <= ContextChars(records)
  PROVE  KeepLimits(part, policy)
<1> DEFINE x == ContextChars(part)
           y == ContextChars(records)
           items == policy.max_evidence_items
           chars == policy.max_context_chars
           tokens == policy.max_estimated_tokens
<1>1. /\ items \in 1..6 /\ chars \in 100..MostChars /\ tokens \in 25..MostTokens
  BY DEF RetrievalPolicy
<1>2. items \in Nat /\ chars \in Nat /\ tokens \in Nat
  <2> HIDE DEF items, chars, tokens
  <2> QED
    BY <1>1 DEF MostChars, MostTokens
<1>3. /\ Len(records) <= items /\ y <= chars /\ EstimateTokens(y) <= tokens
  BY DEF KeepLimits, FitsPolicy
<1>4. x \in Nat /\ y \in Nat /\ x <= y
  OBVIOUS
<1> DEFINE l == Len(part)
           k == Len(records)
<1>5. l \in Nat /\ k \in Nat /\ l <= k /\ k <= items
  BY <1>3
<1> HIDE DEF x, y, items, chars, tokens, l, k
<1>6. l <= items /\ x <= chars /\ EstimateTokens(x) <= tokens
  <2>1. l <= items /\ x <= chars
    BY <1>2, <1>3, <1>4, <1>5
  <2>2. (x + 3) \div 4 <= (y + 3) \div 4 /\ (x + 3) \div 4 \in Int /\ (y + 3) \div 4 \in Int
    BY <1>4
  <2>3. (y + 3) \div 4 <= tokens
    BY <1>3 DEF EstimateTokens
  <2>4. (x + 3) \div 4 <= tokens
    BY <1>2, <2>2, <2>3
  <2> QED
    BY <2>1, <2>4 DEF EstimateTokens
<1> QED
  BY <1>6 DEF KeepLimits, FitsPolicy, x, items, chars, tokens, l

\* Compression, and what it leaves out, say nothing new.
LEMMA CompressedIsSound ==
  ASSUME NEW p, NEW P, PackageIsSound(p, P), NEW policy
  PROVE  PackageIsSound(CompressContextPackage(p, policy), P)
<1> DEFINE q == CompressContextPackage(p, policy)
<1>1. CASE p.evidence = <<>> \/ WithinCeilings(p.context_chars, policy)
  <2>1. q = Unreduced(p)
    BY <1>1 DEF CompressContextPackage
  <2>2. DOMAIN p = PackageFields
    BY DEF PackageIsSound
  <2>3. \E report : q = [p EXCEPT !.compression_report = report]
    BY <2>1 DEF Unreduced
  <2>4. /\ DOMAIN q = PackageFields
        /\ \A field \in PackageFields \ {"compression_report"} : q[field] = p[field]
    BY <2>2, <2>3
  <2> HIDE DEF q
  <2>5. /\ q.evidence = p.evidence /\ q.context_text = p.context_text
        /\ q.effective_policy = p.effective_policy /\ q.stop_reason = p.stop_reason
        /\ q.retrieval_calls = p.retrieval_calls /\ q.web_calls = p.web_calls
        /\ q.budget_used = p.budget_used /\ q.planner_decision = p.planner_decision
    BY <2>4 DEF PackageFields
  <2>6. PackageIsSound(q, P)
    BY <2>4, <2>5 DEF PackageIsSound, ConsistentPackage
  <2> QED
    BY <2>6 DEF q
<1>2. CASE ~(p.evidence = <<>> \/ WithinCeilings(p.context_chars, policy))
  <2>1. q = Reduced(p, policy)
    BY <1>2 DEF CompressContextPackage
  <2>2. /\ DOMAIN p = PackageFields /\ p.evidence \in Seq(ToSet(p.evidence))
        /\ p.evidence # <<>> /\ p.effective_policy \in RetrievalPolicy
        /\ KeepLimits(p.evidence, p.effective_policy) /\ ConsistentPackage(p)
        /\ \A r \in ToSet(p.evidence) : RecordIsSound(r, P)
    BY <1>2 DEF PackageIsSound, ConsistentPackage
  <2> HIDE DEF q
  <2>3. IsReduction(q, p, policy)
    BY <2>1, <2>2, ReducedEvidence
  <2>4. /\ \A r \in ToSet(q.evidence) : RecordIsSound(r, P)
        /\ AreNumbered(q.evidence)
        /\ Len(q.evidence) <= Len(p.evidence)
        /\ ContextChars(q.evidence) <= ContextChars(p.evidence)
    BY <2>2, <2>3, ReductionFits
  <2>5. /\ DOMAIN q = PackageFields
        /\ q.evidence \in Seq(ToSet(q.evidence)) /\ q.context_text = RenderContextText(q.evidence)
        /\ \A field \in PackageFields \ {"evidence", "context_text", "context_chars",
                                         "estimated_tokens", "compression_report"} :
             q[field] = p[field]
    BY <2>3 DEF IsReduction
  <2>6. /\ q.effective_policy = p.effective_policy /\ q.stop_reason = p.stop_reason
        /\ q.retrieval_calls = p.retrieval_calls /\ q.web_calls = p.web_calls
        /\ q.budget_used = p.budget_used /\ q.planner_decision = p.planner_decision
    BY <2>5 DEF PackageFields
  <2>7. KeepLimits(q.evidence, p.effective_policy)
    <3> DEFINE part == q.evidence
               records == p.evidence
    <3>1. AreCounted(part) /\ AreCounted(records)
      BY <2>2, <2>4, <2>5, SoundRecordsAreCounted
    <3>2. ContextChars(part) \in Nat /\ ContextChars(records) \in Nat
      BY <3>1, ContextCharsAreCounted
    <3>3. Len(part) \in Nat /\ Len(records) \in Nat
      BY <2>2, <2>5, OwnElements
    <3> HIDE DEF part, records
    <3> QED
      BY <2>2, <2>4, <3>2, <3>3, ShorterKeepsLimits DEF part, records
  <2>8. PackageIsSound(q, P)
    BY <2>2, <2>4, <2>5, <2>6, <2>7 DEF PackageIsSound, ConsistentPackage
  <2> QED
    BY <2>8 DEF q
<1> QED
  BY <1>1, <1>2

\* The private words of a deployment.
PrivateWordsOf(d) ==
  LET local == {x \in CandidatesOf(d) : x.source_kind = "local_document"}
  IN  WordsFound(local) \ WordsFound(CandidatesOf(d) \ local)

LEMMA PrivateWordsAre == PrivateWords = PrivateWordsOf(deployment)
  BY DEF PrivateWords, PrivateWordsOf

LEMMA FoundIsSound ==
  ASSUME NEW d \in Configurations, NEW x \in CandidatesOf(d), NEW n \in Nat
  PROVE  RecordIsSound(EvidenceRecord(x, n), PrivateWordsOf(d))
<1> DEFINE r == EvidenceRecord(x, n)
           P == PrivateWordsOf(d)
           local == {y \in CandidatesOf(d) : y.source_kind = "local_document"}
           rest == CandidatesOf(d) \ local
<1>1. /\ DOMAIN r = RecordFields /\ r.excerpt = x.text /\ r.source_kind = x.source_kind
      /\ r.citation_id = n /\ r.frame_chars = x.frame_chars
  BY DEF EvidenceRecord, RecordFields
<1>2. IsText(x.text) /\ x.frame_chars \in Nat
  BY FoundTexts
<1>3. P = WordsFound(local) \ WordsFound(rest)
  BY DEF PrivateWordsOf
<1>4. x.source_kind # "local_document" => x \in rest
  OBVIOUS
<1> HIDE DEF r, local, rest, P
<1>5. ASSUME x.source_kind # "local_document", NEW i \in DOMAIN x.text
      PROVE  x.text[i].words \notin P
  <2>1. x.text[i].words \in Words(x.text)
    BY DEF Words
  <2>2. x.text[i].words \in WordsFound(rest)
    BY <1>4, <1>5, <2>1 DEF WordsFound
  <2> QED
    BY <1>3, <2>2
<1>6. Avoids(r.excerpt, IF r.source_kind = "local_document" THEN {} ELSE P)
  BY <1>1, <1>5 DEF Avoids
<1> QED
  BY <1>1, <1>2, <1>6 DEF RecordIsSound, r, P

(***************************************************************************)
(* What is packed is sound                                                  *)
(***************************************************************************)

\* No evidence takes no room.
LEMMA NothingFits ==
  ASSUME NEW policy \in RetrievalPolicy
  PROVE  FitsPolicy(<<>>, policy)
<1> DEFINE chars == policy.max_context_chars
           tokens == policy.max_estimated_tokens
<1>1. chars \in 100..MostChars /\ tokens \in 25..MostTokens
  BY DEF RetrievalPolicy
<1>2. ContextChars(<<>>) = 0
  BY DEF ContextChars
<1> HIDE DEF chars, tokens
<1>3. chars \in Nat /\ tokens \in Nat
  <2>1. chars \in Nat
    BY <1>1 DEF MostChars
  <2>2. tokens \in Nat
    BY <1>1 DEF MostTokens
  <2> QED
    BY <2>1, <2>2
<1>4. 0 <= chars /\ EstimateTokens(0) <= tokens
  BY <1>3 DEF EstimateTokens
<1> QED
  BY <1>2, <1>4 DEF FitsPolicy, chars, tokens

\* A package made of sound parts.
LEMMA PreparedIsSound ==
  ASSUME NEW d \in Configurations, NEW policy \in RetrievalPolicy, NEW batch, NEW decision,
         NEW elapsed, NEW source, DecisionIsSound(d.registry, decision),
         source.estimated_external_cost_microusd \in Nat,
         batch.candidates \in Seq(CandidatesOf(d)), batch.retrieval_calls \in 0..1,
         batch.web_calls \in 0..1
  PROVE  PackageIsSound(PreparedPackage(policy, batch, SelectRecords(batch.candidates, policy),
                                        decision, elapsed, source), PrivateWordsOf(d))
<1> DEFINE records == SelectRecords(batch.candidates, policy)
           p == PreparedPackage(policy, batch, records, decision, elapsed, source)
           P == PrivateWordsOf(d)
           C == CandidatesOf(d)
<1>1. /\ records \in Seq(ToSet(records))
      /\ \A n \in DOMAIN records : \E x \in C : records[n] = EvidenceRecord(x, n)
      /\ Len(records) <= policy.max_evidence_items
      /\ records = <<>> \/ FitsPolicy(records, policy)
  BY SelectedFit
<1>2. ASSUME NEW r \in ToSet(records)
      PROVE  RecordIsSound(r, P)
  <2>1. PICK n \in DOMAIN records : r = records[n]
    BY DEF ToSet
  <2>2. PICK x \in C : r = EvidenceRecord(x, n)
    BY <1>1, <2>1
  <2> QED
    <3> HIDE DEF records
    <3>1. n \in Nat
      BY <1>1, OwnElements
    <3> QED
      BY <2>2, <3>1, FoundIsSound
<1> HIDE DEF records, P, C
<1>a. AreNumbered(records)
  <2>1. \A n \in DOMAIN records : records[n].citation_id = n
    BY <1>1 DEF EvidenceRecord
  <2> QED
    BY <2>1 DEF AreNumbered
<1>b. KeepLimits(records, policy)
  BY <1>1, NothingFits DEF KeepLimits
<1>3. /\ DOMAIN p = PackageFields
      /\ p.effective_policy = policy /\ p.evidence = records
      /\ p.context_text = RenderContextText(records)
      /\ p.web_calls = batch.web_calls /\ p.retrieval_calls = batch.retrieval_calls
      /\ p.planner_decision = decision
      /\ p.budget_used.estimated_external_cost_microusd
           = source.estimated_external_cost_microusd * batch.web_calls
      /\ p.stop_reason \in StopReason
  <2>1. DOMAIN p = PackageFields
    BY DEF PreparedPackage, BuildContextPackage, PackageFields
  <2> HIDE DEF p
  <2>2. /\ p.effective_policy = policy /\ p.evidence = records
        /\ p.context_text = RenderContextText(records)
        /\ p.web_calls = batch.web_calls /\ p.retrieval_calls = batch.retrieval_calls
        /\ p.planner_decision = decision
        /\ p.budget_used.estimated_external_cost_microusd
             = source.estimated_external_cost_microusd * batch.web_calls
        /\ p.stop_reason = AfterWallClock(policy.budget, elapsed,
              IF batch.candidates = <<>> THEN "no_evidence"
              ELSE IF Len(records) < Len(batch.candidates) THEN "budget_exceeded"
              ELSE "success")
    BY PreparedFields DEF p
  <2>3. p.stop_reason \in StopReason
    BY <2>2 DEF AfterWallClock, StopReason
  <2> QED
    BY <2>1, <2>2, <2>3
<1> HIDE DEF p
<1>4. p.budget_used.estimated_external_cost_microusd \in Nat
  <2> DEFINE cost == source.estimated_external_cost_microusd
  <2>1. cost \in Nat /\ batch.web_calls \in Nat
    OBVIOUS
  <2> HIDE DEF cost
  <2>2. cost * batch.web_calls \in Nat
    BY <2>1
  <2> QED
    BY <1>3, <2>2 DEF cost
<1>5. ConsistentPackage(p)
  BY <1>3, <1>4 DEF ConsistentPackage, DecisionIsSound
<1>6. PackageIsSound(p, P)
  BY <1>1, <1>2, <1>3, <1>a, <1>b, <1>5 DEF PackageIsSound
<1> QED
  BY <1>6 DEF p, P, records

LEMMA BlockedPackageIsSound ==
  ASSUME NEW policy \in RetrievalPolicy, NEW reg, NEW decision, DecisionIsSound(reg, decision), NEW P
  PROVE  PackageIsSound(BuildBlockedContextPackage(policy, decision), P)
<1> DEFINE p == BuildBlockedContextPackage(policy, decision)
<1>1. /\ DOMAIN p = PackageFields
      /\ p.effective_policy = policy /\ p.evidence = <<>> /\ p.context_text = <<>>
      /\ p.web_calls = 0 /\ p.retrieval_calls = 0 /\ p.planner_decision = decision
      /\ p.budget_used.estimated_external_cost_microusd = 0
      /\ p.stop_reason = BlockedStopReason(decision)
  BY DEF BuildBlockedContextPackage, PackageFields
<1> HIDE DEF p
<1>2. p.stop_reason \in StopReason
  BY <1>1 DEF BlockedStopReason, StopReason
<1>3. ConsistentPackage(p)
  BY <1>1, <1>2 DEF ConsistentPackage, DecisionIsSound
<1>4. /\ RenderContextText(<<>>) = <<>> /\ ToSet(<<>>) = {} /\ <<>> \in Seq({})
  BY EmptySeq DEF RenderContextText, ToSet
<1>a. AreNumbered(<<>>) /\ KeepLimits(<<>>, policy)
  <2>1. DOMAIN <<>> = {} /\ Len(<<>>) = 0
    OBVIOUS
  <2>2. policy.max_evidence_items \in 1..6
    BY DEF RetrievalPolicy
  <2>3. FitsPolicy(<<>>, policy)
    BY NothingFits
  <2> QED
    BY <2>1, <2>2, <2>3 DEF AreNumbered, KeepLimits
<1>5. PackageIsSound(p, P)
  BY <1>1, <1>3, <1>4, <1>a DEF PackageIsSound
<1> QED
  BY <1>5 DEF p

(***************************************************************************)
(* What callers and caches hold is sound                                    *)
(***************************************************************************)

Packed == {"put", "compress", "answer", "generate"}

\* The candidates of a cache are those of the deployment.
CacheIsSound(cache, C) ==
  IsCache(ToSet(cache), cache) /\ \A e \in ToSet(cache) : e.candidates \in Seq(C)

PackageInv(c) ==
  /\ pc[c] \in {"fill_cache", "build"} => work[c].batch.candidates \in Seq(CandidatesOf(deployment))
  /\ pc[c] \in Packed => PackageIsSound(work[c].package, PrivateWordsOf(deployment))
  /\ pc[c] = "generate" => AnswerRefusal(c) = "none" /\ AnswerOf(c) = {}

SharedInv ==
  /\ \A h \in DOMAIN issued : PackageIsSound(issued[h].package, PrivateWordsOf(deployment))
  /\ \A i \in DOMAIN caches : CacheIsSound(caches[i], CandidatesOf(deployment))

LEMMA PackageWaits ==
  ASSUME UNCHANGED deployment, NEW c, pc'[c] = pc[c], work'[c] = work[c], PackageInv(c)
  PROVE  PackageInv(c)'
<1>1. AnswerRefusal(c)' = AnswerRefusal(c) /\ AnswerOf(c)' = AnswerOf(c)
  BY DEF AnswerRefusal, AnswerOf, GenerationPolicyOf, Asked, OnEventLoop
<1> QED
  BY <1>1 DEF PackageInv

LEMMA NothingHeld ==
  ASSUME NEW c, pc'[c] \notin {"fill_cache", "build", "put", "compress", "answer", "generate"}
  PROVE  PackageInv(c)'
  BY DEF PackageInv, Packed

LEMMA CacheKeeps ==
  ASSUME NEW C, NEW cache, CacheIsSound(cache, C), NEW key, NEW now
  PROVE  CacheIsSound(CacheAfterGet(cache, key, now), C)
<1> DEFINE after == CacheAfterGet(cache, key, now)
           S == ToSet(cache)
<1>1. IsCache(S, cache) /\ \A e \in S : e.candidates \in Seq(C)
  BY DEF CacheIsSound
<1> HIDE DEF S
<1>2. IsCache(S, after)
  BY <1>1, GetKeepsCache
<1> HIDE DEF after
<1>3. after \in Seq(ToSet(after)) /\ ToSet(after) \subseteq S
  BY <1>2, OwnElements DEF IsCache
<1>4. CacheIsSound(after, C)
  BY <1>1, <1>2, <1>3 DEF CacheIsSound, IsCache
<1> QED
  BY <1>4 DEF after

LEMMA CacheFills ==
  ASSUME NEW C, NEW cache, CacheIsSound(cache, C), NEW key, NEW expiry, NEW candidates \in Seq(C)
  PROVE  CacheIsSound(CacheAfterPut(cache, key, candidates, expiry, CacheEntries), C)
<1> DEFINE after == CacheAfterPut(cache, key, candidates, expiry, CacheEntries)
           entry == [key |-> key, candidates |-> candidates, expiry_time |-> expiry]
           S == ToSet(cache) \cup {entry}
<1>1. entry.candidates = candidates
  OBVIOUS
<1> HIDE DEF entry
<1>2. \A e \in S : e.candidates \in Seq(C)
  BY <1>1 DEF CacheIsSound
<1>3. IsCache(S, cache)
  <2>1. cache \in Seq(ToSet(cache)) /\ Len(cache) <= CacheEntries
    BY DEF CacheIsSound, IsCache
  <2>2. ToSet(cache) \subseteq S
    OBVIOUS
  <2> HIDE DEF S
  <2> QED
    BY <2>1, <2>2, SeqMonotonic DEF IsCache
<1>4. IsCache(S, after)
  <2>1. entry \in S
    OBVIOUS
  <2> HIDE DEF S, after
  <2> QED
    BY <1>3, <2>1, PutKeepsCache DEF entry, after
<1> HIDE DEF after, S
<1>5. after \in Seq(ToSet(after)) /\ ToSet(after) \subseteq S
  BY <1>4, OwnElements DEF IsCache
<1>6. CacheIsSound(after, C)
  BY <1>2, <1>4, <1>5 DEF CacheIsSound, IsCache
<1> QED
  BY <1>6 DEF after

LEMMA SharedUntouched ==
  ASSUME SharedInv, UNCHANGED <<deployment, issued, caches>>
  PROVE  SharedInv'
  BY DEF SharedInv

\* A cache that is updated soundly leaves all of them sound.
LEMMA CachesKeep ==
  ASSUME FrameInv, SharedInv, UNCHANGED <<deployment, issued>>, NEW i, NEW cache,
         CacheIsSound(cache, CandidatesOf(deployment)), caches' = [caches EXCEPT ![i] = cache]
  PROVE  SharedInv'
<1>1. DOMAIN caches' = DOMAIN caches
      /\ \A j \in DOMAIN caches : caches'[j] = IF j = i THEN cache ELSE caches[j]
  BY UpdateIsSequence DEF FrameInv
<1> QED
  BY <1>1 DEF SharedInv

(***************************************************************************)
(* The steps of a caller, and what they pack                                *)
(***************************************************************************)

LEMMA BatchHeld ==
  ASSUME NEW c, pc'[c] \in {"build", "fill_cache"}, UNCHANGED deployment,
         work'[c].batch.candidates \in Seq(CandidatesOf(deployment))
  PROVE  PackageInv(c)'
  BY DEF PackageInv, Packed

LEMMA PackageHeld ==
  ASSUME NEW c, pc'[c] \in {"put", "compress", "answer"}, UNCHANGED deployment,
         PackageIsSound(work'[c].package, PrivateWordsOf(deployment))
  PROVE  PackageInv(c)'
  BY DEF PackageInv, Packed

LEMMA QuietShares ==
  ASSUME SharedInv, Quiet
  PROVE  SharedInv'
  BY SharedUntouched DEF Quiet

LEMMA DropsSound ==
  ASSUME SharedInv, NEW c, Drops(c)
  PROVE  PackageInv(c)' /\ SharedInv'
  BY NothingHeld, QuietShares DEF Drops

LEMMA GoesOnElsewhere ==
  ASSUME SharedInv, NEW c, NEW to, NEW held, GoesOnWith(c, to, held),
         to \notin {"fill_cache", "build", "put", "compress", "answer", "generate"}
  PROVE  PackageInv(c)' /\ SharedInv'
  BY NothingHeld, QuietShares DEF GoesOnWith

LEMMA NotedBatch ==
  ASSUME NEW w, IsWork(w), NEW candidates, NEW calls, NEW n, NEW now
  PROVE  /\ [w EXCEPT !.batch = RetrievalBatch(candidates, calls)].batch.candidates = candidates
         /\ [w EXCEPT !.batch = RetrievalBatch(candidates, calls), !.searches = n,
                      !.now = now].batch.candidates = candidates
<1> DEFINE batch == RetrievalBatch(candidates, calls)
<1>1. batch.candidates = candidates
  BY BatchFields
<1> HIDE DEF batch
<1>2. [w EXCEPT !.batch = batch].batch = batch
  BY DEF IsWork, WorkFields
<1>3. [w EXCEPT !.batch = batch, !.searches = n, !.now = now].batch = batch
  BY DEF IsWork, WorkFields
<1> QED
  BY <1>1, <1>2, <1>3 DEF batch

LEMMA PrepareBlockedSound ==
  ASSUME FrameInv, SharedInv, NEW c \in Callers, PrepareBlocked(c)
  PROVE  PackageInv(c)' /\ SharedInv'
<1> DEFINE policy == RetrievalPolicyOf(c)
           d == DecisionFor(c)
           package == BuildBlockedContextPackage(policy, d)
           held == [work[c] EXCEPT !.now = clock, !.decision = d, !.package = package]
<1>1. RefusalOf(c) = "none" /\ GoesOnWith(c, "put", held)
  BY PrepareBlockedSteps
<1>2. policy \in RetrievalPolicy
  BY <1>1, UnrefusedPolicy
<1>3. DecisionIsSound(deployment.registry, d)
  BY DeployedRegistry, CheckedDecisionIsSound DEF FrameInv, DecisionFor
<1>4. PackageIsSound(package, PrivateWordsOf(deployment))
  BY <1>2, <1>3, BlockedPackageIsSound
<1> HIDE DEF policy, d, package
<1>5. held.package = package
  BY Now DEF IsWork, WorkFields
<1> HIDE DEF held
<1>6. pc'[c] = "put" /\ work'[c] = held /\ Quiet
  BY <1>1 DEF GoesOnWith
<1> QED
  BY <1>4, <1>5, <1>6, PackageHeld, QuietShares DEF Quiet

LEMMA SearchesLocallySound ==
  ASSUME FrameInv, SharedInv, NEW c \in Callers, PlanInv(c), SearchesLocally(c)
  PROVE  PackageInv(c)' /\ SharedInv'
<1>1. CASE Drops(c)
  BY <1>1, DropsSound
<1>2. ASSUME NEW candidates \in Seq(CandidatesOf(deployment)),
             GoesOnWith(c, "build", [work[c] EXCEPT !.batch = RetrievalBatch(candidates, 0)])
      PROVE  PackageInv(c)' /\ SharedInv'
  <2> DEFINE held == [work[c] EXCEPT !.batch = RetrievalBatch(candidates, 0)]
  <2>1. held.batch.candidates = candidates
    BY Now, NotedBatch
  <2> HIDE DEF held
  <2>2. pc'[c] = "build" /\ work'[c] = held /\ Quiet
    BY <1>2 DEF GoesOnWith, held
  <2> QED
    BY <2>1, <2>2, BatchHeld, QuietShares DEF Quiet
<1>3. RetrievalPolicyOf(c) \in RetrievalPolicy
  BY SearchesLocallySteps, UnrefusedPolicy DEF PlanInv, Retrieving
<1>4. ASSUME NEW ranked \in deployment.local_results
      PROVE  (IF deployment.own_retriever THEN Answer(ranked)
              ELSE LocalRetrieve(Asked(c).query, RetrievalPolicyOf(c), ranked)).candidates
               \in Seq(CandidatesOf(deployment))
  <2>1. /\ Answer(ranked).candidates \in Seq(CandidatesOf(deployment))
        /\ LocalRetrieve(Asked(c).query, RetrievalPolicyOf(c), ranked).candidates
             \in Seq(CandidatesOf(deployment))
    BY <1>3, LocallyFound DEF FrameInv
  <2> QED
    BY <2>1
<1>5. ASSUME ~Drops(c)
      PROVE  \E candidates \in Seq(CandidatesOf(deployment)) :
               GoesOnWith(c, "build", [work[c] EXCEPT !.batch = RetrievalBatch(candidates, 0)])
  BY <1>4, <1>5, SearchesLocallySteps, Zenon
<1> QED
  BY <1>1, <1>2, <1>5

LEMMA SearchesWebSound ==
  ASSUME FrameInv, SharedInv, NEW c \in Callers, PlanInv(c), SearchesWeb(c)
  PROVE  PackageInv(c)' /\ SharedInv'
<1>1. CASE Drops(c)
  BY <1>1, DropsSound
<1>2. ASSUME NEW candidates \in Seq(CandidatesOf(deployment)), NEW to \in {"build", "fill_cache"},
             GoesOnWith(c, to, [work[c] EXCEPT !.batch = RetrievalBatch(candidates, 1),
                                               !.searches = @ + 1, !.now = clock])
      PROVE  PackageInv(c)' /\ SharedInv'
  <2> DEFINE held == [work[c] EXCEPT !.batch = RetrievalBatch(candidates, 1),
                                     !.searches = @ + 1, !.now = clock]
  <2>1. held.batch.candidates = candidates
    BY Now, NotedBatch
  <2> HIDE DEF held
  <2>2. pc'[c] = to /\ work'[c] = held /\ Quiet
    BY <1>2 DEF GoesOnWith, held
  <2> QED
    BY <2>1, <2>2, BatchHeld, QuietShares DEF Quiet
<1>3. RetrievalPolicyOf(c) \in RetrievalPolicy
  BY SearchesWebSteps, UnrefusedPolicy DEF PlanInv, Retrieving
<1>4. ASSUME ~Drops(c)
      PROVE  \E candidates \in Seq(CandidatesOf(deployment)), to \in {"build", "fill_cache"} :
               GoesOnWith(c, to, [work[c] EXCEPT !.batch = RetrievalBatch(candidates, 1),
                                                 !.searches = @ + 1, !.now = clock])
  <2> DEFINE Hits(results) == TavilySearch(results, ResultsFor(c))
             Found_(results) == WebCandidates(Hits(results)).candidates
             To(results) == IF Hits(results) = <<>> THEN "build" ELSE "fill_cache"
             Held(candidates) == [work[c] EXCEPT !.batch = RetrievalBatch(candidates, 1),
                                                 !.searches = @ + 1, !.now = clock]
  <2>1. PICK results \in deployment.web_results :
          GoesOnWith(c, To(results), Held(Found_(results)))
    BY <1>4, SearchesWebSteps, Zenon
  <2>2. Found_(results) \in Seq(CandidatesOf(deployment))
    BY <1>3, FoundOnTheWeb DEF FrameInv, ResultsFor
  <2>3. To(results) \in {"build", "fill_cache"}
    OBVIOUS
  <2> HIDE DEF Found_, To, Held
  <2>4. \E candidates \in Seq(CandidatesOf(deployment)), to \in {"build", "fill_cache"} :
          GoesOnWith(c, to, Held(candidates))
    BY <2>1, <2>2, <2>3
  <2> QED
    BY <2>4 DEF Held
<1> QED
  BY <1>1, <1>2, <1>4

LEMMA CachesOf ==
  ASSUME FrameInv, SharedInv, NEW c \in Callers, pc[c] \in {"cache", "fill_cache"}, PlanInv(c)
  PROVE  CacheIsSound(CacheOf(c), CandidatesOf(deployment))
<1>1. work[c].sdk \in 0..Len(caches) /\ Asked(c).op = "prepare"
  BY DEF FrameInv, CallerInv, PlanInv, Retrieving
<1>2. work[c].sdk # 0
  BY <1>1 DEF FrameInv, CallerInv, SdkHeld, StoreHeld
<1>3. work[c].sdk \in DOMAIN caches
  BY <1>1, <1>2, Sizes
<1> QED
  BY <1>3 DEF SharedInv, CacheOf

LEMMA LooksInCacheSound ==
  ASSUME FrameInv, SharedInv, NEW c \in Callers, PlanInv(c), LooksInCache(c)
  PROVE  PackageInv(c)' /\ SharedInv'
<1> DEFINE C == CandidatesOf(deployment)
           cache == CacheOf(c)
           key == KeyOf(c)
           after == CacheAfterGet(cache, key, clock)
           i == Position(cache, key)
           hit == cache[i]
           Held(candidates) == [work[c] EXCEPT !.batch = RetrievalBatch(candidates, 0)]
<1>1. /\ pc[c] = "cache"
      /\ \/ CacheHit(cache, key, clock) /\ GoesOnCaching(c, "build", Held(hit.candidates), after)
         \/ GoesOnCaching(c, "build", Held(<<>>), after)
         \/ GoesOnCaching(c, "search_web", work[c], after)
  BY LooksInCacheSteps
<1>2. CacheIsSound(cache, C)
  BY <1>1, CachesOf
<1> HIDE DEF cache, C
<1>3. CacheIsSound(after, C)
  BY <1>2, CacheKeeps
<1>4. CacheHit(cache, key, clock) => hit.candidates \in Seq(C)
  <2>1. i # 0 => hit \in ToSet(cache)
    BY <1>2, PositionIsThere DEF CacheIsSound, IsCache
  <2>2. CacheHit(cache, key, clock) => i # 0
    BY DEF CacheHit
  <2> QED
    BY <1>2, <2>1, <2>2 DEF CacheIsSound
<1> HIDE DEF after, key, hit, i
<1>5. ASSUME NEW to, NEW held, GoesOnCaching(c, to, held, after)
      PROVE  SharedInv' /\ UNCHANGED deployment /\ pc'[c] = to /\ work'[c] = held
  <2>1. /\ UNCHANGED <<deployment, issued>> /\ caches' = [caches EXCEPT ![work[c].sdk] = after]
        /\ pc'[c] = to /\ work'[c] = held
    BY <1>5 DEF GoesOnCaching
  <2> QED
    BY <1>3, <2>1, CachesKeep DEF C
<1>6. ASSUME NEW candidates \in Seq(C), GoesOnCaching(c, "build", Held(candidates), after)
      PROVE  PackageInv(c)' /\ SharedInv'
  <2>1. Held(candidates).batch.candidates = candidates
    BY Now, NotedBatch
  <2> HIDE DEF Held
  <2>2. SharedInv' /\ UNCHANGED deployment /\ pc'[c] = "build" /\ work'[c] = Held(candidates)
    BY <1>5, <1>6
  <2> QED
    BY <2>1, <2>2, BatchHeld DEF C
<1>7. CASE GoesOnCaching(c, "search_web", work[c], after)
  <2>1. SharedInv' /\ pc'[c] = "search_web"
    BY <1>5, <1>7
  <2> QED
    BY <2>1, NothingHeld
<1>8. <<>> \in Seq(C)
  BY EmptySeq
<1> HIDE DEF Held
<1> QED
  BY <1>1, <1>4, <1>6, <1>7, <1>8

LEMMA FillsCacheSound ==
  ASSUME FrameInv, SharedInv, NEW c \in Callers, PlanInv(c), PackageInv(c), FillsCache(c)
  PROVE  PackageInv(c)' /\ SharedInv'
<1> DEFINE C == CandidatesOf(deployment)
           candidates == work[c].batch.candidates
           after == CacheAfterPut(CacheOf(c), KeyOf(c), candidates, work[c].now + CacheTtl,
                                  CacheEntries)
<1>1. pc[c] = "fill_cache" /\ GoesOnCaching(c, "build", work[c], after)
  BY FillsCacheSteps
<1>2. CacheIsSound(CacheOf(c), C)
  BY <1>1, CachesOf
<1>3. candidates \in Seq(C)
  BY <1>1 DEF PackageInv
<1>4. CacheIsSound(after, C)
  BY <1>2, <1>3, CacheFills
<1> HIDE DEF after
<1>5. /\ UNCHANGED <<deployment, issued>> /\ caches' = [caches EXCEPT ![work[c].sdk] = after]
      /\ pc'[c] = "build" /\ work'[c] = work[c]
  BY <1>1 DEF GoesOnCaching
<1>6. SharedInv'
  BY <1>4, <1>5, CachesKeep
<1> QED
  BY <1>3, <1>5, <1>6, BatchHeld

LEMMA BuildsSound ==
  ASSUME FrameInv, SharedInv, NEW c \in Callers, PlanInv(c), PackageInv(c), Builds(c)
  PROVE  PackageInv(c)' /\ SharedInv'
<1>1. CASE Drops(c)
  BY <1>1, DropsSound
<1>2. ASSUME NEW elapsed,
             GoesOnWith(c, "put",
                [work[c] EXCEPT !.now = clock, !.package =
                  PreparedPackage(RetrievalPolicyOf(c), work[c].batch,
                    SelectRecords(work[c].batch.candidates, RetrievalPolicyOf(c)),
                    work[c].decision, elapsed, SourceFor(c))])
      PROVE  PackageInv(c)' /\ SharedInv'
  <2> DEFINE policy == RetrievalPolicyOf(c)
             batch == work[c].batch
             package == PreparedPackage(policy, batch, SelectRecords(batch.candidates, policy),
                                        work[c].decision, elapsed, SourceFor(c))
             held == [work[c] EXCEPT !.now = clock, !.package = package]
  <2>1. pc[c] = "build"
    BY BuildsSteps
  <2>2. /\ RefusalOf(c) = "none" /\ work[c].decision = DecisionFor(c)
        /\ work[c].decision.route # "blocked"
        /\ batch.retrieval_calls = 1 /\ batch.web_calls = work[c].searches
        /\ work[c].searches # 0 => work[c].searches = 1
        /\ batch.candidates \in Seq(CandidatesOf(deployment))
    BY <2>1 DEF PlanInv, PackageInv, Retrieving
  <2>3. policy \in RetrievalPolicy /\ batch.retrieval_calls \in 0..1 /\ batch.web_calls \in 0..1
    BY <2>2, UnrefusedPolicy
  <2>4. /\ DecisionIsSound(deployment.registry, work[c].decision)
        /\ SourceFor(c).estimated_external_cost_microusd \in Nat
    BY <2>2, DeployedRegistry, CheckedDecisionIsSound DEF FrameInv, DecisionFor, SourceFor
  <2>5. PackageIsSound(package, PrivateWordsOf(deployment))
    <3> HIDE DEF policy, batch
    <3>1. deployment \in Configurations
      BY DEF FrameInv
    <3> QED
      BY <2>2, <2>3, <2>4, <3>1, PreparedIsSound
  <2>6. GoesOnWith(c, "put", held)
    BY <1>2
  <2> HIDE DEF policy, package, batch
  <2>7. held.package = package
    BY Now DEF IsWork, WorkFields
  <2> HIDE DEF held
  <2>8. pc'[c] = "put" /\ work'[c] = held /\ Quiet
    BY <2>6 DEF GoesOnWith
  <2> QED
    BY <2>5, <2>7, <2>8, PackageHeld, QuietShares DEF Quiet
<1> QED
  BY <1>1, <1>2, BuildsSteps, Zenon

LEMMA PutsSound ==
  ASSUME FrameInv, SharedInv, NEW c \in Callers, PackageInv(c), Puts(c)
  PROVE  PackageInv(c)' /\ SharedInv'
<1> DEFINE entry == [package |-> work[c].package, created_at |-> work[c].now,
                     store |-> work[c].store]
           P == PrivateWordsOf(deployment)
<1>1. /\ pc[c] = "put" /\ pc'[c] = "idle" /\ UNCHANGED <<deployment, caches>>
      /\ issued' = Append(issued, entry)
  BY PutsSteps
<1>2. PackageIsSound(entry.package, P)
  BY <1>1 DEF PackageInv, Packed
<1> HIDE DEF entry
<1>3. /\ DOMAIN issued' = DOMAIN issued \cup {Len(issued) + 1}
      /\ \A h \in DOMAIN issued : issued'[h] = issued[h]
      /\ issued'[Len(issued) + 1] = entry
  BY <1>1, AppendIsSequence DEF FrameInv, HandleInv
<1>4. \A h \in DOMAIN issued' : PackageIsSound(issued'[h].package, P)
  BY <1>2, <1>3 DEF SharedInv
<1>5. SharedInv'
  BY <1>1, <1>4 DEF SharedInv
<1> QED
  BY <1>1, <1>5, NothingHeld

LEMMA LooksUpSound ==
  ASSUME FrameInv, SharedInv, NEW c \in Callers, LooksUp(c)
  PROVE  PackageInv(c)' /\ SharedInv'
<1> DEFINE package == stores[work[c].store][HandleOf(c)].package
           held == [work[c] EXCEPT !.package = package]
<1>1. /\ pc[c] = "look_up" /\ Found(c)
      /\ \/ Drops(c)
         \/ Asked(c).op \in {"compress", "answer"} /\ GoesOnWith(c, Asked(c).op, held)
  BY LooksUpSteps
<1>2. PackageIsSound(package, PrivateWordsOf(deployment))
  <2>1. work[c].store \in DOMAIN stores
    BY <1>1, Sizes DEF FrameInv, CallerInv, StoreHeld
  <2>2. StoreKeeps(work[c].store)
    BY <2>1 DEF FrameInv, HandleInv
  <2>3. HandleOf(c) \in DOMAIN stores[work[c].store]
    BY <1>1 DEF Found, Entries
  <2>4. HandleOf(c) \in DOMAIN issued /\ package = issued[HandleOf(c)].package
    BY <2>2, <2>3 DEF StoreKeeps, Entries
  <2> QED
    BY <2>4 DEF SharedInv
<1> HIDE DEF package
<1>3. CASE Drops(c)
  BY <1>3, DropsSound
<1>4. CASE Asked(c).op \in {"compress", "answer"} /\ GoesOnWith(c, Asked(c).op, held)
  <2>1. held.package = package
    BY Now DEF IsWork, WorkFields
  <2> HIDE DEF held
  <2>2. pc'[c] \in {"compress", "answer"} /\ work'[c] = held /\ Quiet
    BY <1>4 DEF GoesOnWith
  <2> QED
    BY <1>2, <2>1, <2>2, PackageHeld, QuietShares DEF Quiet
<1> QED
  BY <1>1, <1>3, <1>4

LEMMA CompressesSound ==
  ASSUME FrameInv, SharedInv, NEW c \in Callers, PackageInv(c), Compresses(c)
  PROVE  PackageInv(c)' /\ SharedInv'
<1> DEFINE parent == work[c].package
           package == CompressContextPackage(parent, Asked(c).policy)
           held == [work[c] EXCEPT !.parent = parent, !.package = package, !.now = clock]
<1>1. pc[c] = "compress" /\ (Drops(c) \/ GoesOnWith(c, "put", held))
  BY CompressesSteps
<1>2. PackageIsSound(package, PrivateWordsOf(deployment))
  BY <1>1, CompressedIsSound DEF PackageInv, Packed
<1> HIDE DEF package, parent
<1>3. CASE Drops(c)
  BY <1>3, DropsSound
<1>4. CASE GoesOnWith(c, "put", held)
  <2>1. held.package = package
    BY Now DEF IsWork, WorkFields
  <2> HIDE DEF held
  <2>2. pc'[c] = "put" /\ work'[c] = held /\ Quiet
    BY <1>4 DEF GoesOnWith
  <2> QED
    BY <1>2, <2>1, <2>2, PackageHeld, QuietShares DEF Quiet
<1> QED
  BY <1>1, <1>3, <1>4

LEMMA AsksSound ==
  ASSUME FrameInv, SharedInv, NEW c \in Callers, PackageInv(c), Asks(c)
  PROVE  PackageInv(c)' /\ SharedInv'
<1>1. /\ pc[c] = "answer" /\ AnswerRefusal(c) = "none" /\ AnswerOf(c) = {}
      /\ GoesOnWith(c, "generate", work[c])
  BY AsksSteps
<1>2. pc'[c] = "generate" /\ work'[c] = work[c] /\ Quiet
  BY <1>1 DEF GoesOnWith
<1>3. UNCHANGED deployment
  BY <1>2 DEF Quiet
<1>4. AnswerRefusal(c)' = AnswerRefusal(c) /\ AnswerOf(c)' = AnswerOf(c)
  BY <1>2, <1>3 DEF AnswerRefusal, AnswerOf, GenerationPolicyOf, Asked, OnEventLoop
<1>5. PackageIsSound(work[c].package, PrivateWordsOf(deployment))
  BY <1>1 DEF PackageInv, Packed
<1> QED
  BY <1>1, <1>2, <1>3, <1>4, <1>5, QuietShares DEF PackageInv

LEMMA BuildsSdkSound ==
  ASSUME FrameInv, SharedInv, NEW c \in Callers, BuildsSdk(c)
  PROVE  PackageInv(c)' /\ SharedInv'
<1>1. Drops(c) \/ (OnTheWay(c) /\ caches' = Append(caches, <<>>))
  BY BuildsSdkSteps
<1>2. CASE OnTheWay(c) /\ caches' = Append(caches, <<>>)
  <2> DEFINE none == <<>>
  <2>1. CacheIsSound(none, CandidatesOf(deployment))
    BY EmptySeq, Limits DEF CacheIsSound, IsCache, ToSet
  <2>2. caches' = Append(caches, none)
    BY <1>2
  <2> HIDE DEF none
  <2>3. /\ DOMAIN caches' = DOMAIN caches \cup {Len(caches) + 1}
        /\ \A i \in DOMAIN caches : caches'[i] = caches[i]
        /\ caches'[Len(caches) + 1] = none
    BY <2>2, AppendIsSequence DEF FrameInv
  <2>4. UNCHANGED <<deployment, issued>>
    BY <1>2 DEF OnTheWay
  <2>5. \A i \in DOMAIN caches' : CacheIsSound(caches'[i], CandidatesOf(deployment))
    BY <2>1, <2>3 DEF SharedInv
  <2>6. SharedInv'
    BY <2>4, <2>5 DEF SharedInv
  <2> QED
    BY <1>2, <2>6, NothingHeld DEF OnTheWay
<1> QED
  BY <1>1, <1>2, DropsSound

(***************************************************************************)
(* Every step of the system                                                 *)
(***************************************************************************)

LEMMA PackageCaller ==
  ASSUME FrameInv, SharedInv, NEW c \in Callers, PlanInv(c), PackageInv(c), Accept(c) \/ Handler(c)
  PROVE  PackageInv(c)' /\ SharedInv'
<1>w. ASSUME OnTheWay(c), UNCHANGED caches
      PROVE  PackageInv(c)' /\ SharedInv'
  BY <1>w, NothingHeld, SharedUntouched DEF OnTheWay
<1>1. CASE Accept(c)
  BY <1>1, AcceptSteps, NothingHeld, SharedUntouched
<1>2. CASE NeedsSdk(c)
  BY <1>2, <1>w, NeedsSdkSteps
<1>3. CASE BuildsSdk(c)
  BY <1>3, BuildsSdkSound
<1>4. CASE NeedsStore(c)
  BY <1>4, <1>w, NeedsStoreSteps
<1>5. CASE BuildsStore(c)
  BY <1>5, <1>w, BuildsStoreSteps
<1>6. CASE Starts(c)
  BY <1>6, StartsSteps, GoesOnElsewhere
<1>7. CASE PrepareRefused(c)
  BY <1>7, PrepareRefusedSteps, DropsSound
<1>8. CASE PrepareBlocked(c)
  BY <1>8, PrepareBlockedSound
<1>9. CASE PrepareRetrieves(c)
  <2>1. \/ Drops(c)
        \/ \E to \in {"cache", "search_local"} : \E decision :
              GoesOnWith(c, to, [work[c] EXCEPT !.decision = decision])
    BY <1>9, PrepareRetrievesSteps, Zenon
  <2>2. ASSUME NEW to \in {"cache", "search_local"}, NEW held, GoesOnWith(c, to, held)
        PROVE  PackageInv(c)' /\ SharedInv'
    BY <2>2, GoesOnElsewhere
  <2> QED
    BY <2>1, <2>2, DropsSound
<1>10. CASE SearchesLocally(c)
  BY <1>10, SearchesLocallySound
<1>11. CASE LooksInCache(c)
  BY <1>11, LooksInCacheSound
<1>12. CASE SearchesWeb(c)
  BY <1>12, SearchesWebSound
<1>13. CASE FillsCache(c)
  BY <1>13, FillsCacheSound
<1>14. CASE Builds(c)
  BY <1>14, BuildsSound
<1>15. CASE Puts(c)
  BY <1>15, PutsSound
<1>16. CASE ReadsClock(c)
  BY <1>16, ReadsClockSteps, GoesOnElsewhere
<1>17. CASE NotFound(c)
  BY <1>17, NotFoundSteps, NothingHeld, SharedUntouched
<1>18. CASE LooksUp(c)
  BY <1>18, LooksUpSound
<1>19. CASE Compresses(c)
  BY <1>19, CompressesSound
<1>20. CASE AnswersAlone(c)
  BY <1>20, AnswersAloneSteps, DropsSound
<1>21. CASE Asks(c)
  BY <1>21, AsksSound
<1>22. CASE Answers(c)
  BY <1>22, AnswersSteps, DropsSound
<1> QED
  BY <1>1, <1>2, <1>3, <1>4, <1>5, <1>6, <1>7, <1>8, <1>9, <1>10, <1>11, <1>12,
     <1>13, <1>14, <1>15, <1>16, <1>17, <1>18, <1>19, <1>20, <1>21, <1>22, Zenon DEF Handler

PackagesInv == SharedInv /\ \A c \in Callers : PackageInv(c)

LEMMA PackagesStep == FrameInv /\ (\A c \in Callers : PlanInv(c)) /\ PackagesInv /\ [Next]_vars
                        => PackagesInv'
<1> SUFFICES ASSUME FrameInv, \A c \in Callers : PlanInv(c), PackagesInv, [Next]_vars
             PROVE  PackagesInv'
  OBVIOUS
<1>1. SharedInv /\ \A c \in Callers : PackageInv(c)
  BY DEF PackagesInv
<1>2. CASE Tick \/ Rest \/ UNCHANGED vars
  <2>1. UNCHANGED <<deployment, issued, caches, pc, work>>
    BY <1>2 DEF Tick, Rest, vars
  <2>2. ASSUME NEW c \in Callers PROVE PackageInv(c)'
    BY <1>1, <2>1, PackageWaits
  <2> QED
    BY <1>1, <2>1, <2>2, SharedUntouched DEF PackagesInv
<1>3. ASSUME NEW c \in Callers, Accept(c) \/ Handler(c)
      PROVE  PackagesInv'
  <2>1. PackageInv(c)' /\ SharedInv'
    BY <1>1, <1>3, PackageCaller
  <2>2. UNCHANGED deployment
    BY <1>3, CallerFrame
  <2>3. ASSUME NEW d \in Callers PROVE PackageInv(d)'
    <3>1. CASE d = c
      BY <2>1, <3>1
    <3>2. CASE d # c
      <4>1. pc'[d] = pc[d] /\ work'[d] = work[d]
        BY <1>3, <3>2, OthersWait
      <4> QED
        BY <1>1, <2>2, <4>1, PackageWaits
    <3> QED
      BY <3>1, <3>2
  <2> QED
    BY <2>1, <2>3 DEF PackagesInv
<1> QED
  BY <1>2, <1>3 DEF Next

LEMMA InitPackages == Init => PackagesInv
<1> SUFFICES ASSUME Init
             PROVE  PackagesInv
  OBVIOUS
<1>1. PICK none : none = <<>>
  OBVIOUS
<1>2. CacheIsSound(none, CandidatesOf(deployment))
  BY <1>1, EmptySeq, Limits DEF CacheIsSound, IsCache, ToSet
<1>3. /\ caches = <<>> \/ caches = <<none>>
      /\ issued = <<>> /\ pc = [c \in Callers |-> "idle"]
  BY <1>1 DEF Init
<1>4. SharedInv
  BY <1>2, <1>3 DEF SharedInv
<1>5. \A c \in Callers : PackageInv(c)
  BY <1>3 DEF PackageInv, Packed
<1> QED
  BY <1>4, <1>5 DEF PackagesInv

\* Every variable holds what it is for, and every package that was issued is one the
\* contracts accept (src/evidenceops/bridge/contracts.py).
THEOREM TypesAreKept == Spec => []TypeOK
<1>1. ASSUME FrameInv, PackagesInv
      PROVE  TypeOK
  <2>1. /\ deployment \in Configurations /\ clock \in 0..deployment.ticks
        /\ loop \in Callers \cup {NoCaller}
        /\ app.sdk \in 0..Len(caches) /\ app.store \in 0..Len(stores)
        /\ pc \in [Callers -> Steps] /\ left \in [Callers -> 0..deployment.requests_each]
    BY <1>1 DEF FrameInv, HandleInv
  <2>2. \A i \in DOMAIN caches : Len(caches[i]) <= CacheEntries
    BY <1>1 DEF PackagesInv, SharedInv, CacheIsSound, IsCache
  <2>3. \A s \in DOMAIN stores : DOMAIN stores[s] \subseteq DOMAIN issued
    BY <1>1 DEF FrameInv, HandleInv, StoreKeeps, Entries
  <2>4. \A h \in DOMAIN issued : ConsistentPackage(issued[h].package)
    BY <1>1 DEF PackagesInv, SharedInv, PackageIsSound
  <2>5. \A c \in Callers :
          /\ work[c].handle \in 0..Len(issued) /\ work[c].now \in 0..clock
          /\ work[c].sdk \in 0..Len(caches) /\ work[c].store \in 0..Len(stores)
    BY <1>1 DEF FrameInv, CallerInv
  <2> QED
    BY <2>1, <2>2, <2>3, <2>4, <2>5 DEF TypeOK
<1> QED
  BY <1>1, InitFrame, FrameStep, InitPlan, PlanStep, InitPackages, PackagesStep, PTL DEF Spec

\* A package whose evidence is of the web only sends no private word.
LEMMA SentWordsOfWeb ==
  ASSUME NEW p, NEW P, PackageIsSound(p, P), ~HasPrivateEvidence(p)
  PROVE  SentWords(p) \cap P = {}
<1>1. p.context_text = RenderContextText(p.evidence)
  BY DEF PackageIsSound
<1>2. ASSUME NEW i \in DOMAIN p.context_text
      PROVE  Words(p.context_text[i].content) \cap P = {}
  <2>1. i \in DOMAIN p.evidence /\ p.context_text[i].content = p.evidence[i].excerpt
    BY <1>1 DEF RenderContextText
  <2>2. p.evidence[i].source_kind # "local_document"
    BY <2>1 DEF HasPrivateEvidence
  <2>3. RecordIsSound(p.evidence[i], P)
    BY <2>1 DEF PackageIsSound, ToSet
  <2>4. Avoids(p.evidence[i].excerpt, P)
    BY <2>2, <2>3 DEF RecordIsSound
  <2> QED
    BY <2>1, <2>4 DEF Avoids, Words
<1> QED
  BY <1>2 DEF SentWords

\* Nothing goes to a hosted provider without consent, and no word of a local document without
\* consent of its own (service.py answer; api/routes/litebridge.py; litebridge_tools.py).
THEOREM EvidenceIsKeptPrivate == Spec => []EvidenceStaysPrivate
<1>1. ASSUME PackagesInv
      PROVE  EvidenceStaysPrivate
  <2> SUFFICES ASSUME NEW c \in Callers, pc[c] = "generate",
                      NEW p \in ProvidersNamed(deployment.providers, Asked(c).provider_id),
                      p.location = "hosted",
                      NEW by \in {Asked(c)} \cup (IF OnEventLoop THEN {deployment.settings} ELSE {})
               PROVE  /\ by.allow_external_generation
                      /\ SentWords(work[c].package) \cap PrivateWords # {}
                           => by.allow_private_evidence_export
    BY DEF EvidenceStaysPrivate
  <2>1. /\ AnswerRefusal(c) = "none" /\ AnswerOf(c) = {}
        /\ PackageIsSound(work[c].package, PrivateWords)
    BY <1>1, PrivateWordsAre DEF PackagesInv, PackageInv, Packed
  <2>2. SentWords(work[c].package) \cap PrivateWords # {} => HasPrivateEvidence(work[c].package)
    BY <2>1, SentWordsOfWeb
  <2>3. /\ GenerationPolicyOf(c).provider_id = Asked(c).provider_id
        /\ GenerationPolicyOf(c).allow_external_generation = Asked(c).allow_external_generation
        /\ GenerationPolicyOf(c).allow_private_evidence_export
             = Asked(c).allow_private_evidence_export
    BY DEF GenerationPolicyOf, FrontEndGenerationPolicy
  <2>4. /\ Asked(c).allow_external_generation
        /\ HasPrivateEvidence(work[c].package) => Asked(c).allow_private_evidence_export
    BY <2>1, <2>3 DEF AnswerOf, AnsweredWithoutProvider
  <2>5. OnEventLoop =>
          /\ deployment.settings.allow_external_generation
          /\ HasPrivateEvidence(work[c].package)
               => deployment.settings.allow_private_evidence_export
    BY <2>1 DEF AnswerRefusal, GenerationForbidden
  <2> QED
    BY <2>2, <2>4, <2>5
<1> QED
  BY <1>1, InitFrame, FrameStep, InitPlan, PlanStep, InitPackages, PackagesStep, PTL DEF Spec

(***************************************************************************)
(* Compression is faithful                                                  *)
(***************************************************************************)

\* The records of the package that have the number of this one.
NumberedAs(p, r) == {o \in ToSet(p.evidence) : o.citation_id = r.citation_id}

\* What a compressed package owes its parent.
IsFaithful(q, p, policy) ==
  LET gone == {o \in ToSet(p.evidence) : o.citation_id \notin CitationNumbers(q)}
  IN  /\ \A r \in ToSet(q.evidence) : \E o \in NumberedAs(p, r) :
           /\ r.evidence_id = o.evidence_id /\ r.source_kind = o.source_kind
           /\ IsExtract(r.excerpt, o.excerpt)
           /\ BlockMentions(r) \subseteq CitationNumbers(q)
      /\ \A o \in gone :
           \/ \E r \in ToSet(q.evidence) : \A original \in NumberedAs(p, r) :
                original.excerpt = o.excerpt /\ original.document_id = o.document_id
           \/ \A r \in ToSet(q.evidence) : r.citation_id < o.citation_id
      /\ gone # {} => policy.allow_evidence_drop
      /\ q.compression_report.outcome = "reduced" => WithinCeilings(q.context_chars, policy)

\* A text is an extract of itself.
LEMMA WholeExtract ==
  ASSUME NEW text, IsText(text)
  PROVE  IsExtract(text, text)
<1>1. PICK h : IsPlaced(text, text, h)
  BY WholeIsExtract, ExtractIsText
<1> QED
  BY <1>1, PlacedIsExtract

\* What a package mentions has its evidence.
LEMMA LabelsHaveEvidence ==
  ASSUME NEW q, q.context_text = RenderContextText(q.evidence), LabelsMapToEvidence(q),
         NEW r \in ToSet(q.evidence)
  PROVE  BlockMentions(r) \subseteq CitationNumbers(q)
<1>1. PICK i \in DOMAIN q.evidence : r = q.evidence[i]
  BY DEF ToSet
<1>2. i \in DOMAIN q.context_text /\ q.context_text[i].mentions = BlockMentions(r)
  BY <1>1 DEF RenderContextText
<1> QED
  BY <1>2 DEF LabelsMapToEvidence

\* Records of one package that have one number are one record.
LEMMA NumbersAreUnique ==
  ASSUME NEW p, NEW P, PackageIsSound(p, P),
         NEW a \in DOMAIN p.evidence, NEW b \in DOMAIN p.evidence,
         p.evidence[a].citation_id = p.evidence[b].citation_id
  PROVE  a = b
<1> DEFINE x == p.evidence[a].citation_id
           y == p.evidence[b].citation_id
<1>1. x \in Nat /\ y \in Nat
  BY DEF PackageIsSound, RecordIsSound, ToSet
<1>2. a \in Nat /\ b \in Nat
  <2>1. p.evidence \in Seq(ToSet(p.evidence))
    BY DEF PackageIsSound
  <2> QED
    BY <2>1, OwnElements
<1>3. (a < b => x < y) /\ (b < a => y < x)
  BY DEF PackageIsSound, AreNumbered
<1> HIDE DEF x, y
<1>4. x = y
  BY DEF x, y
<1> QED
  BY <1>1, <1>2, <1>3, <1>4

\* A package that fits is its own compression.
LEMMA UnreducedIsFaithful ==
  ASSUME NEW p, NEW P, PackageIsSound(p, P), NEW policy, NEW q, q = Unreduced(p),
         LabelsMapToEvidence(q)
  PROVE  IsFaithful(q, p, policy)
<1>1. PICK trace : q = [p EXCEPT !.compression_report = Report("no_reduction", trace)]
  BY DEF Unreduced
<1>2. DOMAIN p = PackageFields /\ p.context_text = RenderContextText(p.evidence)
  BY DEF PackageIsSound
<1> DEFINE report == Report("no_reduction", trace)
<1>3. report.outcome = "no_reduction"
  BY DEF Report
<1>4. q = [p EXCEPT !.compression_report = report]
  BY <1>1
<1> HIDE DEF report
<1>5. q.evidence = p.evidence /\ q.context_text = p.context_text /\ q.compression_report = report
  BY <1>2, <1>4 DEF PackageFields
<1>6. ASSUME NEW r \in ToSet(q.evidence)
      PROVE  /\ r \in NumberedAs(p, r) /\ IsExtract(r.excerpt, r.excerpt)
             /\ r.citation_id \in CitationNumbers(q) /\ BlockMentions(r) \subseteq CitationNumbers(q)
  <2>1. r \in ToSet(p.evidence) /\ IsText(r.excerpt)
    BY <1>5 DEF PackageIsSound, RecordIsSound
  <2> QED
    BY <1>2, <1>5, <1>6, <2>1, WholeExtract, LabelsHaveEvidence DEF NumberedAs, CitationNumbers
<1>7. \A o \in ToSet(p.evidence) : o.citation_id \in CitationNumbers(q)
  BY <1>5, <1>6
<1>8. q.compression_report.outcome # "reduced"
  BY <1>3, <1>5
<1> QED
  BY <1>6, <1>7, <1>8 DEF IsFaithful

\* How a reduction was made, place by place.
LEMMA ReductionPlaces ==
  ASSUME NEW p, NEW P, PackageIsSound(p, P), NEW policy, NEW q, IsReduction(q, p, policy)
  PROVE  LET distinct == Distinct(p.evidence, policy)
             m == Len(q.evidence)
         IN  /\ m \in Nat /\ DOMAIN q.evidence = 1..m /\ m <= Len(distinct) /\ Len(distinct) \in Nat
             /\ Increases(distinct, Len(distinct))
             /\ \A k \in 1..Len(distinct) : distinct[k] \in DOMAIN p.evidence /\ distinct[k] \in Nat
             /\ \A k \in 1..m :
                  /\ RecordIsSound(p.evidence[distinct[k]], P)
                  /\ q.evidence[k] = Extracted(p.evidence[distinct[k]], policy)
                  /\ q.evidence[k].citation_id = p.evidence[distinct[k]].citation_id
<1> DEFINE distinct == Distinct(p.evidence, policy)
           m == Len(q.evidence)
<1>1. /\ q.evidence \in Seq(ToSet(q.evidence))
      /\ Len(distinct) \in Nat /\ Increases(distinct, Len(distinct))
      /\ \A k \in 1..Len(distinct) : distinct[k] \in DOMAIN p.evidence
      /\ m \in 1..Len(distinct)
      /\ \A k \in DOMAIN q.evidence : q.evidence[k] = Extracted(p.evidence[distinct[k]], policy)
  BY DEF IsReduction
<1>2. /\ p.evidence \in Seq(ToSet(p.evidence)) /\ \A r \in ToSet(p.evidence) : RecordIsSound(r, P)
  BY DEF PackageIsSound
<1> HIDE DEF distinct
<1>3. /\ DOMAIN q.evidence = 1..m /\ m \in Nat /\ DOMAIN p.evidence = 1..Len(p.evidence)
      /\ Len(p.evidence) \in Nat
  BY <1>1, <1>2, OwnElements
<1>4. m <= Len(distinct)
  <2> DEFINE d == Len(distinct)
  <2> HIDE DEF d, m
  <2> QED
    BY <1>1, <1>3 DEF d
<1>5. ASSUME NEW k \in 1..Len(distinct)
      PROVE  distinct[k] \in DOMAIN p.evidence /\ distinct[k] \in Nat
  BY <1>1, <1>3
<1>6. ASSUME NEW k \in 1..m
      PROVE  /\ RecordIsSound(p.evidence[distinct[k]], P)
             /\ q.evidence[k] = Extracted(p.evidence[distinct[k]], policy)
             /\ q.evidence[k].citation_id = p.evidence[distinct[k]].citation_id
  <2>1. k \in 1..Len(distinct)
    <3> DEFINE d == Len(distinct)
    <3> HIDE DEF d, m
    <3> QED
      BY <1>1, <1>3, <1>4 DEF d
  <2>2. RecordIsSound(p.evidence[distinct[k]], P)
    BY <1>2, <1>5, <2>1 DEF ToSet
  <2>3. q.evidence[k] = Extracted(p.evidence[distinct[k]], policy)
    BY <1>1, <1>3
  <2> QED
    BY <2>2, <2>3, ExtractedRecordIsSound
<1> QED
  BY <1>1, <1>3, <1>4, <1>5, <1>6 DEF distinct

\* A record that stays is an extract of the one that has its number.
LEMMA KeptAreExtracts ==
  ASSUME NEW p, NEW P, PackageIsSound(p, P), NEW policy, NEW q, IsReduction(q, p, policy),
         NEW r \in ToSet(q.evidence)
  PROVE  \E o \in NumberedAs(p, r) :
           /\ r.evidence_id = o.evidence_id /\ r.source_kind = o.source_kind
           /\ IsExtract(r.excerpt, o.excerpt)
<1> DEFINE distinct == Distinct(p.evidence, policy)
<1>1. PICK k \in 1..Len(q.evidence) : r = q.evidence[k]
  BY ReductionPlaces DEF ToSet
<1> DEFINE o == p.evidence[distinct[k]]
<1>2. /\ distinct[k] \in DOMAIN p.evidence /\ RecordIsSound(o, P) /\ r = Extracted(o, policy)
  <2> DEFINE m == Len(q.evidence)
             d == Len(distinct)
  <2>1. /\ m \in Nat /\ m <= d /\ d \in Nat
        /\ \A j \in 1..d : distinct[j] \in DOMAIN p.evidence
        /\ \A j \in 1..m : /\ RecordIsSound(p.evidence[distinct[j]], P)
                           /\ q.evidence[j] = Extracted(p.evidence[distinct[j]], policy)
    BY ReductionPlaces
  <2>2. k \in 1..m
    OBVIOUS
  <2> HIDE DEF m, d
  <2>3. k \in 1..d
    BY <2>1, <2>2
  <2> QED
    BY <1>1, <2>1, <2>2, <2>3
<1> HIDE DEF distinct
<1>3. o \in ToSet(p.evidence)
  BY <1>2 DEF ToSet
<1> HIDE DEF o
<1>4. /\ r.evidence_id = o.evidence_id /\ r.citation_id = o.citation_id
      /\ r.source_kind = o.source_kind /\ IsExtract(r.excerpt, o.excerpt)
  BY <1>2, ExtractedRecordIsSound
<1> QED
  BY <1>3, <1>4 DEF NumberedAs

\* A distinct record that does not stay comes after all that do, and so does what follows it.
LEMMA LaterThanKept ==
  ASSUME NEW p, NEW P, PackageIsSound(p, P), NEW policy, NEW q, IsReduction(q, p, policy),
         NEW k \in 1..Len(Distinct(p.evidence, policy)), ~(k <= Len(q.evidence)),
         NEW i \in DOMAIN p.evidence, Distinct(p.evidence, policy)[k] <= i
  PROVE  \A r \in ToSet(q.evidence) : r.citation_id < p.evidence[i].citation_id
<1> DEFINE distinct == Distinct(p.evidence, policy)
           m == Len(q.evidence)
           d == Len(distinct)
<1>1. /\ m \in Nat /\ DOMAIN q.evidence = 1..m /\ m <= d /\ d \in Nat
      /\ Increases(distinct, d)
      /\ \A j \in 1..d : distinct[j] \in DOMAIN p.evidence /\ distinct[j] \in Nat
      /\ \A j \in 1..m : q.evidence[j].citation_id = p.evidence[distinct[j]].citation_id
  BY ReductionPlaces
<1>2. k \in 1..d /\ ~(k <= m) /\ distinct[k] <= i
  OBVIOUS
<1>3. i \in Nat
  <2>1. p.evidence \in Seq(ToSet(p.evidence))
    BY DEF PackageIsSound
  <2> QED
    BY <2>1, OwnElements
<1>4. AreNumbered(p.evidence)
  BY DEF PackageIsSound
<1> HIDE DEF distinct, m, d
<1>5. ASSUME NEW r \in ToSet(q.evidence)
      PROVE  r.citation_id < p.evidence[i].citation_id
  <2>1. PICK j \in 1..m : r = q.evidence[j]
    BY <1>1 DEF ToSet
  <2>2. j \in 1..d /\ j < k
    BY <1>1, <1>2
  <2>3. distinct[j] < distinct[k]
    BY <1>1, <1>2, <2>2 DEF Increases
  <2>4. distinct[j] < i
    <3>1. distinct[j] \in Nat /\ distinct[k] \in Nat
      BY <1>1, <1>2, <2>2
    <3> QED
      BY <1>2, <1>3, <2>3, <3>1
  <2>5. distinct[j] \in DOMAIN p.evidence
    BY <1>1, <2>2
  <2>6. p.evidence[distinct[j]].citation_id < p.evidence[i].citation_id
    BY <1>4, <2>4, <2>5 DEF AreNumbered
  <2> QED
    BY <1>1, <2>1, <2>6
<1> QED
  BY <1>5

\* Of the records that agree with one the first is distinct.
LEMMA FirstCopyIsDistinct ==
  ASSUME NEW evidence, NEW n \in Nat, DOMAIN evidence = 1..n, NEW i \in 1..n, NEW policy,
         IsDroppedCopy(evidence, i, policy)
  PROVE  \E j \in 1..n : /\ j < i /\ Fingerprint(evidence[j]) = Fingerprint(evidence[i])
                         /\ ~IsDroppedCopy(evidence, j, policy)
<1> DEFINE S == {j \in 1..n : Fingerprint(evidence[j]) = Fingerprint(evidence[i])}
           least == Min(S)
<1>1. i \in S /\ S \subseteq Nat
  OBVIOUS
<1>2. least \in S /\ \A y \in S : least <= y
  <2> HIDE DEF S
  <2>1. S # {}
    BY <1>1
  <2> QED
    BY <1>1, <2>1, LeastIsThere
<1> HIDE DEF least
<1>3. /\ least \in 1..n /\ Fingerprint(evidence[least]) = Fingerprint(evidence[i])
  BY <1>2
<1>4. least < i
  <2>1. PICK j \in 1..(i - 1) : Fingerprint(evidence[j]) = Fingerprint(evidence[i])
    BY DEF IsDroppedCopy, DuplicateOf
  <2>2. j \in 1..n /\ j < i
    OBVIOUS
  <2>3. least <= j
    BY <1>2, <2>1, <2>2
  <2> QED
    BY <1>3, <2>2, <2>3
<1>5. DuplicateOf(evidence, least) = {}
  <2> SUFFICES ASSUME NEW j \in 1..(least - 1), Fingerprint(evidence[j]) = Fingerprint(evidence[least])
               PROVE  FALSE
    BY DEF DuplicateOf
  <2>1. j \in 1..n /\ j < least
    BY <1>3
  <2>2. j \in S
    BY <1>3, <2>1
  <2>3. least <= j
    BY <1>2, <2>2
  <2> QED
    BY <1>3, <2>1, <2>3
<1>6. ~IsDroppedCopy(evidence, least, policy)
  BY <1>5 DEF IsDroppedCopy
<1> QED
  BY <1>3, <1>4, <1>6

\* A record that is no dropped copy has its place among the distinct ones.
LEMMA DistinctIsPlaced ==
  ASSUME NEW evidence, NEW n \in Nat, DOMAIN evidence = 1..n, NEW i \in 1..n, NEW policy,
         ~IsDroppedCopy(evidence, i, policy)
  PROVE  \E k \in 1..Len(Distinct(evidence, policy)) : Distinct(evidence, policy)[k] = i
<1> DEFINE S == {j \in DOMAIN evidence : ~IsDroppedCopy(evidence, j, policy)}
<1>1. S \in SUBSET (1..n) /\ i \in S
  OBVIOUS
<1>2. Distinct(evidence, policy) = InOrder(S)
  BY DEF Distinct
<1> HIDE DEF S
<1>3. S \subseteq Nat /\ IsFiniteSet(S)
  BY <1>1, PartOfRange
<1>4. Len(InOrder(S)) = Cardinality(S)
  BY <1>3, InOrderIsThere
<1> QED
  BY <1>1, <1>2, <1>3, <1>4, InOrderIsAll

\* What is gone was a copy of what stays, or came after all that stays; and it was allowed.
LEMMA GoneWasCopyOrLater ==
  ASSUME NEW p, NEW P, PackageIsSound(p, P), NEW policy, NEW q, IsReduction(q, p, policy),
         NEW o \in ToSet(p.evidence), o.citation_id \notin CitationNumbers(q)
  PROVE  /\ policy.allow_evidence_drop
         /\ \/ \E r \in ToSet(q.evidence) : \A original \in NumberedAs(p, r) :
                 original.excerpt = o.excerpt /\ original.document_id = o.document_id
            \/ \A r \in ToSet(q.evidence) : r.citation_id < o.citation_id
<1> DEFINE evidence == p.evidence
           n == Len(evidence)
           distinct == Distinct(evidence, policy)
           m == Len(q.evidence)
           d == Len(distinct)
           Later == \A r \in ToSet(q.evidence) : r.citation_id < o.citation_id
           Copy == \E r \in ToSet(q.evidence) : \A original \in NumberedAs(p, r) :
                     original.excerpt = o.excerpt /\ original.document_id = o.document_id
<1>1. DOMAIN evidence = 1..n /\ n \in Nat
  <2>1. p.evidence \in Seq(ToSet(p.evidence))
    BY DEF PackageIsSound
  <2> QED
    BY <2>1, OwnElements
<1>2. PICK i \in 1..n : o = evidence[i]
  BY <1>1 DEF ToSet
<1>3. /\ m \in Nat /\ DOMAIN q.evidence = 1..m /\ m <= d /\ d \in Nat
      /\ \A k \in 1..d : distinct[k] \in DOMAIN evidence /\ distinct[k] \in Nat
      /\ \A k \in 1..m : q.evidence[k].citation_id = evidence[distinct[k]].citation_id
  BY ReductionPlaces
<1>4. ~policy.allow_evidence_drop => m = d
  BY DEF IsReduction
<1>5. ASSUME NEW k \in 1..d, distinct[k] = i
      PROVE  ~(k <= m)
  <2> SUFFICES ASSUME k <= m
               PROVE  FALSE
    OBVIOUS
  <2>1. k \in 1..m
    <3> HIDE DEF m, d, distinct
    <3> QED
      BY <1>3
  <2>2. q.evidence[k] \in ToSet(q.evidence)
    BY <1>3, <2>1 DEF ToSet
  <2>3. q.evidence[k].citation_id = o.citation_id
    BY <1>2, <1>3, <1>5, <2>1
  <2> QED
    BY <2>2, <2>3 DEF CitationNumbers
<1>6. ASSUME NEW k \in 1..d, ~(k <= m), distinct[k] <= i
      PROVE  Later
  <2>1. i \in DOMAIN p.evidence
    BY <1>1
  <2>2. k \in 1..Len(Distinct(p.evidence, policy)) /\ ~(k <= Len(q.evidence))
        /\ Distinct(p.evidence, policy)[k] <= i
    BY <1>6
  <2> QED
    BY <1>2, <2>1, <2>2, LaterThanKept
<1>7. CASE ~IsDroppedCopy(evidence, i, policy)
  <2>1. PICK k \in 1..d : distinct[k] = i
    BY <1>1, <1>7, DistinctIsPlaced
  <2>2. ~(k <= m)
    BY <1>5, <2>1
  <2>3. policy.allow_evidence_drop
    <3> HIDE DEF m, d
    <3> QED
      BY <1>3, <1>4, <2>2
  <2>4. distinct[k] <= i
    BY <1>1, <2>1
  <2>5. Later
    BY <1>6, <2>2, <2>4
  <2> QED
    BY <2>3, <2>5
<1>8. CASE IsDroppedCopy(evidence, i, policy)
  <2>1. policy.allow_evidence_drop
    BY <1>8 DEF IsDroppedCopy
  <2>2. PICK j \in 1..n : /\ j < i /\ Fingerprint(evidence[j]) = Fingerprint(evidence[i])
                          /\ ~IsDroppedCopy(evidence, j, policy)
    BY <1>1, <1>8, FirstCopyIsDistinct
  <2>3. PICK k \in 1..d : distinct[k] = j
    BY <1>1, <2>2, DistinctIsPlaced
  <2>4. CASE ~(k <= m)
    <3>1. distinct[k] <= i
      BY <1>1, <2>2, <2>3
    <3> QED
      BY <1>6, <2>1, <2>4, <3>1
  <2>5. CASE k <= m
    <3>1. k \in 1..m
      <4> HIDE DEF m, d, distinct
      <4> QED
        BY <1>3, <2>5
    <3> DEFINE r == q.evidence[k]
    <3>2. r \in ToSet(q.evidence) /\ r.citation_id = evidence[j].citation_id
      BY <1>3, <2>3, <3>1 DEF ToSet
    <3>3. evidence[j].excerpt = o.excerpt /\ evidence[j].document_id = o.document_id
      BY <1>2, <2>2 DEF Fingerprint
    <3> HIDE DEF r
    <3>4. ASSUME NEW original \in NumberedAs(p, r)
          PROVE  original.excerpt = o.excerpt /\ original.document_id = o.document_id
      <4>1. original \in ToSet(p.evidence) /\ original.citation_id = p.evidence[j].citation_id
        BY <3>2 DEF NumberedAs
      <4>2. PICK a \in DOMAIN p.evidence : original = p.evidence[a]
        BY <4>1 DEF ToSet
      <4>3. j \in DOMAIN p.evidence
        BY <1>1
      <4>4. a = j
        BY <4>1, <4>2, <4>3, NumbersAreUnique
      <4> QED
        BY <3>3, <4>2, <4>4
    <3>5. Copy
      BY <3>2, <3>4
    <3> QED
      BY <2>1, <3>5
  <2> QED
    BY <2>4, <2>5
<1> QED
  BY <1>7, <1>8

LEMMA ReducedIsFaithful ==
  ASSUME NEW p, NEW P, PackageIsSound(p, P), NEW policy, NEW q, IsReduction(q, p, policy),
         LabelsMapToEvidence(q)
  PROVE  IsFaithful(q, p, policy)
<1>1. /\ q.context_text = RenderContextText(q.evidence)
      /\ q.compression_report.outcome
           = IF WithinCeilings(q.context_chars, policy) THEN "reduced" ELSE "target_unachievable"
  BY DEF IsReduction
<1>2. ASSUME NEW r \in ToSet(q.evidence)
      PROVE  \E o \in NumberedAs(p, r) :
               /\ r.evidence_id = o.evidence_id /\ r.source_kind = o.source_kind
               /\ IsExtract(r.excerpt, o.excerpt)
               /\ BlockMentions(r) \subseteq CitationNumbers(q)
  <2>1. BlockMentions(r) \subseteq CitationNumbers(q)
    BY <1>1, LabelsHaveEvidence
  <2>2. \E o \in NumberedAs(p, r) :
          /\ r.evidence_id = o.evidence_id /\ r.source_kind = o.source_kind
          /\ IsExtract(r.excerpt, o.excerpt)
    BY KeptAreExtracts
  <2> QED
    BY <2>1, <2>2
<1>3. ASSUME NEW o \in ToSet(p.evidence), o.citation_id \notin CitationNumbers(q)
      PROVE  /\ policy.allow_evidence_drop
             /\ \/ \E r \in ToSet(q.evidence) : \A original \in NumberedAs(p, r) :
                     original.excerpt = o.excerpt /\ original.document_id = o.document_id
                \/ \A r \in ToSet(q.evidence) : r.citation_id < o.citation_id
  BY <1>3, GoneWasCopyOrLater
<1>4. q.compression_report.outcome = "reduced" => WithinCeilings(q.context_chars, policy)
  BY <1>1
<1> QED
  BY <1>2, <1>3, <1>4 DEF IsFaithful

\* What the quality controls accept of what the compressor makes is faithful.
LEMMA AcceptedIsFaithful ==
  ASSUME NEW p, NEW P, PackageIsSound(p, P), NEW policy, NEW q,
         q = CompressContextPackage(p, policy), QualityControlsPass(p, q, policy)
  PROVE  IsFaithful(q, p, policy) /\ q.effective_policy = p.effective_policy
<1>1. LabelsMapToEvidence(q)
  BY DEF QualityControlsPass
<1>2. CASE p.evidence = <<>> \/ WithinCeilings(p.context_chars, policy)
  <2>1. q = Unreduced(p)
    BY <1>2 DEF CompressContextPackage
  <2>2. DOMAIN p = PackageFields
    BY DEF PackageIsSound
  <2>3. \E report : q = [p EXCEPT !.compression_report = report]
    BY <2>1 DEF Unreduced
  <2>4. q.effective_policy = p.effective_policy
    BY <2>2, <2>3 DEF PackageFields
  <2> QED
    BY <1>1, <2>1, <2>4, UnreducedIsFaithful
<1>3. CASE ~(p.evidence = <<>> \/ WithinCeilings(p.context_chars, policy))
  <2>1. q = Reduced(p, policy)
    BY <1>3 DEF CompressContextPackage
  <2>2. /\ DOMAIN p = PackageFields /\ p.evidence \in Seq(ToSet(p.evidence)) /\ p.evidence # <<>>
    BY <1>3 DEF PackageIsSound
  <2>3. IsReduction(q, p, policy)
    BY <2>1, <2>2, ReducedEvidence
  <2>4. q.effective_policy = p.effective_policy
    BY <2>3 DEF IsReduction, PackageFields
  <2> QED
    BY <1>1, <2>3, <2>4, ReducedIsFaithful
<1> QED
  BY <1>2, <1>3

(***************************************************************************)
(* What is put in the store                                                 *)
(***************************************************************************)

\* A prepared package has the policy asked for, and a success has all that was found in time.
PreparedWell(c) ==
  LET package == work[c].package
      policy == RetrievalPolicyOf(c)
  IN  /\ package.effective_policy = policy
      /\ package.stop_reason = "success" =>
           /\ Len(package.evidence) = Len(work[c].batch.candidates)
           /\ package.budget_used.wall_clock_ms <= policy.budget.max_wall_clock_ms

\* A compressed package is what the controls accepted of what the compressor made.
CompressedWell(c) ==
  LET parent == work[c].parent
      package == work[c].package
      policy == Asked(c).policy
  IN  /\ PackageIsSound(parent, PrivateWordsOf(deployment))
      /\ package = CompressContextPackage(parent, policy)
      /\ QualityControlsPass(parent, package, policy)

PutInv(c) ==
  pc[c] = "put" => \/ Asked(c).op = "prepare" /\ PreparedWell(c)
                   \/ Asked(c).op = "compress" /\ CompressedWell(c)

LEMMA PutWaits ==
  ASSUME UNCHANGED deployment, NEW c, pc'[c] = pc[c], work'[c] = work[c], PutInv(c)
  PROVE  PutInv(c)'
<1>1. Asked(c)' = Asked(c) /\ RetrievalPolicyOf(c)' = RetrievalPolicyOf(c)
  BY DEF Asked, RetrievalPolicyOf, OnEventLoop
<1> QED
  BY <1>1 DEF PutInv, PreparedWell, CompressedWell

LEMMA NotPut ==
  ASSUME NEW c, pc'[c] # "put"
  PROVE  PutInv(c)'
  BY DEF PutInv

LEMMA PutPrepared ==
  ASSUME NEW c, Asked(c).op = "prepare", UNCHANGED deployment, NEW held, work'[c] = held,
         held.request = work[c].request,
         held.package.effective_policy = RetrievalPolicyOf(c),
         held.package.stop_reason = "success" =>
           /\ Len(held.package.evidence) = Len(held.batch.candidates)
           /\ held.package.budget_used.wall_clock_ms
                <= RetrievalPolicyOf(c).budget.max_wall_clock_ms
  PROVE  PutInv(c)'
<1>1. Asked(c)' = Asked(c) /\ RetrievalPolicyOf(c)' = RetrievalPolicyOf(c)
  BY SameRequest
<1>2. PreparedWell(c)'
  BY <1>1 DEF PreparedWell
<1> QED
  BY <1>1, <1>2 DEF PutInv

LEMMA PutBlocked ==
  ASSUME FrameInv, NEW c \in Callers, PrepareBlocked(c)
  PROVE  PutInv(c)'
<1> DEFINE policy == RetrievalPolicyOf(c)
           d == DecisionFor(c)
           package == BuildBlockedContextPackage(policy, d)
           held == [work[c] EXCEPT !.now = clock, !.decision = d, !.package = package]
<1>1. Asked(c).op = "prepare" /\ GoesOnWith(c, "put", held)
  BY PrepareBlockedSteps DEF Handles
<1>2. /\ package.effective_policy = policy /\ package.stop_reason # "success"
  <2>1. package.stop_reason = BlockedStopReason(d) /\ package.effective_policy = policy
    BY DEF BuildBlockedContextPackage
  <2> HIDE DEF package
  <2>2. BlockedStopReason(d) # "success"
    BY DEF BlockedStopReason
  <2> QED
    BY <2>1, <2>2
<1> HIDE DEF d, package
<1>3. held.request = work[c].request /\ held.package = package
  BY Now DEF IsWork, WorkFields
<1> HIDE DEF held
<1>4. work'[c] = held /\ UNCHANGED deployment
  BY <1>1 DEF GoesOnWith, Quiet
<1> QED
  BY <1>1, <1>2, <1>3, <1>4, PutPrepared

LEMMA PutBuilt ==
  ASSUME FrameInv, NEW c \in Callers, PlanInv(c), PackageInv(c), Builds(c)
  PROVE  PutInv(c)'
<1>1. CASE Drops(c)
  BY <1>1, NotPut DEF Drops
<1>2. ASSUME NEW elapsed \in deployment.elapsed,
             GoesOnWith(c, "put",
                [work[c] EXCEPT !.now = clock, !.package =
                  PreparedPackage(RetrievalPolicyOf(c), work[c].batch,
                    SelectRecords(work[c].batch.candidates, RetrievalPolicyOf(c)),
                    work[c].decision, elapsed, SourceFor(c))])
      PROVE  PutInv(c)'
  <2> DEFINE policy == RetrievalPolicyOf(c)
             batch == work[c].batch
             records == SelectRecords(batch.candidates, policy)
             package == PreparedPackage(policy, batch, records, work[c].decision, elapsed,
                                        SourceFor(c))
             held == [work[c] EXCEPT !.now = clock, !.package = package]
             most == policy.budget.max_wall_clock_ms
  <2>1. /\ Asked(c).op = "prepare" /\ RefusalOf(c) = "none"
        /\ batch.candidates \in Seq(CandidatesOf(deployment))
    BY BuildsSteps DEF PlanInv, PackageInv, Retrieving
  <2>2. policy \in RetrievalPolicy
    BY <2>1, UnrefusedPolicy
  <2>3. most \in Nat /\ elapsed \in Nat
    <3>1. policy.budget \in BudgetPolicy
      BY <2>2 DEF RetrievalPolicy
    <3>2. most \in Nat
      BY <3>1 DEF BudgetPolicy
    <3>3. elapsed \in Nat
      BY LiteBridgeAssumption DEF FrameInv, DeploymentIsPossible
    <3> QED
      BY <3>2, <3>3
  <2>4. Len(records) \in Nat /\ Len(batch.candidates) \in Nat
        /\ Len(records) <= Len(batch.candidates)
    <3>1. records \in Seq(ToSet(records)) /\ Len(records) <= Len(batch.candidates)
      BY <2>1, <2>2, SelectedFit
    <3> HIDE DEF records
    <3> QED
      BY <2>1, <3>1, OwnElements
  <2>5. GoesOnWith(c, "put", held)
    BY <1>2
  <2> HIDE DEF policy, batch, records
  <2>6. /\ package.effective_policy = policy /\ package.evidence = records
        /\ package.budget_used.wall_clock_ms = elapsed
        /\ package.stop_reason = AfterWallClock(policy.budget, elapsed,
                  IF batch.candidates = <<>> THEN "no_evidence"
                  ELSE IF Len(records) < Len(batch.candidates) THEN "budget_exceeded"
                  ELSE "success")
    BY PreparedFields
  <2> HIDE DEF package
  <2>7. package.stop_reason = "success" =>
          ~(elapsed > most) /\ ~(Len(records) < Len(batch.candidates))
    BY <2>6 DEF AfterWallClock
  <2>8. package.stop_reason = "success" =>
          elapsed <= most /\ Len(records) = Len(batch.candidates)
    <3> DEFINE k == Len(records)
               n == Len(batch.candidates)
    <3> HIDE DEF k, n, most
    <3>1. (~(elapsed > most) => elapsed <= most) /\ (~(k < n) => k = n)
      BY <2>3, <2>4 DEF k, n
    <3> QED
      BY <2>7, <3>1 DEF k, n
  <2>9. held.request = work[c].request /\ held.package = package /\ held.batch = batch
    BY Now DEF IsWork, WorkFields, batch
  <2> HIDE DEF held
  <2>10. work'[c] = held /\ UNCHANGED deployment
    BY <2>5 DEF GoesOnWith, Quiet
  <2> QED
    BY <2>1, <2>6, <2>8, <2>9, <2>10, PutPrepared DEF policy
<1> QED
  BY <1>1, <1>2, BuildsSteps, Zenon

LEMMA PutCompressed ==
  ASSUME FrameInv, NEW c \in Callers, PlanInv(c), PackageInv(c), Compresses(c)
  PROVE  PutInv(c)'
<1> DEFINE parent == work[c].package
           policy == Asked(c).policy
           package == CompressContextPackage(parent, policy)
           held == [work[c] EXCEPT !.parent = parent, !.package = package, !.now = clock]
<1>1. /\ pc[c] = "compress"
      /\ \/ Drops(c)
         \/ QualityControlsPass(parent, package, policy) /\ GoesOnWith(c, "put", held)
  BY CompressesSteps
<1>2. /\ Asked(c).op = "compress" /\ PackageIsSound(parent, PrivateWordsOf(deployment))
  BY <1>1 DEF PlanInv, PackageInv, Packed
<1>3. CASE Drops(c)
  BY <1>3, NotPut DEF Drops
<1>4. CASE QualityControlsPass(parent, package, policy) /\ GoesOnWith(c, "put", held)
  <2>1. PICK made : made = package
    OBVIOUS
  <2>2. QualityControlsPass(parent, made, policy)
    BY <1>4, <2>1
  <2>3. made = CompressContextPackage(parent, policy)
    BY <2>1
  <2>4. held = [work[c] EXCEPT !.parent = parent, !.package = made, !.now = clock]
    BY <2>1
  <2> HIDE DEF package, held, parent
  <2>5. held.request = work[c].request /\ held.package = made /\ held.parent = parent
    BY <2>4, Now DEF IsWork, WorkFields
  <2>6. work'[c] = held /\ UNCHANGED deployment
    BY <1>4 DEF GoesOnWith, Quiet
  <2>7. Asked(c)' = Asked(c)
    BY <2>5, <2>6, SameRequest
  <2>8. CompressedWell(c)'
    BY <1>2, <2>2, <2>3, <2>5, <2>6, <2>7 DEF CompressedWell
  <2> QED
    BY <1>2, <2>7, <2>8 DEF PutInv
<1> QED
  BY <1>1, <1>3, <1>4

LEMMA PutCaller ==
  ASSUME FrameInv, NEW c \in Callers, PlanInv(c), PackageInv(c), Accept(c) \/ Handler(c)
  PROVE  PutInv(c)'
<1>a. ASSUME Drops(c)
      PROVE  PutInv(c)'
  BY <1>a, NotPut DEF Drops
<1>b. ASSUME OnTheWay(c)
      PROVE  PutInv(c)'
  BY <1>b, NotPut DEF OnTheWay
<1>c. ASSUME NEW to, to # "put", NEW held, GoesOnWith(c, to, held)
      PROVE  PutInv(c)'
  BY <1>c, NotPut DEF GoesOnWith
<1>d. ASSUME NEW to, to # "put", NEW held, NEW cache, GoesOnCaching(c, to, held, cache)
      PROVE  PutInv(c)'
  BY <1>d, NotPut DEF GoesOnCaching
<1>1. CASE Accept(c)
  BY <1>1, AcceptSteps, NotPut
<1>2. CASE NeedsSdk(c)
  BY <1>2, <1>b, NeedsSdkSteps
<1>3. CASE BuildsSdk(c)
  BY <1>3, <1>a, <1>b, BuildsSdkSteps
<1>4. CASE NeedsStore(c)
  BY <1>4, <1>b, NeedsStoreSteps
<1>5. CASE BuildsStore(c)
  BY <1>5, <1>b, BuildsStoreSteps
<1>6. CASE Starts(c)
  BY <1>6, <1>c, StartsSteps
<1>7. CASE PrepareRefused(c)
  BY <1>7, <1>a, PrepareRefusedSteps
<1>8. CASE PrepareBlocked(c)
  BY <1>8, PutBlocked
<1>9. CASE PrepareRetrieves(c)
  <2>1. \/ Drops(c)
        \/ \E to \in {"cache", "search_local"} : \E decision :
              GoesOnWith(c, to, [work[c] EXCEPT !.decision = decision])
    BY <1>9, PrepareRetrievesSteps, Zenon
  <2>2. ASSUME NEW to \in {"cache", "search_local"}, NEW held, GoesOnWith(c, to, held)
        PROVE  PutInv(c)'
    BY <1>c, <2>2
  <2> QED
    BY <1>a, <2>1, <2>2
<1>10. CASE SearchesLocally(c)
  <2>1. Drops(c) \/ \E held : GoesOnWith(c, "build", held)
    BY <1>10, SearchesLocallySteps, Zenon
  <2> QED
    BY <1>a, <1>c, <2>1
<1>11. CASE LooksInCache(c)
  <2>1. \E to \in {"build", "search_web"} : \E held, cache : GoesOnCaching(c, to, held, cache)
    BY <1>11, LooksInCacheSteps, Zenon
  <2> QED
    BY <1>d, <2>1
<1>12. CASE SearchesWeb(c)
  <2>1. Drops(c) \/ \E to \in {"build", "fill_cache"} : \E held : GoesOnWith(c, to, held)
    BY <1>12, SearchesWebSteps, Zenon
  <2> QED
    BY <1>a, <1>c, <2>1
<1>13. CASE FillsCache(c)
  BY <1>13, <1>d, FillsCacheSteps
<1>14. CASE Builds(c)
  BY <1>14, PutBuilt
<1>15. CASE Puts(c)
  BY <1>15, PutsSteps, NotPut
<1>16. CASE ReadsClock(c)
  BY <1>16, <1>c, ReadsClockSteps
<1>17. CASE NotFound(c)
  BY <1>17, NotFoundSteps, NotPut
<1>18. CASE LooksUp(c)
  <2>1. Drops(c) \/ \E to \in {"compress", "answer"} : \E held : GoesOnWith(c, to, held)
    BY <1>18, LooksUpSteps, Zenon
  <2> QED
    BY <1>a, <1>c, <2>1
<1>19. CASE Compresses(c)
  BY <1>19, PutCompressed
<1>20. CASE AnswersAlone(c)
  BY <1>20, <1>a, AnswersAloneSteps
<1>21. CASE Asks(c)
  BY <1>21, <1>c, AsksSteps
<1>22. CASE Answers(c)
  BY <1>22, <1>a, AnswersSteps
<1> QED
  BY <1>1, <1>2, <1>3, <1>4, <1>5, <1>6, <1>7, <1>8, <1>9, <1>10, <1>11, <1>12,
     <1>13, <1>14, <1>15, <1>16, <1>17, <1>18, <1>19, <1>20, <1>21, <1>22, Zenon DEF Handler

PutsInv == \A c \in Callers : PutInv(c)

LEMMA PutStep ==
  FrameInv /\ (\A c \in Callers : PlanInv(c)) /\ PackagesInv /\ PutsInv /\ [Next]_vars => PutsInv'
<1> SUFFICES ASSUME FrameInv, \A c \in Callers : PlanInv(c), PackagesInv, PutsInv, [Next]_vars
             PROVE  PutsInv'
  OBVIOUS
<1>1. CASE Tick \/ Rest \/ UNCHANGED vars
  <2>1. UNCHANGED <<deployment, pc, work>>
    BY <1>1 DEF Tick, Rest, vars
  <2>2. ASSUME NEW c \in Callers PROVE PutInv(c)'
    BY <2>1, PutWaits DEF PutsInv
  <2> QED
    BY <2>2 DEF PutsInv
<1>2. ASSUME NEW c \in Callers, Accept(c) \/ Handler(c)
      PROVE  PutsInv'
  <2>1. PutInv(c)'
    BY <1>2, PutCaller DEF PackagesInv
  <2>2. UNCHANGED deployment
    BY <1>2, CallerFrame
  <2>3. ASSUME NEW d \in Callers PROVE PutInv(d)'
    <3>1. CASE d = c
      BY <2>1, <3>1
    <3>2. CASE d # c
      <4>1. pc'[d] = pc[d] /\ work'[d] = work[d]
        BY <1>2, <3>2, OthersWait
      <4> QED
        BY <2>2, <4>1, PutWaits DEF PutsInv
    <3> QED
      BY <3>1, <3>2
  <2> QED
    BY <2>3 DEF PutsInv
<1> QED
  BY <1>1, <1>2 DEF Next

LEMMA InitPut == Init => PutsInv
<1> SUFFICES ASSUME Init, NEW c \in Callers
             PROVE  PutInv(c)
  BY DEF PutsInv
<1>1. pc[c] = "idle"
  BY DEF Init
<1> QED
  BY <1>1 DEF PutInv

\* A package keeps the limits of the request it is for, though its candidates may come from
\* the cache entry of a request with other limits and though compression joins sentences anew;
\* one that is called a success has everything that was found (context_builder.py
\* build_context_package; compressor.py).
THEOREM PackagesAreKeptWithinLimits == Spec => []PackagesKeepLimits
<1>1. ASSUME PackagesInv, PutsInv
      PROVE  PackagesKeepLimits
  <2> SUFFICES ASSUME NEW c \in Callers, pc[c] = "put"
               PROVE  LET package == work[c].package
                          limits == IF Asked(c).op = "prepare" THEN RetrievalPolicyOf(c)
                                    ELSE work[c].parent.effective_policy
                      IN  /\ package.effective_policy = limits
                          /\ Len(package.evidence) <= limits.max_evidence_items
                          /\ ContextChars(package.evidence) <= limits.max_context_chars
                          /\ EstimateTokens(ContextChars(package.evidence))
                               <= limits.max_estimated_tokens
                          /\ package.stop_reason = "success" /\ Asked(c).op = "prepare" =>
                               /\ Len(package.evidence) = Len(work[c].batch.candidates)
                               /\ package.budget_used.wall_clock_ms
                                    <= limits.budget.max_wall_clock_ms
    BY DEF PackagesKeepLimits
  <2> DEFINE package == work[c].package
             limits == IF Asked(c).op = "prepare" THEN RetrievalPolicyOf(c)
                       ELSE work[c].parent.effective_policy
  <2>1. KeepLimits(package.evidence, package.effective_policy)
    BY <1>1 DEF PackagesInv, PackageInv, Packed, PackageIsSound
  <2>2. PutInv(c)
    BY <1>1 DEF PutsInv
  <2>3. package.effective_policy = limits
    <3>1. CASE Asked(c).op = "prepare" /\ PreparedWell(c)
      BY <3>1 DEF PreparedWell
    <3>2. CASE Asked(c).op = "compress" /\ CompressedWell(c)
      BY <3>2, AcceptedIsFaithful DEF CompressedWell
    <3> QED
      BY <2>2, <3>1, <3>2 DEF PutInv
  <2>4. KeepLimits(package.evidence, limits)
    BY <2>1, <2>3
  <2>5. package.stop_reason = "success" /\ Asked(c).op = "prepare" =>
          /\ Len(package.evidence) = Len(work[c].batch.candidates)
          /\ package.budget_used.wall_clock_ms <= limits.budget.max_wall_clock_ms
    BY <2>2 DEF PutInv, PreparedWell
  <2> HIDE DEF package, limits
  <2>6. /\ package.effective_policy = limits
        /\ Len(package.evidence) <= limits.max_evidence_items
        /\ ContextChars(package.evidence) <= limits.max_context_chars
        /\ EstimateTokens(ContextChars(package.evidence)) <= limits.max_estimated_tokens
    BY <2>3, <2>4 DEF KeepLimits, FitsPolicy
  <2> QED
    BY <2>5, <2>6 DEF package, limits
<1> QED
  BY <1>1, InitFrame, FrameStep, InitPlan, PlanStep, InitPackages, PackagesStep, InitPut, PutStep,
     PTL DEF Spec

\* A compressed package says nothing its parent does not: a label still stands for the same
\* evidence, an excerpt is an extract, a label in the text has its evidence, and evidence that
\* is gone was a copy of one that stays or came after all that stay; and what it says of its
\* target is so (compressor.py, quality_controls.py).
THEOREM CompressionIsKeptFaithful == Spec => []CompressionIsFaithful
<1>1. ASSUME PutsInv
      PROVE  CompressionIsFaithful
  <2>1. ASSUME NEW c \in Callers, pc[c] = "put", Asked(c).op = "compress"
        PROVE  IsFaithful(work[c].package, work[c].parent, Asked(c).policy)
    <3>1. CompressedWell(c)
      BY <1>1, <2>1 DEF PutsInv, PutInv
    <3> QED
      BY <3>1, AcceptedIsFaithful DEF CompressedWell
  <2> QED
    BY <2>1 DEF CompressionIsFaithful, IsFaithful, NumberedAs
<1> QED
  BY <1>1, InitFrame, FrameStep, InitPlan, PlanStep, InitPackages, PackagesStep, InitPut, PutStep,
     PTL DEF Spec
================================================================================
