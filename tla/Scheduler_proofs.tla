-------------------------- MODULE Scheduler_proofs --------------------------
(***************************************************************************)
(* Proofs about Test::runAll, for every set of tests, every dependency     *)
(* graph, every --module filter and every outcome of the tests; then about *)
(* the registration before it, for every order of the calls.               *)
(***************************************************************************)
EXTENDS Registration, SequenceTheorems, FiniteSetTheorems, WellFoundedInduction, TLAPS

(* The list IsListing describes holds exactly S, each member once. *)
LEMMA ListingFacts ==
    ASSUME NEW S \in SUBSET Tests, NEW s \in Listings(S),
           rank \in [Tests -> Nat]
    PROVE  /\ s \in Seq(Tests)
           /\ Elements(s) = S
           /\ \A i, j \in DOMAIN s : s[i] = s[j] => i = j
<1>1. /\ s \in Seq(S)
      /\ \A t \in S : \E i \in DOMAIN s : s[i] = t
      /\ \A i, j \in DOMAIN s : i < j => rank[s[i]] < rank[s[j]]
  BY DEF Listings, IsListing
<1>2. DOMAIN s = 1..Len(s) /\ Len(s) \in Nat
  BY <1>1
<1>3. \A i \in DOMAIN s : s[i] \in S
  BY <1>1, <1>2, ElementOfSeq
<1>4. s \in Seq(Tests)
  BY <1>1, SeqMonotonic
<1>5. Elements(s) = S
  BY <1>1, <1>3 DEF Elements
<1>6. ASSUME NEW i \in DOMAIN s, NEW j \in DOMAIN s, s[i] = s[j]
      PROVE  i = j
  <2>1. rank[s[i]] \in Nat /\ rank[s[j]] \in Nat
    BY <1>3
  <2>2. ~(i < j) /\ ~(j < i)
    BY <1>1, <1>6, <2>1
  <2> QED
    BY <1>2, <2>2
<1> QED
  BY <1>4, <1>5, <1>6

(* Popping the head of a list without duplicates. *)
LEMMA TailFacts ==
    ASSUME NEW r \in Seq(Tests), r # <<>>,
           \A i, j \in DOMAIN r : r[i] = r[j] => i = j
    PROVE  /\ Tail(r) \in Seq(Tests)
           /\ Head(r) \in Elements(r)
           /\ Elements(Tail(r)) = Elements(r) \ {Head(r)}
           /\ \A i, j \in DOMAIN Tail(r) : Tail(r)[i] = Tail(r)[j] => i = j
<1>1. /\ DOMAIN r = 1..Len(r) /\ Len(r) \in Nat /\ Len(r) >= 1
      /\ Tail(r) \in Seq(Tests) /\ Head(r) = r[1]
      /\ DOMAIN Tail(r) = 1..(Len(r) - 1)
      /\ \A i \in 1..(Len(r) - 1) : Tail(r)[i] = r[i + 1]
  BY HeadTailProperties
<1>2. ASSUME NEW t \in Elements(Tail(r)) PROVE t \in Elements(r) \ {Head(r)}
  <2>1. PICK i \in 1..(Len(r) - 1) : t = r[i + 1]
    BY <1>1, <1>2 DEF Elements
  <2>2. i + 1 \in DOMAIN r /\ 1 \in DOMAIN r /\ i + 1 # 1
    BY <1>1
  <2> QED
    BY <1>1, <2>1, <2>2 DEF Elements
<1>3. ASSUME NEW t \in Elements(r) \ {Head(r)} PROVE t \in Elements(Tail(r))
  <2>1. PICK i \in DOMAIN r : t = r[i]
    BY <1>3 DEF Elements
  <2>2. i # 1
    BY <1>1, <1>3, <2>1
  <2>3. i - 1 \in 1..(Len(r) - 1) /\ Tail(r)[i - 1] = r[i]
    BY <1>1, <2>1, <2>2
  <2> QED
    BY <1>1, <2>1, <2>3 DEF Elements
<1>4. ASSUME NEW i \in DOMAIN Tail(r), NEW j \in DOMAIN Tail(r),
             Tail(r)[i] = Tail(r)[j]
      PROVE  i = j
  <2>1. r[i + 1] = r[j + 1] /\ i + 1 \in DOMAIN r /\ j + 1 \in DOMAIN r
    BY <1>1, <1>4
  <2> QED
    BY <1>1, <2>1
<1>5. Head(r) \in Elements(r)
  BY <1>1 DEF Elements
<1> QED
  BY <1>1, <1>2, <1>3, <1>4, <1>5

(* Putting a list before another one that shares no element with it. *)
LEMMA ConcatFacts ==
    ASSUME NEW s \in Seq(Tests), NEW r \in Seq(Tests),
           \A i, j \in DOMAIN s : s[i] = s[j] => i = j,
           \A i, j \in DOMAIN r : r[i] = r[j] => i = j,
           Elements(s) \cap Elements(r) = {}
    PROVE  /\ s \o r \in Seq(Tests)
           /\ Elements(s \o r) = Elements(s) \union Elements(r)
           /\ \A i, j \in DOMAIN (s \o r) : (s \o r)[i] = (s \o r)[j] => i = j
<1> DEFINE c == s \o r
<1>1. /\ c \in Seq(Tests) /\ DOMAIN c = 1..(Len(s) + Len(r))
      /\ Len(s) \in Nat /\ Len(r) \in Nat
      /\ DOMAIN s = 1..Len(s) /\ DOMAIN r = 1..Len(r)
      /\ \A i \in 1..Len(s) : c[i] = s[i]
      /\ \A i \in 1..Len(r) : c[Len(s) + i] = r[i]
  BY ConcatProperties
<1>2. \A i \in DOMAIN c : \/ i \in DOMAIN s /\ c[i] = s[i]
                          \/ i - Len(s) \in DOMAIN r /\ c[i] = r[i - Len(s)]
  <2> SUFFICES ASSUME NEW i \in DOMAIN c, ~(i \in DOMAIN s)
               PROVE  i - Len(s) \in DOMAIN r /\ c[i] = r[i - Len(s)]
    BY <1>1
  <2>1. i - Len(s) \in 1..Len(r) /\ Len(s) + (i - Len(s)) = i
    BY <1>1
  <2> QED
    BY <1>1, <2>1
<1>3. ASSUME NEW t \in Elements(c) PROVE t \in Elements(s) \union Elements(r)
  BY <1>2, <1>3 DEF Elements
<1>4. ASSUME NEW t \in Elements(s) PROVE t \in Elements(c)
  <2>1. PICK i \in 1..Len(s) : t = s[i]
    BY <1>1, <1>4 DEF Elements
  <2>2. i \in DOMAIN c /\ c[i] = t
    BY <1>1, <2>1
  <2> QED
    BY <2>2 DEF Elements
<1>5. ASSUME NEW t \in Elements(r) PROVE t \in Elements(c)
  <2>1. PICK i \in 1..Len(r) : t = r[i]
    BY <1>1, <1>5 DEF Elements
  <2>2. Len(s) + i \in DOMAIN c /\ c[Len(s) + i] = t
    BY <1>1, <2>1
  <2> QED
    BY <2>2 DEF Elements
<1>6. ASSUME NEW i \in DOMAIN c, NEW j \in DOMAIN c, c[i] = c[j] PROVE i = j
  <2>1. CASE i \in DOMAIN s /\ c[i] = s[i] /\ j \in DOMAIN s /\ c[j] = s[j]
    BY <1>6, <2>1
  <2>2. CASE /\ i - Len(s) \in DOMAIN r /\ c[i] = r[i - Len(s)]
             /\ j - Len(s) \in DOMAIN r /\ c[j] = r[j - Len(s)]
    <3>1. i - Len(s) = j - Len(s)
      BY <1>6, <2>2
    <3> QED
      BY <1>1, <3>1
  <2>3. ASSUME NEW k \in DOMAIN s, NEW l \in DOMAIN r, s[k] = r[l] PROVE FALSE
    BY <2>3 DEF Elements
  <2> QED
    BY <1>2, <1>6, <2>1, <2>2, <2>3
<1> QED
  BY <1>1, <1>3, <1>4, <1>5, <1>6

-----------------------------------------------------------------------------
(* The first loop of runAll establishes the invariant. *)
LEMMA InitIndInv == Init => IndInv
<1> SUFFICES ASSUME Init PROVE IndInv
  OBVIOUS
<1> USE DEF Init
<1> DEFINE S == {t \in Tests : deps[t] = {}}
<1>1. /\ rank \in [Tests -> 1..Cardinality(Tests)]
      /\ Cardinality(Tests) \in Nat
  BY TestsAssumption, FS_CardinalityType
<1>2. rank \in [Tests -> Nat]
  BY <1>1
<1>3. ready \in Seq(Tests) /\ Elements(ready) = S
      /\ \A i, j \in DOMAIN ready : ready[i] = ready[j] => i = j
  BY <1>2, ListingFacts
<1>4. deps \in [Tests -> SUBSET Modules]
  BY ChoiceAssumption
<1>5. TypeOK
  BY <1>2, <1>3, <1>4, ModuleOfAssumption, ChoiceAssumption DEF TypeOK, Statuses, TestsOf
<1>6. \A t \in Tests : ~Taken(t) /\ ~Succeeding(t)
  BY VerdictAssumption DEF Taken, Succeeding
<1>7. \A m \in Modules : ~Completed(m)
  BY <1>6 DEF Completed, TestsOf
<1>8. TablesExact
  BY <1>4, <1>6, <1>7 DEF TablesExact, TestsOf
<1>9. ReadyExact
  BY <1>3, <1>4, <1>6, <1>7 DEF ReadyExact
<1> QED
  BY <1>5, <1>6, <1>8, <1>9 DEF IndInv, DependencyOrder

(* What taking a test changes in the derived predicates. *)
LEMMA TakenFacts ==
    ASSUME IndInv, NEW t \in Tests, ~Taken(t), NEW v \in Statuses \ {"PENDING"},
           status' = [status EXCEPT ![t] = v]
    PROVE  /\ \A u \in Tests : Taken(u)' <=> (Taken(u) \/ u = t)
           /\ \A u \in Tests : u # t => (Succeeding(u)' <=> Succeeding(u))
           /\ Succeeding(t)' <=> (v = "SKIP" \/ v = expected[t])
           /\ ~Succeeding(t)
           /\ ~Completed(moduleOf[t])
           /\ \A m \in Modules : m # moduleOf[t] => (Completed(m)' <=> Completed(m))
<1>1. status \in [Tests -> Statuses]
  BY DEF IndInv, TypeOK
<1>2. /\ \A u \in Tests : Taken(u)' <=> (Taken(u) \/ u = t)
      /\ \A u \in Tests : u # t => (Succeeding(u)' <=> Succeeding(u))
      /\ Succeeding(t)' <=> (v = "SKIP" \/ v = expected[t])
  BY <1>1 DEF Taken, Succeeding
<1>3. ~Succeeding(t)
  BY VerdictAssumption DEF Taken, Succeeding
<1>4. ~Completed(moduleOf[t])
  BY <1>3 DEF Completed, TestsOf
<1>5. ASSUME NEW m \in Modules, m # moduleOf[t]
      PROVE  Completed(m)' <=> Completed(m)
  BY <1>2, <1>5 DEF Completed, TestsOf
<1> QED
  BY <1>2, <1>3, <1>4, <1>5

(* The head of the ready list is a test that may be taken. *)
LEMMA HeadFacts ==
    ASSUME IndInv, ready # <<>>
    PROVE  /\ Head(ready) \in Tests
           /\ ~Taken(Head(ready))
           /\ \A d \in deps[Head(ready)] : Completed(d)
           /\ Tail(ready) \in Seq(Tests)
           /\ Elements(Tail(ready)) = Elements(ready) \ {Head(ready)}
           /\ \A i, j \in DOMAIN Tail(ready) : Tail(ready)[i] = Tail(ready)[j] => i = j
           /\ ~over
<1>1. ready \in Seq(Tests) /\ \A i, j \in DOMAIN ready : ready[i] = ready[j] => i = j
  BY DEF IndInv, TypeOK, ReadyExact
<1>2. /\ Tail(ready) \in Seq(Tests) /\ Head(ready) \in Elements(ready)
      /\ Elements(Tail(ready)) = Elements(ready) \ {Head(ready)}
      /\ \A i, j \in DOMAIN Tail(ready) : Tail(ready)[i] = Tail(ready)[j] => i = j
  BY <1>1, TailFacts
<1> QED
  BY <1>2 DEF IndInv, ReadyExact

(* A test that did not succeed completes nothing. *)
LEMMA FailedStep ==
    ASSUME IndInv, NEW t \in Tests, NEW v \in Verdicts, v # expected[t],
           RunTest(t, v)
    PROVE  IndInv'
<1>0. /\ ready # <<>> /\ t = Head(ready)
      /\ status' = [status EXCEPT ![t] = v]
      /\ success' = FALSE /\ runCount' = runCount + 1
      /\ unexpected' = [unexpected EXCEPT ![status'[t]] = @ + 1]
      /\ ready' = Tail(ready)
      /\ UNCHANGED <<deps, enabled, filter, rank, blocked, remaining,
                     remainingDeps, skipCount, successCount, nominal, over>>
  BY DEF RunTest, Failed, settings
<1>1. ready # <<>> /\ t = Head(ready) /\ v \in Statuses \ {"PENDING"} /\ v # "SKIP"
  BY <1>0, VerdictAssumption DEF Statuses
<1>2. /\ \A u \in Tests : Taken(u)' <=> (Taken(u) \/ u = t)
      /\ \A u \in Tests : Succeeding(u)' <=> Succeeding(u)
      /\ ~Completed(moduleOf[t])
      /\ \A m \in Modules : m # moduleOf[t] => (Completed(m)' <=> Completed(m))
  BY <1>0, <1>1, HeadFacts, TakenFacts
<1>3. \A m \in Modules : Completed(m)' <=> Completed(m)
  BY <1>0, <1>2 DEF Completed, TestsOf
<1>4. TypeOK'
  <2>1. status' \in [Tests -> Statuses] /\ status'[t] = v
    BY <1>0, <1>1 DEF IndInv, TypeOK
  <2>2. unexpected' \in [Statuses -> Nat]
    <3>1. unexpected \in [Statuses -> Nat] /\ unexpected' = [unexpected EXCEPT ![v] = @ + 1]
      BY <1>0, <2>1 DEF IndInv, TypeOK
    <3> QED
      BY <1>1, <3>1
  <2>3. over' \in BOOLEAN /\ success' \in BOOLEAN
    BY <1>0 DEF IndInv, TypeOK
  <2>4. ready' \in Seq(Tests) /\ runCount' \in Nat
    BY <1>0, <1>1, HeadFacts DEF IndInv, TypeOK
  <2> QED
    BY <1>0, <2>1, <2>2, <2>3, <2>4 DEF IndInv, TypeOK
<1>5. TablesExact'
  BY <1>0, <1>2, <1>3 DEF IndInv, TablesExact, TypeOK, TestsOf
<1>6. ReadyExact'
  BY <1>0, <1>1, <1>2, <1>3, HeadFacts DEF IndInv, ReadyExact, TypeOK
<1>7. ~over'
  BY <1>0, <1>1, HeadFacts
<1>8. DependencyOrder'
  BY <1>0, <1>1, <1>2, <1>3, HeadFacts DEF IndInv, DependencyOrder, TypeOK
<1> QED
  BY <1>4, <1>5, <1>6, <1>7, <1>8 DEF IndInv

(* A test that succeeded, by _run or by _skip, may complete its module.    *)
LEMMA SucceededStep ==
    ASSUME IndInv, NEW t \in Tests, NEW v \in Statuses \ {"PENDING"},
           v = "SKIP" \/ v = expected[t],
           ready # <<>>, t = Head(ready),
           status' = [status EXCEPT ![t] = v],
           Succeeded(t), UNCHANGED <<settings, blocked, over>>,
           runCount' \in Nat, skipCount' \in Nat
    PROVE  IndInv'
<1> DEFINE m == moduleOf[t]
           complete == remaining[m] \ {t} = {}
<1>1. /\ \A u \in Tests : Taken(u)' <=> (Taken(u) \/ u = t)
      /\ \A u \in Tests : Succeeding(u)' <=> (Succeeding(u) \/ u = t)
      /\ ~Succeeding(t) /\ ~Taken(t) /\ ~Completed(m)
      /\ \A k \in Modules : k # m => (Completed(k)' <=> Completed(k))
  BY HeadFacts, TakenFacts
<1>2. m \in Modules
  BY ModuleOfAssumption
<1>3. /\ remaining' = [remaining EXCEPT ![m] = @ \ {t}]
      /\ successCount' = successCount + 1
      /\ nominal' = [nominal EXCEPT ![v] = @ + 1]
      /\ UNCHANGED <<success, unexpected>>
      /\ status \in [Tests -> Statuses]
  BY DEF Succeeded, IndInv, TypeOK
<1>4. Completed(m)' <=> complete
  <2>1. remaining[m] = {u \in TestsOf(m) : ~Succeeding(u)}
    BY <1>2 DEF IndInv, TablesExact
  <2>2. t \in TestsOf(m)
    BY DEF TestsOf
  <2> QED
    BY <1>1, <2>1, <2>2 DEF Completed, TestsOf
<1>5. /\ deps \in [Tests -> SUBSET Modules]
      /\ remainingDeps \in [Tests -> SUBSET Modules]
      /\ blocked[m] = {u \in Tests : m \in deps[u]}
      /\ \A u \in Tests : remainingDeps[u] = {d \in deps[u] : ~Completed(d)}
      /\ UNCHANGED <<deps, enabled, filter, rank, blocked, over>>
  BY <1>2 DEF IndInv, TypeOK, TablesExact, settings
<1>8. /\ status' \in [Tests -> Statuses]
      /\ remaining' \in [Modules -> SUBSET Tests]
      /\ successCount' \in Nat /\ runCount' \in Nat /\ skipCount' \in Nat
      /\ nominal' \in [Statuses -> Nat] /\ unexpected' \in [Statuses -> Nat]
      /\ success' \in BOOLEAN /\ over' \in BOOLEAN
  <2>1. success' \in BOOLEAN /\ over' \in BOOLEAN
    <3>1. success' = success /\ over' = over
      BY <1>3, <1>5
    <3> QED
      BY <3>1 DEF IndInv, TypeOK
  <2>2. nominal' \in [Statuses -> Nat] /\ unexpected' \in [Statuses -> Nat]
    <3>1. nominal \in [Statuses -> Nat] /\ unexpected \in [Statuses -> Nat]
      BY DEF IndInv, TypeOK
    <3> QED
      BY <1>3, <3>1
  <2>3. successCount' \in Nat
    BY <1>3 DEF IndInv, TypeOK
  <2>5. remaining' \in [Modules -> SUBSET Tests]
    <3>1. remaining \in [Modules -> SUBSET Tests] /\ remaining[m] \ {t} \in SUBSET Tests
      BY <1>2 DEF IndInv, TypeOK
    <3> QED
      BY <1>2, <1>3, <3>1
  <2>4. status' \in [Tests -> Statuses]
    BY <1>3
  <2> QED
    BY <2>1, <2>2, <2>3, <2>4, <2>5
<1>9. \A k \in Modules : remaining'[k] = {u \in TestsOf(k) : ~Succeeding(u)'}
  <2>1. /\ remaining \in [Modules -> SUBSET Tests]
        /\ \A k \in Modules : remaining[k] = {u \in TestsOf(k) : ~Succeeding(u)}
    BY DEF IndInv, TypeOK, TablesExact
  <2>2. /\ remaining'[m] = remaining[m] \ {t}
        /\ \A k \in Modules : k # m => remaining'[k] = remaining[k]
    BY <1>2, <1>3, <2>1
  <2> QED
    BY <1>1, <1>2, <2>1, <2>2 DEF TestsOf
<1>6. CASE ~complete
  <2>1. ready' = Tail(ready) /\ remainingDeps' = remainingDeps
    BY <1>6 DEF Succeeded
  <2>2. \A k \in Modules : Completed(k)' <=> Completed(k)
    BY <1>1, <1>4, <1>6
  <2>3. TypeOK'
    BY <1>5, <1>8, <2>1, HeadFacts DEF IndInv, TypeOK
  <2>4. TablesExact'
    <3>1. \A u \in Tests : remainingDeps'[u] = {d \in deps'[u] : ~Completed(d)'}
      BY <1>5, <2>1, <2>2
    <3> QED
      BY <1>5, <1>9, <3>1 DEF IndInv, TablesExact, TestsOf
  <2>5. ReadyExact'
    BY <1>1, <1>5, <2>1, <2>2, HeadFacts DEF IndInv, ReadyExact
  <2>6. DependencyOrder'
    BY <1>1, <1>5, <2>2, HeadFacts DEF IndInv, DependencyOrder
  <2> QED
    BY <1>5, <2>3, <2>4, <2>5, <2>6, HeadFacts DEF IndInv
<1>7. CASE complete
  <2> DEFINE U == Unblocked(m)
  <2>1. PICK s \in Listings(U) : ready' = s \o Tail(ready)
    BY <1>7 DEF Succeeded
  <2>2. remainingDeps' = [u \in Tests |-> IF u \in blocked[m]
                                          THEN remainingDeps[u] \ {m}
                                          ELSE remainingDeps[u]]
    BY <1>7 DEF Succeeded
  <2>3. U \in SUBSET Tests /\ rank \in [Tests -> Nat]
    BY <1>5 DEF Unblocked, IndInv, TypeOK
  <2>4. /\ s \in Seq(Tests) /\ Elements(s) = U
        /\ \A i, j \in DOMAIN s : s[i] = s[j] => i = j
    BY <2>3, ListingFacts
  <2>5. \A u \in U : ~(\A d \in deps[u] : Completed(d)) /\ ~Taken(u)
    <3> SUFFICES ASSUME NEW u \in U
                 PROVE  ~(\A d \in deps[u] : Completed(d)) /\ ~Taken(u)
      OBVIOUS
    <3>1. u \in Tests /\ m \in deps[u] /\ ~Completed(m)
      BY <1>1, <1>5 DEF Unblocked
    <3>2. ~Taken(u)
      BY <3>1 DEF IndInv, DependencyOrder
    <3> QED
      BY <3>1, <3>2
  <2>6. Elements(s) \cap Elements(Tail(ready)) = {}
    BY <2>4, <2>5, HeadFacts DEF IndInv, ReadyExact
  <2>7. /\ ready' \in Seq(Tests)
        /\ Elements(ready') = U \union Elements(Tail(ready))
        /\ \A i, j \in DOMAIN ready' : ready'[i] = ready'[j] => i = j
    BY <2>1, <2>4, <2>6, HeadFacts, ConcatFacts
  <2>8. \A k \in Modules : Completed(k)' <=> (Completed(k) \/ k = m)
    BY <1>1, <1>4, <1>7
  <2>9. TypeOK'
    <3>1. remainingDeps' \in [Tests -> SUBSET Modules]
      BY <1>5, <2>2
    <3> QED
      BY <1>5, <1>8, <2>7, <3>1 DEF IndInv, TypeOK
  <2>10. TablesExact'
    <3>1. \A u \in Tests : remainingDeps'[u] = {d \in deps'[u] : ~Completed(d)'}
      BY <1>5, <2>2, <2>8
    <3> QED
      BY <1>5, <1>9, <3>1 DEF IndInv, TablesExact, TestsOf
  <2>11. ASSUME NEW u \in Tests
         PROVE  u \in Elements(ready') <=>
                    ~Taken(u)' /\ \A d \in deps[u] : Completed(d)'
    BY <1>1, <1>5, <2>5, <2>7, <2>8, HeadFacts DEF IndInv, ReadyExact, Unblocked
  <2>12. ReadyExact'
    BY <1>5, <2>7, <2>11 DEF ReadyExact, Elements
  <2>13. DependencyOrder'
    BY <1>1, <1>5, <2>8, HeadFacts DEF IndInv, DependencyOrder
  <2> QED
    BY <1>5, <2>9, <2>10, <2>12, <2>13, HeadFacts DEF IndInv
<1> QED
  BY <1>6, <1>7

(* Every step of runAll preserves the invariant. *)
LEMMA NextIndInv == IndInv /\ [Next]_vars => IndInv'
<1> SUFFICES ASSUME IndInv, [Next]_vars PROVE IndInv'
  OBVIOUS
<1>1. ASSUME NEW t \in Tests, SkipTest(t) PROVE IndInv'
  <2>1. runCount' \in Nat /\ skipCount' \in Nat
    BY <1>1 DEF SkipTest, IndInv, TypeOK
  <2>2. "SKIP" \in Statuses \ {"PENDING"}
    BY DEF Statuses
  <2> QED
    BY <1>1, <2>1, <2>2, SucceededStep DEF SkipTest
<1>2. ASSUME NEW t \in Tests, NEW v \in Verdicts, RunTest(t, v) PROVE IndInv'
  <2>1. CASE v = expected[t]
    <3>1. runCount' \in Nat /\ skipCount' \in Nat
      BY <1>2 DEF RunTest, IndInv, TypeOK
    <3>2. v \in Statuses \ {"PENDING"}
      BY VerdictAssumption DEF Statuses
    <3> QED
      BY <1>2, <2>1, <3>1, <3>2, SucceededStep DEF RunTest
  <2>2. CASE v # expected[t]
    BY <1>2, <2>2, FailedStep
  <2> QED
    BY <2>1, <2>2
<1>3. ASSUME Summarize \/ Finished \/ UNCHANGED vars PROVE IndInv'
  <2>1. UNCHANGED <<deps, enabled, filter, rank, ready, blocked, remaining,
                    remainingDeps, status, success, runCount, skipCount,
                    successCount, nominal, unexpected>>
    BY <1>3 DEF Summarize, Finished, vars, settings, counters
  <2>2. over' \in BOOLEAN /\ (over' => ready' = <<>>)
    <3>1. CASE Summarize
      BY <3>1 DEF Summarize
    <3>2. CASE over' = over
      BY <2>1, <3>2 DEF IndInv, TypeOK
    <3> QED
      BY <1>3, <3>1, <3>2 DEF Finished, vars
  <2>3. TypeOK'
    BY <2>1, <2>2 DEF IndInv, TypeOK
  <2>4. /\ \A t : Taken(t)' <=> Taken(t)
        /\ \A t : Succeeding(t)' <=> Succeeding(t)
    BY <2>1 DEF Taken, Succeeding
  <2>5. \A m : Completed(m)' <=> Completed(m)
    BY <2>4 DEF Completed, TestsOf
  <2>6. TablesExact' /\ ReadyExact' /\ DependencyOrder'
    BY <2>1, <2>4, <2>5 DEF IndInv, TablesExact, ReadyExact, DependencyOrder,
                            Elements
  <2> QED
    BY <2>2, <2>3, <2>6 DEF IndInv
<1> QED
  BY <1>1, <1>2, <1>3 DEF Next

(* The invariant holds in every reachable state of runAll. *)
THEOREM Invariance == Spec => []IndInv
  BY InitIndInv, NextIndInv, PTL DEF Spec

(* Type correctness of runAll's variables. *)
THEOREM TypeCorrect == Spec => []TypeOK
<1>1. IndInv => TypeOK
  BY DEF IndInv
<1> QED
  BY <1>1, Invariance, PTL

(* The ready list is exact: nothing that may run is missing from it, and   *)
(* nothing is queued too early or twice.                                   *)
THEOREM ReadyListExact == Spec => []ReadyExact
<1>1. IndInv => ReadyExact
  BY DEF IndInv
<1> QED
  BY <1>1, Invariance, PTL

(* No test is taken before the modules it depends on are completed. *)
THEOREM DependenciesFirst == Spec => []DependencyOrder
<1>1. IndInv => DependencyOrder
  BY DEF IndInv
<1> QED
  BY <1>1, Invariance, PTL

(* A module that can still be completed has no deleted test on its list:   *)
(* a deleted one would have been taken while a module it depends on still  *)
(* had remaining tests.                                                    *)
THEOREM NoUseAfterDelete == Spec => []NoDanglingBlocked
<1>1. ASSUME IndInv PROVE NoDanglingBlocked
  <2> SUFFICES ASSUME NEW m \in Modules, remaining[m] # {},
                      NEW u \in blocked[m], Taken(u)
               PROVE  FALSE
    BY DEF NoDanglingBlocked
  <2>1. u \in Tests /\ m \in deps[u]
    BY <1>1 DEF IndInv, TablesExact
  <2>2. Completed(m)
    BY <1>1, <2>1 DEF IndInv, DependencyOrder
  <2>3. remaining[m] = {t \in TestsOf(m) : ~Succeeding(t)}
    BY <1>1 DEF IndInv, TablesExact
  <2> QED
    BY <2>2, <2>3 DEF Completed
<1> QED
  BY <1>1, Invariance, PTL

(* The tables runAll keeps by hand, remaining, blocked and the tests'      *)
(* _remainingDependencies, agree with the statuses at every step.          *)
THEOREM TablesAreExact == Spec => []TablesExact
<1>1. IndInv => TablesExact
  BY DEF IndInv
<1> QED
  BY <1>1, Invariance, PTL
-----------------------------------------------------------------------------
(* The counters.  Each counts a set of tests, and taking a test adds it to *)
(* the sets it belongs to and to no other.                                 *)
WithStatus(v) == {t \in Tests : status[t] = v}
TakenTests == {t \in Tests : Taken(t)}
SucceedingTests == {t \in Tests : Succeeding(t)}

Counted ==
    /\ runCount = Cardinality(TakenTests)
    /\ skipCount = Cardinality(WithStatus("SKIP"))
    /\ successCount = Cardinality(SucceedingTests)
    /\ \A v \in Statuses \ {"PENDING"} :
          nominal[v] + unexpected[v] = Cardinality(WithStatus(v))
    /\ success <=> TakenTests \subseteq SucceedingTests

LEMMA SubsetCounts ==
    ASSUME NEW S \in SUBSET Tests
    PROVE  IsFiniteSet(S) /\ Cardinality(S) \in Nat
  BY TestsAssumption, FS_Subset, FS_CardinalityType

LEMMA OneMore ==
    ASSUME NEW S \in SUBSET Tests, NEW T, NEW t, t \notin S, T = S \union {t}
    PROVE  Cardinality(T) = Cardinality(S) + 1
  BY SubsetCounts, FS_AddElement

LEMMA Remainder ==
    ASSUME NEW S \in SUBSET Tests, NEW T \in SUBSET S
    PROVE  Cardinality(S \ T) = Cardinality(S) - Cardinality(T)
<1>1. S \cap T = T
  OBVIOUS
<1>2. IsFiniteSet(S)
  BY SubsetCounts
<1> QED
  BY <1>1, <1>2, FS_Difference

(* What taking t with status v does to the sets. *)
LEMMA CountedSets ==
    ASSUME IndInv, NEW t \in Tests, NEW v \in Statuses \ {"PENDING"}, ~Taken(t),
           status' = [status EXCEPT ![t] = v]
    PROVE  /\ Cardinality(TakenTests)' = Cardinality(TakenTests) + 1
           /\ Cardinality(WithStatus(v))' = Cardinality(WithStatus(v)) + 1
           /\ \A w \in Statuses \ {"PENDING", v} : WithStatus(w)' = WithStatus(w)
           /\ SucceedingTests' = IF v = "SKIP" \/ v = expected[t]
                                 THEN SucceedingTests \union {t} ELSE SucceedingTests
           /\ TakenTests' = TakenTests \union {t}
           /\ t \notin SucceedingTests
<1>1. status \in [Tests -> Statuses] /\ status[t] = "PENDING"
  BY DEF IndInv, TypeOK, Taken
<1>2. TakenTests' = TakenTests \union {t} /\ t \notin TakenTests
  BY <1>1 DEF TakenTests, Taken
<1>3. WithStatus(v)' = WithStatus(v) \union {t} /\ t \notin WithStatus(v)
  BY <1>1 DEF WithStatus
<1>4. \A w \in Statuses \ {"PENDING", v} : WithStatus(w)' = WithStatus(w)
  BY <1>1 DEF WithStatus
<1>5. /\ SucceedingTests' = IF v = "SKIP" \/ v = expected[t]
                            THEN SucceedingTests \union {t} ELSE SucceedingTests
      /\ t \notin SucceedingTests
  BY TakenFacts DEF SucceedingTests
<1>6. TakenTests \subseteq Tests /\ WithStatus(v) \subseteq Tests
  BY DEF TakenTests, WithStatus
<1> QED
  BY <1>2, <1>3, <1>4, <1>5, <1>6, OneMore

LEMMA CountedStep == IndInv /\ Counted /\ [Next]_vars => Counted'
<1> SUFFICES ASSUME IndInv, Counted, [Next]_vars PROVE Counted'
  OBVIOUS
<1>a. SucceedingTests \subseteq Tests /\ "SKIP" \in Statuses \ {"PENDING"}
  BY DEF SucceedingTests, Statuses
<1>b. /\ nominal \in [Statuses -> Nat] /\ unexpected \in [Statuses -> Nat]
      /\ status \in [Tests -> Statuses]
  BY DEF IndInv, TypeOK
<1>1. ASSUME NEW t \in Tests, NEW v \in Statuses \ {"PENDING"},
             v = "SKIP" \/ v = expected[t], ready # <<>>, t = Head(ready),
             status' = [status EXCEPT ![t] = v], Succeeded(t),
             runCount' = runCount + 1,
             skipCount' = IF v = "SKIP" THEN skipCount + 1 ELSE skipCount
      PROVE  Counted'
  <2>1. /\ Cardinality(TakenTests)' = Cardinality(TakenTests) + 1
        /\ Cardinality(WithStatus(v))' = Cardinality(WithStatus(v)) + 1
        /\ \A w \in Statuses \ {"PENDING", v} : WithStatus(w)' = WithStatus(w)
        /\ SucceedingTests' = SucceedingTests \union {t}
        /\ TakenTests' = TakenTests \union {t}
        /\ t \notin SucceedingTests
    BY <1>1, HeadFacts, CountedSets
  <2>2. Cardinality(SucceedingTests)' = Cardinality(SucceedingTests) + 1
    BY <1>a, <2>1, OneMore
  <2>3. /\ successCount' = successCount + 1
        /\ nominal' = [nominal EXCEPT ![v] = @ + 1]
        /\ UNCHANGED <<success, unexpected>>
    BY <1>1, <1>b DEF Succeeded
  <2>4. \A w \in Statuses \ {"PENDING"} :
            nominal'[w] + unexpected'[w] = Cardinality(WithStatus(w))'
    <3> SUFFICES ASSUME NEW w \in Statuses \ {"PENDING"}
                 PROVE  nominal'[w] + unexpected'[w] = Cardinality(WithStatus(w))'
      OBVIOUS
    <3>1. nominal[w] + unexpected[w] = Cardinality(WithStatus(w))
      BY DEF Counted
    <3>2. CASE w = v
      BY <1>b, <2>1, <2>3, <3>1, <3>2
    <3>3. CASE w # v
      BY <1>b, <2>1, <2>3, <3>1, <3>3
    <3> QED
      BY <3>2, <3>3
  <2>5. skipCount' = Cardinality(WithStatus("SKIP"))'
    BY <1>1, <1>a, <2>1 DEF Counted
  <2>6. (success <=> TakenTests \subseteq SucceedingTests)'
    <3>1. TakenTests' \subseteq SucceedingTests' <=> TakenTests \subseteq SucceedingTests
      <4>1. t \notin TakenTests
        BY <1>1, HeadFacts DEF TakenTests
      <4> QED
        BY <2>1, <4>1
    <3>2. success' = success
      BY <2>3
    <3> QED
      BY <3>1, <3>2, Zenon DEF Counted
  <2> QED
    BY <1>1, <2>1, <2>2, <2>3, <2>4, <2>5, <2>6 DEF Counted
<1>2. ASSUME NEW t \in Tests, NEW v \in Verdicts, v # expected[t], RunTest(t, v)
      PROVE  Counted'
  <2>0. /\ ready # <<>> /\ t = Head(ready)
        /\ status' = [status EXCEPT ![t] = v]
        /\ success' = FALSE /\ runCount' = runCount + 1
        /\ unexpected' = [unexpected EXCEPT ![status'[t]] = @ + 1]
        /\ UNCHANGED <<skipCount, successCount, nominal>>
        /\ v \in Statuses \ {"PENDING", "SKIP"} /\ status'[t] = v
    BY <1>2, <1>b, VerdictAssumption DEF RunTest, Failed, Statuses
  <2>1. /\ Cardinality(TakenTests)' = Cardinality(TakenTests) + 1
        /\ Cardinality(WithStatus(v))' = Cardinality(WithStatus(v)) + 1
        /\ \A w \in Statuses \ {"PENDING", v} : WithStatus(w)' = WithStatus(w)
        /\ SucceedingTests' = SucceedingTests
        /\ TakenTests' = TakenTests \union {t}
        /\ t \notin SucceedingTests
    BY <1>2, <2>0, HeadFacts, CountedSets
  <2>4. \A w \in Statuses \ {"PENDING"} :
            nominal'[w] + unexpected'[w] = Cardinality(WithStatus(w))'
    <3> SUFFICES ASSUME NEW w \in Statuses \ {"PENDING"}
                 PROVE  nominal'[w] + unexpected'[w] = Cardinality(WithStatus(w))'
      OBVIOUS
    <3>1. nominal[w] + unexpected[w] = Cardinality(WithStatus(w))
      BY DEF Counted
    <3>2. CASE w = v
      BY <1>b, <2>0, <2>1, <3>1, <3>2
    <3>3. CASE w # v
      BY <1>b, <2>0, <2>1, <3>1, <3>3
    <3> QED
      BY <3>2, <3>3
  <2>5. skipCount' = Cardinality(WithStatus("SKIP"))'
    BY <1>a, <2>0, <2>1 DEF Counted
  <2>6. (success <=> TakenTests \subseteq SucceedingTests)'
    BY <2>0, <2>1
  <2> QED
    BY <2>0, <2>1, <2>4, <2>5, <2>6 DEF Counted
<1>3. ASSUME NEW t \in Tests, SkipTest(t) PROVE Counted'
  BY <1>1, <1>3, <1>a DEF SkipTest
<1>4. ASSUME NEW t \in Tests, NEW v \in Verdicts, RunTest(t, v) PROVE Counted'
  <2>1. CASE v = expected[t]
    <3>1. v \in Statuses \ {"PENDING"} /\ v # "SKIP"
      BY VerdictAssumption DEF Statuses
    <3> QED
      BY <1>1, <1>4, <2>1, <3>1 DEF RunTest
  <2> QED
    BY <1>2, <1>4, <2>1
<1>5. ASSUME Summarize \/ Finished \/ UNCHANGED vars PROVE Counted'
  <2>1. UNCHANGED <<status, success, runCount, skipCount, successCount, nominal, unexpected>>
    BY <1>5 DEF Summarize, Finished, vars, counters
  <2> QED
    BY <2>1 DEF Counted, TakenTests, SucceedingTests, WithStatus, Taken, Succeeding
<1> QED
  BY <1>3, <1>4, <1>5 DEF Next

(* The totals that runAll prints count each test once, no unsigned         *)
(* subtraction wraps, and the exit code of main tells the truth.           *)
THEOREM SummaryIsExact == Spec => []SummaryExact
<1>1. Init => Counted
  <2> SUFFICES ASSUME Init PROVE Counted
    OBVIOUS
  <2>1. TakenTests = {} /\ SucceedingTests = {}
        /\ \A v \in Statuses \ {"PENDING"} : WithStatus(v) = {}
    BY VerdictAssumption
       DEF Init, TakenTests, SucceedingTests, WithStatus, Taken, Succeeding
  <2>2. "SKIP" \in Statuses \ {"PENDING"}
    BY DEF Statuses
  <2>3. success <=> TakenTests \subseteq SucceedingTests
    BY <2>1 DEF Init
  <2>4. /\ runCount = 0 /\ skipCount = 0 /\ successCount = 0
        /\ \A v \in Statuses : nominal[v] + unexpected[v] = 0
    BY DEF Init
  <2>5. \A v \in Statuses \ {"PENDING"} :
            nominal[v] + unexpected[v] = Cardinality(WithStatus(v))
    BY <2>1, <2>4, FS_EmptySet
  <2> QED
    BY <2>1, <2>2, <2>3, <2>4, <2>5, FS_EmptySet DEF Counted
<1>2. ASSUME IndInv, Counted PROVE SummaryExact
  <2> DEFINE matched == {t \in Tests : status[t] = expected[t]}
  <2>1. /\ TakenTests \subseteq Tests /\ SucceedingTests \subseteq TakenTests
        /\ WithStatus("SKIP") \subseteq SucceedingTests /\ SucceedingTests \subseteq Tests
    BY VerdictAssumption
       DEF TakenTests, SucceedingTests, WithStatus, Taken, Succeeding
  <2>2. /\ matched = SucceedingTests \ WithStatus("SKIP")
        /\ {t \in Tests : Taken(t) /\ ~Succeeding(t)} = TakenTests \ SucceedingTests
        /\ {t \in Tests : ~Taken(t)} = Tests \ TakenTests
    BY VerdictAssumption
       DEF TakenTests, SucceedingTests, WithStatus, Succeeding
  <2>3. /\ Cardinality(matched) = Cardinality(SucceedingTests) - Cardinality(WithStatus("SKIP"))
        /\ Cardinality({t \in Tests : Taken(t) /\ ~Succeeding(t)})
               = Cardinality(TakenTests) - Cardinality(SucceedingTests)
        /\ Cardinality({t \in Tests : ~Taken(t)}) = Cardinality(Tests) - Cardinality(TakenTests)
    BY <2>1, <2>2, Remainder
  <2>4. /\ runCount \in Nat /\ skipCount \in Nat /\ successCount \in Nat
        /\ Cardinality(Tests) \in Nat /\ success \in BOOLEAN
    BY <1>2, SubsetCounts DEF IndInv, TypeOK
  <2>5. ExitCode = 0 <=> \A t \in Tests : Taken(t) => Succeeding(t)
    BY <1>2, <2>4 DEF Counted, TakenTests, SucceedingTests, ExitCode
  <2>6. Passed + NotMatched + NotRun = Total
    BY <2>4 DEF Passed, NotMatched, NotRun, Total
  <2> QED
    BY <1>2, <2>3, <2>5, <2>6 DEF Counted, SummaryExact, Passed, NotMatched, NotRun, WithStatus
<1> QED
  BY <1>1, <1>2, CountedStep, Invariance, PTL DEF Spec
-----------------------------------------------------------------------------
(* Scheduler implements Schedule: taking the head of the ready list is a   *)
(* step Take allows, and leaving the loop is one Stop allows.              *)
THEOREM Refinement == Spec => ImplementsSchedule
<1> DEFINE out == [t \in Tests |-> IF ~Taken(t) THEN "none"
                                   ELSE IF Succeeding(t) THEN "ok" ELSE "bad"]
<1>a. \A m : A!TestsOf(m) = TestsOf(m)
  BY DEF A!TestsOf, TestsOf
<1>b. ASSUME IndInv PROVE \A m : A!Completed(m) <=> Completed(m)
  <2>1. \A t \in Tests : Succeeding(t) => Taken(t)
    BY VerdictAssumption DEF Succeeding, Taken
  <2> QED
    BY <2>1 DEF A!Completed, Completed, TestsOf, A!TestsOf
<1>c. ASSUME IndInv, NEW t \in Tests
      PROVE  A!MayRun(t) <=> ~Taken(t) /\ \A d \in deps[t] : Completed(d)
  BY <1>b, <1>c DEF A!MayRun
<1>1. Init => A!Init
  <2> SUFFICES ASSUME Init PROVE A!Init
    OBVIOUS
  <2>1. deps \in [Tests -> SUBSET Modules] /\ over = FALSE
    BY ChoiceAssumption DEF Init
  <2>2. \A t \in Tests : ~Taken(t)
    BY DEF Init, Taken
  <2> QED
    BY <2>1, <2>2 DEF A!Init
<1>2. IndInv /\ IndInv' /\ [Next]_vars => [A!Next]_(A!vars)
  <2> SUFFICES ASSUME IndInv, IndInv', [Next]_vars PROVE A!Next \/ UNCHANGED A!vars
    OBVIOUS
  <2>1. ASSUME NEW t \in Tests, NEW v \in Statuses \ {"PENDING"},
               ready # <<>>, t = Head(ready), status' = [status EXCEPT ![t] = v],
               UNCHANGED <<settings, over>>
        PROVE  A!Take(t)
    <3>1. ~Taken(t) /\ ~over /\ \A d \in deps[t] : Completed(d)
      BY <2>1, HeadFacts
    <3>2. A!MayRun(t)
      BY <1>c, <3>1
    <3>3. /\ \A u \in Tests : Taken(u)' <=> (Taken(u) \/ u = t)
          /\ \A u \in Tests : u # t => (Succeeding(u)' <=> Succeeding(u))
      BY <2>1, <3>1, TakenFacts
    <3>4. PICK r \in {"ok", "bad"} : r = IF Succeeding(t)' THEN "ok" ELSE "bad"
      OBVIOUS
    <3>5. out' = [out EXCEPT ![t] = r]
      BY <3>3, <3>4
    <3> QED
      BY <2>1, <3>1, <3>2, <3>5 DEF A!Take, settings
  <2>2. ASSUME NEW t \in Tests, SkipTest(t) PROVE A!Take(t)
    <3>1. "SKIP" \in Statuses \ {"PENDING"}
      BY DEF Statuses
    <3> QED
      BY <2>1, <2>2, <3>1 DEF SkipTest
  <2>3. ASSUME NEW t \in Tests, NEW v \in Verdicts, RunTest(t, v) PROVE A!Take(t)
    <3>1. v \in Statuses \ {"PENDING"}
      BY VerdictAssumption DEF Statuses
    <3> QED
      BY <2>1, <2>3, <3>1 DEF RunTest
  <2>4. ASSUME Summarize PROVE A!Stop
    <3>1. \A t \in Tests : ~A!MayRun(t)
      BY <1>c, <2>4 DEF Summarize, IndInv, ReadyExact, Elements
    <3>2. out' = out
      BY <2>4 DEF Summarize, Taken, Succeeding
    <3> QED
      BY <2>4, <3>1, <3>2 DEF A!Stop, Summarize, settings
  <2>5. ASSUME Finished \/ UNCHANGED vars PROVE UNCHANGED A!vars
    BY <2>5 DEF Finished, vars, settings, A!vars, Taken, Succeeding
  <2> QED
    BY <2>2, <2>3, <2>4, <2>5 DEF Next, A!Next
<1> QED
  BY <1>1, <1>2, Invariance, PTL DEF Spec, ImplementsSchedule, A!Spec
-----------------------------------------------------------------------------
(* Registration.  The tables after n calls are written down without the   *)
(* calls before, call by call; Register is the state after the last.      *)

(* The registry that the first n calls leave, said without a history. *)
Upto(p, op, x, n) == {i \in At(p, op, x) : i <= n}
Given(p, n) == {p[i].of : i \in {j \in 1..n : p[j].op = "module"}}
MadeBy(p, n) == {p[i].of : i \in {j \in 1..n : p[j].op = "test"}}
Latest(p, m, n) == CHOOSE i \in Upto(p, "module", m, n) : \A j \in Upto(p, "module", m, n) : j <= i
Counting(p, t, n) ==
    LET m == p[Made(p, t)].on
    IN  Upto(p, "dependsOn", t, n)
            \union (Upto(p, "module", m, n) \ Replaced(p, m, Made(p, t)))
State(p, n) ==
    [globals |-> [m \in Given(p, n) |-> p[Latest(p, m, n)].on],
     module |-> [t \in MadeBy(p, n) |-> p[Made(p, t)].on],
     deps |-> [t \in MadeBy(p, n) |-> Asked(p, Counting(p, t, n))]]

(* What the lemmas need of a program. *)
IsCalls(p) == /\ Len(p) \in Nat /\ DOMAIN p = 1..Len(p) /\ IsProgram(p)
              /\ \A i \in DOMAIN p : p[i].op \in {"module", "test", "dependsOn"}

LEMMA AskedFacts ==
    ASSUME NEW p, NEW I, NEW i
    PROVE  /\ Asked(p, {}) = {} /\ Asked(p, {i}) = p[i].on
           /\ Asked(p, I \union {i}) = Asked(p, I) \union p[i].on
BY DEF Asked

LEMMA MadeFacts ==
    ASSUME NEW p, IsCalls(p), NEW i \in DOMAIN p, p[i].op = "test"
    PROVE  /\ Made(p, p[i].of) = i
           /\ \A j \in DOMAIN p : p[j].op = "test" /\ p[j].of = p[i].of => j = i
<1>1. At(p, "test", p[i].of) = {i}
  BY DEF IsCalls, IsProgram
<1> QED
  BY <1>1 DEF Made, At

(* One call more. *)
LEMMA UptoFacts ==
    ASSUME NEW p, IsCalls(p), NEW n \in Nat, n + 1 <= Len(p), NEW op, NEW x
    PROVE  Upto(p, op, x, n + 1) = Upto(p, op, x, n) \union
               (IF p[n + 1].op = op /\ p[n + 1].of = x THEN {n + 1} ELSE {})
<1>1. n + 1 \in DOMAIN p /\ DOMAIN p \subseteq Nat
  BY DEF IsCalls
<1>2. \A i \in DOMAIN p : i <= n + 1 <=> i <= n \/ i = n + 1
  BY <1>1
<1>3. ~(n + 1 <= n)
  OBVIOUS
<1> QED
  BY <1>1, <1>2, <1>3 DEF Upto, At

LEMMA NamesFacts ==
    ASSUME NEW p, IsCalls(p), NEW n \in Nat, n + 1 <= Len(p)
    PROVE  /\ Given(p, n + 1) = IF p[n + 1].op = "module" THEN Given(p, n) \union {p[n + 1].of}
                                ELSE Given(p, n)
           /\ MadeBy(p, n + 1) = IF p[n + 1].op = "test" THEN MadeBy(p, n) \union {p[n + 1].of}
                                 ELSE MadeBy(p, n)
<1>1. 1..(n + 1) = (1..n) \union {n + 1}
  OBVIOUS
<1>2. \A op : {j \in 1..(n + 1) : p[j].op = op}
             = {j \in 1..n : p[j].op = op} \union (IF p[n + 1].op = op THEN {n + 1} ELSE {})
  BY <1>1
<1> QED
  BY <1>2 DEF Given, MadeBy

(* A set of some of the numbers up to n has a largest. *)
LEMMA LargestOf ==
    ASSUME NEW n \in Nat, NEW S \in SUBSET (1..n), S # {}
    PROVE  \E l \in S : \A j \in S : j <= l
<1> DEFINE R == OpToRel(<, Nat)
           N == {n - i : i \in S}
<1>1. IsWellFoundedOn(R, Nat)
  BY NatLessThanWellFounded
<1>2. \A x, y \in Nat : y < x => <<y, x>> \in R
  BY DEF OpToRel
<1>3. N \subseteq Nat /\ N # {}
  <2>1. \A i \in S : i \in Nat /\ i <= n
    OBVIOUS
  <2>2. \A i \in S : n - i \in Nat
    BY <2>1
  <2> QED
    BY <2>2
<1> HIDE DEF R
<1>4. PICK k \in N : \A j \in N : ~(<<j, k>> \in R)
  BY <1>1, <1>3, WFMin
<1>5. PICK l \in S : k = n - l
  BY <1>4
<1>6. ASSUME NEW j \in S
      PROVE  j <= l
  <2>1. n - j \in Nat /\ k \in Nat /\ n - j \in N
    BY <1>3, <1>4
  <2>2. ~(n - j < k)
    BY <1>2, <1>4, <2>1
  <2> QED
    BY <1>5, <2>2
<1> QED
  BY <1>5, <1>6

(* The last declaration. *)
LEMMA LatestFacts ==
    ASSUME NEW p, IsCalls(p), NEW n \in Nat, n + 1 <= Len(p), NEW m
    PROVE  /\ p[n + 1].op = "module" /\ p[n + 1].of = m => Latest(p, m, n + 1) = n + 1
           /\ p[n + 1].op # "module" \/ p[n + 1].of # m => Latest(p, m, n + 1) = Latest(p, m, n)
<1>1. CASE p[n + 1].op = "module" /\ p[n + 1].of = m
  <2> DEFINE S == Upto(p, "module", m, n + 1)
  <2>1. n + 1 \in S /\ \A j \in S : j <= n + 1 /\ j \in Nat
    BY <1>1, UptoFacts DEF Upto, At, IsCalls
  <2>2. \A i \in S : (\A j \in S : j <= i) => i = n + 1
    BY <2>1
  <2> HIDE DEF S
  <2>3. (CHOOSE i \in S : \A j \in S : j <= i) = n + 1
    BY <2>1, <2>2
  <2> QED
    BY <1>1, <2>3 DEF Latest, S
<1>2. CASE p[n + 1].op # "module" \/ p[n + 1].of # m
  BY <1>2, UptoFacts DEF Latest
<1> QED
  BY <1>1, <1>2

(* A test that is there was constructed before. *)
LEMMA ThereFacts ==
    ASSUME NEW p, IsCalls(p), NEW n \in Nat, n + 1 <= Len(p), NEW t \in MadeBy(p, n)
    PROVE  /\ Made(p, t) \in DOMAIN p /\ Made(p, t) \in 1..n
           /\ p[Made(p, t)].op = "test" /\ p[Made(p, t)].of = t
           /\ p[n + 1].op = "test" => p[n + 1].of # t
<1>1. PICK i \in 1..n : p[i].op = "test" /\ p[i].of = t
  BY DEF MadeBy
<1>2. i \in DOMAIN p /\ n + 1 \in DOMAIN p /\ i # n + 1
  BY <1>1 DEF IsCalls
<1>3. Made(p, t) = i /\ (p[n + 1].op = "test" => p[n + 1].of # t)
  BY <1>1, <1>2, MadeFacts
<1> QED
  BY <1>1, <1>2, <1>3

(* What counts for a test that is there, after one call more. *)
LEMMA CountingFacts ==
    ASSUME NEW p, IsCalls(p), NEW n \in Nat, n + 1 <= Len(p), NEW t \in MadeBy(p, n)
    PROVE  LET c == p[n + 1]
               m == p[Made(p, t)].on
           IN  Counting(p, t, n + 1) =
                   IF (c.op = "dependsOn" /\ c.of = t) \/ (c.op = "module" /\ c.of = m)
                   THEN Counting(p, t, n) \union {n + 1} ELSE Counting(p, t, n)
<1> DEFINE c == p[n + 1]
           i == Made(p, t)
           m == p[i].on
           B == Upto(p, "dependsOn", t, n)
           M == Upto(p, "module", m, n)
           R == Replaced(p, m, i)
<1>1. i \in 1..n
  BY ThereFacts
<1>2. n + 1 \notin R
  BY <1>1 DEF Replaced
<1>3. Counting(p, t, n) = B \union (M \ R)
  BY DEF Counting
<1>4. Counting(p, t, n + 1) = Upto(p, "dependsOn", t, n + 1)
                                  \union (Upto(p, "module", m, n + 1) \ R)
  BY DEF Counting
<1>5. Upto(p, "dependsOn", t, n + 1)
          = B \union (IF c.op = "dependsOn" /\ c.of = t THEN {n + 1} ELSE {})
  BY UptoFacts
<1>6. Upto(p, "module", m, n + 1) = M \union (IF c.op = "module" /\ c.of = m THEN {n + 1} ELSE {})
  BY UptoFacts
<1>7. c.op = "dependsOn" => c.op # "module"
  OBVIOUS
<1> HIDE DEF B, M, R, c, m
<1>8. Counting(p, t, n + 1) =
          IF (c.op = "dependsOn" /\ c.of = t) \/ (c.op = "module" /\ c.of = m)
          THEN Counting(p, t, n) \union {n + 1} ELSE Counting(p, t, n)
  BY <1>2, <1>3, <1>4, <1>5, <1>6, <1>7
<1> QED
  BY <1>8 DEF c, m

(* What counts for a test that has just been constructed: the declaration  *)
(* of its module that __globalDependencies holds.                          *)
LEMMA NewFacts ==
    ASSUME NEW p, IsCalls(p), NEW n \in Nat, n + 1 <= Len(p), p[n + 1].op = "test"
    PROVE  LET t == p[n + 1].of
               m == p[n + 1].on
           IN  /\ Made(p, t) = n + 1
               /\ Asked(p, Counting(p, t, n + 1)) =
                      IF m \in Given(p, n) THEN p[Latest(p, m, n)].on ELSE {}
<1> DEFINE t == p[n + 1].of
           m == p[n + 1].on
           M == Upto(p, "module", m, n)
           R == Replaced(p, m, n + 1)
<1>1. n + 1 \in DOMAIN p /\ DOMAIN p = 1..Len(p) /\ Len(p) \in Nat
  BY DEF IsCalls
<1>2. Made(p, t) = n + 1
  BY <1>1, MadeFacts
<1>3. Upto(p, "dependsOn", t, n + 1) = {}
  <2> SUFFICES ASSUME NEW j \in Upto(p, "dependsOn", t, n + 1)
               PROVE  FALSE
    OBVIOUS
  <2>1. j \in DOMAIN p /\ p[j].op = "dependsOn" /\ p[j].of = t /\ j <= n + 1
    BY DEF Upto, At
  <2>2. PICK i \in At(p, "test", t) : i < j
    BY <2>1 DEF IsCalls, IsProgram
  <2>3. i = n + 1
    BY <1>1, <2>2, MadeFacts DEF At
  <2> QED
    BY <1>1, <2>1, <2>2, <2>3
<1>4. Upto(p, "module", m, n + 1) = M
  <2>1. \A op, x : Upto(p, op, x, n + 1) = Upto(p, op, x, n) \union
                        (IF p[n + 1].op = op /\ p[n + 1].of = x THEN {n + 1} ELSE {})
    BY UptoFacts
  <2> QED
    BY <2>1
<1>5. Counting(p, t, n + 1) = M \ R
  BY <1>2, <1>3, <1>4 DEF Counting
<1>6. M = {j \in At(p, "module", m) : j < n + 1}
  BY <1>1 DEF Upto, At
<1>7. R = {j \in M : \E k \in M : k > j}
  BY <1>6 DEF Replaced
<1>8. M # {} <=> m \in Given(p, n)
  BY <1>1 DEF Upto, At, Given
<1>9. M \subseteq 1..n
  BY <1>1 DEF Upto, At
<1> HIDE DEF M, R, m
<1>10. CASE M = {}
  BY <1>2, <1>5, <1>8, <1>10, AskedFacts DEF t, m
<1>11. CASE M # {}
  <2>2. PICK l \in M : \A j \in M : j <= l
    BY <1>9, <1>11, LargestOf
  <2>3. \A i \in M : (\A j \in M : j <= i) => i = l
    BY <1>9, <2>2
  <2>4. Latest(p, m, n) = l
    BY <2>2, <2>3 DEF Latest, M
  <2>5. M \ R = {l}
    <3>1. l \notin R
      BY <1>7, <1>9, <2>2
    <3>2. ASSUME NEW j \in M, j # l
          PROVE  j \in R
      BY <1>7, <1>9, <2>2, <3>2
    <3> QED
      BY <2>2, <3>1, <3>2
  <2> QED
    BY <1>2, <1>5, <1>8, <1>11, <2>4, <2>5, AskedFacts DEF t, m
<1> QED
  BY <1>10, <1>11

(* One call takes the registry from one state to the next. *)
LEMMA StateStep ==
    ASSUME NEW p, IsCalls(p), NEW n \in Nat, n + 1 <= Len(p)
    PROVE  State(p, n + 1) = Call(State(p, n), p[n + 1])
<1> DEFINE c == p[n + 1]
           r == State(p, n)
           s == State(p, n + 1)
           T == MadeBy(p, n)
           G == Given(p, n)
<1>1. c.op \in {"module", "test", "dependsOn"} /\ n + 1 \in DOMAIN p
  BY DEF IsCalls
<1>2. /\ r = [globals |-> r.globals, module |-> r.module, deps |-> r.deps]
      /\ r.globals = [m \in G |-> p[Latest(p, m, n)].on]
      /\ r.module = [t \in T |-> p[Made(p, t)].on]
      /\ r.deps = [t \in T |-> Asked(p, Counting(p, t, n))]
  BY DEF State
<1>3. /\ s = [globals |-> s.globals, module |-> s.module, deps |-> s.deps]
      /\ s.globals = [m \in Given(p, n + 1) |-> p[Latest(p, m, n + 1)].on]
      /\ s.module = [t \in MadeBy(p, n + 1) |-> p[Made(p, t)].on]
      /\ s.deps = [t \in MadeBy(p, n + 1) |-> Asked(p, Counting(p, t, n + 1))]
  BY DEF State
<1>4. \A t \in T : Asked(p, Counting(p, t, n + 1)) =
          IF (c.op = "dependsOn" /\ c.of = t) \/ (c.op = "module" /\ c.of = r.module[t])
          THEN r.deps[t] \union c.on ELSE r.deps[t]
  <2> SUFFICES ASSUME NEW t \in T
               PROVE  Asked(p, Counting(p, t, n + 1)) =
                          IF \/ c.op = "dependsOn" /\ c.of = t
                             \/ c.op = "module" /\ c.of = r.module[t]
                          THEN r.deps[t] \union c.on ELSE r.deps[t]
    OBVIOUS
  <2>1. r.module[t] = p[Made(p, t)].on /\ r.deps[t] = Asked(p, Counting(p, t, n))
    BY <1>2
  <2>2. Counting(p, t, n + 1) =
            IF (c.op = "dependsOn" /\ c.of = t) \/ (c.op = "module" /\ c.of = p[Made(p, t)].on)
            THEN Counting(p, t, n) \union {n + 1} ELSE Counting(p, t, n)
    BY CountingFacts
  <2>3. Asked(p, Counting(p, t, n) \union {n + 1}) = Asked(p, Counting(p, t, n)) \union c.on
    BY DEF Asked
  <2> HIDE DEF r, c
  <2> QED
    BY <2>1, <2>2, <2>3
<1>5. /\ Given(p, n + 1) = IF c.op = "module" THEN G \union {c.of} ELSE G
      /\ MadeBy(p, n + 1) = IF c.op = "test" THEN T \union {c.of} ELSE T
  BY NamesFacts
<1>6. \A m : Latest(p, m, n + 1) = IF c.op = "module" /\ c.of = m THEN n + 1 ELSE Latest(p, m, n)
  BY LatestFacts
<1>7. c.op = "test" =>
          /\ c.of \notin T /\ Made(p, c.of) = n + 1
          /\ Asked(p, Counting(p, c.of, n + 1)) =
                 IF c.on \in G THEN p[Latest(p, c.on, n)].on ELSE {}
  BY NewFacts, ThereFacts
<1>8. DOMAIN r.globals = G /\ DOMAIN r.module = T /\ DOMAIN r.deps = T
  BY <1>2
<1> HIDE DEF r, s, T, G
<1>9. CASE c.op = "module"
  <2>1. Call(r, c) = [globals |-> With(r.globals, c.of, c.on), module |-> r.module,
                      deps |-> [t \in T |-> IF r.module[t] = c.of
                                             THEN r.deps[t] \union c.on ELSE r.deps[t]]]
    BY <1>2, <1>8, <1>9 DEF Call, SetGlobal
  <2>2. s.globals = With(r.globals, c.of, c.on)
    BY <1>2, <1>3, <1>5, <1>6, <1>8, <1>9 DEF With
  <2>3. s.module = r.module
    BY <1>2, <1>3, <1>5, <1>9
  <2>4. s.deps = [t \in T |-> IF r.module[t] = c.of
                              THEN r.deps[t] \union c.on ELSE r.deps[t]]
    BY <1>3, <1>4, <1>5, <1>9
  <2> QED
    BY <1>3, <2>1, <2>2, <2>3, <2>4 DEF s, r
<1>10. CASE c.op = "test"
  <2>1. Call(r, c) =
            [globals |-> r.globals, module |-> With(r.module, c.of, c.on),
             deps |-> With(r.deps, c.of, IF c.on \in G THEN r.globals[c.on] ELSE {})]
    BY <1>2, <1>8, <1>10 DEF Call, Construct
  <2>2. s.globals = r.globals
    BY <1>2, <1>3, <1>5, <1>6, <1>10
  <2>3. s.module = With(r.module, c.of, c.on)
    BY <1>2, <1>3, <1>5, <1>7, <1>8, <1>10 DEF With
  <2>4. s.deps = With(r.deps, c.of, IF c.on \in G THEN r.globals[c.on] ELSE {})
    BY <1>2, <1>3, <1>4, <1>5, <1>7, <1>8, <1>10 DEF With
  <2> QED
    BY <1>3, <2>1, <2>2, <2>3, <2>4 DEF s, r
<1>11. CASE c.op = "dependsOn"
  <2>1. Call(r, c) =
            [globals |-> r.globals, module |-> r.module,
             deps |-> [t \in T |-> IF t = c.of THEN r.deps[t] \union c.on ELSE r.deps[t]]]
    BY <1>2, <1>8, <1>11 DEF Call, DependsOn
  <2>2. s.globals = r.globals
    BY <1>2, <1>3, <1>5, <1>6, <1>11
  <2>3. s.module = r.module
    BY <1>2, <1>3, <1>5, <1>11
  <2>4. s.deps = [t \in T |-> IF t = c.of THEN r.deps[t] \union c.on ELSE r.deps[t]]
    BY <1>3, <1>4, <1>5, <1>11
  <2> QED
    BY <1>3, <2>1, <2>2, <2>3, <2>4 DEF s, r
<1> QED
  BY <1>1, <1>9, <1>10, <1>11

(* So the recursive definition of Register has a solution, and only one. *)
LEMMA AfterIs ==
    ASSUME NEW p, IsCalls(p)
    PROVE  \A n \in 0..Len(p) : After(p)[n] = State(p, n)
<1> DEFINE D == 0..Len(p)
           Solves(f) == f = [n \in D |-> IF n = 0 THEN NoTests ELSE Call(f[n - 1], p[n])]
           a == After(p)
<1>1. Len(p) \in Nat
  BY DEF IsCalls
<1>2. State(p, 0) = NoTests
  <2>1. Given(p, 0) = {} /\ MadeBy(p, 0) = {}
    BY DEF Given, MadeBy
  <2> QED
    BY <2>1 DEF State, NoTests, Nothing
<1>3. \A n \in D \ {0} : n - 1 \in D /\ State(p, n) = Call(State(p, n - 1), p[n])
  <2> SUFFICES ASSUME NEW n \in D \ {0}
               PROVE  n - 1 \in D /\ State(p, n) = Call(State(p, n - 1), p[n])
    OBVIOUS
  <2>1. PICK k \in Nat : k = n - 1
    BY <1>1
  <2>2. k + 1 = n /\ k + 1 <= Len(p) /\ k \in D
    BY <1>1, <2>1
  <2>3. State(p, k + 1) = Call(State(p, k), p[k + 1])
    BY <2>2, StateStep
  <2> QED
    BY <2>1, <2>2, <2>3
<1>4. Solves([n \in D |-> State(p, n)])
  <2> DEFINE f == [n \in D |-> State(p, n)]
  <2>1. \A n \in D : State(p, n) = IF n = 0 THEN NoTests ELSE Call(f[n - 1], p[n])
    BY <1>2, <1>3
  <2>2. f = [n \in D |-> IF n = 0 THEN NoTests ELSE Call(f[n - 1], p[n])]
    BY <2>1
  <2> QED
    BY <2>2
<1>5. a = CHOOSE f : Solves(f)
  BY DEF After
<1>6. Solves(a)
  <2> HIDE DEF Solves
  <2> QED
    BY <1>4, <1>5
<1>7. a[0] = NoTests /\ \A n \in D \ {0} : a[n] = Call(a[n - 1], p[n])
  <2>1. a = [n \in D |-> IF n = 0 THEN NoTests ELSE Call(a[n - 1], p[n])]
    BY <1>6
  <2>2. 0 \in D
    BY <1>1
  <2> HIDE DEF a, D
  <2> QED
    BY <2>1, <2>2
<1> HIDE DEF a, Solves
<1>8. ASSUME NEW n \in D, a[n] # State(p, n)
      PROVE  FALSE
  <2> DEFINE W == {k \in D : a[k] # State(p, k)}
             R == OpToRel(<, Nat)
  <2>1. W \subseteq Nat /\ W # {}
    BY <1>1, <1>8
  <2>2. \A x, y \in Nat : y < x => <<y, x>> \in R
    BY DEF OpToRel
  <2>3. IsWellFoundedOn(R, Nat)
    BY NatLessThanWellFounded
  <2> HIDE DEF R
  <2>4. PICK k \in W : \A j \in W : ~(<<j, k>> \in R)
    BY <2>1, <2>3, WFMin
  <2>5. k # 0
    BY <1>2, <1>7, <2>4
  <2>6. k - 1 \in D /\ k - 1 \in Nat /\ k \in Nat /\ k - 1 < k
    BY <1>1, <2>4, <2>5
  <2>7. k - 1 \notin W
    BY <2>2, <2>4, <2>6
  <2>8. a[k - 1] = State(p, k - 1)
    BY <2>6, <2>7
  <2> QED
    BY <1>3, <1>7, <2>4, <2>5, <2>8
<1> QED
  BY <1>8 DEF a

(* What is registered is what is declared, in whatever order the calls     *)
(* come: for a test that was constructed early a module's declarations     *)
(* are added to _dependencies, for one constructed late they are taken     *)
(* from __globalDependencies.                                              *)
THEOREM RegisteredIsDeclared ==
    \A p \in Programs : Register(p).deps = [t \in Tests |-> Declared(p, t)]
<1> SUFFICES ASSUME NEW p \in Programs
             PROVE  Register(p).deps = [t \in Tests |-> Declared(p, t)]
  OBVIOUS
<1> DEFINE N == Len(p)
<1>1. /\ p \in Seq(Calls) /\ IsProgram(p)
      /\ \A t \in Tests : \E i \in At(p, "test", t) : p[i].on = moduleOf[t]
  BY ProgramsAssumption
<1>2. N \in Nat /\ DOMAIN p = 1..N /\ \A i \in 1..N : p[i] \in Calls
  BY <1>1, ElementOfSeq
<1>3. \A c \in Calls : /\ c.op \in {"module", "test", "dependsOn"}
                       /\ c.op = "test" => c.of \in Tests
  BY DEF Calls
<1>4. IsCalls(p)
  BY <1>1, <1>2, <1>3 DEF IsCalls
<1>5. Register(p) = State(p, N)
  BY <1>2, <1>4, AfterIs DEF Register
<1>6. MadeBy(p, N) = Tests
  <2>1. \A t \in Tests : t \in MadeBy(p, N)
    BY <1>1, <1>2 DEF At, MadeBy
  <2> QED
    BY <1>2, <1>3, <2>1 DEF MadeBy
<1>7. \A op, x : Upto(p, op, x, N) = At(p, op, x)
  BY <1>2 DEF Upto, At
<1>8. \A t : Asked(p, Counting(p, t, N)) = Declared(p, t)
  BY <1>7 DEF Counting, Declared
<1> QED
  BY <1>5, <1>6, <1>8 DEF State

(* A test waits for the modules that the calls declared, not for what the  *)
(* order of the calls made of them: what it was taken after is completed,  *)
(* and if it never was taken, then one of them was not.                    *)
THEOREM RegistrationIsKept == Spec => []RegistryExact
<1>1. IndInv => RegistryExact
  <2> SUFFICES ASSUME IndInv, NEW r \in Registered, deps = r.deps, NEW t \in Tests
               PROVE  LET free == \A d \in r.declared[t] : Completed(d)
                      IN  /\ Taken(t) => free
                          /\ over /\ free => Taken(t)
    BY DEF RegistryExact
  <2>1. r.declared[t] = deps[t]
    <3>1. PICK p \in Programs :
              r = [deps |-> Register(p).deps, declared |-> [u \in Tests |-> Declared(p, u)]]
      BY DEF Registered
    <3>2. r.deps = r.declared
      BY <3>1, RegisteredIsDeclared
    <3> QED
      BY <3>2
  <2>2. Taken(t) => \A d \in deps[t] : Completed(d)
    BY DEF IndInv, DependencyOrder
  <2>3. over => Elements(ready) = {}
    BY DEF IndInv, Elements
  <2>4. over /\ (\A d \in deps[t] : Completed(d)) => Taken(t)
    BY <2>3 DEF IndInv, ReadyExact
  <2> QED
    BY <2>1, <2>2, <2>4
<1> QED
  BY <1>1, Invariance, PTL
=============================================================================
