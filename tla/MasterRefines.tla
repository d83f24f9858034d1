---------------------------- MODULE MasterRefines ----------------------------
(***************************************************************************)
(* The master implements Scheduler until a fault strikes, for every value  *)
(* of the constants.  One lemma per action says which step of the          *)
(* scheduler it is; the steps inside check_prior, the planner and the      *)
(* handlers that move no query leave the scheduler as it is.               *)
(***************************************************************************)
EXTENDS MasterSafety

\* What the scheduler sees of the master.
AtWork  == Range(exec) \cup (IF plan = "pair" THEN {taken} ELSE {})
Ended    == {q \in Queries : query[q].state = "FINISHED"}
Numbers  == [q \in Queries |-> Prior(q)]

\* The scheduler's operators on lists and sets are those of the master.
LEMMA SameOperators ==
  ASSUME NEW s, NEW x, NEW i
  PROVE  /\ Promise!Range(s) = Range(s)
         /\ Promise!InsertAt(s, i, x) = InsertAt(s, i, x)
         /\ Promise!RemoveFirst(s, x) = RemoveFirst(s, x)
         /\ Promise!Cardinality(s) = Cardinality(s)
<1>1. Promise!Range(s) = Range(s)
  BY DEF Promise!Range, Range
<1>2. Promise!InsertAt(s, i, x) = InsertAt(s, i, x)
  BY DEF Promise!InsertAt, InsertAt
<1>3. Promise!RemoveFirst(s, x) = RemoveFirst(s, x)
  <2> DEFINE I == {j \in 1 .. Len(s) : s[j] = x}
  <2>1. Promise!Min(I) = Min(I)
    BY DEF Promise!Min, Min
  <2>2. Promise!SelectInSeq(s, LAMBDA v : v = x) = IF I # {} THEN Promise!Min(I) ELSE 0
    BY DEF Promise!SelectInSeq
  <2>3. SelectInSeq(s, LAMBDA v : v = x) = IF I # {} THEN Min(I) ELSE 0
    BY DEF SelectInSeq
  <2>4. \A t, j : Promise!RemoveAt(t, j) = RemoveAt(t, j)
    BY DEF Promise!RemoveAt, RemoveAt
  <2>5. (\E j \in 1 .. Len(s) : s[j] = x) <=> I # {}
    OBVIOUS
  <2> HIDE DEF I
  <2>6. Promise!RemoveFirst(s, x) = IF I # {} THEN RemoveAt(s, Min(I)) ELSE s
    BY <2>1, <2>2, <2>4, <2>5 DEF Promise!RemoveFirst
  <2>7. RemoveFirst(s, x) = IF I # {} THEN RemoveAt(s, Min(I)) ELSE s
    BY <2>3, <2>5 DEF RemoveFirst
  <2> QED BY <2>6, <2>7
<1>4. Promise!Cardinality(s) = Cardinality(s)
  BY DEF Promise!Cardinality, Cardinality, Promise!IsFiniteSet, IsFiniteSet
<1> QED BY <1>1, <1>2, <1>3, <1>4

\* The steps that change no priority.
LEMMA SameNumbers ==
  ASSUME \A q \in Queries : query'[q].prioridad = query[q].prioridad
  PROVE  Numbers' = Numbers
BY DEF Numbers, Prior

\* The steps that end no query.
LEMMA SameEnded ==
  ASSUME \A q \in Queries : query'[q].state = "FINISHED" <=> query[q].state = "FINISHED"
  PROVE  Ended' = Ended
BY DEF Ended

\* What has to stay for the scheduler to see nothing.
LEMMA Stutters ==
  ASSUME ready' = ready, AtWork' = AtWork, Ended' = Ended, Numbers' = Numbers, Len(workers') = Len(workers)
  PROVE  UNCHANGED Promise!vars
BY DEF Promise!vars, AtWork, Ended, Numbers

\* The accept loop: a worker joins.
LEMMA AcceptWorkerJoins ==
  ASSUME Shape, Clean, NEW w \in Workers, AcceptWorker(w)
  PROVE  Promise!Join
<1>1. workers' = Append(workers, w) /\ UNCHANGED <<ready, exec, query, plan, taken>>
  BY DEF AcceptWorker, objects, planner
<1>2. Len(workers') = Len(workers) + 1
  BY <1>1, AppendProperties DEF Shape, Types, ListsTyped
<1> QED BY <1>1, <1>2 DEF Promise!Join, Prior

\* The accept loop: a query begins to wait, at the place its priority gives it.
LEMMA AcceptQueryArrives ==
  ASSUME Shape, Clean, NEW q \in Queries, AcceptQuery(q)
  PROVE  Promise!Arrive(q)
<1>1. /\ qpc[q] = "off"
      /\ ready' \in IF Algorithm = "FIFO" THEN {Append(ready, q)} ELSE Sorted(ready, q, Prior(q))
      /\ UNCHANGED <<exec, query, plan, taken, workers>>
  BY DEF AcceptQuery, objects, planner
<1>2. q \notin Alive /\ query[q].state = "READY"
  BY <1>1 DEF Alive, Clean, Told
<1>3. ~Promise!Waits(q) /\ q \notin AtWork \cup Ended
  BY <1>2, SameOperators DEF Promise!Waits, AtWork, Ended, Clean, Places, Held
<1>4. ready' \in Promise!Inserted(q)
  <2>1. CASE Algorithm = "FIFO"
    BY <1>1, <2>1 DEF Promise!Inserted
  <2>2. CASE Algorithm # "FIFO"
    <3>1. ready \in Seq(Queries) /\ ready' \in Sorted(ready, q, Prior(q))
      BY <1>1, <2>2 DEF Shape, Types, ListsTyped
    <3>2. PICK k \in 1 .. Len(ready) + 1 : ready' = InsertAt(ready, k, q)
      BY <3>1, SortedInserts
    <3> QED BY <2>2, <3>2, SameOperators DEF Promise!Inserted
  <2> QED BY <2>1, <2>2
<1> QED BY <1>1, <1>3, <1>4 DEF Promise!Arrive, AtWork, Ended, Prior

\* While the planner has its token a worker of the list is free, and every query that executes
\* has one of the others.
LEMMA FewerThanWorkers ==
  ASSUME Shape, Clean, FreeWorkers # {}
  PROVE  Cardinality(Range(exec)) < Len(workers)
<1> USE DEF Clean
<1>1. PICK m \in Range(workers) : Free(m)
  BY FreeWorker DEF Shape
<1> DEFINE others == Range(workers) \ {m}
           f == [q \in Range(exec) |-> query[q].worker]
<1>2. \A q \in Range(exec) : f[q] \in others /\ worker[f[q]].query = q
  <2> SUFFICES ASSUME NEW q \in Range(exec) PROVE f[q] \in others /\ worker[f[q]].query = q
    OBVIOUS
  <2>1. PICK w \in Workers : query[q].worker = w /\ worker[w].query = q /\ Serves(w)
    BY DEF Pairs
  <2>2. w \in Range(workers) /\ w # m
    BY <1>1, <2>1, Named DEF Serves, Staff
  <2> QED BY <2>1, <2>2
<1>3. f \in Injection(Range(exec), others)
  <2>1. f \in [Range(exec) -> others] /\ \A q, r \in Range(exec) : f[q] = f[r] => q = r
    <3>1. \A q, r \in Range(exec) : f[q] = f[r] => q = r
      <4> HIDE DEF f
      <4> QED BY <1>2
    <3> QED BY <1>2, <3>1
  <2> HIDE DEF f, others
  <2> QED BY <2>1 DEF Injection, IsInjective
<1>4. /\ IsFiniteSet(Range(workers)) /\ Cardinality(Range(workers)) = Len(workers)
      /\ Len(workers) \in Nat
  BY DistinctCount, LenProperties DEF Shape, Types, ListsTyped, Staff
<1>5. IsFiniteSet(others) /\ Cardinality(others) = Len(workers) - 1
  BY <1>1, <1>4, FS_RemoveElement
<1> HIDE DEF f, others
<1>6. IsFiniteSet(Range(exec)) /\ Cardinality(Range(exec)) <= Len(workers) - 1
  BY <1>3, <1>5, FS_Injection
<1>7. Cardinality(Range(exec)) \in Nat
  BY <1>6, FS_CardinalityType
<1> QED BY <1>4, <1>6, <1>7

\* The planner takes the head: a slot is free and nobody who waits goes before it.
LEMMA PlanTakeDispatches ==
  ASSUME Shape, Shape', Clean, PlanTake, up'
  PROVE  Promise!Dispatch(taken') /\ taken' \in Queries
<1> USE DEF Clean
<1>1. /\ plan = "wait" /\ ready # <<>> /\ sem.workers > 0
      /\ taken' = Head(ready) /\ ready' = Tail(ready) /\ plan' = "pair"
      /\ UNCHANGED <<exec, workers, query>>
  BY DEF PlanTake, objects
<1>2. ready \in Seq(Queries) /\ IsInjective(ready) /\ DOMAIN ready = 1 .. Len(ready)
  BY LenProperties DEF Shape, Types, ListsTyped, Places
<1>3. /\ taken' \in Range(ready) /\ taken' \in Queries /\ taken' = ready[1]
      /\ ready' = RemoveFirst(ready, taken')
  BY <1>1, <1>2, HeadIsFirst
<1>4. Promise!Waits(taken')
  BY <1>3, SameOperators DEF Promise!Waits
<1>5. Promise!GoesFirst(taken')
  <2>1. CASE Algorithm = "FIFO"
    BY <1>1, <2>1 DEF Promise!GoesFirst
  <2>2. CASE Algorithm # "FIFO"
    <3>1. \A i \in DOMAIN ready : i # 1 => 1 \in DOMAIN ready /\ 1 < i
      BY <1>2
    <3>2. \A i, j \in DOMAIN ready : i < j => Prior(ready[i]) <= Prior(ready[j])
      BY <2>2, Constants DEF InOrder
    <3>3. Prior(ready[1]) <= Prior(ready[1])
      BY <1>3, Named
    <3>4. \A r \in Range(ready) : Prior(ready[1]) <= Prior(r)
      BY <3>1, <3>2, <3>3 DEF Range
    <3>5. \A r \in Range(ready) : Numbers[ready[1]] <= Numbers[r]
      BY <1>3, <3>4, Named DEF Numbers
    <3> QED BY <1>3, <2>2, <3>5, SameOperators DEF Promise!GoesFirst, Numbers
  <2> QED BY <2>1, <2>2
<1>6. Cardinality(AtWork) < Len(workers)
  <2>1. Cardinality(FreeWorkers) # 0
    BY <1>1 DEF Tokens, Shape, Types, SyncTyped, SemTypes
  <2>2. FreeWorkers # {} /\ AtWork = Range(exec)
    BY <1>1, <2>1, FS_EmptySet DEF AtWork
  <2> QED BY <2>2, FewerThanWorkers
<1>7. AtWork' = AtWork \cup {taken'}
  BY <1>1 DEF AtWork
<1> QED BY <1>1, <1>3, <1>4, <1>5, <1>6, <1>7, SameOperators DEF Promise!Dispatch, AtWork, Prior

\* The planner hands it to a worker: it was counted as running when it left querys_ready.
LEMMA PlanPairStutters ==
  ASSUME Shape, Clean, PlanPair, up'
  PROVE  UNCHANGED Promise!vars
<1> USE DEF Clean
<1>1. /\ plan = "pair" /\ plan' = "signal" /\ exec' = Append(exec, taken) /\ FreeWorkers # {}
      /\ UNCHANGED <<ready, workers>>
  BY DEF PlanPair
<1>2. PICK m \in Workers : m = workers[Min(FreeWorkers)]
  BY <1>1, FreeWorker DEF Shape
<1>3. taken \in Queries /\ taken \in Alive
  BY <1>1 DEF Shape, HaveQueries, Places, Held
<1>4. \A r \in Queries : /\ query'[r].prioridad = query[r].prioridad
                         /\ query'[r].state = IF r = taken THEN "EXEC" ELSE query[r].state
  <2>1. query' = [query EXCEPT ![taken].worker = m, ![taken].state = "EXEC"]
    BY <1>1, <1>2 DEF PlanPair
  <2> QED BY <2>1 DEF Shape, Types, QueriesTyped, QueryTypes
<1>5. Ended' = Ended /\ Numbers' = Numbers
  BY <1>3, <1>4, SameEnded, SameNumbers DEF Alive
<1>6. AtWork' = AtWork
  <2>1. Range(exec') = Range(exec) \cup {taken}
    BY <1>1, <1>3, AppendDistinct DEF Shape, Types, ListsTyped
  <2> QED BY <1>1, <2>1 DEF AtWork
<1> QED BY <1>1, <1>5, <1>6, Stutters

\* worker_handler puts back a query whose worker was asked to stop: somebody better waits.
LEMMA RequeueEvicts ==
  ASSUME Shape, Clean, NEW w \in Workers, Requeue(w)
  PROVE  \E q \in Queries : Promise!Evict(q)
<1> USE DEF Clean
<1>1. PICK q \in Queries : q = worker[w].query
  BY DEF Requeue, Shape, HaveQueries, WorkersHave
<1>2. /\ wpc[w] = "replied" /\ worker[w].interrumpir
      /\ exec' = RemoveFirst(exec, q) /\ query' = [query EXCEPT ![q].state = "EXEC"]
      /\ ready' \in Sorted(ready, q, Prior(q))
      /\ UNCHANGED <<workers, plan, taken>>
  BY <1>1 DEF Requeue, planner
<1>3. Serves(w) /\ Asked(w) /\ Algorithm = "PRIORIDADES"
  BY <1>2 DEF Shape, HaveQueries, WorkersHave, Staff, Serves, Asked
<1>4. q \in Range(exec) /\ q \in Alive /\ q \notin Held
  BY <1>1, <1>3 DEF Pairs, Places
<1>5. \A r \in Queries : /\ query'[r].prioridad = query[r].prioridad
                         /\ query'[r].state = IF r = q THEN "EXEC" ELSE query[r].state
  BY <1>2 DEF Shape, Types, QueriesTyped, QueryTypes
<1>6. Ended' = Ended /\ Numbers' = Numbers
  BY <1>4, <1>5, SameEnded, SameNumbers DEF Alive
<1>7. \E r \in Range(ready) : Numbers[r] < Numbers[q]
  <2>1. /\ mutexReady \in Checkers /\ pc[mutexReady] = "wait_int" /\ loc[mutexReady].victim = q
    BY <1>1, <1>3 DEF Evictions, Shape, Types, SyncTyped
  <2>2. loc[mutexReady].head \in Range(ready) /\ Prior(loc[mutexReady].head) < Prior(q)
    BY <2>1 DEF Evictions
  <2> QED BY <2>2, Named DEF Numbers
<1>8. ready' \in Promise!Inserted(q)
  <2>1. ready \in Seq(Queries) /\ Algorithm # "FIFO"
    BY <1>3 DEF Shape, Types, ListsTyped
  <2>2. PICK k \in 1 .. Len(ready) + 1 : ready' = InsertAt(ready, k, q)
    BY <1>2, <2>1, SortedInserts
  <2> QED BY <2>1, <2>2, SameOperators DEF Promise!Inserted
<1>9. AtWork' = AtWork \ {q} /\ q \in AtWork
  <2>1. Range(exec') = Range(exec) \ {q}
    BY <1>2, <1>4, RemoveDistinct DEF Shape, Types, ListsTyped, Places
  <2> QED BY <1>2, <1>4, <2>1 DEF AtWork, Held
<1>10. Promise!Evict(q)
  BY <1>2, <1>3, <1>6, <1>7, <1>8, <1>9, SameOperators DEF Promise!Evict, AtWork, Ended, Numbers
<1> QED BY <1>10

\* actualizador wakes up: the query it ages waits and gets a lower number, or nothing changes.
LEMMA AgerWakeAges ==
  ASSUME Shape, Clean, NEW a \in Agers, AgerWake(a)
  PROVE  UNCHANGED Promise!vars \/ \E q \in Queries : Promise!Age(q)
<1> USE DEF Clean
<1>1. pc[a] = "sleep" /\ UNCHANGED <<exec, workers, plan, taken>>
  BY DEF AgerWake, planner
<1>2. PICK q \in Queries : q = loc[a].query
  BY <1>1, Constants DEF Shape, HaveQueries, CheckersHave
<1>3. Prior(q) > 0 /\ Prior(q) \in Nat /\ Algorithm = "PRIORIDADES"
  BY <1>1, <1>2, Named, Constants DEF Aged, Shape, Roles
<1>4. ready \in Seq(Queries) /\ (In(ready, q) <=> q \in Range(ready))
  BY InRange DEF Shape, Types, ListsTyped
<1>5. CASE q \notin Range(ready)
  <2>1. UNCHANGED <<ready, query>>
    BY <1>2, <1>4, <1>5 DEF AgerWake
  <2> QED BY <1>1, <2>1 DEF Promise!vars, Prior
<1>6. CASE q \in Range(ready)
  <2> DEFINE others == RemoveFirst(ready, q)
  <2>1. query' = [query EXCEPT ![q].prioridad = Prior(q) - 1] /\ ready' \in Sorted(others, q, Prior(q) - 1)
    BY <1>2, <1>3, <1>4, <1>6 DEF AgerWake
  <2>2. others \in Seq(Queries) /\ Len(others) = Len(ready) - 1 /\ Range(others) = Range(ready) \ {q}
    BY <1>4, <1>6, RemoveDistinct DEF Places
  <2> HIDE DEF others
  <2>3. Range(ready') = Range(others) \cup {q} /\ Len(ready') = Len(others) + 1
    BY <2>1, <2>2, SortedInserts
  <2>4. Range(ready') = Range(ready) /\ Len(ready') = Len(ready)
    BY <1>4, <1>6, <2>2, <2>3, LenProperties
  <2>5. \A r \in Queries : /\ query'[r].prioridad = IF r = q THEN Prior(q) - 1 ELSE query[r].prioridad
                           /\ query'[r].state = query[r].state
    BY <2>1 DEF Shape, Types, QueriesTyped, QueryTypes
  <2>6. Numbers' = [Numbers EXCEPT ![q] = @ - 1] /\ Ended' = Ended
    BY <2>5, SameEnded DEF Numbers, Prior
  <2>7. Promise!Age(q)
    BY <1>1, <1>3, <1>6, <2>4, <2>6, SameOperators DEF Promise!Age, Promise!Waits, AtWork, Ended, Numbers
  <2> QED BY <2>7
<1> QED BY <1>5, <1>6

\* The end of a query that a worker still executes is the end of the scheduler's; the worker of
\* one that had failed has nothing to end.
LEMMA FinishEnds ==
  ASSUME Shape, Clean, NEW w \in Workers, Busy(w), wpc[w] \in {"recv", "silent"}, Finish(w), ~fault',
         UNCHANGED <<ready, plan, taken, qpc>>
  PROVE  /\ ~worker[w].error => \E q \in Queries : Promise!End(q)
         /\ worker[w].error => AtWork' = AtWork /\ Ended' = Ended /\ Numbers' = Numbers
<1> USE DEF Clean
<1>1. PICK q \in Queries : q = worker[w].query
  BY DEF Shape, HaveQueries, WorkersHave
<1>2. /\ \A r \in Queries :
            /\ query'[r].prioridad = query[r].prioridad
            /\ query'[r].state = IF r = q THEN "FINISHED" ELSE query[r].state
      /\ Range(exec') = Range(exec) \ {q}
  BY <1>1, Finished
<1>3. Numbers' = Numbers /\ Ended' = Ended \cup {q}
  BY <1>2, SameNumbers DEF Ended
<1>4. CASE ~worker[w].error
  <2>1. q \in Range(exec) /\ q \notin Held
    BY <1>1, <1>4 DEF Serves, Pairs, Places
  <2>2. AtWork' = AtWork \ {q} /\ q \in AtWork
    BY <1>2, <2>1 DEF AtWork, Held
  <2>3. Promise!End(q)
    BY <1>3, <2>2 DEF Promise!End, AtWork, Ended, Numbers
  <2> QED BY <1>4, <2>3
<1>5. CASE worker[w].error
  <2>1. query[q].state = "FINISHED"
    BY <1>1, <1>5 DEF Pairs
  <2>2. q \notin Range(exec) /\ q \in Ended
    BY <2>1 DEF Places, Alive, Ended
  <2>3. Range(exec') = Range(exec) /\ Ended' = Ended
    BY <1>2, <1>3, <2>2
  <2> QED BY <1>3, <1>5, <2>3 DEF AtWork
<1> QED BY <1>4, <1>5

\* A worker that disconnects takes its slot, and ends the query it executed.
LEMMA WorkerLeavesMaps ==
  ASSUME Shape, Clean, NEW w \in Workers, WorkerLeaves(w), ~fault'
  PROVE  Promise!Leave
<1>1. /\ wpc[w] \in {"recv", "silent"} /\ ~Free(w) /\ Finish(w) /\ workers' = RemoveFirst(workers, w)
      /\ UNCHANGED <<ready, plan, taken, qpc>>
  BY DEF WorkerLeaves, planner
<1>2. Busy(w)
  BY <1>1, Named
<1>3. Len(workers') = Len(workers) - 1 /\ Len(workers) > 0
  <2>1. workers \in Seq(Workers) /\ IsInjective(workers) /\ w \in Range(workers)
    BY <1>1 DEF Shape, Types, ListsTyped, Clean, Staff
  <2>2. Len(workers) \in Nat /\ \E i \in 1 .. Len(workers) : workers[i] = w
    BY <2>1, LenProperties DEF Range
  <2> QED BY <1>1, <2>1, <2>2, RemoveDistinct
<1>4. (\E q \in Queries : Promise!End(q)) \/ (AtWork' = AtWork /\ Ended' = Ended /\ Numbers' = Numbers)
  BY <1>1, <1>2, FinishEnds
<1> QED BY <1>1, <1>3, <1>4 DEF Promise!Leave, AtWork, Ended, Numbers

\* The other steps: the scheduler does not see them.
LEMMA OthersStutter ==
  ASSUME Shape, Clean, Next, up', ~fault',
         ~Connect, ~PlanTake, ~PlanPair, \A a \in Agers : ~AgerWake(a),
         \A w \in Workers : ~Requeue(w) /\ ~End(w) /\ ~ErrorAtExec(w) /\ ~WorkerLeaves(w)
  PROVE  UNCHANGED Promise!vars
<1> USE DEF lists, objects, sync, checker, planner, handler
<1> SUFFICES /\ UNCHANGED <<ready, exec, workers, query>>
             /\ UNCHANGED <<taken, plan>> \/ (plan # "pair" /\ plan' # "pair")
  BY DEF Promise!vars, Prior
<1>1. CASE PostQuery \/ PlanSignal \/ Killed
  BY <1>1 DEF PostQuery, PlanSignal, Killed
<1>2. ASSUME NEW c \in Checkers, Check(c)
      PROVE  UNCHANGED <<ready, exec, workers, query, taken, plan>>
  BY <1>2 DEF Check, CheckEnter, CheckLook, CheckVictim, CheckSet, CheckInt, CheckAsign
<1>3. ASSUME NEW a \in Agers, AgerTest(a)
      PROVE  UNCHANGED <<ready, exec, workers, query, taken, plan>>
  BY <1>3 DEF AgerTest
<1>4. ASSUME NEW w \in Workers, ConsultEnd(w) \/ WorkerFreed(w) \/ ConsultReply(w) \/ RunsOut(w)
      PROVE  UNCHANGED <<ready, exec, workers, query, taken, plan>>
  BY <1>4 DEF ConsultEnd, WorkerFreed, ConsultReply, RunsOut
<1>5. ASSUME NEW q \in Queries, QueryLeaves(q)
      PROVE  UNCHANGED <<ready, exec, workers, query, taken, plan>>
  BY <1>5 DEF QueryLeaves
<1>6. ASSUME NEW q \in Queries, Destroy(q)
      PROVE  UNCHANGED <<ready, exec, workers, query, taken, plan>>
  <2>1. q \notin Range(exec) /\ q \notin Range(ready) /\ exec \in Seq(Queries) /\ ready \in Seq(Queries)
    BY <1>6 DEF Destroy, Clean, Told, Alive, Places, Shape, Types, ListsTyped
  <2>2. RemoveFirst(exec, q) = exec /\ RemoveFirst(ready, q) = ready
    <3>1. (\A i \in 1 .. Len(exec) : exec[i] # q) /\ \A i \in 1 .. Len(ready) : ready[i] # q
      BY <2>1, LenProperties DEF Range
    <3> QED BY <3>1, RemoveAbsent
  <2> QED BY <1>6, <2>2 DEF Destroy
<1>7. ASSUME NEW w \in Workers PROVE ~ReplyFails(w) /\ ~LateError(w)
  BY DEF ReplyFails, LateError
<1>8. ASSUME NEW q \in Queries PROVE ~CopySem(q)
  BY DEF CopySem, Clean, Told
<1> QED BY <1>1, <1>2, <1>3, <1>4, <1>5, <1>6, <1>7, <1>8 DEF Next, Plan, Handle, Works, Leaves

\* Every step until a fault is one of the scheduler or a stutter.
LEMMA StepsMap ==
  ASSUME MasterInv, [Next]_vars, up', ~fault'
  PROVE  UNCHANGED Promise!vars \/ Promise!Next
<1>1. CASE UNCHANGED vars
  BY <1>1 DEF vars, Promise!vars, Prior
<1>2. CASE Next
  <2>1. Shape /\ Shape' /\ Clean
    BY <1>2, ShapeNext, FaultLasts DEF MasterInv, Sound, Shape, Types, ThreadsTyped
  <2>2. ASSUME NEW w \in Workers, AcceptWorker(w) PROVE Promise!Next
    BY <2>1, <2>2, AcceptWorkerJoins DEF Promise!Next
  <2>3. ASSUME NEW q \in Queries, AcceptQuery(q) PROVE Promise!Next
    BY <2>1, <2>3, AcceptQueryArrives DEF Promise!Next
  <2>4. CASE PlanTake
    BY <2>1, <2>4, PlanTakeDispatches DEF Promise!Next
  <2>5. CASE PlanPair
    BY <2>1, <2>5, PlanPairStutters
  <2>6. ASSUME NEW a \in Agers, AgerWake(a) PROVE UNCHANGED Promise!vars \/ Promise!Next
    BY <2>1, <2>6, AgerWakeAges DEF Promise!Next
  <2>7. ASSUME NEW w \in Workers, Requeue(w) PROVE Promise!Next
    BY <2>1, <2>7, RequeueEvicts DEF Promise!Next
  <2>8. ASSUME NEW w \in Workers, End(w) \/ ErrorAtExec(w)
        PROVE  UNCHANGED Promise!vars \/ Promise!Next
    <3>1. /\ wpc[w] = "recv" /\ Busy(w) /\ Finish(w)
          /\ UNCHANGED <<ready, plan, taken, qpc, workers>>
      BY <2>8 DEF End, ErrorAtExec, Running, Busy, planner
    <3>2. CASE worker[w].error
      BY <2>1, <3>1, <3>2, FinishEnds, Stutters
    <3>3. CASE ~worker[w].error
      <4>1. PICK q \in Queries : Promise!End(q)
        BY <2>1, <3>1, <3>3, FinishEnds
      <4> QED BY <3>1, <4>1 DEF Promise!Next
    <3> QED BY <3>2, <3>3
  <2>9. ASSUME NEW w \in Workers, WorkerLeaves(w) PROVE Promise!Next
    BY <2>1, <2>9, WorkerLeavesMaps DEF Promise!Next
  <2>10. Connect => \/ \E w \in Workers : AcceptWorker(w)
                    \/ \E q \in Queries : AcceptQuery(q)
    BY DEF Connect
  <2> QED BY <1>2, <2>1, <2>2, <2>3, <2>4, <2>5, <2>6, <2>7, <2>8, <2>9, <2>10, OthersStutter
<1> QED BY <1>1, <1>2

\* The initial states are initial states of the scheduler.
LEMMA InitMaps == Init => Promise!Init
<1> SUFFICES ASSUME Init PROVE Promise!Init
  OBVIOUS
<1>1. ready = <<>> /\ exec = <<>> /\ workers = <<>> /\ plan = "wait"
  BY DEF Init
<1>2. Range(exec) = {} /\ Len(workers) = 0
  BY <1>1 DEF Range
<1>3. Ended = {}
  BY DEF Init, Ended
<1>4. Numbers \in [Queries -> Nat]
  BY ShapeInit, Named DEF Numbers
<1> QED BY <1>1, <1>2, <1>3, <1>4 DEF Promise!Init, Ended, Numbers

\* Until a fault strikes every step of the master is a step of Scheduler or moves nothing it
\* sees.
THEOREM MasterImplementsScheduler == Spec => ImplementsScheduler
<1>1. MasterInv /\ [Next]_vars => [up' /\ ~fault' => UNCHANGED Promise!vars \/ Promise!Next]_vars
  BY StepsMap
<1> QED BY <1>1, InitMaps, MasterInvariant, PTL DEF Spec, ImplementsScheduler

=============================================================================
