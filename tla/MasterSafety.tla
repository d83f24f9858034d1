---------------------------- MODULE MasterSafety ----------------------------
(***************************************************************************)
(* The safety of the master for every value of the constants.  A fault     *)
(* (a NULL followed, a semaphore destroyed under its waiter...) may break  *)
(* everything but the types, so the invariant is Shape and, while the      *)
(* master is Sound, Clean: who holds each query, which worker executes it, *)
(* whose answer check_prior waits for, how many tokens the planner has.    *)
(***************************************************************************)
EXTENDS MasterProofs

\* The handlers of the queries: one that leaves has been told the end.
Told ==
    /\ \A q \in Queries :
          /\ qpc[q] \in {"off", "accepted", "recv", "destroy", "gone"}
          /\ qpc[q] = "off" => query[q].state = "READY"
          /\ qpc[q] \in {"destroy", "gone"} => query[q].state = "FINISHED"
          /\ ~query[q].interrumpir
    /\ pc[Acceptor] # "idle" => qpc[loc[Acceptor].query] = "accepted"

\* querys_ready, the planner and querys_exec share out the queries that are alive.
Places ==
    /\ IsInjective(ready) /\ IsInjective(exec)
    /\ Range(ready) \cap Range(exec) = {}
    /\ Held \cap (Range(ready) \cup Range(exec)) = {}
    /\ Range(ready) \cup Held \cup Range(exec) = Alive

\* The list of workers and what their handlers know.
Staff ==
    /\ IsInjective(workers)
    /\ \A w \in Workers : w \in Range(workers) <=> wpc[w] \notin {"off", "gone"}
    /\ \A w \in Workers :
          /\ wpc[w] = "off" => Free(w)
          /\ Free(w) => wpc[w] \in {"off", "recv"} /\ ~worker[w].error /\ ~worker[w].interrumpir
          /\ worker[w].error => /\ ~worker[w].interrumpir
                                /\ wpc[w] \in {"recv", "replied", "over", "silent", "gone"}
          /\ wpc[w] = "silent" => ~Free(w)
          /\ worker[w].interrumpir => wpc[w] \in {"recv", "replied", "requeued", "over"}
          /\ worker[w].interrumpir => Algorithm = "PRIORIDADES"
          /\ wpc[w] = "replied" => (result[w] <=> worker[w].interrumpir \/ worker[w].error)
          /\ wpc[w] = "requeued" => result[w] /\ worker[w].interrumpir

\* A worker that executes its query.
Serves(w) == Busy(w) /\ ~worker[w].error /\ wpc[w] \in {"recv", "replied", "silent"}

\* querys_exec is the list of the queries that some worker executes.
Pairs ==
    /\ \A q \in Range(exec) :
          \E w \in Workers : query[q].worker = w /\ worker[w].query = q /\ Serves(w)
    /\ \A w \in Workers : Serves(w) =>
          worker[w].query \in Range(exec) /\ query[worker[w].query].worker = w
    /\ \A w \in Workers : worker[w].error => query[worker[w].query].state = "FINISHED"

\* A worker that has been asked to stop and has not put its query back.
Asked(w) == worker[w].interrumpir /\ wpc[w] \in {"recv", "replied"}

\* Who asks keeps mutex_ready for the answer, and the query it asks for keeps its place.
Evictions ==
    /\ sem.int \in {0, 1}
    /\ sem.int = 1 => \E c \in Checkers : pc[c] = "wait_int"
    /\ \A w \in Workers : Asked(w) =>
          /\ sem.int = 0
          /\ mutexReady # None /\ pc[mutexReady] = "wait_int"
          /\ loc[mutexReady].victim = worker[w].query
    /\ \A c \in Checkers :
          /\ pc[c] \in {"victim", "set"} /\ loc[c].head # None => loc[c].head \in Range(ready)
          /\ pc[c] = "wait_int" => /\ loc[c].head \in Range(ready)
                                   /\ Prior(loc[c].head) < Prior(loc[c].victim)

\* One thread ages a query, and does not sleep for one that cannot get better.
Aged ==
    /\ \A a, b \in Agers :
          pc[a] # "idle" /\ pc[b] # "idle" /\ loc[a].query = loc[b].query => a = b
    /\ \A a \in Agers : pc[a] = "sleep" => Prior(loc[a].query) > 0

InOrder ==
    Algorithm = "PRIORIDADES" =>
        \A i, j \in DOMAIN ready : i < j => Prior(ready[i]) <= Prior(ready[j])

Tokens ==
    /\ Len(ready) = sem.ready + IF pc[Acceptor] = "idle" THEN 0 ELSE 1
    /\ Cardinality(FreeWorkers) = sem.workers + IF plan = "pair" THEN 1 ELSE 0

Clean == Told /\ Places /\ Staff /\ Pairs /\ Evictions /\ Aged /\ InOrder /\ Tokens

MasterInv == Shape /\ (Sound => Clean)

-----------------------------------------------------------------------------
(* What a step leaves of a part whose state it does not touch.             *)

\* An element is in a list when one of its places holds it.
LEMMA InRange ==
  ASSUME NEW S, NEW s \in Seq(S), NEW x
  PROVE  In(s, x) <=> x \in Range(s)
BY DEF In, Range

\* The objects that the lists and the threads name.
LEMMA Named ==
  ASSUME Shape
  PROVE  /\ Range(ready) \subseteq Queries /\ Range(exec) \subseteq Queries
         /\ Range(workers) \subseteq Workers
         /\ \A q \in Queries : Prior(q) \in Nat
         /\ \A w \in Workers : Free(w) <=> ~Busy(w)
<1> USE DEF Shape, Types
<1>1. /\ ready \in Seq(Queries) /\ exec \in Seq(Queries) /\ workers \in Seq(Workers)
  BY DEF ListsTyped
<1>2. Range(ready) \subseteq Queries /\ Range(exec) \subseteq Queries /\ Range(workers) \subseteq Workers
  BY <1>1, LenProperties, ElementOfSeq DEF Range
<1>3. \A q \in Queries : Prior(q) \in Nat
  BY DEF Prior, QueriesTyped, QueryTypes
<1>4. \A w \in Workers : Free(w) <=> ~Busy(w)
  BY DEF Free, Busy, WorkersTyped, WorkerTypes
<1> QED BY <1>1, <1>2, <1>3, <1>4

\* The steps that tell no query its end.
LEMMA ToldKept ==
  ASSUME Told, qpc' = qpc,
         \A q \in Queries : /\ query'[q].interrumpir = query[q].interrumpir
                            /\ \/ query'[q].state = query[q].state
                               \/ qpc[q] \in {"accepted", "recv"},
         \/ pc'[Acceptor] = "idle"
         \/ pc[Acceptor] # "idle" /\ loc'[Acceptor].query = loc[Acceptor].query
  PROVE  Told'
BY DEF Told

\* The steps that start no aging: threads only end, or sleep for a query that can get better.
LEMMA AgedKept ==
  ASSUME Shape, Aged,
         \A a \in Agers : /\ pc'[a] # "idle" => /\ pc[a] # "idle"
                                                /\ loc'[a].query = loc[a].query
                          /\ pc'[a] = "sleep" => pc[a] = "sleep",
         \A q \in Queries : query'[q].prioridad = query[q].prioridad
  PROVE  Aged'
<1>1. \A a \in Agers : pc[a] # "idle" => loc[a].query \in Queries
  BY Constants DEF Shape, HaveQueries, CheckersHave
<1> QED BY <1>1 DEF Aged, Prior

\* The steps that neither insert nor change a priority.
LEMMA InOrderKept ==
  ASSUME Shape, InOrder, ready' = ready,
         \A q \in Queries : query'[q].prioridad = query[q].prioridad
  PROVE  InOrder'
<1>1. \A i \in DOMAIN ready : ready[i] \in Queries
  BY LenProperties, ElementOfSeq DEF Shape, Types, ListsTyped
<1> QED BY <1>1 DEF InOrder, Prior

\* The steps that pair and part nobody.
LEMMA PairsKept ==
  ASSUME Shape, Staff, Pairs, exec' = exec,
         \A w \in Workers :
            /\ Serves(w)' <=> Serves(w)
            /\ Serves(w) => worker'[w].query = worker[w].query
            /\ worker'[w].error => worker[w].error /\ worker'[w].query = worker[w].query,
         \A q \in Queries :
            /\ query'[q].worker = query[q].worker
            /\ query[q].state = "FINISHED" => query'[q].state = "FINISHED"
  PROVE  Pairs'
<1>1. Range(exec) \subseteq Queries
  BY Named
<1>2. \A w \in Workers : worker[w].error => query'[worker[w].query].state = "FINISHED"
  <2>1. \A w \in Workers : worker[w].error => worker[w].query \in Queries
    BY Named DEF Shape, Staff, HaveQueries, WorkersHave
  <2> QED BY <2>1 DEF Pairs
<1> QED BY <1>1, <1>2 DEF Pairs

\* Who has seen a head, and who waits for an answer, still does.
LEMMA EvictionsKept ==
  ASSUME Shape, Evictions, Range(ready) \subseteq Range(ready)', sem'.int = sem.int,
         mutexReady' = mutexReady,
         \A w \in Workers : Asked(w)' => Asked(w) /\ worker'[w].query = worker[w].query,
         \A c \in Checkers :
            /\ pc'[c] \in {"victim", "set", "wait_int"} =>
                  /\ pc[c] \in {"victim", "set"} \/ pc[c] = pc'[c]
                  /\ loc'[c].head = loc[c].head
            /\ pc'[c] = "wait_int" => pc[c] = "wait_int"
            /\ pc[c] = "wait_int" => pc'[c] = "wait_int" /\ loc'[c].victim = loc[c].victim,
         \A q \in Queries : query'[q].prioridad = query[q].prioridad
  PROVE  Evictions'
<1> USE DEF Shape
<1>1. \A c \in Checkers : pc[c] = "wait_int" => loc[c].victim \in Queries
  BY DEF HaveQueries, CheckersHave
<1>2. mutexReady # None => mutexReady \in Checkers
  BY DEF Types, SyncTyped
<1>3. \A c \in Checkers : pc[c] = "wait_int" => loc[c].head \in Range(ready) /\ loc[c].head \in Queries
  BY Named DEF Evictions
<1>4. sem'.int \in {0, 1} /\ (sem'.int = 1 => \E c \in Checkers : pc'[c] = "wait_int")
  BY DEF Evictions
<1>5. ASSUME NEW w \in Workers, Asked(w)'
      PROVE  /\ sem'.int = 0
             /\ mutexReady' # None /\ pc'[mutexReady'] = "wait_int"
             /\ loc'[mutexReady'].victim = worker'[w].query
  BY <1>2, <1>5 DEF Evictions
<1>6. ASSUME NEW c \in Checkers
      PROVE  /\ pc'[c] \in {"victim", "set"} /\ loc'[c].head # None => loc'[c].head \in Range(ready)'
             /\ pc'[c] = "wait_int" => /\ loc'[c].head \in Range(ready)'
                                       /\ Prior(loc[c].head)' < Prior(loc[c].victim)'
  BY <1>1, <1>3 DEF Evictions, Prior
<1> QED BY <1>4, <1>5, <1>6 DEF Evictions

\* While nobody keeps mutex_ready there is nothing to cover.
LEMMA NoEviction ==
  ASSUME Shape', mutexReady' = None, sem'.int = 0, \A w \in Workers : ~Asked(w)'
  PROVE  Evictions'
<1>1. \A c \in Checkers : pc'[c] \notin {"victim", "set", "wait_int"}
  BY Constants DEF Shape, OneChecker
<1> QED BY <1>1 DEF Evictions

\* mutex_ready free means that no worker owes an answer to check_prior.
LEMMA NobodyAsked ==
  ASSUME Shape, Evictions, mutexReady = None
  PROVE  sem.int = 0 /\ \A w \in Workers : ~Asked(w)
<1>1. \A c \in Checkers : pc[c] # "wait_int"
  BY Constants DEF Shape, OneChecker
<1> QED BY <1>1 DEF Evictions

\* The workers that can be given a query, and their number.
Idle == {w \in Range(workers) : Free(w)}

\* The indexes the planner counts are as many as the workers that are free.
LEMMA IdleCounted ==
  ASSUME Shape, Staff
  PROVE  IsFiniteSet(Idle) /\ Cardinality(FreeWorkers) = Cardinality(Idle)
         /\ Cardinality(Idle) \in Nat
<1> DEFINE T == {w \in Workers : Free(w)}
<1>1. workers \in Seq(Workers) /\ IsInjective(workers)
  BY DEF Shape, Types, ListsTyped, Staff
<1>2. /\ FreeWorkers = {i \in DOMAIN workers : workers[i] \in T}
      /\ Idle = {w \in Range(workers) : w \in T}
  BY <1>1, LenProperties, ElementOfSeq DEF FreeWorkers, Idle, Range
<1> HIDE DEF T
<1> QED BY <1>1, <1>2, PlacesCounted, FS_CardinalityType

\* The same of the state a step leads to.
LEMMA IdleCountedNext ==
  ASSUME Shape', Staff'
  PROVE  IsFiniteSet(Idle') /\ Cardinality(FreeWorkers') = Cardinality(Idle')
         /\ Cardinality(Idle') \in Nat
<1> DEFINE T == {w \in Workers : Free(w)'}
<1>1. workers' \in Seq(Workers) /\ IsInjective(workers')
  BY DEF Shape, Types, ListsTyped, Staff
<1>2. /\ FreeWorkers' = {i \in DOMAIN workers' : workers'[i] \in T}
      /\ Idle' = {w \in Range(workers') : w \in T}
  BY <1>1, LenProperties, ElementOfSeq DEF FreeWorkers, Idle, Range
<1> HIDE DEF T
<1> QED BY <1>1, <1>2, PlacesCounted, FS_CardinalityType

\* The steps that post and take no token.
LEMMA TokensKept ==
  ASSUME Shape, Shape', Staff, Staff', Tokens, Len(ready') = Len(ready), Idle' = Idle,
         sem'.ready = sem.ready, sem'.workers = sem.workers,
         pc'[Acceptor] = "idle" <=> pc[Acceptor] = "idle",
         plan' = "pair" <=> plan = "pair"
  PROVE  Tokens'
<1>1. Cardinality(FreeWorkers') = Cardinality(FreeWorkers)
  BY IdleCounted, IdleCountedNext
<1> QED BY <1>1 DEF Tokens

\* A thread inside check_prior keeps the query it works on.
LEMMA CheckerMoves ==
  ASSUME Shape, Told, Aged, NEW c \in Checkers, pc[c] # "idle", pc'[c] \notin {"idle", "sleep"},
         \A d \in Checkers : d # c => pc'[d] = pc[d] /\ loc'[d] = loc[d],
         loc'[c].query = loc[c].query,
         UNCHANGED <<query, qpc>>
  PROVE  Told' /\ Aged' /\ (pc'[Acceptor] = "idle" <=> pc[Acceptor] = "idle")
<1>1. \A d \in Checkers : /\ loc'[d].query = loc[d].query
                          /\ pc'[d] = "idle" <=> pc[d] = "idle"
                          /\ pc'[d] = "sleep" => pc[d] = "sleep"
  OBVIOUS
<1>2. Told'
  BY <1>1, Constants DEF Told
<1>3. Aged'
  BY <1>1, AgedKept, Constants
<1> QED BY <1>1, <1>2, <1>3, Constants

-----------------------------------------------------------------------------
(* The order of querys_ready.                                              *)

\* A sorted insertion among sorted queries: the result is sorted by the priorities F of the
\* next state, which may have changed that of the query inserted.
LEMMA SortedInOrder ==
  ASSUME Types, NEW s \in Seq(Queries), NEW q \in Queries, NEW p \in Nat,
         \A i, j \in 1 .. Len(s) : i < j => Prior(s[i]) <= Prior(s[j]),
         NEW F, F[q] = p, \A i \in 1 .. Len(s) : F[s[i]] = Prior(s[i]),
         NEW t \in Sorted(s, q, p)
  PROVE  \A i, j \in DOMAIN t : i < j => F[t[i]] <= F[t[j]]
<1>1. PICK k \in 1 .. Len(s) + 1 :
         /\ t = InsertAt(s, k, q)
         /\ \A j \in 1 .. k - 1 : Prior(s[j]) <= p
         /\ k <= Len(s) => Prior(s[k]) >= p
  <2>1. PICK k \in 1 .. Len(s) + 1 :
           /\ t = InsertAt(s, k, q)
           /\ \/ /\ \A j \in 1 .. k - 1 : Prior(s[j]) < p
                 /\ k <= Len(s) => Prior(s[k]) >= p
              \/ /\ \A j \in 1 .. k - 1 : Prior(s[j]) <= p
                 /\ k <= Len(s) => Prior(s[k]) > p
    BY DEF Sorted
  <2>2. \A j \in 1 .. Len(s) : Prior(s[j]) \in Nat
    BY LenProperties, ElementOfSeq DEF Types, QueriesTyped, QueryTypes, Prior
  <2>3. Len(s) \in Nat
    BY LenProperties
  <2>4. \A j \in 1 .. k - 1 : j \in 1 .. Len(s)
    BY <2>3
  <2>5. \A j \in 1 .. k - 1 : Prior(s[j]) <= p
    BY <2>1, <2>2, <2>4
  <2>6. k <= Len(s) => Prior(s[k]) >= p
    <3>1. k <= Len(s) => k \in 1 .. Len(s)
      BY <2>3
    <3> QED BY <2>1, <2>2, <3>1
  <2> QED BY <2>1, <2>5, <2>6
<1> DEFINE n == Len(s)
<1>2. /\ n \in Nat /\ Len(t) = n + 1 /\ DOMAIN t = 1 .. n + 1
      /\ \A i \in 1 .. n + 1 : t[i] = IF i < k THEN s[i] ELSE IF i = k THEN q ELSE s[i - 1]
  <2>1. n \in Nat
    BY LenProperties
  <2>2. /\ t \in Seq(Queries) /\ Len(t) = n + 1
        /\ \A i \in 1 .. n + 1 : t[i] = IF i < k THEN s[i] ELSE IF i = k THEN q ELSE s[i - 1]
    <3>1. /\ InsertAt(s, k, q) \in Seq(Queries) /\ Len(InsertAt(s, k, q)) = Len(s) + 1
          /\ \A i \in 1 .. Len(s) + 1 :
                InsertAt(s, k, q)[i] = IF i < k THEN s[i] ELSE IF i = k THEN q ELSE s[i - 1]
      BY InsertPlaces
    <3> QED BY <1>1, <3>1
  <2>3. DOMAIN t = 1 .. n + 1
    <3> HIDE DEF n
    <3> QED BY <2>2, LenProperties
  <2> QED BY <2>1, <2>2, <2>3
<1>3. \A i \in 1 .. n : Prior(s[i]) \in Nat
  BY LenProperties, ElementOfSeq DEF Types, QueriesTyped, QueryTypes, Prior
<1>4. \A i \in 1 .. n : i >= k => Prior(s[i]) >= p
  <2> SUFFICES ASSUME NEW i \in 1 .. n, i >= k PROVE Prior(s[i]) >= p
    OBVIOUS
  <2>1. k \in 1 .. n /\ Prior(s[k]) >= p
    BY <1>1, <1>2
  <2>2. Prior(s[k]) <= Prior(s[i])
    BY <2>1, <1>3
  <2> QED BY <2>1, <2>2, <1>3
<1>5. \A i \in 1 .. n + 1 :
         F[t[i]] = IF i < k THEN Prior(s[i]) ELSE IF i = k THEN p ELSE Prior(s[i - 1])
  <2> SUFFICES ASSUME NEW i \in 1 .. n + 1
               PROVE  F[t[i]] = IF i < k THEN Prior(s[i]) ELSE IF i = k THEN p ELSE Prior(s[i - 1])
    OBVIOUS
  <2>1. CASE i < k
    <3>1. i \in 1 .. n /\ t[i] = s[i] BY <2>1, <1>1, <1>2
    <3> QED BY <2>1, <3>1
  <2>2. CASE i = k
    BY <2>2, <1>2
  <2>3. CASE i > k
    <3>1. i - 1 \in 1 .. n /\ t[i] = s[i - 1] BY <2>3, <1>1, <1>2
    <3> QED BY <2>3, <3>1
  <2> QED BY <2>1, <2>2, <2>3, <1>2
<1> HIDE DEF n
<1>6. ASSUME NEW i \in 1 .. n + 1, NEW j \in 1 .. n + 1, i < j
      PROVE  F[t[i]] <= F[t[j]]
  <2>1. CASE j < k
    <3>1. i \in 1 .. n /\ j \in 1 .. n BY <2>1, <1>6, <1>1, <1>2 DEF n
    <3> QED BY <2>1, <3>1, <1>6, <1>5 DEF n
  <2>2. CASE i < k /\ j = k
    BY <2>2, <1>5, <1>1, <1>2 DEF n
  <2>3. CASE i < k /\ j > k
    <3>1. i \in 1 .. n /\ j - 1 \in 1 .. n /\ i < j - 1 BY <2>3, <1>6, <1>1, <1>2 DEF n
    <3>2. Prior(s[i]) <= Prior(s[j - 1]) BY <3>1 DEF n
    <3> QED BY <2>3, <3>2, <1>6, <1>5
  <2>4. CASE i = k
    <3>1. j - 1 \in 1 .. n /\ j - 1 >= k BY <2>4, <1>6, <1>1, <1>2 DEF n
    <3>2. Prior(s[j - 1]) >= p BY <3>1, <1>4
    <3>3. Prior(s[j - 1]) \in Nat BY <3>1, <1>3
    <3> QED BY <2>4, <3>2, <3>3, <1>6, <1>5
  <2>5. CASE i > k
    <3>1. i - 1 \in 1 .. n /\ j - 1 \in 1 .. n /\ i - 1 < j - 1 BY <2>5, <1>6, <1>1, <1>2 DEF n
    <3>2. Prior(s[i - 1]) <= Prior(s[j - 1]) BY <3>1 DEF n
    <3> QED BY <2>5, <3>2, <1>6, <1>5
  <2> QED BY <2>1, <2>2, <2>3, <2>4, <2>5, <1>6
<1> QED BY <1>2, <1>6

\* What is left of a sorted list is sorted.
LEMMA RemoveInOrder ==
  ASSUME NEW s \in Seq(Queries), NEW x \in Range(s), NEW F,
         \A i, j \in 1 .. Len(s) : i < j => F[s[i]] <= F[s[j]]
  PROVE  LET t == RemoveFirst(s, x)
         IN  \A i, j \in 1 .. Len(t) : i < j => F[t[i]] <= F[t[j]]
<1>1. PICK k \in 1 .. Len(s) : RemoveFirst(s, x) = RemoveAt(s, k)
  <2>1. \E i \in 1 .. Len(s) : s[i] = x
    BY LenProperties DEF Range
  <2> QED BY <2>1, RemovePresent
<1> DEFINE t == RemoveFirst(s, x)
           at(i) == IF i < k THEN i ELSE i + 1
<1>2. Len(s) \in Nat /\ Len(t) = Len(s) - 1 /\ \A i \in 1 .. Len(s) - 1 : t[i] = s[at(i)]
  BY <1>1, RemoveAtPlaces, LenProperties
<1>3. \A i, j \in 1 .. Len(s) - 1 : i < j =>
         at(i) \in 1 .. Len(s) /\ at(j) \in 1 .. Len(s) /\ at(i) < at(j)
  BY <1>2
<1> HIDE DEF t, at
<1> QED BY <1>2, <1>3 DEF t

\* The insertions of the accept loop and of worker_handler.
LEMMA InsertedInOrder ==
  ASSUME Shape, Shape', InOrder, NEW q \in Queries, ready' \in Sorted(ready, q, Prior(q)),
         \A r \in Queries : query'[r].prioridad = query[r].prioridad
  PROVE  InOrder'
<1> SUFFICES ASSUME Algorithm = "PRIORIDADES"
             PROVE  \A i, j \in DOMAIN ready' :
                       i < j => query'[ready'[i]].prioridad <= query'[ready'[j]].prioridad
  BY DEF InOrder, Prior
<1> DEFINE F == [r \in Queries |-> Prior(r)]
<1>1. ready \in Seq(Queries) /\ DOMAIN ready = 1 .. Len(ready)
  BY LenProperties DEF Shape, Types, ListsTyped
<1>2. \A i \in 1 .. Len(ready) : ready[i] \in Queries
  BY <1>1, ElementOfSeq
<1>3. \A i, j \in 1 .. Len(ready) : i < j => Prior(ready[i]) <= Prior(ready[j])
  BY <1>1 DEF InOrder
<1>4. F[q] = Prior(q) /\ (\A i \in 1 .. Len(ready) : F[ready[i]] = Prior(ready[i])) /\ Prior(q) \in Nat
  BY <1>2, Named
<1>5. \A i, j \in DOMAIN ready' : i < j => F[ready'[i]] <= F[ready'[j]]
  <2> HIDE DEF F
  <2> QED BY <1>1, <1>3, <1>4, SortedInOrder DEF Shape
<1>6. \A i \in DOMAIN ready' : ready'[i] \in Queries
  BY LenProperties, ElementOfSeq DEF Shape, Types, ListsTyped
<1>7. \A r \in Queries : query'[r].prioridad = F[r]
  BY DEF Prior
<1> HIDE DEF F
<1> QED BY <1>5, <1>6, <1>7

-----------------------------------------------------------------------------
(* The accept loop.                                                        *)

\* The lemmas XxxClean: while no fault has struck the action Xxx keeps Clean, one step per part of
\* it that the action disturbs.
LEMMA AcceptWorkerClean ==
  ASSUME Shape, Shape', Clean, NEW w \in Workers, AcceptWorker(w), up', ~fault'
  PROVE  Clean'
<1> USE Constants DEF Clean, lists, objects, sync, checker, planner, handler
<1>1. /\ w \notin Range(workers) /\ Free(w) /\ ~worker[w].interrumpir
  BY DEF AcceptWorker, Staff
<1>2. /\ workers' = Append(workers, w) /\ workers \in Seq(Workers)
      /\ wpc' = [wpc EXCEPT ![w] = "recv"] /\ wpc \in [Workers -> {"off", "recv", "replied", "requeued", "over", "silent", "gone"}]
      /\ sem' = [sem EXCEPT !["workers"] = @ + 1] /\ sem \in SemTypes
      /\ UNCHANGED <<ready, exec, query, worker, freed, mutexReady, signalAsign, pc, loc, plan, taken,
                     result, qpc, fault>>
  BY DEF AcceptWorker, Post, Shape, Types, ListsTyped, ThreadsTyped, SyncTyped
<1>3. /\ Range(workers)' = Range(workers) \cup {w} /\ IsInjective(workers)'
  <2>1. IsInjective(workers) BY DEF Staff
  <2> QED BY <1>1, <1>2, <2>1, AppendDistinct
<1>4. \A u \in Workers : wpc'[u] = IF u = w THEN "recv" ELSE wpc[u]
  BY <1>2
<1>5. Told' /\ Places' /\ Aged' /\ InOrder'
  BY <1>2 DEF Told, Places, Alive, Held, Aged, InOrder, Prior
<1>6. Staff'
  BY <1>1, <1>2, <1>3, <1>4 DEF Staff, Free
<1>7. Pairs'
  <2>1. \A u \in Workers : Serves(u)' <=> Serves(u)
    BY <1>1, <1>2, <1>4, Named DEF Serves, Busy
  <2> QED BY <1>2, <2>1, PairsKept
<1>8. Evictions'
  <2>1. \A u \in Workers : Asked(u)' <=> Asked(u)
    BY <1>1, <1>2, <1>4 DEF Asked
  <2>2. sem'.int = sem.int
    BY <1>2 DEF SemTypes
  <2> QED BY <1>2, <2>1, <2>2, EvictionsKept
<1>9. Tokens'
  <2>1. Idle' = Idle \cup {w} /\ w \notin Idle
    BY <1>1, <1>2, <1>3 DEF Idle, Free
  <2>2. Cardinality(Idle') = Cardinality(Idle) + 1
    BY <2>1, IdleCounted, FS_AddElement
  <2>3. sem'.workers = sem.workers + 1 /\ sem'.ready = sem.ready /\ sem.workers \in Nat
    BY <1>2 DEF SemTypes
  <2>4. Cardinality(FreeWorkers') = Cardinality(FreeWorkers) + 1 /\ Cardinality(FreeWorkers) \in Nat
    BY <1>6, <2>2, IdleCounted, IdleCountedNext
  <2> QED BY <1>2, <2>3, <2>4 DEF Tokens
<1> QED BY <1>5, <1>6, <1>7, <1>8, <1>9

LEMMA AcceptQueryClean ==
  ASSUME Shape, Shape', Clean, NEW q \in Queries, AcceptQuery(q), up', ~fault'
  PROVE  Clean'
<1> USE Constants DEF Clean, lists, objects, sync, checker, planner, handler
<1>1. /\ qpc[q] = "off" /\ pc[Acceptor] = "idle" /\ mutexReady = None
      /\ ready' \in IF Algorithm = "FIFO" THEN {Append(ready, q)} ELSE Sorted(ready, q, Prior(q))
      /\ pc' = [pc EXCEPT ![Acceptor] = IF Algorithm = "FIFO" THEN "post" ELSE "check"]
      /\ loc' = [loc EXCEPT ![Acceptor].query = q]
      /\ qpc' = [qpc EXCEPT ![q] = "accepted"]
      /\ UNCHANGED <<exec, workers, query, worker, freed, mutexReady, sem, signalAsign, plan, taken,
                     wpc, result, fault>>
  BY DEF AcceptQuery
<1>2. /\ \A c \in Checkers : c # Acceptor => pc'[c] = pc[c] /\ loc'[c] = loc[c]
      /\ pc'[Acceptor] \in {"post", "check"} /\ loc'[Acceptor].query = q
      /\ \A r \in Queries : qpc'[r] = IF r = q THEN "accepted" ELSE qpc[r]
  BY <1>1 DEF Shape, Types, ThreadsTyped, LocalsTyped, LocTypes
<1>3. q \notin Alive /\ query[q].state = "READY"
  BY <1>1 DEF Alive, Told
<1>4. q \notin Range(ready) /\ q \notin Range(exec) /\ q \notin Held
  BY <1>3 DEF Places
<1>5. /\ ready \in Seq(Queries) /\ IsInjective(ready)
  BY DEF Shape, Types, ListsTyped, Places
<1>6. /\ IsInjective(ready') /\ Range(ready') = Range(ready) \cup {q} /\ Len(ready') = Len(ready) + 1
  <2>1. CASE Algorithm = "FIFO"
    <3>1. ready' = Append(ready, q)
      BY <1>1, <2>1
    <3> QED BY <1>4, <1>5, <3>1, AppendDistinct
  <2>2. CASE Algorithm # "FIFO"
    <3>1. ready' \in Sorted(ready, q, Prior(q))
      BY <1>1, <2>2
    <3> QED BY <1>4, <1>5, <3>1, SortedInserts
  <2> QED BY <2>1, <2>2
<1>7. Told'
  BY <1>1, <1>2, <1>3 DEF Told
<1>8. Places'
  <2>1. Alive' = Alive \cup {q} /\ Held' = Held
    BY <1>1, <1>2, <1>3 DEF Alive, Held
  <2> QED BY <1>1, <1>4, <1>6, <2>1 DEF Places
<1>9. Staff' /\ Pairs'
  BY <1>1 DEF Staff, Pairs, Free, Serves, Busy
<1>10. Evictions'
  <2>1. sem.int = 0 /\ \A w \in Workers : ~Asked(w)
    BY <1>1, NobodyAsked
  <2> QED BY <1>1, <2>1, NoEviction DEF Asked
<1>11. Aged'
  BY <1>1, <1>2, AgedKept
<1>12. InOrder'
  <2> SUFFICES ASSUME Algorithm = "PRIORIDADES" PROVE InOrder'
    BY DEF InOrder
  <2>1. ready' \in Sorted(ready, q, Prior(q))
    BY <1>1
  <2> QED BY <1>1, <2>1, InsertedInOrder
<1>13. Tokens'
  BY <1>1, <1>2, <1>6 DEF Tokens, FreeWorkers, Free, Shape, Types, SyncTyped, SemTypes
<1> QED BY <1>7, <1>8, <1>9, <1>10, <1>11, <1>12, <1>13

\* What a step that starts an aging thread for q does to the threads: at most one of those that
\* were not there is, and it is the only one of q.
LEMMA Spawned ==
  ASSUME Shape, Aged, NEW cs, NEW q \in Queries, Spawn(cs, q), ~fault',
         \A a \in Agers : cs[a] = pc[a], DOMAIN cs = Checkers
  PROVE  /\ ~fault
         /\ \A c \in Checkers : pc[c] # "idle" => loc'[c] = loc[c]
         /\ \A c \in Checkers : c \notin Agers \/ pc[c] # "idle" => pc'[c] = cs[c]
         /\ \A a \in Agers : pc'[a] \in {"idle", "test"} \/ pc'[a] = pc[a]
         /\ \A a, b \in Agers :
               pc'[a] # "idle" /\ pc'[b] # "idle" /\ loc'[a].query = loc'[b].query => a = b
<1> USE Constants
<1>1. CASE Algorithm = "PRIORIDADES" /\ Aging
  <2>1. PICK a \in Agers : /\ pc[a] = "idle"
                           /\ pc' = [cs EXCEPT ![a] = "test"]
                           /\ loc' = [loc EXCEPT ![a].query = q]
    BY <1>1 DEF Spawn
  <2>2. fault' = (fault \/ \E b \in Agers : pc[b] # "idle" /\ loc[b].query = q)
    BY <1>1 DEF Spawn
  <2>3. ~fault /\ \A b \in Agers : pc[b] # "idle" => loc[b].query # q
    BY <2>2
  <2>4. /\ \A c \in Checkers : c # a => pc'[c] = cs[c] /\ loc'[c] = loc[c]
        /\ pc'[a] = "test" /\ loc'[a].query = q
    BY <2>1 DEF Shape, Types, LocalsTyped, LocTypes
  <2> QED BY <2>1, <2>3, <2>4 DEF Aged
<1>2. CASE ~(Algorithm = "PRIORIDADES" /\ Aging)
  <2>1. pc' = cs /\ UNCHANGED <<loc, fault>>
    BY <1>2 DEF Spawn
  <2> QED BY <2>1 DEF Aged
<1> QED BY <1>1, <1>2

LEMMA PostQueryClean ==
  ASSUME Shape, Shape', Clean, PostQuery, up', ~fault'
  PROVE  Clean'
<1> USE Constants DEF Clean, lists, objects, sync, checker, planner, handler
<1> DEFINE q == loc[Acceptor].query
           cs == [pc EXCEPT ![Acceptor] = "idle"]
<1>1. /\ pc[Acceptor] = "post" /\ Spawn(cs, q)
      /\ sem' = [sem EXCEPT !["ready"] = @ + 1]
      /\ qpc' = [qpc EXCEPT ![q] = "recv"]
      /\ UNCHANGED <<ready, exec, workers, query, worker, freed, mutexReady, signalAsign, plan, taken,
                     wpc, result>>
  BY DEF PostQuery, Post
<1>2. q \in Queries /\ qpc[q] = "accepted"
  BY <1>1 DEF Shape, HaveQueries, CheckersHave, Told
<1>3. (\A a \in Agers : cs[a] = pc[a]) /\ cs[Acceptor] = "idle" /\ DOMAIN cs = Checkers
  BY DEF Shape, Types, ThreadsTyped
<1> HIDE DEF cs, q
<1>4. /\ \A c \in Checkers : pc[c] # "idle" => loc'[c] = loc[c]
      /\ \A c \in Checkers : c \notin Agers \/ pc[c] # "idle" => pc'[c] = cs[c]
      /\ \A a \in Agers : pc'[a] \in {"idle", "test"} \/ pc'[a] = pc[a]
      /\ \A a, b \in Agers :
            pc'[a] # "idle" /\ pc'[b] # "idle" /\ loc'[a].query = loc'[b].query => a = b
  BY <1>1, <1>2, <1>3, Spawned
<1>5. pc'[Acceptor] = "idle" /\ \A a \in Agers : pc[a] # "idle" => pc'[a] = pc[a]
  BY <1>3, <1>4
<1>6. \A r \in Queries : qpc'[r] = IF r = q THEN "recv" ELSE qpc[r]
  BY <1>1, <1>2 DEF Shape, Types, ThreadsTyped
<1>7. /\ sem'.ready = sem.ready + 1 /\ sem'.workers = sem.workers /\ sem'.int = sem.int
      /\ sem.ready \in Nat
  BY <1>1 DEF Shape, Types, SyncTyped, SemTypes
<1>8. Told'
  BY <1>1, <1>2, <1>5, <1>6 DEF Told
<1>9. Places'
  <2>1. Alive' = Alive /\ Held' = Held
    BY <1>1, <1>2, <1>6 DEF Alive, Held
  <2> QED BY <1>1, <2>1 DEF Places
<1>10. Staff' /\ Pairs' /\ InOrder'
  BY <1>1 DEF Staff, Pairs, Free, Serves, Busy, InOrder, Prior
<1>11. Evictions'
  <2>1. \A c \in Checkers : pc'[c] \in {"victim", "set", "wait_int"} \/ pc[c] = "wait_int" =>
           pc'[c] = pc[c] /\ loc'[c] = loc[c]
    BY <1>1, <1>4, <1>5
  <2> QED BY <1>1, <1>7, <2>1, EvictionsKept DEF Asked
<1>12. Aged'
  <2>1. \A a \in Agers : pc'[a] = "sleep" => pc[a] = "sleep" /\ loc'[a] = loc[a]
    BY <1>4
  <2> QED BY <1>1, <1>4, <2>1 DEF Aged, Prior
<1>13. Tokens'
  BY <1>1, <1>5, <1>7 DEF Tokens, FreeWorkers, Free
<1> QED BY <1>8, <1>9, <1>10, <1>11, <1>12, <1>13

-----------------------------------------------------------------------------
(* check_prior.                                                            *)

\* The parts that no step of check_prior touches.
LEMMA CheckerLeaves ==
  ASSUME Clean, UNCHANGED <<ready, exec, workers, query, wpc, result, qpc, plan, taken>>
  PROVE  /\ Places' /\ InOrder'
         /\ worker' = worker => Staff' /\ Pairs' /\ Idle' = Idle
BY DEF Clean, Places, Alive, Held, InOrder, Prior, Staff, Free, Pairs, Serves, Busy, Idle

LEMMA CheckEnterClean ==
  ASSUME Shape, Shape', Clean, NEW c \in Checkers, CheckEnter(c), up', ~fault'
  PROVE  Clean'
<1> USE Constants DEF Clean, lists, objects, sync, checker, planner, handler
<1>1. /\ pc[c] = "check" /\ pc' = [pc EXCEPT ![c] = "look"] /\ loc' = loc
      /\ sem' = [sem EXCEPT !["check"] = @ - 1]
      /\ UNCHANGED <<ready, exec, workers, query, worker, mutexReady, wpc, result, qpc, plan, taken>>
  BY DEF CheckEnter, Goto
<1>2. pc'[c] = "look" /\ \A d \in Checkers : d # c => pc'[d] = pc[d]
  BY <1>1 DEF Shape, Types, ThreadsTyped
<1>3. sem'.ready = sem.ready /\ sem'.workers = sem.workers /\ sem'.int = sem.int
  BY <1>1 DEF Shape, Types, SyncTyped, SemTypes
<1>4. Told' /\ Aged' /\ (pc'[Acceptor] = "idle" <=> pc[Acceptor] = "idle")
  BY <1>1, <1>2, CheckerMoves
<1>5. Places' /\ InOrder' /\ Staff' /\ Pairs' /\ Idle' = Idle
  BY <1>1, CheckerLeaves
<1>6. Evictions'
  BY <1>1, <1>2, <1>3, EvictionsKept DEF Asked
<1>7. Tokens'
  BY <1>1, <1>3, <1>4, <1>5, TokensKept
<1> QED BY <1>4, <1>5, <1>6, <1>7

LEMMA CheckLookClean ==
  ASSUME Shape, Shape', Clean, NEW c \in Checkers, CheckLook(c), up', ~fault'
  PROVE  Clean'
<1> USE Constants DEF Clean, lists, objects, sync, checker, planner, handler
<1>1. /\ pc[c] = "look" /\ mutexReady = None
      /\ UNCHANGED <<ready, exec, workers, query, worker, wpc, result, qpc, plan, taken>>
  BY DEF CheckLook
<1>2. /\ \A d \in Checkers : d # c => pc'[d] = pc[d] /\ loc'[d] = loc[d]
      /\ loc'[c].query = loc[c].query /\ pc'[c] \in {"post", "test", "victim"}
      /\ sem'.ready = sem.ready /\ sem'.workers = sem.workers /\ sem'.int = sem.int
      /\ mutexReady' = None => pc'[c] # "victim"
      /\ pc'[c] = "victim" => loc'[c].head = None \/ loc'[c].head \in Range(ready)
  <2>1. CASE workers = <<>> \/ FreeWorkers # {}
    <3>1. CheckReturns(c) /\ sem' = [sem EXCEPT !["check"] = @ + 1] /\ mutexReady' = mutexReady
      BY <2>1 DEF CheckLook, Post
    <3> QED BY <3>1, Returned DEF Shape, Types, SyncTyped, SemTypes
  <2>2. CASE ~(workers = <<>> \/ FreeWorkers # {})
    <3> DEFINE h == IF ready = <<>> THEN None ELSE Head(ready)
    <3>1. /\ mutexReady' = c /\ loc' = [loc EXCEPT ![c].head = h]
          /\ pc' = [pc EXCEPT ![c] = "victim"] /\ sem' = sem
      BY <2>2 DEF CheckLook, Goto
    <3>2. h = None \/ h \in Range(ready)
      BY HeadIsFirst DEF Shape, Types, ListsTyped
    <3> HIDE DEF h
    <3>3. loc'[c].head = h /\ loc'[c].query = loc[c].query
      BY <3>1 DEF Shape, Types, LocalsTyped, LocTypes
    <3>4. pc'[c] = "victim" /\ \A d \in Checkers : d # c => pc'[d] = pc[d] /\ loc'[d] = loc[d]
      BY <3>1 DEF Shape, Types, ThreadsTyped, LocalsTyped
    <3> QED BY <3>1, <3>2, <3>3, <3>4
  <2> QED BY <2>1, <2>2
<1>3. Told' /\ Aged' /\ (pc'[Acceptor] = "idle" <=> pc[Acceptor] = "idle")
  BY <1>1, <1>2, CheckerMoves
<1>4. Places' /\ InOrder' /\ Staff' /\ Pairs' /\ Idle' = Idle
  BY <1>1, CheckerLeaves
<1>5. Evictions'
  <2>1. sem.int = 0 /\ (\A w \in Workers : ~Asked(w)) /\ \A d \in Checkers : pc[d] # "wait_int"
    BY <1>1, NobodyAsked DEF Shape, OneChecker
  <2>2. \A w \in Workers : ~Asked(w)'
    BY <1>1, <2>1 DEF Asked
  <2>3. \A d \in Checkers : pc'[d] # "wait_int"
    BY <1>2, <2>1
  <2>4. \A d \in Checkers : pc'[d] \in {"victim", "set"} /\ loc'[d].head # None =>
           loc'[d].head \in Range(ready)
    BY <1>2 DEF Evictions
  <2> QED BY <1>1, <1>2, <2>1, <2>2, <2>3, <2>4 DEF Evictions
<1>6. Tokens'
  BY <1>1, <1>2, <1>3, <1>4, TokensKept
<1> QED BY <1>3, <1>4, <1>5, <1>6

LEMMA CheckVictimClean ==
  ASSUME Shape, Shape', Clean, NEW c \in Checkers, CheckVictim(c), up', ~fault'
  PROVE  Clean'
<1> USE Constants DEF Clean, lists, objects, sync, checker, planner, handler
<1>1. /\ pc[c] = "victim" /\ loc' = [loc EXCEPT ![c].victim = Victima]
      /\ pc' = [pc EXCEPT ![c] = "set"]
      /\ UNCHANGED <<ready, exec, workers, query, worker, mutexReady, sem, wpc, result, qpc, plan, taken>>
  BY DEF CheckVictim, Goto, Dies
<1>2. /\ \A d \in Checkers : d # c => pc'[d] = pc[d] /\ loc'[d] = loc[d]
      /\ pc'[c] = "set" /\ loc'[c].query = loc[c].query /\ loc'[c].head = loc[c].head
  BY <1>1 DEF Shape, Types, ThreadsTyped, LocalsTyped, LocTypes
<1>3. Told' /\ Aged' /\ (pc'[Acceptor] = "idle" <=> pc[Acceptor] = "idle")
  BY <1>1, <1>2, CheckerMoves
<1>4. Places' /\ InOrder' /\ Staff' /\ Pairs' /\ Idle' = Idle
  BY <1>1, CheckerLeaves
<1>5. Evictions'
  BY <1>1, <1>2, EvictionsKept DEF Asked
<1>6. Tokens'
  BY <1>1, <1>3, <1>4, TokensKept
<1> QED BY <1>3, <1>4, <1>5, <1>6

LEMMA CheckSetClean ==
  ASSUME Shape, Shape', Clean, NEW c \in Checkers, CheckSet(c), up', ~fault'
  PROVE  Clean'
<1> USE Constants DEF Clean, lists, objects, sync, checker, planner, handler
<1> DEFINE v == loc[c].victim
           w == query[v].worker
           h == loc[c].head
<1>1. /\ pc[c] = "set" /\ h # None
      /\ UNCHANGED <<ready, exec, workers, query, wpc, result, qpc, plan, taken>>
  BY DEF CheckSet, Dies
<1>2. /\ v \in Queries /\ mutexReady = c
      /\ \A d \in Checkers : d # c => pc[d] \notin {"look", "victim", "set", "wait_int", "wait_asign"}
  BY <1>1 DEF Shape, HaveQueries, CheckersHave, OneChecker
<1>3. /\ sem.int = 0 /\ (\A u \in Workers : ~Asked(u)) /\ h \in Range(ready)
  BY <1>1, <1>2 DEF Evictions, Shape, Types, SyncTyped
<1>4. CASE Preempts(h, v)
  <2>1. /\ worker' = [worker EXCEPT ![w].interrumpir = TRUE]
        /\ pc' = [pc EXCEPT ![c] = "wait_int"] /\ In(exec, v) /\ wpc[w] = "recv"
        /\ UNCHANGED <<loc, mutexReady, sem>>
    BY <1>1, <1>4 DEF CheckSet, Goto
  <2>2. v \in Range(exec)
    BY <2>1 DEF In, Range
  <2>3. w \in Workers /\ worker[w].query = v /\ Serves(w)
    BY <2>2 DEF Pairs
  <2> HIDE DEF w
  <2>4. \A u \in Workers :
            /\ worker'[u].state = worker[u].state /\ worker'[u].query = worker[u].query
            /\ worker'[u].error = worker[u].error
            /\ worker'[u].interrumpir = IF u = w THEN TRUE ELSE worker[u].interrumpir
    <3>1. WorkersTyped /\ worker' = [worker EXCEPT ![w].interrumpir = TRUE]
      BY <2>1 DEF Shape, Types
    <3> QED BY <3>1 DEF WorkersTyped, WorkerTypes
  <2>5. pc'[c] = "wait_int" /\ \A d \in Checkers : d # c => pc'[d] = pc[d]
    BY <2>1 DEF Shape, Types, ThreadsTyped
  <2>6. Told' /\ Aged' /\ (pc'[Acceptor] = "idle" <=> pc[Acceptor] = "idle")
    BY <1>1, <2>1, <2>5, CheckerMoves
  <2>7. Places' /\ InOrder'
    BY <1>1, CheckerLeaves
  <2>8. Staff'
    <3>1. Algorithm = "PRIORIDADES"
      BY <1>1 DEF Shape, Roles
    <3>2. ~Free(w) /\ ~worker[w].error
      BY <2>3, Named DEF Serves, Shape
    <3> QED BY <1>1, <2>1, <2>3, <2>4, <3>1, <3>2 DEF Staff, Free
  <2>9. Pairs'
    BY <1>1, <2>4, PairsKept DEF Serves, Busy
  <2>10. Evictions'
    <3>1. \A u \in Workers : Asked(u)' => u = w
      BY <1>1, <1>3, <2>4 DEF Asked
    <3>2. Prior(h)' < Prior(v)' /\ h \in Range(ready)'
      BY <1>1, <1>3, <1>4, <2>1, Named DEF Preempts, Prior
    <3>3. \A d \in Checkers : pc'[d] \in {"victim", "set", "wait_int"} => d = c
      BY <1>2, <2>5
    <3> QED BY <1>1, <1>2, <1>3, <2>1, <2>3, <2>4, <2>5, <3>1, <3>2, <3>3 DEF Evictions
  <2>11. Tokens'
    <3>1. Idle' = Idle
      BY <1>1, <2>4, Named DEF Idle, Free
    <3> QED BY <1>1, <2>1, <2>6, <2>8, <3>1, TokensKept
  <2> QED BY <2>6, <2>7, <2>8, <2>9, <2>10, <2>11
<1>5. CASE ~Preempts(h, v)
  <2>1. /\ mutexReady' = None /\ sem' = [sem EXCEPT !["check"] = @ + 1] /\ CheckReturns(c)
        /\ worker' = worker
    BY <1>1, <1>5 DEF CheckSet, Post
  <2>2. /\ \A d \in Checkers : d # c => pc'[d] = pc[d] /\ loc'[d] = loc[d]
        /\ loc'[c].query = loc[c].query /\ pc'[c] \in {"post", "test"}
    BY <2>1, Returned DEF Shape
  <2>3. sem'.ready = sem.ready /\ sem'.workers = sem.workers /\ sem'.int = sem.int
    BY <2>1 DEF Shape, Types, SyncTyped, SemTypes
  <2>4. Told' /\ Aged' /\ (pc'[Acceptor] = "idle" <=> pc[Acceptor] = "idle")
    BY <1>1, <2>2, CheckerMoves
  <2>5. Places' /\ InOrder' /\ Staff' /\ Pairs' /\ Idle' = Idle
    BY <1>1, <2>1, CheckerLeaves
  <2>6. Evictions'
    BY <1>1, <1>3, <2>1, <2>3, NoEviction DEF Asked
  <2>7. Tokens'
    BY <1>1, <2>3, <2>4, <2>5, TokensKept
  <2> QED BY <2>4, <2>5, <2>6, <2>7
<1> QED BY <1>4, <1>5

LEMMA CheckIntClean ==
  ASSUME Shape, Shape', Clean, NEW c \in Checkers, CheckInt(c), up', ~fault'
  PROVE  Clean'
<1> USE Constants DEF Clean, lists, objects, sync, checker, planner, handler
<1>1. /\ pc[c] = "wait_int" /\ sem.int > 0 /\ pc' = [pc EXCEPT ![c] = "wait_asign"] /\ loc' = loc
      /\ sem' = [sem EXCEPT !["int"] = @ - 1] /\ mutexReady' = None
      /\ UNCHANGED <<ready, exec, workers, query, worker, wpc, result, qpc, plan, taken>>
  BY DEF CheckInt, Goto
<1>2. pc'[c] = "wait_asign" /\ \A d \in Checkers : d # c => pc'[d] = pc[d]
  BY <1>1 DEF Shape, Types, ThreadsTyped
<1>3. sem'.ready = sem.ready /\ sem'.workers = sem.workers /\ sem'.int = sem.int - 1 /\ sem.int = 1
  BY <1>1 DEF Shape, Types, SyncTyped, SemTypes, Evictions
<1>4. Told' /\ Aged' /\ (pc'[Acceptor] = "idle" <=> pc[Acceptor] = "idle")
  BY <1>1, <1>2, CheckerMoves
<1>5. Places' /\ InOrder' /\ Staff' /\ Pairs' /\ Idle' = Idle
  BY <1>1, CheckerLeaves
<1>6. Evictions'
  <2>1. \A w \in Workers : ~Asked(w)
    BY <1>3 DEF Evictions
  <2> QED BY <1>1, <1>3, <2>1, NoEviction DEF Asked
<1>7. Tokens'
  BY <1>1, <1>3, <1>4, <1>5, TokensKept
<1> QED BY <1>4, <1>5, <1>6, <1>7

LEMMA CheckAsignClean ==
  ASSUME Shape, Shape', Clean, NEW c \in Checkers, CheckAsign(c), up', ~fault'
  PROVE  Clean'
<1> USE Constants DEF Clean, lists, objects, sync, checker, planner, handler
<1>1. /\ pc[c] = "wait_asign" /\ CheckReturns(c)
      /\ sem' = [sem EXCEPT !["asign"] = @ - 1, !["check"] = @ + 1]
      /\ UNCHANGED <<ready, exec, workers, query, worker, mutexReady, wpc, result, qpc, plan, taken>>
  BY DEF CheckAsign
<1>2. /\ \A d \in Checkers : d # c => pc'[d] = pc[d] /\ loc'[d] = loc[d]
      /\ loc'[c].query = loc[c].query /\ pc'[c] \in {"post", "test"}
  BY <1>1, Returned DEF Shape
<1>3. sem'.ready = sem.ready /\ sem'.workers = sem.workers /\ sem'.int = sem.int
  BY <1>1 DEF Shape, Types, SyncTyped, SemTypes
<1>4. Told' /\ Aged' /\ (pc'[Acceptor] = "idle" <=> pc[Acceptor] = "idle")
  BY <1>1, <1>2, CheckerMoves
<1>5. Places' /\ InOrder' /\ Staff' /\ Pairs' /\ Idle' = Idle
  BY <1>1, CheckerLeaves
<1>6. Evictions'
  BY <1>1, <1>2, <1>3, EvictionsKept DEF Asked
<1>7. Tokens'
  BY <1>1, <1>3, <1>4, <1>5, TokensKept
<1> QED BY <1>4, <1>5, <1>6, <1>7

-----------------------------------------------------------------------------
(* actualizador and process_handler.                                       *)

LEMMA AgerTestClean ==
  ASSUME Shape, Shape', Clean, NEW a \in Agers, AgerTest(a), up', ~fault'
  PROVE  Clean'
<1> USE Constants DEF Clean, lists, objects, sync, checker, planner, handler
<1>1. /\ pc[a] = "test"
      /\ UNCHANGED <<ready, exec, workers, query, worker, mutexReady, sem, wpc, result, qpc, plan, taken>>
  BY DEF AgerTest
<1>2. /\ \A d \in Checkers : d # a => pc'[d] = pc[d] /\ loc'[d] = loc[d]
      /\ pc'[a] \in {"idle", "sleep"}
      /\ pc'[a] = "sleep" => loc'[a] = loc[a] /\ Prior(loc[a].query) # 0
  <2>1. CASE Prior(loc[a].query) = 0
    BY <2>1 DEF AgerTest, Goto, Shape, Types, ThreadsTyped, LocalsTyped
  <2>2. CASE Prior(loc[a].query) # 0
    BY <2>2 DEF AgerTest, Goto, Shape, Types, ThreadsTyped, LocalsTyped
  <2> QED BY <2>1, <2>2
<1>3. Told'
  BY <1>1, <1>2 DEF Told
<1>4. Places' /\ InOrder' /\ Staff' /\ Pairs' /\ Idle' = Idle
  BY <1>1, CheckerLeaves
<1>5. Evictions'
  BY <1>1, <1>2, EvictionsKept DEF Asked
<1>6. Aged'
  <2>1. \A b \in Agers : pc'[b] # "idle" => pc[b] # "idle" /\ loc'[b] = loc[b]
    BY <1>1, <1>2
  <2>2. loc[a].query \in Queries
    BY <1>1 DEF Shape, HaveQueries, CheckersHave
  <2>3. \A b \in Agers : pc'[b] = "sleep" => Prior(loc[b].query) > 0
    <3>1. pc'[a] = "sleep" => Prior(loc[a].query) > 0
      BY <1>2, <2>2, Named
    <3> QED BY <1>2, <3>1 DEF Aged
  <2> QED BY <1>1, <2>1, <2>3 DEF Aged, Prior
<1>7. Tokens'
  BY <1>1, <1>2, <1>4, TokensKept
<1> QED BY <1>3, <1>4, <1>5, <1>6, <1>7

LEMMA AgerWakeClean ==
  ASSUME Shape, Shape', Clean, NEW a \in Agers, AgerWake(a), up', ~fault'
  PROVE  Clean'
<1> USE Constants DEF Clean, lists, objects, sync, checker, planner, handler
<1> DEFINE q == loc[a].query
           p == Prior(q) - 1
<1>1. /\ pc[a] = "sleep" /\ mutexReady = None
      /\ UNCHANGED <<exec, workers, worker, mutexReady, sem, wpc, result, qpc, plan, taken>>
  BY DEF AgerWake
<1>2. q \in Queries /\ Prior(q) > 0 /\ Prior(q) \in Nat /\ p \in Nat
  <2>1. q \in Queries /\ Prior(q) > 0
    BY <1>1 DEF Shape, HaveQueries, CheckersHave, Aged
  <2> QED BY <2>1, Named
<1>3. ready \in Seq(Queries) /\ (In(ready, q) <=> q \in Range(ready))
  BY InRange DEF Shape, Types, ListsTyped
<1>4. CASE q \notin Range(ready)
  <2>1. /\ pc' = [pc EXCEPT ![a] = "idle"] /\ loc' = [loc EXCEPT ![a] = NoLocals]
        /\ UNCHANGED <<ready, query>>
    BY <1>3, <1>4 DEF AgerWake, Goto
  <2>2. pc'[a] = "idle" /\ \A d \in Checkers : d # a => pc'[d] = pc[d] /\ loc'[d] = loc[d]
    BY <2>1 DEF Shape, Types, ThreadsTyped, LocalsTyped
  <2>3. Told' /\ Aged'
    BY <1>1, <2>1, <2>2 DEF Told, Aged, Prior
  <2>4. Places' /\ InOrder' /\ Staff' /\ Pairs' /\ Idle' = Idle
    BY <1>1, <2>1, CheckerLeaves
  <2>5. Evictions'
    BY <1>1, <2>1, <2>2, EvictionsKept DEF Asked
  <2>6. Tokens'
    BY <1>1, <2>1, <2>2, <2>4, TokensKept
  <2> QED BY <2>3, <2>4, <2>5, <2>6
<1>5. CASE q \in Range(ready)
  <2> DEFINE others == RemoveFirst(ready, q)
  <2>1. /\ query' = [query EXCEPT ![q].prioridad = p] /\ ready' \in Sorted(others, q, p)
        /\ pc' = [pc EXCEPT ![a] = "check"] /\ loc' = loc
    BY <1>2, <1>3, <1>5 DEF AgerWake, Goto
  <2>2. /\ others \in Seq(Queries) /\ IsInjective(others) /\ Len(others) = Len(ready) - 1
        /\ Range(others) = Range(ready) \ {q}
    BY <1>3, <1>5, RemoveDistinct DEF Places
  <2> HIDE DEF others
  <2>3. Range(ready') = Range(ready) /\ IsInjective(ready') /\ Len(ready') = Len(ready)
    <3>1. /\ Range(ready') = Range(others) \cup {q} /\ Len(ready') = Len(others) + 1
          /\ q \notin Range(others) => IsInjective(ready')
      BY <1>2, <2>1, <2>2, SortedInserts
    <3> QED BY <1>3, <1>5, <2>2, <3>1, LenProperties
  <2>4. \A r \in Queries :
           /\ query'[r].state = query[r].state /\ query'[r].worker = query[r].worker
           /\ query'[r].interrumpir = query[r].interrumpir
           /\ query'[r].prioridad = IF r = q THEN p ELSE query[r].prioridad
    <3> HIDE DEF q, p
    <3>1. QueriesTyped /\ query' = [query EXCEPT ![q].prioridad = p]
      BY <2>1 DEF Shape, Types
    <3> QED BY <3>1 DEF QueriesTyped, QueryTypes
  <2>5. pc'[a] = "check" /\ \A d \in Checkers : d # a => pc'[d] = pc[d]
    BY <2>1 DEF Shape, Types, ThreadsTyped
  <2>6. Told'
    BY <1>1, <2>1, <2>4, <2>5 DEF Told
  <2>7. Places'
    <3>1. Alive' = Alive /\ Held' = Held
      BY <1>1, <2>4 DEF Alive, Held
    <3> QED BY <1>1, <2>3, <3>1 DEF Places
  <2>8. Staff' /\ Idle' = Idle
    BY <1>1 DEF Staff, Free, Idle
  <2>9. Pairs'
    BY <1>1, <2>4, PairsKept DEF Serves, Busy
  <2>10. Evictions'
    <3>1. sem.int = 0 /\ \A w \in Workers : ~Asked(w)
      BY <1>1, NobodyAsked
    <3> QED BY <1>1, <3>1, NoEviction DEF Asked
  <2>11. Aged'
    <3>1. \A b \in Agers : pc'[b] # "idle" => pc[b] # "idle" /\ loc'[b].query = loc[b].query
      BY <1>1, <2>1, <2>5
    <3>2. \A b \in Agers : pc'[b] = "sleep" => pc[b] = "sleep" /\ loc[b].query # q
      BY <1>1, <2>5 DEF Aged
    <3>3. \A b \in Agers : pc[b] = "sleep" => loc[b].query \in Queries
      BY DEF Shape, HaveQueries, CheckersHave
    <3> HIDE DEF q, p
    <3>4. \A b \in Agers : pc'[b] = "sleep" => query'[loc'[b].query].prioridad > 0
      BY <2>1, <2>4, <3>2, <3>3 DEF Aged, Prior
    <3> QED BY <3>1, <3>4 DEF Aged, Prior
  <2>12. InOrder'
    <3> SUFFICES ASSUME Algorithm = "PRIORIDADES"
                 PROVE  \A i, j \in DOMAIN ready' :
                           i < j => query'[ready'[i]].prioridad <= query'[ready'[j]].prioridad
      BY DEF InOrder, Prior
    <3> DEFINE P == [r \in Queries |-> Prior(r)]
               F == [r \in Queries |-> query'[r].prioridad]
    <3>1. \A i \in 1 .. Len(ready) : ready[i] \in Queries
      BY <1>3, ElementOfSeq
    <3>2. \A i, j \in 1 .. Len(ready) : i < j => P[ready[i]] <= P[ready[j]]
      BY <1>3, <3>1, LenProperties DEF InOrder
    <3>3. \A i, j \in 1 .. Len(others) : i < j => P[others[i]] <= P[others[j]]
      <4> HIDE DEF P
      <4> QED BY <1>3, <1>5, <3>2, RemoveInOrder DEF others
    <3>4. \A i \in 1 .. Len(others) : others[i] \in Queries /\ others[i] # q
      <4>1. \A i \in 1 .. Len(others) : others[i] \in Queries /\ others[i] \in Range(others)
        BY <2>2, ElementOfSeq, LenProperties DEF Range
      <4> QED BY <2>2, <4>1
    <3>5. \A i, j \in 1 .. Len(others) : i < j => Prior(others[i]) <= Prior(others[j])
      BY <3>3, <3>4
    <3>6. F[q] = p /\ \A i \in 1 .. Len(others) : F[others[i]] = Prior(others[i])
      <4> HIDE DEF q, p
      <4> QED BY <1>2, <2>4, <3>4 DEF Prior
    <3>7. \A i, j \in DOMAIN ready' : i < j => F[ready'[i]] <= F[ready'[j]]
      <4> HIDE DEF F, p, q
      <4> QED BY <1>2, <2>1, <2>2, <3>5, <3>6, SortedInOrder DEF Shape
    <3>8. \A i \in DOMAIN ready' : ready'[i] \in Queries
      BY LenProperties, ElementOfSeq DEF Shape, Types, ListsTyped
    <3> QED BY <3>7, <3>8
  <2>13. Tokens'
    BY <1>1, <2>3, <2>5, <2>8, TokensKept
  <2> QED BY <2>6, <2>7, <2>8, <2>9, <2>10, <2>11, <2>12, <2>13
<1> QED BY <1>4, <1>5

LEMMA PlanTakeClean ==
  ASSUME Shape, Shape', Clean, PlanTake, up', ~fault'
  PROVE  Clean'
<1> USE Constants DEF Clean, lists, objects, sync, checker, planner, handler
<1>1. /\ plan = "wait" /\ mutexReady = None /\ ready # <<>>
      /\ sem' = [sem EXCEPT !["ready"] = @ - 1, !["workers"] = @ - 1]
      /\ taken' = Head(ready) /\ ready' = Tail(ready) /\ plan' = "pair"
      /\ UNCHANGED <<exec, workers, query, worker, mutexReady, pc, loc, wpc, result, qpc>>
  BY DEF PlanTake
<1>2. /\ sem'.ready = sem.ready - 1 /\ sem'.workers = sem.workers - 1 /\ sem'.int = sem.int
      /\ sem.ready \in Nat /\ sem.workers \in Nat
  BY <1>1 DEF Shape, Types, SyncTyped, SemTypes
<1>3. ready \in Seq(Queries) /\ IsInjective(ready)
  BY DEF Shape, Types, ListsTyped, Places
<1>4. taken' \in Range(ready) /\ ready' = RemoveFirst(ready, taken')
  BY <1>1, <1>3, HeadIsFirst
<1>5. /\ Len(ready') = Len(ready) - 1 /\ IsInjective(ready') /\ Range(ready') = Range(ready) \ {taken'}
  BY <1>3, <1>4, RemoveDistinct
<1>6. Told' /\ Aged'
  BY <1>1 DEF Told, Aged, Prior
<1>7. Places'
  <2>1. Alive' = Alive /\ Held' = {taken'} /\ Held = {}
    BY <1>1 DEF Alive, Held
  <2> QED BY <1>1, <1>4, <1>5, <2>1 DEF Places
<1>8. Staff' /\ Pairs'
  BY <1>1 DEF Staff, Free, Pairs, Serves, Busy
<1>9. Evictions'
  <2>1. sem.int = 0 /\ \A w \in Workers : ~Asked(w)
    BY <1>1, NobodyAsked
  <2> QED BY <1>1, <1>2, <2>1, NoEviction DEF Asked
<1>10. InOrder'
  <2> SUFFICES ASSUME Algorithm = "PRIORIDADES", NEW i \in DOMAIN ready', NEW j \in DOMAIN ready', i < j
               PROVE  Prior(ready'[i]) <= Prior(ready'[j])
    BY <1>1 DEF InOrder, Prior
  <2>1. /\ DOMAIN ready' = 1 .. Len(ready) - 1 /\ Len(ready) \in Nat /\ DOMAIN ready = 1 .. Len(ready)
        /\ \A k \in 1 .. Len(ready) - 1 : ready'[k] = ready[k + 1]
    BY <1>1, <1>3, HeadTailProperties, LenProperties
  <2>2. i + 1 \in DOMAIN ready /\ j + 1 \in DOMAIN ready /\ i + 1 < j + 1
    BY <2>1
  <2> QED BY <2>1, <2>2 DEF InOrder
<1>11. Tokens'
  <2>1. FreeWorkers' = FreeWorkers
    BY <1>1 DEF FreeWorkers, Free
  <2>2. Cardinality(FreeWorkers) \in Nat /\ Len(ready) \in Nat
    BY <1>3, IdleCounted, LenProperties
  <2> QED BY <1>1, <1>2, <1>5, <2>1, <2>2 DEF Tokens
<1> QED BY <1>6, <1>7, <1>8, <1>9, <1>10, <1>11

LEMMA PlanPairClean ==
  ASSUME Shape, Shape', Clean, PlanPair, up', ~fault'
  PROVE  Clean'
<1> USE Constants DEF Clean, lists, objects, sync, checker, planner, handler
<1>1. /\ plan = "pair" /\ FreeWorkers # {} /\ plan' = "signal" /\ exec' = Append(exec, taken)
      /\ UNCHANGED <<ready, workers, mutexReady, sem, pc, loc, taken, wpc, qpc>>
  BY DEF PlanPair
<1>2. PICK m \in Workers : m = workers[Min(FreeWorkers)] /\ m \in Range(workers) /\ Free(m)
  BY <1>1, FreeWorker DEF Shape
<1>3. /\ taken \in Queries /\ taken \in Alive
      /\ taken \notin Range(ready) /\ taken \notin Range(exec)
  BY <1>1 DEF Shape, HaveQueries, Places, Held
<1>4. wpc[m] = "recv" /\ ~worker[m].error /\ ~worker[m].interrumpir /\ ~Busy(m)
  BY <1>2, Named DEF Staff
<1>5. \A r \in Queries :
         /\ query'[r].prioridad = query[r].prioridad
         /\ query'[r].interrumpir = query[r].interrumpir
         /\ query'[r].worker = IF r = taken THEN m ELSE query[r].worker
         /\ query'[r].state = IF r = taken THEN "EXEC" ELSE query[r].state
  <2>1. query' = [query EXCEPT ![taken].worker = m, ![taken].state = "EXEC"]
    BY <1>1, <1>2 DEF PlanPair
  <2> QED BY <2>1 DEF Shape, Types, QueriesTyped, QueryTypes
<1>6. \A u \in Workers :
         /\ worker'[u].interrumpir = worker[u].interrumpir /\ worker'[u].error = worker[u].error
         /\ worker'[u].query = IF u = m THEN taken ELSE worker[u].query
         /\ worker'[u].state = IF u = m THEN "EXEC" ELSE worker[u].state
         /\ u # m => result'[u] = result[u]
  <2>1. /\ worker' = [worker EXCEPT ![m].query = taken, ![m].state = "EXEC"]
        /\ result' = [result EXCEPT ![m] = FALSE]
    BY <1>1, <1>2 DEF PlanPair
  <2>2. \A u \in Workers : u # m => result'[u] = result[u]
    BY <2>1 DEF Shape, Types, ThreadsTyped
  <2>3. \A u \in Workers :
           /\ worker'[u].interrumpir = worker[u].interrumpir /\ worker'[u].error = worker[u].error
           /\ worker'[u].query = IF u = m THEN taken ELSE worker[u].query
           /\ worker'[u].state = IF u = m THEN "EXEC" ELSE worker[u].state
    BY <2>1 DEF Shape, Types, WorkersTyped, WorkerTypes
  <2> QED BY <2>2, <2>3
<1>7. /\ Range(exec') = Range(exec) \cup {taken} /\ IsInjective(exec')
  <2>1. exec \in Seq(Queries) /\ IsInjective(exec)
    BY DEF Shape, Types, ListsTyped, Places
  <2> QED BY <1>1, <1>3, <2>1, AppendDistinct
<1>8. qpc[taken] \in {"accepted", "recv"}
  BY <1>3 DEF Alive, Told
<1>9. Told'
  BY <1>1, <1>5, <1>8, ToldKept DEF Told
<1>10. Places'
  <2>1. Alive' = Alive
    BY <1>1, <1>3, <1>5 DEF Alive
  <2>2. Held = {taken} /\ Held' = {}
    BY <1>1 DEF Held
  <2> QED BY <1>1, <1>3, <1>7, <2>1, <2>2 DEF Places
<1>11. Staff'
  BY <1>1, <1>2, <1>4, <1>6 DEF Staff, Free
<1>12. \A u \in Workers : u # m => (Serves(u)' <=> Serves(u))
  BY <1>1, <1>6 DEF Serves, Busy
<1>13. Serves(m)' /\ ~Serves(m)
  BY <1>1, <1>2, <1>4, <1>6 DEF Serves, Busy
<1>14. Pairs'
  <2>1. ASSUME NEW q \in Range(exec)'
        PROVE  \E w \in Workers : query'[q].worker = w /\ worker'[w].query = q /\ Serves(w)'
    <3>1. CASE q = taken
      BY <1>2, <1>3, <1>5, <1>6, <1>13, <3>1
    <3>2. CASE q # taken
      <4>1. q \in Range(exec) /\ q \in Queries
        BY <1>7, <2>1, <3>2, Named
      <4>2. PICK w \in Workers : query[q].worker = w /\ worker[w].query = q /\ Serves(w)
        BY <4>1 DEF Pairs
      <4> QED BY <1>5, <1>6, <1>12, <1>13, <3>2, <4>1, <4>2
    <3> QED BY <3>1, <3>2
  <2>2. ASSUME NEW u \in Workers, Serves(u)'
        PROVE  worker'[u].query \in Range(exec)' /\ query'[worker'[u].query].worker = u
    <3>1. CASE u = m
      BY <1>3, <1>5, <1>6, <1>7, <3>1
    <3>2. CASE u # m
      <4>1. worker[u].query \in Range(exec) /\ query[worker[u].query].worker = u
        BY <1>12, <2>2, <3>2 DEF Pairs
      <4>2. worker[u].query \in Queries /\ worker[u].query # taken
        BY <1>3, <4>1, Named
      <4> QED BY <1>5, <1>6, <1>7, <3>2, <4>1, <4>2
    <3> QED BY <3>1, <3>2
  <2>3. ASSUME NEW u \in Workers, worker'[u].error
        PROVE  query'[worker'[u].query].state = "FINISHED"
    <3>1. u # m /\ worker[u].error
      BY <1>4, <1>6, <2>3
    <3>2. query[worker[u].query].state = "FINISHED" /\ worker[u].query \in Queries
      BY <3>1, Named DEF Pairs, Staff, Shape, HaveQueries, WorkersHave
    <3> QED BY <1>3, <1>5, <1>6, <3>1, <3>2 DEF Alive
  <2> QED BY <2>1, <2>2, <2>3 DEF Pairs
<1>15. Evictions'
  BY <1>1, <1>4, <1>5, <1>6, EvictionsKept DEF Asked
<1>16. Aged' /\ InOrder'
  BY <1>1, <1>5, AgedKept, InOrderKept
<1>17. Tokens'
  <2>1. Idle' = Idle \ {m} /\ m \in Idle
    BY <1>1, <1>2, <1>6, Named DEF Idle, Free
  <2>2. Cardinality(Idle') = Cardinality(Idle) - 1 /\ Cardinality(Idle) \in Nat
    BY <2>1, IdleCounted, FS_RemoveElement
  <2>3. Cardinality(FreeWorkers') = Cardinality(FreeWorkers) - 1
    BY <1>11, <2>2, IdleCounted, IdleCountedNext
  <2>4. sem.workers \in Nat /\ Cardinality(FreeWorkers) \in Nat
    BY IdleCounted DEF Shape, Types, SyncTyped, SemTypes
  <2> QED BY <1>1, <2>3, <2>4 DEF Tokens
<1> QED BY <1>9, <1>10, <1>11, <1>14, <1>15, <1>16, <1>17

LEMMA PlanSignalClean ==
  ASSUME Shape, Shape', Clean, PlanSignal, up', ~fault'
  PROVE  Clean'
<1> USE Constants DEF Clean, lists, objects, sync, checker, planner, handler
<1>1. /\ plan = "signal" /\ plan' = "wait" /\ (sem' = [sem EXCEPT !["asign"] = @ + 1] \/ sem' = sem)
      /\ UNCHANGED <<ready, exec, workers, query, worker, mutexReady, pc, loc, wpc, result, qpc>>
  BY DEF PlanSignal, Post
<1>2. sem'.ready = sem.ready /\ sem'.workers = sem.workers /\ sem'.int = sem.int
  BY <1>1 DEF Shape, Types, SyncTyped, SemTypes
<1>3. Told' /\ Aged' /\ InOrder'
  BY <1>1 DEF Told, Aged, InOrder, Prior
<1>4. Places'
  BY <1>1 DEF Places, Alive, Held
<1>5. Staff' /\ Pairs' /\ Idle' = Idle
  BY <1>1 DEF Staff, Free, Pairs, Serves, Busy, Idle
<1>6. Evictions'
  BY <1>1, <1>2, EvictionsKept DEF Asked
<1>7. Tokens'
  BY <1>1, <1>2, <1>5, TokensKept
<1> QED BY <1>3, <1>4, <1>5, <1>6, <1>7

-----------------------------------------------------------------------------
(* worker_handler.                                                         *)

\* The query of a worker is over.
LEMMA Finished ==
  ASSUME Shape, Clean, NEW w \in Workers, Busy(w), wpc[w] \in {"recv", "silent"}, Finish(w), ~fault',
         UNCHANGED <<ready, plan, taken, qpc>>
  PROVE  /\ ~worker[w].interrumpir /\ ~fault
         /\ worker[w].query \in Queries
         /\ \A r \in Queries :
               /\ query'[r].prioridad = query[r].prioridad
               /\ query'[r].interrumpir = query[r].interrumpir
               /\ query'[r].worker = query[r].worker
               /\ query'[r].state = IF r = worker[w].query THEN "FINISHED" ELSE query[r].state
               /\ query'[r].state = query[r].state \/ qpc[r] \in {"accepted", "recv"}
         /\ Range(exec') = Range(exec) \ {worker[w].query}
         /\ Places'
<1> USE DEF Clean
<1>1. PICK q \in Queries : q = worker[w].query
  BY DEF Shape, HaveQueries, WorkersHave
<1>2. /\ exec' = RemoveFirst(exec, q) /\ query' = [query EXCEPT ![q].state = "FINISHED"]
      /\ ~fault /\ ~worker[w].interrumpir
  BY <1>1 DEF Finish
<1>3. \A r \in Queries :
         /\ query'[r].prioridad = query[r].prioridad
         /\ query'[r].interrumpir = query[r].interrumpir
         /\ query'[r].worker = query[r].worker
         /\ query'[r].state = IF r = q THEN "FINISHED" ELSE query[r].state
  BY <1>2 DEF Shape, Types, QueriesTyped, QueryTypes
<1>4. /\ Serves(w) => q \in Range(exec)
      /\ ~Serves(w) => query[q].state = "FINISHED"
  BY <1>1 DEF Pairs, Serves, Staff, Shape, HaveQueries, WorkersHave
<1>5. /\ Range(exec') = Range(exec) \ {q} /\ IsInjective(exec')
      /\ q \notin Range(ready) /\ q \notin Held
      /\ q \in Alive \/ query[q].state = "FINISHED"
  <2>1. exec \in Seq(Queries) /\ IsInjective(exec)
    BY DEF Shape, Types, ListsTyped, Places
  <2>2. CASE q \in Range(exec)
    BY <1>2, <2>1, <2>2, RemoveDistinct DEF Places
  <2>3. CASE q \notin Range(exec)
    <3>1. query[q].state = "FINISHED" /\ q \notin Alive
      BY <1>4, <2>3 DEF Alive
    <3>2. exec' = exec
      BY <1>2, <2>1, <2>3, LenProperties, RemoveAbsent DEF Range
    <3> QED BY <2>1, <2>3, <3>1, <3>2 DEF Places
  <2> QED BY <2>2, <2>3
<1>6. \A r \in Queries : query'[r].state = query[r].state \/ qpc[r] \in {"accepted", "recv"}
  BY <1>3, <1>5 DEF Alive, Told
<1>7. Places'
  <2>1. Alive' = Alive \ {q} /\ Held' = Held
    BY <1>1, <1>3 DEF Alive, Held
  <2> QED BY <1>5, <2>1 DEF Places
<1> QED BY <1>1, <1>2, <1>3, <1>5, <1>6, <1>7

\* The end of a query, with EXIT or with an error, parts it from its worker alone.
LEMMA FinishedPairs ==
  ASSUME Shape, Clean, NEW w \in Workers, Busy(w), wpc[w] \in {"recv", "silent"},
         \A r \in Queries :
            /\ query'[r].worker = query[r].worker
            /\ query'[r].state = IF r = worker[w].query THEN "FINISHED" ELSE query[r].state,
         Range(exec') = Range(exec) \ {worker[w].query},
         ~Serves(w)',
         \A u \in Workers : /\ u # w => (Serves(u)' <=> Serves(u))
                            /\ worker'[u].query = worker[u].query
                            /\ worker'[u].error => worker[u].error \/ u = w
  PROVE  Pairs'
<1> USE DEF Clean
<1>1. PICK q \in Queries : q = worker[w].query
  BY DEF Shape, HaveQueries, WorkersHave
<1>2. ASSUME NEW r \in Range(exec)'
      PROVE  \E u \in Workers : query'[r].worker = u /\ worker'[u].query = r /\ Serves(u)'
  <2>1. r \in Range(exec) /\ r # q /\ r \in Queries
    BY <1>1, <1>2, Named
  <2>2. PICK u \in Workers : query[r].worker = u /\ worker[u].query = r /\ Serves(u)
    BY <2>1 DEF Pairs
  <2> QED BY <1>1, <2>1, <2>2
<1>3. ASSUME NEW u \in Workers, Serves(u)'
      PROVE  worker'[u].query \in Range(exec)' /\ query'[worker'[u].query].worker = u
  <2>1. u # w /\ Serves(u)
    BY <1>3
  <2>2. worker[u].query \in Range(exec) /\ query[worker[u].query].worker = u
    BY <2>1 DEF Pairs
  <2>3. worker[u].query # q
    <3>1. CASE Serves(w)
      BY <1>1, <2>1, <2>2, <3>1 DEF Pairs
    <3>2. CASE ~Serves(w)
      <4>1. query[q].state = "FINISHED"
        BY <1>1, <3>2 DEF Pairs, Serves, Staff, Shape, HaveQueries, WorkersHave
      <4>2. q \notin Range(exec)
        BY <4>1 DEF Places, Alive
      <4> QED BY <2>2, <4>2
    <3> QED BY <3>1, <3>2
  <2>4. worker[u].query \in Queries
    BY <2>2, Named
  <2> QED BY <1>1, <2>2, <2>3, <2>4
<1>4. ASSUME NEW u \in Workers, worker'[u].error
      PROVE  query'[worker'[u].query].state = "FINISHED"
  <2>1. CASE u = w
    BY <1>1, <2>1
  <2>2. CASE u # w
    <3>1. query[worker[u].query].state = "FINISHED" /\ worker[u].query \in Queries
      BY <1>4, <2>2, Named DEF Pairs, Staff, Shape, HaveQueries, WorkersHave
    <3> QED BY <3>1
  <2> QED BY <2>1, <2>2
<1> QED BY <1>2, <1>3, <1>4 DEF Pairs

\* Nothing else that the end of a query touches.
LEMMA WorkerMoves ==
  ASSUME Shape, Clean, UNCHANGED <<ready, sem, mutexReady, pc, loc>>,
         \A q \in Queries : query'[q].prioridad = query[q].prioridad,
         \A w \in Workers : Asked(w)' => Asked(w) /\ worker'[w].query = worker[w].query
  PROVE  Aged' /\ InOrder' /\ Evictions'
<1> USE DEF Clean
<1>1. Aged' /\ InOrder'
  BY AgedKept, InOrderKept
<1>2. Evictions'
  BY EvictionsKept
<1> QED BY <1>1, <1>2

LEMMA RequeueClean ==
  ASSUME Shape, Shape', Clean, NEW w \in Workers, Requeue(w), up', ~fault'
  PROVE  Clean'
<1> USE Constants DEF Clean, lists, objects, sync, checker, planner, handler
<1>1. PICK q \in Queries : q = worker[w].query
  BY DEF Requeue, Shape, HaveQueries, WorkersHave
<1>2. /\ wpc[w] = "replied" /\ worker[w].interrumpir
      /\ exec' = RemoveFirst(exec, q) /\ query' = [query EXCEPT ![q].state = "EXEC"]
      /\ ready' \in Sorted(ready, q, Prior(q)) /\ Spawn(pc, q)
      /\ sem' = [sem EXCEPT !["ready"] = @ + 1, !["int"] = @ + 1]
      /\ wpc' = [wpc EXCEPT ![w] = "requeued"]
      /\ UNCHANGED <<workers, worker, mutexReady, plan, taken, result, qpc>>
  BY <1>1 DEF Requeue, WGoto
<1>3. /\ \A c \in Checkers : pc[c] # "idle" => loc'[c] = loc[c]
      /\ \A c \in Checkers : c \notin Agers \/ pc[c] # "idle" => pc'[c] = pc[c]
      /\ \A a \in Agers : pc'[a] \in {"idle", "test"} \/ pc'[a] = pc[a]
      /\ \A a, b \in Agers :
            pc'[a] # "idle" /\ pc'[b] # "idle" /\ loc'[a].query = loc'[b].query => a = b
  <2>1. DOMAIN pc = Checkers
    BY DEF Shape, Types, ThreadsTyped
  <2> QED BY <1>2, <2>1, Spawned
<1>4. Busy(w) /\ ~worker[w].error /\ Serves(w) /\ Asked(w)
  BY <1>2 DEF Shape, HaveQueries, WorkersHave, Staff, Serves, Asked
<1>5. q \in Range(exec) /\ query[q].worker = w
  BY <1>1, <1>4 DEF Pairs
<1>6. q \in Alive /\ q \notin Range(ready) /\ q \notin Held
  BY <1>5 DEF Places
<1>7. \A r \in Queries :
         /\ query'[r].prioridad = query[r].prioridad
         /\ query'[r].interrumpir = query[r].interrumpir
         /\ query'[r].worker = query[r].worker
         /\ query'[r].state = IF r = q THEN "EXEC" ELSE query[r].state
  BY <1>2 DEF Shape, Types, QueriesTyped, QueryTypes
<1>8. Range(exec') = Range(exec) \ {q} /\ IsInjective(exec')
  <2>1. exec \in Seq(Queries) /\ IsInjective(exec)
    BY DEF Shape, Types, ListsTyped, Places
  <2> QED BY <1>2, <1>5, <2>1, RemoveDistinct
<1>9. Range(ready') = Range(ready) \cup {q} /\ IsInjective(ready') /\ Len(ready') = Len(ready) + 1
  <2>1. ready \in Seq(Queries) /\ IsInjective(ready)
    BY DEF Shape, Types, ListsTyped, Places
  <2> QED BY <1>2, <1>6, <2>1, SortedInserts
<1>10. wpc'[w] = "requeued" /\ \A u \in Workers : u # w => wpc'[u] = wpc[u]
  BY <1>2 DEF Shape, Types, ThreadsTyped
<1>11. /\ sem'.ready = sem.ready + 1 /\ sem'.int = sem.int + 1 /\ sem'.workers = sem.workers
       /\ sem.ready \in Nat
  BY <1>2 DEF Shape, Types, SyncTyped, SemTypes
<1>12. Told'
  <2>1. qpc[q] \in {"accepted", "recv"}
    BY <1>6 DEF Alive, Told
  <2>2. pc[Acceptor] # "idle" => loc'[Acceptor] = loc[Acceptor]
    BY <1>3
  <2>3. pc'[Acceptor] = pc[Acceptor]
    BY <1>3
  <2> QED BY <1>2, <1>7, <2>1, <2>2, <2>3, ToldKept
<1>13. Places'
  <2>1. Alive' = Alive /\ Held' = Held
    BY <1>2, <1>6, <1>7 DEF Alive, Held
  <2> QED BY <1>5, <1>6, <1>8, <1>9, <2>1 DEF Places
<1>14. Staff'
  BY <1>2, <1>4, <1>10 DEF Staff, Free
<1>15. \A u \in Workers : u # w => (Serves(u)' <=> Serves(u))
  BY <1>2, <1>10 DEF Serves, Busy
<1>16. Pairs'
  <2>1. ASSUME NEW r \in Range(exec)'
        PROVE  \E u \in Workers : query'[r].worker = u /\ worker'[u].query = r /\ Serves(u)'
    <3>1. r \in Range(exec) /\ r # q /\ r \in Queries
      BY <1>8, <2>1, Named
    <3>2. PICK u \in Workers : query[r].worker = u /\ worker[u].query = r /\ Serves(u)
      BY <3>1 DEF Pairs
    <3> QED BY <1>1, <1>2, <1>7, <1>15, <3>1, <3>2
  <2>2. ASSUME NEW u \in Workers, Serves(u)'
        PROVE  worker'[u].query \in Range(exec)' /\ query'[worker'[u].query].worker = u
    <3>1. u # w
      BY <1>10, <2>2 DEF Serves
    <3>2. worker[u].query \in Range(exec) /\ query[worker[u].query].worker = u
      BY <1>15, <2>2, <3>1 DEF Pairs
    <3>3. worker[u].query \in Queries /\ worker[u].query # q
      BY <1>5, <3>1, <3>2, Named
    <3> QED BY <1>2, <1>7, <1>8, <3>2, <3>3
  <2>3. ASSUME NEW u \in Workers, worker'[u].error
        PROVE  query'[worker'[u].query].state = "FINISHED"
    <3>1. /\ query[worker[u].query].state = "FINISHED" /\ worker[u].query \in Queries
      BY <1>2, <2>3, Named DEF Pairs, Staff, Shape, HaveQueries, WorkersHave
    <3>2. worker[u].query # q
      BY <1>6, <3>1 DEF Alive
    <3> QED BY <1>2, <1>7, <3>1, <3>2
  <2> QED BY <2>1, <2>2, <2>3 DEF Pairs
<1>17. Evictions'
  <2>1. /\ sem.int = 0 /\ mutexReady # None /\ pc[mutexReady] = "wait_int" /\ mutexReady \in Checkers
        /\ loc[mutexReady].victim = q
    BY <1>1, <1>4 DEF Evictions, Shape, Types, SyncTyped
  <2>2. \A u \in Workers : ~Asked(u)'
    <3> SUFFICES ASSUME NEW u \in Workers, Asked(u)' PROVE FALSE
      OBVIOUS
    <3>1. u # w /\ Asked(u)
      BY <1>2, <1>10 DEF Asked
    <3>2. worker[u].query = q
      BY <2>1, <3>1 DEF Evictions
    <3>3. Serves(u)
      BY <3>1, Named DEF Asked, Serves, Staff
    <3> QED BY <1>5, <3>1, <3>2, <3>3 DEF Pairs
  <2>3. \A c \in Checkers : pc'[c] \in {"victim", "set", "wait_int"} \/ pc[c] = "wait_int" =>
           pc'[c] = pc[c] /\ loc'[c] = loc[c]
    BY <1>3
  <2>4. \A c \in Checkers : pc[c] = "wait_int" => loc[c].head \in Queries /\ loc[c].victim \in Queries
    BY Named DEF Shape, HaveQueries, CheckersHave, Evictions
  <2>5. ASSUME NEW c \in Checkers
        PROVE  /\ pc'[c] \in {"victim", "set"} /\ loc'[c].head # None => loc'[c].head \in Range(ready)'
               /\ pc'[c] = "wait_int" => /\ loc'[c].head \in Range(ready)'
                                         /\ Prior(loc[c].head)' < Prior(loc[c].victim)'
    BY <1>7, <1>9, <2>3, <2>4 DEF Evictions, Prior
  <2>6. sem'.int \in {0, 1} /\ pc'[mutexReady] = "wait_int"
    BY <1>11, <2>1, <2>3
  <2> QED BY <2>1, <2>2, <2>5, <2>6 DEF Evictions
<1>18. Aged'
  <2>1. \A a \in Agers : pc'[a] = "sleep" => pc[a] = "sleep" /\ loc'[a] = loc[a]
    BY <1>3
  <2>2. \A a \in Agers : pc[a] = "sleep" => loc[a].query \in Queries
    BY DEF Shape, HaveQueries, CheckersHave
  <2> QED BY <1>3, <1>7, <2>1, <2>2 DEF Aged, Prior
<1>19. InOrder'
  BY <1>2, <1>7, InsertedInOrder
<1>20. Tokens'
  <2>1. pc'[Acceptor] = pc[Acceptor]
    BY <1>3
  <2>2. FreeWorkers' = FreeWorkers
    BY <1>2 DEF FreeWorkers, Free
  <2> QED BY <1>2, <1>9, <1>11, <2>1, <2>2 DEF Tokens
<1> QED BY <1>12, <1>13, <1>14, <1>16, <1>17, <1>18, <1>19, <1>20

LEMMA ConsultEndClean ==
  ASSUME Shape, Shape', Clean, NEW w \in Workers, ConsultEnd(w), up', ~fault'
  PROVE  Clean'
<1> USE Constants DEF Clean, lists, objects, sync, checker, planner, handler
<1>1. /\ wpc[w] = "requeued" \/ (wpc[w] = "replied" /\ ~worker[w].interrumpir)
      /\ wpc' = [wpc EXCEPT ![w] = IF result[w] THEN "over" ELSE "recv"]
      /\ UNCHANGED <<ready, exec, workers, query, mutexReady, sem, pc, loc, plan, taken, result, qpc>>
  BY DEF ConsultEnd, WGoto
<1>2. \A u \in Workers :
         /\ worker'[u].state = worker[u].state /\ worker'[u].query = worker[u].query
         /\ worker'[u].interrumpir = worker[u].interrumpir
         /\ u # w => worker'[u].error = worker[u].error
         /\ ~worker'[w].error
  <2>1. PICK p \in BOOLEAN : worker' = [worker EXCEPT ![w].posted = p, ![w].error = FALSE]
    <3> DEFINE r == worker[w].posted \/ (query[worker[w].query].interrumpir /\ ~worker[w].error)
    <3>1. worker' = [worker EXCEPT ![w].posted = r, ![w].error = FALSE]
      BY DEF ConsultEnd
    <3>2. r \in BOOLEAN
      OBVIOUS
    <3> HIDE DEF r
    <3> QED BY <3>1, <3>2
  <2>2. \A u \in Workers :
           /\ worker'[u].state = worker[u].state /\ worker'[u].query = worker[u].query
           /\ worker'[u].interrumpir = worker[u].interrumpir
           /\ worker'[u].error = IF u = w THEN FALSE ELSE worker[u].error
    <3>1. worker \in [Workers -> WorkerTypes]
      BY DEF Shape, Types, WorkersTyped
    <3>2. \A u \in Workers : worker[u] \in WorkerTypes
      BY <3>1
    <3>3. \A u \in Workers : u # w => worker'[u] = worker[u]
      BY <2>1, <3>1
    <3>4. worker'[w] = [worker[w] EXCEPT !.posted = p, !.error = FALSE]
      BY <2>1, <3>1
    <3>5. /\ worker'[w].state = worker[w].state /\ worker'[w].query = worker[w].query
          /\ worker'[w].interrumpir = worker[w].interrumpir /\ worker'[w].error = FALSE
      BY <3>2, <3>4 DEF WorkerTypes
    <3> QED BY <3>3, <3>5
  <2> QED BY <2>2
<1>3. /\ \A u \in Workers : u # w => wpc'[u] = wpc[u]
      /\ wpc'[w] = IF result[w] THEN "over" ELSE "recv"
  BY <1>1 DEF Shape, Types, ThreadsTyped
<1>4. /\ wpc[w] = "replied" => (result[w] <=> worker[w].error)
      /\ wpc[w] = "requeued" => result[w] /\ worker[w].interrumpir /\ ~worker[w].error
      /\ ~Free(w)
  BY <1>1, Named DEF Staff, Shape, HaveQueries, WorkersHave
<1>5. Told' /\ Places'
  BY <1>1 DEF Told, Places, Alive, Held
<1>6. Staff'
  BY <1>1, <1>2, <1>3, <1>4 DEF Staff, Free
<1>7. Pairs'
  <2>1. \A u \in Workers : Serves(u)' <=> Serves(u)
    BY <1>1, <1>2, <1>3, <1>4 DEF Serves, Busy
  <2> QED BY <1>1, <1>2, <2>1, PairsKept
<1>8. Aged' /\ InOrder' /\ Evictions'
  <2>1. \A u \in Workers : Asked(u)' => Asked(u)
    BY <1>1, <1>2, <1>3, <1>4 DEF Asked
  <2> QED BY <1>1, <1>2, <2>1, WorkerMoves
<1>9. Tokens'
  <2>1. Idle' = Idle
    BY <1>1, <1>2, Named DEF Idle, Free
  <2> QED BY <1>1, <1>6, <2>1, TokensKept
<1> QED BY <1>5, <1>6, <1>7, <1>8, <1>9

LEMMA WorkerFreedClean ==
  ASSUME Shape, Shape', Clean, NEW w \in Workers, WorkerFreed(w), up', ~fault'
  PROVE  Clean'
<1> USE Constants DEF Clean, lists, objects, sync, checker, planner, handler
<1>1. /\ wpc[w] = "over" /\ wpc' = [wpc EXCEPT ![w] = "recv"]
      /\ sem' = [sem EXCEPT !["workers"] = @ + 1]
      /\ UNCHANGED <<ready, exec, workers, query, mutexReady, pc, loc, plan, taken, result, qpc>>
  BY DEF WorkerFreed, WGoto, Post
<1>2. \A u \in Workers :
         /\ worker'[u].error = worker[u].error
         /\ u # w => worker'[u].query = worker[u].query
         /\ worker'[u].state = IF u = w THEN "READY" ELSE worker[u].state
         /\ u # w => worker'[u].interrumpir = worker[u].interrumpir
         /\ ~worker'[w].interrumpir
  <2>1. worker' = [worker EXCEPT ![w].state = "READY", ![w].query = None, ![w].interrumpir = FALSE]
    BY DEF WorkerFreed
  <2> QED BY <2>1 DEF Shape, Types, WorkersTyped, WorkerTypes
<1>3. \A u \in Workers : wpc'[u] = IF u = w THEN "recv" ELSE wpc[u]
  BY <1>1 DEF Shape, Types, ThreadsTyped
<1>4. ~worker[w].error /\ w \in Range(workers) /\ ~Free(w)
  BY <1>1, Named DEF WorkerFreed, Staff, Shape, HaveQueries, WorkersHave
<1>5. sem'.workers = sem.workers + 1 /\ sem'.ready = sem.ready /\ sem'.int = sem.int /\ sem.workers \in Nat
  BY <1>1 DEF Shape, Types, SyncTyped, SemTypes
<1>6. Told' /\ Places' /\ Aged' /\ InOrder'
  BY <1>1 DEF Told, Places, Alive, Held, Aged, InOrder, Prior
<1>7. Staff'
  BY <1>1, <1>2, <1>3, <1>4 DEF Staff, Free
<1>8. Pairs'
  <2>1. \A u \in Workers : Serves(u)' <=> Serves(u)
    BY <1>1, <1>2, <1>3, <1>4 DEF Serves, Busy
  <2>2. \A u \in Workers : Serves(u) => u # w
    BY <1>1 DEF Serves
  <2> QED BY <1>1, <1>2, <1>4, <2>1, <2>2, PairsKept
<1>9. Evictions'
  <2>1. \A u \in Workers : Asked(u)' => Asked(u) /\ u # w
    BY <1>1, <1>2, <1>3, <1>4 DEF Asked
  <2> QED BY <1>1, <1>2, <1>5, <2>1, EvictionsKept
<1>10. Tokens'
  <2>1. Idle' = Idle \cup {w} /\ w \notin Idle
    BY <1>1, <1>2, <1>4, Named DEF Idle, Free
  <2>2. Cardinality(Idle') = Cardinality(Idle) + 1
    BY <2>1, IdleCounted, FS_AddElement
  <2>3. Cardinality(FreeWorkers') = Cardinality(FreeWorkers) + 1 /\ Cardinality(FreeWorkers) \in Nat
    BY <1>7, <2>2, IdleCounted, IdleCountedNext
  <2> QED BY <1>1, <1>5, <2>3 DEF Tokens
<1> QED BY <1>6, <1>7, <1>8, <1>9, <1>10

LEMMA ConsultReplyClean ==
  ASSUME Shape, Shape', Clean, NEW w \in Workers, ConsultReply(w), up', ~fault'
  PROVE  Clean'
<1> USE Constants DEF Clean, lists, objects, sync, checker, planner, handler
<1>1. /\ wpc[w] = "recv" /\ Busy(w) /\ wpc' = [wpc EXCEPT ![w] = "replied"]
      /\ result' = [result EXCEPT ![w] = \/ worker[w].interrumpir
                                         \/ query[worker[w].query].interrumpir
                                         \/ worker[w].error]
      /\ UNCHANGED <<ready, exec, workers, query, worker, mutexReady, sem, pc, loc, plan, taken, qpc>>
  BY DEF ConsultReply, Running, WGoto, Busy
<1>2. \A u \in Workers : wpc'[u] = IF u = w THEN "replied" ELSE wpc[u]
  BY <1>1 DEF Shape, Types, ThreadsTyped
<1>3. /\ \A u \in Workers : u # w => result'[u] = result[u]
      /\ result'[w] <=> worker[w].interrumpir \/ worker[w].error
  <2>1. ~query[worker[w].query].interrumpir
    BY <1>1 DEF Told, Shape, HaveQueries, WorkersHave
  <2> QED BY <1>1, <2>1 DEF Shape, Types, ThreadsTyped
<1>4. ~Free(w)
  BY <1>1, Named
<1>5. Told' /\ Places'
  BY <1>1 DEF Told, Places, Alive, Held
<1>6. Staff'
  BY <1>1, <1>2, <1>3, <1>4 DEF Staff, Free
<1>7. Pairs'
  BY <1>1, <1>2, PairsKept DEF Serves, Busy
<1>8. Aged' /\ InOrder' /\ Evictions'
  BY <1>1, <1>2, WorkerMoves DEF Asked
<1>9. Tokens'
  <2>1. Idle' = Idle
    BY <1>1 DEF Idle, Free
  <2> QED BY <1>1, <1>6, <2>1, TokensKept
<1> QED BY <1>5, <1>6, <1>7, <1>8, <1>9

LEMMA EndClean ==
  ASSUME Shape, Shape', Clean, NEW w \in Workers, End(w), up', ~fault'
  PROVE  Clean'
<1> USE Constants DEF Clean, lists, objects, sync, checker, planner, handler
<1>1. /\ wpc[w] = "recv" /\ Busy(w) /\ Finish(w) /\ wpc' = [wpc EXCEPT ![w] = "over"]
      /\ UNCHANGED <<ready, workers, worker, mutexReady, sem, pc, loc, plan, taken, result, qpc>>
  BY DEF End, Running, WGoto, Busy
<1>2. /\ ~worker[w].interrumpir
      /\ \A r \in Queries :
            /\ query'[r].prioridad = query[r].prioridad
            /\ query'[r].interrumpir = query[r].interrumpir
            /\ query'[r].worker = query[r].worker
            /\ query'[r].state = IF r = worker[w].query THEN "FINISHED" ELSE query[r].state
            /\ query'[r].state = query[r].state \/ qpc[r] \in {"accepted", "recv"}
      /\ Range(exec') = Range(exec) \ {worker[w].query}
      /\ Places'
  BY <1>1, Finished
<1>3. \A u \in Workers : wpc'[u] = IF u = w THEN "over" ELSE wpc[u]
  BY <1>1 DEF Shape, Types, ThreadsTyped
<1>4. Told'
  BY <1>1, <1>2, ToldKept
<1>5. Staff'
  BY <1>1, <1>2, <1>3, Named DEF Staff, Free
<1>6. Pairs'
  BY <1>1, <1>2, <1>3, FinishedPairs DEF Serves, Busy
<1>7. Aged' /\ InOrder' /\ Evictions'
  BY <1>1, <1>2, <1>3, WorkerMoves DEF Asked
<1>8. Tokens'
  <2>1. Idle' = Idle
    BY <1>1 DEF Idle, Free
  <2> QED BY <1>1, <1>5, <2>1, TokensKept
<1> QED BY <1>2, <1>4, <1>5, <1>6, <1>7, <1>8

LEMMA ErrorAtExecClean ==
  ASSUME Shape, Shape', Clean, NEW w \in Workers, ErrorAtExec(w), up', ~fault'
  PROVE  Clean'
<1> USE Constants DEF Clean, lists, objects, sync, checker, planner, handler
<1>1. /\ wpc[w] = "recv" /\ Busy(w) /\ Finish(w)
      /\ UNCHANGED <<ready, workers, mutexReady, sem, pc, loc, plan, taken, wpc, result, qpc>>
  BY DEF ErrorAtExec, Running, Busy
<1>2. /\ ~worker[w].interrumpir
      /\ \A r \in Queries :
            /\ query'[r].prioridad = query[r].prioridad
            /\ query'[r].interrumpir = query[r].interrumpir
            /\ query'[r].worker = query[r].worker
            /\ query'[r].state = IF r = worker[w].query THEN "FINISHED" ELSE query[r].state
            /\ query'[r].state = query[r].state \/ qpc[r] \in {"accepted", "recv"}
      /\ Range(exec') = Range(exec) \ {worker[w].query}
      /\ Places'
  BY <1>1, Finished
<1>3. \A u \in Workers :
         /\ worker'[u].state = worker[u].state /\ worker'[u].query = worker[u].query
         /\ worker'[u].interrumpir = worker[u].interrumpir
         /\ u # w => worker'[u].error = worker[u].error
         /\ worker'[w].error
  <2>1. worker' = [worker EXCEPT ![w].error = TRUE]
    BY DEF ErrorAtExec
  <2>2. \A u \in Workers :
           /\ worker'[u].state = worker[u].state /\ worker'[u].query = worker[u].query
           /\ worker'[u].interrumpir = worker[u].interrumpir
           /\ worker'[u].error = IF u = w THEN TRUE ELSE worker[u].error
    BY <2>1 DEF Shape, Types, WorkersTyped, WorkerTypes
  <2> QED BY <2>2
<1>4. Told'
  BY <1>1, <1>2, ToldKept
<1>5. Staff'
  BY <1>1, <1>2, <1>3, Named DEF Staff, Free
<1>6. Pairs'
  BY <1>1, <1>2, <1>3, FinishedPairs DEF Serves, Busy
<1>7. Aged' /\ InOrder' /\ Evictions'
  BY <1>1, <1>2, <1>3, WorkerMoves DEF Asked
<1>8. Tokens'
  <2>1. Idle' = Idle
    BY <1>1, <1>3, Named DEF Idle, Free
  <2> QED BY <1>1, <1>5, <2>1, TokensKept
<1> QED BY <1>2, <1>4, <1>5, <1>6, <1>7, <1>8

LEMMA RunsOutClean ==
  ASSUME Shape, Shape', Clean, NEW w \in Workers, RunsOut(w), up', ~fault'
  PROVE  Clean'
<1> USE Constants DEF Clean, lists, objects, sync, checker, planner, handler
<1>1. /\ wpc[w] = "recv" /\ Busy(w) /\ ~worker[w].interrumpir /\ wpc' = [wpc EXCEPT ![w] = "silent"]
      /\ UNCHANGED <<ready, exec, workers, query, worker, mutexReady, sem, pc, loc, plan, taken,
                     result, qpc>>
  BY DEF RunsOut, Running, WGoto, Busy
<1>2. \A u \in Workers : wpc'[u] = IF u = w THEN "silent" ELSE wpc[u]
  BY <1>1 DEF Shape, Types, ThreadsTyped
<1>3. ~Free(w)
  BY <1>1, Named
<1>4. Told' /\ Places'
  BY <1>1 DEF Told, Places, Alive, Held
<1>5. Staff'
  BY <1>1, <1>2, <1>3 DEF Staff, Free
<1>6. Pairs'
  BY <1>1, <1>2, PairsKept DEF Serves, Busy
<1>7. Aged' /\ InOrder' /\ Evictions'
  BY <1>1, <1>2, WorkerMoves DEF Asked
<1>8. Tokens'
  <2>1. Idle' = Idle
    BY <1>1 DEF Idle, Free
  <2> QED BY <1>1, <1>5, <2>1, TokensKept
<1> QED BY <1>4, <1>5, <1>6, <1>7, <1>8

LEMMA WorkerLeavesClean ==
  ASSUME Shape, Shape', Clean, NEW w \in Workers, WorkerLeaves(w), up', ~fault'
  PROVE  Clean'
<1> USE Constants DEF Clean, lists, objects, sync, checker, planner, handler
<1>1. /\ wpc[w] \in {"recv", "silent"} /\ ~Free(w) /\ Finish(w) /\ wpc' = [wpc EXCEPT ![w] = "gone"]
      /\ workers' = RemoveFirst(workers, w)
      /\ UNCHANGED <<ready, worker, mutexReady, sem, pc, loc, plan, taken, result, qpc>>
  BY DEF WorkerLeaves, WGoto
<1>2. Busy(w)
  BY <1>1, Named
<1>3. /\ ~worker[w].interrumpir
      /\ \A r \in Queries :
            /\ query'[r].prioridad = query[r].prioridad
            /\ query'[r].interrumpir = query[r].interrumpir
            /\ query'[r].worker = query[r].worker
            /\ query'[r].state = IF r = worker[w].query THEN "FINISHED" ELSE query[r].state
            /\ query'[r].state = query[r].state \/ qpc[r] \in {"accepted", "recv"}
      /\ Range(exec') = Range(exec) \ {worker[w].query}
      /\ Places'
  BY <1>1, <1>2, Finished
<1>4. \A u \in Workers : wpc'[u] = IF u = w THEN "gone" ELSE wpc[u]
  BY <1>1 DEF Shape, Types, ThreadsTyped
<1>5. Range(workers') = Range(workers) \ {w} /\ IsInjective(workers')
  <2>1. workers \in Seq(Workers) /\ IsInjective(workers) /\ w \in Range(workers)
    BY <1>1 DEF Shape, Types, ListsTyped, Staff
  <2> QED BY <1>1, <2>1, RemoveDistinct
<1>6. Told'
  BY <1>1, <1>3, ToldKept
<1>7. Staff'
  BY <1>1, <1>3, <1>4, <1>5 DEF Staff, Free
<1>8. Pairs'
  BY <1>1, <1>2, <1>3, <1>4, FinishedPairs DEF Serves, Busy
<1>9. Aged' /\ InOrder' /\ Evictions'
  BY <1>1, <1>3, <1>4, WorkerMoves DEF Asked
<1>10. Tokens'
  <2>1. Idle' = Idle
    BY <1>1, <1>5 DEF Idle, Free
  <2> QED BY <1>1, <1>7, <2>1, TokensKept
<1> QED BY <1>3, <1>6, <1>7, <1>8, <1>9, <1>10

-----------------------------------------------------------------------------
(* query_handler.                                                          *)

LEMMA QueryLeavesClean ==
  ASSUME Shape, Shape', Clean, NEW q \in Queries, QueryLeaves(q), up', ~fault'
  PROVE  Clean'
<1> USE Constants DEF Clean, lists, objects, sync, checker, planner, handler
<1>1. /\ qpc[q] = "recv" /\ query[q].state = "FINISHED" /\ qpc' = [qpc EXCEPT ![q] = "destroy"]
      /\ UNCHANGED <<ready, exec, workers, query, worker, mutexReady, sem, pc, loc, plan, taken, wpc, result>>
  BY DEF QueryLeaves, QGoto
<1>2. \A r \in Queries : qpc'[r] = IF r = q THEN "destroy" ELSE qpc[r]
  BY <1>1 DEF Shape, Types, ThreadsTyped
<1>3. Told'
  <2>1. pc[Acceptor] # "idle" => loc[Acceptor].query \in Queries /\ loc[Acceptor].query # q
    BY <1>1 DEF Told, Shape, HaveQueries, CheckersHave
  <2> QED BY <1>1, <1>2, <2>1 DEF Told
<1>4. Places'
  <2>1. Alive' = Alive /\ Held' = Held
    BY <1>1, <1>2 DEF Alive, Held
  <2> QED BY <1>1, <2>1 DEF Places
<1>5. Staff' /\ Pairs' /\ Idle' = Idle
  BY <1>1 DEF Staff, Free, Pairs, Serves, Busy, Idle
<1>6. Evictions' /\ Aged' /\ InOrder'
  BY <1>1, WorkerMoves DEF Asked
<1>7. Tokens'
  BY <1>1, <1>5, TokensKept
<1> QED BY <1>3, <1>4, <1>5, <1>6, <1>7

LEMMA DestroyClean ==
  ASSUME Shape, Shape', Clean, NEW q \in Queries, Destroy(q), up', ~fault'
  PROVE  Clean'
<1> USE Constants DEF Clean, lists, objects, sync, checker, planner, handler
<1>1. /\ qpc[q] = "destroy" /\ qpc' = [qpc EXCEPT ![q] = "gone"]
      /\ UNCHANGED <<workers, query, worker, mutexReady, sem, pc, loc, plan, taken, wpc, result>>
      /\ exec' = exec \/ exec' = RemoveFirst(exec, q)
      /\ ready' = ready \/ ready' = RemoveFirst(ready, q)
  BY DEF Destroy, QGoto
<1>2. query[q].state = "FINISHED" /\ q \notin Alive
  BY <1>1 DEF Told, Alive
<1>3. exec' = exec /\ ready' = ready
  <2>1. q \notin Range(exec) /\ q \notin Range(ready) /\ exec \in Seq(Queries) /\ ready \in Seq(Queries)
    BY <1>2 DEF Places, Shape, Types, ListsTyped
  <2>2. (\A i \in 1 .. Len(exec) : exec[i] # q) /\ \A i \in 1 .. Len(ready) : ready[i] # q
    BY <2>1, LenProperties DEF Range
  <2> QED BY <1>1, <2>2, RemoveAbsent
<1>4. \A r \in Queries : qpc'[r] = IF r = q THEN "gone" ELSE qpc[r]
  BY <1>1 DEF Shape, Types, ThreadsTyped
<1>5. Told'
  <2>1. pc[Acceptor] # "idle" => loc[Acceptor].query \in Queries /\ loc[Acceptor].query # q
    BY <1>1 DEF Told, Shape, HaveQueries, CheckersHave
  <2> QED BY <1>1, <1>2, <1>4, <2>1 DEF Told
<1>6. Places'
  <2>1. Alive' = Alive /\ Held' = Held
    BY <1>1, <1>2, <1>4 DEF Alive, Held
  <2> QED BY <1>3, <2>1 DEF Places
<1>7. Staff' /\ Pairs' /\ Idle' = Idle
  BY <1>1, <1>3 DEF Staff, Free, Pairs, Serves, Busy, Idle
<1>8. Evictions' /\ Aged' /\ InOrder'
  BY <1>1, <1>3, WorkerMoves DEF Asked
<1>9. Tokens'
  BY <1>1, <1>3, <1>7, TokensKept
<1> QED BY <1>5, <1>6, <1>7, <1>8, <1>9

-----------------------------------------------------------------------------
(* The invariant.                                                          *)

\* Clean holds at the start.
LEMMA CleanInit == Init => Clean
<1> SUFFICES ASSUME Init PROVE Clean
  OBVIOUS
<1> USE Constants DEF Init
<1>1. ready = <<>> /\ exec = <<>> /\ workers = <<>> /\ \A s : s = <<>> => DOMAIN s = {} /\ Len(s) = 0
  OBVIOUS
<1>2. Range(ready) = {} /\ Range(exec) = {} /\ Range(workers) = {}
      /\ IsInjective(ready) /\ IsInjective(exec) /\ IsInjective(workers)
  BY <1>1 DEF Range, IsInjective
<1>3. \A q \in Queries : query[q].state = "READY" /\ ~query[q].interrumpir
  OBVIOUS
<1>4. \A w \in Workers : worker[w].state = "READY" /\ ~worker[w].interrumpir /\ ~worker[w].error
  OBVIOUS
<1>5. Told
  BY <1>3 DEF Told
<1>6. Places
  <2>1. Alive = {} /\ Held = {}
    BY DEF Alive, Held
  <2> QED BY <1>2, <2>1 DEF Places
<1>7. Staff
  BY <1>2, <1>4 DEF Staff, Free
<1>8. Pairs
  BY <1>2, <1>4 DEF Pairs, Serves, Busy
<1>9. Evictions
  BY <1>4 DEF Evictions, Asked
<1>10. Aged /\ InOrder
  BY <1>1 DEF Aged, InOrder
<1>11. Tokens
  <2>1. FreeWorkers = {}
    BY <1>1 DEF FreeWorkers
  <2> QED BY <1>1, <2>1, FS_EmptySet DEF Tokens
<1> QED BY <1>5, <1>6, <1>7, <1>8, <1>9, <1>10, <1>11 DEF Clean

\* Clean lasts until a fault: every step that leads to a state without one keeps it.
LEMMA CleanNext ==
  ASSUME Shape, Shape', Clean, Next, up', ~fault'
  PROVE  Clean'
<1>1. CASE Connect \/ PostQuery \/ Plan \/ Killed
  BY <1>1, AcceptWorkerClean, AcceptQueryClean, PostQueryClean, PlanTakeClean, PlanPairClean,
     PlanSignalClean DEF Connect, Plan, Killed
<1>2. ASSUME NEW c \in Checkers, Check(c) PROVE Clean'
  BY <1>2, CheckEnterClean, CheckLookClean, CheckVictimClean, CheckSetClean, CheckIntClean,
     CheckAsignClean DEF Check
<1>3. ASSUME NEW a \in Agers, AgerTest(a) \/ AgerWake(a) PROVE Clean'
  BY <1>3, AgerTestClean, AgerWakeClean
<1>4. ASSUME NEW w \in Workers, Handle(w) \/ Works(w) \/ Leaves(w) PROVE Clean'
  BY <1>4, RequeueClean, ConsultEndClean, WorkerFreedClean, ConsultReplyClean, EndClean,
     ErrorAtExecClean, RunsOutClean, WorkerLeavesClean DEF Handle, Works, Leaves, ReplyFails, LateError
<1>5. ASSUME NEW q \in Queries, QueryLeaves(q) \/ CopySem(q) \/ Destroy(q) PROVE Clean'
  <2>1. CASE QueryLeaves(q) \/ Destroy(q)
    BY <2>1, QueryLeavesClean, DestroyClean
  <2>2. CASE CopySem(q)
    BY <2>2 DEF CopySem, Clean, Told
  <2> QED BY <1>5, <2>1, <2>2
<1> QED BY <1>1, <1>2, <1>3, <1>4, <1>5 DEF Next

\* A fault, and the death of the process, last.
LEMMA FaultLasts ==
  ASSUME Shape, [Next]_vars, fault \/ ~up
  PROVE  fault' \/ ~up'
<1> USE DEF Shape, Types, ThreadsTyped
<1>1. CASE UNCHANGED vars
  BY <1>1 DEF vars
<1>2. ASSUME ~up, Next PROVE FALSE
  BY <1>2 DEF Next
<1>3. ASSUME NEW cs, NEW q, Spawn(cs, q), fault PROVE fault'
  BY <1>3 DEF Spawn
<1>4. CASE Connect \/ PostQuery \/ Plan \/ Killed
  BY <1>3, <1>4 DEF Connect, Plan, Killed, AcceptWorker, AcceptQuery, PostQuery, PlanTake, PlanPair,
     PlanSignal
<1>5. ASSUME NEW c \in Checkers, Check(c), fault PROVE fault'
  BY <1>5 DEF Check, CheckEnter, CheckLook, CheckVictim, CheckSet, CheckInt, CheckAsign
<1>6. ASSUME NEW a \in Agers, AgerTest(a) \/ AgerWake(a), fault PROVE fault'
  BY <1>6 DEF AgerTest, AgerWake
<1>7. ASSUME NEW w \in Workers, Handle(w) \/ Works(w) \/ Leaves(w), fault PROVE fault'
  BY <1>3, <1>7 DEF Handle, Works, Leaves, Requeue, ConsultEnd, WorkerFreed, ConsultReply, End,
     ErrorAtExec, RunsOut, Finish, WorkerLeaves, ReplyFails, LateError
<1>8. ASSUME NEW q \in Queries, QueryLeaves(q) \/ CopySem(q) \/ Destroy(q), fault PROVE fault'
  BY <1>8 DEF QueryLeaves, CopySem, Destroy
<1> QED BY <1>1, <1>2, <1>4, <1>5, <1>6, <1>7, <1>8 DEF Next

\* The invariant holds at the start.
LEMMA MasterInit == Init => MasterInv
BY ShapeInit, CleanInit DEF MasterInv

\* The invariant is inductive.
LEMMA MasterNext == MasterInv /\ [Next]_vars => MasterInv'
<1> SUFFICES ASSUME MasterInv, [Next]_vars PROVE MasterInv'
  OBVIOUS
<1>1. Shape /\ Shape' /\ (Sound => Clean)
  BY ShapeNext DEF MasterInv
<1>2. CASE ~Sound'
  BY <1>1, <1>2 DEF MasterInv
<1>3. CASE Sound'
  <2>1. Clean
    BY <1>1, <1>3, FaultLasts DEF Sound, Shape, Types, ThreadsTyped
  <2>2. CASE Next
    BY <1>1, <1>3, <2>1, <2>2, CleanNext DEF Sound, MasterInv
  <2>3. CASE UNCHANGED vars
    <3>1. Told' /\ Places' /\ Staff' /\ Pairs'
      BY <2>1, <2>3 DEF vars, Clean, Told, Places, Alive, Held, Staff, Free, Pairs, Serves, Busy
    <3>2. Evictions' /\ Aged' /\ InOrder' /\ Tokens'
      BY <2>1, <2>3 DEF vars, Clean, Evictions, Asked, Prior, Aged, InOrder, Tokens, FreeWorkers, Free
    <3> QED BY <1>1, <3>1, <3>2 DEF MasterInv, Clean
  <2> QED BY <2>2, <2>3
<1> QED BY <1>2, <1>3

\* Whatever happens, and on to the first fault, what the threads rely on.
THEOREM MasterInvariant == Spec => []MasterInv
BY MasterInit, MasterNext, PTL DEF Spec

-----------------------------------------------------------------------------
(* What follows from it.                                                   *)

\* The lists, the objects and the threads keep their types, after a fault too.
THEOREM MasterTypes == Spec => []TypeOK
<1>1. MasterInv => TypeOK
  BY TypeParts DEF MasterInv, Shape
<1> QED BY <1>1, MasterInvariant, PTL

\* The tokens of sem_ready and sem_workers are the queries and the free workers that the planner
\* finds when it looks.
THEOREM MasterTokens == Spec => []TokensMatchLists
<1>1. MasterInv => TokensMatchLists
  BY DEF MasterInv, Clean, Tokens, TokensMatchLists
<1> QED BY <1>1, MasterInvariant, PTL

\* A query is lost or doubled by no interleaving of the accept loop, the planner, the aging, the
\* preemption and the handlers.
THEOREM MasterPlaces == Spec => []EachQueryInOnePlace
<1>1. ASSUME Shape, Clean
      PROVE  LET held   == IF plan = "pair" THEN <<taken>> ELSE <<>>
                 places == ready \o held \o exec
             IN  /\ IsInjective(places)
                 /\ Range(places) = {q \in Queries : qpc[q] # "off" /\ query[q].state # "FINISHED"}
  <2> USE <1>1 DEF Clean
  <2> DEFINE held == IF plan = "pair" THEN <<taken>> ELSE <<>>
  <2>1. ready \in Seq(Queries) /\ exec \in Seq(Queries)
    BY DEF Shape, Types, ListsTyped
  <2>2. held \in Seq(Queries) /\ IsInjective(held) /\ Range(held) = Held
    <3>1. CASE plan = "pair"
      <4>1. taken \in Queries /\ held = <<taken>> /\ Held = {taken}
        BY <3>1 DEF Shape, HaveQueries, Held
      <4>2. DOMAIN <<taken>> = {1} /\ <<taken>>[1] = taken /\ <<taken>> \in Seq(Queries)
        BY <4>1
      <4> HIDE DEF held
      <4> QED BY <4>1, <4>2 DEF IsInjective, Range
    <3>2. CASE plan # "pair"
      BY <3>2 DEF IsInjective, Range, Held
    <3> QED BY <3>1, <3>2
  <2> HIDE DEF held
  <2>3. /\ ready \o held \in Seq(Queries) /\ IsInjective(ready \o held)
        /\ Range(ready \o held) = Range(ready) \cup Held
    <3>1. Range(ready) \cap Range(held) = {} /\ IsInjective(ready)
      BY <2>2 DEF Places
    <3> QED BY <2>1, <2>2, <3>1, ConcatDistinct
  <2>4. /\ IsInjective((ready \o held) \o exec)
        /\ Range((ready \o held) \o exec) = Range(ready) \cup Held \cup Range(exec)
    <3>1. Range(ready \o held) \cap Range(exec) = {} /\ IsInjective(exec)
      BY <2>3 DEF Places
    <3>2. \A s \in Seq(Queries) : IsInjective(s) /\ Range(s) \cap Range(exec) = {} =>
             IsInjective(s \o exec) /\ Range(s \o exec) = Range(s) \cup Range(exec)
      BY <2>1, <3>1, ConcatDistinct
    <3> QED BY <2>3, <3>1, <3>2
  <2>5. IsInjective((ready \o held) \o exec) /\ Range((ready \o held) \o exec) = Alive
    BY <2>4 DEF Places
  <2> QED BY <2>5 DEF held, Alive
<1>2. MasterInv => EachQueryInOnePlace
  BY <1>1 DEF MasterInv, EachQueryInOnePlace
<1> QED BY <1>2, MasterInvariant, PTL

\* What buscar_victima and finalizar_query follow from a query to its worker, and back.
THEOREM MasterPairs == Spec => []ExecutingIsPaired
<1>1. ASSUME Shape, Clean, NEW i \in DOMAIN exec
      PROVE  LET w == query[exec[i]].worker IN w # None /\ worker[w].query = exec[i] /\ ~Free(w)
  <2>1. exec[i] \in Range(exec)
    BY DEF Range
  <2>2. PICK w \in Workers : query[exec[i]].worker = w /\ worker[w].query = exec[i] /\ Serves(w)
    BY <1>1, <2>1 DEF Clean, Pairs
  <2>3. w # None /\ ~Free(w)
    BY <1>1, <2>2, Named, Constants DEF Serves
  <2> QED BY <2>2, <2>3
<1>2. MasterInv => ExecutingIsPaired
  BY <1>1 DEF MasterInv, ExecutingIsPaired
<1> QED BY <1>2, MasterInvariant, PTL

\* The order of querys_ready survives the aging, the evictions and the arrivals.
THEOREM MasterSorted == Spec => []ReadyIsSorted
<1>1. MasterInv => ReadyIsSorted
  BY DEF MasterInv, Clean, InOrder, ReadyIsSorted
<1> QED BY <1>1, MasterInvariant, PTL

\* The insertion that worker_handler makes without mutex_ready is protected by the thread that
\* waits for it.
THEOREM MasterEviction == Spec => []EvictionIsCovered
<1>1. ASSUME Shape, Clean, NEW w \in Workers, wpc[w] = "replied", worker[w].interrumpir
      PROVE  /\ mutexReady # None /\ pc[mutexReady] = "wait_int"
             /\ \A v \in Workers \ {w} : worker[v].interrumpir => wpc[v] \in {"requeued", "over"}
  <2> USE <1>1 DEF Clean
  <2>1. \A u \in Workers : Asked(u) =>
           /\ mutexReady # None /\ pc[mutexReady] = "wait_int"
           /\ worker[u].query = loc[mutexReady].victim
           /\ query[worker[u].query].worker = u
    <3> SUFFICES ASSUME NEW u \in Workers, Asked(u)
                 PROVE  /\ mutexReady # None /\ pc[mutexReady] = "wait_int"
                        /\ worker[u].query = loc[mutexReady].victim
                        /\ query[worker[u].query].worker = u
      OBVIOUS
    <3>1. Serves(u)
      BY Named DEF Asked, Serves, Staff
    <3> QED BY <3>1 DEF Evictions, Pairs
  <2>2. Asked(w)
    BY DEF Asked
  <2>3. ASSUME NEW v \in Workers \ {w}, worker[v].interrumpir PROVE wpc[v] \in {"requeued", "over"}
    <3>1. ~Asked(v)
      BY <2>1, <2>2
    <3> QED BY <2>3, <3>1 DEF Staff, Asked
  <2> QED BY <2>1, <2>2, <2>3
<1>2. MasterInv => EvictionIsCovered
  BY <1>1 DEF MasterInv, EvictionIsCovered
<1> QED BY <1>2, MasterInvariant, PTL

\* obtener_query and buscar_worker_libre return NULL to the planner in no execution without a
\* fault: the planner never ends the process.
THEOREM PlannerFindsBoth == Spec => [][Sound /\ Plan => up']_vars
<1>1. ASSUME MasterInv, Sound, Plan PROVE up'
  <2>1. Shape /\ Clean /\ up
    BY <1>1 DEF MasterInv, Sound
  <2>2. CASE PlanTake
    <3>1. sem.ready \in Nat /\ sem.ready > 0 /\ ready \in Seq(Queries)
      BY <2>1, <2>2 DEF PlanTake, Shape, Types, SyncTyped, SemTypes, ListsTyped
    <3>2. Len(ready) # 0
      BY <2>1, <3>1, LenProperties DEF Clean, Tokens
    <3>3. ready # <<>>
      BY <3>2
    <3> QED BY <2>1, <2>2, <3>3 DEF PlanTake
  <2>3. CASE PlanPair
    <3>1. sem.workers \in Nat /\ plan = "pair"
      BY <2>1, <2>3 DEF PlanPair, Shape, Types, SyncTyped, SemTypes
    <3>2. Cardinality(FreeWorkers) # 0
      BY <2>1, <3>1 DEF Clean, Tokens
    <3>3. FreeWorkers # {}
      BY <3>2, FS_EmptySet
    <3> QED BY <2>1, <2>3, <3>3 DEF PlanPair
  <2>4. CASE PlanSignal
    BY <2>1, <2>4 DEF PlanSignal
  <2> QED BY <1>1, <2>2, <2>3, <2>4 DEF Plan
<1> QED BY <1>1, MasterInvariant, PTL

=============================================================================
