------------------------------- MODULE Master -------------------------------
(***************************************************************************)
(* The scheduler of the master: queries arrive, wait in querys_ready, are  *)
(* handed by the planner to a free worker, and leave it when the worker    *)
(* ends them, fails, disconnects or answers a preemption.                  *)
(*                                                                         *)
(* The threads are the accept loop, the planner (process_handler), one     *)
(* worker_handler per worker, one query_handler per query and, with the    *)
(* algorithm PRIORIDADES, one aging thread per time a query enters         *)
(* querys_ready.  A step is a section under a mutex, together with what    *)
(* only its thread can see; a sem_post is part of the step before it.  An  *)
(* object that has been freed keeps its contents until the process dies of *)
(* it (Killed).                                                            *)
(***************************************************************************)
EXTENDS Integers, Sequences, FiniteSets, SequencesExt

CONSTANTS
    Queries,      \* query controls, each of which connects once
    Workers,      \* workers, each of which connects once
    Agers,        \* bound: aging threads that exist at the same time
    Acceptor,     \* the thread of master_network_handler
    Algorithm,    \* ALGORITMO_PLANIFICACION
    Aging,        \* TIEMPO_AGING # 0
    Priorities,   \* priorities a query control asks for
    None          \* NULL, no thread

ASSUME MasterAssumption ==
    /\ Algorithm \in {"FIFO", "PRIORIDADES"}
    /\ Aging \in BOOLEAN
    /\ Priorities \subseteq Nat /\ Priorities # {}
    /\ Acceptor \notin Agers
    /\ None \notin Queries \cup Workers \cup Agers \cup {Acceptor}

VARIABLES
    ready,        \* querys_ready
    exec,         \* querys_exec
    workers,      \* the list of workers
    query,        \* query_t of each query
    worker,       \* worker_t of each worker
    freed,        \* queries that have been freed
    mutexReady,   \* the thread that keeps mutex_ready inside check_prior, or None
    sem,          \* sem_ready, sem_workers, sem_int, sem_asign, sem_check_prior
    signalAsign,
    pc,           \* where the accept loop and the aging threads are
    loc,          \* their locals: the query they insert, the head they saw, the victim chosen
    plan,         \* where the planner is
    taken,        \* the query it has taken from querys_ready
    wpc,          \* where the handler of each worker is
    result,       \* its answer to the last CONSULTA_INTERRUPCION of a query: after TRUE it flushes
    qpc,          \* where the handler of each query is
    up,           \* FALSE once the process has been killed by its own undefined behaviour
    fault         \* history: one of the faults README lists has struck

lists   == <<ready, exec, workers>>
objects == <<query, worker, freed>>
sync    == <<mutexReady, sem, signalAsign>>
checker == <<pc, loc>>
planner == <<plan, taken>>
handler == <<wpc, result>>
vars    == <<ready, exec, workers, query, worker, freed, mutexReady, sem, signalAsign, pc, loc,
             plan, taken, wpc, result, qpc, up, fault>>

Checkers == Agers \cup {Acceptor}    \* the threads that call check_prior
NoLocals == [query |-> None, head |-> None, victim |-> None]

Prior(q)   == query[q].prioridad
Free(w)    == worker[w].state = "READY"
In(s, x)   == \E i \in DOMAIN s : s[i] = x
Post(s)    == sem' = [sem EXCEPT ![s] = @ + 1]

UnsortedInsert(list, q, p) == {Append(list, q)}   \* bug: list_add

\* list_add_sorted of q, with priority p, which goes first or last among its equals.
Sorted(list, q, p) ==
    {InsertAt(list, i, q) : i \in {i \in 1 .. Len(list) + 1 :
        \/ /\ \A j \in 1 .. i - 1 : Prior(list[j]) < p
           /\ i <= Len(list) => Prior(list[i]) >= p
        \/ /\ \A j \in 1 .. i - 1 : Prior(list[j]) <= p
           /\ i <= Len(list) => Prior(list[i]) > p}}

Init ==
    /\ ready = <<>> /\ exec = <<>> /\ workers = <<>>
    /\ query \in [Queries -> [prioridad : Priorities, interrumpir : {FALSE}, worker : {None},
                              state : {"READY"}]]
    /\ worker = [w \in Workers |-> [state |-> "READY", query |-> None, interrumpir |-> FALSE,
                                    error |-> FALSE, posted |-> FALSE]]
    /\ freed = {}
    /\ mutexReady = None
    /\ sem = [ready |-> 0, workers |-> 0, int |-> 0, asign |-> 0, check |-> 1]
    /\ signalAsign = FALSE
    /\ pc = [c \in Checkers |-> "idle"]
    /\ loc = [c \in Checkers |-> NoLocals]
    /\ plan = "wait" /\ taken = None
    /\ wpc = [w \in Workers |-> "off"]
    /\ result = [w \in Workers |-> FALSE]
    /\ qpc = [q \in Queries |-> "off"]
    /\ up = TRUE /\ fault = FALSE

-----------------------------------------------------------------------------
(* The accept loop. *)

AcceptWorker(w) ==
    /\ pc[Acceptor] = "idle"
    /\ wpc[w] = "off"
    /\ workers' = Append(workers, w)
    /\ Post("workers")
    /\ wpc' = [wpc EXCEPT ![w] = "recv"]
    /\ UNCHANGED <<ready, exec, objects, mutexReady, signalAsign, checker, planner, result, qpc,
                   up, fault>>

AcceptQuery(q) ==
    /\ pc[Acceptor] = "idle"
    /\ qpc[q] = "off"
    /\ mutexReady = None
    /\ ready' \in IF Algorithm = "FIFO" THEN {Append(ready, q)} ELSE Sorted(ready, q, Prior(q))
    /\ pc' = [pc EXCEPT ![Acceptor] = IF Algorithm = "FIFO" THEN "post" ELSE "check"]
    /\ loc' = [loc EXCEPT ![Acceptor].query = q]
    /\ qpc' = [qpc EXCEPT ![q] = "accepted"]
    /\ UNCHANGED <<exec, workers, objects, sync, planner, handler, up, fault>>

\* pthread_create of actualizador for q; two threads that age one query are a fault.
Spawn(cs, q) ==
    IF Algorithm = "PRIORIDADES" /\ Aging
    THEN /\ \E a \in Agers :
              /\ pc[a] = "idle"
              /\ pc' = [cs EXCEPT ![a] = "test"]
              /\ loc' = [loc EXCEPT ![a].query = q]
         /\ fault' = (fault \/ \E a \in Agers : pc[a] # "idle" /\ loc[a].query = q)
    ELSE pc' = cs /\ UNCHANGED <<loc, fault>>

\* The query can now be taken, and its handler runs.
PostQuery ==
    LET q == loc[Acceptor].query IN
    /\ pc[Acceptor] = "post"
    /\ Spawn([pc EXCEPT ![Acceptor] = "idle"], q)
    /\ Post("ready")
    /\ qpc' = [qpc EXCEPT ![q] = "recv"]
    /\ UNCHANGED <<lists, objects, mutexReady, signalAsign, planner, handler, up>>

-----------------------------------------------------------------------------
(* check_prior. *)

Goto(c, where) == pc' = [pc EXCEPT ![c] = where]

\* Back to the accept loop or to the loop of actualizador; sem_check_prior is posted.
CheckReturns(c) ==
    /\ Goto(c, IF c = Acceptor THEN "post" ELSE "test")
    /\ loc' = [loc EXCEPT ![c] = [@ EXCEPT !.head = None, !.victim = None]]

Dies == up' = FALSE /\ UNCHANGED checker

CheckEnter(c) ==
    /\ pc[c] = "check"
    /\ sem.check > 0
    /\ sem' = [sem EXCEPT !.check = @ - 1]
    /\ Goto(c, "look")
    /\ UNCHANGED <<lists, objects, mutexReady, signalAsign, loc, planner, handler, qpc, up, fault>>

\* buscar_worker_libre returns the worker at the first of these places.
AnyWorkers  == DOMAIN workers               \* bug: the state of the worker is not looked at
FreeWorkers == {i \in DOMAIN workers : Free(workers[i])}

CheckLook(c) ==
    /\ pc[c] = "look"
    /\ mutexReady = None
    /\ IF workers = <<>> \/ FreeWorkers # {}
       THEN CheckReturns(c) /\ Post("check") /\ UNCHANGED mutexReady
       ELSE /\ mutexReady' = c
            /\ loc' = [loc EXCEPT ![c].head = IF ready = <<>> THEN None ELSE Head(ready)]
            /\ Goto(c, "victim")
            /\ UNCHANGED sem
    /\ UNCHANGED <<lists, objects, signalAsign, planner, handler, qpc, up, fault>>

Interrupted(q) == worker[query[q].worker].interrumpir

\* buscar_victima: the first query, or the first of the highest priority among the others
\* whose worker is not being interrupted.
Victima ==
    LET candidates == {i \in DOMAIN exec :
                         \/ i = 1
                         \/ ~Interrupted(exec[i])}
    IN  exec[CHOOSE i \in candidates : \A j \in candidates :
               \/ Prior(exec[j]) < Prior(exec[i])
               \/ Prior(exec[j]) = Prior(exec[i]) /\ i <= j]

CheckVictim(c) ==
    /\ pc[c] = "victim"
    /\ IF exec = <<>>
       THEN Dies
       ELSE /\ loc' = [loc EXCEPT ![c].victim = Victima]
            /\ Goto(c, "set")
            /\ UNCHANGED up
    /\ UNCHANGED <<lists, objects, sync, planner, handler, qpc, fault>>

PreemptsEqual(h, v) == Prior(v) >= Prior(h) /\ ~Interrupted(v)   \* bug: equals preempt
Preempts(h, v)      == Prior(v) > Prior(h) /\ ~Interrupted(v)

\* The victim is to be evicted when its worker asks; one that no longer will is a fault.
CheckSet(c) ==
    LET v == loc[c].victim
        w == query[v].worker
        h == loc[c].head
    IN  /\ pc[c] = "set"
        /\ IF h = None
           THEN Dies /\ UNCHANGED <<worker, sync, fault>>
           ELSE /\ UNCHANGED up
                /\ IF Preempts(h, v)
                   THEN /\ signalAsign' = TRUE
                        /\ worker' = [worker EXCEPT ![w].interrumpir = TRUE]
                        /\ Goto(c, "wait_int")
                        /\ fault' = (fault \/ ~(In(exec, v) /\ wpc[w] = "recv"))
                        /\ UNCHANGED <<loc, mutexReady, sem>>
                   ELSE /\ mutexReady' = None
                        /\ Post("check")
                        /\ CheckReturns(c)
                        /\ UNCHANGED <<worker, signalAsign, fault>>
        /\ UNCHANGED <<lists, query, freed, planner, handler, qpc>>

\* Bug: the thread does not wait for the worker to answer.
CheckIntAlways(c) ==
    /\ pc[c] = "wait_int"
    /\ sem' = [sem EXCEPT !.int = @ - 1]
    /\ mutexReady' = None
    /\ Goto(c, "wait_asign")
    /\ UNCHANGED <<lists, objects, signalAsign, loc, planner, handler, qpc, up, fault>>

CheckInt(c) ==
    /\ pc[c] = "wait_int"
    /\ sem.int > 0
    /\ sem' = [sem EXCEPT !.int = @ - 1]
    /\ mutexReady' = None
    /\ Goto(c, "wait_asign")
    /\ UNCHANGED <<lists, objects, signalAsign, loc, planner, handler, qpc, up, fault>>

CheckAsign(c) ==
    /\ pc[c] = "wait_asign"
    /\ sem.asign > 0
    /\ sem' = [sem EXCEPT !.asign = @ - 1, !.check = @ + 1]
    /\ signalAsign' = FALSE
    /\ CheckReturns(c)
    /\ UNCHANGED <<lists, objects, mutexReady, planner, handler, qpc, up, fault>>

-----------------------------------------------------------------------------
(* actualizador. *)

AgerTest(a) ==
    /\ pc[a] = "test"
    /\ IF Prior(loc[a].query) = 0
       THEN Goto(a, "idle") /\ loc' = [loc EXCEPT ![a] = NoLocals]
       ELSE Goto(a, "sleep") /\ UNCHANGED loc
    /\ UNCHANGED <<lists, objects, sync, planner, handler, qpc, up, fault>>

\* A priority that reached 0 during the sleep leaves the query out of the list.
AgerWake(a) ==
    LET q == loc[a].query
        p == Prior(q) - 1
        others == RemoveFirst(ready, q)
    IN  /\ pc[a] = "sleep"
        /\ mutexReady = None
        /\ \/ /\ ~In(ready, q)
              /\ Goto(a, "idle")
              /\ loc' = [loc EXCEPT ![a] = NoLocals]
              /\ UNCHANGED <<ready, query>>
           \/ /\ In(ready, q) /\ p >= 0
              /\ query' = [query EXCEPT ![q].prioridad = p]
              /\ ready' \in Sorted(others, q, p)
              /\ Goto(a, "check")
              /\ UNCHANGED loc
           \/ /\ In(ready, q) /\ p < 0
              /\ ready' = others
              /\ Goto(a, "test")
              /\ UNCHANGED <<query, loc>>
        /\ UNCHANGED <<exec, workers, worker, freed, sync, planner, handler, qpc, up, fault>>

-----------------------------------------------------------------------------
(* process_handler. *)

\* Bug: the last of the list is taken.
PlanTakeLast ==
    /\ plan = "wait"
    /\ sem.ready > 0 /\ sem.workers > 0
    /\ mutexReady = None
    /\ sem' = [sem EXCEPT !.ready = @ - 1, !.workers = @ - 1]
    /\ taken' = Last(ready)
    /\ ready' = Front(ready)
    /\ plan' = "pair"
    /\ UNCHANGED <<exec, workers, objects, mutexReady, signalAsign, checker, handler, qpc, up, fault>>

\* sem_wait twice and obtener_query: NULL from an empty list is dereferenced.
PlanTake ==
    /\ plan = "wait"
    /\ sem.ready > 0 /\ sem.workers > 0
    /\ mutexReady = None
    /\ sem' = [sem EXCEPT !.ready = @ - 1, !.workers = @ - 1]
    /\ IF ready = <<>>
       THEN up' = FALSE /\ UNCHANGED <<ready, planner>>
       ELSE /\ taken' = Head(ready)
            /\ ready' = Tail(ready)
            /\ plan' = "pair"
            /\ UNCHANGED up
    /\ UNCHANGED <<exec, workers, objects, mutexReady, signalAsign, checker, handler, qpc, fault>>

\* buscar_worker_libre, hacer_par_query_worker, solicitar_ejecucion_query.  A worker that is
\* still flushing takes its errors into the new query (ErrorAtExec).
PlanPair ==
    LET w == workers[Min(FreeWorkers)]
    IN  /\ plan = "pair"
        /\ IF FreeWorkers = {}
           THEN up' = FALSE /\ UNCHANGED <<exec, query, worker, result, plan>>
           ELSE /\ exec' = Append(exec, taken)
                /\ query' = [query EXCEPT ![taken].worker = w, ![taken].state = "EXEC"]
                /\ worker' = [worker EXCEPT ![w].query = taken, ![w].state = "EXEC"]
                /\ result' = [result EXCEPT ![w] = FALSE]
                /\ plan' = "signal"
                /\ UNCHANGED up
        /\ UNCHANGED <<ready, workers, freed, sync, checker, taken, wpc, qpc, fault>>

\* Bug: the dispatch is not signalled to check_prior.
PlanSignalNever ==
    /\ plan = "signal"
    /\ plan' = "wait"
    /\ taken' = None
    /\ UNCHANGED <<lists, objects, sync, checker, handler, qpc, up, fault>>

PlanSignal ==
    /\ plan = "signal"
    /\ IF signalAsign THEN Post("asign") ELSE UNCHANGED sem
    /\ plan' = "wait"
    /\ taken' = None
    /\ UNCHANGED <<lists, objects, mutexReady, signalAsign, checker, handler, qpc, up, fault>>

-----------------------------------------------------------------------------
(* worker_handler.  A worker talks while it has a query and its handler listens. *)

Running(w) == wpc[w] = "recv" /\ worker[w].state = "EXEC"

WGoto(w, where) == wpc' = [wpc EXCEPT ![w] = where]

\* Bug: the query stays in querys_exec.
FinishKeeps(w) ==
    LET q == worker[w].query IN
    /\ exec' = exec
    /\ query' = [query EXCEPT ![q].state = "FINISHED"]
    /\ fault' = (fault \/ worker[w].interrumpir)

\* finalizar_query and the end of an interrupted worker's query: nobody posts sem_int for it.
Finish(w) ==
    LET q == worker[w].query IN
    /\ exec' = RemoveFirst(exec, q)
    /\ query' = [query EXCEPT ![q].state = "FINISHED"]
    /\ fault' = (fault \/ worker[w].interrumpir)

ConsultReply(w) ==
    /\ Running(w)
    /\ result' = [result EXCEPT ![w] = \/ worker[w].interrumpir
                                       \/ query[worker[w].query].interrumpir
                                       \/ worker[w].error]
    /\ WGoto(w, "replied")
    /\ UNCHANGED <<lists, objects, sync, checker, planner, qpc, up, fault>>

\* The answer cannot be sent: the worker is forgotten, its query stays in querys_exec.
ReplyFails(w) ==
    /\ Running(w)
    /\ workers' = RemoveFirst(workers, w)
    /\ WGoto(w, "gone")
    /\ fault' = TRUE
    /\ UNCHANGED <<ready, exec, objects, sync, checker, planner, result, qpc, up>>

\* The eviction: querys_ready changes without mutex_ready.
Requeue(w) ==
    LET q == worker[w].query IN
    /\ wpc[w] = "replied"
    /\ worker[w].interrumpir
    /\ exec' = RemoveFirst(exec, q)
    /\ query' = [query EXCEPT ![q].state = "EXEC"]
    /\ ready' \in Sorted(ready, q, Prior(q))
    /\ Spawn(pc, q)
    /\ sem' = [sem EXCEPT !.ready = @ + 1, !.int = @ + 1]
    /\ WGoto(w, "requeued")
    /\ UNCHANGED <<workers, worker, freed, mutexReady, signalAsign, planner, result, qpc, up>>

ConsultEnd(w) ==
    LET q == worker[w].query IN
    /\ \/ wpc[w] = "requeued"
       \/ wpc[w] = "replied" /\ ~worker[w].interrumpir
    /\ worker' = [worker EXCEPT
                    ![w].posted = @ \/ (query[q].interrumpir /\ ~worker[w].error),
                    ![w].error = FALSE]
    /\ WGoto(w, IF result[w] THEN "over" ELSE "recv")
    /\ UNCHANGED <<lists, query, freed, sync, checker, planner, result, qpc, up, fault>>

\* INSTRUCCION_MASTER: the END of the query.
End(w) ==
    /\ Running(w)
    /\ Finish(w)
    /\ WGoto(w, "over")
    /\ UNCHANGED <<ready, workers, worker, freed, sync, checker, planner, result, qpc, up>>

\* Bug: sem_workers is not posted.
WorkerFreedUnposted(w) ==
    /\ wpc[w] = "over"
    /\ worker' = [worker EXCEPT ![w].state = "READY", ![w].query = None, ![w].interrumpir = FALSE]
    /\ WGoto(w, "recv")
    /\ fault' = (fault \/ worker[w].error)
    /\ UNCHANGED <<lists, query, freed, sync, checker, planner, result, qpc, up>>

\* liberar_worker, sem_post(&sem_workers).  An END frees a worker with the error_at_exec that its
\* last flush left it: the first question of its next query would take it for its own.
WorkerFreed(w) ==
    /\ wpc[w] = "over"
    /\ worker' = [worker EXCEPT ![w].state = "READY", ![w].query = None, ![w].interrumpir = FALSE]
    /\ Post("workers")
    /\ WGoto(w, "recv")
    /\ fault' = (fault \/ worker[w].error)
    /\ UNCHANGED <<lists, query, freed, mutexReady, signalAsign, checker, planner, result, qpc, up>>

\* ERROR_AT_EXEC: the query is over, again if it was; the worker is not freed until it asks.
ErrorAtExec(w) ==
    /\ Running(w)
    /\ Finish(w)
    /\ worker' = [worker EXCEPT ![w].error = TRUE]
    /\ UNCHANGED <<ready, workers, freed, sync, checker, planner, handler, qpc, up>>

\* The script has no END: the worker waits for its next query and tells nobody, and nobody posts
\* sem_int for it.
RunsOut(w) ==
    /\ Running(w)
    /\ WGoto(w, "silent")
    /\ fault' = (fault \/ worker[w].interrumpir)
    /\ UNCHANGED <<lists, objects, sync, checker, planner, result, qpc, up>>

\* The same message from a worker that was told to leave its query and fails to flush: it is
\* free by then, and the query it no longer has is dereferenced.
LateError(w) ==
    /\ wpc[w] = "recv" /\ Free(w) /\ result[w]
    /\ up' = FALSE
    /\ UNCHANGED <<lists, objects, sync, checker, planner, handler, qpc, fault>>

\* DESCONEXION: a free worker leaves its token in sem_workers behind.
WorkerLeaves(w) ==
    /\ wpc[w] \in {"recv", "silent"}
    /\ workers' = RemoveFirst(workers, w)
    /\ IF Free(w) THEN fault' = TRUE /\ UNCHANGED <<exec, query>> ELSE Finish(w)
    /\ WGoto(w, "gone")
    /\ UNCHANGED <<ready, worker, freed, sync, checker, planner, result, qpc, up>>

-----------------------------------------------------------------------------
(* query_handler. *)

QGoto(q, where) == qpc' = [qpc EXCEPT ![q] = where]

\* A query that was not over leaves its token in sem_ready, or a query without owner, behind.
QueryLeaves(q) ==
    /\ qpc[q] = "recv"
    /\ IF query[q].state = "EXEC"
       THEN query' = [query EXCEPT ![q].interrumpir = TRUE] /\ QGoto(q, "copy")
       ELSE QGoto(q, "destroy") /\ UNCHANGED query
    /\ fault' = (fault \/ query[q].state # "FINISHED")
    /\ UNCHANGED <<lists, worker, freed, sync, checker, planner, handler, up>>

\* sem_wait on a copy of sem_interrupt: what the worker posts later is not seen.
CopySem(q) ==
    /\ qpc[q] = "copy"
    /\ QGoto(q, IF worker[query[q].worker].posted THEN "destroy" ELSE "blocked")
    /\ UNCHANGED <<lists, objects, sync, checker, planner, handler, up, fault>>

Destroy(q) ==
    /\ qpc[q] = "destroy"
    /\ IF query[q].worker # None
       THEN exec' = RemoveFirst(exec, q) /\ UNCHANGED ready
       ELSE mutexReady = None /\ ready' = RemoveFirst(ready, q) /\ UNCHANGED exec
    /\ freed' = freed \cup {q}
    /\ QGoto(q, "gone")
    /\ UNCHANGED <<workers, query, worker, sync, checker, planner, handler, up, fault>>

\* A pointer to freed memory, that of a query or of a worker that is gone, is followed.
Killed ==
    /\ \/ \E q \in freed :
            \/ In(ready, q) \/ In(exec, q) \/ taken = q
            \/ \E w \in Workers : wpc[w] \notin {"off", "gone"} /\ worker[w].query = q
            \/ \E a \in Agers : loc[a].query = q
            \/ \E c \in Checkers : pc[c] \in {"victim", "set"} /\ q \in {loc[c].head, loc[c].victim}
       \/ \E q \in Queries :
            /\ query[q].worker # None /\ wpc[query[q].worker] = "gone"
            /\ qpc[q] = "copy" \/ \E c \in Checkers : pc[c] \in {"victim", "set"} /\ In(exec, q)
    /\ up' = FALSE
    /\ UNCHANGED <<lists, objects, sync, checker, planner, handler, qpc, fault>>

-----------------------------------------------------------------------------

Check(c) ==
    \/ CheckEnter(c) \/ CheckLook(c) \/ CheckVictim(c) \/ CheckSet(c)
    \/ CheckInt(c) \/ CheckAsign(c)

Plan == PlanTake \/ PlanPair \/ PlanSignal

Connect ==
    \/ \E w \in Workers : AcceptWorker(w)
    \/ \E q \in Queries : AcceptQuery(q)

Handle(w) == Requeue(w) \/ ConsultEnd(w) \/ WorkerFreed(w)
Works(w)  == ConsultReply(w) \/ End(w) \/ ErrorAtExec(w) \/ RunsOut(w)
Leaves(w) == WorkerLeaves(w) \/ ReplyFails(w) \/ LateError(w)

Next ==
    /\ up
    /\ \/ Connect \/ PostQuery \/ Plan \/ Killed
       \/ \E c \in Checkers : Check(c)
       \/ \E a \in Agers : AgerTest(a) \/ AgerWake(a)
       \/ \E w \in Workers : Handle(w) \/ Works(w) \/ Leaves(w)
       \/ \E q \in Queries : QueryLeaves(q) \/ CopySem(q) \/ Destroy(q)

Spec == Init /\ [][Next]_vars

\* Every thread of a master that is alive keeps running, and a worker that has a query keeps
\* executing.
Fairness ==
    /\ WF_vars(up /\ Plan) /\ WF_vars(up /\ PostQuery)
    /\ \A c \in Checkers : WF_vars(up /\ Check(c))
    /\ \A a \in Agers : WF_vars(up /\ (AgerTest(a) \/ AgerWake(a)))
    /\ \A w \in Workers : WF_vars(up /\ Handle(w)) /\ WF_vars(up /\ Works(w))

FairSpec == Spec /\ Fairness

\* A script is a finite list of instructions: a query that keeps its worker ends, fails, or has no
\* END and runs out.
Finite == \A w \in Workers : SF_vars(up /\ (End(w) \/ ErrorAtExec(w) \/ RunsOut(w)))

FiniteSpec == FairSpec /\ Finite

\* The same behaviours as far as the first fault, for the larger instances.  With fairness, only
\* those that meet none are left.
Sound == up /\ ~fault

CleanSpec     == Init /\ [][~fault /\ Next]_vars
CleanFairSpec == CleanSpec /\ Fairness

-----------------------------------------------------------------------------
(* Properties.                                                             *)

\* Types of the lists, of the objects and of the threads.
TypeOK ==
    /\ ready \in Seq(Queries) /\ exec \in Seq(Queries) /\ workers \in Seq(Workers)
    /\ query \in [Queries -> [prioridad : Nat, interrumpir : BOOLEAN,
                              worker : Workers \cup {None},
                              state : {"READY", "EXEC", "FINISHED"}]]
    /\ worker \in [Workers -> [state : {"READY", "EXEC"}, query : Queries \cup {None},
                               interrumpir : BOOLEAN, error : BOOLEAN, posted : BOOLEAN]]
    /\ freed \subseteq Queries
    /\ mutexReady \in Checkers \cup {None}
    /\ sem \in [{"ready", "workers", "int", "asign", "check"} -> Nat]
    /\ signalAsign \in BOOLEAN
    /\ pc \in [Checkers -> {"idle", "post", "test", "sleep", "check", "look", "victim", "set",
                            "wait_int", "wait_asign"}]
    /\ loc \in [Checkers -> [{"query", "head", "victim"} -> Queries \cup {None}]]
    /\ plan \in {"wait", "pair", "signal"} /\ taken \in Queries \cup {None}
    /\ wpc \in [Workers -> {"off", "recv", "replied", "requeued", "over", "silent", "gone"}]
    /\ result \in [Workers -> BOOLEAN]
    /\ qpc \in [Queries -> {"off", "accepted", "recv", "copy", "blocked", "destroy", "gone"}]
    /\ up \in BOOLEAN /\ fault \in BOOLEAN

\* The semaphores count what the lists hold, so the planner, which takes one token of each
\* and only then looks at the lists, finds a query and a free worker.
TokensMatchLists ==
    Sound =>
        /\ Len(ready) = sem.ready + IF pc[Acceptor] = "idle" THEN 0 ELSE 1
        /\ Cardinality(FreeWorkers) = sem.workers + IF plan = "pair" THEN 1 ELSE 0

\* A query that has arrived is in exactly one place, once: waiting, with the planner, or
\* executing; one that has finished is nowhere.
EachQueryInOnePlace ==
    Sound =>
        LET held   == IF plan = "pair" THEN <<taken>> ELSE <<>>
            places == ready \o held \o exec
        IN  /\ IsInjective(places)
            /\ Range(places) = {q \in Queries : qpc[q] # "off" /\ query[q].state # "FINISHED"}

\* A query in querys_exec and its worker point at each other, and no worker has two: what
\* buscar_victima follows to find whom to interrupt.
ExecutingIsPaired ==
    Sound => \A i \in DOMAIN exec :
        LET w == query[exec[i]].worker IN
        w # None /\ worker[w].query = exec[i] /\ ~Free(w)

\* With PRIORIDADES the list stays sorted although aging changes priorities and an eviction
\* inserts without mutex_ready: the head is the query check_prior compares and the planner takes.
ReadyIsSorted ==
    Sound /\ Algorithm = "PRIORIDADES" =>
        \A i, j \in DOMAIN ready : i < j => Prior(ready[i]) <= Prior(ready[j])

\* worker_handler inserts the evicted query without mutex_ready; the check_prior that asked
\* for the eviction holds it for that time, and there is one eviction at a time.
EvictionIsCovered ==
    Sound => \A w \in Workers :
        wpc[w] = "replied" /\ worker[w].interrumpir =>
            /\ mutexReady # None /\ pc[mutexReady] = "wait_int"
            /\ \A v \in Workers \ {w} : worker[v].interrumpir => wpc[v] \in {"requeued", "over"}

Promise == INSTANCE Scheduler WITH
    waiting   <- ready,
    running   <- Range(exec) \cup (IF plan = "pair" THEN {taken} ELSE {}),
    ended     <- {q \in Queries : query[q].state = "FINISHED"},
    prioridad <- [q \in Queries |-> Prior(q)],
    slots     <- Len(workers)

\* Until a fault strikes the master is a plain scheduler: a query that is taken is the one whose
\* turn it is, there is a worker for it, only a better query evicts it, and it ends once.
ImplementsScheduler ==
    /\ Promise!Init
    /\ [][up' /\ ~fault' => UNCHANGED Promise!vars \/ Promise!Next]_vars

\* check_prior, which keeps mutex_ready and so stops the accept loop, the aging and the planner,
\* gets its answer: "Se desalojara cuando verifique la interrupcion".
PreemptionIsAnswered == mutexReady # None ~> (mutexReady = None \/ ~up)

\* The same, up to the dispatch that ends the preemption, as long as no fault strikes: the four
\* semaphores it passes through never make everyone wait on everyone.
PreemptionCompletes == signalAsign ~> (~signalAsign \/ ~Sound)

Silent(w) == wpc[w] = "silent"

\* A query that has arrived is executed to its end, unless its own script has none, while there
\* are workers that no such script has silenced.
EveryQueryEnds ==
    \A q \in Queries :
        qpc[q] # "off" ~>
            \/ query[q].state = "FINISHED"
            \/ \E w \in Workers : Silent(w) /\ worker[w].query = q
            \/ \A i \in DOMAIN workers : Silent(workers[i])
            \/ ~Sound
=============================================================================
