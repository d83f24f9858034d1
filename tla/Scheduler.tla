------------------------------ MODULE Scheduler ------------------------------
(***************************************************************************)
(* What the master promises to the query controls: a query waits, is       *)
(* executed by as many at a time as there are workers, and ends once.  No  *)
(* semaphores, no threads, no worker_t: only who waits, who executes and   *)
(* who has been told the end.                                              *)
(*                                                                         *)
(* With FIFO the query that came first goes first and nobody is evicted.   *)
(* With PRIORIDADES one of the lowest number goes first, waiting lowers    *)
(* the number, and only a query with a lower one evicts.                   *)
(***************************************************************************)
EXTENDS Integers, Sequences, FiniteSets, SequencesExt

CONSTANTS Queries, Algorithm

VARIABLES
    waiting,     \* the queries that wait
    running,     \* those handed to a worker
    ended,       \* those whose query control got NOTIF_FINAL
    prioridad,   \* query -> its priority
    slots        \* workers connected

Init ==
    /\ waiting = <<>> /\ running = {} /\ ended = {}
    /\ prioridad \in [Queries -> Nat]
    /\ slots = 0

Waits(q) == q \in Range(waiting)

\* The places a query that begins to wait may get.
Inserted(q) ==
    IF Algorithm = "FIFO" THEN {Append(waiting, q)}
    ELSE {InsertAt(waiting, i, q) : i \in 1 .. Len(waiting) + 1}

Arrive(q) ==
    /\ ~Waits(q) /\ q \notin running \cup ended
    /\ waiting' \in Inserted(q)
    /\ UNCHANGED <<running, ended, prioridad, slots>>

GoesFirst(q) ==
    IF Algorithm = "FIFO" THEN q = Head(waiting)
    ELSE \A r \in Range(waiting) : prioridad[q] <= prioridad[r]

Dispatch(q) ==
    /\ Waits(q) /\ GoesFirst(q)
    /\ Cardinality(running) < slots
    /\ waiting' = RemoveFirst(waiting, q)
    /\ running' = running \cup {q}
    /\ UNCHANGED <<ended, prioridad, slots>>

Evict(q) ==
    /\ Algorithm = "PRIORIDADES"
    /\ q \in running
    /\ \E r \in Range(waiting) : prioridad[r] < prioridad[q]
    /\ running' = running \ {q}
    /\ waiting' \in Inserted(q)
    /\ UNCHANGED <<ended, prioridad, slots>>

Age(q) ==
    /\ Algorithm = "PRIORIDADES"
    /\ Waits(q) /\ prioridad[q] > 0
    /\ prioridad' = [prioridad EXCEPT ![q] = @ - 1]
    /\ Len(waiting') = Len(waiting) /\ Range(waiting') = Range(waiting)
    /\ UNCHANGED <<running, ended, slots>>

End(q) ==
    /\ q \in running
    /\ running' = running \ {q}
    /\ ended' = ended \cup {q}
    /\ UNCHANGED <<waiting, prioridad>>

Join == slots' = slots + 1 /\ UNCHANGED <<waiting, running, ended, prioridad>>

\* A worker leaves and its query ends with it; or the query had failed before.
Leave ==
    /\ slots > 0 /\ slots' = slots - 1
    /\ \/ \E q \in Queries : End(q)
       \/ UNCHANGED <<waiting, running, ended, prioridad>>

Next ==
    \/ \E q \in Queries :
          \/ Arrive(q) \/ Dispatch(q) \/ Evict(q) \/ Age(q)
          \/ End(q) /\ UNCHANGED slots
    \/ Join \/ Leave

vars == <<waiting, running, ended, prioridad, slots>>
Spec == Init /\ [][Next]_vars
=============================================================================
