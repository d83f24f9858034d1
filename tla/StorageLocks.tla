---------------------------- MODULE StorageLocks ----------------------------
(***************************************************************************)
(* The per File:Tag locks of the storage (storage/src/storage_locks.c) and *)
(* the way the storage operations use them (storage/src/sotrage_files.c).  *)
(* Every connected worker has one thread in the storage; each thread runs  *)
(* one operation at a time.  What an operation does to blocks is left to   *)
(* StorageFS: here a File:Tag is its directory and its metadata file, the  *)
(* two things CREATE, DELETE and TAG race about.                           *)
(*                                                                         *)
(* Steps are as fine as the build interleaves them: a section under        *)
(* sem_locks_index is one step, except the one of storage_wait, whose      *)
(* count_waiting++ (a load and a store) races with the count_waiting--     *)
(* done after the index has been released.                                 *)
(***************************************************************************)
EXTENDS Integers, FiniteSets

CONSTANTS
    Threads,       \* storage_worker_handler threads, one per worker
    FileTags,      \* pairs file:tag
    LockIds,       \* addresses malloc can return for a t_lock
    None,          \* NULL
    InitialFiles,  \* {initial_file:BASE} or {}: on disk from the start, never deleted
    Ops,           \* kinds of operation the workers request
    MaxCount       \* bound: no operation starts while a count_waiting, which races drive
                   \* up and down, or a register holding one is that far from 0

ASSUME LocksAssumption ==
    /\ None \notin Threads \cup FileTags \cup LockIds
    /\ InitialFiles \subseteq FileTags
    /\ Ops \subseteq {"CREATE", "USE", "DELETE", "TAG"}
    /\ IsFiniteSet(Threads)
    /\ MaxCount \in Nat

VARIABLES
    disk,         \* File:Tag -> "none", "dir" (directory only) or "meta" (with metadata.config)
    index,        \* locks_index: File:Tag -> lock address or None
    indexHolder,  \* thread inside sem_locks_index, or None
    sem,          \* sem_file_tag of the lock at an address
    count,        \* count_waiting of the lock at an address
    delete,       \* delete flag of the lock at an address
    pc,           \* where each thread is
    op,           \* the operation it runs ("SOURCE", "COPY": the two halves of TAG)
    ft,           \* the File:Tag it is working on
    other,        \* the other File:Tag of a TAG
    lk,           \* the lock storage_wait found, while it is waited for or held
    tmp,          \* register of a count_waiting update in progress
    tainted,      \* history: locks posted by a thread that did not hold them, leaked, or
                  \* created at an address some thread still points at
    raced         \* history: locks that lost an update of count_waiting

locks   == <<index, sem, count, delete>>
threads == <<pc, op, ft, other, lk, tmp>>
history == <<tainted, raced>>
vars    == <<disk, index, indexHolder, sem, count, delete, pc, op, ft, other, lk, tmp,
             tainted, raced>>

PCs == {"idle", "mkdir", "fopen", "add_lock", "wait", "increment", "sem_wait", "load",
        "store", "enter", "body", "remove", "rmdir", "remove_lock", "link", "signal"}

\* Where a thread that has been through storage_wait can be until it has signalled.
Inside == {"load", "store", "enter", "body", "remove", "rmdir", "remove_lock", "link",
           "signal"}

Live       == {index[f] : f \in FileTags} \ {None}
Holds(t, l) == lk[t] = l /\ pc[t] \in Inside
Goto(t, where) == pc' = [pc EXCEPT ![t] = where]

\* An operation is over: its local variables are gone.
Return(t) ==
    /\ Goto(t, "idle")
    /\ op' = [op EXCEPT ![t] = "USE"]
    /\ ft' = [ft EXCEPT ![t] = None]
    /\ other' = [other EXCEPT ![t] = None]

\* TAG turns to its other File:Tag, as the next half of the operation.
TurnToOther(t, half) ==
    /\ Goto(t, "wait")
    /\ op' = [op EXCEPT ![t] = half]
    /\ ft' = [ft EXCEPT ![t] = other[t]]
    /\ other' = [other EXCEPT ![t] = ft[t]]

Init ==
    /\ disk = [f \in FileTags |-> IF f \in InitialFiles THEN "meta" ELSE "none"]
    /\ index = [f \in FileTags |-> None]   \* get_in() registers no file: see README
    /\ indexHolder = None
    /\ sem = [l \in LockIds |-> 0]
    /\ count = [l \in LockIds |-> 0]
    /\ delete = [l \in LockIds |-> FALSE]
    /\ pc = [t \in Threads |-> "idle"]
    /\ op \in [Threads -> {"USE"}]
    /\ ft = [t \in Threads |-> None]
    /\ other = [t \in Threads |-> None]
    /\ lk = [t \in Threads |-> None]
    /\ tmp = [t \in Threads |-> 0]
    /\ tainted = {}
    /\ raced = {}

-----------------------------------------------------------------------------
(* Operations reach the storage: desglozar_instruccion and the handler.    *)

InBound(c) == c \in 1 - MaxCount .. MaxCount - 1

StartOp(t, o, f, g, first) ==
    /\ pc[t] = "idle"
    /\ o \in Ops
    /\ \A l \in LockIds : InBound(count[l])
    /\ \A u \in Threads : InBound(tmp[u])
    /\ op' = [op EXCEPT ![t] = o]
    /\ ft' = [ft EXCEPT ![t] = f]
    /\ other' = [other EXCEPT ![t] = g]
    /\ Goto(t, first)
    /\ UNCHANGED <<disk, locks, indexHolder, lk, tmp, history>>

StartCreate(t, f) == StartOp(t, "CREATE", f, None, "mkdir")
StartUse(t, f)    == StartOp(t, "USE", f, None, "wait")
StartDelete(t, f) == f \notin InitialFiles /\ StartOp(t, "DELETE", f, None, "wait")
StartTag(t, f, g) == StartOp(t, "TAG", f, g, "mkdir")   \* f is the new File:Tag, g the source

-----------------------------------------------------------------------------
(* storage_create: the directory, the metadata, the lock.                  *)

Mkdir(t) ==
    /\ pc[t] = "mkdir"
    /\ IF disk[ft[t]] = "none"
       THEN /\ disk' = [disk EXCEPT ![ft[t]] = "dir"]
            /\ Goto(t, "fopen")
            /\ UNCHANGED <<op, ft, other>>
       ELSE Return(t) /\ UNCHANGED disk                  \* ERR_PREEXISTENCIA
    /\ UNCHANGED <<locks, indexHolder, lk, tmp, history>>

\* fopen("w") creates metadata.config when the directory is (still) there.
WithMetadata(f) == IF disk[f] = "dir" THEN [disk EXCEPT ![f] = "meta"] ELSE disk

Fopen(t) ==
    /\ pc[t] = "fopen"
    /\ disk' = WithMetadata(ft[t])
    /\ IF disk[ft[t]] = "none"
       THEN Return(t)                                    \* NOT_DEF_ERR
       ELSE Goto(t, "add_lock") /\ UNCHANGED <<op, ft, other>>
    /\ UNCHANGED <<locks, indexHolder, lk, tmp, history>>

\* create_lock at any address that is not in use; a lock already there is kept as it is.
AddLock(t) ==
    /\ pc[t] = "add_lock"
    /\ indexHolder = None
    /\ \/ /\ index[ft[t]] # None
          /\ UNCHANGED <<locks, tainted, raced>>
       \/ /\ index[ft[t]] = None
          /\ \E l \in LockIds \ Live :
               /\ index' = [index EXCEPT ![ft[t]] = l]
               /\ sem' = [sem EXCEPT ![l] = 1]
               /\ count' = [count EXCEPT ![l] = 0]
               /\ delete' = [delete EXCEPT ![l] = FALSE]
               /\ tainted' = IF \E u \in Threads : lk[u] = l
                             THEN tainted \cup {l} ELSE tainted \ {l}
               /\ raced' = raced \ {l}
    /\ IF op[t] = "TAG" THEN TurnToOther(t, "SOURCE") ELSE Return(t)
    /\ UNCHANGED <<disk, indexHolder, lk, tmp>>

-----------------------------------------------------------------------------
(* storage_wait.                                                           *)

\* The index is taken; with no lock registered the caller goes on without one.
WaitLookup(t) ==
    /\ pc[t] = "wait"
    /\ indexHolder = None
    /\ LET l == index[ft[t]] IN
       IF l = None
       THEN Goto(t, "enter") /\ UNCHANGED <<indexHolder, lk, tmp>>
       ELSE /\ indexHolder' = t
            /\ lk' = [lk EXCEPT ![t] = l]
            /\ tmp' = [tmp EXCEPT ![t] = count[l]]
            /\ Goto(t, "increment")
    /\ UNCHANGED <<disk, locks, op, ft, other, history>>

\* A store of count_waiting after its load: anything stored in between is lost.
StoreCount(t, v) ==
    LET l == lk[t] IN
    IF l \in Live
    THEN /\ count' = [count EXCEPT ![l] = v]
         /\ raced' = IF count[l] = tmp[t] THEN raced ELSE raced \cup {l}
    ELSE UNCHANGED <<count, raced>>       \* memory that has been freed: nobody reads it

WaitIncrement(t) ==
    /\ pc[t] = "increment"
    /\ StoreCount(t, tmp[t] + 1)
    /\ indexHolder' = None
    /\ tmp' = [tmp EXCEPT ![t] = 0]
    /\ Goto(t, "sem_wait")
    /\ UNCHANGED <<disk, index, sem, delete, op, ft, other, lk, tainted>>

\* Bug: the semaphore is not waited for.
WaitAcquireAlways(t) ==
    /\ pc[t] = "sem_wait"
    /\ lk[t] \in Live
    /\ sem' = [sem EXCEPT ![lk[t]] = @ - 1]
    /\ Goto(t, "load")
    /\ UNCHANGED <<disk, index, count, delete, indexHolder, op, ft, other, lk, tmp, history>>

WaitAcquire(t) ==
    /\ pc[t] = "sem_wait"
    /\ lk[t] \in Live
    /\ sem[lk[t]] > 0
    /\ sem' = [sem EXCEPT ![lk[t]] = @ - 1]
    /\ Goto(t, "load")
    /\ UNCHANGED <<disk, index, count, delete, indexHolder, op, ft, other, lk, tmp, history>>

\* The lock was freed under the waiter: what its memory holds decides whether it goes on.
WaitFreed(t) ==
    /\ pc[t] = "sem_wait"
    /\ lk[t] \notin Live
    /\ Goto(t, "load")
    /\ UNCHANGED <<disk, locks, indexHolder, op, ft, other, lk, tmp, history>>

\* The load of count_waiting--; from freed memory it may read anything (two values are enough).
WaitLoad(t) ==
    /\ pc[t] = "load"
    /\ \E v \in IF lk[t] \in Live THEN {count[lk[t]]} ELSE 0..1 :
         tmp' = [tmp EXCEPT ![t] = v]
    /\ Goto(t, "store")
    /\ UNCHANGED <<disk, locks, indexHolder, op, ft, other, lk, history>>

\* Bug: count_waiting is not decremented.
WaitStoreKeeps(t) ==
    /\ pc[t] = "store"
    /\ StoreCount(t, tmp[t])
    /\ tmp' = [tmp EXCEPT ![t] = 0]
    /\ Goto(t, "enter")
    /\ UNCHANGED <<disk, index, sem, delete, indexHolder, op, ft, other, lk, tainted>>

WaitStore(t) ==
    /\ pc[t] = "store"
    /\ StoreCount(t, tmp[t] - 1)
    /\ tmp' = [tmp EXCEPT ![t] = 0]
    /\ Goto(t, "enter")
    /\ UNCHANGED <<disk, index, sem, delete, indexHolder, op, ft, other, lk, tainted>>

-----------------------------------------------------------------------------
(* What the operations do between storage_wait and storage_signal.         *)

\* Bug: without metadata the operation returns its error and does not signal.
EnterForgetsSignal(t) ==
    /\ pc[t] = "enter"
    /\ IF op[t] # "COPY" /\ disk[ft[t]] # "meta"
       THEN /\ Return(t)
            /\ lk' = [lk EXCEPT ![t] = None]
            /\ UNCHANGED disk
       ELSE /\ UNCHANGED <<op, ft, other, lk>>
            /\ disk' = IF op[t] = "COPY" THEN WithMetadata(ft[t]) ELSE disk
            /\ Goto(t, CASE op[t] = "COPY" -> "link"
                         [] op[t] = "DELETE" -> "remove"
                         [] op[t] = "SOURCE" -> "signal"
                         [] OTHER -> "body")
    /\ UNCHANGED <<locks, indexHolder, tmp, history>>

\* storage_metadata_read; an operation that finds no metadata signals and returns an error.
Enter(t) ==
    /\ pc[t] = "enter"
    /\ IF op[t] = "COPY"
       THEN /\ disk' = WithMetadata(ft[t])                 \* storage_metadata_write of the copy
            /\ Goto(t, "link")
            /\ UNCHANGED op
       ELSE /\ UNCHANGED disk
            /\ IF disk[ft[t]] # "meta"
               THEN Goto(t, "signal") /\ op' = [op EXCEPT ![t] = "USE"]
               ELSE /\ UNCHANGED op
                    /\ Goto(t, CASE op[t] = "DELETE" -> "remove"
                                 [] op[t] = "SOURCE" -> "signal"
                                 [] OTHER -> "body")
    /\ UNCHANGED <<locks, indexHolder, ft, other, lk, tmp, history>>

\* TRUNCATE, WRITE and COMMIT write the metadata back; READ and the errors do not.
Body(t) ==
    /\ pc[t] = "body"
    /\ disk' \in {disk, WithMetadata(ft[t])}
    /\ Goto(t, "signal")
    /\ UNCHANGED <<locks, indexHolder, op, ft, other, lk, tmp, history>>

\* storage_delete removes metadata.config, then the directory if it is empty, then the lock.
RemoveMetadata(t) ==
    /\ pc[t] = "remove"
    /\ disk' = [disk EXCEPT ![ft[t]] = IF @ = "meta" THEN "dir" ELSE @]
    /\ Goto(t, "rmdir")
    /\ UNCHANGED <<locks, indexHolder, op, ft, other, lk, tmp, history>>

Rmdir(t) ==
    /\ pc[t] = "rmdir"
    /\ disk' = [disk EXCEPT ![ft[t]] = IF @ = "dir" THEN "none" ELSE @]
    /\ Goto(t, "remove_lock")
    /\ UNCHANGED <<locks, indexHolder, op, ft, other, lk, tmp, history>>

UnusedAlways(l) == TRUE          \* bug: count_waiting is not looked at
Unused(l)       == count[l] = 0  \* the condition for destroying a lock

\* sem_destroy and free: the entry leaves the index and the memory loses its meaning.
DestroyLock(f) ==
    LET l == index[f] IN
    /\ index' = [index EXCEPT ![f] = None]
    /\ sem' = [sem EXCEPT ![l] = 0]
    /\ count' = [count EXCEPT ![l] = 0]
    /\ delete' = [delete EXCEPT ![l] = FALSE]

\* remove_lock; a deleter whose lock is destroyed here holds nothing any more.
RemoveLock(t) ==
    /\ pc[t] = "remove_lock"
    /\ indexHolder = None
    /\ LET l == index[ft[t]] IN
       \/ l = None /\ UNCHANGED <<locks, lk>>
       \/ /\ l # None
          /\ ~Unused(l)
          /\ delete' = [delete EXCEPT ![l] = TRUE]
          /\ UNCHANGED <<index, sem, count, lk>>
       \/ /\ l # None
          /\ Unused(l)
          /\ DestroyLock(ft[t])
          /\ lk' = [lk EXCEPT ![t] = IF @ = l THEN None ELSE @]
    /\ Goto(t, "signal")
    /\ UNCHANGED <<disk, indexHolder, op, ft, other, tmp, history>>

\* The links of a TAG, none if its source is empty.  When a link fails, as the first does once the
\* directory is gone, storage_tag returns without storage_signal.
LinkBlocks(t) ==
    /\ pc[t] = "link"
    /\ \/ /\ Goto(t, "signal")
          /\ UNCHANGED <<op, ft, other, lk, tainted>>
       \/ /\ Return(t)
          /\ lk' = [lk EXCEPT ![t] = None]
          /\ tainted' = tainted \cup ({lk[t]} \ {None})
    /\ UNCHANGED <<disk, locks, indexHolder, tmp, raced>>

-----------------------------------------------------------------------------
(* storage_signal, and what the operation does next.                       *)

\* Bug: TAG goes on to the new File:Tag without signalling its source.
SignalKeepsSource(t) ==
    /\ pc[t] = "signal"
    /\ indexHolder = None
    /\ LET l == index[ft[t]] IN
       \/ /\ l = None \/ op[t] = "SOURCE"
          /\ UNCHANGED locks
       \/ /\ l # None /\ op[t] # "SOURCE"
          /\ sem' = [sem EXCEPT ![l] = @ + 1]
          /\ UNCHANGED <<index, count, delete>>
    /\ lk' = [lk EXCEPT ![t] = None]
    /\ IF op[t] = "SOURCE" THEN TurnToOther(t, "COPY") ELSE Return(t)
    /\ UNCHANGED <<disk, indexHolder, tmp, history>>

\* The lock is looked up again: it need not be the one storage_wait found.
Signal(t) ==
    /\ pc[t] = "signal"
    /\ indexHolder = None
    /\ LET l == index[ft[t]] IN
       \/ l = None /\ UNCHANGED <<locks, tainted>>
       \/ /\ l # None
          /\ ~delete[l] \/ ~Unused(l)
          /\ sem' = [sem EXCEPT ![l] = @ + 1]
          /\ tainted' = IF lk[t] = l THEN tainted ELSE tainted \cup {l}
          /\ UNCHANGED <<index, count, delete>>
       \/ /\ l # None
          /\ delete[l] /\ Unused(l)
          /\ DestroyLock(ft[t])
          /\ UNCHANGED tainted
    /\ lk' = [lk EXCEPT ![t] = None]
    /\ IF op[t] = "SOURCE" THEN TurnToOther(t, "COPY") ELSE Return(t)
    /\ UNCHANGED <<disk, indexHolder, tmp, raced>>

-----------------------------------------------------------------------------

Start(t) ==
    \E f \in FileTags :
        \/ StartCreate(t, f)
        \/ StartUse(t, f)
        \/ StartDelete(t, f)
        \/ \E g \in FileTags : StartTag(t, f, g)

\* The steps of an operation under way, without the one the hardware decides.
Run(t) ==
    \/ Mkdir(t) \/ Fopen(t) \/ AddLock(t)
    \/ WaitLookup(t) \/ WaitIncrement(t) \/ WaitAcquire(t) \/ WaitLoad(t) \/ WaitStore(t)
    \/ Enter(t) \/ Body(t) \/ RemoveMetadata(t) \/ Rmdir(t) \/ RemoveLock(t)
    \/ LinkBlocks(t) \/ Signal(t)

Next == \E t \in Threads : Start(t) \/ Run(t) \/ WaitFreed(t)

\* A thread inside an operation keeps being scheduled; nobody has to send a request.
Fairness == \A t \in Threads : WF_vars(Run(t))

Spec     == Init /\ [][Next]_vars
FairSpec == Spec /\ Fairness

-----------------------------------------------------------------------------
(* Properties.                                                             *)

\* Types, and the one piece of shape everything else rests on: an address is the lock of
\* one File:Tag at most.
TypeOK ==
    /\ disk \in [FileTags -> {"none", "dir", "meta"}]
    /\ index \in [FileTags -> LockIds \cup {None}]
    /\ indexHolder \in Threads \cup {None}
    /\ sem \in [LockIds -> Nat]
    /\ count \in [LockIds -> Int]
    /\ delete \in [LockIds -> BOOLEAN]
    /\ pc \in [Threads -> PCs]
    /\ op \in [Threads -> {"CREATE", "USE", "DELETE", "TAG", "SOURCE", "COPY"}]
    /\ ft \in [Threads -> FileTags \cup {None}]
    /\ other \in [Threads -> FileTags \cup {None}]
    /\ lk \in [Threads -> LockIds \cup {None}]
    /\ tmp \in [Threads -> Int]
    /\ tainted \subseteq LockIds
    /\ raced \subseteq LockIds
    /\ \A f, g \in FileTags : index[f] = index[g] /\ index[f] # None => f = g

\* A registered lock that only its holders have posted has one token: it is either in the
\* semaphore or with exactly one thread, whatever CREATE, DELETE and TAG do to the index
\* meanwhile (storage_wait and storage_signal look the lock up separately).
OneToken ==
    \A l \in Live \ tainted :
        /\ sem[l] \in {0, 1}
        /\ sem[l] = 1 => \A t \in Threads : ~Holds(t, l)
        /\ sem[l] = 0 => \E t \in Threads : Holds(t, l)
        /\ \A t, u \in Threads : Holds(t, l) /\ Holds(u, l) => t = u

\* The threads between their count_waiting++ and their count_waiting--.
Waiters(l) == {t \in Threads : lk[t] = l /\ pc[t] \in {"sem_wait", "load", "store"}}

\* count_waiting is the number of threads between its increment and its decrement, as long
\* as no update of it was lost: what storage_signal and remove_lock decide on.
CountsWaiters ==
    \A l \in Live \ (tainted \cup raced) : count[l] = Cardinality(Waiters(l))

\* A lock is freed under a thread that waits for it only after a lost update or a post by
\* a thread that did not hold it; remove_lock and storage_signal protect the other waiters.
NoWaiterOnFreedLock ==
    \A t \in Threads :
        pc[t] = "sem_wait" /\ lk[t] \notin Live => lk[t] \in tainted \cup raced

\* Two operations never work on the same File:Tag at once: what the header says the index
\* of locks is for ("Sincro de File:Tag").
ExclusiveFileTag ==
    \A t, u \in Threads :
        /\ t # u /\ ft[t] = ft[u]
        /\ pc[t] \in {"body", "remove", "rmdir", "link"}
        => pc[u] \notin {"body", "remove", "rmdir", "link"}

\* A lock somebody waits for is given back: its holder never blocks while it holds it (TAG
\* takes its two locks one after the other), unless the lock was misused.
WaitedLockIsReleased ==
    \A l \in LockIds :
        (l \in Live /\ sem[l] = 0 /\ \E t \in Threads : pc[t] = "sem_wait" /\ lk[t] = l)
            ~> (l \notin Live \/ sem[l] > 0 \/ l \in tainted \cup raced)
=============================================================================
