# Verification of the Master, the Worker and the Storage

TLA+ models of the distributed query system in `src/` (UTN FRBA, Sistemas
Operativos, 2C 2025), the TLC configurations that check them on small instances
and the TLAPS proofs of what holds for every instance. Paths and line numbers
are those of `src/`.

## 1. The system

| part | source | state | operations |
|---|---|---|---|
| Query Control | `query_control/src` | one socket | sends one query (path, priority) to the master, prints what comes back, announces its end with DESCONEXION |
| Master, connections | `master_network_handler.c`, `master_util.c` | `querys_ready`, `querys_exec`, `workers`, a `query_t` and a `worker_t` for each peer | accept loop; a `worker_handler` thread per worker (CONSULTA_INTERRUPCION, LECTURA, END, ERROR_AT_EXEC, DESCONEXION); a `query_handler` thread per query |
| Master, planner | `process_handler.c` | `sem_ready`, `sem_workers` | takes the first query and the first free worker |
| Master, priorities | `master_aging.c` | `mutex_ready`, `sem_check_prior`, `sem_int`, `sem_asign`, `signal_asign`, `interrumpir` of a worker | `check_prior` preempts; `actualizador` (one thread per time a query becomes ready) ages |
| Worker, cycle | `worker/src/main.c`, `interpreter.c`, `parser.c` | instructions, program counter | fetches an instruction, runs it, asks the master whether to go on; after a TRUE it flushes |
| Worker, memory | `memoria.c`, `algoritmos_reemplazo.c` | page tables per File:Tag, frames, their bitmap, the clock hand | page faults, reads and writes over several pages, LRU and CLOCK-M |
| Storage, requests | `storage_worker_handler.c`, `storage_operaciones.c` | a socket per worker | one thread per worker, one request at a time |
| Storage, locks | `storage_locks.c` | `locks_index`: a `t_lock` (semaphore, `count_waiting`, `delete`) per File:Tag; one semaphore per physical block | `storage_wait`, `storage_signal`, `add_lock`, `remove_lock`, `init_locks_index` |
| Storage, files | `sotrage_files.c`, `storage_bitmap.c`, `storage_hashes.c` | on disk: `metadata.config` and hard links per File:Tag, physical blocks, `bitmap.bin`, `blocks_hash_index.config` | CREATE, TRUNCATE, WRITE, READ, COMMIT, TAG, DELETE |
| Storage, start-up | `storage_fresh_start.c`, `storage_init.c` | superblock | formats the disk and creates `initial_file:BASE` |
| Packets | `utils/src/utils` | none | length-prefixed items over TCP |

A query control connects to the master and waits. The planner sends the query
to a worker; the worker runs its script line by line, calling the storage for
blocks and metadata, and after each line asks the master whether it was
interrupted. All state that several threads share is in the master (the lists
and the semaphores) and in the storage (the index of locks and the disk).

What is hard, and where it bites, is listed as `hazards` in `PROJECT.json`:

* *master*: tokens of four semaphores must match lists that five kinds of
  threads change; `check_prior` waits for a worker with `mutex_ready` in its
  hands; an eviction inserts in `querys_ready` without that mutex; aging threads
  survive the eviction that starts another one; peers leave at any point.
* *storage*: `count_waiting--` is done outside the index; a lock can be freed
  and its address reused while threads point at it; every operation changes
  links, bitmap, hash index and metadata one after the other; TAG and COMMIT
  share blocks between files that WRITE, TRUNCATE and DELETE must not disturb.
* *worker*: page arithmetic at the borders, stale pages, refused writes.

What makes each part correct:

* locks: one thread at a time per File:Tag; nobody waits on a freed lock; no
  deadlock between two TAGs;
* files: metadata and links agree whenever nobody works on a File:Tag; a used
  block has a link and a linked block is used; the hash index is true; COMMIT
  freezes; all operations together behave as a plain store of files;
* scheduling: every query is in one place; the semaphores count what is in the
  lists; an eviction is for a better query, is done once, and reaches the
  dispatch it was asked for; every query ends. Together: the plain scheduler of
  `Scheduler`;
* worker: a frame has one page and a page one frame; a change is in the storage
  before the page that has it is dropped and before the worker leaves its query;
  an access over several pages sees and changes just its bytes. Together: the
  files of `ByteFiles`.

## 2. The modules

| module | models | states and steps |
|---|---|---|
| `StorageLocks` | `storage_locks.c` and its callers | The disk is, per File:Tag, "none", "dir" or "meta": all that the operations race about here. `index`, `sem`, `count`, `delete` are `locks_index` and the fields of a `t_lock` at an address; addresses are reused (`LockIds`). A section under `sem_locks_index` is one step; the load and the store of `count_waiting` are two. |
| `StorageLocksProofs` | theorems about it | section 5 |
| `StorageFS` | `sotrage_files.c`, bitmap, hash index | `meta`, `links`, `content`, `used`, `hashes` are the disk. A step is a section under the semaphore of one physical block. File:Tag locks are ideal. Logical blocks count from 1. |
| `StorageFSProofs`, `StorageFSRefines` | theorems about it | section 5 |
| `FileStore` | what `storage_files.h` offers | A File:Tag is a sequence of contents, the size INFO_FILE_TAG tells and a committed flag. `StorageFS!ImplementsFileStore` is the refinement, with the contents read through the metadata. |
| `Worker` | `worker/src` but parser and configuration | The storage is a `FileStore`. `tabla` has the two numbers of a `file_tag`, `pagina` the `nodo_pagina` of each page, `marco` bitmap and frames, `orden` the frames by the times LRU compares, `clock` the hand of CLOCK-M; `fase` and `ins` are where the cycle of `main.c` and the loop of `escribir_pagina` or `leer_pagina` are. A step is an instruction that is one request, or the part of a READ or WRITE up to its next request. |
| `ByteFiles` | what `interpreter.h` offers | What is stored and what a query sees of it (`view`). `Worker!ImplementsByteFiles` is the refinement, with `view` read through tables and frames. It uses `FileStore`. |
| `WorkerProofs`, `WorkerRefines` | theorems about `Worker` | section 5 |
| `Master` | all of `master/src` but configuration | One variable per list, one record per `query_t` and `worker_t`, one field of `sem` per semaphore, a program counter per thread. A step is a section under a mutex. |
| `MasterProofs`, `MasterSafety`, `MasterRefines` | theorems about `Master` | section 5 |
| `Scheduler` | what a query control is told, and in which order queries run | Who waits, who runs, who has been told the end, and how many workers there are: no threads, no semaphores. `Master!ImplementsScheduler` is the refinement. |
| `MCStorageLocks`, `MCStorageFS`, `MCMaster`, `MCWorker` | symmetry sets, contents and initial storages for TLC | |

`FileStore` is where storage and worker meet: `StorageFS` implements it and
`Worker` is built over it, so what `Worker` shows holds of the two together for as
long as `StorageFS` keeps to it (the faults below).

Every definition that stands for code has its lines in the `map` of
`PROJECT.json`. A definition whose comment begins with "bug:" is a deliberate
mistake in a copy of the definition after it, which is never used: replacing
the real one by it must break a property (`mutants`).

Things worth knowing when reading the code next to the modules:

* **StorageLocks**. A TAG whose source is empty makes no `link()` and releases its
  lock even if its directory is gone; any other may fail (`LinkBlocks`). `Init` has an empty `index` even with `InitialFiles`: `get_in`
  (storage_locks.c:145) stats `PUNTO_MONTAJE/<entry>` instead of the directory it
  lists, and asks for regular files where the tags are directories, so nothing
  on disk is registered. A waiter on a freed lock may go on (`WaitFreed`) or
  stay there for ever. `tainted` and `raced` are history: locks posted by a
  thread that does not hold them, left locked by a failed TAG or reborn at an
  address somebody still points at; and locks that lost an update of
  `count_waiting`. Both things happen in the code, and the properties say what
  holds until they do.
* **StorageFS**. Requests the code refuses before changing anything are
  stuttering steps. `up` becomes FALSE when the process dies of undefined
  behaviour: `WriteNoSpace` (double free), `WriteBeyondDisk` (a bit without a
  block), `ReadPastEnd` (a NULL followed), `CommitFreed` (the mutex of a block that is
  none). A COMMIT that finds a hash keeps the mutex of its block while it compares
  (`MutexHeld`), with a string that a DELETE may free meanwhile (`RemoveHash`): `blk` is
  then `None`. `NBlocks` and `MaxBit` differ because
  the bitmap has whole bytes.
  `INFO_FILE_TAG` of a base that was never truncated tells 0 blocks although it
  has one (storage_fresh_start.c): this is why `size` is a field of its own.
* **Worker**. `cantidad_paginas` starts as the size of the File:Tag and is also
  counted up for each page that comes: it is a number of its own in `tabla`, not
  a count of pages. LRU compares times of milliseconds; every access waits
  RETARDO_MEMORIA, so two times differ and an order says the same. LRU never
  reads `uso`, so it stays FALSE with it. What is left in the bytes of a free frame
  is never read. TAG copies what the storage has, not what this worker has
  written and not flushed, and END does not flush: both are so in the code. The
  requests of other workers (`OtroWorker`) are CREATE, TRUNCATE, WRITE, COMMIT, TAG and
  DELETE; a TAG is seen in two steps, the empty File:Tag and later its copy, as
  `storage_tag` makes them. `ByteFiles` has them as steps of its own (`Others`). An
  ERROR_AT_EXEC and the next question to the master are one state (`error`); that
  a refused flush may send a second one is `Master!ErrorAtExec` and `LateError`.
* **Master**. `fault` is history and `up` as above. Messages of one connection
  arrive in order; a worker talks only while it has a query, except to leave or
  to report a flush that failed (`LateError`). A connection that closes without
  DESCONEXION makes the reader `exit` (paquetes.c:89): a behaviour may stop at any
  state, which is all such an exit does, so it is no action. `LECTURA_MASTER`
  changes no state of the master and is left out. A script without END (`parser.c`
  does not ask for one) leaves the loop of worker/src/main.c:75 and the master is
  not told: `RunsOut` makes the worker "silent", and it can only leave.
  `PlanPair` is one step although `buscar_worker_libre`, `hacer_par_query_worker` and
  `solicitar_ejecucion_query` release a mutex in between (process_handler.c:11-14,
  master_util.c:150-187): only the planner gives work, a free worker stays free until
  it does, and the query it holds is in no list. In between another worker, earlier
  in the list, may become free, and the model gives it the query instead: no property
  tells two free workers apart. What would matter is that the worker found leaves,
  or the query control, and both are fault 3 already.

### The faults the clean specifications stop at

Some steps of the code break what the rest of it relies on. Stating every
property without them would be false, so these steps are named, and the
properties are asked of all behaviours as far as the first of them. A new fault
would show as a violation.

`StorageFS!CleanSpec` leaves out
1. `CommitFreesShared`: COMMIT marks its old block free (398-401) though another
   File:Tag links it (see `fs_frozen`);
2. `LeavesStaleHash`: WRITE in place (289) or TRUNCATE (187-190) takes a block from
   the content the hash index has for it.

`StorageFS!FilledSpec` (two threads) leaves out only the two that need another worker,
and `CleanSpec` them too:
1. `OvertakesTag`: another worker changes, commits or deletes the File:Tag that a TAG
   has created and not filled yet (425-438), after which its metadata are overwritten
   with those of the source;
2. `CommitsGarbage`: `phys_blk`, which COMMIT reads from the index under `bhi_mutex` (364),
   is not a copy but the string of the index, and it goes on reading it until 409. A
   DELETE of another worker that removes that hash (515) frees it. What COMMIT then
   unlinks, links, and writes to the metadata is what the memory holds (`CommitFreed`):
   nothing can be said of the disk. `FilledSpec` has the outcomes in which the process
   dies of it, and those in which only the block, and not the string, was freed.

`Worker!fault` becomes TRUE, until the worker ends, when a page table and its
File:Tag drift apart:
1. TRUNCATE finds `cantidad_paginas` equal to the new size and leaves the table as
   it is although its length differs (interpreter.c:98);
2. another worker creates, deletes, commits, truncates or writes a File:Tag that has
   a table here, or fills it with a TAG (`OtroWorker`): nothing tells this worker.
`FramesMatchPages`, `CountCoversPresent` and `TypeOK` are asked whatever happens.
The ends of the worker (`Termina`) are in all behaviours: a File:Tag that does not
exist, the page after the last one, a page past the first out of range, a dirty
page that a truncation drops, the DELETE of the base. A page the storage does not
have kills the storage in the code (`StorageFS!ReadPastEnd`) and shows here as the
end of the worker, which loses its connection.

`Master!fault` becomes TRUE when
1. an interrupted worker ends, fails or leaves instead of asking (nobody posts
   `sem_int`, see `master_answer`), or is interrupted after it was told to go on
   (`interrumpir` is read at 171 and again at 181), or when its query is over;
2. a second aging thread starts for a query while an older one is alive: of the
   two, the one that finds priority 0 removes the query and does not put it back
   (master_aging.c:13-30);
3. a query control leaves before its query is over (its token stays in
   `sem_ready`, or its handler waits on a copy of a semaphore, 139); a free worker
   leaves (its token stays in `sem_workers`); an answer cannot be sent (173-179, the
   query stays in `querys_exec`);
4. an END frees a worker whose `error_at_exec` is set (`WorkerFreed`). The refused flush
   of a worker that left q1 may be told when it already has q2 (281-289): q2 is ended,
   and if its next message is the END instead of a question (250-264) nobody clears
   the mark. The first question of q3 is then answered with TRUE (171) and frees
   the worker (215-224) with q3 in `querys_exec`, neither finished nor put back;
5. an interrupted worker comes to the end of a script without END (`RunsOut`): as in 1,
   nobody posts `sem_int`.

And `up` becomes FALSE where NULL is followed: the planner with an empty list or
no free worker, `check_prior` with an empty `querys_exec` or `querys_ready`
(37-43), a freed query or `worker_t` (`Killed`: in a list, in a worker, with an aging
thread, or as the head or the victim `check_prior` holds), an error that arrives for
a worker without a query (`LateError`).

## 3. The runs

All runs but the violations pass; times are for two TLC workers.

| run | instance | asks |
|---|---|---|
| `locks_race` | 3 threads, 1 File:Tag, 2 addresses, CREATE/USE/DELETE | `TypeOK`, `OneToken`, `CountsWaiters`, `NoWaiterOnFreedLock`. Three threads are a deleter, a waiter and one that creates again; with two addresses a new lock can be born at the old one or elsewhere. |
| `locks_tag` | 2 threads, 2 File:Tags, fair | `WaitedLockIsReleased`: two TAGs in opposite directions do not deadlock, since TAG releases the source before it waits for the copy. |
| `locks_base` | 2 threads on `initial_file:BASE` | **violated**: `ExclusiveFileTag`. |
| `fs_clean` | 1 thread, 3 File:Tags, 3 blocks, 2 contents, files of up to 2 blocks, all operations, `CleanSpec` | the eight properties of the file system, the refinement of `FileStore` among them. Two files and the base are enough to share a block between two and still free it; three blocks make the disk full. |
| `fs_two` | 2 threads, 2 File:Tags, files of 1 block, 3 blocks under a bitmap of 4 bits, all operations but READ; `FilledSpec` | `MetadataMatchesLinks`, `NoBlockLost`, `HashedLinkExists`, `SizeIsBacked` under interleaving, the two faults of `CleanSpec` included; it also reaches the ways a full disk kills the storage, and a COMMIT whose string was freed up to the death of the process. |
| `fs_frozen` | as `fs_clean`, full `Spec` | **violated**: `CommittedIsFrozen`. |
| `master_fifo` | FIFO, 2 queries, 2 workers, everything may fail; fair | `TokensMatchLists`, `EachQueryInOnePlace`, `EveryQueryEnds`, `ImplementsScheduler` (the first to come goes first, nobody is evicted). Two workers, so that a script without END silences one and the other still runs the queries. |
| `master_prior` | priorities 0 to 2, 3 queries, 2 workers, no aging, as far as the first fault | `TypeOK`, `ExecutingIsPaired`, `ReadyIsSorted`, `EvictionIsCovered`, `ImplementsScheduler` (only a better query evicts, and the best one waiting is dispatched). Two workers make the choice of a victim real, three queries make one wait while two run. |
| `master_aging` | aging, 2 queries of priority 1, 1 worker, 3 aging threads, as far as the first fault; fair | `TokensMatchLists`, `EachQueryInOnePlace`, `ReadyIsSorted`, `PreemptionCompletes`, `ImplementsScheduler` (with priorities that change). |
| `master_answer` | priorities, 2 queries, 1 worker; fair | **violated**: `PreemptionIsAnswered`. |
| `worker_memory` | scripts of up to 4 instructions over 2 File:Tags of up to 2 pages of 2 bytes, 2 frames, LRU and CLOCK-M; READs and WRITEs of 1 and of 3 bytes at addresses 1 and 2; sizes 0, 2 and 3; a new storage and one with a full File:Tag; other workers, which run every operation | the seven properties of the worker. Two frames for four pages make every access replace, also a page of the same access; three bytes over two pages is the least that has a whole page and a part of one; the table and `cantidad_paginas` need three instructions to disagree and a fourth to use it. |
| `worker_write` | the same, without other workers | **violated**: `WriteTakesAll`. |

The four violations are disagreements between the code and what its own
headers and comments say; `findings` in `PROJECT.json` quotes both sides.

Bounds: `MaxCount` (no new operation once a `count_waiting` that lost updates is
that far from 0), `MaxLen` (blocks of a File:Tag), `Agers` (aging threads alive at
once: a new one waits for a free name, which two queries and one worker do not
need until the second fault), `MaxInstr` (instructions a worker runs, those of
other workers counted). Each peer connects once.

`CHECK_DEADLOCK FALSE` everywhere: these systems do stop. A File:Tag left locked by
a failed TAG, or a waiter on a freed lock, never moves again; a process that died
makes no step; a worker that has run its instructions rests; a master whose `check_prior` waits for ever stops; and with
every peer gone there is nothing to do.

### Fairness

* `StorageLocks`: a thread inside an operation keeps running (`WF` of its step). No
  request has to come, and nothing forces a waiter on freed memory to go on.
  Weak fairness of `sem_wait` is enough for what is asked: that the holder posts.
* `Master!Fairness`: every thread that can run does; a worker with a query keeps
  sending messages (`Works`). Peers need not connect, and need not leave.
* `FiniteSpec` adds strong fairness of END, an error or the last instruction of a
  script without END: a script is a finite list of instructions and the loop of
  the worker is over it (worker/src/main.c:75), so it does not go on asking for ever.
  Only `EveryQueryEnds` needs it, and it does not promise an end to the query of a
  script without one, nor to those that wait when all workers were silenced so.

All fairness is of a process that is `up`.

## 4. Deliberate limits of the models

* Storage, worker and master are separate models. They meet in `FileStore` and in
  `Scheduler`, which both sides are written against; that the flush of a worker
  that leaves its query may reach the storage after the next worker has started it
  (`worker/src/main.c:126`) needs two of them at once and is in the plan.
* `Worker` takes a storage with room: the refusal of a full disk, which `StorageFS`
  has, is not in `FileStore`. A whole FLUSH of a File:Tag is one step, and so are
  the request of an instruction and the one for the metadata after it: another
  worker does not come in between.
* `StorageFS` takes the File:Tag locks as ideal. What they really do is
  `StorageLocks`; the File:Tags of `locks_base` show that a whole-storage model
  with the real locks has fewer invariants.
* A crash of the storage and a start on its disk are not modelled: what a restart
  would find is every intermediate state of `StorageFS`. A worker that is started
  again has an empty memory (`Arranca`), whatever the storage has.
* A worker that leaves after it reported an error ends its query a second time
  (`finalizar_query`): `Scheduler!Leave` allows it to leave without one.
* The contents of messages, the log, the delays (`usleep`) and memory that is
  only leaked are left out. MD5 is taken as injective.

Not modelled, and why:

* `worker/src/parser.c`: it turns text into the list of instructions without any
  state between calls. A script is any sequence of instructions, or one that ends
  the worker (`RecibeQuery`).
* `utils/`: packets are a length and bytes over a TCP connection; the models take
  messages as ordered and not lost. The one behaviour with consequences, the
  `exit` of a reader whose peer vanished (paquetes.c:89), is a behaviour that stops.
* what a query control prints, configuration, logging, release of resources at
  exit.

## 5. Proofs

Each theorem is for every value of the constants: any number of threads, peers,
File:Tags, blocks, pages and priorities.

### The locks of the storage

`StorageLocksProofs`, for all threads, File:Tags and addresses:

* `LockInvariant`: `Spec => []LockInv`, with
  `LockInv == TypeOK /\ LocalsOK /\ PointersOK /\ OneToken`;
* `LocksTypeCorrect`: `Spec => []TypeOK`;
* `LockToken`: `Spec => []OneToken`, a property of `locks_race`.

`OneToken` is not inductive by itself: `storage_wait` and `storage_signal` look the
lock up separately, and a signal would post a token nobody took if the File:Tag
had got another lock meanwhile. `PointersOK` closes that: a thread's lock, while it
is registered and was not misused, is the one registered for the File:Tag the
thread works on. It needs `LocalsOK` (which locals are set at each point) and the
last part of `TypeOK` (no address is the lock of two File:Tags). The proof goes
action by action: `Frame` takes the steps that leave index, semaphores and
pointers alone, the `...Token` lemmas one of the others each.

Then, for `count_waiting`:

* `WaitInvariant`: `Spec => []WaitInv`, with
  `WaitInv == LockInv /\ HolderOK /\ CountsWaiters /\ NoWaiterOnFreedLock`;
* `LockCount` and `LockNotFreed`: the last two, as in `locks_race`.

`CountsWaiters` compares a counter with the cardinality of a set of threads, so
each step that moves a thread in or out of the wait adds or removes one element of
a finite set. `HolderOK` (a thread about to increment holds the index and a
registered lock) is why the increment loses nothing; the decrement, which is
outside the index, loses only what the history `raced` excludes. A lock that is
freed has count 0, hence no waiter: `NoWaiterOnFreedLock` follows from the count.

Assumptions: `LocksAssumption` (NULL is no thread, File:Tag or address, the threads
are finitely many, `MaxCount` is a natural number).

### The file system of the storage

`StorageFSProofs`, for all threads, File:Tags, contents, sizes, and disks of any number
of blocks, about `FilledSpec` (nobody overtakes a TAG, and a COMMIT dies of a string that
was freed, section 2; the theorems say nothing of a COMMIT that outlives it):

* `StorageInvariant`: `FilledSpec => []FSInv`;
* `StorageTypes`, `StorageLinks`, `StorageSize` and `StorageHashedLinks`: `TypeOK`,
  `MetadataMatchesLinks`, `SizeIsBacked` and `HashedLinkExists` follow from it;
* `StorageBlocks`: `FilledSpec => []NoBlockLost`, by a second induction on it.

`StorageFSRefines` goes on from there for one worker (`OneWorker`) and `CleanSpec`, that
is, as far as neither of the two faults of section 2 strikes: that is the scope in
which what follows is true (`fs_frozen` shows it false past them).

* `StorageKeeps`: `CleanSpec => []CleanInv`, with `CleanInv == FSInv /\ (up => Store)`;
* `StorageLinkedUsed`, `StorageHashIndex` and `StorageReserves`: `LinkedIsUsed`,
  `HashIndexIsTrue` and `ReservedIsFree`, as in `fs_clean`;
* `StorageImplementsFileStore`: `CleanSpec => ImplementsFileStore`;
* `StorageFreezes`: `CommittedIsFrozen`, from the refinement: no operation of
  `FileStore` changes what is committed.

`MetadataMatchesLinks` only speaks of a File:Tag that nobody holds. `FSInv` says what is
true meanwhile: a held File:Tag has one holder, and `Keeps` gives, for each step of
each operation, the logical blocks of the holder's copy of the metadata that are
linked at that moment (a TRUNCATE has the first `pos`, a DELETE those from `pos` on, a
WRITE all but one). An operation ends when that is all of the metadata it writes
(`ReleasesRight`). `OthersStay` is the part about concurrency: a step leaves the
operations of the others right if it touches only the File:Tag its thread holds, or
one nobody holds and no TAG has just created, which is where `FilledSpec` is needed.
A dead storage (`up` FALSE) is only asked for its types.

`NoBlockLost` needs more than itself too: a WRITE keeps the block it has reserved and
a COMMIT the one whose link it has removed, and nothing else counts (`KeptBy`). TRUNCATE
and DELETE free a block exactly when they remove the last link to it, WRITE takes one
away only where another stays.

`Store` is one invariant for the three of the disk, because a COMMIT breaks each of them
for a while and the others say how:

* it frees its old block with the first link it moves, so a later link of the same
  File:Tag to that block points at a free one (`LinksUsed` exempts the links it has yet
  to move, and only those whose block the index does not name);
* that those links all lie ahead of it is `Hashes`: what a COMMIT has left behind is
  what the index names for its content;
* a WRITE has found its block with no link and a bit it has set itself (`Reserves`),
  and works on a copy of the metadata that is still what the disk has (`Remembers`).

The refinement is action by action. What a File:Tag contains is read through its
metadata, so an operation happens when it writes them: `TruncateGrow` and `TruncateEnd`
are `Truncate`, `WriteInPlace` and `WriteLink` are `Write`, `CommitEnd` is `Commit`, `TagCopy` is
`Tag`, `DeleteEnd` is `Delete`, `Create` and `TagCreate` are `Create`; every other step changes nothing
that can be seen, `CommitLink` because both blocks have the same content. The promise is
asked until the storage dies: its last step may leave metadata naming a block the
disk does not have (section 2, `up`). TLC checked `up => Store` on `fs_clean` before it was
proved.

Assumptions: `FSAssumption` (block 0 exists, the bitmap has a bit for every block, `None`
is no thread, File:Tag, content, number, metadata or File:Tag of `FileStore`).

### The memory of the worker

`WorkerProofs`, for all File:Tags, page sizes, numbers of pages and frames, scripts,
initial storages, both algorithms, and whatever other workers do:

* `WorkerInvariant`: `Spec => []Inv`, with
  `Inv == StateOK /\ FramesMatchPages /\ CountCoversPresent`;
* `WorkerFrames` and `WorkerCount`: the last two, as in `worker_memory`.

Neither of the two is inductive alone. DELETE frees the frames of a table until
`cantidad_paginas` says that there are no more, and a replacement destroys the
table of another File:Tag when that number says its last page goes: were the
number less than the pages present, a frame would keep pointing at a page that is
in no table (`FramesMatchPages`). And the number is kept above the pages because
each page that comes or goes changes both by one, which needs that the victim of a
replacement is the page of its frame. `Suelta` and `SalePagina` are those two
arguments; `EntraPagina` and `SalePagina` are about any tables, pages and frames, so
that a replacement, which does both in one step, is the one after the other.

`WorkerRefines` goes on from there to what a query sees, also for everything above:

* `WorkerKeeps`: `Spec => []Firme`, with
  `Firme == Inv /\ Tamanos /\ TablasDeFiles /\ CleanPageIsTrue`;
* `WorkerClean` and `WorkerLeaves`: `CleanPageIsTrue` and `LeavingSavesAll`, as in `worker_memory`;
* `WorkerImplementsByteFiles`: `Spec => ImplementsByteFiles`;
* `WorkerAccess`: `Spec => []AccessIsRight`;
* `WorkerTypes`: `Spec => []TypeOK`, the order of LRU included.

`CleanPageIsTrue` says that a page which is not marked as modified can be thrown away.
It is not inductive alone: that a flush writes the page of its frame needs `FramesMatchPages`;
that a page in memory has a block in the storage needs a table as long as its
File:Tag (`TablasDeFiles`, until `fault`) and a File:Tag with as many blocks as its size tells
(`Tamanos`); and a replacement reads the new page before it writes the victim
back, which is right only because they are two pages. A flush marks its pages as clean
even when the storage refuses them: true only of a File:Tag that can still be written,
which is why the property asks for that.

The refinement is action by action over `Cumple`, what each step owes. `view` is computed
from tables and frames, so for each step a lemma says what it leaves of `Ve`, the page a
query sees in one block (`FlushFirme`, `LibreFirme`, `VictimaFirme`, `EscribeFirme`, ...). A step that
moves pages between memory and storage is `Sync` or a stutter; a replacement whose
write is refused is `Discard`; TRUNCATE, the longest, is five cases with and without a
table.

`AccessIsRight` needs the access in progress too (`Vale`): the bytes of the pages before
the current one are those a query sees, wherever these are by now, since a page that
was done may have been replaced by a later one of the same access. From a step to the next
`Vale` rests on what `VictimaFirme` says of `view`, and on the page table of the access never
being destroyed by its own replacements. The arithmetic of pages is `ByteDe`.
TLC checked `Vale`, `Tamanos` and `TablasDeFiles` on `worker_memory` before they were proved.

`OrdenOK` (every frame has one place in the order of LRU) is proved by hand for the one step
that moves a frame to the end (`UsaOrden`).

Assumptions: `WorkerAssumption` (a page and a frame at least, `NULL` is no page, frame
or byte) and `StorageAssumption` (the initial storage has File:Tags of `FileStore`, each with
the blocks its size tells, as `StorageFS` keeps them (`SizeIsBacked`); `NULL` is none of
them, no list of blocks and no record of the memory).

### The master

For all queries, workers, aging threads and priorities, both algorithms, with and
without aging. `MasterProofs` begins with the facts about lists: what an insertion and a removal
do to length, elements and order, and that a list without repetitions has as
many elements as places.

* `MasterInvariant`: `Spec => []MasterInv`, with `MasterInv == Shape /\ (Sound => Clean)`;
* `MasterTypes`, `MasterTokens`, `MasterPlaces`, `MasterPairs`, `MasterSorted` and
  `MasterEviction`: `TypeOK`, `TokensMatchLists`, `EachQueryInOnePlace`,
  `ExecutingIsPaired`, `ReadyIsSorted` and `EvictionIsCovered`, as in the runs;
* `PlannerFindsBoth`: no step of the planner ends a sound process;
* `MasterImplementsScheduler`: `Spec => ImplementsScheduler`.

`Shape` (`MasterProofs`) holds whatever happens: the types, that one thread at a time is
inside `check_prior` and keeps `mutex_ready` from its look to its answer, and that a
thread that works on a query has one. After a fault nothing else can be said.
`Clean` (`MasterSafety`) is asked as far as the first fault, and no part of it is
inductive without others:

* `Tokens` counts; a count changes with a list only if each list has no
  repetitions and no query is in two, which is `Places`;
* a query leaves `querys_exec` through its worker, so `Places` needs that the two point
  at each other (`Pairs`), which needs to know for each point of a `worker_handler`
  whether its worker still has a query (`Staff`);
* an eviction takes a query out of `querys_exec` and puts it in `querys_ready` in two
  sections of `worker_handler`, without `mutex_ready`. `Evictions` is why nothing
  comes in between: while a worker that was asked has not answered, the thread
  that asked is in its wait and holds the mutex, its victim is that worker's query, and the
  head it looked at still waits with a better priority. Hence one victim at a
  time, an insertion nobody overtakes (`InOrder`), and an eviction only for a
  better query, which the refinement needs;
* an aging thread removes its query and inserts it again. That it is there needs
  that no other thread ages the same one (`Aged`), and that its handler is told the end
  before it frees it needs `Told`.

TLC checked `MasterInv` as an invariant of the three runs of the master before it was proved.

`MasterRefines` maps the master to `Scheduler` action by action. A query runs, for the
scheduler, from the moment the planner takes it from `querys_ready`, so `PlanTake` is
`Dispatch` and `PlanPair` a stutter; `Requeue` is `Evict`; `AgerWake` is `Age` or a stutter;
what ends a query is `End`. `Dispatch` asks that fewer queries run than there are
workers: a free worker is one of the list, and those that run have each one of the others
(`FewerThanWorkers`).

Assumptions: `MasterAssumption` (the algorithm is one of the two, priorities are natural numbers,
`None` is no query and no thread).

### Only model-checked

* All liveness (`WaitedLockIsReleased`, `EveryQueryEnds`, `PreemptionCompletes`): fairness and
  ENABLED are beyond the proof system. That every mutant of it is caught by its run
  is what shows it is not empty.
* The runs that expect a violation: a counterexample is all they need.
* `LinkedIsUsed`, `HashIndexIsTrue`, `CommittedIsFrozen`, `ReservedIsFree` and the refinement of
  `FileStore` are proved for one worker at a time. With two, TLC finds each of them violated
  even without any of the faults of section 2: TAG releases its source before it links
  its blocks (sotrage_files.c:425-438), and a TRUNCATE of the source that comes in between frees
  a block, which the new File:Tag then links; and TAG itself is not one step for others.
  They are not asked of several workers, so there is nothing more to prove of them.

Every other invariant and action property of the runs is a theorem. Where a proof
needs an induction over data (the least of a set of numbers, the first greatest of a
list) it is done by the least counterexample, with the library's theorem that a
set of naturals has a least element.

## 6. Plan

Done: `StorageLocks`, `FileStore`, `StorageFS`, `Scheduler`, `Master`, `ByteFiles`,
`Worker`; the proofs of section 5.

Next modules, in order:
1. `StorageRestart`: a crash between any two steps of `StorageFS` and a start with
   and without FRESH_START; what survives.
2. `Handoff`: two workers and one query over `FileStore`, with the flush that races
   the next worker.
3. `StorageThreads`: `StorageFS` over the real locks of `StorageLocks` for two
   File:Tags, and what a READ or an INFO_FILE_TAG returns while others write.

New runs replace the ones they make redundant (`locks_tag` can move into
`StorageThreads`).

Theorems worth proving next: the invariants of the three modules above, `StorageRestart` first:
`FSInv` already tells what is on disk between two steps.
