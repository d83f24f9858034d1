----------------------------- MODULE StorageFS ------------------------------
(***************************************************************************)
(* The file system of the storage: storage/src/sotrage_files.c with the    *)
(* bitmap (storage_bitmap.c) and the index of block hashes                 *)
(* (storage_hashes.c) it works on.                                         *)
(*                                                                         *)
(* A File:Tag is its metadata.config and the hard links of its             *)
(* logical_blocks directory.  Logical blocks are numbered from 1 here      *)
(* (from 0 in the code).  A request that the code refuses before it        *)
(* changes anything is a stuttering step, so refusals are the guards of    *)
(* the actions.                                                            *)
(*                                                                         *)
(* A step is a section under the mutex of one physical block, together     *)
(* with the steps around it that only the thread that holds the File:Tag   *)
(* can see.  The File:Tag locks are ideal in this module: StorageLocks     *)
(* says what the real ones do.                                             *)
(***************************************************************************)
EXTENDS Integers, Sequences, FiniteSets

CONSTANTS
    Threads,     \* one per connected worker
    FileTags,
    Base,        \* initial_file:BASE
    Data,        \* contents a block can have
    Zero,        \* the content of a block of zeros
    NBlocks,     \* FS_SIZE / BLOCK_SIZE: blocks 0 .. NBlocks - 1 exist
    MaxBit,      \* bits of the bitmap: NBlocks rounded up to whole bytes
    BlockSize,
    Sizes,       \* sizes a TRUNCATE asks for
    MaxLen,      \* bound: blocks in the longest File:Tag
    Ops,         \* operations the workers request
    None         \* no file, no block, no thread

ASSUME FSAssumption ==
    /\ Base \in FileTags
    /\ Zero \in Data
    /\ NBlocks \in Nat \ {0}
    /\ MaxBit \in Nat /\ MaxBit >= NBlocks
    /\ BlockSize \in Nat \ {0}
    /\ MaxLen \in Nat \ {0}
    /\ Sizes \subseteq 0 .. MaxLen * BlockSize
    /\ None \notin Threads \cup FileTags \cup Data \cup Nat
    /\ None \notin [size : Nat, blocks : Seq(Nat), committed : BOOLEAN]
    /\ None \notin [data : Seq(Data), size : Nat, committed : BOOLEAN]
    /\ Ops \subseteq {"CREATE", "TRUNCATE", "WRITE", "READ", "COMMIT", "TAG", "DELETE"}

VARIABLES
    meta,      \* metadata.config of each File:Tag, or None
    links,     \* hard links <<file:tag, logical block, physical block>>
    content,   \* content of each physical block
    used,      \* bits set in the bitmap
    hashes,    \* block_hash_index: content -> block, or None
    up,        \* FALSE once the process has been killed by its own undefined behaviour
    lock,      \* File:Tag -> thread that holds it, or None
    pc,        \* step of the operation of each thread
    file,      \* its File:Tag
    source,    \* the File:Tag a TAG copies
    md,        \* its copy of the metadata
    pos,       \* its loop index, or the logical block it accesses
    blk,       \* the physical block it is about to link or read; None: a string that was freed
    arg        \* the size of its TRUNCATE, the data of its WRITE, the hash its COMMIT looked up

disk  == <<meta, links, content, used, hashes>>
local == <<pc, file, source, md, pos, blk, arg>>
vars  == <<meta, links, content, used, hashes, up, lock, pc, file, source, md, pos, blk, arg>>

Blocks == 0 .. NBlocks - 1
Bits   == 0 .. MaxBit - 1

PCs == {"idle", "truncate", "write", "read", "commit", "commit_found", "commit_link",
        "tag_source", "tag_copy", "tag_link", "delete"}

EmptyFile == [size |-> 0, blocks |-> <<>>, committed |-> FALSE]

-----------------------------------------------------------------------------
(* Directories, links, bitmap.                                             *)

Exists(f)       == meta[f] # None
Linked(f, i)    == \E l \in links : l[1] = f /\ l[2] = i
DirExists(f)    == Exists(f) \/ \E l \in links : l[1] = f   \* rmdir fails on a non-empty one
Link(f, i, b)   == IF Linked(f, i) THEN links ELSE links \cup {<<f, i, b>>}      \* EEXIST
UnlinkNothing(f, i) == links            \* bug: the link stays
Unlink(f, i)    == {l \in links : ~(l[1] = f /\ l[2] = i)}
Target(f, i)    == (CHOOSE l \in links : l[1] = f /\ l[2] = i)[3]
ContentOf(f, i) == content[Target(f, i)]          \* get_hash_from_block, through the link
NLink(ls, b)    == 1 + Cardinality({l \in ls : l[3] = b})   \* the block itself and its links

\* A block only its own file is left of; the three before it are bugs.
OrphanNever(ls, b)  == FALSE
OrphanAlways(ls, b) == b # 0
OrphanShared(ls, b) == b # 0 /\ NLink(ls, b) < 3
Orphan(ls, b)       == b # 0 /\ NLink(ls, b) < 2

\* find_free_block: the lowest clear bit after bit 0.
FreeBitsPastEnd == {b \in 1 .. MaxBit : b \notin used}   \* bug: one bit too many
FreeBits == {b \in Bits \ {0} : b \notin used}
FirstFree(b) == b \in FreeBits /\ \A c \in FreeBits : b <= c

\* The index of hashes: a content and the block it was first committed in.
\* Its strings are its own: to remove a hash frees the one a COMMIT may be reading.
LoadHash(h, b) == hashes' = [hashes EXCEPT ![h] = b]
Reads(s, h)    == pc[s] \in {"commit_found", "commit_link"} /\ arg[s] = h
RemoveHash(h)  ==
    /\ hashes' = [hashes EXCEPT ![h] = None]
    /\ blk' = [s \in Threads |-> IF hashes[h] # None /\ Reads(s, h) THEN None ELSE blk[s]]

\* The mutex of a block is kept from one step to the next only by a COMMIT that compares.
MutexHeld(b) == \E s \in Threads : pc[s] = "commit_found" /\ b = md[s].blocks[pos[s]]

NoLocals(t) ==
    /\ pc' = [pc EXCEPT ![t] = "idle"]
    /\ file' = [file EXCEPT ![t] = None]
    /\ source' = [source EXCEPT ![t] = None]
    /\ md' = [md EXCEPT ![t] = EmptyFile]
    /\ pos' = [pos EXCEPT ![t] = 0]
    /\ blk' = [blk EXCEPT ![t] = 0]
    /\ arg' = [arg EXCEPT ![t] = None]

\* A thread holding f begins the operation op with its copy of the metadata.
Begin(t, f, step, i, b, x) ==
    /\ pc' = [pc EXCEPT ![t] = step]
    /\ file' = [file EXCEPT ![t] = f]
    /\ md' = [md EXCEPT ![t] = meta[f]]
    /\ pos' = [pos EXCEPT ![t] = i]
    /\ blk' = [blk EXCEPT ![t] = b]
    /\ arg' = [arg EXCEPT ![t] = x]
    /\ UNCHANGED source

AcquireNothing(t, f) == UNCHANGED lock   \* bug: the File:Tag is not kept
Acquire(t, f) == lock' = [lock EXCEPT ![f] = t]
Release(f)    == lock' = [lock EXCEPT ![f] = None]

\* A request arrives at an idle thread; with a lock, storage_wait has been passed.
Ready(t, op)      == up /\ pc[t] = "idle" /\ op \in Ops
Opened(t, op, f)  == Ready(t, op) /\ lock[f] = None /\ Exists(f)
WritableAlways(f) == TRUE                 \* bug: a committed File:Tag is not refused
Writable(f)       == ~meta[f].committed

Init ==
    /\ meta = [f \in FileTags |->
                 IF f = Base THEN [EmptyFile EXCEPT !.blocks = <<0>>] ELSE None]
    /\ links = {<<Base, 1, 0>>}
    /\ content = [b \in Blocks |-> Zero]
    /\ used = {0}
    /\ hashes = [d \in Data |-> IF d = Zero THEN 0 ELSE None]
    /\ up = TRUE
    /\ lock = [f \in FileTags |-> None]
    /\ pc = [t \in Threads |-> "idle"]
    /\ file = [t \in Threads |-> None]
    /\ source = [t \in Threads |-> None]
    /\ md = [t \in Threads |-> EmptyFile]
    /\ pos = [t \in Threads |-> 0]
    /\ blk = [t \in Threads |-> 0]
    /\ arg = [t \in Threads |-> None]

-----------------------------------------------------------------------------
(* CREATE *)

Create(t, f) ==
    /\ Ready(t, "CREATE")
    /\ ~DirExists(f)
    /\ meta' = [meta EXCEPT ![f] = EmptyFile]
    /\ UNCHANGED <<links, content, used, hashes, up, lock, local>>

-----------------------------------------------------------------------------
(* TRUNCATE *)

NoNewLinks(f, from, to) == {}            \* bug: the metadata grows and no block is linked
NewLinks(f, from, to)   == {<<f, i, 0>> : i \in {j \in from .. to : ~Linked(f, j)}}

\* Growing links the new logical blocks to block 0; only the holder of f can see it happen.
TruncateGrow(t, f, n) ==
    /\ Opened(t, "TRUNCATE", f)
    /\ Writable(f)
    /\ LET old == meta[f].blocks
           needed == n \div BlockSize
       IN  /\ needed >= Len(old)
           /\ needed > Len(old) => ~MutexHeld(0)
           /\ meta' = [meta EXCEPT ![f] =
                [size |-> n, committed |-> FALSE,
                 blocks |-> [i \in 1..needed |-> IF i <= Len(old) THEN old[i] ELSE 0]]]
           /\ links' = links \cup NewLinks(f, Len(old) + 1, needed)
    /\ UNCHANGED <<content, used, hashes, up, lock, local>>

TruncateShrink(t, f, n) ==
    /\ Opened(t, "TRUNCATE", f)
    /\ Writable(f)
    /\ n \div BlockSize < Len(meta[f].blocks)
    /\ Acquire(t, f)
    /\ Begin(t, f, "truncate", Len(meta[f].blocks), 0, n)
    /\ UNCHANGED <<disk, up>>

\* One iteration: the last logical block is unlinked, its block freed if nothing links it.
TruncateBlock(t) ==
    LET f == file[t]
        b == md[t].blocks[pos[t]]
    IN  /\ up
        /\ pc[t] = "truncate"
        /\ pos[t] > arg[t] \div BlockSize
        /\ ~MutexHeld(b)
        /\ links' = Unlink(f, pos[t])
        /\ used' = IF Orphan(links', b) THEN used \ {b} ELSE used
        /\ md' = [md EXCEPT ![t].blocks = SubSeq(@, 1, pos[t] - 1)]
        /\ pos' = [pos EXCEPT ![t] = @ - 1]
        /\ UNCHANGED <<meta, content, hashes, up, lock, pc, file, source, blk, arg>>

\* Bug: the metadata is not written.
TruncateEndUnsaved(t) ==
    /\ up
    /\ pc[t] = "truncate"
    /\ pos[t] = arg[t] \div BlockSize
    /\ Release(file[t])
    /\ NoLocals(t)
    /\ UNCHANGED <<meta, links, content, used, hashes, up>>

\* Bug: the size is not updated.
TruncateEndOldSize(t) ==
    /\ up
    /\ pc[t] = "truncate"
    /\ pos[t] = arg[t] \div BlockSize
    /\ meta' = [meta EXCEPT ![file[t]] = md[t]]
    /\ Release(file[t])
    /\ NoLocals(t)
    /\ UNCHANGED <<links, content, used, hashes, up>>

TruncateEnd(t) ==
    /\ up
    /\ pc[t] = "truncate"
    /\ pos[t] = arg[t] \div BlockSize
    /\ meta' = [meta EXCEPT ![file[t]] = [md[t] EXCEPT !.size = arg[t]]]
    /\ Release(file[t])
    /\ NoLocals(t)
    /\ UNCHANGED <<links, content, used, hashes, up>>

-----------------------------------------------------------------------------
(* WRITE *)

OpenedBlock(t, f, i) ==
    /\ Opened(t, "WRITE", f)
    /\ Writable(f)
    /\ i \in 1 .. Len(meta[f].blocks)
    /\ ~MutexHeld(meta[f].blocks[i])

Shared(b) == b = 0 \/ NLink(links, b) > 2

WriteInPlace(t, f, i, d) ==
    /\ OpenedBlock(t, f, i)
    /\ ~Shared(meta[f].blocks[i])
    /\ content' = [content EXCEPT ![meta[f].blocks[i]] = d]
    /\ UNCHANGED <<meta, links, used, hashes, up, lock, local>>

\* A shared block is left to the others: a free one is reserved and the link removed.
WriteReserve(t, f, i, d) ==
    /\ OpenedBlock(t, f, i)
    /\ Shared(meta[f].blocks[i])
    /\ \E b \in Blocks :
         /\ FirstFree(b)
         /\ used' = used \cup {b}
         /\ Begin(t, f, "write", i, b, d)
    /\ links' = Unlink(f, i)
    /\ Acquire(t, f)
    /\ UNCHANGED <<meta, content, hashes, up>>

\* A set of bits that is not a set of blocks: the bit has no block and no mutex behind it.
WriteBeyondDisk(t, f, i) ==
    /\ OpenedBlock(t, f, i)
    /\ Shared(meta[f].blocks[i])
    /\ \E b \in FreeBits \ Blocks :
         /\ FirstFree(b)
         /\ used' = used \cup {b}
         /\ meta' = [meta EXCEPT ![f].blocks[i] = b]
    /\ links' = Unlink(f, i)
    /\ up' = FALSE
    /\ UNCHANGED <<content, hashes, lock, local>>

\* No space: phys_path is freed twice on the way to ERR_ESP_INSUFICIENTE, which either
\* goes unnoticed (a refusal, nothing changes) or aborts the process.
WriteNoSpace(t, f, i) ==
    /\ OpenedBlock(t, f, i)
    /\ Shared(meta[f].blocks[i])
    /\ FreeBits = {}
    /\ up' = FALSE
    /\ UNCHANGED <<disk, lock, local>>

\* The metadata names the new block, which is linked and written.
WriteLink(t) ==
    LET f == file[t] IN
    /\ up
    /\ pc[t] = "write"
    /\ ~MutexHeld(blk[t])
    /\ meta' = [meta EXCEPT ![f] = [md[t] EXCEPT !.blocks[pos[t]] = blk[t]]]
    /\ links' = Link(f, pos[t], blk[t])
    /\ content' = [content EXCEPT ![blk[t]] = arg[t]]
    /\ Release(f)
    /\ NoLocals(t)
    /\ UNCHANGED <<used, hashes, up>>

-----------------------------------------------------------------------------
(* READ: the File:Tag is released before the block is read. *)

ReadLookup(t, f, i) ==
    /\ Opened(t, "READ", f)
    /\ i \in 1 .. Len(meta[f].blocks)
    /\ Begin(t, f, "read", i, meta[f].blocks[i], None)
    /\ UNCHANGED <<disk, up, lock>>

ReadBlock(t) ==
    /\ up
    /\ pc[t] = "read"
    /\ ~MutexHeld(blk[t])
    /\ NoLocals(t)
    /\ UNCHANGED <<disk, up, lock>>

\* The bound is checked with > instead of >=: the block after the last one is atoi(NULL).
ReadPastEnd(t, f) ==
    /\ Opened(t, "READ", f)
    /\ up' = FALSE
    /\ UNCHANGED <<disk, lock, local>>

-----------------------------------------------------------------------------
(* COMMIT *)

CommitBegin(t, f) ==
    /\ Opened(t, "COMMIT", f)
    /\ Acquire(t, f)
    /\ Begin(t, f, "commit", 1, 0, None)
    /\ UNCHANGED <<disk, up>>

InCommit(t) == up /\ pc[t] = "commit" /\ pos[t] <= Len(md[t].blocks)

\* A content seen for the first time.
CommitKeep(t) ==
    LET b == md[t].blocks[pos[t]]
        h == ContentOf(file[t], pos[t])
    IN  /\ InCommit(t)
        /\ ~MutexHeld(b)
        /\ hashes[h] = None
        /\ LoadHash(h, b)
        /\ pos' = [pos EXCEPT ![t] = @ + 1]
        /\ UNCHANGED <<meta, links, content, used, up, lock, pc, file, source, md, blk, arg>>

\* A content the index has: phys_blk is its string there, read on after bhi_mutex is released.
CommitFound(t) ==
    LET h == ContentOf(file[t], pos[t]) IN
    /\ InCommit(t)
    /\ ~MutexHeld(md[t].blocks[pos[t]])
    /\ hashes[h] # None
    /\ blk' = [blk EXCEPT ![t] = hashes[h]]
    /\ arg' = [arg EXCEPT ![t] = h]
    /\ pc' = [pc EXCEPT ![t] = "commit_found"]
    /\ UNCHANGED <<disk, up, lock, file, source, md, pos>>

\* On to the next logical block.
CommitNext(t) ==
    /\ pc' = [pc EXCEPT ![t] = "commit"]
    /\ pos' = [pos EXCEPT ![t] = @ + 1]
    /\ blk' = [blk EXCEPT ![t] = 0]
    /\ arg' = [arg EXCEPT ![t] = None]

\* It is kept in this very block.
CommitSame(t) ==
    /\ up
    /\ pc[t] = "commit_found"
    /\ blk[t] = md[t].blocks[pos[t]]
    /\ CommitNext(t)
    /\ UNCHANGED <<disk, up, lock, file, source, md>>

\* It is kept in another block: this link goes, and the mutex is released.
CommitUnlink(t) ==
    /\ up
    /\ pc[t] = "commit_found"
    /\ blk[t] \notin {None, md[t].blocks[pos[t]]}
    /\ links' = Unlink(file[t], pos[t])
    /\ pc' = [pc EXCEPT ![t] = "commit_link"]
    /\ UNCHANGED <<meta, content, used, hashes, up, lock, file, source, md, pos, blk, arg>>

\* The block n goes into the metadata; the old one is marked free, whoever else links it.
Reassign(t, n) ==
    LET old == md[t].blocks[pos[t]]
    IN  /\ used' = IF old # 0 THEN used \ {old} ELSE used
        /\ md' = [md EXCEPT ![t].blocks[pos[t]] = n]
        /\ meta' = [meta EXCEPT ![file[t]] = md'[t]]

\* The block found is linked instead.
CommitLink(t) ==
    /\ up
    /\ pc[t] = "commit_link"
    /\ blk[t] # None
    /\ ~MutexHeld(blk[t])
    /\ links' = Link(file[t], pos[t], blk[t])
    /\ Reassign(t, blk[t])
    /\ CommitNext(t)
    /\ UNCHANGED <<content, hashes, up, lock, file, source>>

\* The links of t once it has linked its logical block under a name read from freed memory.
Relinked(t) ==
    LET bare == Unlink(file[t], pos[t])
    IN  {bare} \cup {bare \cup {<<file[t], pos[t], b>>} : b \in Blocks}

\* phys_blk was freed: its name and its numbers, read apart, are whatever the memory holds now:
\* this very block, others, or a number no block has, whose semaphore is NULL (388).
CommitFreed(t) ==
    /\ up
    /\ pc[t] \in {"commit_found", "commit_link"}
    /\ blk[t] = None
    /\ \/ pc[t] = "commit_found" /\ UNCHANGED <<links, used, md, meta, up>>
       \/ links' \in Relinked(t) /\ (\E n \in Blocks : Reassign(t, n)) /\ UNCHANGED up
       \/ links' = Unlink(file[t], pos[t]) /\ up' = FALSE /\ UNCHANGED <<used, md, meta>>
    /\ CommitNext(t)
    /\ UNCHANGED <<content, hashes, lock, file, source>>

CommitEnd(t) ==
    /\ up
    /\ pc[t] = "commit"
    /\ pos[t] > Len(md[t].blocks)
    /\ meta' = [meta EXCEPT ![file[t]] = [md[t] EXCEPT !.committed = TRUE]]
    /\ Release(file[t])
    /\ NoLocals(t)
    /\ UNCHANGED <<links, content, used, hashes, up>>

-----------------------------------------------------------------------------
(* TAG: creates n, reads o under its lock, then copies under the lock of n. *)

TagCreate(t, n, o) ==
    /\ Ready(t, "TAG")
    /\ ~DirExists(n)
    /\ meta' = [meta EXCEPT ![n] = EmptyFile]
    /\ pc' = [pc EXCEPT ![t] = "tag_source"]
    /\ file' = [file EXCEPT ![t] = n]
    /\ source' = [source EXCEPT ![t] = o]
    /\ UNCHANGED <<links, content, used, hashes, up, lock, md, pos, blk, arg>>

\* Without a source the TAG fails, and the File:Tag it created stays.
TagNoSource(t) ==
    /\ up
    /\ pc[t] = "tag_source"
    /\ lock[source[t]] = None
    /\ ~Exists(source[t])
    /\ NoLocals(t)
    /\ UNCHANGED <<disk, up, lock>>

\* Bug: the copy inherits the state of its source.
TagSourceCommitted(t) ==
    /\ up
    /\ pc[t] = "tag_source"
    /\ lock[source[t]] = None
    /\ Exists(source[t])
    /\ md' = [md EXCEPT ![t] = meta[source[t]]]
    /\ pc' = [pc EXCEPT ![t] = "tag_copy"]
    /\ UNCHANGED <<disk, up, lock, file, source, pos, blk, arg>>

TagSource(t) ==
    /\ up
    /\ pc[t] = "tag_source"
    /\ lock[source[t]] = None
    /\ Exists(source[t])
    /\ md' = [md EXCEPT ![t] = [meta[source[t]] EXCEPT !.committed = FALSE]]
    /\ pc' = [pc EXCEPT ![t] = "tag_copy"]
    /\ UNCHANGED <<disk, up, lock, file, source, pos, blk, arg>>

TagCopy(t) ==
    /\ up
    /\ pc[t] = "tag_copy"
    /\ lock[file[t]] = None
    /\ Acquire(t, file[t])
    /\ meta' = IF DirExists(file[t]) THEN [meta EXCEPT ![file[t]] = md[t]] ELSE meta
    /\ pos' = [pos EXCEPT ![t] = 1]
    /\ pc' = [pc EXCEPT ![t] = "tag_link"]
    /\ UNCHANGED <<links, content, used, hashes, up, file, source, md, blk, arg>>

TagLink(t) ==
    /\ up
    /\ pc[t] = "tag_link"
    /\ pos[t] <= Len(md[t].blocks)
    /\ ~MutexHeld(md[t].blocks[pos[t]])
    /\ DirExists(file[t]) /\ ~Linked(file[t], pos[t])
    /\ links' = Link(file[t], pos[t], md[t].blocks[pos[t]])
    /\ pos' = [pos EXCEPT ![t] = @ + 1]
    /\ UNCHANGED <<meta, content, used, hashes, up, lock, pc, file, source, md, blk, arg>>

\* link() fails: the new File:Tag was deleted, or truncated, since it was created.  The code
\* returns without storage_signal; a deleted File:Tag has no lock left to be held.
TagLinkFails(t) ==
    /\ up
    /\ pc[t] = "tag_link"
    /\ pos[t] <= Len(md[t].blocks)
    /\ ~MutexHeld(md[t].blocks[pos[t]])
    /\ ~DirExists(file[t]) \/ Linked(file[t], pos[t])
    /\ IF Exists(file[t]) THEN UNCHANGED lock ELSE Release(file[t])
    /\ NoLocals(t)
    /\ UNCHANGED <<disk, up>>

TagEnd(t) ==
    /\ up
    /\ pc[t] = "tag_link"
    /\ pos[t] > Len(md[t].blocks)
    /\ Release(file[t])
    /\ NoLocals(t)
    /\ UNCHANGED <<disk, up>>

-----------------------------------------------------------------------------
(* DELETE *)

DeleteBegin(t, f) ==
    /\ f # Base
    /\ Opened(t, "DELETE", f)
    /\ Acquire(t, f)
    /\ Begin(t, f, "delete", 1, 0, None)
    /\ UNCHANGED <<disk, up>>

InDelete(t) == up /\ pc[t] = "delete" /\ pos[t] <= Len(md[t].blocks)

\* Bug: the hash stays in the index.
DeleteBlockHashed(t) ==
    LET b == md[t].blocks[pos[t]]
        last == Orphan(links', b)
    IN  /\ InDelete(t)
        /\ ~MutexHeld(b)
        /\ links' = Unlink(file[t], pos[t])
        /\ used' = IF last THEN used \ {b} ELSE used
        /\ pos' = [pos EXCEPT ![t] = @ + 1]
        /\ UNCHANGED <<meta, content, hashes, up, lock, pc, file, source, md, blk, arg>>

\* A block nothing else links is freed and the hash of its content leaves the index.
DeleteBlock(t) ==
    LET b == md[t].blocks[pos[t]]
        h == ContentOf(file[t], pos[t])
        last == Orphan(links', b)
    IN  /\ InDelete(t)
        /\ ~MutexHeld(b)
        /\ links' = Unlink(file[t], pos[t])
        /\ IF last THEN RemoveHash(h) ELSE UNCHANGED <<hashes, blk>>
        /\ used' = IF last THEN used \ {b} ELSE used
        /\ pos' = [pos EXCEPT ![t] = @ + 1]
        /\ UNCHANGED <<meta, content, up, lock, pc, file, source, md, arg>>

DeleteEnd(t) ==
    /\ up
    /\ pc[t] = "delete"
    /\ pos[t] > Len(md[t].blocks)
    /\ meta' = [meta EXCEPT ![file[t]] = None]
    /\ Release(file[t])
    /\ NoLocals(t)
    /\ UNCHANGED <<links, content, used, hashes, up>>

-----------------------------------------------------------------------------

Start(t) ==
    \E f \in FileTags :
        \/ Create(t, f)
        \/ \E n \in Sizes : TruncateGrow(t, f, n) \/ TruncateShrink(t, f, n)
        \/ \E i \in 1..MaxLen :
             \/ \E d \in Data : WriteInPlace(t, f, i, d) \/ WriteReserve(t, f, i, d)
             \/ WriteBeyondDisk(t, f, i)
             \/ WriteNoSpace(t, f, i)
             \/ ReadLookup(t, f, i)
        \/ ReadPastEnd(t, f)
        \/ CommitBegin(t, f)
        \/ \E o \in FileTags : TagCreate(t, f, o)
        \/ DeleteBegin(t, f)

Continue(t) ==
    \/ TruncateBlock(t) \/ TruncateEnd(t)
    \/ WriteLink(t)
    \/ ReadBlock(t)
    \/ CommitKeep(t) \/ CommitFound(t) \/ CommitSame(t) \/ CommitUnlink(t) \/ CommitLink(t)
    \/ CommitFreed(t) \/ CommitEnd(t)
    \/ TagNoSource(t) \/ TagSource(t) \/ TagCopy(t) \/ TagLink(t) \/ TagLinkFails(t) \/ TagEnd(t)
    \/ DeleteBlock(t) \/ DeleteEnd(t)

Next == \E t \in Threads : Start(t) \/ Continue(t)

Spec == Init /\ [][Next]_vars

(***************************************************************************)
(* Faults of the code break what the storage promises, and README tells    *)
(* how each one is reached.  FilledSpec is the storage on the behaviours   *)
(* where the two that need a second worker do not strike, CleanSpec the    *)
(* one where the other two do not either: every other property can then be *)
(* asked of all the operations, and one more fault would show.             *)
(***************************************************************************)

\* Another worker changes, commits or deletes a File:Tag that a TAG has created and not filled yet.
OvertakesTag(t) ==
    \E s \in Threads \ {t} :
        /\ pc[s] \in {"tag_source", "tag_copy"}
        /\ lock'[file[s]] = t \/ meta'[file[s]] # meta[file[s]]

\* A COMMIT outlives the use of a string another worker's DELETE has freed.
CommitsGarbage(t) ==
    pc[t] \in {"commit_found", "commit_link"} /\ blk[t] = None /\ up'

FilledStep(t) == (Start(t) \/ Continue(t)) /\ ~OvertakesTag(t) /\ ~CommitsGarbage(t)
FilledNext    == \E t \in Threads : FilledStep(t)
FilledSpec    == Init /\ [][FilledNext]_vars

\* COMMIT marks free a block another File:Tag still links.
CommitFreesShared(t) ==
    /\ pc[t] = "commit_link"
    /\ md[t].blocks[pos[t]] # 0
    /\ \E l \in links : l[1] # file[t] /\ l[3] = md[t].blocks[pos[t]]

\* WRITE in place, or TRUNCATE, takes a block from the content the index of hashes has for it.
LeavesStaleHash(t) ==
    \E d \in Data :
        /\ hashes[d] # None
        /\ content[hashes[d]] = d
        /\ \/ pc[t] = "idle" /\ content'[hashes[d]] # d
           \/ pc[t] = "truncate" /\ hashes[d] \in used \ used'

CleanNext == \E t \in Threads : FilledStep(t) /\ ~CommitFreesShared(t) /\ ~LeavesStaleHash(t)
CleanSpec == Init /\ [][CleanNext]_vars

-----------------------------------------------------------------------------
(* Properties.                                                             *)

File == [size : Nat, blocks : Seq(Bits), committed : BOOLEAN]

\* Types of the disk and of the locals of the threads.
TypeOK ==
    /\ meta \in [FileTags -> File \cup {None}]
    /\ links \subseteq FileTags \X (Nat \ {0}) \X Blocks
    /\ content \in [Blocks -> Data]
    /\ used \subseteq Bits
    /\ hashes \in [Data -> Blocks \cup {None}]
    /\ up \in BOOLEAN
    /\ lock \in [FileTags -> Threads \cup {None}]
    /\ pc \in [Threads -> PCs]
    /\ file \in [Threads -> FileTags \cup {None}]
    /\ source \in [Threads -> FileTags \cup {None}]
    /\ md \in [Threads -> File]
    /\ pos \in [Threads -> Nat]
    /\ blk \in [Threads -> Blocks \cup {None}]
    /\ arg \in [Threads -> Sizes \cup Data \cup {None}]

LinksOf(f)    == {<<l[2], l[3]>> : l \in {k \in links : k[1] = f}}
NamedBy(f)    == {<<i, meta[f].blocks[i]>> : i \in 1 .. Len(meta[f].blocks)}

\* Whenever no operation holds a File:Tag, its directory of links and the BLOCKS list of its
\* metadata say the same, though every operation changes them one after the other.
MetadataMatchesLinks ==
    up => \A f \in FileTags :
        lock[f] = None => LinksOf(f) = IF Exists(f) THEN NamedBy(f) ELSE {}

\* No block is lost: a block marked in the bitmap has a link, or was just reserved by a WRITE
\* that is about to link it.
NoBlockLost ==
    up => \A b \in used \ {0} :
        \/ \E l \in links : l[3] = b
        \/ \E t \in Threads : pc[t] \in {"write", "commit_link"}
              /\ b \in {blk[t], md[t].blocks[pos[t]]}

\* A File:Tag never has fewer blocks than the size the workers are told (INFO_FILE_TAG).
SizeIsBacked ==
    up => \A f \in FileTags :
        lock[f] = None /\ Exists(f) => meta[f].size \div BlockSize <= Len(meta[f].blocks)

\* No link leads to a block the bitmap offers to somebody else (a COMMIT under way may free
\* a block before it has moved the last of its own links to it).
LinkedIsUsed ==
    up => \A l \in links : l[3] \in used \/ lock[l[1]] # None

\* The index of hashes tells the truth: the block it names for a content has it and is in use.
HashIndexIsTrue ==
    up => \A d \in Data : hashes[d] # None =>
        content[hashes[d]] = d /\ hashes[d] \in used

\* COMMIT and DELETE hash a block through the link of the File:Tag and do not check that
\* fopen found it: the link of every block they still have to visit is there.
HashedLinkExists ==
    \A t \in Threads :
        InCommit(t) \/ InDelete(t) =>
            \A i \in pos[t] .. Len(md[t].blocks) : Linked(file[t], i)

\* What a File:Tag contains, as a reader sees it.
DataOf(f) == [i \in 1 .. Len(meta[f].blocks) |-> content[meta[f].blocks[i]]]
Committed(f) == Exists(f) /\ meta[f].committed

\* After COMMIT no more changes are made to a File:Tag (interpreter.h, execute_commit).
CommittedIsFrozen ==
    [][\A f \in FileTags : Committed(f) /\ Exists(f)' => Committed(f)' /\ DataOf(f)' = DataOf(f)]_vars

\* find_free_block gives WRITE a block nobody uses ("Busca el primer bloque libre").
ReservedIsFree ==
    [][\A t \in Threads : pc'[t] = "write" /\ pc[t] # "write" =>
           \A l \in links : l[3] # blk'[t]]_vars

\* The contents of the disk through the metadata.
files == [f \in FileTags |->
            IF Exists(f) THEN [data |-> DataOf(f), size |-> meta[f].size \div BlockSize,
                               committed |-> meta[f].committed]
            ELSE None]

Abstract == INSTANCE FileStore WITH NoFile <- None, files <- files

\* The promise: what a FileStore with the same requests can do, and nothing else.  A storage
\* that dies may leave metadata that name a block the disk does not have.
ImplementsFileStore ==
    /\ Abstract!Init
    /\ [][up' => UNCHANGED files \/ Abstract!Next]_vars
=============================================================================
