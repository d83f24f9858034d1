-------------------------- MODULE StorageFSRefines --------------------------
(***************************************************************************)
(* What the storage keeps for one worker at a time, for any File:Tags,     *)
(* contents and disk, as long as neither of the two faults of CleanSpec    *)
(* strikes: the bitmap and the index of hashes are true, what is committed *)
(* stays, and every step is one of FileStore.                              *)
(***************************************************************************)
EXTENDS StorageFSProofs

OneWorker == \A s, t \in Threads : s = t

HashesTrue ==
    \A d \in Data : hashes[d] # None => content[hashes[d]] = d /\ hashes[d] \in used

\* A link that a COMMIT has yet to move: its block was freed with an earlier link of the File:Tag.
Moves(t, l) ==
    /\ pc[t] \in {"commit", "commit_found", "commit_link"} /\ l[1] = file[t] /\ l[2] >= pos[t]
    /\ hashes[content[l[3]]] \notin {None, l[3]}
LinksUsed == \A l \in links : l[3] \in used \/ \E t \in Threads : Moves(t, l)

\* What an operation has read of the disk and nobody has changed since.
Remembers(t) ==
    /\ pc[t] \in {"write", "commit", "commit_found", "commit_link", "delete"} => meta[file[t]] = md[t]
    /\ pc[t] = "truncate" =>
         /\ ~meta[file[t]].committed /\ ~md[t].committed
         /\ pos[t] <= Len(meta[file[t]].blocks)
         /\ \A i \in 1 .. pos[t] : md[t].blocks[i] = meta[file[t]].blocks[i]
    /\ pc[t] = "delete" => file[t] # Base
    /\ pc[t] = "tag_copy" =>
         Exists(source[t]) /\ md[t] = [meta[source[t]] EXCEPT !.committed = FALSE]
    /\ pc[t] \in {"tag_copy", "tag_link"} =>
         \A i \in 1 .. Len(md[t].blocks) : md[t].blocks[i] \in used

\* The block a WRITE has reserved belongs to nobody.
Reserves(t) ==
    pc[t] = "write" =>
        /\ ~md[t].committed /\ pos[t] <= MaxLen /\ blk[t] \in used \ {0}
        /\ \A l \in links : l[3] # blk[t]
        /\ \A d \in Data : hashes[d] # blk[t]

\* A COMMIT leaves behind it blocks that the index names for their content.
Hashes(t) ==
    /\ pc[t] \in {"commit", "commit_found", "commit_link"} =>
         \A i \in 1 .. Len(md[t].blocks) :
            i < pos[t] => hashes[content[md[t].blocks[i]]] = md[t].blocks[i]
    /\ pc[t] \in {"commit_found", "commit_link"} =>
         blk[t] # None /\ hashes[content[md[t].blocks[pos[t]]]] = blk[t]
    /\ pc[t] = "commit_link" => blk[t] # md[t].blocks[pos[t]]

\* Block 0 is the block of zeros of every File:Tag that grows.
ZeroBlock == 0 \in used /\ content[0] = Zero

Store ==
    /\ IsFiniteSet(links) /\ ZeroBlock /\ HashesTrue /\ LinksUsed
    /\ \A t \in Threads : Remembers(t) /\ Reserves(t) /\ Hashes(t)

Good == OneWorker /\ TypeOK /\ Right /\ Store

-----------------------------------------------------------------------------
(* Facts about links.                                                      *)

LEMMA LinkFields ==
  ASSUME TypeOK, NEW l \in links
  PROVE  l[1] \in FileTags /\ l[2] \in Ids /\ l[3] \in Blocks /\ l = <<l[1], l[2], l[3]>>
BY DEF TypeOK, Ids

LEMMA HasFields ==
  ASSUME NEW f, NEW i, NEW b
  PROVE  <<f, i, b>>[1] = f /\ <<f, i, b>>[2] = i /\ <<f, i, b>>[3] = b
OBVIOUS

\* A block that TRUNCATE or DELETE frees has no link.
LEMMA OrphanAlone ==
  ASSUME NEW ls, IsFiniteSet(ls), NEW b, Orphan(ls, b)
  PROVE  b # 0 /\ \A l \in ls : l[3] # b
<1> DEFINE S == {l \in ls : l[3] = b}
<1>1. IsFiniteSet(S)
  BY FS_Subset
<1>2. b # 0 /\ 1 + Cardinality(S) < 2
  BY DEF Orphan, NLink
<1>3. Cardinality(S) \in Nat
  BY <1>1, FS_CardinalityType
<1>4. Cardinality(S) = 0
  BY <1>2, <1>3
<1>5. S = {}
  BY <1>1, <1>4, FS_EmptySet
<1> QED BY <1>2, <1>5

\* A block that WRITE changes in place has one link.
LEMMA InPlaceAlone ==
  ASSUME IsFiniteSet(links), NEW b, ~Shared(b), NEW l \in links, l[3] = b
  PROVE  b # 0 /\ \A k \in links : k[3] = b => k = l
<1> DEFINE S == {k \in links : k[3] = b}
<1>1. IsFiniteSet(S) /\ l \in S
  BY FS_Subset
<1>2. b # 0 /\ ~(1 + Cardinality(S) > 2)
  BY DEF Shared, NLink
<1> HIDE DEF S
<1>3. Cardinality(S) \in Nat
  BY <1>1, FS_CardinalityType
<1>4. ASSUME NEW k \in S, k # l PROVE FALSE
  <2>1. IsFiniteSet({l}) /\ Cardinality({l}) = 1
    BY FS_Singleton
  <2>2. Cardinality({l} \cup {k}) = 2
    <3>1. k \notin {l}
      BY <1>4
    <3>2. Cardinality({l} \cup {k}) = Cardinality({l}) + 1
      BY <2>1, <3>1, FS_AddElement
    <3> QED BY <2>1, <3>2
  <2>3. Cardinality({l} \cup {k}) <= Cardinality(S)
    BY <1>1, <1>4, FS_Subset
  <2> QED BY <1>2, <1>3, <2>2, <2>3
<1> QED BY <1>2, <1>4 DEF S

\* The link that is followed is the one there is.
LEMMA TargetIs ==
  ASSUME TypeOK, NEW f \in FileTags, NEW i \in Ids, NEW b \in Blocks, Has(f, i, b),
         \A c \in Blocks : Has(f, i, c) => c = b
  PROVE  Target(f, i) = b /\ ContentOf(f, i) = content[b]
<1>1. \E l \in links : l[1] = f /\ l[2] = i
  BY DEF Has
<1>2. \A l \in links : l[1] = f /\ l[2] = i => l[3] = b
  BY LinkFields DEF Has
<1> DEFINE k == CHOOSE l \in links : l[1] = f /\ l[2] = i
<1>3. k \in links /\ k[1] = f /\ k[2] = i
  BY <1>1
<1>4. k[3] = b
  BY <1>2, <1>3
<1> QED BY <1>4 DEF Target, ContentOf

\* Growing adds finitely many links.
LEMMA FewNewLinks ==
  ASSUME NEW f, NEW m \in Nat, NEW n \in Nat
  PROVE  IsFiniteSet(NewLinks(f, m + 1, n))
<1> DEFINE S == {j \in m + 1 .. n : ~Linked(f, j)}
           T == {<<f, i, 0>> : i \in S}
           g == [i \in S |-> <<f, i, 0>>]
<1>1. IsFiniteSet(m + 1 .. n)
  BY FS_Interval
<1>2. IsFiniteSet(S)
  BY <1>1, FS_Subset
<1>3. g \in Surjection(S, T)
  BY DEF Surjection
<1>4. IsFiniteSet(T)
  <2> HIDE DEF S, T, g
  <2> QED BY <1>2, <1>3, FS_Surjection
<1> QED BY <1>4 DEF NewLinks

-----------------------------------------------------------------------------
(* Facts about one worker.                                                 *)

LEMMA OthersAreFree ==
  ASSUME Good, NEW t \in Threads, NEW f \in FileTags, pc[t] \notin Holding \/ f # file[t]
  PROVE  lock[f] = None /\ LinksMatch(f) /\ (Exists(f) => meta[f].blocks \in Seq(Blocks))
<1>1. lock[f] = None
  BY DEF Good, OneWorker, Right, HeldRight, HeldBy
<1> QED BY <1>1 DEF Good, Right, FreeRight, BlocksOK

\* Outside a COMMIT every link leads to a used block.
LEMMA AllUsed ==
  ASSUME Good, NEW t \in Threads, pc[t] \notin {"commit", "commit_found", "commit_link"}
  PROVE  \A l \in links : l[3] \in used
BY DEF Good, OneWorker, Store, LinksUsed, Moves

\* The blocks of a File:Tag nobody holds are linked.
LEMMA BlocksLinked ==
  ASSUME TypeOK, NEW f \in FileTags, Exists(f), LinksMatch(f), meta[f].blocks \in Seq(Blocks)
  PROVE  \A i \in 1 .. Len(meta[f].blocks) :
            /\ i \in Ids /\ meta[f].blocks[i] \in Blocks
            /\ <<f, i, meta[f].blocks[i]>> \in links
<1> SUFFICES ASSUME NEW i \in 1 .. Len(meta[f].blocks)
             PROVE  /\ i \in Ids /\ meta[f].blocks[i] \in Blocks
                    /\ <<f, i, meta[f].blocks[i]>> \in links
  OBVIOUS
<1>1. i \in Ids /\ meta[f].blocks[i] \in Blocks
  BY LenProperties, ElementOfSeq DEF Ids
<1> QED BY <1>1 DEF LinksMatch, Has

\* A step after which the worker is idle, or has only read.
LEMMA Rests ==
  ASSUME OneWorker, NEW t \in Threads, pc'[t] \in {"idle", "read", "tag_source"},
         IsFiniteSet(links'), ZeroBlock', HashesTrue', \A l \in links' : l[3] \in used'
  PROVE  Store'
BY DEF OneWorker, Store, LinksUsed, Remembers, Reserves, Hashes

LEMMA SameDisk ==
  ASSUME Good, UNCHANGED <<links, content, used, hashes>>
  PROVE  IsFiniteSet(links') /\ ZeroBlock' /\ HashesTrue'
BY DEF Good, Store, ZeroBlock, HashesTrue

LEMMA StoreParts ==
  ASSUME OneWorker, NEW t \in Threads, IsFiniteSet(links'), ZeroBlock', HashesTrue',
         \A l \in links' : l[3] \in used' \/ Moves(t, l)',
         Remembers(t)', Reserves(t)', Hashes(t)'
  PROVE  Store'
BY DEF OneWorker, Store, LinksUsed

-----------------------------------------------------------------------------
(* Each action keeps Store.                                                *)

\* The steps that leave the disk but the metadata alone.
LEMMA RestsOnDisk ==
  ASSUME Good, NEW t \in Threads, pc[t] \notin {"commit", "commit_found", "commit_link"},
         pc'[t] \in {"idle", "read", "tag_source"}, UNCHANGED <<links, content, used, hashes>>
  PROVE  Store'
<1>1. \A l \in links' : l[3] \in used'
  BY AllUsed
<1> QED BY <1>1, SameDisk, Rests DEF Good

LEMMA TruncateGrowStore ==
  ASSUME Good, NEW t \in Threads, NEW f \in FileTags, NEW n \in Sizes, TruncateGrow(t, f, n)
  PROVE  Store'
<1>1. /\ pc[t] = "idle" /\ pc'[t] = "idle" /\ Exists(f) /\ UNCHANGED <<content, used, hashes>>
      /\ links' = links \cup NewLinks(f, Len(meta[f].blocks) + 1, n \div BlockSize)
  BY DEF TruncateGrow, Opened, Ready, local
<1>2. Len(meta[f].blocks) \in Nat /\ n \div BlockSize \in Nat
  <2>1. meta[f].blocks \in Seq(Blocks)
    BY <1>1 DEF Good, Right, BlocksOK
  <2>2. n \in Nat
    BY Constants
  <2> QED BY <2>1, <2>2, LenProperties, SizeInBlocks
<1>3. IsFiniteSet(links')
  BY <1>1, <1>2, FewNewLinks, FS_Union DEF Good, Store
<1>4. \A l \in NewLinks(f, Len(meta[f].blocks) + 1, n \div BlockSize) : l[3] = 0
  BY DEF NewLinks
<1>5. \A l \in links' : l[3] \in used'
  BY <1>1, <1>4, AllUsed DEF Good, Store, ZeroBlock
<1> QED BY <1>1, <1>3, <1>5, Rests DEF Good, Store, ZeroBlock, HashesTrue

LEMMA WriteInPlaceStore ==
  ASSUME Good, NEW t \in Threads, NEW f \in FileTags, NEW i \in 1 .. MaxLen, NEW d \in Data,
         WriteInPlace(t, f, i, d), ~LeavesStaleHash(t)
  PROVE  Store'
<1>1. /\ pc[t] = "idle" /\ pc'[t] = "idle" /\ UNCHANGED <<links, used, hashes>>
      /\ content' = [content EXCEPT ![meta[f].blocks[i]] = d] /\ meta[f].blocks[i] # 0
  BY DEF WriteInPlace, OpenedBlock, Opened, Ready, Shared, local
<1>2. ZeroBlock'
  BY <1>1, Constants DEF Good, Store, ZeroBlock, TypeOK
<1>3. HashesTrue'
  BY <1>1 DEF LeavesStaleHash, Good, Store, HashesTrue
<1>4. IsFiniteSet(links') /\ \A l \in links' : l[3] \in used'
  BY <1>1, AllUsed DEF Good, Store
<1> QED BY <1>1, <1>2, <1>3, <1>4, Rests DEF Good

LEMMA WriteReserveStore ==
  ASSUME Good, NEW t \in Threads, NEW f \in FileTags, NEW i \in 1 .. MaxLen, NEW d \in Data,
         WriteReserve(t, f, i, d)
  PROVE  Store'
<1>1. /\ pc[t] = "idle" /\ Exists(f) /\ ~meta[f].committed /\ UNCHANGED <<meta, content, hashes>>
      /\ links' = Unlink(f, i)
  BY DEF WriteReserve, OpenedBlock, Opened, Ready, Writable
<1>2. PICK b \in Blocks : /\ b # 0 /\ b \notin used /\ used' = used \cup {b}
                          /\ Begin(t, f, "write", i, b, d)
  BY DEF WriteReserve, FirstFree, FreeBits
<1>3. i \in Nat /\ i <= MaxLen
  BY FSAssumption
<1>4. pc'[t] = "write" /\ file'[t] = f /\ md'[t] = meta[f] /\ pos'[t] = i /\ blk'[t] = b
  BY <1>1, <1>2, <1>3, Begun DEF Good, PCs
<1>5. links' \subseteq links /\ IsFiniteSet(links')
  BY <1>1, FS_Subset DEF Unlink, Good, Store
<1>6. \A l \in links : l[3] \in used
  BY <1>1, AllUsed
<1>7. \A e \in Data : hashes[e] # None => hashes[e] \in used
  BY DEF Good, Store, HashesTrue
<1>8. ZeroBlock' /\ HashesTrue'
  BY <1>1, <1>2 DEF Good, Store, ZeroBlock, HashesTrue
<1>9. Reserves(t)'
  <2>1. \A l \in links' : l[3] # b
    BY <1>2, <1>5, <1>6
  <2>2. \A e \in Data : hashes[e] # b
    BY <1>2, <1>7, Constants DEF Blocks
  <2> QED BY <1>1, <1>2, <1>3, <1>4, <2>1, <2>2 DEF Reserves
<1>10. Remembers(t)' /\ Hashes(t)'
  BY <1>1, <1>4 DEF Remembers, Hashes
<1> QED BY <1>2, <1>5, <1>6, <1>8, <1>9, <1>10, StoreParts DEF Good

\* An operation that takes a File:Tag and its metadata.
LEMMA BeginStore ==
  ASSUME Good, NEW t \in Threads, NEW f \in FileTags,
         TypeOK', UNCHANGED disk, Exists(f), pc[t] = "idle",
         pc'[t] \in {"truncate", "commit", "delete"},
         file'[t] = f, md'[t] = meta[f],
         pc'[t] = "truncate" => ~meta[f].committed /\ pos'[t] = Len(meta[f].blocks),
         pc'[t] = "commit" => pos'[t] = 1,
         pc'[t] = "delete" => f # Base
  PROVE  Store'
<1>1. UNCHANGED <<meta, links, content, used, hashes>>
  BY DEF disk
<1>2. \A l \in links' : l[3] \in used'
  BY <1>1, AllUsed
<1>3. Remembers(t)'
  <2>1. Len(meta[f].blocks) \in Nat
    BY LenProperties DEF Good, TypeOK, Exists, File
  <2> QED BY <1>1, <2>1 DEF Remembers
<1>4. Reserves(t)' /\ Hashes(t)'
  BY DEF Reserves, Hashes
<1> QED BY <1>1, <1>2, <1>3, <1>4, SameDisk, StoreParts DEF Good

\* The link that an operation has at the logical block it looks at.
LEMMA LinkAtPos ==
  ASSUME Good, NEW t \in Threads, pc[t] \in {"commit", "commit_found", "delete"},
         pos[t] <= Len(md[t].blocks)
  PROVE  LET b == md[t].blocks[pos[t]]
         IN  /\ pos[t] \in 1 .. Len(md[t].blocks) /\ b \in Blocks /\ file[t] \in FileTags
             /\ <<file[t], pos[t], b>> \in links
             /\ \A l \in links : l[1] = file[t] /\ l[2] = pos[t] => l[3] = b
             /\ ContentOf(file[t], pos[t]) = content[b]
<1> PICK f \in FileTags : f = file[t] /\ LinksKept(t) /\ OpLocals(t) /\ md[t].blocks \in Seq(Blocks)
  BY Continues DEF Good, Holding
<1>1. pos[t] \in 1 .. Len(md[t].blocks) /\ pos[t] \in Ids
  BY LenProperties DEF OpLocals, Ids
<1> DEFINE b == md[t].blocks[pos[t]]
<1>2. b \in Blocks
  BY <1>1, ElementOfSeq
<1>3. pos[t] \in Keeps(t)
  BY <1>1, LenProperties DEF Keeps
<1>4. Has(f, pos[t], b) /\ \A c \in Blocks : Has(f, pos[t], c) => c = b
  BY <1>1, <1>2, <1>3 DEF LinksKept
<1>5. \A l \in links : l[1] = f /\ l[2] = pos[t] => l[3] = b
  BY <1>4, LinkFields DEF Has, Good
<1>6. ContentOf(f, pos[t]) = content[b]
  BY <1>1, <1>2, <1>4, TargetIs DEF Good
<1> QED BY <1>1, <1>2, <1>4, <1>5, <1>6 DEF Has

\* A logical block that a COMMIT has passed, or that is not its own, is not the one it moves.
LEMMA LinkInCommit ==
  ASSUME Good, NEW t \in Threads, pc[t] \in {"commit", "commit_found", "commit_link"}, NEW l \in links,
         l[1] = file[t]
  PROVE  /\ l[2] \in 1 .. Len(md[t].blocks) /\ l[3] = md[t].blocks[l[2]]
         /\ pc[t] = "commit_link" => l[2] # pos[t]
<1> PICK f \in FileTags : f = file[t] /\ LinksKept(t) /\ md[t].blocks \in Seq(Blocks)
  BY Continues DEF Good, Holding
<1>1. l[2] \in Ids /\ l[3] \in Blocks /\ Has(f, l[2], l[3])
  BY LinkFields DEF Good, Has
<1>2. l[2] \in Keeps(t) /\ l[3] = md[t].blocks[l[2]]
  BY <1>1 DEF LinksKept
<1> QED BY <1>2 DEF Keeps

LEMMA TruncateBlockStore ==
  ASSUME Good, NEW t \in Threads, TruncateBlock(t), ~LeavesStaleHash(t)
  PROVE  Store'
<1> DEFINE b == md[t].blocks[pos[t]]
<1>1. /\ pc[t] = "truncate" /\ pos[t] > arg[t] \div BlockSize
      /\ links' = Unlink(file[t], pos[t])
      /\ used' = IF Orphan(links', b) THEN used \ {b} ELSE used
      /\ UNCHANGED <<meta, content, hashes, pc, file>>
  BY DEF TruncateBlock
<1>2. /\ md'[t] = [md[t] EXCEPT !.blocks = SubSeq(md[t].blocks, 1, pos[t] - 1)]
      /\ pos'[t] = pos[t] - 1
  BY DEF TruncateBlock, Good, TypeOK
<1> HIDE DEF b
<1>3. links' \subseteq links /\ IsFiniteSet(links')
  BY <1>1, FS_Subset DEF Unlink, Good, Store
<1>4. Orphan(links', b) => b # 0 /\ \A l \in links' : l[3] # b
  BY <1>3, OrphanAlone
<1>5. \A l \in links' : l[3] \in used'
  BY <1>1, <1>3, <1>4, AllUsed
<1>6. ZeroBlock'
  BY <1>1, <1>4 DEF Good, Store, ZeroBlock
<1>7. HashesTrue'
  BY <1>1 DEF LeavesStaleHash, Good, Store, HashesTrue
<1>8. Remembers(t)'
  <2>1. /\ OpLocals(t) /\ md[t] \in File /\ md[t].blocks \in Seq(Bits)
        /\ arg[t] \in Nat /\ Remembers(t)
    BY <1>1, Constants DEF Good, Right, OpLocals, TypeOK, File, Store
  <2>2. arg[t] \div BlockSize \in Nat /\ pos[t] \in Nat /\ Len(md[t].blocks) = pos[t]
    BY <1>1, <2>1, SizeInBlocks DEF OpLocals, Good, TypeOK
  <2>3. pos[t] - 1 \in Nat
    BY <1>1, <2>2
  <2>4. md'[t].committed = md[t].committed /\ md'[t].blocks = SubSeq(md[t].blocks, 1, pos[t] - 1)
    BY <1>2, <2>1 DEF File
  <2>5. \A i \in 1 .. pos[t] - 1 : SubSeq(md[t].blocks, 1, pos[t] - 1)[i] = md[t].blocks[i]
    <3>1. \A i \in 1 .. pos[t] - 1 : md[t].blocks[i] \in Bits
      BY <2>1, <2>2, ElementOfSeq
    <3>2. \A i \in 1 .. (pos[t] - 1) - 1 + 1 :
             SubSeq(md[t].blocks, 1, pos[t] - 1)[i] = md[t].blocks[1 + i - 1]
      BY <2>3, <3>1, SubSeqProperties
    <3> QED BY <2>3, <3>2
  <2>6. /\ ~meta[file[t]].committed /\ ~md[t].committed
        /\ pos[t] <= Len(meta[file[t]].blocks)
        /\ \A i \in 1 .. pos[t] : md[t].blocks[i] = meta[file[t]].blocks[i]
    BY <1>1, <2>1 DEF Remembers
  <2>7. Len(meta[file[t]].blocks) \in Nat
    <3>1. file[t] \in FileTags /\ Exists(file[t])
      BY <1>1, Continues DEF Good, Holding
    <3> QED BY <3>1, LenProperties DEF Good, TypeOK, Exists, File
  <2>8. \A i \in 1 .. pos[t] - 1 : i \in 1 .. pos[t]
    BY <2>2
  <2>9. \A i \in 1 .. pos[t] - 1 : md'[t].blocks[i] = meta[file[t]].blocks[i]
    BY <2>4, <2>5, <2>6, <2>8
  <2>10. ~md'[t].committed /\ pos'[t] <= Len(meta[file[t]].blocks)
    BY <1>2, <2>2, <2>4, <2>6, <2>7
  <2> QED BY <1>1, <1>2, <2>6, <2>9, <2>10 DEF Remembers
<1>9. Reserves(t)' /\ Hashes(t)'
  BY <1>1 DEF Reserves, Hashes
<1> QED BY <1>3, <1>5, <1>6, <1>7, <1>8, <1>9, StoreParts DEF Good

LEMMA WriteLinkStore ==
  ASSUME Good, NEW t \in Threads, WriteLink(t)
  PROVE  Store'
<1>1. /\ pc[t] = "write" /\ pc'[t] = "idle" /\ UNCHANGED <<used, hashes>>
      /\ links' = Link(file[t], pos[t], blk[t])
      /\ content' = [content EXCEPT ![blk[t]] = arg[t]]
  BY Ended DEF WriteLink, Good
<1>2. blk[t] \in used /\ blk[t] # 0 /\ \A d \in Data : hashes[d] # blk[t]
  BY <1>1 DEF Good, Store, Reserves
<1>3. links' \subseteq links \cup {<<file[t], pos[t], blk[t]>>}
  BY <1>1 DEF Link
<1>4. IsFiniteSet(links \cup {<<file[t], pos[t], blk[t]>>})
  BY FS_AddElement DEF Good, Store
<1>5. IsFiniteSet(links')
  BY <1>3, <1>4, FS_Subset
<1>6. \A l \in links' : l[3] \in used'
  BY <1>1, <1>2, <1>3, AllUsed, HasFields
<1>7. ZeroBlock' /\ HashesTrue'
  BY <1>1, <1>2 DEF Good, Store, ZeroBlock, HashesTrue, TypeOK
<1> QED BY <1>1, <1>5, <1>6, <1>7, Rests DEF Good

LEMMA CommitKeepStore ==
  ASSUME Good, NEW t \in Threads, CommitKeep(t)
  PROVE  Store'
<1> DEFINE b == md[t].blocks[pos[t]]
           h == content[b]
<1>1. /\ pc[t] = "commit" /\ pos[t] <= Len(md[t].blocks)
      /\ UNCHANGED <<meta, links, content, used, pc, file, md, blk>> /\ pos'[t] = pos[t] + 1
  BY DEF CommitKeep, InCommit, Good, TypeOK
<1>2. /\ pos[t] \in 1 .. Len(md[t].blocks) /\ b \in Blocks /\ <<file[t], pos[t], b>> \in links
      /\ \A l \in links : l[1] = file[t] /\ l[2] = pos[t] => l[3] = b
      /\ ContentOf(file[t], pos[t]) = h
  BY <1>1, LinkAtPos
<1>3. h \in Data /\ pos[t] \in Nat
  BY <1>2 DEF Good, TypeOK
<1>4. hashes[h] = None /\ hashes' = [hashes EXCEPT ![h] = b]
  BY <1>2 DEF CommitKeep, LoadHash
<1> HIDE DEF b, h
<1>5. b # None
  BY <1>2, Constants DEF Blocks
<1>6. b \in used
  BY <1>2, <1>4, HasFields DEF Good, OneWorker, Store, LinksUsed, Moves, h
<1>7. hashes'[h] = b /\ \A d \in Data \ {h} : hashes'[d] = hashes[d]
  BY <1>3, <1>4 DEF Good, TypeOK
<1>8. IsFiniteSet(links') /\ ZeroBlock'
  BY <1>1 DEF Good, Store, ZeroBlock
<1>9. HashesTrue'
  BY <1>1, <1>6, <1>7 DEF Good, Store, HashesTrue, h
<1>10. ASSUME NEW l \in links' PROVE l[3] \in used' \/ Moves(t, l)'
  <2> l \in links
    BY <1>1
  <2>1. CASE l[3] \in used
    BY <1>1, <2>1
  <2>2. CASE Moves(t, l) /\ l[3] \notin used
    <3>1. l[1] = file[t] /\ l[2] >= pos[t] /\ hashes[content[l[3]]] \notin {None, l[3]}
      BY <2>2 DEF Moves
    <3>2. l[2] # pos[t]
      BY <1>2, <1>6, <2>2, <3>1
    <3>3. l[2] >= pos[t] + 1
      BY <1>3, <3>1, <3>2, LinkFields DEF Good, Ids
    <3>4. hashes'[content[l[3]]] \notin {None, l[3]}
      <4>1. content[l[3]] \in Data
        BY LinkFields DEF Good, TypeOK
      <4> QED BY <1>4, <1>5, <1>7, <3>1, <4>1
    <3> QED BY <1>1, <3>1, <3>3, <3>4 DEF Moves
  <2> QED BY <2>1, <2>2 DEF Good, OneWorker, Store, LinksUsed
<1>11. Hashes(t)'
  <2> SUFFICES ASSUME NEW i \in 1 .. Len(md[t].blocks), i < pos[t] + 1
               PROVE  hashes'[content[md[t].blocks[i]]] = md[t].blocks[i]
    BY <1>1 DEF Hashes
  <2>1. CASE i = pos[t]
    BY <1>7, <2>1 DEF h, b
  <2>2. CASE i # pos[t]
    <3>1. i < pos[t]
      BY <1>3, <2>2, LenProperties
    <3>2. hashes[content[md[t].blocks[i]]] = md[t].blocks[i]
      BY <1>1, <3>1 DEF Good, Store, Hashes
    <3>3. md[t].blocks[i] \in Blocks
      BY ElementOfSeq DEF Good, Right, BlocksOK
    <3>4. content[md[t].blocks[i]] \in Data /\ md[t].blocks[i] # None
      BY <3>3, Constants DEF Good, TypeOK, Blocks
    <3> QED BY <1>4, <1>7, <3>2, <3>4
  <2> QED BY <2>1, <2>2
<1>12. Remembers(t)' /\ Reserves(t)'
  BY <1>1 DEF Good, Store, Remembers, Reserves
<1> QED BY <1>8, <1>9, <1>10, <1>11, <1>12, StoreParts DEF Good

\* A COMMIT that finds the content in the index, and keeps its own block or leaves its link.
LEMMA CommitFoundStore ==
  ASSUME Good, NEW t \in Threads, CommitFound(t)
  PROVE  Store'
<1> DEFINE b == md[t].blocks[pos[t]]
<1>1. /\ pc[t] = "commit" /\ pc'[t] = "commit_found" /\ pos[t] <= Len(md[t].blocks)
      /\ UNCHANGED <<meta, links, content, used, hashes, file, md, pos>>
  BY DEF CommitFound, InCommit, disk, Good, TypeOK
<1>2. ContentOf(file[t], pos[t]) = content[b]
  BY <1>1, LinkAtPos
<1>3. blk'[t] = hashes[content[b]] /\ hashes[content[b]] # None
  BY <1>2 DEF CommitFound, Good, TypeOK
<1> HIDE DEF b
<1>4. IsFiniteSet(links') /\ ZeroBlock' /\ HashesTrue'
  BY <1>1, SameDisk
<1>5. ASSUME NEW l \in links' PROVE l[3] \in used' \/ Moves(t, l)'
  <2>1. Moves(t, l) => Moves(t, l)'
    BY <1>1 DEF Moves
  <2> QED BY <1>1, <2>1 DEF Good, OneWorker, Store, LinksUsed
<1>6. Hashes(t)'
  BY <1>1, <1>3 DEF Good, Store, Hashes, b
<1>7. Remembers(t)' /\ Reserves(t)'
  BY <1>1 DEF Good, Store, Remembers, Reserves
<1> QED BY <1>4, <1>5, <1>6, <1>7, StoreParts DEF Good

\* What a COMMIT has found of the block it looks at.
LEMMA Found ==
  ASSUME Good, NEW t \in Threads, pc[t] = "commit_found"
  PROVE  LET b == md[t].blocks[pos[t]]
         IN  /\ pos[t] \in 1 .. Len(md[t].blocks) /\ b \in Blocks
             /\ \A l \in links : l[1] = file[t] /\ l[2] = pos[t] => l[3] = b
             /\ blk[t] # None /\ hashes[content[b]] = blk[t]
<1>1. pos[t] \in 1 .. Len(md[t].blocks) /\ md[t].blocks \in Seq(Blocks)
  BY Continues DEF Good, Holding, OpLocals
<1>2. pos[t] <= Len(md[t].blocks)
  BY <1>1, LenProperties
<1> QED BY <1>1, <1>2, LinkAtPos DEF Good, Store, Hashes

LEMMA CommitSameStore ==
  ASSUME Good, NEW t \in Threads, CommitSame(t)
  PROVE  Store'
<1> DEFINE b == md[t].blocks[pos[t]]
<1>1. /\ pc[t] = "commit_found" /\ pc'[t] = "commit" /\ pos'[t] = pos[t] + 1 /\ blk[t] = b
      /\ UNCHANGED <<meta, links, content, used, hashes, file, md>>
  BY NextBlock DEF CommitSame, disk, Good, TypeOK
<1>2. /\ pos[t] \in 1 .. Len(md[t].blocks) /\ b \in Blocks /\ hashes[content[b]] = b
      /\ \A l \in links : l[1] = file[t] /\ l[2] = pos[t] => l[3] = b
  BY <1>1, Found
<1>3. pos[t] \in Nat
  BY DEF Good, TypeOK
<1>4. IsFiniteSet(links') /\ ZeroBlock' /\ HashesTrue'
  BY <1>1, SameDisk
<1>5. ASSUME NEW l \in links' PROVE l[3] \in used' \/ Moves(t, l)'
  <2>1. l \in links /\ (l[3] \in used \/ Moves(t, l))
    BY <1>1 DEF Good, OneWorker, Store, LinksUsed
  <2>2. ASSUME Moves(t, l) PROVE Moves(t, l)'
    <3>1. l[1] = file[t] /\ l[2] >= pos[t] /\ hashes[content[l[3]]] \notin {None, l[3]}
      BY <2>2 DEF Moves
    <3>2. l[2] # pos[t]
      BY <1>2, <2>1, <3>1
    <3>3. l[2] >= pos[t] + 1
      BY <1>3, <2>1, <3>1, <3>2, LinkFields DEF Good, Ids
    <3> QED BY <1>1, <3>1, <3>3 DEF Moves
  <2> QED BY <1>1, <2>1, <2>2
<1>6. Hashes(t)'
  <2> SUFFICES ASSUME NEW i \in 1 .. Len(md[t].blocks), i < pos[t] + 1
               PROVE  hashes[content[md[t].blocks[i]]] = md[t].blocks[i]
    BY <1>1 DEF Hashes
  <2>1. i = pos[t] \/ i < pos[t]
    BY <1>3, LenProperties
  <2> QED BY <1>1, <1>2, <2>1 DEF Good, Store, Hashes
<1>7. Remembers(t)' /\ Reserves(t)'
  BY <1>1 DEF Good, Store, Remembers, Reserves
<1> QED BY <1>4, <1>5, <1>6, <1>7, StoreParts DEF Good

LEMMA CommitUnlinkStore ==
  ASSUME Good, NEW t \in Threads, CommitUnlink(t)
  PROVE  Store'
<1>1. /\ pc[t] = "commit_found" /\ pc'[t] = "commit_link" /\ blk[t] # md[t].blocks[pos[t]]
      /\ links' = Unlink(file[t], pos[t])
      /\ UNCHANGED <<meta, content, used, hashes, file, md, pos, blk>>
  BY DEF CommitUnlink, Good, TypeOK
<1>4. links' \subseteq links /\ IsFiniteSet(links')
  BY <1>1, FS_Subset DEF Unlink, Good, Store
<1>5. ZeroBlock' /\ HashesTrue'
  BY <1>1 DEF Good, Store, ZeroBlock, HashesTrue
<1>6. ASSUME NEW l \in links' PROVE l[3] \in used' \/ Moves(t, l)'
  <2>1. l[3] \in used \/ Moves(t, l)
    BY <1>4 DEF Good, OneWorker, Store, LinksUsed
  <2>2. Moves(t, l) => Moves(t, l)'
    BY <1>1 DEF Moves
  <2> QED BY <1>1, <2>1, <2>2
<1>7. Hashes(t)'
  BY <1>1 DEF Good, Store, Hashes
<1>8. Remembers(t)' /\ Reserves(t)'
  BY <1>1 DEF Good, Store, Remembers, Reserves
<1> QED BY <1>4, <1>5, <1>6, <1>7, <1>8, StoreParts DEF Good

\* With one worker nobody frees a string that a COMMIT reads.
LEMMA NeverFreed ==
  ASSUME Good, NEW t \in Threads
  PROVE  ~CommitFreed(t)
BY DEF CommitFreed, Good, Store, Hashes

\* What a COMMIT knows of the block it leaves and of the one it links instead.
LEMMA SameContent ==
  ASSUME Good, NEW t \in Threads, pc[t] = "commit_link"
  PROVE  LET old == md[t].blocks[pos[t]]
         IN  /\ pos[t] \in 1 .. Len(md[t].blocks) /\ old \in Blocks /\ file[t] \in FileTags
             /\ blk[t] # old /\ blk[t] \in used /\ blk[t] \in Blocks
             /\ hashes[content[old]] = blk[t] /\ content[blk[t]] = content[old]
             /\ \A d \in Data : hashes[d] = old => old = None
<1> DEFINE old == md[t].blocks[pos[t]]
<1>1. pos[t] \in 1 .. Len(md[t].blocks) /\ file[t] \in FileTags /\ md[t].blocks \in Seq(Blocks)
  BY Continues DEF Good, Holding, OpLocals
<1>2. old \in Blocks
  BY <1>1, ElementOfSeq
<1>3. blk[t] # old /\ hashes[content[old]] = blk[t] /\ blk[t] # None
  BY DEF Good, Store, Hashes
<1> HIDE DEF old
<1>4. content[old] \in Data /\ blk[t] \in Blocks /\ blk[t] # None
  BY <1>2, <1>3 DEF Good, TypeOK
<1>5. content[blk[t]] = content[old] /\ blk[t] \in used
  BY <1>3, <1>4 DEF Good, Store, HashesTrue
<1>6. ASSUME NEW d \in Data, hashes[d] = old, old # None PROVE FALSE
  BY <1>3, <1>6 DEF Good, Store, HashesTrue
<1> QED BY <1>1, <1>2, <1>3, <1>4, <1>5, <1>6 DEF old

LEMMA CommitLinkStore ==
  ASSUME Good, NEW t \in Threads, CommitLink(t), ~CommitFreesShared(t)
  PROVE  Store'
<1> DEFINE old == md[t].blocks[pos[t]]
           new == blk[t]
<1>1. /\ pc[t] = "commit_link" /\ pc'[t] = "commit" /\ pos'[t] = pos[t] + 1
      /\ links' = Link(file[t], pos[t], new)
      /\ used' = IF old # 0 THEN used \ {old} ELSE used
      /\ UNCHANGED <<content, hashes, file>>
  BY NextBlock DEF CommitLink, Reassign, Good, TypeOK
<1>2. /\ pos[t] \in 1 .. Len(md[t].blocks) /\ old \in Blocks /\ file[t] \in FileTags
      /\ new # old /\ new \in used /\ new \in Blocks
      /\ hashes[content[old]] = new /\ content[new] = content[old]
      /\ \A d \in Data : hashes[d] = old => old = None
  BY <1>1, SameContent
<1>3. pos[t] \in Nat /\ md[t] \in File
  BY DEF Good, TypeOK
<1>4. meta'[file[t]] = md'[t]
  BY <1>2 DEF CommitLink, Reassign, Good, TypeOK
<1>5. md'[t].blocks = [md[t].blocks EXCEPT ![pos[t]] = new]
  BY <1>3 DEF CommitLink, Reassign, Good, TypeOK, File
<1>6. /\ md'[t].blocks[pos[t]] = new /\ Len(md'[t].blocks) = Len(md[t].blocks)
      /\ \A i \in 1 .. Len(md[t].blocks) : i # pos[t] => md'[t].blocks[i] = md[t].blocks[i]
  <2>1. md[t].blocks \in Seq(Blocks)
    BY DEF Good, Right, BlocksOK
  <2> QED BY <1>2, <1>5, <2>1, ExceptSeq
<1> HIDE DEF old, new
<1>7. new # None
  BY <1>2, Constants DEF Blocks
<1>8. links' \subseteq links \cup {<<file[t], pos[t], new>>} /\ IsFiniteSet(links')
  <2>1. links' \subseteq links \cup {<<file[t], pos[t], new>>}
    BY <1>1 DEF Link
  <2>2. IsFiniteSet(links \cup {<<file[t], pos[t], new>>})
    BY FS_AddElement DEF Good, Store
  <2> QED BY <2>1, <2>2, FS_Subset
<1>9. ZeroBlock'
  BY <1>1 DEF Good, Store, ZeroBlock
<1>10. HashesTrue'
  BY <1>1, <1>2, <1>7, Constants DEF Good, Store, HashesTrue, Blocks
<1>11. ASSUME NEW l \in links, l[3] \notin used' PROVE Moves(t, l)'
  <2>1. l[3] \in Blocks /\ l[2] \in Nat
    BY LinkFields DEF Good, Ids
  <2>2. CASE l[3] \notin used
    <3>1. Moves(t, l)
      BY <2>2 DEF Good, OneWorker, Store, LinksUsed
    <3>2. l[1] = file[t] /\ l[2] >= pos[t] /\ hashes[content[l[3]]] \notin {None, l[3]}
      BY <3>1 DEF Moves
    <3>3. l[2] # pos[t]
      BY <1>1, <3>2, LinkInCommit
    <3>4. l[2] >= pos[t] + 1
      BY <1>3, <2>1, <3>2, <3>3
    <3> QED BY <1>1, <3>2, <3>4 DEF Moves
  <2>3. CASE l[3] \in used
    <3>1. l[3] = old /\ old # 0
      BY <1>1, <1>11, <2>3
    <3>2. l[1] = file[t]
      BY <1>1, <3>1 DEF CommitFreesShared, old
    <3>3. l[2] \in 1 .. Len(md[t].blocks) /\ l[3] = md[t].blocks[l[2]] /\ l[2] # pos[t]
      BY <1>1, <3>2, LinkInCommit
    <3>4. ~(l[2] < pos[t])
      <4>1. ASSUME l[2] < pos[t] PROVE hashes[content[old]] = old
        BY <1>1, <3>1, <3>3, <4>1 DEF Good, Store, Hashes
      <4> QED BY <1>2, <4>1
    <3>5. l[2] >= pos[t] + 1
      BY <1>3, <2>1, <3>3, <3>4
    <3>6. hashes[content[l[3]]] \notin {None, l[3]}
      BY <1>2, <1>7, <3>1
    <3> QED BY <1>1, <3>2, <3>5, <3>6 DEF Moves
  <2> QED BY <2>2, <2>3
<1>12. new \in used'
  BY <1>1, <1>2
<1>13. \A l \in links' : l[3] \in used' \/ Moves(t, l)'
  BY <1>8, <1>11, <1>12, HasFields
<1>14. Hashes(t)'
  <2> SUFFICES ASSUME NEW i \in 1 .. Len(md[t].blocks), i < pos[t] + 1
               PROVE  hashes[content[md'[t].blocks[i]]] = md'[t].blocks[i]
    BY <1>1, <1>6 DEF Hashes
  <2>1. CASE i = pos[t]
    BY <1>2, <1>6, <2>1
  <2>2. CASE i # pos[t]
    <3>1. i < pos[t]
      BY <1>3, <2>2, LenProperties
    <3> QED BY <1>1, <1>6, <2>2, <3>1 DEF Good, Store, Hashes
  <2> QED BY <2>1, <2>2
<1>15. Remembers(t)' /\ Reserves(t)'
  BY <1>1, <1>4 DEF Remembers, Reserves
<1> QED BY <1>8, <1>9, <1>10, <1>13, <1>14, <1>15, StoreParts DEF Good

\* A COMMIT that has visited every block has moved all its links.
LEMMA CommitEndUsed ==
  ASSUME Good, NEW t \in Threads, pc[t] = "commit", pos[t] > Len(md[t].blocks)
  PROVE  \A l \in links : l[3] \in used
<1> SUFFICES ASSUME NEW l \in links, Moves(t, l) PROVE FALSE
  BY DEF Good, OneWorker, Store, LinksUsed
<1>1. l[1] = file[t] /\ l[2] >= pos[t]
  BY DEF Moves
<1>2. l[2] \in 1 .. Len(md[t].blocks)
  BY <1>1, LinkInCommit
<1>3. Len(md[t].blocks) \in Nat /\ pos[t] \in Nat
  BY LenProperties DEF Good, TypeOK, File
<1> QED BY <1>1, <1>2, <1>3

LEMMA CommitEndStore ==
  ASSUME Good, NEW t \in Threads, CommitEnd(t)
  PROVE  Store'
<1>1. /\ pc[t] = "commit" /\ pc'[t] = "idle" /\ pos[t] > Len(md[t].blocks)
      /\ UNCHANGED <<links, content, used, hashes>>
  BY Ended DEF CommitEnd, Good
<1>2. \A l \in links' : l[3] \in used'
  BY <1>1, CommitEndUsed
<1> QED BY <1>1, <1>2, SameDisk, Rests DEF Good

LEMMA TagSourceStore ==
  ASSUME Good, NEW t \in Threads, TagSource(t)
  PROVE  Store'
<1> PICK g \in FileTags : g = source[t]
  BY DEF TagSource, Good, Right, OpLocals, Tagging
<1>1. /\ pc[t] = "tag_source" /\ pc'[t] = "tag_copy" /\ lock[g] = None /\ Exists(g)
      /\ source'[t] = g /\ md'[t] = [meta[g] EXCEPT !.committed = FALSE]
      /\ UNCHANGED <<meta, links, content, used, hashes>>
  BY DEF TagSource, disk, Good, TypeOK
<1>2. \A l \in links : l[3] \in used
  BY <1>1, AllUsed
<1>3. LinksMatch(g) /\ meta[g].blocks \in Seq(Blocks) /\ meta[g] \in File
  BY <1>1 DEF Good, Right, FreeRight, BlocksOK, TypeOK, Exists
<1>4. ASSUME NEW i \in 1 .. Len(meta[g].blocks) PROVE meta[g].blocks[i] \in used
  <2>1. <<g, i, meta[g].blocks[i]>> \in links
    BY <1>1, <1>3, BlocksLinked DEF Good
  <2> QED BY <1>2, <2>1, HasFields
<1>5. md'[t].blocks = meta[g].blocks
  BY <1>1, <1>3 DEF File
<1>6. Remembers(t)'
  <2>1. meta'[source'[t]] # None /\ md'[t] = [meta'[source'[t]] EXCEPT !.committed = FALSE]
    BY <1>1 DEF Exists
  <2>2. \A i \in 1 .. Len(md'[t].blocks) : md'[t].blocks[i] \in used'
    BY <1>1, <1>4, <1>5
  <2> QED BY <1>1, <2>1, <2>2 DEF Remembers, Exists
<1>7. Reserves(t)' /\ Hashes(t)'
  BY <1>1 DEF Reserves, Hashes
<1> QED BY <1>1, <1>2, <1>6, <1>7, SameDisk, StoreParts DEF Good

LEMMA TagCopyStore ==
  ASSUME Good, NEW t \in Threads, TagCopy(t)
  PROVE  Store'
<1>1. /\ pc[t] = "tag_copy" /\ pc'[t] = "tag_link" /\ md'[t] = md[t]
      /\ UNCHANGED <<links, content, used, hashes>>
  BY DEF TagCopy, Good, TypeOK
<1>2. \A l \in links' : l[3] \in used'
  BY <1>1, AllUsed
<1>3. Remembers(t)' /\ Reserves(t)' /\ Hashes(t)'
  BY <1>1 DEF Good, Store, Remembers, Reserves, Hashes
<1> QED BY <1>1, <1>2, <1>3, SameDisk, StoreParts DEF Good

LEMMA TagLinkStore ==
  ASSUME Good, NEW t \in Threads, TagLink(t)
  PROVE  Store'
<1> DEFINE b == md[t].blocks[pos[t]]
<1>1. /\ pc[t] = "tag_link" /\ pos[t] <= Len(md[t].blocks)
      /\ links' = Link(file[t], pos[t], b)
      /\ UNCHANGED <<content, used, hashes, pc, md>>
  BY DEF TagLink
<1>2. pos[t] \in 1 .. Len(md[t].blocks)
  BY <1>1, Continues, LenProperties DEF Good, Holding, OpLocals, Ids
<1>3. b \in used
  BY <1>1, <1>2 DEF Good, Store, Remembers
<1> HIDE DEF b
<1>4. links' \subseteq links \cup {<<file[t], pos[t], b>>}
  BY <1>1 DEF Link
<1>5. IsFiniteSet(links')
  <2>1. IsFiniteSet(links \cup {<<file[t], pos[t], b>>})
    BY FS_AddElement DEF Good, Store
  <2> QED BY <1>4, <2>1, FS_Subset
<1>6. \A l \in links' : l[3] \in used'
  BY <1>1, <1>3, <1>4, AllUsed, HasFields
<1>7. ZeroBlock' /\ HashesTrue'
  BY <1>1 DEF Good, Store, ZeroBlock, HashesTrue
<1>8. Remembers(t)' /\ Reserves(t)' /\ Hashes(t)'
  BY <1>1 DEF Good, Store, Remembers, Reserves, Hashes
<1> QED BY <1>5, <1>6, <1>7, <1>8, StoreParts DEF Good

LEMMA DeleteBlockStore ==
  ASSUME Good, NEW t \in Threads, DeleteBlock(t)
  PROVE  Store'
<1> DEFINE b == md[t].blocks[pos[t]]
           h == content[b]
<1>1. /\ pc[t] = "delete" /\ pos[t] <= Len(md[t].blocks)
      /\ links' = Unlink(file[t], pos[t])
      /\ used' = IF Orphan(links', b) THEN used \ {b} ELSE used
      /\ UNCHANGED <<meta, content, pc, file, md>>
  BY DEF DeleteBlock, InDelete
<1>2. b \in Blocks /\ ContentOf(file[t], pos[t]) = h
  BY <1>1, LinkAtPos
<1>3. h \in Data
  BY <1>2 DEF Good, TypeOK
<1>4. hashes' = IF Orphan(links', b) THEN [hashes EXCEPT ![h] = None] ELSE hashes
  BY <1>2 DEF DeleteBlock, RemoveHash
<1> HIDE DEF b
<1>5. links' \subseteq links /\ IsFiniteSet(links')
  BY <1>1, FS_Subset DEF Unlink, Good, Store
<1>6. Orphan(links', b) => b # 0 /\ \A l \in links' : l[3] # b
  BY <1>5, OrphanAlone
<1>7. \A l \in links' : l[3] \in used'
  BY <1>1, <1>5, <1>6, AllUsed
<1>8. ZeroBlock'
  BY <1>1, <1>6 DEF Good, Store, ZeroBlock
<1>9. /\ Orphan(links', b) => hashes'[h] = None
      /\ \A d \in Data : hashes'[d] # None => hashes'[d] = hashes[d]
  BY <1>3, <1>4 DEF Good, TypeOK
<1>10. HashesTrue'
  BY <1>1, <1>9 DEF Good, Store, HashesTrue
<1>11. Remembers(t)' /\ Reserves(t)' /\ Hashes(t)'
  BY <1>1 DEF Good, Store, Remembers, Reserves, Hashes
<1> QED BY <1>5, <1>7, <1>8, <1>10, <1>11, StoreParts DEF Good

-----------------------------------------------------------------------------
(* The storage keeps Store.                                                *)

LEMMA CleanStep ==
  ASSUME CleanNext
  PROVE  FilledNext
BY DEF CleanNext, FilledNext

LEMMA StoreInit ==
  ASSUME Init
  PROVE  Store
<1> USE DEF Init
<1>1. IsFiniteSet(links)
  BY FS_Singleton
<1>2. ZeroBlock
  BY Constants DEF ZeroBlock
<1>3. HashesTrue
  BY Constants DEF HashesTrue
<1>4. LinksUsed
  <2>1. \A l \in links : l[3] = 0
    BY HasFields
  <2> QED BY <2>1 DEF LinksUsed
<1>5. \A t \in Threads : Remembers(t) /\ Reserves(t) /\ Hashes(t)
  BY DEF Remembers, Reserves, Hashes
<1> QED BY <1>1, <1>2, <1>3, <1>4, <1>5 DEF Store

\* The requests that begin an operation with the metadata of a File:Tag.
LEMMA BeginsStore ==
  ASSUME Good, TypeOK', NEW t \in Threads, NEW f \in FileTags,
         \/ \E n \in Sizes : TruncateShrink(t, f, n)
         \/ CommitBegin(t, f)
         \/ DeleteBegin(t, f)
  PROVE  Store'
<1>1. pc[t] = "idle" /\ Exists(f) /\ UNCHANGED disk
  BY DEF TruncateShrink, CommitBegin, DeleteBegin, Opened, Ready
<1>2. Len(meta[f].blocks) \in Nat
  BY <1>1, LenProperties DEF Good, TypeOK, Exists, File
<1>3. CASE \E n \in Sizes : TruncateShrink(t, f, n)
  <2> PICK n \in Sizes : TruncateShrink(t, f, n)
    BY <1>3
  <2>1. Begin(t, f, "truncate", Len(meta[f].blocks), 0, n) /\ ~meta[f].committed
    BY DEF TruncateShrink, Writable
  <2>2. /\ pc'[t] = "truncate" /\ file'[t] = f /\ md'[t] = meta[f]
        /\ pos'[t] = Len(meta[f].blocks)
    BY <1>1, <1>2, <2>1, Begun, Constants DEF Good, PCs
  <2> QED BY <1>1, <2>1, <2>2, BeginStore
<1>4. CASE CommitBegin(t, f) \/ DeleteBegin(t, f)
  <2>1. PICK step \in {"commit", "delete"} :
             Begin(t, f, step, 1, 0, None) /\ (step = "delete" => f # Base)
    BY <1>4 DEF CommitBegin, DeleteBegin
  <2>2. step \in PCs /\ 1 \in Nat /\ 0 \in Blocks /\ None \in Sizes \cup Data \cup {None}
    BY Constants DEF PCs
  <2>3. pc'[t] = step /\ file'[t] = f /\ md'[t] = meta[f] /\ pos'[t] = 1
    BY <1>1, <2>1, <2>2, Begun DEF Good
  <2> QED BY <1>1, <2>1, <2>3, BeginStore
<1> QED BY <1>3, <1>4

\* The steps that neither link, nor write, nor free a block.
LEMMA RestingStore ==
  ASSUME Good, NEW t \in Threads, up,
         \/ \E f \in FileTags :
              \/ Create(t, f)
              \/ \E i \in 1 .. MaxLen : ReadLookup(t, f, i)
              \/ \E o \in FileTags : TagCreate(t, f, o)
         \/ TruncateEnd(t) \/ ReadBlock(t) \/ TagNoSource(t) \/ TagEnd(t) \/ DeleteEnd(t)
  PROVE  Store'
<1>1. UNCHANGED <<links, content, used, hashes>>
  BY DEF Create, ReadLookup, TagCreate, TruncateEnd, ReadBlock, TagNoSource, TagEnd, DeleteEnd,
         disk
<1>2. pc[t] \notin {"commit", "commit_found", "commit_link"}
  BY DEF Create, ReadLookup, TagCreate, TruncateEnd, ReadBlock, TagNoSource, TagEnd, DeleteEnd,
         Opened, Ready
<1>3. pc'[t] \in {"idle", "read", "tag_source"}
  BY DEF Create, ReadLookup, TagCreate, TruncateEnd, ReadBlock, TagNoSource, TagEnd, DeleteEnd,
         Opened, Ready, Begin, NoLocals, local, Good, TypeOK
<1> QED BY <1>1, <1>2, <1>3, RestsOnDisk

LEMMA StoreNext ==
  ASSUME OneWorker, FSInv, FSInv', up => Store, [CleanNext]_vars
  PROVE  up' => Store'
<1> SUFFICES ASSUME up' PROVE Store'
  OBVIOUS
<1>1. CASE UNCHANGED vars
  BY <1>1 DEF vars, Store, ZeroBlock, HashesTrue, LinksUsed, Moves, Remembers, Reserves, Hashes,
              Exists
<1>2. CASE CleanNext
  <2> PICK t \in Threads : /\ Start(t) \/ Continue(t)
                           /\ ~CommitFreesShared(t) /\ ~LeavesStaleHash(t)
    BY <1>2 DEF CleanNext, FilledStep
  <2>1. up
    BY StepsAreLive
  <2>2. Good /\ TypeOK'
    BY <2>1 DEF FSInv, Good
  <2>3. CASE Start(t)
    <3> PICK f \in FileTags :
        \/ Create(t, f)
        \/ \E n \in Sizes : TruncateGrow(t, f, n) \/ TruncateShrink(t, f, n)
        \/ \E i \in 1..MaxLen :
             \/ \E d \in Data : WriteInPlace(t, f, i, d) \/ WriteReserve(t, f, i, d)
             \/ WriteBeyondDisk(t, f, i)
             \/ WriteNoSpace(t, f, i)
             \/ ReadLookup(t, f, i)
        \/ ReadPastEnd(t, f)
        \/ CommitBegin(t, f)
        \/ \E o \in FileTags : TagCreate(t, f, o)
        \/ DeleteBegin(t, f)
      BY <2>3 DEF Start
    <3>1. ASSUME NEW n \in Sizes, TruncateGrow(t, f, n) PROVE Store'
      BY <2>2, <3>1, TruncateGrowStore
    <3>2. CASE (\E n \in Sizes : TruncateShrink(t, f, n)) \/ CommitBegin(t, f) \/ DeleteBegin(t, f)
      BY <2>2, <3>2, BeginsStore
    <3>3. ASSUME NEW i \in 1 .. MaxLen, NEW d \in Data,
                 WriteInPlace(t, f, i, d) \/ WriteReserve(t, f, i, d)
          PROVE  Store'
      BY <2>2, <3>3, WriteInPlaceStore, WriteReserveStore
    <3>4. CASE \/ ReadPastEnd(t, f)
               \/ \E i \in 1 .. MaxLen : WriteBeyondDisk(t, f, i) \/ WriteNoSpace(t, f, i)
      BY <3>4 DEF ReadPastEnd, WriteBeyondDisk, WriteNoSpace
    <3>5. CASE \/ Create(t, f)
               \/ \E i \in 1 .. MaxLen : ReadLookup(t, f, i)
               \/ \E o \in FileTags : TagCreate(t, f, o)
      BY <2>1, <2>2, <3>5, RestingStore
    <3> QED BY <3>1, <3>2, <3>3, <3>4, <3>5
  <2>4. CASE TruncateBlock(t) \/ WriteLink(t) \/ DeleteBlock(t)
    BY <2>2, <2>4, TruncateBlockStore, WriteLinkStore, DeleteBlockStore
  <2>5. CASE \/ CommitKeep(t) \/ CommitFound(t) \/ CommitSame(t) \/ CommitUnlink(t)
             \/ CommitLink(t) \/ CommitEnd(t)
    BY <2>2, <2>5, CommitKeepStore, CommitFoundStore, CommitSameStore, CommitUnlinkStore,
       CommitLinkStore, CommitEndStore
  <2>6. CASE TagSource(t) \/ TagCopy(t) \/ TagLink(t)
    BY <2>2, <2>6, TagSourceStore, TagCopyStore, TagLinkStore
  <2>7. CASE TruncateEnd(t) \/ ReadBlock(t) \/ TagNoSource(t) \/ TagEnd(t) \/ DeleteEnd(t)
    BY <2>1, <2>2, <2>7, RestingStore
  <2> QED BY <2>2, <2>3, <2>4, <2>5, <2>6, <2>7, TagLinkNeverFails, NeverFreed DEF Continue, Good
<1> QED BY <1>1, <1>2

\* The inductive invariant of the storage for one worker.
CleanInv == FSInv /\ (up => Store)

\* What the storage keeps at each step, as long as neither of the two faults strikes.
THEOREM StorageKeeps ==
  ASSUME OneWorker
  PROVE  CleanSpec => []CleanInv
<1>1. Init => CleanInv
  BY InvInit, StoreInit DEF CleanInv
<1>2. CleanInv /\ [CleanNext]_vars => CleanInv'
  <2>1. [CleanNext]_vars => [FilledNext]_vars
    BY CleanStep
  <2> QED BY <2>1, InvNext, StoreNext DEF CleanInv
<1> QED BY <1>1, <1>2, PTL DEF CleanSpec

-----------------------------------------------------------------------------
(* The safety properties that are not about FileStore.                     *)

\* LinkedIsUsed (the bitmap offers nobody a block that is linked) for one worker.
THEOREM StorageLinkedUsed ==
  ASSUME OneWorker
  PROVE  CleanSpec => []LinkedIsUsed
<1>1. CleanInv => LinkedIsUsed
  <2> SUFFICES ASSUME CleanInv, up, NEW l \in links, NEW t \in Threads, Moves(t, l)
               PROVE  lock[l[1]] # None
    BY DEF LinkedIsUsed, CleanInv, Store, LinksUsed
  <2>1. l[1] = file[t] /\ pc[t] \in Holding
    BY DEF Moves, Holding
  <2>2. lock[file[t]] = t
    BY <2>1, Continues DEF CleanInv, FSInv
  <2> QED BY <2>1, <2>2, Constants
<1> QED BY <1>1, StorageKeeps, PTL

\* HashIndexIsTrue (the block the index names for a content has it, and is used) for one worker.
THEOREM StorageHashIndex ==
  ASSUME OneWorker
  PROVE  CleanSpec => []HashIndexIsTrue
<1>1. CleanInv => HashIndexIsTrue
  BY DEF HashIndexIsTrue, CleanInv, Store, HashesTrue
<1> QED BY <1>1, StorageKeeps, PTL

\* Only a WRITE of a shared block reserves one.
LEMMA WhoReserves ==
  ASSUME TypeOK, NEW t \in Threads, Start(t) \/ Continue(t), pc'[t] = "write", pc[t] # "write"
  PROVE  \E f \in FileTags, i \in 1 .. MaxLen, d \in Data : WriteReserve(t, f, i, d)
<1>1. ~Continue(t)
  BY DEF Continue, TruncateBlock, TruncateEnd, WriteLink, ReadBlock, CommitKeep, CommitUnlink,
         CommitFound, CommitSame, CommitLink, CommitFreed, CommitNext, CommitEnd, InCommit,
         TagNoSource, TagSource, TagCopy, TagLink,
         TagLinkFails, TagEnd, DeleteBlock, InDelete, DeleteEnd, NoLocals, TypeOK
<1>2. ASSUME NEW f \in FileTags,
             \/ Create(t, f) \/ ReadPastEnd(t, f) \/ CommitBegin(t, f) \/ DeleteBegin(t, f)
             \/ \E n \in Sizes : TruncateGrow(t, f, n) \/ TruncateShrink(t, f, n)
             \/ \E o \in FileTags : TagCreate(t, f, o)
             \/ \E i \in 1..MaxLen :
                  \/ \E d \in Data : WriteInPlace(t, f, i, d)
                  \/ WriteBeyondDisk(t, f, i) \/ WriteNoSpace(t, f, i) \/ ReadLookup(t, f, i)
      PROVE  FALSE
  BY <1>2 DEF Create, ReadPastEnd, CommitBegin, DeleteBegin, TruncateGrow, TruncateShrink,
              TagCreate, WriteInPlace, WriteBeyondDisk, WriteNoSpace, ReadLookup, Begin, local,
              TypeOK
<1> QED BY <1>1, <1>2 DEF Start

\* ReservedIsFree (find_free_block gives a WRITE a block that nothing links) for one worker.
THEOREM StorageReserves ==
  ASSUME OneWorker
  PROVE  CleanSpec => ReservedIsFree
<1> DEFINE Free == \A t \in Threads : pc'[t] = "write" /\ pc[t] # "write" =>
                      \A l \in links : l[3] # blk'[t]
<1>1. CleanInv /\ [CleanNext]_vars => [Free]_vars
  <2> SUFFICES ASSUME CleanInv, CleanNext, NEW t \in Threads, pc'[t] = "write", pc[t] # "write",
                      NEW l \in links
               PROVE  l[3] # blk'[t]
    OBVIOUS
  <2>1. Start(t) \/ Continue(t)
    BY DEF CleanNext, FilledStep, OneWorker
  <2>2. Good
    BY <2>1, StepsAreLive DEF CleanInv, FSInv, Good
  <2>3. PICK f \in FileTags, i \in 1 .. MaxLen, d \in Data : WriteReserve(t, f, i, d)
    BY <2>1, <2>2, WhoReserves DEF Good
  <2>4. PICK b \in Blocks : b \notin used /\ Begin(t, f, "write", i, b, d)
    BY <2>3 DEF WriteReserve, FirstFree, FreeBits
  <2>5. blk'[t] = b
    BY <2>2, <2>4 DEF Begin, Good, TypeOK
  <2>6. pc[t] = "idle"
    BY <2>3 DEF WriteReserve, OpenedBlock, Opened, Ready
  <2> QED BY <2>2, <2>4, <2>5, <2>6, AllUsed
<1> QED BY <1>1, StorageKeeps, PTL DEF CleanSpec, ReservedIsFree

-----------------------------------------------------------------------------
(* Each action as a step of FileStore.                                     *)

\* What a reader sees of a File:Tag, before and after a step.
LEMMA Shown ==
  ASSUME NEW f \in FileTags
  PROVE  /\ Exists(f) => files[f] = [data |-> DataOf(f), size |-> meta[f].size \div BlockSize,
                                     committed |-> meta[f].committed]
         /\ ~Exists(f) => files[f] = None
         /\ meta'[f] # None =>
              files'[f] = [data |-> [i \in 1 .. Len(meta'[f].blocks) |-> content'[meta'[f].blocks[i]]],
                           size |-> meta'[f].size \div BlockSize,
                           committed |-> meta'[f].committed]
         /\ meta'[f] = None => files'[f] = None
BY DEF files, Exists, DataOf

\* A File:Tag that exists is not NoFile.
LEMMA ShownIsFile ==
  ASSUME NEW m \in File, m.blocks \in Seq(Blocks), NEW c \in [Blocks -> Data]
  PROVE  /\ [i \in 1 .. Len(m.blocks) |-> c[m.blocks[i]]] \in Seq(Data)
         /\ Len([i \in 1 .. Len(m.blocks) |-> c[m.blocks[i]]]) = Len(m.blocks)
         /\ [data |-> [i \in 1 .. Len(m.blocks) |-> c[m.blocks[i]]],
             size |-> m.size \div BlockSize, committed |-> m.committed] # None
<1> DEFINE data == [i \in 1 .. Len(m.blocks) |-> c[m.blocks[i]]]
<1>1. Len(m.blocks) \in Nat
  BY LenProperties
<1>2. \A i \in 1 .. Len(m.blocks) : c[m.blocks[i]] \in Data
  BY ElementOfSeq
<1>3. data \in [1 .. Len(m.blocks) -> Data]
  BY <1>2
<1> HIDE DEF data
<1>4. data \in Seq(Data) /\ Len(data) = Len(m.blocks)
  BY <1>1, <1>3
<1>5. m.size \div BlockSize \in Nat /\ m.committed \in BOOLEAN
  BY SizeInBlocks DEF File
<1>6. [data |-> data, size |-> m.size \div BlockSize, committed |-> m.committed]
        \in [data : Seq(Data), size : Nat, committed : BOOLEAN]
  BY <1>4, <1>5
<1>7. [data |-> data, size |-> m.size \div BlockSize, committed |-> m.committed] # None
  BY <1>6, FSAssumption
<1> QED BY <1>4, <1>7 DEF data

LEMMA FileOf ==
  ASSUME Good, NEW f \in FileTags, Exists(f)
  PROVE  /\ files[f] = [data |-> DataOf(f), size |-> meta[f].size \div BlockSize,
                        committed |-> meta[f].committed]
         /\ files[f] # None
         /\ DataOf(f) \in Seq(Data) /\ Len(DataOf(f)) = Len(meta[f].blocks)
         /\ \A i \in 1 .. Len(meta[f].blocks) : DataOf(f)[i] = content[meta[f].blocks[i]]
         /\ meta[f] \in File /\ meta[f].blocks \in Seq(Blocks) /\ Len(meta[f].blocks) \in Nat
<1>1. meta[f] \in File /\ meta[f].blocks \in Seq(Blocks) /\ content \in [Blocks -> Data]
  BY DEF Good, TypeOK, Exists, Right, BlocksOK
<1>2. /\ DataOf(f) \in Seq(Data) /\ Len(DataOf(f)) = Len(meta[f].blocks)
      /\ [data |-> DataOf(f), size |-> meta[f].size \div BlockSize,
          committed |-> meta[f].committed] # None
  BY <1>1, ShownIsFile DEF DataOf
<1>3. \A i \in 1 .. Len(meta[f].blocks) : DataOf(f)[i] = content[meta[f].blocks[i]]
  BY DEF DataOf
<1> QED BY <1>1, <1>2, <1>3, Shown, LenProperties

\* A File:Tag with the same metadata, whose blocks are not written, shows the same.
LEMMA SameFile ==
  ASSUME NEW g \in FileTags, meta'[g] = meta[g],
         Exists(g) => \A i \in 1 .. Len(meta[g].blocks) :
                         content'[meta[g].blocks[i]] = content[meta[g].blocks[i]]
  PROVE  files'[g] = files[g]
<1>1. CASE Exists(g)
  <2>1. [i \in 1 .. Len(meta'[g].blocks) |-> content'[meta'[g].blocks[i]]] = DataOf(g)
    BY <1>1 DEF DataOf
  <2>2. meta'[g] # None
    BY <1>1 DEF Exists
  <2>3. files'[g] = [data |-> [i \in 1 .. Len(meta'[g].blocks) |-> content'[meta'[g].blocks[i]]],
                     size |-> meta'[g].size \div BlockSize, committed |-> meta'[g].committed]
    BY <2>2, Shown
  <2>4. files'[g] = [data |-> DataOf(g), size |-> meta[g].size \div BlockSize,
                     committed |-> meta[g].committed]
    BY <2>1, <2>3
  <2> QED BY <1>1, <2>4, Shown
<1>2. CASE ~Exists(g)
  BY <1>2, Shown DEF Exists
<1> QED BY <1>1, <1>2

\* A step on one File:Tag.
LEMMA OneFile ==
  ASSUME NEW f \in FileTags, NEW v, files'[f] = v,
         \A g \in FileTags \ {f} : files'[g] = files[g]
  PROVE  files' = [files EXCEPT ![f] = v]
<1>1. files' = [g \in FileTags |-> files'[g]] /\ files = [g \in FileTags |-> files[g]]
  BY DEF files
<1> QED BY <1>1

\* Most steps show nothing.
LEMMA SameFiles ==
  ASSUME UNCHANGED <<meta, content>>
  PROVE  UNCHANGED files
BY DEF files, Exists, DataOf

\* A step that writes no block and changes the metadata of f alone.
LEMMA OneMeta ==
  ASSUME NEW f \in FileTags, UNCHANGED content,
         \A g \in FileTags \ {f} : meta'[g] = meta[g]
  PROVE  \A g \in FileTags \ {f} : files'[g] = files[g]
BY SameFile

LEMMA CreateShows ==
  ASSUME Good, NEW t \in Threads, NEW f \in FileTags,
         Create(t, f) \/ \E o \in FileTags : TagCreate(t, f, o)
  PROVE  Abstract!Create(f)
<1>1. ~Exists(f) /\ meta'[f] = EmptyFile /\ UNCHANGED content
      /\ \A g \in FileTags \ {f} : meta'[g] = meta[g]
  BY DEF Create, TagCreate, DirExists, Good, TypeOK
<1>2. files[f] = None
  BY <1>1, Shown
<1> DEFINE data == [i \in 1 .. Len(meta'[f].blocks) |-> content'[meta'[f].blocks[i]]]
<1>3. meta'[f] # None /\ Len(meta'[f].blocks) = 0 /\ meta'[f].size = 0 /\ meta'[f].committed = FALSE
  BY <1>1, Empty DEF EmptyFile
<1>4. data = <<>>
  BY <1>3
<1>5. 0 \div BlockSize = 0
  BY FSAssumption
<1>6. files'[f] = [data |-> <<>>, size |-> 0, committed |-> FALSE]
  BY <1>3, <1>4, <1>5, Shown
<1> QED BY <1>1, <1>2, <1>6, OneMeta, OneFile DEF Abstract!Create, Abstract!Empty

\* A size that a TRUNCATE may ask for, in blocks.
LEMMA SizeFits ==
  ASSUME NEW n \in Sizes
  PROVE  n \div BlockSize \in 0 .. MaxLen
<1>1. n \in Nat /\ n <= MaxLen * BlockSize /\ MaxLen \in Nat /\ BlockSize \in Nat \ {0}
  BY FSAssumption
<1>2. n \div BlockSize \in Nat
  BY <1>1
<1>3. BlockSize * (n \div BlockSize) <= n
  BY <1>1
<1>4. ~(n \div BlockSize >= MaxLen + 1)
  <2> SUFFICES ASSUME NEW q \in Nat, BlockSize * q <= MaxLen * BlockSize, q >= MaxLen + 1
               PROVE  FALSE
    BY <1>1, <1>2, <1>3
  <2>1. PICK k \in Nat : q = MaxLen + 1 + k
    <3>1. q - (MaxLen + 1) \in Nat
      BY <1>1
    <3> QED BY <1>1, <3>1
  <2>2. BlockSize * q = MaxLen * BlockSize + BlockSize + BlockSize * k
    BY <1>1, <2>1
  <2>3. BlockSize * k \in Nat /\ MaxLen * BlockSize \in Nat
    BY <1>1, <2>1
  <2> QED BY <1>1, <2>2, <2>3
<1> QED BY <1>1, <1>2, <1>4

\* A File:Tag that is cut or extended with zeros.
LEMMA Truncated ==
  ASSUME Good, NEW f \in FileTags, Exists(f), ~meta[f].committed, NEW n \in Nat,
         files'[f] = [data |-> [i \in 1 .. n |-> IF i <= Len(meta[f].blocks)
                                                  THEN content[meta[f].blocks[i]] ELSE Zero],
                      size |-> n, committed |-> FALSE],
         \A g \in FileTags \ {f} : files'[g] = files[g]
  PROVE  Abstract!Truncate(f, n)
<1>1. /\ files[f] = [data |-> DataOf(f), size |-> meta[f].size \div BlockSize,
                     committed |-> meta[f].committed]
      /\ files[f] # None /\ Len(DataOf(f)) = Len(meta[f].blocks)
      /\ meta[f].committed = FALSE
      /\ \A i \in 1 .. Len(meta[f].blocks) : DataOf(f)[i] = content[meta[f].blocks[i]]
      /\ Len(meta[f].blocks) \in Nat
  BY FileOf DEF File
<1>2. [i \in 1 .. n |-> IF i <= Len(meta[f].blocks) THEN content[meta[f].blocks[i]] ELSE Zero]
        = [i \in 1 .. n |-> IF i <= Len(DataOf(f)) THEN DataOf(f)[i] ELSE Zero]
  BY <1>1
<1>3. files'[f] = [[files[f] EXCEPT !.size = n] EXCEPT !.data =
                      [i \in 1 .. n |-> IF i <= Len(DataOf(f)) THEN DataOf(f)[i] ELSE Zero]]
  <2> DEFINE D == DataOf(f)
             E == [i \in 1 .. n |-> IF i <= Len(D) THEN D[i] ELSE Zero]
             s == meta[f].size \div BlockSize
             c == meta[f].committed
  <2>1. s \in Nat
    BY FileOf, SizeInBlocks DEF File
  <2>2. files[f] = [data |-> D, size |-> s, committed |-> c] /\ c = FALSE
    BY <1>1
  <2>3. files'[f] = [data |-> E, size |-> n, committed |-> FALSE]
    BY <1>2
  <2> HIDE DEF D, E, s, c
  <2>4. [[[data |-> D, size |-> s, committed |-> c] EXCEPT !.size = n] EXCEPT !.data = E]
          = [data |-> E, size |-> n, committed |-> c]
    <3>1. [[data |-> D, size |-> s, committed |-> c] EXCEPT !.size = n]
            = [data |-> D, size |-> n, committed |-> c]
      BY <2>1
    <3>2. [[data |-> D, size |-> n, committed |-> c] EXCEPT !.data = E]
            = [data |-> E, size |-> n, committed |-> c]
      OBVIOUS
    <3> QED BY <3>1, <3>2
  <2>5. files'[f] = [data |-> E, size |-> n, committed |-> c]
    BY <2>2, <2>3
  <2>6. files'[f] = [[files[f] EXCEPT !.size = n] EXCEPT !.data = E]
    BY <2>2, <2>4, <2>5
  <2> QED BY <2>6 DEF D, E
<1>4. Abstract!Writable(f)
  BY <1>1 DEF Abstract!Writable
<1>5. files' = [files EXCEPT ![f].size = n, ![f].data =
                  [i \in 1 .. n |-> IF i <= Len(@) THEN @[i] ELSE Zero]]
  <2>1. f \in DOMAIN files /\ files[f].data = DataOf(f)
    BY <1>1 DEF files
  <2>2. files' = [files EXCEPT ![f] = [[files[f] EXCEPT !.size = n] EXCEPT !.data =
                      [i \in 1 .. n |-> IF i <= Len(DataOf(f)) THEN DataOf(f)[i] ELSE Zero]]]
    BY <1>3, OneFile
  <2> QED BY <1>1, <2>1, <2>2
<1> QED BY <1>4, <1>5 DEF Abstract!Truncate

LEMMA TruncateGrowShows ==
  ASSUME Good, NEW t \in Threads, NEW f \in FileTags, NEW n \in Sizes, TruncateGrow(t, f, n)
  PROVE  Abstract!Truncate(f, n \div BlockSize)
<1> DEFINE old == meta[f].blocks
           needed == n \div BlockSize
           grown == [i \in 1..needed |-> IF i <= Len(old) THEN old[i] ELSE 0]
<1>1. Exists(f) /\ ~meta[f].committed /\ needed >= Len(old) /\ UNCHANGED content
  BY DEF TruncateGrow, Opened, Writable
<1>2. /\ meta'[f] = [size |-> n, committed |-> FALSE, blocks |-> grown]
      /\ \A g \in FileTags \ {f} : meta'[g] = meta[g]
  BY DEF TruncateGrow, Good, TypeOK
<1>3. needed \in Nat
  BY SizeFits, FSAssumption
<1>4. Len(old) \in Nat
  BY <1>1, FileOf
<1>5. Len(grown) = needed /\ \A i \in 1 .. needed : grown[i] = IF i <= Len(old) THEN old[i] ELSE 0
  BY <1>3
<1> HIDE DEF grown, needed
<1>6. [i \in 1 .. Len(grown) |-> content[grown[i]]]
        = [i \in 1 .. needed |-> IF i <= Len(old) THEN content[old[i]] ELSE Zero]
  BY <1>5 DEF Good, Store, ZeroBlock
<1>7. meta'[f] # None
  <2>2. n \in Nat
    BY Constants
  <2>3. grown \in Seq(Nat)
    <3>1. old \in Seq(Blocks)
      BY <1>1, FileOf
    <3>2. \A i \in 1 .. needed : grown[i] \in Nat
      BY <1>4, <1>5, <3>1, ElementOfSeq, Constants DEF Blocks
    <3>3. grown = [i \in 1 .. needed |-> grown[i]]
      BY DEF grown
    <3> QED BY <1>3, <3>2, <3>3
  <2>4. [size |-> n, committed |-> FALSE, blocks |-> grown]
          \in [size : Nat, blocks : Seq(Nat), committed : BOOLEAN]
    BY <2>2, <2>3
  <2> QED BY <1>2, <2>4, FSAssumption
<1>8. files'[f] = [data |-> [i \in 1 .. needed |-> IF i <= Len(old) THEN content[old[i]] ELSE Zero],
                   size |-> needed, committed |-> FALSE]
  <2>1. meta'[f].blocks = grown /\ meta'[f].size \div BlockSize = needed /\ meta'[f].committed = FALSE
    BY <1>2 DEF needed
  <2> QED BY <1>1, <1>6, <1>7, <2>1, Shown
<1> QED BY <1>1, <1>2, <1>3, <1>8, OneMeta, Truncated DEF needed

LEMMA TruncateEndShows ==
  ASSUME Good, NEW t \in Threads, TruncateEnd(t)
  PROVE  \E f \in FileTags, n \in 0 .. MaxLen : Abstract!Truncate(f, n)
<1>1. pc[t] = "truncate" /\ pos[t] = arg[t] \div BlockSize /\ UNCHANGED content
  BY DEF TruncateEnd
<1> PICK f \in FileTags : f = file[t] /\ Exists(f) /\ OpLocals(t) /\ md[t].blocks \in Seq(Blocks)
  BY <1>1, Continues DEF Good, Holding
<1>2. /\ meta'[f] = [md[t] EXCEPT !.size = arg[t]]
      /\ \A g \in FileTags \ {f} : meta'[g] = meta[g]
  BY DEF TruncateEnd, Good, TypeOK
<1>3. arg[t] \in Sizes /\ Len(md[t].blocks) = pos[t] /\ md[t] \in File
  BY <1>1 DEF OpLocals, Good, TypeOK
<1>4. pos[t] \in 0 .. MaxLen /\ pos[t] \in Nat
  <2>1. arg[t] \div BlockSize \in 0 .. MaxLen
    BY <1>3, SizeFits
  <2> QED BY <1>1, <2>1, FSAssumption
<1>5. /\ ~meta[f].committed /\ ~md[t].committed /\ pos[t] <= Len(meta[f].blocks)
      /\ \A i \in 1 .. pos[t] : md[t].blocks[i] = meta[f].blocks[i]
  BY <1>1 DEF Good, Store, Remembers
<1>6. /\ meta'[f].blocks = md[t].blocks /\ meta'[f].size = arg[t] /\ meta'[f] # None
      /\ meta'[f].committed = FALSE
  <2>1. meta'[f] \in File
    BY <1>2, <1>3, Constants DEF File
  <2>2. md[t].committed = FALSE
    BY <1>3, <1>5 DEF File
  <2> QED BY <1>2, <1>3, <2>1, <2>2, Constants DEF File
<1>7. Len(meta[f].blocks) \in Nat
  BY FileOf
<1>8. [i \in 1 .. pos[t] |-> content[md[t].blocks[i]]]
        = [i \in 1 .. pos[t] |-> IF i <= Len(meta[f].blocks) THEN content[meta[f].blocks[i]] ELSE Zero]
  BY <1>4, <1>5, <1>7
<1>9. files'[f] = [data |-> [i \in 1 .. pos[t] |-> content[md[t].blocks[i]]],
                   size |-> pos[t], committed |-> FALSE]
  <2>1. files'[f] = [data |-> [i \in 1 .. Len(meta'[f].blocks) |-> content'[meta'[f].blocks[i]]],
                     size |-> meta'[f].size \div BlockSize, committed |-> meta'[f].committed]
    BY <1>6, Shown
  <2>2. [i \in 1 .. Len(meta'[f].blocks) |-> content'[meta'[f].blocks[i]]]
          = [i \in 1 .. pos[t] |-> content[md[t].blocks[i]]]
    BY <1>1, <1>3, <1>6
  <2> QED BY <1>1, <1>6, <2>1, <2>2
<1>10. Abstract!Truncate(f, pos[t])
  BY <1>1, <1>2, <1>4, <1>5, <1>8, <1>9, OneMeta, Truncated
<1> QED BY <1>4, <1>10

\* What a reader sees of the metadata m with the contents data.
Shows(data, m) == [data |-> data, size |-> m.size \div BlockSize, committed |-> m.committed]

\* A block that is written, at one place of one File:Tag.
LEMMA Written ==
  ASSUME Good, NEW f \in FileTags, Exists(f), ~meta[f].committed,
         NEW i \in 1 .. Len(meta[f].blocks), NEW d,
         files'[f] = Shows([DataOf(f) EXCEPT ![i] = d], meta[f]),
         \A g \in FileTags \ {f} : files'[g] = files[g]
  PROVE  Abstract!Write(f, i, d)
<1> DEFINE s == meta[f].size \div BlockSize
           c == meta[f].committed
<1>1. files[f] = [data |-> DataOf(f), size |-> s, committed |-> c] /\ files[f] # None
  BY FileOf
<1>2. Abstract!Writable(f) /\ i \in DOMAIN files[f].data
  BY <1>1 DEF Abstract!Writable, DataOf
<1>3. files'[f] = [data |-> [DataOf(f) EXCEPT ![i] = d], size |-> s, committed |-> c]
  BY DEF Shows
<1> HIDE DEF s, c
<1>4. [files[f] EXCEPT !.data = [files[f].data EXCEPT ![i] = d]] = files'[f]
  <2>1. files[f].data = DataOf(f)
    BY <1>1
  <2>2. [files[f] EXCEPT !.data = [DataOf(f) EXCEPT ![i] = d]]
          = [data |-> [DataOf(f) EXCEPT ![i] = d], size |-> s, committed |-> c]
    BY <1>1
  <2> QED BY <1>3, <2>1, <2>2
<1>5. files' = [files EXCEPT ![f] = [files[f] EXCEPT !.data = [files[f].data EXCEPT ![i] = d]]]
  BY <1>4, OneFile
<1>6. files' = [files EXCEPT ![f].data[i] = d]
  BY <1>5
<1> QED BY <1>2, <1>6 DEF Abstract!Write

\* A sequence of contents that differs from that of f at i.
LEMMA Differs ==
  ASSUME NEW f \in FileTags, NEW i \in 1 .. Len(meta[f].blocks), NEW d,
         NEW data, data = [j \in 1 .. Len(meta[f].blocks) |-> data[j]], data[i] = d,
         \A j \in 1 .. Len(meta[f].blocks) : j # i => data[j] = content[meta[f].blocks[j]]
  PROVE  data = [DataOf(f) EXCEPT ![i] = d]
BY DEF DataOf

LEMMA WriteInPlaceShows ==
  ASSUME Good, NEW t \in Threads, NEW f \in FileTags, NEW i \in 1 .. MaxLen, NEW d \in Data,
         WriteInPlace(t, f, i, d)
  PROVE  Abstract!Write(f, i, d)
<1> DEFINE b == meta[f].blocks[i]
<1>1. /\ pc[t] = "idle" /\ Exists(f) /\ ~meta[f].committed /\ i \in 1 .. Len(meta[f].blocks)
      /\ ~Shared(b) /\ content' = [content EXCEPT ![b] = d] /\ UNCHANGED meta
  BY DEF WriteInPlace, OpenedBlock, Opened, Ready, Writable
<1>2. ASSUME NEW g \in FileTags, Exists(g), NEW j \in 1 .. Len(meta[g].blocks)
      PROVE  <<g, j, meta[g].blocks[j]>> \in links /\ meta[g].blocks[j] \in Blocks
  <2>1. LinksMatch(g) /\ meta[g].blocks \in Seq(Blocks)
    BY <1>1, <1>2, OthersAreFree DEF Holding
  <2> QED BY <1>2, <2>1, BlocksLinked DEF Good
<1>3. b \in Blocks /\ <<f, i, b>> \in links
  BY <1>1, <1>2
<1> HIDE DEF b
<1>4. \A k \in links : k[3] = b => k = <<f, i, b>>
  <2>1. <<f, i, b>>[3] = b
    BY HasFields
  <2>2. IsFiniteSet(links)
    BY DEF Good, Store
  <2> QED BY <1>1, <1>3, <2>1, <2>2, InPlaceAlone
<1>5. ASSUME NEW g \in FileTags, Exists(g), NEW j \in 1 .. Len(meta[g].blocks), g # f \/ j # i
      PROVE  content'[meta[g].blocks[j]] = content[meta[g].blocks[j]]
  <2>1. <<g, j, meta[g].blocks[j]>> \in links /\ meta[g].blocks[j] \in Blocks
    BY <1>2, <1>5
  <2>2. meta[g].blocks[j] # b
    <3>1. ASSUME meta[g].blocks[j] = b PROVE <<g, j, meta[g].blocks[j]>> = <<f, i, b>>
      BY <1>4, <2>1, <3>1, HasFields
    <3> QED BY <1>5, <3>1
  <2> QED BY <1>1, <1>3, <2>1, <2>2 DEF Good, TypeOK
<1>6. \A g \in FileTags \ {f} : files'[g] = files[g]
  BY <1>1, <1>5, SameFile
<1>7. content'[b] = d
  BY <1>1, <1>3 DEF Good, TypeOK
<1> DEFINE data == [j \in 1 .. Len(meta[f].blocks) |-> content'[meta[f].blocks[j]]]
<1>8. files'[f] = Shows(data, meta[f])
  <2>1. meta'[f] # None
    BY <1>1 DEF Exists
  <2>2. files'[f] = [data |-> [j \in 1 .. Len(meta'[f].blocks) |-> content'[meta'[f].blocks[j]]],
                     size |-> meta'[f].size \div BlockSize, committed |-> meta'[f].committed]
    BY <2>1, Shown
  <2> QED BY <1>1, <2>2 DEF Shows
<1>9. /\ data[i] = d
      /\ data = [j \in 1 .. Len(meta[f].blocks) |-> data[j]]
      /\ \A j \in 1 .. Len(meta[f].blocks) : j # i => data[j] = content[meta[f].blocks[j]]
  BY <1>1, <1>5, <1>7 DEF b
<1> HIDE DEF data
<1>10. data = [DataOf(f) EXCEPT ![i] = d]
  BY <1>1, <1>9, Differs
<1> QED BY <1>1, <1>6, <1>8, <1>10, Written

LEMMA WriteLinkShows ==
  ASSUME Good, NEW t \in Threads, WriteLink(t)
  PROVE  \E f \in FileTags, i \in 1 .. MaxLen, d \in Data : Abstract!Write(f, i, d)
<1>1. pc[t] = "write"
  BY DEF WriteLink
<1> PICK f \in FileTags : /\ f = file[t] /\ Exists(f) /\ LinksKept(t) /\ OpLocals(t)
                          /\ md[t].blocks \in Seq(Blocks)
  BY <1>1, Continues DEF Good, Holding
<1>2. /\ meta[f] = md[t] /\ ~md[t].committed /\ pos[t] <= MaxLen
      /\ \A l \in links : l[3] # blk[t]
  BY <1>1 DEF Good, Store, Remembers, Reserves
<1>3. /\ blk[t] \in Blocks /\ arg[t] \in Data /\ pos[t] \in 1 .. Len(md[t].blocks)
      /\ md[t] \in File /\ Len(md[t].blocks) \in Nat
  BY <1>1, LenProperties DEF Good, TypeOK, OpLocals
<1>4. pos[t] \in 1 .. MaxLen
  BY <1>2, <1>3, FSAssumption
<1>5. /\ meta'[f] = [md[t] EXCEPT !.blocks[pos[t]] = blk[t]]
      /\ \A g \in FileTags \ {f} : meta'[g] = meta[g]
      /\ content' = [content EXCEPT ![blk[t]] = arg[t]]
  BY DEF WriteLink, Good, TypeOK
<1>6. ASSUME NEW g \in FileTags \ {f}, Exists(g), NEW j \in 1 .. Len(meta[g].blocks)
      PROVE  content'[meta[g].blocks[j]] = content[meta[g].blocks[j]]
  <2>1. LinksMatch(g) /\ meta[g].blocks \in Seq(Blocks)
    BY <1>6, OthersAreFree
  <2>2. <<g, j, meta[g].blocks[j]>> \in links /\ meta[g].blocks[j] \in Blocks
    BY <1>6, <2>1, BlocksLinked DEF Good
  <2>3. meta[g].blocks[j] # blk[t]
    BY <1>2, <2>2, HasFields
  <2> QED BY <1>5, <2>2, <2>3 DEF Good, TypeOK
<1>7. \A g \in FileTags \ {f} : files'[g] = files[g]
  BY <1>5, <1>6, SameFile
<1>8. /\ meta'[f].blocks = [md[t].blocks EXCEPT ![pos[t]] = blk[t]]
      /\ meta'[f].size = md[t].size /\ meta'[f].committed = md[t].committed
      /\ meta'[f] # None
  <2>1. [md[t].blocks EXCEPT ![pos[t]] = blk[t]] \in Seq(Bits)
    <3>1. md[t].blocks \in Seq(Bits) /\ blk[t] \in Bits
      BY <1>3, Constants DEF File
    <3> QED BY <1>3, <3>1, ExceptSeq
  <2>2. meta'[f] \in File
    BY <1>3, <1>5, <2>1 DEF File
  <2> QED BY <1>3, <1>5, <2>2, Constants DEF File
<1>9. /\ meta'[f].blocks[pos[t]] = blk[t] /\ Len(meta'[f].blocks) = Len(md[t].blocks)
      /\ \A j \in 1 .. Len(md[t].blocks) : j # pos[t] => meta'[f].blocks[j] = md[t].blocks[j]
  BY <1>3, <1>8, ExceptSeq
<1>10. ASSUME NEW j \in 1 .. Len(md[t].blocks), j # pos[t]
       PROVE  content'[md[t].blocks[j]] = content[md[t].blocks[j]]
  <2>1. md[t].blocks[j] \in Blocks /\ j \in Ids
    BY ElementOfSeq, <1>3 DEF Ids
  <2>2. j \in Keeps(t)
    BY <1>1, <1>10 DEF Keeps
  <2>3. <<f, j, md[t].blocks[j]>> \in links
    BY <2>1, <2>2 DEF LinksKept, Has
  <2>4. md[t].blocks[j] # blk[t]
    BY <1>2, <2>3, HasFields
  <2> QED BY <1>5, <2>1, <2>4 DEF Good, TypeOK
<1> DEFINE data == [j \in 1 .. Len(meta'[f].blocks) |-> content'[meta'[f].blocks[j]]]
<1>11. files'[f] = Shows(data, meta[f])
  <2>1. files'[f] = [data |-> data, size |-> meta'[f].size \div BlockSize,
                     committed |-> meta'[f].committed]
    BY <1>8, Shown
  <2> HIDE DEF data
  <2> QED BY <1>2, <1>8, <2>1 DEF Shows
<1>12. content'[blk[t]] = arg[t]
  BY <1>3, <1>5 DEF Good, TypeOK
<1>13. /\ data[pos[t]] = arg[t]
       /\ data = [j \in 1 .. Len(meta[f].blocks) |-> data[j]]
       /\ \A j \in 1 .. Len(meta[f].blocks) :
             j # pos[t] => data[j] = content[meta[f].blocks[j]]
  BY <1>2, <1>3, <1>9, <1>10, <1>12
<1> HIDE DEF data
<1>14. data = [DataOf(f) EXCEPT ![pos[t]] = arg[t]]
  <2>1. pos[t] \in 1 .. Len(meta[f].blocks)
    BY <1>2, <1>3
  <2> QED BY <1>13, <2>1 DEF DataOf
<1>15. Abstract!Write(f, pos[t], arg[t])
  BY <1>2, <1>3, <1>7, <1>11, <1>14, Written
<1> QED BY <1>3, <1>4, <1>15

\* A COMMIT that moves a link to another block of the same content shows nothing.
LEMMA CommitLinkShows ==
  ASSUME Good, NEW t \in Threads, CommitLink(t)
  PROVE  UNCHANGED files
<1>1. pc[t] = "commit_link" /\ UNCHANGED content
  BY DEF CommitLink
<1> PICK f \in FileTags : /\ f = file[t] /\ Exists(f) /\ meta[f] = md[t]
                          /\ md[t].blocks \in Seq(Blocks)
  BY <1>1, Continues DEF Good, Holding, Store, Remembers
<1>2. /\ pos[t] \in 1 .. Len(md[t].blocks) /\ blk[t] \in Blocks
      /\ content[blk[t]] = content[md[t].blocks[pos[t]]]
  BY <1>1, SameContent
<1>3. md[t] \in File
  BY DEF Good, TypeOK
<1>4. /\ meta'[f] = [md[t] EXCEPT !.blocks[pos[t]] = blk[t]]
      /\ \A g \in FileTags \ {f} : meta'[g] = meta[g]
  <2>1. md'[t] = [md[t] EXCEPT !.blocks[pos[t]] = blk[t]]
    BY DEF CommitLink, Reassign, Good, TypeOK
  <2>2. meta' = [meta EXCEPT ![f] = md'[t]]
    BY DEF CommitLink, Reassign
  <2> QED BY <2>1, <2>2 DEF Good, TypeOK
<1>5. /\ meta'[f].blocks = [md[t].blocks EXCEPT ![pos[t]] = blk[t]]
      /\ meta'[f].size = md[t].size /\ meta'[f].committed = md[t].committed
      /\ meta'[f] # None
  <2>1. [md[t].blocks EXCEPT ![pos[t]] = blk[t]] \in Seq(Bits)
    <3>1. md[t].blocks \in Seq(Bits) /\ blk[t] \in Bits
      BY <1>2, <1>3, Constants DEF File
    <3> QED BY <1>2, <3>1, ExceptSeq
  <2>2. meta'[f] \in File
    BY <1>3, <1>4, <2>1 DEF File
  <2> QED BY <1>3, <1>4, <2>2, Constants DEF File
<1>6. /\ meta'[f].blocks[pos[t]] = blk[t] /\ Len(meta'[f].blocks) = Len(md[t].blocks)
      /\ \A j \in 1 .. Len(md[t].blocks) : j # pos[t] => meta'[f].blocks[j] = md[t].blocks[j]
  BY <1>2, <1>5, ExceptSeq
<1>7. [j \in 1 .. Len(meta'[f].blocks) |-> content'[meta'[f].blocks[j]]] = DataOf(f)
  BY <1>1, <1>2, <1>6 DEF DataOf
<1>8. files'[f] = files[f]
  <2>1. files'[f] = [data |-> [j \in 1 .. Len(meta'[f].blocks) |-> content'[meta'[f].blocks[j]]],
                     size |-> meta'[f].size \div BlockSize, committed |-> meta'[f].committed]
    BY <1>5, Shown
  <2>2. files'[f] = [data |-> DataOf(f), size |-> meta[f].size \div BlockSize,
                     committed |-> meta[f].committed]
    BY <1>5, <1>7, <2>1
  <2> QED BY <2>2, Shown
<1>9. files' = [files EXCEPT ![f] = files[f]]
  BY <1>1, <1>4, <1>8, OneMeta, OneFile
<1> QED BY <1>9 DEF files

LEMMA CommitEndShows ==
  ASSUME Good, NEW t \in Threads, CommitEnd(t)
  PROVE  \E f \in FileTags : Abstract!Commit(f)
<1>1. pc[t] = "commit" /\ UNCHANGED content
  BY DEF CommitEnd
<1> PICK f \in FileTags : f = file[t] /\ Exists(f) /\ meta[f] = md[t]
  BY <1>1, Continues DEF Good, Holding, Store, Remembers
<1>2. md[t] \in File
  BY DEF Good, TypeOK
<1>3. /\ meta'[f] = [md[t] EXCEPT !.committed = TRUE]
      /\ \A g \in FileTags \ {f} : meta'[g] = meta[g]
  BY DEF CommitEnd, Good, TypeOK
<1>4. /\ meta'[f].blocks = md[t].blocks /\ meta'[f].size = md[t].size
      /\ meta'[f].committed = TRUE /\ meta'[f] # None
  <2>1. meta'[f] \in File
    BY <1>2, <1>3 DEF File
  <2> QED BY <1>2, <1>3, <2>1, Constants DEF File
<1> DEFINE s == meta[f].size \div BlockSize
           c == meta[f].committed
<1>5. files[f] = [data |-> DataOf(f), size |-> s, committed |-> c] /\ files[f] # None
  BY FileOf
<1>6. files'[f] = [data |-> DataOf(f), size |-> s, committed |-> TRUE]
  <2>1. [j \in 1 .. Len(meta'[f].blocks) |-> content'[meta'[f].blocks[j]]] = DataOf(f)
    BY <1>1, <1>4 DEF DataOf
  <2>2. files'[f] = [data |-> DataOf(f), size |-> meta'[f].size \div BlockSize,
                     committed |-> meta'[f].committed]
    BY <1>4, <2>1, Shown
  <2> QED BY <1>4, <2>2
<1> HIDE DEF s, c
<1>7. [files[f] EXCEPT !.committed = TRUE] = [data |-> DataOf(f), size |-> s, committed |-> TRUE]
  <2>1. PICK b : b = TRUE
    OBVIOUS
  <2>2. [files[f] EXCEPT !.committed = b] = [data |-> DataOf(f), size |-> s, committed |-> b]
    BY <1>5
  <2> QED BY <2>1, <2>2
<1>8. files' = [files EXCEPT ![f] = [files[f] EXCEPT !.committed = TRUE]]
  BY <1>1, <1>3, <1>6, <1>7, OneMeta, OneFile
<1>9. files' = [files EXCEPT ![f].committed = TRUE]
  BY <1>8
<1> QED BY <1>5, <1>9 DEF Abstract!Commit

LEMMA TagCopyShows ==
  ASSUME Good, NEW t \in Threads, TagCopy(t)
  PROVE  \E f, g \in FileTags : Abstract!Copy(f, g)
<1>1. pc[t] = "tag_copy" /\ UNCHANGED content
  BY DEF TagCopy
<1> PICK f \in FileTags, g \in FileTags : f = file[t] /\ g = source[t] /\ meta[f] = EmptyFile
  BY <1>1 DEF Good, Right, OpLocals, Tagging
<1>2. Exists(f) /\ Exists(g) /\ md[t] = [meta[g] EXCEPT !.committed = FALSE]
  BY <1>1, Empty DEF Good, Store, Remembers, Exists
<1>3. meta[g] \in File /\ md[t] \in File
  BY <1>2 DEF Good, TypeOK, Exists
<1>4. meta'[f] = md[t] /\ \A h \in FileTags \ {f} : meta'[h] = meta[h]
  BY <1>2 DEF TagCopy, DirExists, Good, TypeOK
<1>5. /\ meta'[f].blocks = meta[g].blocks /\ meta'[f].size = meta[g].size
      /\ meta'[f].committed = FALSE /\ meta'[f] # None
  BY <1>2, <1>3, <1>4, Constants DEF File
<1> DEFINE s == meta[g].size \div BlockSize
<1>6. files[g].data = DataOf(g) /\ files[g].size = s /\ files[g] # None /\ s \in Nat
  <2>1. files[g] = [data |-> DataOf(g), size |-> s, committed |-> meta[g].committed]
    BY <1>2, FileOf
  <2>2. files[g] # None /\ s \in Nat
    BY <1>2, <1>3, FileOf, SizeInBlocks DEF File
  <2> HIDE DEF s
  <2> QED BY <2>1, <2>2
<1>7. files[f] = [data |-> <<>>, size |-> 0, committed |-> FALSE] /\ files[f] # None
  <2>1. DataOf(f) = <<>>
    BY Empty DEF DataOf
  <2>2. 0 \div BlockSize = 0
    BY FSAssumption
  <2>3. EmptyFile.size = 0 /\ EmptyFile.committed = FALSE
    BY DEF EmptyFile
  <2> QED BY <1>2, <2>1, <2>2, <2>3, FileOf
<1>8. files'[f] = [data |-> DataOf(g), size |-> s, committed |-> FALSE]
  <2>1. [j \in 1 .. Len(meta'[f].blocks) |-> content'[meta'[f].blocks[j]]] = DataOf(g)
    BY <1>1, <1>5 DEF DataOf
  <2>2. files'[f] = [data |-> DataOf(g), size |-> meta'[f].size \div BlockSize,
                     committed |-> meta'[f].committed]
    BY <1>5, <2>1, Shown
  <2> QED BY <1>5, <2>2
<1> HIDE DEF s
<1>9. [[files[f] EXCEPT !.data = DataOf(g)] EXCEPT !.size = s]
        = [data |-> DataOf(g), size |-> s, committed |-> FALSE]
  <2> PICK c : c = FALSE
    OBVIOUS
  <2>1. files[f] = [data |-> <<>>, size |-> 0, committed |-> c]
    BY <1>7
  <2>2. [files[f] EXCEPT !.data = DataOf(g)] = [data |-> DataOf(g), size |-> 0, committed |-> c]
    BY <2>1
  <2>3. [[data |-> DataOf(g), size |-> 0, committed |-> c] EXCEPT !.size = s]
          = [data |-> DataOf(g), size |-> s, committed |-> c]
    BY <1>6
  <2> QED BY <2>2, <2>3
<1>10. files' = [files EXCEPT ![f] = [[files[f] EXCEPT !.data = DataOf(g)] EXCEPT !.size = s]]
  BY <1>1, <1>4, <1>8, <1>9, OneMeta, OneFile
<1>11. files' = [files EXCEPT ![f].data = files[g].data, ![f].size = files[g].size]
  BY <1>6, <1>10
<1>12. files[f].data = <<>> /\ ~files[f].committed
  BY <1>7
<1> QED BY <1>6, <1>7, <1>11, <1>12 DEF Abstract!Copy

LEMMA DeleteEndShows ==
  ASSUME Good, NEW t \in Threads, DeleteEnd(t)
  PROVE  \E f \in FileTags : Abstract!Delete(f)
<1>1. pc[t] = "delete" /\ UNCHANGED content
  BY DEF DeleteEnd
<1> PICK f \in FileTags : f = file[t] /\ Exists(f) /\ f # Base
  BY <1>1, Continues DEF Good, Holding, Store, Remembers
<1>2. meta'[f] = None /\ \A g \in FileTags \ {f} : meta'[g] = meta[g]
  BY DEF DeleteEnd, Good, TypeOK
<1>3. files'[f] = None /\ files[f] # None
  BY <1>2, Shown, FileOf
<1> QED BY <1>1, <1>2, <1>3, OneMeta, OneFile DEF Abstract!Delete

-----------------------------------------------------------------------------
(* The storage implements FileStore.                                       *)

LEMMA ShowsInit ==
  ASSUME Init
  PROVE  Abstract!Init
<1> DEFINE base == [EmptyFile EXCEPT !.blocks = <<0>>]
<1>1. /\ meta[Base] = base /\ Exists(Base)
      /\ \A f \in FileTags \ {Base} : ~Exists(f)
  BY BaseFile, Constants DEF Exists, Init
<1>2. base.blocks = <<0>> /\ base.size = 0 /\ base.committed = FALSE
  BY BaseFile DEF EmptyFile
<1> HIDE DEF base
<1>3. DataOf(Base) = <<Zero>>
  <2>1. meta[Base].blocks = <<0>> /\ Len(<<0>>) = 1 /\ content[0] = Zero
    BY <1>1, <1>2, Constants DEF Init
  <2>2. Len(meta[Base].blocks) = 1 /\ \A i \in 1 .. 1 : content[meta[Base].blocks[i]] = Zero
    BY <2>1
  <2>3. [i \in 1 .. Len(meta[Base].blocks) |-> content[meta[Base].blocks[i]]] = [i \in 1 .. 1 |-> Zero]
    BY <2>2
  <2>4. [i \in 1 .. 1 |-> Zero] = <<Zero>>
    OBVIOUS
  <2> QED BY <2>3, <2>4 DEF DataOf
<1>4. files[Base] = [data |-> <<Zero>>, size |-> 0, committed |-> FALSE]
  <2>1. 0 \div BlockSize = 0
    BY FSAssumption
  <2>2. files[Base] = [data |-> DataOf(Base), size |-> meta[Base].size \div BlockSize,
                       committed |-> meta[Base].committed]
    BY <1>1, Shown, Constants
  <2> QED BY <1>1, <1>2, <1>3, <2>1, <2>2
<1>5. \A f \in FileTags \ {Base} : files[f] = None
  BY <1>1, Shown
<1>6. [[data |-> <<>>, size |-> 0, committed |-> FALSE] EXCEPT !.data = <<Zero>>]
        = [data |-> <<Zero>>, size |-> 0, committed |-> FALSE]
  <2> PICK c : c = FALSE
    OBVIOUS
  <2>1. [[data |-> <<>>, size |-> 0, committed |-> c] EXCEPT !.data = <<Zero>>]
          = [data |-> <<Zero>>, size |-> 0, committed |-> c]
    OBVIOUS
  <2> QED BY <2>1
<1>7. files = [f \in FileTags |-> files[f]]
  BY DEF files
<1>8. files = [f \in FileTags |-> IF f = Base THEN [data |-> <<Zero>>, size |-> 0, committed |-> FALSE]
                                  ELSE None]
  BY <1>4, <1>5, <1>7
<1> QED BY <1>6, <1>8 DEF Abstract!Init, Abstract!Empty

\* Every step of a storage that stays up is a step of FileStore, or shows nothing.
LEMMA ShowsNext ==
  ASSUME OneWorker, CleanInv, CleanNext, up'
  PROVE  UNCHANGED files \/ Abstract!Next
<1> PICK t \in Threads : Start(t) \/ Continue(t)
  BY DEF CleanNext, FilledStep
<1>1. up /\ Good
  BY StepsAreLive DEF CleanInv, FSInv, Good
<1>2. CASE Start(t)
  <2> PICK f \in FileTags :
        \/ Create(t, f)
        \/ \E n \in Sizes : TruncateGrow(t, f, n) \/ TruncateShrink(t, f, n)
        \/ \E i \in 1..MaxLen :
             \/ \E d \in Data : WriteInPlace(t, f, i, d) \/ WriteReserve(t, f, i, d)
             \/ WriteBeyondDisk(t, f, i)
             \/ WriteNoSpace(t, f, i)
             \/ ReadLookup(t, f, i)
        \/ ReadPastEnd(t, f)
        \/ CommitBegin(t, f)
        \/ \E o \in FileTags : TagCreate(t, f, o)
        \/ DeleteBegin(t, f)
    BY <1>2 DEF Start
  <2>1. CASE Create(t, f) \/ \E o \in FileTags : TagCreate(t, f, o)
    <3>1. Abstract!Create(f)
      BY <1>1, <2>1, CreateShows
    <3> QED BY <3>1 DEF Abstract!Next
  <2>2. ASSUME NEW n \in Sizes, TruncateGrow(t, f, n) PROVE Abstract!Next
    <3>1. Abstract!Truncate(f, n \div BlockSize) /\ n \div BlockSize \in 0 .. MaxLen
      BY <1>1, <2>2, TruncateGrowShows, SizeFits
    <3> QED BY <3>1 DEF Abstract!Next
  <2>3. ASSUME NEW i \in 1 .. MaxLen, NEW d \in Data, WriteInPlace(t, f, i, d)
        PROVE  Abstract!Next
    <3>1. Abstract!Write(f, i, d)
      BY <1>1, <2>3, WriteInPlaceShows
    <3> QED BY <3>1 DEF Abstract!Next
  <2>4. CASE \/ \E n \in Sizes : TruncateShrink(t, f, n)
             \/ \E i \in 1 .. MaxLen :
                  ReadLookup(t, f, i) \/ \E d \in Data : WriteReserve(t, f, i, d)
             \/ CommitBegin(t, f) \/ DeleteBegin(t, f)
    <3>1. UNCHANGED <<meta, content>>
      BY <2>4 DEF TruncateShrink, ReadLookup, WriteReserve, CommitBegin, DeleteBegin, disk
    <3> QED BY <3>1, SameFiles
  <2>5. CASE \/ ReadPastEnd(t, f)
             \/ \E i \in 1 .. MaxLen : WriteBeyondDisk(t, f, i) \/ WriteNoSpace(t, f, i)
    BY <2>5 DEF ReadPastEnd, WriteBeyondDisk, WriteNoSpace
  <2> QED BY <2>1, <2>2, <2>3, <2>4, <2>5
<1>3. CASE TruncateEnd(t)
  BY <1>1, <1>3, TruncateEndShows DEF Abstract!Next
<1>4. CASE WriteLink(t)
  BY <1>1, <1>4, WriteLinkShows DEF Abstract!Next
<1>5. CASE CommitLink(t)
  BY <1>1, <1>5, CommitLinkShows
<1>6. CASE CommitEnd(t)
  BY <1>1, <1>6, CommitEndShows DEF Abstract!Next
<1>7. CASE TagCopy(t)
  BY <1>1, <1>7, TagCopyShows DEF Abstract!Next
<1>8. CASE DeleteEnd(t)
  BY <1>1, <1>8, DeleteEndShows DEF Abstract!Next
<1>9. CASE \/ TruncateBlock(t) \/ ReadBlock(t)
           \/ CommitKeep(t) \/ CommitFound(t) \/ CommitSame(t) \/ CommitUnlink(t)
           \/ TagNoSource(t) \/ TagSource(t) \/ TagLink(t) \/ TagEnd(t) \/ DeleteBlock(t)
  <2>1. UNCHANGED <<meta, content>>
    BY <1>9 DEF TruncateBlock, ReadBlock, CommitKeep, CommitFound, CommitSame, CommitUnlink,
                TagNoSource, TagSource, TagLink, TagEnd, DeleteBlock, disk
  <2> QED BY <2>1, SameFiles
<1> QED BY <1>1, <1>2, <1>3, <1>4, <1>5, <1>6, <1>7, <1>8, <1>9, TagLinkNeverFails, NeverFreed
        DEF Continue, Good

\* ImplementsFileStore (until the storage dies, whatever its workers see through the metadata
\* is what a FileStore with the same requests can do) for one worker and any files and disk.
THEOREM StorageImplementsFileStore ==
  ASSUME OneWorker
  PROVE  CleanSpec => ImplementsFileStore
<1>1. Init => Abstract!Init
  BY ShowsInit
<1>2. CleanInv /\ [CleanNext]_vars => [up' => UNCHANGED files \/ Abstract!Next]_vars
  BY ShowsNext
<1> QED BY <1>1, <1>2, StorageKeeps, PTL DEF CleanSpec, ImplementsFileStore

\* FileStore does not change what is committed.
LEMMA FileStoreFreezes ==
  ASSUME NEW f \in FileTags, NEW D, NEW s, files[f] = [data |-> D, size |-> s, committed |-> TRUE],
         files[f] # None, files'[f] # None, Abstract!Next
  PROVE  files'[f] = files[f]
<1>1. f \in DOMAIN files
  BY DEF files
<1>2. ASSUME NEW g \in FileTags,
             \/ Abstract!Create(g) \/ Abstract!Delete(g)
             \/ \E n \in 0..MaxLen : Abstract!Truncate(g, n)
             \/ \E i \in 1..MaxLen, d \in Data : Abstract!Write(g, i, d)
             \/ \E h \in FileTags : Abstract!Copy(g, h)
      PROVE  files'[f] = files[f]
  <2>1. CASE f # g
    BY <1>1, <1>2, <2>1 DEF Abstract!Create, Abstract!Delete, Abstract!Truncate, Abstract!Write,
                            Abstract!Copy
  <2>2. CASE f = g
    <3>1. ~Abstract!Create(f) /\ ~Abstract!Delete(f)
      BY <1>1 DEF Abstract!Create, Abstract!Delete
    <3>2. files[f].committed
      OBVIOUS
    <3>3. /\ ~\E n \in 0..MaxLen : Abstract!Truncate(f, n)
          /\ ~\E i \in 1..MaxLen, d \in Data : Abstract!Write(f, i, d)
          /\ ~\E h \in FileTags : Abstract!Copy(f, h)
      BY <3>2 DEF Abstract!Truncate, Abstract!Write, Abstract!Copy, Abstract!Writable
    <3> QED BY <1>2, <2>2, <3>1, <3>3
  <2> QED BY <2>1, <2>2
<1>3. ASSUME NEW g \in FileTags, Abstract!Commit(g) PROVE files'[f] = files[f]
  <2>1. CASE f # g
    BY <1>1, <1>3, <2>1 DEF Abstract!Commit
  <2>2. CASE f = g
    <3>1. files'[f] = [files[f] EXCEPT !.committed = TRUE]
      BY <1>1, <1>3, <2>2 DEF Abstract!Commit
    <3>2. PICK b : b = TRUE
      OBVIOUS
    <3>3. files[f] = [data |-> D, size |-> s, committed |-> b]
      BY <3>2
    <3>4. [files[f] EXCEPT !.committed = b] = [data |-> D, size |-> s, committed |-> b]
      BY <3>3
    <3> QED BY <3>1, <3>2, <3>3, <3>4
  <2> QED BY <2>1, <2>2
<1> QED BY <1>2, <1>3 DEF Abstract!Next

\* CommittedIsFrozen (nothing is written in a File:Tag after its COMMIT, interpreter.h) for one
\* worker and any files and disk.
THEOREM StorageFreezes ==
  ASSUME OneWorker
  PROVE  CleanSpec => CommittedIsFrozen
<1> DEFINE Frozen == \A f \in FileTags : Committed(f) /\ Exists(f)' =>
                        Committed(f)' /\ DataOf(f)' = DataOf(f)
<1>1. ASSUME OneWorker, CleanInv, CleanInv', CleanNext PROVE Frozen
  <2> SUFFICES ASSUME NEW f \in FileTags, Committed(f), meta'[f] # None
               PROVE  Committed(f)' /\ DataOf(f)' = DataOf(f)
    BY DEF Exists
  <2>1. Good /\ Exists(f) /\ meta[f].committed
    BY <1>1, StepsAreLive DEF CleanNext, FilledStep, CleanInv, FSInv, Good, Committed
  <2>2. CASE up'
    <3> DEFINE new == [i \in 1 .. Len(meta'[f].blocks) |-> content'[meta'[f].blocks[i]]]
    <3>1. /\ files[f] = [data |-> DataOf(f), size |-> meta[f].size \div BlockSize, committed |-> TRUE]
          /\ files[f] # None
      BY <2>1, FileOf DEF File
    <3>2. files'[f] = [data |-> new, size |-> meta'[f].size \div BlockSize,
                       committed |-> meta'[f].committed]
      BY Shown
    <3>3. files'[f] # None
      <4>1. meta'[f] \in File /\ meta'[f].blocks \in Seq(Blocks) /\ content' \in [Blocks -> Data]
        BY <1>1, <2>2 DEF CleanInv, FSInv, TypeOK, Right, BlocksOK, Exists
      <4> QED BY <3>2, <4>1, ShownIsFile
    <3>4. files'[f] = files[f]
      <4>1. CASE UNCHANGED files
        BY <4>1
      <4>2. CASE Abstract!Next
        BY <3>1, <3>3, <4>2, FileStoreFreezes
      <4> QED BY <1>1, <2>2, <4>1, <4>2, ShowsNext
    <3>5. new = DataOf(f) /\ meta'[f].committed
      BY <3>1, <3>2, <3>4
    <3> QED BY <3>5 DEF Committed, Exists, DataOf
  <2>3. CASE ~up'
    <3> PICK t \in Threads : Start(t) \/ Continue(t)
      BY <1>1 DEF CleanNext, FilledStep
    <3>1. up
      BY StepsAreLive
    <3> ~CommitFreed(t)
      BY <2>1, NeverFreed
    <3>2. PICK g \in FileTags :
            \/ ReadPastEnd(t, g)
            \/ \E i \in 1 .. MaxLen : WriteBeyondDisk(t, g, i) \/ WriteNoSpace(t, g, i)
      BY <2>3, <3>1
         DEF Start, Continue, Create, TruncateGrow, TruncateShrink, WriteInPlace, WriteReserve,
             ReadLookup, CommitBegin, TagCreate, DeleteBegin, TruncateBlock, TruncateEnd,
             WriteLink, ReadBlock, CommitKeep, CommitFound, CommitSame, CommitUnlink, CommitLink,
             CommitEnd, TagNoSource, TagSource, TagCopy, TagLink, TagLinkFails, TagEnd, DeleteBlock, DeleteEnd
    <3>3. UNCHANGED content /\ meta'[f] = meta[f]
      BY <2>1, <3>2 DEF ReadPastEnd, WriteBeyondDisk, WriteNoSpace, OpenedBlock, Writable, disk,
                        Good, TypeOK
    <3> QED BY <2>1, <3>3 DEF Committed, Exists, DataOf
  <2> QED BY <2>2, <2>3
<1>2. CleanInv /\ CleanInv' /\ [CleanNext]_vars => [Frozen]_vars
  BY <1>1
<1> QED BY <1>2, StorageKeeps, PTL DEF CleanSpec, CommittedIsFrozen

=============================================================================
