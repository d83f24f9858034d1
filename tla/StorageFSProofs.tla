-------------------------- MODULE StorageFSProofs ---------------------------
(***************************************************************************)
(* Theorems about StorageFS for any threads, File:Tags, disk and sizes, as *)
(* long as nobody overtakes a TAG and no COMMIT goes on with a string that *)
(* was freed (FilledSpec): the links of a File:Tag match its metadata, no  *)
(* block is lost, and no link is missing when it is followed.              *)
(***************************************************************************)
EXTENDS StorageFS, SequenceTheorems, FiniteSetTheorems, TLAPS

Ids == Nat \ {0}

\* An operation in one of these steps holds its File:Tag; in the others it is a TAG that has
\* created a File:Tag and does not hold it yet.
Holding ==
    {"truncate", "write", "commit", "commit_found", "commit_link", "tag_link", "delete"}
Tagging == {"tag_source", "tag_copy"}

\* A COMMIT in one of these steps reads a string of the index of hashes.
Reading == {"commit_found", "commit_link"}

Has(f, i, b) == <<f, i, b>> \in links
Backed(m)    == m.size \div BlockSize <= Len(m.blocks)

\* The logical blocks of its copy of the metadata that an operation has linked, at each step.
Keeps(t) ==
    {i \in 1 .. Len(md[t].blocks) :
        /\ pc[t] \in {"write", "commit_link"} => i # pos[t]
        /\ pc[t] = "tag_link" => i < pos[t]
        /\ pc[t] = "delete" => i >= pos[t]}

LinksKept(t) ==
    \A i \in Ids, b \in Blocks :
        Has(file[t], i, b) <=> i \in Keeps(t) /\ b = md[t].blocks[i]

LinksMatch(f) ==
    \A i \in Ids, b \in Blocks :
        Has(f, i, b) <=> Exists(f) /\ i \in 1 .. Len(meta[f].blocks) /\ b = meta[f].blocks[i]

\* An operation that holds a File:Tag.
OpHolds(t) ==
    pc[t] \in Holding =>
        /\ file[t] \in FileTags /\ lock[file[t]] = t /\ Exists(file[t])
        /\ LinksKept(t)

\* The locals of an operation, at each step.
OpLocals(t) ==
    /\ pc[t] = "truncate" =>
         arg[t] \in Sizes /\ Len(md[t].blocks) = pos[t] /\ arg[t] \div BlockSize <= pos[t]
    /\ pc[t] = "write" => arg[t] \in Data /\ blk[t] \in Blocks
    /\ pc[t] \in {"write", "commit_found", "commit_link"} => pos[t] \in 1 .. Len(md[t].blocks)
    /\ pc[t] \in {"commit", "tag_link", "delete"} => pos[t] \in Ids
    /\ pc[t] \in {"write", "commit", "commit_found", "commit_link", "tag_copy", "tag_link"} =>
         Backed(md[t])
    /\ pc[t] = "tag_link" => meta[file[t]] = md[t]
    /\ pc[t] \in Tagging =>
         /\ file[t] \in FileTags /\ source[t] \in FileTags
         /\ lock[file[t]] = None /\ meta[file[t]] = EmptyFile

HeldBy(f, t) == lock[f] = t /\ pc[t] \in Holding /\ file[t] = f
HeldRight(f) == lock[f] # None => lock[f] \in Threads /\ HeldBy(f, lock[f])
FreeRight(f) == lock[f] = None => LinksMatch(f) /\ (Exists(f) => Backed(meta[f]))

TaggersApart ==
    \A s, t \in Threads : s # t /\ pc[s] \in Tagging /\ pc[t] \in Tagging => file[s] # file[t]

BlocksOK ==
    /\ \A f \in FileTags : Exists(f) => meta[f].blocks \in Seq(Blocks)
    /\ \A t \in Threads : md[t].blocks \in Seq(Blocks)

Right ==
    /\ BlocksOK
    /\ \A f \in FileTags : HeldRight(f) /\ FreeRight(f)
    /\ \A t \in Threads : OpHolds(t) /\ OpLocals(t)
    /\ TaggersApart

\* The inductive invariant: nothing is asked of the storage once it is dead.
FSInv == TypeOK /\ (up => Right)

-----------------------------------------------------------------------------
(* Lemmas about data.                                                      *)

\* What the assumptions say of the constants.
LEMMA Constants ==
    /\ Base \in FileTags /\ Zero \in Data /\ None \notin Threads /\ None \notin FileTags
    /\ None \notin Data /\ None \notin Nat /\ None \notin File
    /\ NBlocks \in Nat /\ 0 \in Blocks /\ Blocks \subseteq Bits /\ Bits \subseteq Nat
    /\ BlockSize \in Nat \ {0} /\ Sizes \subseteq Nat
<1>1. Blocks \subseteq Bits /\ 0 \in Blocks /\ Bits \subseteq Nat
  BY FSAssumption DEF Blocks, Bits
<1>2. ASSUME NEW s \in Seq(Bits) PROVE s \in Seq(Nat)
  BY <1>1, SeqMonotonic
<1>3. File \subseteq [size : Nat, blocks : Seq(Nat), committed : BOOLEAN]
  BY <1>2 DEF File
<1>4. Sizes \subseteq Nat
  BY FSAssumption
<1> QED BY FSAssumption, <1>1, <1>3, <1>4

\* A size in blocks.
LEMMA SizeInBlocks ==
    ASSUME NEW n \in Nat
    PROVE  n \div BlockSize \in Nat
BY FSAssumption

\* A disk of numbered blocks has sequences of bits only.
LEMMA BlocksAreBits ==
    ASSUME NEW s \in Seq(Blocks)
    PROVE  s \in Seq(Bits)
BY Constants, SeqMonotonic

\* The empty File:Tag.
LEMMA Empty ==
    /\ EmptyFile \in File /\ EmptyFile # None /\ EmptyFile.blocks \in Seq(Blocks)
    /\ Len(EmptyFile.blocks) = 0 /\ EmptyFile.size = 0 /\ Backed(EmptyFile)
<1>1. EmptyFile \in File
  BY DEF EmptyFile, File
<1>2. 0 \div BlockSize = 0
  BY FSAssumption
<1>3. EmptyFile.size = 0 /\ EmptyFile.blocks = <<>> /\ Len(EmptyFile.blocks) = 0
  BY DEF EmptyFile
<1>4. EmptyFile # None
  BY <1>1, Constants
<1> QED BY <1>1, <1>2, <1>3, <1>4 DEF Backed

\* unlink and link.
LEMMA Unlinked ==
    ASSUME NEW f \in FileTags, NEW i \in Ids, NEW g \in FileTags, NEW j \in Ids, NEW b \in Blocks
    PROVE  <<g, j, b>> \in Unlink(f, i) <=> Has(g, j, b) /\ ~(g = f /\ j = i)
BY DEF Unlink, Has

LEMMA NewlyLinked ==
    ASSUME NEW f \in FileTags, NEW i \in Ids, NEW c \in Blocks, ~Linked(f, i),
           NEW g \in FileTags, NEW j \in Ids, NEW b \in Blocks
    PROVE  <<g, j, b>> \in Link(f, i, c) <=> Has(g, j, b) \/ (g = f /\ j = i /\ b = c)
BY DEF Link, Has

LEMMA Lookup ==
    ASSUME TypeOK, NEW f \in FileTags, NEW i \in Ids
    PROVE  Linked(f, i) <=> \E b \in Blocks : Has(f, i, b)
<1>1. ASSUME NEW l \in links, l[1] = f, l[2] = i
      PROVE  l[3] \in Blocks /\ l = <<f, i, l[3]>>
  BY <1>1 DEF TypeOK
<1>2. Linked(f, i) => \E b \in Blocks : Has(f, i, b)
  BY <1>1 DEF Linked, Has
<1>3. ASSUME NEW b \in Blocks, Has(f, i, b) PROVE Linked(f, i)
  BY <1>3 DEF Linked, Has
<1> QED BY <1>2, <1>3

-----------------------------------------------------------------------------
(* A step of one thread and the others.                                    *)

\* What a step of t on the File:Tag f leaves alone: a DELETE may free the string of a COMMIT.
Alone(t, f) ==
    /\ \A s \in Threads \ {t} :
         /\ pc'[s] = pc[s] /\ file'[s] = file[s] /\ source'[s] = source[s] /\ md'[s] = md[s]
         /\ pos'[s] = pos[s] /\ arg'[s] = arg[s]
         /\ pc[s] \notin Reading => blk'[s] = blk[s]
    /\ \A g \in FileTags \ {f} :
         /\ meta'[g] = meta[g] /\ lock'[g] = lock[g]
         /\ \A i \in Ids, b \in Blocks : Has(g, i, b)' <=> Has(g, i, b)
    /\ lock[f] \in {None, t} /\ lock'[f] \in {None, t}
    /\ pc[t] \in Holding => file[t] = f

\* It is enough to look at t and f: the operations of the others stay right.
LEMMA OthersStay ==
    ASSUME TypeOK, Right, NEW t \in Threads, NEW f \in FileTags, ~OvertakesTag(t), Alone(t, f),
           BlocksOK', HeldRight(f)', FreeRight(f)', OpHolds(t)', OpLocals(t)',
           pc'[t] \in Tagging =>
             \A s \in Threads \ {t} : pc[s] \in Tagging => file[s] # file'[t]
    PROVE  Right'
<1>1. ASSUME NEW s \in Threads \ {t}, pc[s] \in Holding
      PROVE  file[s] \in FileTags \ {f}
  BY <1>1, Constants DEF Right, OpHolds, Alone
<1>2. ASSUME NEW s \in Threads \ {t} PROVE OpHolds(s)'
  <2> SUFFICES ASSUME pc'[s] \in Holding
               PROVE  /\ file'[s] \in FileTags /\ lock'[file'[s]] = s /\ Exists(file[s])'
                      /\ LinksKept(s)'
    BY DEF OpHolds
  <2>1. pc[s] \in Holding /\ pc'[s] = pc[s] /\ file'[s] = file[s] /\ md'[s] = md[s] /\ pos'[s] = pos[s]
    BY DEF Alone
  <2>2. file[s] \in FileTags \ {f} /\ lock[file[s]] = s /\ Exists(file[s]) /\ LinksKept(s)
    BY <2>1, <1>1 DEF Right, OpHolds
  <2>3. lock'[file[s]] = s /\ meta'[file[s]] = meta[file[s]]
    BY <2>2 DEF Alone
  <2>4. Keeps(s)' = Keeps(s)
    BY <2>1 DEF Keeps
  <2>5. LinksKept(s)'
    BY <2>1, <2>2, <2>4 DEF LinksKept, Alone
  <2> QED BY <2>1, <2>2, <2>3, <2>5 DEF Exists
<1>3. ASSUME NEW s \in Threads \ {t} PROVE OpLocals(s)'
  <2>1. OpLocals(s)
    BY DEF Right
  <2>2. /\ pc'[s] = pc[s] /\ file'[s] = file[s] /\ source'[s] = source[s] /\ md'[s] = md[s]
        /\ pos'[s] = pos[s] /\ arg'[s] = arg[s] /\ (pc[s] = "write" => blk'[s] = blk[s])
    BY DEF Alone, Reading
  <2>3. CASE pc[s] = "tag_link"
    <3>1. file[s] \in FileTags \ {f}
      BY <2>3, <1>1 DEF Holding
    <3>2. meta'[file[s]] = meta[file[s]]
      BY <3>1 DEF Alone
    <3> QED BY <2>1, <2>2, <2>3, <3>2 DEF OpLocals, Tagging, Backed
  <2>4. CASE pc[s] \in Tagging
    <3>1. file[s] \in FileTags /\ lock[file[s]] = None
      BY <2>1, <2>4 DEF OpLocals
    <3>2. lock'[file[s]] # t /\ meta'[file[s]] = meta[file[s]]
      BY <2>4 DEF OvertakesTag, Tagging
    <3>3. lock'[file[s]] = None
      BY <3>1, <3>2 DEF Alone
    <3> QED BY <2>1, <2>2, <2>4, <3>2, <3>3 DEF OpLocals, Tagging, Backed
  <2>5. CASE pc[s] # "tag_link" /\ pc[s] \notin Tagging
    BY <2>1, <2>2, <2>5 DEF OpLocals, Backed
  <2> QED BY <2>3, <2>4, <2>5
<1>4. ASSUME NEW g \in FileTags \ {f} PROVE HeldRight(g)' /\ FreeRight(g)'
  <2>1. meta'[g] = meta[g] /\ lock'[g] = lock[g]
    BY DEF Alone
  <2>2. LinksMatch(g)' <=> LinksMatch(g)
    BY <2>1 DEF LinksMatch, Alone, Exists
  <2>3. FreeRight(g)'
    BY <2>1, <2>2 DEF Right, FreeRight, Exists, Backed
  <2>4. ASSUME lock[g] # None PROVE lock[g] \in Threads \ {t} /\ HeldBy(g, lock[g])
    BY <2>4 DEF Right, HeldRight, HeldBy, Alone
  <2>5. HeldRight(g)'
    BY <2>1, <2>4 DEF HeldRight, HeldBy, Alone
  <2> QED BY <2>3, <2>5
<1>5. TaggersApart'
  <2> SUFFICES ASSUME NEW s \in Threads, NEW u \in Threads, s # u,
                      pc'[s] \in Tagging, pc'[u] \in Tagging
               PROVE  file'[s] # file'[u]
    BY DEF TaggersApart
  <2>1. CASE s # t /\ u # t
    BY <2>1 DEF Right, TaggersApart, Alone
  <2>2. CASE s = t \/ u = t
    BY <2>2 DEF Alone
  <2> QED BY <2>1, <2>2
<1> QED BY <1>2, <1>3, <1>4, <1>5 DEF Right

\* An idle thread has no operation to get wrong.
LEMMA Idle ==
    ASSUME NEW t \in Threads, pc'[t] \notin Holding \cup Tagging
    PROVE  OpHolds(t)' /\ OpLocals(t)'
BY DEF OpHolds, OpLocals, Holding, Tagging

\* The locals at the end of an operation and at its beginning.
LEMMA Ended ==
    ASSUME TypeOK, NEW t \in Threads, NoLocals(t)
    PROVE  /\ pc'[t] = "idle"
           /\ \A s \in Threads \ {t} :
                /\ pc'[s] = pc[s] /\ file'[s] = file[s] /\ source'[s] = source[s]
                /\ md'[s] = md[s] /\ pos'[s] = pos[s] /\ blk'[s] = blk[s] /\ arg'[s] = arg[s]
           /\ md'[t] = EmptyFile
           /\ pc' \in [Threads -> PCs] /\ file' \in [Threads -> FileTags \cup {None}]
           /\ source' \in [Threads -> FileTags \cup {None}] /\ md' \in [Threads -> File]
           /\ pos' \in [Threads -> Nat] /\ blk' \in [Threads -> Blocks \cup {None}]
           /\ arg' \in [Threads -> Sizes \cup Data \cup {None}]
BY Constants, Empty DEF TypeOK, NoLocals, PCs

LEMMA Begun ==
    ASSUME TypeOK, NEW t \in Threads, NEW f \in FileTags, Exists(f), NEW step \in PCs,
           NEW i \in Nat, NEW b \in Blocks, NEW x \in Sizes \cup Data \cup {None},
           Begin(t, f, step, i, b, x)
    PROVE  /\ pc'[t] = step /\ file'[t] = f /\ md'[t] = meta[f] /\ pos'[t] = i /\ arg'[t] = x
           /\ blk'[t] = b
           /\ \A s \in Threads \ {t} :
                /\ pc'[s] = pc[s] /\ file'[s] = file[s] /\ source'[s] = source[s]
                /\ md'[s] = md[s] /\ pos'[s] = pos[s] /\ blk'[s] = blk[s] /\ arg'[s] = arg[s]
           /\ pc' \in [Threads -> PCs] /\ file' \in [Threads -> FileTags \cup {None}]
           /\ source' \in [Threads -> FileTags \cup {None}] /\ md' \in [Threads -> File]
           /\ pos' \in [Threads -> Nat] /\ blk' \in [Threads -> Blocks \cup {None}]
           /\ arg' \in [Threads -> Sizes \cup Data \cup {None}]
<1>1. meta[f] \in File
  BY DEF TypeOK, Exists
<1> QED BY <1>1 DEF TypeOK, Begin

-----------------------------------------------------------------------------
(* Each action preserves the invariant.                                    *)

\* An idle thread starts on a File:Tag nobody holds, or a thread goes on with its own.
LEMMA Starts ==
    ASSUME Right, NEW t \in Threads, NEW f \in FileTags, pc[t] = "idle", lock[f] = None
    PROVE  LinksMatch(f) /\ (Exists(f) => Backed(meta[f]) /\ meta[f].blocks \in Seq(Blocks))
BY DEF Right, FreeRight, BlocksOK

LEMMA Continues ==
    ASSUME Right, NEW t \in Threads, pc[t] \in Holding
    PROVE  /\ file[t] \in FileTags /\ lock[file[t]] = t /\ Exists(file[t])
           /\ LinksKept(t) /\ OpLocals(t) /\ md[t].blocks \in Seq(Blocks)
BY DEF Right, OpHolds, BlocksOK

LEMMA CreateStep ==
    ASSUME TypeOK, Right, NEW t \in Threads, NEW f \in FileTags, ~OvertakesTag(t), Create(t, f)
    PROVE  TypeOK' /\ Right'
<1> USE DEF Create, Ready
<1>1. TypeOK'
  BY Empty DEF TypeOK, local
<1>2. lock[f] = None
  BY DEF Right, HeldRight, HeldBy, OpHolds, DirExists
<1>3. Alone(t, f)
  BY <1>2 DEF Alone, TypeOK, local, Has, Holding
<1>4. BlocksOK'
  BY Empty DEF Right, BlocksOK, TypeOK, local, Exists
<1>5. meta'[f] = EmptyFile
  BY DEF TypeOK
<1>6. \A i \in Ids, b \in Blocks : ~Has(f, i, b)'
  BY DEF DirExists, Has
<1>7. FreeRight(f)' /\ HeldRight(f)'
  BY <1>2, <1>5, <1>6, Empty DEF FreeRight, HeldRight, LinksMatch
<1>8. OpHolds(t)' /\ OpLocals(t)'
  BY Idle DEF local, Holding, Tagging
<1> QED BY <1>1, <1>3, <1>4, <1>7, <1>8, OthersStay DEF local, Tagging

LEMMA TruncateGrowStep ==
    ASSUME TypeOK, Right, NEW t \in Threads, NEW f \in FileTags, NEW n \in Sizes,
           ~OvertakesTag(t), TruncateGrow(t, f, n)
    PROVE  TypeOK' /\ Right'
<1> DEFINE old == meta[f].blocks
           needed == n \div BlockSize
           grown == [i \in 1..needed |-> IF i <= Len(old) THEN old[i] ELSE 0]
<1>1. /\ pc[t] = "idle" /\ lock[f] = None /\ Exists(f) /\ up
      /\ needed >= Len(old)
      /\ meta' = [meta EXCEPT ![f] = [size |-> n, committed |-> FALSE, blocks |-> grown]]
      /\ links' = links \cup NewLinks(f, Len(old) + 1, needed)
      /\ UNCHANGED <<content, used, hashes, up, lock, local>>
  BY DEF TruncateGrow, Opened, Ready
<1>2. LinksMatch(f) /\ old \in Seq(Blocks)
  BY <1>1, Starts
<1>3. needed \in Nat /\ n \in Nat
  BY SizeInBlocks, Constants
<1>4. Len(old) \in Nat
  BY <1>2, LenProperties
<1>5. grown \in Seq(Blocks) /\ Len(grown) = needed
  <2>1. \A i \in 1..needed : grown[i] \in Blocks
    BY <1>2, <1>3, <1>4, ElementOfSeq, Constants
  <2>2. grown \in [1..needed -> Blocks]
    BY <2>1
  <2> HIDE DEF grown, needed
  <2> QED BY <2>2, <1>3
<1>6. meta'[f].blocks = grown /\ meta'[f].size = n /\ meta'[f] \in File
  <2>1. meta'[f] = [size |-> n, committed |-> FALSE, blocks |-> grown]
    BY <1>1 DEF TypeOK
  <2> HIDE DEF grown, needed
  <2> QED BY <2>1, <1>3, <1>5, BlocksAreBits DEF File
<1>7. \A g \in FileTags \ {f} : meta'[g] = meta[g]
  BY <1>1 DEF TypeOK
<1>8. meta' \in [FileTags -> File \cup {None}]
  BY <1>1, <1>6, <1>7 DEF TypeOK
<1> HIDE DEF grown
<1>9. \A l \in NewLinks(f, Len(old) + 1, needed) :
         l \in FileTags \X Ids \X Blocks /\ l[1] = f
  BY <1>3, <1>4, Constants DEF NewLinks, Ids
<1>10. \A j \in Ids, b \in Blocks :
          <<f, j, b>> \in NewLinks(f, Len(old) + 1, needed)
            <=> j \in Len(old) + 1 .. needed /\ ~Linked(f, j) /\ b = 0
  BY DEF NewLinks
<1>11. TypeOK'
  <2>1. links' \subseteq FileTags \X (Nat \ {0}) \X Blocks
    BY <1>1, <1>9 DEF TypeOK, Ids
  <2> QED BY <1>1, <1>8, <2>1 DEF TypeOK, local
<1>12. ASSUME NEW g \in FileTags \ {f}, NEW i \in Ids, NEW b \in Blocks
       PROVE  Has(g, i, b)' <=> Has(g, i, b)
  BY <1>1, <1>9 DEF Has
<1>13. Alone(t, f)
  BY <1>1, <1>7, <1>12 DEF Alone, local, Holding
<1>14. BlocksOK'
  BY <1>1, <1>5, <1>6, <1>7 DEF Right, BlocksOK, local, Exists
<1>15. LinksMatch(f)'
  <2> SUFFICES ASSUME NEW i \in Ids, NEW b \in Blocks
               PROVE  Has(f, i, b)' <=> /\ Exists(f)' /\ i \in 1 .. Len(meta'[f].blocks)
                                        /\ b = meta'[f].blocks[i]
    BY DEF LinksMatch
  <2>1. Exists(f)'
    BY <1>6, Constants DEF Exists
  <2>2. Has(f, i, b)' <=> Has(f, i, b) \/ (i \in Len(old) + 1 .. needed /\ ~Linked(f, i) /\ b = 0)
    BY <1>1, <1>10 DEF Has
  <2>3. Has(f, i, b) <=> i \in 1 .. Len(old) /\ b = old[i]
    BY <1>1, <1>2 DEF LinksMatch
  <2>4. Linked(f, i) => i \in 1 .. Len(old)
    BY <1>1, <1>2, Lookup DEF LinksMatch
  <2>5. i \in 1 .. needed => grown[i] = IF i <= Len(old) THEN old[i] ELSE 0
    BY DEF grown
  <2> HIDE DEF needed, old
  <2>6. i \in 1 .. Len(old) => i \in 1 .. needed
    BY <1>1, <1>3, <1>4
  <2>7. i \in 1 .. needed /\ i \notin 1 .. Len(old) <=> i \in Len(old) + 1 .. needed
    BY <1>1, <1>3, <1>4 DEF Ids
  <2>8. i \in 1 .. Len(old) <=> i <= Len(old)
    BY <1>4 DEF Ids
  <2> QED BY <2>1, <2>2, <2>3, <2>4, <2>5, <2>6, <2>7, <2>8, <1>5, <1>6
<1>16. FreeRight(f)' /\ HeldRight(f)'
  BY <1>1, <1>3, <1>5, <1>6, <1>15 DEF FreeRight, HeldRight, Backed
<1>17. OpHolds(t)' /\ OpLocals(t)'
  BY <1>1, Idle DEF local, Holding, Tagging
<1> QED BY <1>1, <1>11, <1>13, <1>14, <1>16, <1>17, OthersStay DEF local, Tagging

\* An operation begins on an existing File:Tag nobody held, with its copy of the metadata, and
\* has taken from the disk only what it no longer keeps.
LEMMA HoldsOnBegin ==
    ASSUME TypeOK, Right, NEW t \in Threads, NEW f \in FileTags, ~OvertakesTag(t),
           pc[t] = "idle", lock[f] = None, Exists(f),
           NEW step \in Holding \ {"tag_link"}, NEW i \in Ids, NEW b \in Blocks,
           NEW x \in Sizes \cup Data \cup {None}, Begin(t, f, step, i, b, x), Acquire(t, f),
           UNCHANGED meta,
           links' = IF step \in {"write", "commit_link"} THEN Unlink(f, i) ELSE links,
           step \in {"write", "commit_found", "commit_link"} => i \in 1 .. Len(meta[f].blocks),
           step = "delete" => i = 1,
           step = "truncate" => /\ i = Len(meta[f].blocks)
                                /\ x \in Sizes /\ x \div BlockSize <= i,
           step = "write" => x \in Data /\ b \in Blocks
    PROVE  Right'
<1>1. /\ pc'[t] = step /\ file'[t] = f /\ md'[t] = meta[f] /\ pos'[t] = i /\ arg'[t] = x
      /\ blk'[t] = b
      /\ \A s \in Threads \ {t} :
           /\ pc'[s] = pc[s] /\ file'[s] = file[s] /\ source'[s] = source[s]
           /\ md'[s] = md[s] /\ pos'[s] = pos[s] /\ blk'[s] = blk[s] /\ arg'[s] = arg[s]
  BY Begun DEF Holding, PCs, Ids
<1>2. /\ lock'[f] = t
      /\ \A g \in FileTags \ {f} : lock'[g] = lock[g]
  BY DEF TypeOK, Acquire
<1>3. LinksMatch(f) /\ Backed(meta[f]) /\ meta[f].blocks \in Seq(Blocks)
  BY Starts
<1>4. ASSUME NEW g \in FileTags, NEW j \in Ids, NEW c \in Blocks
      PROVE  Has(g, j, c)' <=> /\ Has(g, j, c)
                               /\ step \in {"write", "commit_link"} => ~(g = f /\ j = i)
  BY Unlinked DEF Has
<1>5. Alone(t, f)
  BY <1>1, <1>2, <1>4 DEF Alone, Holding
<1>6. BlocksOK'
  BY <1>1, <1>3 DEF Right, BlocksOK, Exists
<1>7. LinksKept(t)'
  <2> SUFFICES ASSUME NEW j \in Ids, NEW c \in Blocks
               PROVE  Has(f, j, c)' <=> j \in Keeps(t)' /\ c = meta[f].blocks[j]
    BY <1>1 DEF LinksKept
  <2>1. Has(f, j, c) <=> j \in 1 .. Len(meta[f].blocks) /\ c = meta[f].blocks[j]
    BY <1>3 DEF LinksMatch
  <2>2. j \in Keeps(t)' <=> /\ j \in 1 .. Len(meta[f].blocks)
                            /\ step \in {"write", "commit_link"} => j # i
                            /\ step = "delete" => j >= i
    BY <1>1 DEF Keeps
  <2>3. step = "delete" => j >= i
    BY DEF Ids
  <2> QED BY <2>1, <2>2, <2>3, <1>4
<1>8. OpHolds(t)'
  BY <1>1, <1>2, <1>7 DEF OpHolds, Exists
<1>9. OpLocals(t)'
  BY <1>1, <1>3 DEF OpLocals, Holding, Tagging, Backed
<1>10. HeldRight(f)' /\ FreeRight(f)'
  BY <1>1, <1>2, Constants DEF HeldRight, HeldBy, FreeRight
<1>11. pc'[t] \notin Tagging
  BY <1>1 DEF Tagging, Holding
<1> QED BY <1>5, <1>6, <1>8, <1>9, <1>10, <1>11, OthersStay

LEMMA TruncateShrinkStep ==
    ASSUME TypeOK, Right, NEW t \in Threads, NEW f \in FileTags, NEW n \in Sizes,
           ~OvertakesTag(t), TruncateShrink(t, f, n)
    PROVE  TypeOK' /\ Right'
<1> DEFINE i == Len(meta[f].blocks)
<1>1. /\ pc[t] = "idle" /\ lock[f] = None /\ Exists(f)
      /\ n \div BlockSize < i
      /\ Acquire(t, f) /\ Begin(t, f, "truncate", i, 0, n)
      /\ UNCHANGED <<disk, up>>
  BY DEF TruncateShrink, Opened, Ready
<1>2. i \in Ids /\ n \div BlockSize <= i
  <2>1. i \in Nat
    BY <1>1, Starts, LenProperties
  <2>2. n \div BlockSize \in Nat
    BY SizeInBlocks, Constants
  <2> QED BY <1>1, <2>1, <2>2 DEF Ids
<1>3. TypeOK'
  <2>1. lock' \in [FileTags -> Threads \cup {None}]
    BY <1>1 DEF Acquire, TypeOK
  <2> HIDE DEF i
  <2>2. /\ pc' \in [Threads -> PCs] /\ file' \in [Threads -> FileTags \cup {None}]
        /\ source' \in [Threads -> FileTags \cup {None}] /\ md' \in [Threads -> File]
        /\ pos' \in [Threads -> Nat] /\ blk' \in [Threads -> Blocks \cup {None}]
        /\ arg' \in [Threads -> Sizes \cup Data \cup {None}]
    BY <1>1, <1>2, Begun, Constants DEF PCs, Ids
  <2> QED BY <1>1, <2>1, <2>2 DEF TypeOK, disk
<1> HIDE DEF i
<1>4. "truncate" \in Holding \ {"tag_link"}
  BY DEF Holding
<1> QED BY <1>1, <1>2, <1>3, <1>4, HoldsOnBegin, Constants DEF disk, i

\* An operation lets its File:Tag go when metadata and links say the same.
LEMMA ReleasesRight ==
    ASSUME TypeOK, Right, NEW t \in Threads, ~OvertakesTag(t), pc[t] \in Holding,
           NEW f \in FileTags, file[t] = f, NoLocals(t), Release(f),
           NEW m \in File \cup {None},
           meta'[f] = m, \A g \in FileTags \ {f} : meta'[g] = meta[g],
           m # None => m.blocks \in Seq(Blocks) /\ Backed(m),
           \A i \in Ids, b \in Blocks :
             Has(f, i, b)' <=> m # None /\ i \in 1 .. Len(m.blocks) /\ b = m.blocks[i],
           \A g \in FileTags \ {f}, i \in Ids, b \in Blocks : Has(g, i, b)' <=> Has(g, i, b)
    PROVE  Right'
<1>1. lock[f] = t
  BY Continues
<1>2. lock'[f] = None /\ \A g \in FileTags \ {f} : lock'[g] = lock[g]
  BY <1>1 DEF TypeOK, Release
<1>3. /\ pc'[t] = "idle" /\ md'[t] = EmptyFile
      /\ \A s \in Threads \ {t} :
           /\ pc'[s] = pc[s] /\ file'[s] = file[s] /\ source'[s] = source[s]
           /\ md'[s] = md[s] /\ pos'[s] = pos[s] /\ blk'[s] = blk[s] /\ arg'[s] = arg[s]
  BY Ended
<1>4. Alone(t, f)
  BY <1>1, <1>2, <1>3 DEF Alone
<1>5. BlocksOK'
  BY <1>3, Empty DEF Right, BlocksOK, Exists
<1>6. HeldRight(f)' /\ FreeRight(f)'
  BY <1>2 DEF HeldRight, FreeRight, LinksMatch, Backed, Exists
<1>7. OpHolds(t)' /\ OpLocals(t)'
  BY <1>3, Idle DEF Holding, Tagging
<1>8. pc'[t] \notin Tagging
  BY <1>3 DEF Tagging
<1> QED BY <1>4, <1>5, <1>6, <1>7, <1>8, OthersStay

\* A thread goes on with the File:Tag it holds.
LEMMA HoldsOn ==
    ASSUME TypeOK, Right, NEW t \in Threads, ~OvertakesTag(t), pc[t] \in Holding,
           pc'[t] \in Holding,
           UNCHANGED <<lock, file, source>>,
           \A s \in Threads \ {t} :
             /\ pc'[s] = pc[s] /\ md'[s] = md[s] /\ pos'[s] = pos[s] /\ arg'[s] = arg[s]
             /\ pc[s] \notin Reading => blk'[s] = blk[s],
           \A g \in FileTags \ {file[t]} :
             /\ meta'[g] = meta[g]
             /\ \A i \in Ids, b \in Blocks : Has(g, i, b)' <=> Has(g, i, b),
           Exists(file[t])', meta'[file[t]].blocks \in Seq(Blocks), md'[t].blocks \in Seq(Blocks),
           LinksKept(t)', OpLocals(t)'
    PROVE  Right'
<1>1. file[t] \in FileTags /\ lock[file[t]] = t
  BY Continues
<1>2. Alone(t, file[t])
  BY <1>1 DEF Alone
<1>3. BlocksOK'
  BY DEF Right, BlocksOK, Exists
<1>4. HeldRight(file[t])' /\ FreeRight(file[t])'
  BY <1>1, Constants DEF HeldRight, HeldBy, FreeRight
<1>5. OpHolds(t)'
  BY <1>1 DEF OpHolds
<1>6. pc'[t] \notin Tagging
  BY DEF Tagging, Holding
<1> QED BY <1>1, <1>2, <1>3, <1>4, <1>5, <1>6, OthersStay

LEMMA TruncateBlockStep ==
    ASSUME TypeOK, Right, NEW t \in Threads, ~OvertakesTag(t), TruncateBlock(t)
    PROVE  TypeOK' /\ Right'
<1> DEFINE f == file[t]
           i == pos[t]
           less == SubSeq(md[t].blocks, 1, i - 1)
<1>1. /\ pc[t] = "truncate" /\ pc[t] \in Holding
      /\ i > arg[t] \div BlockSize
      /\ links' = Unlink(f, i)
      /\ used' \subseteq used
      /\ md' = [md EXCEPT ![t].blocks = SubSeq(@, 1, i - 1)]
      /\ pos' = [pos EXCEPT ![t] = @ - 1]
      /\ UNCHANGED <<meta, content, hashes, up, lock, pc, file, source, blk, arg>>
  BY DEF TruncateBlock, Holding
<1>2. /\ f \in FileTags /\ lock[f] = t /\ Exists(f) /\ LinksKept(t)
      /\ md[t].blocks \in Seq(Blocks) /\ md[t] \in File
      /\ arg[t] \in Sizes /\ Len(md[t].blocks) = i
  BY <1>1, Continues DEF OpLocals, TypeOK
<1>3. i \in Ids /\ arg[t] \div BlockSize \in Nat /\ arg[t] \div BlockSize <= i - 1
  <2>1. arg[t] \div BlockSize \in Nat
    BY <1>2, SizeInBlocks, Constants
  <2>2. i \in Nat
    BY DEF TypeOK
  <2> QED BY <1>1, <2>1, <2>2 DEF Ids
<1>4. /\ less \in Seq(Blocks) /\ Len(less) = i - 1
      /\ \A j \in 1 .. i - 1 : less[j] = md[t].blocks[j]
  BY <1>2, <1>3, SubSeqProperties, ElementOfSeq DEF Ids
<1>5. /\ md'[t] = [md[t] EXCEPT !.blocks = less] /\ md'[t].blocks = less
      /\ md'[t] \in File
      /\ \A s \in Threads \ {t} : md'[s] = md[s]
      /\ pos'[t] = i - 1
      /\ \A s \in Threads \ {t} : pos'[s] = pos[s]
  <2>1. md'[t] = [md[t] EXCEPT !.blocks = less]
    BY <1>1 DEF TypeOK
  <2>2. md'[t].blocks = less /\ md'[t] \in File
    <3> HIDE DEF less
    <3> QED BY <2>1, <1>2, <1>4, BlocksAreBits DEF File
  <2> QED BY <1>1, <2>1, <2>2 DEF TypeOK
<1> HIDE DEF less
<1>6. TypeOK'
  <2>1. md' \in [Threads -> File]
    BY <1>1, <1>5 DEF TypeOK
  <2>2. pos' \in [Threads -> Nat]
    BY <1>1, <1>3 DEF TypeOK, Ids
  <2>3. links' \subseteq links
    BY <1>1 DEF Unlink
  <2> QED BY <1>1, <2>1, <2>2, <2>3 DEF TypeOK
<1>7. ASSUME NEW g \in FileTags, NEW j \in Ids, NEW c \in Blocks
      PROVE  Has(g, j, c)' <=> Has(g, j, c) /\ ~(g = f /\ j = i)
  BY <1>1, <1>2, <1>3, Unlinked DEF Has
<1>8. LinksKept(t)'
  <2> SUFFICES ASSUME NEW j \in Ids, NEW c \in Blocks
               PROVE  Has(f, j, c)' <=> j \in Keeps(t)' /\ c = less[j]
    BY <1>1, <1>5 DEF LinksKept
  <2>1. Has(f, j, c) <=> j \in 1 .. i /\ c = md[t].blocks[j]
    BY <1>1, <1>2 DEF LinksKept, Keeps
  <2>2. j \in Keeps(t)' <=> j \in 1 .. i - 1
    BY <1>1, <1>4, <1>5 DEF Keeps
  <2>3. j \in 1 .. i /\ j # i <=> j \in 1 .. i - 1
    BY <1>3 DEF Ids
  <2> QED BY <1>1, <1>2, <1>4, <1>7, <2>1, <2>2, <2>3
<1>9. OpLocals(t)'
  BY <1>1, <1>2, <1>3, <1>4, <1>5 DEF OpLocals, Tagging
<1>10. meta'[f].blocks \in Seq(Blocks) /\ Exists(f)'
  BY <1>1, <1>2 DEF Right, BlocksOK, Exists
<1> QED BY <1>1, <1>4, <1>5, <1>6, <1>7, <1>8, <1>9, <1>10, HoldsOn

LEMMA TruncateEndStep ==
    ASSUME TypeOK, Right, NEW t \in Threads, ~OvertakesTag(t), TruncateEnd(t)
    PROVE  TypeOK' /\ Right'
<1> PICK f \in FileTags : f = file[t] /\ LinksKept(t) /\ pc[t] = "truncate"
  BY Continues DEF TruncateEnd, Holding
<1> DEFINE m == [md[t] EXCEPT !.size = arg[t]]
<1>1. /\ pc[t] = "truncate" /\ pc[t] \in Holding
      /\ pos[t] = arg[t] \div BlockSize
      /\ meta' = [meta EXCEPT ![f] = m]
      /\ Release(f) /\ NoLocals(t)
      /\ UNCHANGED <<links, content, used, hashes, up>>
  BY DEF TruncateEnd, Holding
<1>2. /\ md[t].blocks \in Seq(Blocks) /\ md[t] \in File
      /\ arg[t] \in Nat /\ Len(md[t].blocks) = pos[t]
  BY <1>1, Continues, Constants DEF OpLocals, TypeOK
<1>3. m \in File /\ m.blocks = md[t].blocks /\ m.size = arg[t] /\ m # None
  BY <1>2, Constants DEF File
<1> HIDE DEF m
<1>4. Backed(m)
  BY <1>1, <1>2, <1>3, LenProperties DEF Backed
<1>5. meta'[f] = m /\ \A g \in FileTags \ {f} : meta'[g] = meta[g]
  BY <1>1, <1>2 DEF TypeOK
<1>6. TypeOK'
  <2>1. meta' \in [FileTags -> File \cup {None}] /\ lock' \in [FileTags -> Threads \cup {None}]
    BY <1>1, <1>2, <1>3 DEF TypeOK, Release
  <2> QED BY <1>1, <2>1, Ended DEF TypeOK
<1>7. ASSUME NEW i \in Ids, NEW b \in Blocks
      PROVE  Has(f, i, b)' <=> m # None /\ i \in 1 .. Len(m.blocks) /\ b = m.blocks[i]
  BY <1>1, <1>2, <1>3 DEF LinksKept, Keeps, Has
<1>8. \A g \in FileTags \ {f}, i \in Ids, b \in Blocks : Has(g, i, b)' <=> Has(g, i, b)
  BY <1>1 DEF Has
<1> QED BY <1>1, <1>2, <1>3, <1>4, <1>5, <1>6, <1>7, <1>8, ReleasesRight

\* What happens to the content of the blocks and to the bitmap changes nothing here.
LEMMA SameRight ==
    ASSUME Right, UNCHANGED <<meta, links, lock, local>>
    PROVE  Right'
<1>1. UNCHANGED <<meta, links, lock, pc, file, source, md, pos, blk, arg>>
  BY DEF local
<1>2. BlocksOK' /\ TaggersApart'
  BY <1>1 DEF Right, BlocksOK, TaggersApart, Exists
<1>3. ASSUME NEW f \in FileTags PROVE HeldRight(f)' /\ FreeRight(f)'
  BY <1>1 DEF Right, HeldRight, HeldBy, FreeRight, LinksMatch, Has, Exists, Backed
<1>4. ASSUME NEW t \in Threads PROVE OpHolds(t)' /\ OpLocals(t)'
  <2>1. OpHolds(t)'
    BY <1>1 DEF Right, OpHolds, LinksKept, Keeps, Has, Exists
  <2>2. OpLocals(t)'
    BY <1>1 DEF Right, OpLocals, Backed
  <2> QED BY <2>1, <2>2
<1> QED BY <1>2, <1>3, <1>4 DEF Right

\* A thread that holds nothing and takes nothing.
LEMMA LooseStep ==
    ASSUME TypeOK, Right, NEW t \in Threads, pc[t] \notin Holding, pc'[t] \notin Holding,
           UNCHANGED <<meta, links, lock>>,
           \A s \in Threads \ {t} :
             /\ pc'[s] = pc[s] /\ file'[s] = file[s] /\ source'[s] = source[s] /\ md'[s] = md[s]
             /\ pos'[s] = pos[s] /\ blk'[s] = blk[s] /\ arg'[s] = arg[s],
           md'[t].blocks \in Seq(Blocks), OpLocals(t)',
           pc'[t] \in Tagging => pc[t] \in Tagging /\ file'[t] = file[t]
    PROVE  Right'
<1>1. BlocksOK'
  BY DEF Right, BlocksOK, Exists
<1>2. TaggersApart'
  BY DEF Right, TaggersApart
<1>3. ASSUME NEW f \in FileTags PROVE HeldRight(f)' /\ FreeRight(f)'
  <2>1. lock[f] # None => lock[f] \in Threads \ {t} /\ HeldBy(f, lock[f])
    BY DEF Right, HeldRight, HeldBy
  <2>2. HeldRight(f)'
    BY <2>1 DEF HeldRight, HeldBy
  <2> QED BY <2>2 DEF Right, FreeRight, LinksMatch, Has, Exists, Backed
<1>4. ASSUME NEW s \in Threads \ {t} PROVE OpHolds(s)' /\ OpLocals(s)'
  <2>1. OpHolds(s)'
    BY DEF Right, OpHolds, LinksKept, Keeps, Has, Exists
  <2>2. OpLocals(s)'
    BY DEF Right, OpLocals, Backed
  <2> QED BY <2>1, <2>2
<1>5. OpHolds(t)'
  BY DEF OpHolds
<1> QED BY <1>1, <1>2, <1>3, <1>4, <1>5 DEF Right

LEMMA WriteInPlaceStep ==
    ASSUME TypeOK, Right, NEW t \in Threads, NEW f \in FileTags, NEW i \in 1 .. MaxLen,
           NEW d \in Data, WriteInPlace(t, f, i, d)
    PROVE  TypeOK' /\ Right'
<1>1. TypeOK'
  BY DEF WriteInPlace, TypeOK, local
<1> QED BY <1>1, SameRight DEF WriteInPlace

LEMMA WriteReserveStep ==
    ASSUME TypeOK, Right, NEW t \in Threads, NEW f \in FileTags, NEW i \in 1 .. MaxLen,
           NEW d \in Data, ~OvertakesTag(t), WriteReserve(t, f, i, d)
    PROVE  TypeOK' /\ Right'
<1>1. PICK b \in Blocks : used' = used \cup {b} /\ Begin(t, f, "write", i, b, d)
  BY DEF WriteReserve
<1>2. /\ pc[t] = "idle" /\ lock[f] = None /\ Exists(f)
      /\ i \in 1 .. Len(meta[f].blocks)
      /\ links' = Unlink(f, i) /\ Acquire(t, f)
      /\ UNCHANGED <<meta, content, hashes, up>>
  BY DEF WriteReserve, OpenedBlock, Opened, Ready
<1>3. i \in Ids /\ i \in Nat
  BY FSAssumption DEF Ids
<1>4. TypeOK'
  <2>1. lock' \in [FileTags -> Threads \cup {None}]
    BY <1>2 DEF Acquire, TypeOK
  <2>2. links' \subseteq links
    BY <1>2 DEF Unlink
  <2>3. used' \subseteq Bits
    BY <1>1, Constants DEF TypeOK
  <2>4. /\ pc' \in [Threads -> PCs] /\ file' \in [Threads -> FileTags \cup {None}]
        /\ source' \in [Threads -> FileTags \cup {None}] /\ md' \in [Threads -> File]
        /\ pos' \in [Threads -> Nat] /\ blk' \in [Threads -> Blocks \cup {None}]
        /\ arg' \in [Threads -> Sizes \cup Data \cup {None}]
    BY <1>1, <1>2, <1>3, Begun DEF PCs
  <2> QED BY <1>2, <2>1, <2>2, <2>3, <2>4 DEF TypeOK
<1>5. "write" \in Holding \ {"tag_link"}
  BY DEF Holding
<1> QED BY <1>1, <1>2, <1>3, <1>4, <1>5, HoldsOnBegin

LEMMA WriteLinkStep ==
    ASSUME TypeOK, Right, NEW t \in Threads, ~OvertakesTag(t), WriteLink(t)
    PROVE  TypeOK' /\ Right'
<1> PICK f \in FileTags : f = file[t] /\ LinksKept(t) /\ pc[t] = "write"
  BY Continues DEF WriteLink, Holding
<1> DEFINE i == pos[t]
           b == blk[t]
           m == [md[t] EXCEPT !.blocks[i] = b]
<1>1. /\ pc[t] \in Holding
      /\ meta' = [meta EXCEPT ![f] = m]
      /\ links' = Link(f, i, b)
      /\ content' = [content EXCEPT ![b] = arg[t]]
      /\ Release(f) /\ NoLocals(t)
      /\ UNCHANGED <<used, hashes, up>>
  BY DEF WriteLink, Holding
<1>2. /\ md[t].blocks \in Seq(Blocks) /\ md[t] \in File
      /\ arg[t] \in Data /\ i \in 1 .. Len(md[t].blocks) /\ Backed(md[t])
      /\ b \in Blocks
  BY <1>1, Continues DEF OpLocals, TypeOK
<1>3. i \in Ids
  BY <1>2, LenProperties DEF Ids
<1> DEFINE s == [md[t].blocks EXCEPT ![i] = b]
<1>4. /\ s \in Seq(Blocks) /\ Len(s) = Len(md[t].blocks)
      /\ \A j \in 1 .. Len(s) : s[j] = IF j = i THEN b ELSE md[t].blocks[j]
  BY <1>2, ExceptSeq
<1>5. m \in File /\ m.blocks = s /\ m.size = md[t].size /\ m # None
  <2>1. m = [md[t] EXCEPT !.blocks = s]
    BY <1>2 DEF File
  <2> HIDE DEF m, s
  <2> QED BY <1>2, <1>4, <2>1, BlocksAreBits, Constants DEF File
<1> HIDE DEF m, s
<1>6. Backed(m)
  BY <1>2, <1>4, <1>5 DEF Backed
<1>7. meta'[f] = m /\ \A g \in FileTags \ {f} : meta'[g] = meta[g]
  BY <1>1 DEF TypeOK
<1>8. ~Linked(f, i)
  BY <1>3, Lookup DEF LinksKept, Keeps
<1>9. ASSUME NEW g \in FileTags, NEW j \in Ids, NEW c \in Blocks
      PROVE  Has(g, j, c)' <=> Has(g, j, c) \/ (g = f /\ j = i /\ c = b)
  BY <1>1, <1>2, <1>3, <1>8, NewlyLinked DEF Has
<1>10. ASSUME NEW j \in Ids, NEW c \in Blocks
       PROVE  Has(f, j, c)' <=> m # None /\ j \in 1 .. Len(m.blocks) /\ c = m.blocks[j]
  <2>1. Has(f, j, c) <=> j \in 1 .. Len(md[t].blocks) /\ j # i /\ c = md[t].blocks[j]
    BY DEF LinksKept, Keeps
  <2> QED BY <1>2, <1>4, <1>5, <1>9, <2>1
<1>11. TypeOK'
  <2>1. meta' \in [FileTags -> File \cup {None}] /\ lock' \in [FileTags -> Threads \cup {None}]
    BY <1>1, <1>5 DEF TypeOK, Release
  <2>2. links' \subseteq FileTags \X (Nat \ {0}) \X Blocks
    BY <1>1, <1>2, <1>3, <1>8 DEF TypeOK, Link, Ids
  <2>3. content' \in [Blocks -> Data]
    BY <1>1, <1>2 DEF TypeOK
  <2> QED BY <1>1, <2>1, <2>2, <2>3, Ended DEF TypeOK
<1> QED BY <1>1, <1>4, <1>5, <1>6, <1>7, <1>9, <1>10, <1>11, ReleasesRight

\* The steps the process dies of.
LEMMA LastStep ==
    ASSUME TypeOK, Right, NEW t \in Threads, NEW f \in FileTags, NEW i \in 1 .. MaxLen,
           WriteBeyondDisk(t, f, i) \/ WriteNoSpace(t, f, i) \/ ReadPastEnd(t, f)
    PROVE  TypeOK' /\ ~up'
<1>1. CASE WriteNoSpace(t, f, i) \/ ReadPastEnd(t, f)
  BY <1>1 DEF WriteNoSpace, ReadPastEnd, TypeOK, disk, local
<1>2. CASE WriteBeyondDisk(t, f, i)
  <2>1. PICK b \in Bits : /\ used' = used \cup {b}
                          /\ meta' = [meta EXCEPT ![f].blocks[i] = b]
    BY <1>2 DEF WriteBeyondDisk, FreeBits
  <2>2. /\ Exists(f) /\ i \in 1 .. Len(meta[f].blocks)
        /\ links' = Unlink(f, i) /\ up' = FALSE
        /\ UNCHANGED <<content, hashes, lock, local>>
    BY <1>2 DEF WriteBeyondDisk, OpenedBlock, Opened
  <2>3. meta[f] \in File
    BY <2>2 DEF TypeOK, Exists
  <2> DEFINE s == [meta[f].blocks EXCEPT ![i] = b]
  <2>4. s \in Seq(Bits)
    BY <2>2, <2>3, ExceptSeq DEF File
  <2>5. meta'[f] = [meta[f] EXCEPT !.blocks = s]
    BY <2>1, <2>3 DEF TypeOK, File
  <2> HIDE DEF s
  <2>6. meta'[f] \in File
    BY <2>3, <2>4, <2>5 DEF File
  <2>7. meta' \in [FileTags -> File \cup {None}]
    BY <2>1, <2>6 DEF TypeOK
  <2>8. links' \subseteq links
    BY <2>2 DEF Unlink
  <2> QED BY <2>1, <2>2, <2>7, <2>8 DEF TypeOK, local
<1> QED BY <1>1, <1>2

LEMMA ReadLookupStep ==
    ASSUME TypeOK, Right, NEW t \in Threads, NEW f \in FileTags, NEW i \in 1 .. MaxLen,
           ReadLookup(t, f, i)
    PROVE  TypeOK' /\ Right'
<1> DEFINE b == meta[f].blocks[i]
<1>1. /\ pc[t] = "idle" /\ lock[f] = None /\ Exists(f)
      /\ i \in 1 .. Len(meta[f].blocks)
      /\ Begin(t, f, "read", i, b, None)
      /\ UNCHANGED <<disk, up, lock>>
  BY DEF ReadLookup, Opened, Ready
<1>2. meta[f].blocks \in Seq(Blocks) /\ b \in Blocks
  BY <1>1, Starts, ElementOfSeq
<1> HIDE DEF b
<1>3. i \in Nat
  BY FSAssumption
<1>4. /\ pc'[t] = "read" /\ md'[t] = meta[f]
      /\ \A s \in Threads \ {t} :
           /\ pc'[s] = pc[s] /\ file'[s] = file[s] /\ source'[s] = source[s]
           /\ md'[s] = md[s] /\ pos'[s] = pos[s] /\ blk'[s] = blk[s] /\ arg'[s] = arg[s]
      /\ pc' \in [Threads -> PCs] /\ file' \in [Threads -> FileTags \cup {None}]
      /\ source' \in [Threads -> FileTags \cup {None}] /\ md' \in [Threads -> File]
      /\ pos' \in [Threads -> Nat] /\ blk' \in [Threads -> Blocks \cup {None}]
      /\ arg' \in [Threads -> Sizes \cup Data \cup {None}]
  BY <1>1, <1>2, <1>3, Begun DEF PCs
<1>5. TypeOK'
  BY <1>1, <1>4 DEF TypeOK, disk
<1>6. OpLocals(t)'
  BY <1>4, Idle DEF Holding, Tagging
<1> QED BY <1>1, <1>2, <1>4, <1>5, <1>6, LooseStep DEF Holding, Tagging, disk

\* An operation that ends without holding a File:Tag.
LEMMA LooseEnd ==
    ASSUME TypeOK, Right, NEW t \in Threads, pc[t] \notin Holding, NoLocals(t),
           UNCHANGED <<disk, up, lock>>
    PROVE  TypeOK' /\ Right'
<1>1. TypeOK'
  BY Ended DEF TypeOK, disk
<1>2. pc'[t] = "idle" /\ md'[t].blocks \in Seq(Blocks)
  BY Ended, Empty
<1>3. OpLocals(t)'
  BY <1>2, Idle DEF Holding, Tagging
<1> QED BY <1>1, <1>2, <1>3, Ended, LooseStep DEF Holding, Tagging, disk

LEMMA CommitBeginStep ==
    ASSUME TypeOK, Right, NEW t \in Threads, NEW f \in FileTags, ~OvertakesTag(t),
           CommitBegin(t, f) \/ DeleteBegin(t, f)
    PROVE  TypeOK' /\ Right'
<1>1. PICK step \in {"commit", "delete"} : Begin(t, f, step, 1, 0, None)
  BY DEF CommitBegin, DeleteBegin
<1>2. /\ pc[t] = "idle" /\ lock[f] = None /\ Exists(f)
      /\ Acquire(t, f)
      /\ UNCHANGED <<disk, up>>
  BY DEF CommitBegin, DeleteBegin, Opened, Ready
<1>3. TypeOK'
  <2>1. step \in PCs /\ 1 \in Nat /\ 0 \in Blocks /\ None \in Sizes \cup Data \cup {None}
    BY Constants DEF PCs
  <2>2. lock' \in [FileTags -> Threads \cup {None}]
    BY <1>2 DEF Acquire, TypeOK
  <2>3. /\ pc' \in [Threads -> PCs] /\ file' \in [Threads -> FileTags \cup {None}]
        /\ source' \in [Threads -> FileTags \cup {None}] /\ md' \in [Threads -> File]
        /\ pos' \in [Threads -> Nat] /\ blk' \in [Threads -> Blocks \cup {None}]
        /\ arg' \in [Threads -> Sizes \cup Data \cup {None}]
    BY <1>1, <1>2, <2>1, Begun
  <2> QED BY <1>2, <2>2, <2>3 DEF TypeOK, disk
<1>4. /\ step \in Holding \ {"tag_link"}
      /\ step \notin {"write", "commit_found", "commit_link", "truncate"}
      /\ 1 \in Ids
  BY DEF Holding, Ids
<1> QED BY <1>1, <1>2, <1>3, <1>4, HoldsOnBegin, Constants DEF disk

LEMMA CommitKeepStep ==
    ASSUME TypeOK, Right, NEW t \in Threads, ~OvertakesTag(t), CommitKeep(t)
    PROVE  TypeOK' /\ Right'
<1> PICK f \in FileTags : f = file[t] /\ LinksKept(t) /\ Exists(f) /\ pc[t] = "commit"
  BY Continues DEF CommitKeep, InCommit, Holding
<1> DEFINE i == pos[t]
           b == md[t].blocks[i]
           h == ContentOf(f, i)
<1>1. /\ pc[t] \in Holding
      /\ i <= Len(md[t].blocks)
      /\ hashes' = [hashes EXCEPT ![h] = b]
      /\ pos' = [pos EXCEPT ![t] = @ + 1]
      /\ UNCHANGED <<meta, links, content, used, up, lock, pc, file, source, md, blk, arg>>
  BY DEF CommitKeep, InCommit, LoadHash, Holding
<1>2. md[t].blocks \in Seq(Blocks) /\ i \in Ids /\ OpLocals(t)
  BY <1>1, Continues DEF OpLocals
<1>3. b \in Blocks
  BY <1>1, <1>2, ElementOfSeq, LenProperties DEF Ids
<1> HIDE DEF h, b
<1>4. TypeOK'
  <2>1. hashes' \in [Data -> Blocks \cup {None}]
    BY <1>1, <1>3 DEF TypeOK
  <2>2. pos' \in [Threads -> Nat]
    BY <1>1 DEF TypeOK
  <2> QED BY <1>1, <2>1, <2>2 DEF TypeOK
<1>5. pos'[t] = i + 1 /\ \A s \in Threads \ {t} : pos'[s] = pos[s]
  BY <1>1 DEF TypeOK
<1>6. LinksKept(t)'
  BY <1>1 DEF LinksKept, Keeps, Has
<1>7. OpLocals(t)'
  BY <1>1, <1>2, <1>5 DEF OpLocals, Ids, Tagging, Backed
<1>8. meta'[file[t]].blocks \in Seq(Blocks) /\ Exists(file[t])'
  BY <1>1 DEF Right, BlocksOK, Exists
<1> QED BY <1>1, <1>2, <1>4, <1>5, <1>6, <1>7, <1>8, HoldsOn DEF Has

\* The content COMMIT hashes is one.
LEMMA HashesData ==
    ASSUME TypeOK, Right, NEW t \in Threads, InCommit(t)
    PROVE  ContentOf(file[t], pos[t]) \in Data
<1> PICK f \in FileTags : f = file[t] /\ LinksKept(t) /\ pc[t] = "commit"
  BY Continues DEF InCommit, Holding
<1> DEFINE i == pos[t]
<1>1. md[t].blocks \in Seq(Blocks) /\ i \in Ids /\ i \in 1 .. Len(md[t].blocks)
  BY Continues, LenProperties DEF OpLocals, Holding, InCommit, Ids
<1>2. Has(f, i, md[t].blocks[i])
  <2>1. md[t].blocks[i] \in Blocks
    BY <1>1, ElementOfSeq
  <2>2. i \in Keeps(t)
    BY <1>1 DEF Keeps
  <2> QED BY <1>1, <2>1, <2>2 DEF LinksKept
<1>3. \E l \in links : l[1] = f /\ l[2] = i
  BY <1>2 DEF Has
<1>4. Target(f, i) \in Blocks
  <2>1. (CHOOSE l \in links : l[1] = f /\ l[2] = i) \in links
    BY <1>3
  <2> QED BY <2>1 DEF Target, TypeOK
<1> QED BY <1>4 DEF ContentOf, TypeOK

LEMMA CommitFoundStep ==
    ASSUME TypeOK, Right, NEW t \in Threads, ~OvertakesTag(t), CommitFound(t)
    PROVE  TypeOK' /\ Right'
<1> PICK f \in FileTags : f = file[t] /\ LinksKept(t) /\ Exists(f) /\ pc[t] = "commit"
  BY Continues DEF CommitFound, InCommit, Holding
<1> DEFINE i == pos[t]
           h == ContentOf(f, i)
<1>1. /\ pc[t] \in Holding
      /\ i <= Len(md[t].blocks)
      /\ blk' = [blk EXCEPT ![t] = hashes[h]]
      /\ arg' = [arg EXCEPT ![t] = h]
      /\ pc' = [pc EXCEPT ![t] = "commit_found"]
      /\ UNCHANGED <<disk, up, lock, file, source, md, pos>>
  BY DEF CommitFound, InCommit, Holding
<1>2. md[t].blocks \in Seq(Blocks) /\ i \in Ids /\ OpLocals(t)
  BY <1>1, Continues DEF OpLocals
<1>3. i \in 1 .. Len(md[t].blocks)
  BY <1>1, <1>2, LenProperties DEF Ids
<1>4. h \in Data
  BY HashesData DEF CommitFound
<1> HIDE DEF h
<1>5. hashes[h] \in Blocks \cup {None}
  BY <1>4 DEF TypeOK
<1>6. TypeOK'
  BY <1>1, <1>4, <1>5 DEF TypeOK, PCs, disk
<1>7. /\ pc'[t] = "commit_found" /\ pc'[t] \in Holding
      /\ \A s \in Threads \ {t} : pc'[s] = pc[s] /\ blk'[s] = blk[s] /\ arg'[s] = arg[s]
  BY <1>1 DEF TypeOK, Holding
<1>8. LinksKept(t)'
  BY <1>1, <1>7 DEF LinksKept, Keeps, Has, disk
<1>9. OpLocals(t)'
  <2>1. md'[t] = md[t] /\ pos'[t] = i /\ Backed(md[t])
    BY <1>1, <1>2 DEF OpLocals
  <2> QED BY <1>3, <1>7, <2>1 DEF OpLocals, Tagging, Backed
<1>10. meta'[file[t]].blocks \in Seq(Blocks) /\ Exists(file[t])'
  BY <1>1 DEF Right, BlocksOK, Exists, disk
<1> QED BY <1>1, <1>2, <1>6, <1>7, <1>8, <1>9, <1>10, HoldsOn DEF Has, disk

\* What COMMIT does to its locals before the next logical block.
LEMMA NextBlock ==
    ASSUME TypeOK, NEW t \in Threads, CommitNext(t)
    PROVE  /\ pc'[t] = "commit" /\ pc'[t] \in Holding /\ pos'[t] = pos[t] + 1
           /\ \A u \in Threads \ {t} :
                pc'[u] = pc[u] /\ blk'[u] = blk[u] /\ pos'[u] = pos[u] /\ arg'[u] = arg[u]
           /\ pc' \in [Threads -> PCs] /\ pos' \in [Threads -> Nat]
           /\ blk' \in [Threads -> Blocks \cup {None}]
           /\ arg' \in [Threads -> Sizes \cup Data \cup {None}]
BY Constants DEF TypeOK, CommitNext, Holding, PCs

LEMMA CommitSameStep ==
    ASSUME TypeOK, Right, NEW t \in Threads, ~OvertakesTag(t), CommitSame(t)
    PROVE  TypeOK' /\ Right'
<1> PICK f \in FileTags : f = file[t] /\ LinksKept(t) /\ Exists(f) /\ pc[t] = "commit_found"
  BY Continues DEF CommitSame, Holding
<1>1. /\ pc[t] \in Holding
      /\ CommitNext(t)
      /\ UNCHANGED <<disk, up, lock, file, source, md>>
  BY DEF CommitSame, Holding
<1>2. md[t].blocks \in Seq(Blocks) /\ pos[t] \in Ids /\ OpLocals(t)
  BY <1>1, Continues, LenProperties DEF OpLocals, Ids
<1>3. TypeOK'
  BY <1>1, NextBlock DEF TypeOK, disk
<1>4. LinksKept(t)'
  BY <1>1, NextBlock DEF LinksKept, Keeps, Has, disk
<1>5. OpLocals(t)'
  BY <1>1, <1>2, NextBlock DEF OpLocals, Ids, Tagging, Backed
<1>6. meta'[file[t]].blocks \in Seq(Blocks) /\ Exists(file[t])'
  BY <1>1 DEF Right, BlocksOK, Exists, disk
<1> QED BY <1>1, <1>2, <1>3, <1>4, <1>5, <1>6, NextBlock, HoldsOn DEF Has, disk

LEMMA CommitUnlinkStep ==
    ASSUME TypeOK, Right, NEW t \in Threads, ~OvertakesTag(t), CommitUnlink(t)
    PROVE  TypeOK' /\ Right'
<1> PICK f \in FileTags : f = file[t] /\ LinksKept(t) /\ Exists(f) /\ pc[t] = "commit_found"
  BY Continues DEF CommitUnlink, Holding
<1> DEFINE i == pos[t]
<1>1. /\ pc[t] \in Holding
      /\ links' = Unlink(f, i)
      /\ pc' = [pc EXCEPT ![t] = "commit_link"]
      /\ UNCHANGED <<meta, content, used, hashes, up, lock, file, source, md, pos, blk, arg>>
  BY DEF CommitUnlink, Holding
<1>2. /\ md[t].blocks \in Seq(Blocks) /\ i \in 1 .. Len(md[t].blocks) /\ i \in Ids
      /\ OpLocals(t)
  BY <1>1, Continues, LenProperties DEF OpLocals, Ids
<1>3. TypeOK'
  <2>1. links' \subseteq links
    BY <1>1 DEF Unlink
  <2> QED BY <1>1, <2>1 DEF TypeOK, PCs
<1>4. /\ pc'[t] = "commit_link" /\ pc'[t] \in Holding
      /\ \A s \in Threads \ {t} : pc'[s] = pc[s]
  BY <1>1 DEF TypeOK, Holding
<1>5. ASSUME NEW g \in FileTags, NEW j \in Ids, NEW c \in Blocks
      PROVE  Has(g, j, c)' <=> Has(g, j, c) /\ ~(g = f /\ j = i)
  BY <1>1, <1>2, Unlinked DEF Has
<1>6. LinksKept(t)'
  <2> SUFFICES ASSUME NEW j \in Ids, NEW c \in Blocks
               PROVE  Has(f, j, c)' <=> j \in Keeps(t)' /\ c = md[t].blocks[j]
    BY <1>1 DEF LinksKept
  <2>1. Has(f, j, c) <=> j \in 1 .. Len(md[t].blocks) /\ c = md[t].blocks[j]
    BY DEF LinksKept, Keeps
  <2>2. j \in Keeps(t)' <=> j \in 1 .. Len(md[t].blocks) /\ j # i
    BY <1>1, <1>4 DEF Keeps
  <2> QED BY <1>5, <2>1, <2>2
<1>7. OpLocals(t)'
  <2>1. md'[t] = md[t] /\ pos'[t] = i /\ Backed(md[t])
    BY <1>1, <1>2 DEF OpLocals
  <2> QED BY <1>2, <1>4, <2>1 DEF OpLocals, Tagging, Backed
<1>8. meta'[file[t]].blocks \in Seq(Blocks) /\ Exists(file[t])'
  BY <1>1 DEF Right, BlocksOK, Exists
<1> QED BY <1>1, <1>2, <1>3, <1>4, <1>5, <1>6, <1>7, <1>8, HoldsOn

LEMMA CommitLinkStep ==
    ASSUME TypeOK, Right, NEW t \in Threads, ~OvertakesTag(t), CommitLink(t)
    PROVE  TypeOK' /\ Right'
<1> PICK f \in FileTags : f = file[t] /\ LinksKept(t) /\ Exists(f) /\ pc[t] = "commit_link"
  BY Continues DEF CommitLink, Holding
<1> DEFINE i == pos[t]
           b == blk[t]
           s == [md[t].blocks EXCEPT ![i] = b]
           m == [md[t] EXCEPT !.blocks[i] = b]
<1>1. /\ pc[t] \in Holding
      /\ links' = Link(f, i, b)
      /\ used' \subseteq used
      /\ md' = [md EXCEPT ![t].blocks[i] = b]
      /\ meta' = [meta EXCEPT ![f] = md'[t]]
      /\ CommitNext(t)
      /\ UNCHANGED <<content, hashes, up, lock, file, source>>
  BY DEF CommitLink, Reassign, Holding
<1>2. /\ md[t].blocks \in Seq(Blocks) /\ md[t] \in File
      /\ i \in 1 .. Len(md[t].blocks) /\ Backed(md[t])
      /\ b \in Blocks
  BY <1>1, Continues DEF OpLocals, TypeOK, CommitLink
<1>3. i \in Ids
  BY <1>2, LenProperties DEF Ids
<1>4. /\ s \in Seq(Blocks) /\ Len(s) = Len(md[t].blocks)
      /\ \A j \in 1 .. Len(s) : s[j] = IF j = i THEN b ELSE md[t].blocks[j]
  BY <1>2, ExceptSeq
<1>5. m \in File /\ m.blocks = s /\ m.size = md[t].size /\ m # None
  <2>1. m = [md[t] EXCEPT !.blocks = s]
    BY <1>2 DEF File
  <2> HIDE DEF m, s
  <2> QED BY <1>2, <1>4, <2>1, BlocksAreBits, Constants DEF File
<1>6. md'[t] = m /\ \A u \in Threads \ {t} : md'[u] = md[u]
  BY <1>1 DEF TypeOK
<1> HIDE DEF m, s
<1>7. meta'[f] = m /\ \A g \in FileTags \ {f} : meta'[g] = meta[g]
  BY <1>1, <1>6 DEF TypeOK
<1>8. ~Linked(f, i)
  BY <1>3, Lookup DEF LinksKept, Keeps
<1>9. ASSUME NEW g \in FileTags, NEW j \in Ids, NEW c \in Blocks
      PROVE  Has(g, j, c)' <=> Has(g, j, c) \/ (g = f /\ j = i /\ c = b)
  BY <1>1, <1>2, <1>3, <1>8, NewlyLinked DEF Has
<1>10. /\ pc'[t] = "commit" /\ pc'[t] \in Holding /\ pos'[t] = i + 1
       /\ \A u \in Threads \ {t} :
            pc'[u] = pc[u] /\ blk'[u] = blk[u] /\ pos'[u] = pos[u] /\ arg'[u] = arg[u]
  BY <1>1, NextBlock
<1>11. LinksKept(t)'
  <2> SUFFICES ASSUME NEW j \in Ids, NEW c \in Blocks
               PROVE  Has(f, j, c)' <=> j \in Keeps(t)' /\ c = s[j]
    BY <1>1, <1>5, <1>6 DEF LinksKept
  <2>1. Has(f, j, c) <=> j \in 1 .. Len(md[t].blocks) /\ j # i /\ c = md[t].blocks[j]
    BY DEF LinksKept, Keeps
  <2>2. j \in Keeps(t)' <=> j \in 1 .. Len(md[t].blocks)
    BY <1>4, <1>5, <1>6, <1>10 DEF Keeps
  <2> QED BY <1>2, <1>4, <1>9, <2>1, <2>2
<1>12. OpLocals(t)'
  <2>1. Backed(m)
    BY <1>2, <1>4, <1>5 DEF Backed
  <2>2. Backed(md[t])'
    BY <1>6, <2>1 DEF Backed
  <2>3. pos'[t] \in Ids
    BY <1>3, <1>10 DEF Ids
  <2> QED BY <1>10, <2>2, <2>3 DEF OpLocals, Tagging
<1>13. TypeOK'
  <2>1. meta' \in [FileTags -> File \cup {None}] /\ md' \in [Threads -> File]
    BY <1>1, <1>5, <1>6 DEF TypeOK
  <2>2. links' \subseteq FileTags \X (Nat \ {0}) \X Blocks
    BY <1>1, <1>2, <1>3, <1>8 DEF TypeOK, Link, Ids
  <2> QED BY <1>1, <2>1, <2>2, NextBlock DEF TypeOK
<1>14. Exists(file[t])' /\ meta'[file[t]].blocks \in Seq(Blocks) /\ md'[t].blocks \in Seq(Blocks)
  BY <1>1, <1>4, <1>5, <1>6, <1>7 DEF Exists
<1> QED BY <1>1, <1>6, <1>7, <1>9, <1>10, <1>11, <1>12, <1>13, <1>14, HoldsOn

\* A COMMIT that reads a freed string: as far as FilledSpec goes, it dies of it.
LEMMA CommitFreedStep ==
    ASSUME TypeOK, Right, NEW t \in Threads, CommitFreed(t), ~CommitsGarbage(t)
    PROVE  TypeOK' /\ ~up'
<1> DEFINE f == file[t]
           i == pos[t]
<1>1. /\ pc[t] \in {"commit_found", "commit_link"} /\ pc[t] \in Holding
      /\ CommitNext(t) /\ UNCHANGED <<content, hashes, lock, file, source>>
      /\ up' = FALSE
  BY DEF CommitFreed, CommitsGarbage, Holding
<1>2. /\ f \in FileTags /\ md[t] \in File /\ i \in 1 .. Len(md[t].blocks)
      /\ md[t].blocks \in Seq(Blocks)
  BY <1>1, Continues DEF OpLocals, TypeOK
<1>3. /\ meta' \in [FileTags -> File \cup {None}] /\ md' \in [Threads -> File]
      /\ used' \subseteq Bits /\ links' \subseteq FileTags \X (Nat \ {0}) \X Blocks
  <2>1. CASE UNCHANGED <<links, used, md, meta>>
    BY <2>1 DEF TypeOK
  <2>2. CASE links' \in Relinked(t) /\ \E n \in Blocks : Reassign(t, n)
    <3>1. PICK n \in Blocks : Reassign(t, n)
      BY <2>2
    <3> DEFINE s == [md[t].blocks EXCEPT ![i] = n]
    <3>2. s \in Seq(Blocks)
      BY <1>2, ExceptSeq
    <3>3. md' = [md EXCEPT ![t] = [md[t] EXCEPT !.blocks = s]]
      BY <1>2, <3>1 DEF Reassign, TypeOK, File
    <3> HIDE DEF s
    <3>4. [md[t] EXCEPT !.blocks = s] \in File
      BY <1>2, <3>2, BlocksAreBits DEF File
    <3>5. md' \in [Threads -> File]
      BY <3>3, <3>4 DEF TypeOK
    <3>6. meta' \in [FileTags -> File \cup {None}]
      BY <3>1, <3>5 DEF Reassign, TypeOK
    <3>7. used' \subseteq Bits
      BY <3>1 DEF Reassign, TypeOK
    <3>8. links' \subseteq Unlink(f, i) \cup {<<f, i, b>> : b \in Blocks}
      BY <2>2 DEF Relinked
    <3>9. i \in Nat \ {0}
      BY <1>2, LenProperties
    <3> QED BY <1>2, <3>5, <3>6, <3>7, <3>8, <3>9 DEF Unlink, TypeOK
  <2>3. CASE links' = Unlink(f, i) /\ UNCHANGED <<used, md, meta>>
    BY <2>3 DEF Unlink, TypeOK
  <2> QED BY <2>1, <2>2, <2>3 DEF CommitFreed
<1> QED BY <1>1, <1>3, NextBlock DEF TypeOK

LEMMA CommitEndStep ==
    ASSUME TypeOK, Right, NEW t \in Threads, ~OvertakesTag(t), CommitEnd(t)
    PROVE  TypeOK' /\ Right'
<1> PICK f \in FileTags : f = file[t] /\ LinksKept(t) /\ pc[t] = "commit"
  BY Continues DEF CommitEnd, Holding
<1> DEFINE m == [md[t] EXCEPT !.committed = TRUE]
<1>1. /\ pc[t] \in Holding
      /\ meta' = [meta EXCEPT ![f] = m]
      /\ Release(f) /\ NoLocals(t)
      /\ UNCHANGED <<links, content, used, hashes, up>>
  BY DEF CommitEnd, Holding
<1>2. md[t].blocks \in Seq(Blocks) /\ md[t] \in File /\ Backed(md[t])
  BY <1>1, Continues DEF OpLocals, TypeOK
<1>3. m \in File /\ m.blocks = md[t].blocks /\ m.size = md[t].size /\ m # None
  BY <1>2, Constants DEF File
<1> HIDE DEF m
<1>4. Backed(m)
  BY <1>2, <1>3 DEF Backed
<1>5. meta'[f] = m /\ \A g \in FileTags \ {f} : meta'[g] = meta[g]
  BY <1>1 DEF TypeOK
<1>6. TypeOK'
  <2>1. meta' \in [FileTags -> File \cup {None}] /\ lock' \in [FileTags -> Threads \cup {None}]
    BY <1>1, <1>3 DEF TypeOK, Release
  <2> QED BY <1>1, <2>1, Ended DEF TypeOK
<1>7. ASSUME NEW i \in Ids, NEW b \in Blocks
      PROVE  Has(f, i, b)' <=> m # None /\ i \in 1 .. Len(m.blocks) /\ b = m.blocks[i]
  BY <1>1, <1>3 DEF LinksKept, Keeps, Has
<1>8. \A g \in FileTags \ {f}, i \in Ids, b \in Blocks : Has(g, i, b)' <=> Has(g, i, b)
  BY <1>1 DEF Has
<1> QED BY <1>1, <1>2, <1>3, <1>4, <1>5, <1>6, <1>7, <1>8, ReleasesRight

LEMMA TagCreateStep ==
    ASSUME TypeOK, Right, NEW t \in Threads, NEW n \in FileTags, NEW o \in FileTags,
           ~OvertakesTag(t), TagCreate(t, n, o)
    PROVE  TypeOK' /\ Right'
<1>1. /\ pc[t] = "idle"
      /\ ~DirExists(n)
      /\ meta' = [meta EXCEPT ![n] = EmptyFile]
      /\ pc' = [pc EXCEPT ![t] = "tag_source"]
      /\ file' = [file EXCEPT ![t] = n]
      /\ source' = [source EXCEPT ![t] = o]
      /\ UNCHANGED <<links, content, used, hashes, up, lock, md, pos, blk, arg>>
  BY DEF TagCreate, Ready
<1>2. lock[n] = None
  BY <1>1 DEF Right, HeldRight, HeldBy, OpHolds, DirExists
<1>3. TypeOK'
  BY <1>1, Empty DEF TypeOK, PCs
<1>4. /\ meta'[n] = EmptyFile /\ \A g \in FileTags \ {n} : meta'[g] = meta[g]
      /\ pc'[t] = "tag_source" /\ file'[t] = n /\ source'[t] = o
      /\ \A s \in Threads \ {t} : pc'[s] = pc[s] /\ file'[s] = file[s] /\ source'[s] = source[s]
  BY <1>1 DEF TypeOK
<1>5. Alone(t, n)
  BY <1>1, <1>2, <1>4 DEF Alone, Has, Holding
<1>6. BlocksOK'
  BY <1>1, <1>4, Empty DEF Right, BlocksOK, Exists
<1>7. \A i \in Ids, b \in Blocks : ~Has(n, i, b)'
  BY <1>1 DEF DirExists, Has
<1>8. FreeRight(n)' /\ HeldRight(n)'
  BY <1>1, <1>2, <1>4, <1>7, Empty DEF FreeRight, HeldRight, LinksMatch
<1>9. OpHolds(t)' /\ OpLocals(t)'
  BY <1>1, <1>2, <1>4 DEF OpHolds, OpLocals, Holding, Tagging
<1>10. ASSUME NEW s \in Threads \ {t}, pc[s] \in Tagging PROVE file[s] # file'[t]
  BY <1>1, <1>4, <1>10, Empty DEF Right, OpLocals, DirExists, Exists
<1> QED BY <1>3, <1>5, <1>6, <1>8, <1>9, <1>10, OthersStay

LEMMA TagSourceStep ==
    ASSUME TypeOK, Right, NEW t \in Threads, TagSource(t)
    PROVE  TypeOK' /\ Right'
<1>1. pc[t] = "tag_source" /\ source[t] \in FileTags /\ OpLocals(t)
  BY DEF TagSource, Right, OpLocals, Tagging
<1> PICK o \in FileTags : o = source[t]
  BY <1>1
<1> DEFINE m == [meta[o] EXCEPT !.committed = FALSE]
<1>2. /\ lock[o] = None /\ Exists(o)
      /\ md' = [md EXCEPT ![t] = m]
      /\ pc' = [pc EXCEPT ![t] = "tag_copy"]
      /\ UNCHANGED <<disk, up, lock, file, source, pos, blk, arg>>
  BY DEF TagSource
<1>3. meta[o] \in File /\ meta[o].blocks \in Seq(Blocks) /\ Backed(meta[o])
  BY <1>2 DEF TypeOK, Exists, Right, BlocksOK, FreeRight
<1>4. m \in File /\ m.blocks = meta[o].blocks /\ m.size = meta[o].size
  BY <1>3 DEF File
<1> HIDE DEF m
<1>5. /\ md'[t] = m /\ pc'[t] = "tag_copy"
      /\ \A s \in Threads \ {t} : md'[s] = md[s] /\ pc'[s] = pc[s]
  BY <1>2 DEF TypeOK
<1>6. TypeOK'
  BY <1>2, <1>4 DEF TypeOK, PCs, disk
<1>7. Backed(md[t])'
  BY <1>3, <1>4, <1>5 DEF Backed
<1>8. OpLocals(t)'
  BY <1>1, <1>2, <1>5, <1>7 DEF OpLocals, Tagging, disk
<1> QED BY <1>1, <1>2, <1>3, <1>4, <1>5, <1>6, <1>8, LooseStep DEF Holding, Tagging, disk

LEMMA TagCopyStep ==
    ASSUME TypeOK, Right, NEW t \in Threads, ~OvertakesTag(t), TagCopy(t)
    PROVE  TypeOK' /\ Right'
<1>1. pc[t] = "tag_copy" /\ file[t] \in FileTags /\ OpLocals(t)
  BY DEF TagCopy, Right, OpLocals, Tagging
<1> PICK f \in FileTags : f = file[t]
  BY <1>1
<1>2. lock[f] = None /\ meta[f] = EmptyFile /\ Exists(f) /\ Backed(md[t])
  BY <1>1, Empty DEF OpLocals, Tagging, Exists
<1>3. /\ Acquire(t, f)
      /\ meta' = [meta EXCEPT ![f] = md[t]]
      /\ pos' = [pos EXCEPT ![t] = 1]
      /\ pc' = [pc EXCEPT ![t] = "tag_link"]
      /\ UNCHANGED <<links, content, used, hashes, up, file, source, md, blk, arg>>
  BY <1>2 DEF TagCopy, DirExists
<1>4. /\ lock'[f] = t /\ \A g \in FileTags \ {f} : lock'[g] = lock[g]
      /\ meta'[f] = md[t] /\ \A g \in FileTags \ {f} : meta'[g] = meta[g]
      /\ pc'[t] = "tag_link" /\ pos'[t] = 1
      /\ \A s \in Threads \ {t} : pc'[s] = pc[s] /\ pos'[s] = pos[s]
  BY <1>3 DEF TypeOK, Acquire
<1>5. md[t] \in File /\ md[t] # None /\ md[t].blocks \in Seq(Blocks)
  BY Constants DEF TypeOK, Right, BlocksOK
<1>6. TypeOK'
  <2>1. meta' \in [FileTags -> File \cup {None}] /\ lock' \in [FileTags -> Threads \cup {None}]
    BY <1>3, <1>5 DEF TypeOK, Acquire
  <2>2. pos' \in [Threads -> Nat] /\ pc' \in [Threads -> PCs]
    BY <1>3 DEF TypeOK, PCs
  <2> QED BY <1>3, <2>1, <2>2 DEF TypeOK
<1>7. Alone(t, f)
  BY <1>1, <1>2, <1>3, <1>4 DEF Alone, Has, Holding
<1>8. BlocksOK'
  BY <1>3, <1>4, <1>5 DEF Right, BlocksOK, Exists
<1>9. LinksKept(t)'
  <2>1. \A i \in Ids, b \in Blocks : ~Has(f, i, b)
    BY <1>2, Empty DEF Right, FreeRight, LinksMatch
  <2>2. \A i \in Ids : i \notin Keeps(t)'
    BY <1>4 DEF Keeps, Ids
  <2> QED BY <1>3, <2>1, <2>2 DEF LinksKept, Has
<1>10. OpHolds(t)' /\ OpLocals(t)'
  BY <1>2, <1>3, <1>4, <1>5, <1>9 DEF OpHolds, OpLocals, Tagging, Backed, Exists, Ids
<1>11. HeldRight(f)' /\ FreeRight(f)'
  BY <1>3, <1>4, Constants DEF HeldRight, HeldBy, FreeRight, Holding
<1>12. pc'[t] \notin Tagging
  BY <1>4 DEF Tagging
<1> QED BY <1>6, <1>7, <1>8, <1>10, <1>11, <1>12, OthersStay

LEMMA TagLinkStep ==
    ASSUME TypeOK, Right, NEW t \in Threads, ~OvertakesTag(t), TagLink(t)
    PROVE  TypeOK' /\ Right'
<1> PICK f \in FileTags : f = file[t] /\ LinksKept(t) /\ Exists(f) /\ pc[t] = "tag_link"
  BY Continues DEF TagLink, Holding
<1> DEFINE i == pos[t]
           b == md[t].blocks[i]
<1>1. /\ pc[t] \in Holding
      /\ i <= Len(md[t].blocks) /\ ~Linked(f, i)
      /\ links' = Link(f, i, b)
      /\ pos' = [pos EXCEPT ![t] = @ + 1]
      /\ UNCHANGED <<meta, content, used, hashes, up, lock, pc, file, source, md, blk, arg>>
  BY DEF TagLink, Holding
<1>2. md[t].blocks \in Seq(Blocks) /\ i \in Ids /\ OpLocals(t) /\ Len(md[t].blocks) \in Nat
  BY <1>1, Continues, LenProperties DEF OpLocals
<1>3. b \in Blocks
  BY <1>1, <1>2, ElementOfSeq DEF Ids
<1>4. pos'[t] = i + 1 /\ \A s \in Threads \ {t} : pos'[s] = pos[s]
  BY <1>1 DEF TypeOK
<1>5. ASSUME NEW g \in FileTags, NEW j \in Ids, NEW c \in Blocks
      PROVE  Has(g, j, c)' <=> Has(g, j, c) \/ (g = f /\ j = i /\ c = b)
  BY <1>1, <1>2, <1>3, NewlyLinked DEF Has
<1>6. LinksKept(t)'
  <2> SUFFICES ASSUME NEW j \in Ids, NEW c \in Blocks
               PROVE  Has(f, j, c)' <=> j \in Keeps(t)' /\ c = md[t].blocks[j]
    BY <1>1 DEF LinksKept
  <2>1. Has(f, j, c) <=> j \in 1 .. Len(md[t].blocks) /\ j < i /\ c = md[t].blocks[j]
    BY DEF LinksKept, Keeps
  <2>2. j \in Keeps(t)' <=> j \in 1 .. Len(md[t].blocks) /\ j < i + 1
    BY <1>1, <1>4 DEF Keeps
  <2>3. j \in 1 .. Len(md[t].blocks) /\ j < i + 1
          <=> j = i \/ (j \in 1 .. Len(md[t].blocks) /\ j < i)
    BY <1>1, <1>2 DEF Ids
  <2> HIDE DEF i
  <2>4. i \notin {k \in Ids : k < i}
    BY <1>2 DEF Ids
  <2> QED BY <1>5, <2>1, <2>2, <2>3
<1>7. TypeOK'
  <2>1. links' \subseteq FileTags \X (Nat \ {0}) \X Blocks
    BY <1>1, <1>2, <1>3 DEF TypeOK, Link, Ids
  <2>2. pos' \in [Threads -> Nat]
    BY <1>1 DEF TypeOK
  <2> QED BY <1>1, <2>1, <2>2 DEF TypeOK
<1>8. OpLocals(t)'
  BY <1>1, <1>2, <1>4 DEF OpLocals, Ids, Tagging, Backed
<1>9. Exists(file[t])' /\ meta'[file[t]].blocks \in Seq(Blocks)
  BY <1>1 DEF Right, BlocksOK, Exists
<1> QED BY <1>1, <1>2, <1>4, <1>5, <1>6, <1>7, <1>8, <1>9, HoldsOn

\* While nobody overtakes a TAG, the link it makes is never there already.
LEMMA TagLinkNeverFails ==
    ASSUME TypeOK, Right, NEW t \in Threads
    PROVE  ~TagLinkFails(t)
<1> SUFFICES ASSUME TagLinkFails(t) PROVE FALSE
  OBVIOUS
<1>1. pc[t] = "tag_link" /\ (~DirExists(file[t]) \/ Linked(file[t], pos[t]))
  BY DEF TagLinkFails
<1>2. /\ file[t] \in FileTags /\ Exists(file[t]) /\ LinksKept(t)
      /\ pos[t] \in Ids /\ pos[t] \notin Keeps(t)
  BY <1>1, Continues DEF Holding, OpLocals, Keeps, Ids
<1>3. ~Linked(file[t], pos[t])
  BY <1>2, Lookup DEF LinksKept
<1> QED BY <1>1, <1>2, <1>3 DEF DirExists

LEMMA TagEndStep ==
    ASSUME TypeOK, Right, NEW t \in Threads, ~OvertakesTag(t), TagEnd(t)
    PROVE  TypeOK' /\ Right'
<1> PICK f \in FileTags : f = file[t] /\ LinksKept(t) /\ Exists(f) /\ pc[t] = "tag_link"
  BY Continues DEF TagEnd, Holding
<1>1. /\ pc[t] \in Holding
      /\ pos[t] > Len(md[t].blocks)
      /\ Release(f) /\ NoLocals(t)
      /\ UNCHANGED <<disk, up>>
  BY DEF TagEnd, Holding
<1> DEFINE m == md[t]
<1>2. /\ m.blocks \in Seq(Blocks) /\ m \in File /\ Backed(m) /\ meta[f] = m /\ pos[t] \in Nat
      /\ m # None
  BY <1>1, Continues, Constants DEF OpLocals, TypeOK
<1>3. meta'[f] = m /\ \A g \in FileTags \ {f} : meta'[g] = meta[g]
  BY <1>1, <1>2 DEF disk
<1>4. TypeOK'
  <2>1. lock' \in [FileTags -> Threads \cup {None}]
    BY <1>1 DEF TypeOK, Release
  <2> QED BY <1>1, <2>1, Ended DEF TypeOK, disk
<1>5. ASSUME NEW i \in Ids, NEW b \in Blocks
      PROVE  Has(f, i, b)' <=> m # None /\ i \in 1 .. Len(m.blocks) /\ b = m.blocks[i]
  <2>1. Has(f, i, b)' <=> Has(f, i, b)
    BY <1>1 DEF Has, disk
  <2>2. i \in Keeps(t) <=> i \in 1 .. Len(m.blocks)
    BY <1>1, <1>2, LenProperties DEF Keeps
  <2> QED BY <1>2, <2>1, <2>2 DEF LinksKept
<1>6. \A g \in FileTags \ {f}, i \in Ids, b \in Blocks : Has(g, i, b)' <=> Has(g, i, b)
  BY <1>1 DEF Has, disk
<1> HIDE DEF m
<1> QED BY <1>1, <1>2, <1>3, <1>4, <1>5, <1>6, ReleasesRight

LEMMA DeleteBlockStep ==
    ASSUME TypeOK, Right, NEW t \in Threads, ~OvertakesTag(t), DeleteBlock(t)
    PROVE  TypeOK' /\ Right'
<1> PICK f \in FileTags : f = file[t] /\ LinksKept(t) /\ Exists(f) /\ pc[t] = "delete"
  BY Continues DEF DeleteBlock, InDelete, Holding
<1> DEFINE i == pos[t]
<1>1. /\ pc[t] \in Holding
      /\ i <= Len(md[t].blocks)
      /\ links' = Unlink(f, i)
      /\ UNCHANGED <<hashes, blk>> \/ RemoveHash(ContentOf(f, i))
      /\ used' \subseteq used
      /\ pos' = [pos EXCEPT ![t] = @ + 1]
      /\ UNCHANGED <<meta, content, up, lock, pc, file, source, md, arg>>
  BY DEF DeleteBlock, InDelete, Holding
<1>2. md[t].blocks \in Seq(Blocks) /\ i \in Ids /\ OpLocals(t) /\ Len(md[t].blocks) \in Nat
  BY <1>1, Continues, LenProperties DEF OpLocals
<1>3. pos'[t] = i + 1 /\ \A s \in Threads \ {t} : pos'[s] = pos[s]
  BY <1>1 DEF TypeOK
<1>4. TypeOK'
  <2>1. links' \subseteq links
    BY <1>1 DEF Unlink
  <2>2. pos' \in [Threads -> Nat]
    BY <1>1 DEF TypeOK
  <2>3. hashes' \in [Data -> Blocks \cup {None}]
    <3> DEFINE h == ContentOf(f, i)
    <3>1. hashes' = hashes \/ hashes' = [hashes EXCEPT ![h] = None]
      BY <1>1 DEF RemoveHash
    <3> HIDE DEF h
    <3> QED BY <3>1 DEF TypeOK
  <2>4. blk' \in [Threads -> Blocks \cup {None}]
    BY <1>1 DEF RemoveHash, TypeOK
  <2> QED BY <1>1, <2>1, <2>2, <2>3, <2>4 DEF TypeOK
<1>5. ASSUME NEW g \in FileTags, NEW j \in Ids, NEW c \in Blocks
      PROVE  Has(g, j, c)' <=> Has(g, j, c) /\ ~(g = f /\ j = i)
  BY <1>1, <1>2, Unlinked DEF Has
<1>6. LinksKept(t)'
  <2> SUFFICES ASSUME NEW j \in Ids, NEW c \in Blocks
               PROVE  Has(f, j, c)' <=> j \in Keeps(t)' /\ c = md[t].blocks[j]
    BY <1>1 DEF LinksKept
  <2>1. Has(f, j, c) <=> j \in 1 .. Len(md[t].blocks) /\ j >= i /\ c = md[t].blocks[j]
    BY DEF LinksKept, Keeps
  <2>2. j \in Keeps(t)' <=> j \in 1 .. Len(md[t].blocks) /\ j >= i + 1
    BY <1>1, <1>3 DEF Keeps
  <2>3. j >= i + 1 <=> j >= i /\ j # i
    BY <1>2 DEF Ids
  <2> QED BY <1>5, <2>1, <2>2, <2>3
<1>7. OpLocals(t)'
  BY <1>1, <1>2, <1>3 DEF OpLocals, Ids, Tagging, Backed
<1>8. Exists(file[t])' /\ meta'[file[t]].blocks \in Seq(Blocks)
  BY <1>1 DEF Right, BlocksOK, Exists
<1>9. \A s \in Threads \ {t} : pc[s] \notin Reading => blk'[s] = blk[s]
  BY <1>1 DEF RemoveHash, Reads, Reading
<1> QED BY <1>1, <1>2, <1>3, <1>4, <1>5, <1>6, <1>7, <1>8, <1>9, HoldsOn

LEMMA DeleteEndStep ==
    ASSUME TypeOK, Right, NEW t \in Threads, ~OvertakesTag(t), DeleteEnd(t)
    PROVE  TypeOK' /\ Right'
<1> PICK f \in FileTags : f = file[t] /\ LinksKept(t) /\ pc[t] = "delete"
  BY Continues DEF DeleteEnd, Holding
<1>1. /\ pc[t] \in Holding
      /\ pos[t] > Len(md[t].blocks)
      /\ meta' = [meta EXCEPT ![f] = None]
      /\ Release(f) /\ NoLocals(t)
      /\ UNCHANGED <<links, content, used, hashes, up>>
  BY DEF DeleteEnd, Holding
<1>2. md[t].blocks \in Seq(Blocks) /\ pos[t] \in Nat
  BY <1>1, Continues DEF TypeOK
<1>3. meta'[f] = None /\ \A g \in FileTags \ {f} : meta'[g] = meta[g]
  BY <1>1 DEF TypeOK
<1>4. TypeOK'
  <2>1. meta' \in [FileTags -> File \cup {None}] /\ lock' \in [FileTags -> Threads \cup {None}]
    BY <1>1 DEF TypeOK, Release
  <2> QED BY <1>1, <2>1, Ended DEF TypeOK
<1>5. ASSUME NEW i \in Ids, NEW b \in Blocks
      PROVE  ~Has(f, i, b)'
  <2>1. i \notin Keeps(t)
    BY <1>1, <1>2, LenProperties DEF Keeps
  <2> QED BY <1>1, <2>1 DEF LinksKept, Has
<1>6. \A g \in FileTags \ {f}, i \in Ids, b \in Blocks : Has(g, i, b)' <=> Has(g, i, b)
  BY <1>1 DEF Has
<1> QED BY <1>1, <1>3, <1>4, <1>5, <1>6, ReleasesRight

-----------------------------------------------------------------------------
(* The invariant.                                                          *)

\* The only File:Tag of a new disk.
LEMMA BaseFile ==
    LET base == [EmptyFile EXCEPT !.blocks = <<0>>]
    IN  base \in File /\ base.blocks = <<0>> /\ base.size = 0 /\ base # None
<1> DEFINE base == [EmptyFile EXCEPT !.blocks = <<0>>]
<1>1. base.blocks = <<0>> /\ base.size = EmptyFile.size /\ base.committed = EmptyFile.committed
  BY DEF EmptyFile
<1>2. EmptyFile.size = 0 /\ EmptyFile.committed = FALSE
  BY DEF EmptyFile
<1>3. <<0>> \in Seq(Bits)
  BY Constants
<1>4. ASSUME NEW F \in File, NEW s \in Seq(Bits) PROVE [F EXCEPT !.blocks = s] \in File
  BY DEF File
<1>5. base \in File
  BY <1>3, <1>4, Empty
<1> QED BY <1>1, <1>2, <1>5, Constants

\* At start there is only Base, one block of zeros.
LEMMA InvInit ==
    ASSUME Init
    PROVE  FSInv
<1> USE DEF Init
<1> DEFINE base == [EmptyFile EXCEPT !.blocks = <<0>>]
<1>1. base \in File /\ base.blocks = <<0>> /\ base.size = 0 /\ base # None
  BY BaseFile
<1>2. meta[Base] = base /\ \A f \in FileTags \ {Base} : meta[f] = None
  BY Constants
<1>3. <<0>> \in Seq(Blocks) /\ Len(<<0>>) = 1
  BY Constants
<1>4. Backed(base)
  BY <1>1, FSAssumption DEF Backed
<1> HIDE DEF base
<1>5. TypeOK
  <2>1. meta \in [FileTags -> File \cup {None}]
    BY <1>1, <1>2
  <2>2. links \subseteq FileTags \X (Nat \ {0}) \X Blocks /\ used \subseteq Bits
    BY Constants
  <2>3. hashes \in [Data -> Blocks \cup {None}] /\ content \in [Blocks -> Data]
    BY Constants
  <2>4. /\ md \in [Threads -> File] /\ pc \in [Threads -> PCs] /\ blk \in [Threads -> Blocks \cup {None}]
        /\ pos \in [Threads -> Nat] /\ file \in [Threads -> FileTags \cup {None}]
        /\ source \in [Threads -> FileTags \cup {None}]
        /\ arg \in [Threads -> Sizes \cup Data \cup {None}]
    BY Empty, Constants DEF PCs
  <2> QED BY <2>1, <2>2, <2>3, <2>4 DEF TypeOK
<1>6. BlocksOK
  BY <1>1, <1>2, <1>3, Empty DEF BlocksOK, Exists
<1>7. \A t \in Threads : OpHolds(t) /\ OpLocals(t)
  BY DEF OpHolds, OpLocals, Holding, Tagging
<1>8. TaggersApart
  BY DEF TaggersApart, Tagging
<1>9. ASSUME NEW f \in FileTags PROVE HeldRight(f) /\ FreeRight(f)
  <2>1. ASSUME NEW i \in Ids, NEW b \in Blocks PROVE Has(f, i, b) <=> f = Base /\ i = 1 /\ b = 0
    BY DEF Has
  <2>2. ASSUME NEW i \in Ids PROVE i \in 1 .. Len(<<0>>) <=> i = 1
    BY <1>3 DEF Ids
  <2>3. LinksMatch(f)
    BY <1>1, <1>2, <2>1, <2>2 DEF LinksMatch, Exists
  <2> QED BY <1>1, <1>2, <1>4, <2>3 DEF HeldRight, FreeRight, Exists
<1> QED BY <1>5, <1>6, <1>7, <1>8, <1>9 DEF FSInv, Right

\* A dead storage does nothing, and a request is for an idle thread.
LEMMA StepsAreLive ==
    ASSUME NEW t \in Threads
    PROVE  /\ Start(t) => up /\ pc[t] = "idle"
           /\ Continue(t) => up
<1>1. Start(t) => up /\ pc[t] = "idle"
  BY DEF Start, Create, TruncateGrow, TruncateShrink, WriteInPlace, WriteReserve,
         WriteBeyondDisk, WriteNoSpace, ReadLookup, ReadPastEnd, CommitBegin, TagCreate,
         DeleteBegin, OpenedBlock, Opened, Ready
<1>2. Continue(t) => up
  BY DEF Continue, TruncateBlock, TruncateEnd, WriteLink, ReadBlock, CommitKeep, CommitFound,
         CommitSame, CommitUnlink, CommitLink, CommitFreed, CommitEnd, InCommit, TagNoSource, TagSource, TagCopy, TagLink,
         TagLinkFails, TagEnd, DeleteBlock, InDelete, DeleteEnd
<1> QED BY <1>1, <1>2

\* Every step of FilledSpec keeps it.
LEMMA InvNext ==
    ASSUME FSInv, [FilledNext]_vars
    PROVE  FSInv'
<1>1. CASE UNCHANGED vars
  <2>1. TypeOK'
    BY <1>1 DEF FSInv, TypeOK, vars
  <2>2. up' => Right'
    BY <1>1, SameRight DEF FSInv, vars, local
  <2> QED BY <2>1, <2>2 DEF FSInv
<1>2. CASE FilledNext
  <2>1. PICK t \in Threads : (Start(t) \/ Continue(t)) /\ ~OvertakesTag(t) /\ ~CommitsGarbage(t)
    BY <1>2 DEF FilledNext, FilledStep
  <2>2. ASSUME up, Start(t) PROVE FSInv'
    <3> PICK f \in FileTags :
        \/ Create(t, f)
        \/ \E n \in Sizes : TruncateGrow(t, f, n) \/ TruncateShrink(t, f, n)
        \/ \E i \in 1..MaxLen :
             \/ \E d \in Data : WriteInPlace(t, f, i, d) \/ WriteReserve(t, f, i, d)
             \/ WriteBeyondDisk(t, f, i)
             \/ WriteNoSpace(t, f, i)
             \/ ReadLookup(t, f, i)
        \/ ReadPastEnd(t, f)
        \/ CommitBegin(t, f)
        \/ \E o \in FileTags : TagCreate(t, f, o)
        \/ DeleteBegin(t, f)
      BY <2>2 DEF Start
    <3> TypeOK /\ Right
      BY <2>2 DEF FSInv
    <3>1. CASE Create(t, f)
      BY <3>1, <2>1, CreateStep DEF FSInv
    <3>2. CASE \E n \in Sizes : TruncateGrow(t, f, n) \/ TruncateShrink(t, f, n)
      BY <3>2, <2>1, TruncateGrowStep, TruncateShrinkStep DEF FSInv
    <3>3. ASSUME NEW i \in 1 .. MaxLen, NEW d \in Data,
                 WriteInPlace(t, f, i, d) \/ WriteReserve(t, f, i, d)
          PROVE  FSInv'
      BY <3>3, <2>1, WriteInPlaceStep, WriteReserveStep DEF FSInv
    <3>4. ASSUME NEW i \in 1 .. MaxLen, WriteBeyondDisk(t, f, i) \/ WriteNoSpace(t, f, i)
          PROVE  FSInv'
      BY <3>4, LastStep DEF FSInv
    <3>5. ASSUME NEW i \in 1 .. MaxLen, ReadLookup(t, f, i)
          PROVE  FSInv'
      BY <3>5, ReadLookupStep DEF FSInv
    <3>6. CASE ReadPastEnd(t, f)
      <4>1. 1 \in 1 .. MaxLen
        BY FSAssumption
      <4> QED BY <3>6, <4>1, LastStep DEF FSInv
    <3>7. CASE CommitBegin(t, f) \/ DeleteBegin(t, f)
      BY <3>7, <2>1, CommitBeginStep DEF FSInv
    <3>8. ASSUME NEW o \in FileTags, TagCreate(t, f, o) PROVE FSInv'
      BY <3>8, <2>1, TagCreateStep DEF FSInv
    <3> QED BY <3>1, <3>2, <3>3, <3>4, <3>5, <3>6, <3>7, <3>8
  <2>3. ASSUME up, Continue(t) PROVE FSInv'
    <3> TypeOK /\ Right
      BY <2>3 DEF FSInv
    <3>1. CASE TruncateBlock(t) \/ TruncateEnd(t) \/ WriteLink(t)
      BY <3>1, <2>1, TruncateBlockStep, TruncateEndStep, WriteLinkStep DEF FSInv
    <3>2. CASE ReadBlock(t)
      BY <3>2, LooseEnd DEF FSInv, ReadBlock, Holding
    <3>3. CASE \/ CommitKeep(t) \/ CommitFound(t) \/ CommitSame(t) \/ CommitUnlink(t)
               \/ CommitLink(t) \/ CommitEnd(t)
      BY <3>3, <2>1, CommitKeepStep, CommitFoundStep, CommitSameStep, CommitUnlinkStep,
         CommitLinkStep, CommitEndStep DEF FSInv
    <3>7. CASE CommitFreed(t)
      BY <3>7, <2>1, CommitFreedStep DEF FSInv
    <3>4. CASE TagNoSource(t)
      BY <3>4, LooseEnd DEF FSInv, TagNoSource, Holding
    <3>5. CASE TagSource(t) \/ TagCopy(t) \/ TagLink(t) \/ TagEnd(t)
      BY <3>5, <2>1, TagSourceStep, TagCopyStep, TagLinkStep, TagEndStep DEF FSInv
    <3>6. CASE DeleteBlock(t) \/ DeleteEnd(t)
      BY <3>6, <2>1, DeleteBlockStep, DeleteEndStep DEF FSInv
    <3> QED BY <2>3, <3>1, <3>2, <3>3, <3>4, <3>5, <3>6, <3>7, TagLinkNeverFails DEF Continue
  <2>4. up
    BY <2>1, StepsAreLive
  <2> QED BY <2>1, <2>2, <2>3, <2>4
<1> QED BY <1>1, <1>2

\* The invariant of the storage: types, who holds which File:Tag, and which links of it are there
\* at each step.
THEOREM StorageInvariant == FilledSpec => []FSInv
<1>1. Init => FSInv
  BY InvInit
<1>2. FSInv /\ [FilledNext]_vars => FSInv'
  BY InvNext
<1> QED BY <1>1, <1>2, PTL DEF FilledSpec

\* The types of the storage, dead or alive.
THEOREM StorageTypes == FilledSpec => []TypeOK
<1>1. FSInv => TypeOK
  BY DEF FSInv
<1> QED BY <1>1, StorageInvariant, PTL

\* MetadataMatchesLinks (metadata.config and logical_blocks agree whenever nobody is in the
\* middle of an operation on the File:Tag) for any number of workers and blocks.
THEOREM StorageLinks == FilledSpec => []MetadataMatchesLinks
<1>1. FSInv => MetadataMatchesLinks
  <2> SUFFICES ASSUME FSInv, up, NEW f \in FileTags, lock[f] = None
               PROVE  LinksOf(f) = IF Exists(f) THEN NamedBy(f) ELSE {}
    BY DEF MetadataMatchesLinks
  <2>1. LinksMatch(f) /\ (Exists(f) => meta[f].blocks \in Seq(Blocks)) /\ TypeOK
    BY DEF FSInv, Right, FreeRight, BlocksOK
  <2>2. ASSUME NEW p \in LinksOf(f) PROVE Exists(f) /\ p \in NamedBy(f)
    <3>1. PICK l \in links : l[1] = f /\ p = <<l[2], l[3]>>
      BY <2>2 DEF LinksOf
    <3>2. l[2] \in Ids /\ l[3] \in Blocks /\ l = <<f, l[2], l[3]>>
      BY <2>1, <3>1 DEF TypeOK, Ids
    <3>3. Has(f, l[2], l[3])
      BY <3>2 DEF Has
    <3>4. Exists(f) /\ l[2] \in 1 .. Len(meta[f].blocks) /\ l[3] = meta[f].blocks[l[2]]
      BY <2>1, <3>2, <3>3 DEF LinksMatch
    <3> QED BY <3>1, <3>4 DEF NamedBy
  <2>3. ASSUME Exists(f), NEW p \in NamedBy(f) PROVE p \in LinksOf(f)
    <3>1. PICK i \in 1 .. Len(meta[f].blocks) : p = <<i, meta[f].blocks[i]>>
      BY <2>3 DEF NamedBy
    <3>2. i \in Ids /\ meta[f].blocks[i] \in Blocks
      BY <2>1, <2>3, ElementOfSeq, LenProperties DEF Ids
    <3>3. <<f, i, meta[f].blocks[i]>> \in links
      BY <2>1, <2>3, <3>2 DEF LinksMatch, Has
    <3> QED BY <3>1, <3>3 DEF LinksOf
  <2> QED BY <2>2, <2>3
<1> QED BY <1>1, StorageInvariant, PTL

\* SizeIsBacked (what INFO_FILE_TAG tells the workers) for any number of workers and blocks.
THEOREM StorageSize == FilledSpec => []SizeIsBacked
<1>1. FSInv => SizeIsBacked
  BY DEF FSInv, Right, FreeRight, Backed, SizeIsBacked
<1> QED BY <1>1, StorageInvariant, PTL

\* HashedLinkExists (COMMIT and DELETE follow no link that is not there) for any number of
\* workers and blocks.
THEOREM StorageHashedLinks == FilledSpec => []HashedLinkExists
<1>1. FSInv => HashedLinkExists
  <2> SUFFICES ASSUME FSInv, NEW t \in Threads, InCommit(t) \/ InDelete(t),
                      NEW i \in pos[t] .. Len(md[t].blocks)
               PROVE  Linked(file[t], i)
    BY DEF HashedLinkExists
  <2>1. TypeOK /\ Right /\ pc[t] \in {"commit", "delete"}
    BY DEF FSInv, InCommit, InDelete
  <2>2. /\ file[t] \in FileTags /\ LinksKept(t) /\ md[t].blocks \in Seq(Blocks)
        /\ pos[t] \in Ids
    BY <2>1, Continues DEF Holding, OpLocals
  <2>3. i \in 1 .. Len(md[t].blocks) /\ i >= pos[t] /\ i \in Ids
    BY <2>2, LenProperties DEF Ids
  <2>4. i \in Keeps(t) /\ md[t].blocks[i] \in Blocks
    BY <2>1, <2>2, <2>3, ElementOfSeq DEF Keeps
  <2>5. Has(file[t], i, md[t].blocks[i])
    BY <2>2, <2>3, <2>4 DEF LinksKept
  <2> QED BY <2>2, <2>3, <2>4, <2>5, <2>1, Lookup
<1> QED BY <1>1, StorageInvariant, PTL

-----------------------------------------------------------------------------
(* No block is lost.                                                       *)

\* A WRITE keeps the block it has reserved, a COMMIT the one whose link it has removed.
KeptBy(t, b) ==
    \/ pc[t] = "write" /\ b = blk[t]
    \/ pc[t] = "commit_link" /\ b = md[t].blocks[pos[t]]

IsLinked(b) == \E l \in links : l[3] = b
Kept(b)     == IsLinked(b) \/ \E t \in Threads : KeptBy(t, b)
AllKept     == up => \A b \in used \ {0} : Kept(b)

\* Blocks can only be lost with a link or by the thread that kept them.
LEMMA NothingLost ==
    ASSUME \A b \in used \ {0} : Kept(b), NEW t \in Threads,
           used' \subseteq used, links \subseteq links',
           pc[t] \notin {"write", "commit_link"},
           \A s \in Threads \ {t} :
             /\ pc'[s] = pc[s] /\ md'[s] = md[s] /\ pos'[s] = pos[s]
             /\ pc[s] = "write" => blk'[s] = blk[s]
    PROVE  AllKept'
<1> SUFFICES ASSUME NEW b \in used \ {0} PROVE Kept(b)'
  BY DEF AllKept
<1>1. CASE IsLinked(b)
  BY <1>1 DEF Kept, IsLinked
<1>2. ASSUME NEW s \in Threads, KeptBy(s, b) PROVE KeptBy(s, b)'
  BY <1>2 DEF KeptBy
<1> QED BY <1>1, <1>2 DEF Kept

\* TRUNCATE and DELETE free a block with the last link to it.
LEMMA UnlinkFrees ==
    ASSUME TypeOK, \A b \in used \ {0} : Kept(b), NEW t \in Threads, NEW f \in FileTags,
           NEW i \in Ids, NEW old,
           links' = Unlink(f, i),
           \A b \in Blocks : Has(f, i, b) => b = old,
           used' = IF Orphan(links', old) THEN used \ {old} ELSE used,
           pc[t] \notin {"write", "commit_link"},
           \A s \in Threads \ {t} :
             /\ pc'[s] = pc[s] /\ md'[s] = md[s] /\ pos'[s] = pos[s]
             /\ pc[s] = "write" => blk'[s] = blk[s]
    PROVE  AllKept'
<1> SUFFICES ASSUME NEW b \in used' \ {0} PROVE Kept(b)'
  BY DEF AllKept
<1>1. ASSUME NEW s \in Threads, KeptBy(s, b) PROVE KeptBy(s, b)'
  BY <1>1 DEF KeptBy
<1>2. ASSUME NEW l \in links, l[3] = b PROVE IsLinked(b)'
  <2>1. CASE l \in links'
    BY <1>2, <2>1 DEF IsLinked
  <2>2. CASE l \notin links'
    <3>1. l[1] = f /\ l[2] = i /\ l[3] \in Blocks /\ l = <<f, i, l[3]>>
      BY <2>2 DEF Unlink, TypeOK
    <3>2. b = old
      BY <1>2, <3>1 DEF Has
    <3>3. ~Orphan(links', b)
      BY <3>2
    <3>4. {k \in links' : k[3] = b} # {}
      <4> SUFFICES ASSUME {k \in links' : k[3] = b} = {} PROVE FALSE
        OBVIOUS
      <4>1. Cardinality({k \in links' : k[3] = b}) = 0
        BY FS_EmptySet
      <4>2. NLink(links', b) = 1
        BY <4>1 DEF NLink
      <4> QED BY <3>3, <4>2 DEF Orphan
    <3> QED BY <3>4 DEF IsLinked
  <2> QED BY <2>1, <2>2
<1>3. b \in used
  OBVIOUS
<1> QED BY <1>1, <1>2, <1>3 DEF Kept, IsLinked

\* A WRITE leaves a block only to other links of it.
LEMMA ReserveKeeps ==
    ASSUME TypeOK, Right, \A b \in used \ {0} : Kept(b), NEW t \in Threads, NEW f \in FileTags,
           NEW i \in 1 .. MaxLen, NEW d \in Data, WriteReserve(t, f, i, d)
    PROVE  AllKept'
<1> DEFINE old == meta[f].blocks[i]
<1>1. PICK new \in Blocks : used' = used \cup {new} /\ Begin(t, f, "write", i, new, d)
  BY DEF WriteReserve
<1>2. /\ pc[t] = "idle" /\ lock[f] = None /\ Exists(f) /\ Shared(old)
      /\ links' = Unlink(f, i)
  BY DEF WriteReserve, OpenedBlock, Opened, Ready
<1>3. i \in Ids /\ i \in Nat
  BY FSAssumption DEF Ids
<1>4. /\ pc'[t] = "write" /\ blk'[t] = new
      /\ \A s \in Threads \ {t} :
           pc'[s] = pc[s] /\ md'[s] = md[s] /\ pos'[s] = pos[s] /\ blk'[s] = blk[s]
  BY <1>1, <1>2, <1>3, Begun DEF PCs
<1>5. Kept(new)'
  BY <1>4 DEF Kept, KeptBy
<1>6. ASSUME NEW b \in used \ {0} PROVE Kept(b)'
  <2>1. ASSUME NEW s \in Threads, KeptBy(s, b) PROVE KeptBy(s, b)'
    BY <1>2, <1>4, <2>1 DEF KeptBy
  <2>2. ASSUME NEW l \in links, l[3] = b PROVE IsLinked(b)'
    <3>1. CASE l \in links'
      BY <2>2, <3>1 DEF IsLinked
    <3>2. CASE l \notin links'
      <4>1. l[1] = f /\ l[2] = i /\ l[3] \in Blocks /\ l = <<f, i, b>>
        BY <1>2, <2>2, <3>2 DEF Unlink, TypeOK
      <4>2. b = old
        BY <1>2, <1>3, <2>2, <4>1, Starts DEF LinksMatch, Has
      <4> DEFINE S == {k \in links : k[3] = b}
      <4>3. 1 + Cardinality(S) > 2
        BY <1>2, <4>2 DEF Shared, NLink
      <4>4. S # {l}
        <5>1. Cardinality({l}) = 1
          BY FS_Singleton
        <5> HIDE DEF S
        <5>2. S = {l} => 1 + Cardinality({l}) > 2
          BY <4>3
        <5> QED BY <5>1, <5>2
      <4>5. PICK k \in S : k # l
        BY <2>2, <4>4
      <4>6. k \in links' /\ k[3] = b
        BY <1>2, <4>1, <4>5 DEF Unlink, TypeOK
      <4> QED BY <4>6 DEF IsLinked
    <3> QED BY <3>1, <3>2
  <2> QED BY <2>1, <2>2 DEF Kept, IsLinked
<1> QED BY <1>1, <1>5, <1>6 DEF AllKept

\* WRITE and COMMIT link the block they have put aside, or mark it free.
LEMMA LinkKeeps ==
    ASSUME TypeOK, Right, \A b \in used \ {0} : Kept(b), NEW t \in Threads,
           ~OvertakesTag(t), WriteLink(t) \/ CommitLink(t)
    PROVE  AllKept'
<1>1. pc[t] \in {"write", "commit_link"} /\ pc[t] \in Holding
  BY DEF WriteLink, CommitLink, Holding
<1> PICK f \in FileTags : f = file[t] /\ LinksKept(t)
  BY <1>1, Continues
<1> DEFINE i == pos[t]
<1>2. i \in Ids
  BY <1>1, Continues, LenProperties DEF OpLocals, Ids
<1>3. i \notin Keeps(t)
  BY <1>1 DEF Keeps
<1>4. ~Linked(f, i)
  BY <1>2, <1>3, Lookup DEF LinksKept
<1>5. links' = links \cup {<<f, i, blk[t]>>}
  BY <1>4 DEF WriteLink, CommitLink, Link
<1>6. \A s \in Threads \ {t} :
        pc'[s] = pc[s] /\ md'[s] = md[s] /\ pos'[s] = pos[s] /\ blk'[s] = blk[s]
  <2>1. CASE WriteLink(t)
    BY <2>1, Ended DEF WriteLink
  <2>2. CASE CommitLink(t)
    BY <2>2, NextBlock DEF CommitLink, Reassign, TypeOK
  <2> QED BY <2>1, <2>2
<1> SUFFICES ASSUME NEW b \in used' \ {0} PROVE Kept(b)'
  BY DEF AllKept
<1>7. b \in used
  BY DEF WriteLink, CommitLink, Reassign
<1>8. CASE IsLinked(b)
  BY <1>5, <1>8 DEF Kept, IsLinked
<1>9. CASE b = blk[t]
  <2>1. <<f, i, b>> \in links' /\ <<f, i, b>>[3] = b
    BY <1>5, <1>9
  <2> QED BY <2>1 DEF Kept, IsLinked
<1>10. ASSUME NEW s \in Threads \ {t}, KeptBy(s, b) PROVE Kept(b)'
  BY <1>6, <1>10 DEF Kept, KeptBy
<1>11. ASSUME KeptBy(t, b) PROVE b = blk[t]
  <2>1. CASE pc[t] = "write"
    BY <2>1, <1>11 DEF KeptBy
  <2>2. CASE pc[t] = "commit_link"
    <3>1. b = md[t].blocks[pos[t]]
      BY <2>2, <1>11 DEF KeptBy
    <3>2. b \notin used'
      BY <2>2, <3>1 DEF WriteLink, CommitLink, Reassign
    <3> QED BY <3>2
  <2> QED BY <1>1, <2>1, <2>2
<1> QED BY <1>7, <1>8, <1>9, <1>10, <1>11 DEF Kept

\* A COMMIT keeps the block whose link it removes.
LEMMA CommitUnlinkKeeps ==
    ASSUME TypeOK, Right, \A b \in used \ {0} : Kept(b), NEW t \in Threads, CommitUnlink(t)
    PROVE  AllKept'
<1>1. pc[t] = "commit_found" /\ pc[t] \in Holding /\ pc'[t] = "commit_link"
  BY DEF CommitUnlink, Holding, TypeOK
<1> PICK f \in FileTags : f = file[t] /\ LinksKept(t)
  BY <1>1, Continues
<1> DEFINE i == pos[t]
<1>2. i \in Ids
  BY <1>1, Continues, LenProperties DEF OpLocals, Ids
<1>3. /\ links' = Unlink(f, i) /\ UNCHANGED <<used, md, pos>>
      /\ \A s \in Threads \ {t} : pc'[s] = pc[s] /\ blk'[s] = blk[s]
  BY DEF CommitUnlink, TypeOK
<1> SUFFICES ASSUME NEW b \in used \ {0} PROVE Kept(b)'
  BY <1>3 DEF AllKept
<1>4. ASSUME NEW s \in Threads, KeptBy(s, b) PROVE KeptBy(s, b)'
  BY <1>1, <1>3, <1>4 DEF KeptBy
<1>5. ASSUME NEW l \in links, l[3] = b PROVE Kept(b)'
  <2>1. CASE l \in links'
    BY <1>5, <2>1 DEF Kept, IsLinked
  <2>2. CASE l \notin links'
    <3>1. l[1] = f /\ l[2] = i /\ l[3] \in Blocks /\ l = <<f, i, b>>
      BY <1>3, <1>5, <2>2 DEF Unlink, TypeOK
    <3>2. b = md[t].blocks[i]
      BY <1>2, <1>5, <3>1 DEF LinksKept, Has
    <3>3. KeptBy(t, b)'
      BY <1>1, <1>3, <3>2 DEF KeptBy
    <3> QED BY <3>3 DEF Kept
  <2> QED BY <2>1, <2>2
<1> QED BY <1>4, <1>5 DEF Kept, IsLinked

\* At every step no block is lost.
LEMMA KeptNext ==
    ASSUME FSInv, AllKept, [FilledNext]_vars
    PROVE  AllKept'
<1>1. CASE UNCHANGED vars
  BY <1>1 DEF AllKept, Kept, IsLinked, KeptBy, vars
<1>2. CASE FilledNext /\ ~up'
  BY <1>2 DEF AllKept
<1>3. CASE FilledNext /\ up'
  <2>1. PICK t \in Threads : (Start(t) \/ Continue(t)) /\ ~OvertakesTag(t) /\ ~CommitsGarbage(t)
    BY <1>3 DEF FilledNext, FilledStep
  <2>2. up
    BY <2>1, StepsAreLive
  <2>3. TypeOK /\ Right /\ \A b \in used \ {0} : Kept(b)
    BY <2>2 DEF FSInv, AllKept
  <2>4. ASSUME Start(t) PROVE AllKept'
    <3>1. pc[t] = "idle"
      BY <2>4, StepsAreLive
    <3>2. CASE \E f \in FileTags, i \in 1 .. MaxLen, d \in Data : WriteReserve(t, f, i, d)
      BY <3>2, <2>3, ReserveKeeps
    <3>3. CASE ~\E f \in FileTags, i \in 1 .. MaxLen, d \in Data : WriteReserve(t, f, i, d)
      <4> PICK f \in FileTags :
            \/ Create(t, f) \/ ReadPastEnd(t, f)
            \/ \E n \in Sizes : TruncateGrow(t, f, n)
            \/ \E i \in 1 .. MaxLen :
                 WriteNoSpace(t, f, i) \/ WriteBeyondDisk(t, f, i)
                   \/ \E d \in Data : WriteInPlace(t, f, i, d)
            \/ \E n \in Sizes : TruncateShrink(t, f, n)
            \/ \E i \in 1 .. MaxLen : ReadLookup(t, f, i)
            \/ CommitBegin(t, f) \/ DeleteBegin(t, f)
            \/ \E o \in FileTags : TagCreate(t, f, o)
        BY <2>4, <3>3 DEF Start
      <4>1. CASE \/ Create(t, f)
                 \/ \E n \in Sizes : TruncateGrow(t, f, n)
                 \/ \E i \in 1 .. MaxLen, d \in Data : WriteInPlace(t, f, i, d)
        <5>1. used' = used /\ links \subseteq links' /\ UNCHANGED local
          BY <4>1 DEF Create, TruncateGrow, WriteInPlace
        <5> QED BY <2>3, <3>1, <5>1, NothingLost DEF local
      <4>2. CASE \/ \E n \in Sizes : TruncateShrink(t, f, n)
                 \/ \E i \in 1 .. MaxLen : ReadLookup(t, f, i)
                 \/ CommitBegin(t, f) \/ DeleteBegin(t, f)
        <5>1. PICK step, i, b, x : Begin(t, f, step, i, b, x)
          BY <4>2 DEF TruncateShrink, ReadLookup, CommitBegin, DeleteBegin
        <5>2. used' = used /\ links' = links
          BY <4>2 DEF TruncateShrink, ReadLookup, CommitBegin, DeleteBegin, disk
        <5>3. \A s \in Threads \ {t} :
                pc'[s] = pc[s] /\ md'[s] = md[s] /\ pos'[s] = pos[s] /\ blk'[s] = blk[s]
          BY <2>3, <5>1 DEF Begin, TypeOK
        <5> QED BY <2>3, <3>1, <5>2, <5>3, NothingLost
      <4>3. CASE \E o \in FileTags : TagCreate(t, f, o)
        <5>1. /\ used' = used /\ links' = links
              /\ \A s \in Threads \ {t} :
                   pc'[s] = pc[s] /\ md'[s] = md[s] /\ pos'[s] = pos[s] /\ blk'[s] = blk[s]
          BY <2>3, <4>3 DEF TagCreate, TypeOK
        <5> QED BY <2>3, <3>1, <5>1, NothingLost
      <4>4. CASE \/ ReadPastEnd(t, f)
                 \/ \E i \in 1 .. MaxLen : WriteNoSpace(t, f, i) \/ WriteBeyondDisk(t, f, i)
        BY <1>3, <4>4 DEF ReadPastEnd, WriteNoSpace, WriteBeyondDisk
      <4> QED BY <4>1, <4>2, <4>3, <4>4
    <3> QED BY <3>2, <3>3
  <2>5. CASE TruncateBlock(t) \/ DeleteBlock(t)
    <3>1. pc[t] \in {"truncate", "delete"} /\ pc[t] \in Holding
      BY <2>5 DEF TruncateBlock, DeleteBlock, InDelete, Holding
    <3> PICK f \in FileTags : f = file[t] /\ LinksKept(t)
      BY <2>3, <3>1, Continues
    <3> DEFINE i == pos[t]
               old == md[t].blocks[i]
    <3>2. i \in Ids
      <4>1. CASE pc[t] = "delete"
        BY <2>3, <3>1, <4>1, Continues DEF OpLocals
      <4>2. CASE pc[t] = "truncate"
        <5>1. i > arg[t] \div BlockSize /\ arg[t] \in Nat
          BY <2>3, <2>5, <3>1, <4>2, Continues, Constants
             DEF TruncateBlock, DeleteBlock, InDelete, OpLocals
        <5> QED BY <2>3, <5>1, SizeInBlocks DEF TypeOK, Ids
      <4> QED BY <3>1, <4>1, <4>2
    <3>3. \A b \in Blocks : Has(f, i, b) => b = old
      BY <3>2 DEF LinksKept
    <3>4. /\ links' = Unlink(f, i)
          /\ used' = IF Orphan(links', old) THEN used \ {old} ELSE used
      BY <2>5 DEF TruncateBlock, DeleteBlock
    <3>5. \A s \in Threads \ {t} :
            /\ pc'[s] = pc[s] /\ md'[s] = md[s] /\ pos'[s] = pos[s]
            /\ pc[s] = "write" => blk'[s] = blk[s]
      <4>1. CASE TruncateBlock(t)
        BY <2>3, <4>1 DEF TruncateBlock, TypeOK
      <4>2. CASE DeleteBlock(t)
        <5>1. /\ pc' = pc /\ md' = md /\ pos' = [pos EXCEPT ![t] = @ + 1]
              /\ \A s \in Threads : ~Reads(s, ContentOf(file[t], pos[t])) => blk'[s] = blk[s]
          BY <4>2 DEF DeleteBlock, RemoveHash
        <5> QED BY <2>3, <5>1 DEF Reads, TypeOK
      <4> QED BY <2>5, <4>1, <4>2
    <3> HIDE DEF old
    <3> QED BY <2>3, <3>1, <3>2, <3>3, <3>4, <3>5, UnlinkFrees
  <2>6. CASE WriteLink(t) \/ CommitLink(t)
    BY <2>1, <2>3, <2>6, LinkKeeps
  <2>7. CASE CommitUnlink(t)
    BY <2>3, <2>7, CommitUnlinkKeeps
  <2>8. CASE \/ TruncateEnd(t) \/ ReadBlock(t) \/ CommitEnd(t) \/ TagNoSource(t) \/ TagEnd(t)
             \/ DeleteEnd(t)
    <3>1. pc[t] \notin {"write", "commit_link"} /\ used' = used /\ links' = links /\ NoLocals(t)
      BY <2>8 DEF TruncateEnd, ReadBlock, CommitEnd, TagNoSource, TagEnd, DeleteEnd, disk
    <3> QED BY <2>3, <3>1, Ended, NothingLost
  <2>10. CASE CommitFound(t) \/ CommitSame(t)
    <3>1. /\ pc[t] \notin {"write", "commit_link"} /\ used' = used /\ links' = links
          /\ \A s \in Threads \ {t} :
               pc'[s] = pc[s] /\ md'[s] = md[s] /\ pos'[s] = pos[s] /\ blk'[s] = blk[s]
      BY <2>3, <2>10, NextBlock DEF CommitFound, CommitSame, InCommit, disk, TypeOK
    <3> QED BY <2>3, <3>1, NothingLost
  <2>11. CASE CommitFreed(t)
    BY <1>3, <2>1, <2>11 DEF CommitFreed, CommitsGarbage
  <2>9. CASE CommitKeep(t) \/ TagSource(t) \/ TagCopy(t) \/ TagLink(t)
    <3>1. /\ pc[t] \notin {"write", "commit_link"} /\ used' = used /\ links \subseteq links'
          /\ \A s \in Threads \ {t} :
               pc'[s] = pc[s] /\ md'[s] = md[s] /\ pos'[s] = pos[s] /\ blk'[s] = blk[s]
      BY <2>3, <2>9 DEF CommitKeep, InCommit, TagSource, TagCopy, TagLink, Link, disk, TypeOK
    <3> QED BY <2>3, <3>1, NothingLost
  <2> QED BY <2>1, <2>3, <2>4, <2>5, <2>6, <2>7, <2>8, <2>9, <2>10, <2>11,
            TagLinkNeverFails DEF Continue
<1> QED BY <1>1, <1>2, <1>3

\* NoBlockLost (the bitmap marks no block that nothing leads to) for any number of workers and
\* blocks.
THEOREM StorageBlocks == FilledSpec => []NoBlockLost
<1>1. Init => FSInv /\ AllKept
  BY InvInit DEF Init, AllKept
<1>2. FSInv /\ AllKept /\ [FilledNext]_vars => FSInv' /\ AllKept'
  BY InvNext, KeptNext
<1>3. AllKept => NoBlockLost
  BY DEF AllKept, Kept, IsLinked, KeptBy, NoBlockLost
<1> QED BY <1>1, <1>2, <1>3, PTL DEF FilledSpec

=============================================================================
