------------------------- MODULE StorageLocksProofs -------------------------
(***************************************************************************)
(* TLAPS proofs about StorageLocks, for every set of threads, File:Tags    *)
(* and addresses.                                                          *)
(*                                                                         *)
(* The inductive invariant is                                              *)
(*     TypeOK /\ LocalsOK /\ PointersOK /\ OneToken                        *)
(* LocalsOK is what a thread's local variables are at each point of its    *)
(* operation, and PointersOK is the fact that makes the second lookup of   *)
(* storage_signal harmless: as long as a lock is registered and has not    *)
(* been misused, a thread that found it in storage_wait works on the       *)
(* File:Tag it is registered for.                                          *)
(***************************************************************************)
EXTENDS StorageLocks, FiniteSetTheorems, TLAPS

\* The locals of a thread: it has a File:Tag while it runs an operation, a second one
\* while a TAG still has to turn to it, and a lock only after storage_wait found one.
LocalsOK ==
    \A t \in Threads :
        /\ pc[t] # "idle" => ft[t] \in FileTags
        /\ pc[t] # "idle" /\ op[t] \in {"TAG", "SOURCE"} => other[t] \in FileTags
        /\ pc[t] \in {"idle", "mkdir", "fopen", "add_lock", "wait"} => lk[t] = None
        /\ pc[t] \in {"increment", "sem_wait", "load", "store"} => lk[t] \in LockIds

\* The lock a thread waits for or holds is the one registered for its File:Tag, unless that
\* lock is gone or was misused.
PointersOK ==
    \A t \in Threads :
        lk[t] \in Live \ tainted => index[ft[t]] = lk[t]

LockInv == TypeOK /\ LocalsOK /\ PointersOK /\ OneToken

-----------------------------------------------------------------------------

\* The storage starts with no lock registered and no thread inside an operation.
LEMMA InitLockInv == Init => LockInv
  <1> SUFFICES ASSUME Init PROVE LockInv
    OBVIOUS
  <1>1. TypeOK
    BY LocksAssumption DEF Init, TypeOK, PCs
  <1>2. LocalsOK
    BY DEF Init, LocalsOK
  <1>3. Live = {}
    BY DEF Init, Live
  <1>4. PointersOK /\ OneToken
    BY <1>3 DEF PointersOK, OneToken
  <1> QED BY <1>1, <1>2, <1>4 DEF LockInv

\* Destroying the lock of a File:Tag leaves the index and the heap well typed.
LEMMA DestroyLockTypes ==
    ASSUME TypeOK, NEW f \in FileTags, index[f] # None, DestroyLock(f)
    PROVE  /\ index' \in [FileTags -> LockIds \cup {None}]
           /\ sem' \in [LockIds -> Nat]
           /\ count' \in [LockIds -> Int]
           /\ delete' \in [LockIds -> BOOLEAN]
           /\ \A g, h \in FileTags : index'[g] = index'[h] /\ index'[g] # None => g = h
  <1>1. index' = [index EXCEPT ![f] = None]
    BY DEF DestroyLock
  <1>2. index' \in [FileTags -> LockIds \cup {None}]
    BY <1>1 DEF TypeOK
  <1>3. \A g, h \in FileTags : index'[g] = index'[h] /\ index'[g] # None => g = h
    BY <1>1 DEF TypeOK
  <1>4. sem' \in [LockIds -> Nat] /\ count' \in [LockIds -> Int]
    BY DEF TypeOK, DestroyLock
  <1>5. delete' \in [LockIds -> BOOLEAN]
    BY DEF TypeOK, DestroyLock
  <1> QED BY <1>2, <1>3, <1>4, <1>5

\* Every step of an operation keeps the state of the locks well typed.
LEMMA TypeStep == TypeOK /\ LocalsOK /\ [Next]_vars => TypeOK'
  <1> SUFFICES ASSUME TypeOK, LocalsOK, [Next]_vars PROVE TypeOK'
    OBVIOUS
  <1> USE LocksAssumption DEF TypeOK, LocalsOK, PCs, locks, threads, history
  <1>1. ASSUME NEW t \in Threads, Start(t) PROVE TypeOK'
    BY <1>1 DEF Start, StartCreate, StartUse, StartDelete, StartTag, StartOp, Goto
  <1>2. ASSUME NEW t \in Threads, Mkdir(t) PROVE TypeOK'
    BY <1>2 DEF Mkdir, Goto, Return
  <1>3. ASSUME NEW t \in Threads, Fopen(t) PROVE TypeOK'
    BY <1>3 DEF Fopen, WithMetadata, Goto, Return
  <1>4. ASSUME NEW t \in Threads, AddLock(t) PROVE TypeOK'
    <2>1. /\ disk' \in [FileTags -> {"none", "dir", "meta"}]
          /\ indexHolder' \in Threads \cup {None}
          /\ lk' \in [Threads -> LockIds \cup {None}]
          /\ tmp' \in [Threads -> Int]
      BY <1>4 DEF AddLock
    <2>2. /\ pc' \in [Threads -> PCs]
          /\ op' \in [Threads -> {"CREATE", "USE", "DELETE", "TAG", "SOURCE", "COPY"}]
          /\ ft' \in [Threads -> FileTags \cup {None}]
          /\ other' \in [Threads -> FileTags \cup {None}]
      BY <1>4 DEF AddLock, Goto, Return, TurnToOther
    <2>3. CASE UNCHANGED <<locks, tainted, raced>>
      BY <2>1, <2>2, <2>3
    <2>4. ASSUME NEW l \in LockIds \ Live, index' = [index EXCEPT ![ft[t]] = l]
          PROVE \A f, g \in FileTags : index'[f] = index'[g] /\ index'[f] # None => f = g
      BY <2>4 DEF Live
    <2>5. ASSUME index[ft[t]] = None, NEW l \in LockIds \ Live,
                 index' = [index EXCEPT ![ft[t]] = l],
                 sem' = [sem EXCEPT ![l] = 1],
                 count' = [count EXCEPT ![l] = 0],
                 delete' = [delete EXCEPT ![l] = FALSE],
                 tainted' \in {tainted \cup {l}, tainted \ {l}},
                 raced' = raced \ {l}
          PROVE TypeOK'
      <3>1. index' \in [FileTags -> LockIds \cup {None}]
        BY <2>5
      <3>2. sem' \in [LockIds -> Nat] /\ count' \in [LockIds -> Int]
        BY <2>5
      <3>3. delete' \in [LockIds -> BOOLEAN]
        BY <2>5
      <3>4. tainted' \subseteq LockIds /\ raced' \subseteq LockIds
        BY <2>5
      <3> QED BY <2>1, <2>2, <2>4, <2>5, <3>1, <3>2, <3>3, <3>4
    <2> QED
      BY <1>4, <2>3, <2>5 DEF AddLock
  <1>5. ASSUME NEW t \in Threads, WaitLookup(t) PROVE TypeOK'
    BY <1>5 DEF WaitLookup, Goto
  <1>6. ASSUME NEW t \in Threads, WaitIncrement(t) PROVE TypeOK'
    BY <1>6 DEF WaitIncrement, StoreCount, Goto
  <1>7. ASSUME NEW t \in Threads, WaitAcquire(t) PROVE TypeOK'
    BY <1>7 DEF WaitAcquire, Goto
  <1>8. ASSUME NEW t \in Threads, WaitFreed(t) PROVE TypeOK'
    BY <1>8 DEF WaitFreed, Goto
  <1>9. ASSUME NEW t \in Threads, WaitLoad(t) PROVE TypeOK'
    BY <1>9 DEF WaitLoad, Goto
  <1>10. ASSUME NEW t \in Threads, WaitStore(t) PROVE TypeOK'
    BY <1>10 DEF WaitStore, StoreCount, Goto
  <1>11. ASSUME NEW t \in Threads, Enter(t) PROVE TypeOK'
    BY <1>11 DEF Enter, WithMetadata, Goto
  <1>12. ASSUME NEW t \in Threads, Body(t) PROVE TypeOK'
    BY <1>12 DEF Body, WithMetadata, Goto
  <1>13. ASSUME NEW t \in Threads, RemoveMetadata(t) PROVE TypeOK'
    BY <1>13 DEF RemoveMetadata, Goto
  <1>14. ASSUME NEW t \in Threads, Rmdir(t) PROVE TypeOK'
    BY <1>14 DEF Rmdir, Goto
  <1>15. ASSUME NEW t \in Threads, RemoveLock(t) PROVE TypeOK'
    <2>1. ft[t] \in FileTags /\ pc' \in [Threads -> PCs] /\ lk' \in [Threads -> LockIds \cup {None}]
      BY <1>15 DEF RemoveLock, Unused, Goto
    <2>2. CASE DestroyLock(ft[t]) /\ index[ft[t]] # None
      <3>1. /\ index' \in [FileTags -> LockIds \cup {None}]
            /\ sem' \in [LockIds -> Nat]
            /\ count' \in [LockIds -> Int]
            /\ delete' \in [LockIds -> BOOLEAN]
            /\ \A g, h \in FileTags : index'[g] = index'[h] /\ index'[g] # None => g = h
        BY <2>1, <2>2, DestroyLockTypes
      <3>2. UNCHANGED <<disk, indexHolder, op, ft, other, tmp, tainted, raced>>
        BY <1>15 DEF RemoveLock
      <3> QED BY <2>1, <3>1, <3>2
    <2>3. CASE UNCHANGED <<index, sem, count>>
      <3>1. delete' \in [LockIds -> BOOLEAN]
        BY <1>15, <2>1, <2>3 DEF RemoveLock, Unused, DestroyLock
      <3>2. UNCHANGED <<disk, indexHolder, op, ft, other, tmp, tainted, raced>>
        BY <1>15 DEF RemoveLock
      <3> QED BY <2>1, <2>3, <3>1, <3>2
    <2> QED
      BY <1>15, <2>2, <2>3 DEF RemoveLock
  <1>16. ASSUME NEW t \in Threads, LinkBlocks(t) PROVE TypeOK'
    BY <1>16 DEF LinkBlocks, Goto, Return
  <1>17. ASSUME NEW t \in Threads, Signal(t) PROVE TypeOK'
    <2>1. /\ ft[t] \in FileTags
          /\ pc' \in [Threads -> PCs]
          /\ lk' \in [Threads -> LockIds \cup {None}]
          /\ op' \in [Threads -> {"CREATE", "USE", "DELETE", "TAG", "SOURCE", "COPY"}]
          /\ ft' \in [Threads -> FileTags \cup {None}]
          /\ other' \in [Threads -> FileTags \cup {None}]
      BY <1>17 DEF Signal, Goto, Return, TurnToOther
    <2>2. CASE DestroyLock(ft[t]) /\ index[ft[t]] # None /\ UNCHANGED tainted
      <3>1. /\ index' \in [FileTags -> LockIds \cup {None}]
            /\ sem' \in [LockIds -> Nat]
            /\ count' \in [LockIds -> Int]
            /\ delete' \in [LockIds -> BOOLEAN]
            /\ \A g, h \in FileTags : index'[g] = index'[h] /\ index'[g] # None => g = h
        BY <2>1, <2>2, DestroyLockTypes
      <3>2. UNCHANGED <<disk, indexHolder, tmp, raced>>
        BY <1>17 DEF Signal
      <3> QED BY <2>1, <2>2, <3>1, <3>2
    <2>3. CASE UNCHANGED <<index, count, delete>>
      <3>1. sem' \in [LockIds -> Nat] /\ tainted' \subseteq LockIds
        <4>1. CASE index[ft[t]] = None
          BY <1>17, <4>1 DEF Signal
        <4>2. CASE index[ft[t]] # None /\ (~delete[index[ft[t]]] \/ ~Unused(index[ft[t]]))
          BY <1>17, <2>1, <4>2 DEF Signal
        <4>3. CASE index[ft[t]] # None /\ delete[index[ft[t]]] /\ Unused(index[ft[t]])
          BY <1>17, <2>1, <2>3, <4>3 DEF Signal, DestroyLock
        <4> QED BY <2>1, <4>1, <4>2, <4>3
      <3> QED BY <1>17, <2>1, <2>3, <3>1 DEF Signal
    <2> QED
      BY <1>17, <2>2, <2>3 DEF Signal
  <1>18. CASE UNCHANGED vars
    BY <1>18 DEF vars
  <1> QED
    BY <1>1, <1>2, <1>3, <1>4, <1>5, <1>6, <1>7, <1>8, <1>9, <1>10, <1>11, <1>12, <1>13,
       <1>14, <1>15, <1>16, <1>17, <1>18 DEF Next, Run

\* A thread's locals stay coherent with its point in the operation.
LEMMA LocalsStep == TypeOK /\ LocalsOK /\ [Next]_vars => LocalsOK'
  <1> SUFFICES ASSUME TypeOK, LocalsOK, [Next]_vars PROVE LocalsOK'
    OBVIOUS
  <1> USE LocksAssumption DEF TypeOK, LocalsOK, PCs, locks, threads, history
  <1>1. ASSUME NEW t \in Threads, Start(t) PROVE LocalsOK'
    BY <1>1 DEF Start, StartCreate, StartUse, StartDelete, StartTag, StartOp, Goto
  <1>2. ASSUME NEW t \in Threads, Mkdir(t) PROVE LocalsOK'
    BY <1>2 DEF Mkdir, Goto, Return
  <1>3. ASSUME NEW t \in Threads, Fopen(t) PROVE LocalsOK'
    BY <1>3 DEF Fopen, Goto, Return
  <1>4. ASSUME NEW t \in Threads, AddLock(t) PROVE LocalsOK'
    BY <1>4 DEF AddLock, Goto, Return, TurnToOther
  <1>5. ASSUME NEW t \in Threads, WaitLookup(t) PROVE LocalsOK'
    BY <1>5 DEF WaitLookup, Goto
  <1>6. ASSUME NEW t \in Threads, WaitIncrement(t) PROVE LocalsOK'
    BY <1>6 DEF WaitIncrement, Goto
  <1>7. ASSUME NEW t \in Threads, WaitAcquire(t) PROVE LocalsOK'
    BY <1>7 DEF WaitAcquire, Goto
  <1>8. ASSUME NEW t \in Threads, WaitFreed(t) PROVE LocalsOK'
    BY <1>8 DEF WaitFreed, Goto
  <1>9. ASSUME NEW t \in Threads, WaitLoad(t) PROVE LocalsOK'
    BY <1>9 DEF WaitLoad, Goto
  <1>10. ASSUME NEW t \in Threads, WaitStore(t) PROVE LocalsOK'
    BY <1>10 DEF WaitStore, Goto
  <1>11. ASSUME NEW t \in Threads, Enter(t) PROVE LocalsOK'
    BY <1>11 DEF Enter, Goto
  <1>12. ASSUME NEW t \in Threads, Body(t) PROVE LocalsOK'
    BY <1>12 DEF Body, Goto
  <1>13. ASSUME NEW t \in Threads, RemoveMetadata(t) PROVE LocalsOK'
    BY <1>13 DEF RemoveMetadata, Goto
  <1>14. ASSUME NEW t \in Threads, Rmdir(t) PROVE LocalsOK'
    BY <1>14 DEF Rmdir, Goto
  <1>15. ASSUME NEW t \in Threads, RemoveLock(t) PROVE LocalsOK'
    BY <1>15 DEF RemoveLock, Unused, Goto
  <1>16. ASSUME NEW t \in Threads, LinkBlocks(t) PROVE LocalsOK'
    BY <1>16 DEF LinkBlocks, Goto, Return
  <1>17. ASSUME NEW t \in Threads, Signal(t) PROVE LocalsOK'
    BY <1>17 DEF Signal, Goto, Return, TurnToOther
  <1>18. CASE UNCHANGED vars
    BY <1>18 DEF vars
  <1> QED
    BY <1>1, <1>2, <1>3, <1>4, <1>5, <1>6, <1>7, <1>8, <1>9, <1>10, <1>11, <1>12, <1>13,
       <1>14, <1>15, <1>16, <1>17, <1>18 DEF Next, Run

-----------------------------------------------------------------------------
(* The token.  Most steps leave locks and pointers alone and do not move a thread in or out *)
(* of its critical section; the seven that do are treated one by one.                       *)

\* A step that leaves the locks and the pointers of the threads alone keeps the token.
LEMMA Frame ==
    ASSUME TypeOK, PointersOK, OneToken,
           UNCHANGED <<index, sem, lk, tainted>>,
           \A u \in Threads : lk[u] # None =>
               ft'[u] = ft[u] /\ (pc'[u] \in Inside <=> pc[u] \in Inside)
    PROVE  PointersOK' /\ OneToken'
  <1>1. Live' = Live /\ None \notin Live
    BY DEF Live
  <1>2. PointersOK'
    BY <1>1 DEF PointersOK
  <1>3. \A u \in Threads, l \in Live : Holds(u, l)' <=> Holds(u, l)
    BY <1>1 DEF Holds
  <1>4. OneToken'
    BY <1>1, <1>3 DEF OneToken
  <1> QED BY <1>2, <1>4

\* Destroying the lock of f only takes that lock out of the registered ones.
LEMMA DestroyLockLive ==
    ASSUME TypeOK, NEW f \in FileTags, index[f] # None, DestroyLock(f)
    PROVE  /\ Live' = Live \ {index[f]}
           /\ \A l \in Live' : sem'[l] = sem[l]
           /\ \A g \in FileTags : index[g] # index[f] => index'[g] = index[g]
  <1>1. index' = [index EXCEPT ![f] = None]
    BY DEF DestroyLock
  <1> index \in [FileTags -> LockIds \cup {None}]
    BY DEF TypeOK
  <1>a. \A g \in FileTags : index'[g] = IF g = f THEN None ELSE index[g]
    BY <1>1
  <1>b. ASSUME NEW l, l \in Live' PROVE l \in Live \ {index[f]}
    <2>1. PICK g \in FileTags : l = index'[g] /\ l # None
      BY <1>b DEF Live
    <2>2. g # f /\ l = index[g]
      BY <1>a, <2>1
    <2> QED BY <2>1, <2>2 DEF Live, TypeOK
  <1>c. ASSUME NEW l, l \in Live \ {index[f]} PROVE l \in Live'
    <2>1. PICK g \in FileTags : l = index[g] /\ l # None
      BY <1>c DEF Live
    <2>2. g # f /\ l = index'[g]
      BY <1>a, <1>c, <2>1
    <2> QED BY <2>1, <2>2 DEF Live
  <1>2. Live' = Live \ {index[f]}
    <2>1. \A l : l \in Live' <=> l \in Live \ {index[f]}
      BY <1>b, <1>c
    <2> QED BY <2>1
  <1>d. Live \subseteq LockIds
    BY DEF Live, TypeOK
  <1>3. \A l \in Live' : l # index[f] /\ l \in LockIds
    BY <1>2, <1>d
  <1>4. \A l \in Live' : sem'[l] = sem[l]
    BY <1>3 DEF DestroyLock, TypeOK
  <1> QED BY <1>1, <1>2, <1>4 DEF TypeOK

\* storage_wait finds the lock that is registered for the File:Tag.
LEMMA WaitLookupToken ==
    ASSUME LockInv, NEW t \in Threads, WaitLookup(t)
    PROVE  PointersOK' /\ OneToken'
  <1> USE LocksAssumption DEF LockInv
  <1>1. UNCHANGED <<index, sem, tainted, ft>> /\ Live' = Live /\ ft[t] \in FileTags
    BY DEF WaitLookup, locks, history, Live, LocalsOK
  <1>2. /\ pc \in [Threads -> PCs] /\ lk \in [Threads -> LockIds \cup {None}]
        /\ pc[t] = "wait" /\ lk[t] = None
    BY DEF WaitLookup, TypeOK, LocalsOK
  <1>3. \A u \in Threads \ {t} : lk'[u] = lk[u] /\ pc'[u] = pc[u]
    BY <1>2 DEF WaitLookup, Goto
  <1>4. lk'[t] \in {None, index[ft[t]]} /\ (lk'[t] = None \/ pc'[t] \notin Inside)
    BY <1>2 DEF WaitLookup, Goto, Inside
  <1>5. PointersOK'
    BY <1>1, <1>3, <1>4 DEF PointersOK, Live
  <1>6. \A l \in Live, u \in Threads : Holds(u, l)' <=> Holds(u, l)
    BY <1>2, <1>3, <1>4 DEF Holds, Live
  <1>7. OneToken'
    BY <1>1, <1>6 DEF OneToken
  <1> QED BY <1>5, <1>7

\* sem_wait moves the token from the semaphore to one thread.
LEMMA WaitAcquireToken ==
    ASSUME LockInv, NEW t \in Threads, WaitAcquire(t)
    PROVE  PointersOK' /\ OneToken'
  <1> USE DEF LockInv
  <1> DEFINE m == lk[t]
  <1>1. /\ UNCHANGED <<index, tainted, ft, lk>>
        /\ Live' = Live
        /\ m \in Live /\ m \in LockIds
    BY DEF WaitAcquire, history, Live, TypeOK
  <1>2. PointersOK'
    BY <1>1 DEF PointersOK
  <1>3. /\ pc[t] = "sem_wait" /\ pc'[t] = "load"
        /\ \A u \in Threads \ {t} : pc'[u] = pc[u]
    BY DEF WaitAcquire, Goto, TypeOK
  <1>4. sem[m] > 0 /\ sem' = [sem EXCEPT ![m] = sem[m] - 1] /\ sem \in [LockIds -> Nat]
    BY DEF WaitAcquire, TypeOK
  <1>5. ASSUME NEW l \in Live \ tainted
        PROVE  /\ sem'[l] \in {0, 1}
               /\ sem'[l] = 1 => \A u \in Threads : ~Holds(u, l)'
               /\ sem'[l] = 0 => \E u \in Threads : Holds(u, l)'
               /\ \A u, v \in Threads : Holds(u, l)' /\ Holds(v, l)' => u = v
    <2>1. CASE l = m
      <3>1. sem[l] = 1 /\ \A u \in Threads : ~Holds(u, l)
        BY <1>4, <2>1 DEF OneToken
      <3>2. sem'[l] = 0
        BY <1>1, <1>4, <2>1, <3>1
      <3>3. \A u \in Threads : Holds(u, l)' <=> u = t
        BY <1>1, <1>3, <2>1, <3>1 DEF Holds, Inside
      <3> QED BY <3>2, <3>3
    <2>2. CASE l # m
      <3>1. sem'[l] = sem[l]
        BY <1>1, <1>4, <2>2 DEF Live, TypeOK
      <3>2. \A u \in Threads : Holds(u, l)' <=> Holds(u, l)
        BY <1>1, <1>3, <2>2 DEF Holds
      <3> QED BY <3>1, <3>2 DEF OneToken
    <2> QED BY <2>1, <2>2
  <1>6. OneToken'
    BY <1>1, <1>5 DEF OneToken
  <1> QED BY <1>2, <1>6

\* A thread that waits on freed memory touches no registered lock.
LEMMA WaitFreedToken ==
    ASSUME LockInv, NEW t \in Threads, WaitFreed(t)
    PROVE  PointersOK' /\ OneToken'
  <1> USE DEF LockInv
  <1>1. UNCHANGED <<index, sem, tainted, ft, lk>> /\ Live' = Live /\ lk[t] \notin Live
    BY DEF WaitFreed, locks, history, Live
  <1>2. PointersOK'
    BY <1>1 DEF PointersOK
  <1>3. \A u \in Threads \ {t} : pc'[u] = pc[u]
    BY DEF WaitFreed, Goto, TypeOK
  <1>4. \A l \in Live, u \in Threads : Holds(u, l)' <=> Holds(u, l)
    BY <1>1, <1>3 DEF Holds
  <1>5. OneToken'
    BY <1>1, <1>4 DEF OneToken
  <1> QED BY <1>2, <1>5

\* create_lock registers a lock with its token at an address nobody else is using.
LEMMA AddLockToken ==
    ASSUME LockInv, NEW t \in Threads, AddLock(t)
    PROVE  PointersOK' /\ OneToken'
  <1> USE LocksAssumption DEF LockInv
  <1>1. /\ pc[t] = "add_lock" /\ lk[t] = None /\ UNCHANGED lk
        /\ ft[t] \in FileTags
        /\ pc'[t] \notin Inside
        /\ \A u \in Threads \ {t} : pc'[u] = pc[u] /\ ft'[u] = ft[u]
    BY DEF AddLock, LocalsOK, TypeOK, Return, TurnToOther, Goto, Inside
  <1>2. None \notin Live /\ Live \subseteq LockIds
    BY DEF Live, TypeOK
  <1>3. CASE UNCHANGED <<locks, tainted, raced>>
    <2>1. UNCHANGED <<index, sem, lk, tainted>>
      BY <1>1, <1>3 DEF locks
    <2>2. \A u \in Threads : lk[u] # None =>
               ft'[u] = ft[u] /\ (pc'[u] \in Inside <=> pc[u] \in Inside)
      BY <1>1
    <2> QED BY <2>1, <2>2, Frame
  <1>4. ASSUME index[ft[t]] = None, NEW m \in LockIds \ Live,
               index' = [index EXCEPT ![ft[t]] = m],
               sem' = [sem EXCEPT ![m] = 1],
               tainted' = IF \E u \in Threads : lk[u] = m
                          THEN tainted \cup {m} ELSE tainted \ {m}
        PROVE  PointersOK' /\ OneToken'
    <2>1. \A g \in FileTags : index'[g] = IF g = ft[t] THEN m ELSE index[g]
      BY <1>1, <1>4 DEF TypeOK
    <2>2. \A l \in Live' : l # m => l \in Live
      BY <2>1 DEF Live
    <2>3. \A l : l # m => (l \in tainted' <=> l \in tainted)
      BY <1>4
    <2>4. m \in tainted' <=> \E u \in Threads : lk[u] = m
      BY <1>4
    <2>5. ASSUME NEW u \in Threads, lk'[u] \in Live' \ tainted' PROVE index'[ft'[u]] = lk'[u]
      <3>1. lk[u] # m /\ lk[u] \in Live \ tainted
        BY <1>1, <2>2, <2>3, <2>4, <2>5
      <3>2. index[ft[u]] = lk[u] /\ u # t
        BY <1>1, <1>2, <3>1 DEF PointersOK
      <3>3. pc[u] # "idle" /\ ft[u] \in FileTags
        BY <1>2, <3>1 DEF LocalsOK
      <3>4. ft[u] # ft[t]
        BY <1>2, <1>4, <3>1, <3>2
      <3> QED BY <1>1, <2>1, <3>2, <3>3, <3>4
    <2>6. PointersOK'
      BY <2>5 DEF PointersOK
    <2>7. ASSUME NEW l \in Live' \ tainted'
          PROVE  /\ sem'[l] \in {0, 1}
                 /\ sem'[l] = 1 => \A u \in Threads : ~Holds(u, l)'
                 /\ sem'[l] = 0 => \E u \in Threads : Holds(u, l)'
                 /\ \A u, v \in Threads : Holds(u, l)' /\ Holds(v, l)' => u = v
      <3>1. CASE l = m
        <4>1. sem'[l] = 1
          BY <1>4, <3>1 DEF TypeOK
        <4>2. \A u \in Threads : ~Holds(u, l)'
          BY <1>1, <2>4, <2>7, <3>1 DEF Holds
        <4> QED BY <4>1, <4>2
      <3>2. CASE l # m
        <4>1. l \in Live \ tainted /\ sem'[l] = sem[l]
          BY <1>2, <1>4, <2>2, <2>3, <2>7, <3>2 DEF TypeOK
        <4>2. \A u \in Threads : Holds(u, l)' <=> Holds(u, l)
          BY <1>1, <1>2, <4>1 DEF Holds
        <4> QED BY <4>1, <4>2 DEF OneToken
      <3> QED BY <3>1, <3>2
    <2>8. OneToken'
      BY <2>7 DEF OneToken
    <2> QED BY <2>6, <2>8
  <1> QED
    BY <1>3, <1>4 DEF AddLock

\* remove_lock marks the lock or destroys it; the other locks keep their tokens.
LEMMA RemoveLockToken ==
    ASSUME LockInv, NEW t \in Threads, RemoveLock(t)
    PROVE  PointersOK' /\ OneToken'
  <1> USE LocksAssumption DEF LockInv
  <1>1. /\ pc[t] = "remove_lock" /\ pc'[t] = "signal"
        /\ ft[t] \in FileTags
        /\ \A u \in Threads \ {t} : pc'[u] = pc[u]
        /\ UNCHANGED <<ft, tainted>>
    BY DEF RemoveLock, Unused, LocalsOK, TypeOK, Goto, history
  <1>2. \A u \in Threads : pc'[u] \in Inside <=> pc[u] \in Inside
    BY <1>1 DEF Inside
  <1>3. CASE UNCHANGED <<index, sem, lk>>
    BY <1>1, <1>2, <1>3, Frame
  <1>4. CASE /\ index[ft[t]] # None
             /\ DestroyLock(ft[t])
             /\ lk' = [lk EXCEPT ![t] = IF @ = index[ft[t]] THEN None ELSE @]
    <2>1. /\ Live' = Live \ {index[ft[t]]}
          /\ \A l \in Live' : sem'[l] = sem[l]
          /\ \A g \in FileTags : index[g] # index[ft[t]] => index'[g] = index[g]
      BY <1>1, <1>4, DestroyLockLive
    <2>2. \A u \in Threads, l \in Live' : lk'[u] = l <=> lk[u] = l
      BY <1>4, <2>1 DEF TypeOK, Live
    <2>3. ASSUME NEW u \in Threads, lk'[u] \in Live' \ tainted' PROVE index'[ft'[u]] = lk'[u]
      <3>1. lk[u] = lk'[u] /\ lk[u] \in Live \ tainted /\ lk[u] # index[ft[t]] /\ lk[u] # None
        BY <1>1, <2>1, <2>2, <2>3 DEF Live
      <3>2. index[ft[u]] = lk[u]
        BY <3>1 DEF PointersOK
      <3>3. ft[u] \in FileTags
        BY <3>1 DEF LocalsOK
      <3> QED BY <1>1, <2>1, <3>1, <3>2, <3>3
    <2>4. PointersOK'
      BY <2>3 DEF PointersOK
    <2>5. \A l \in Live', u \in Threads : Holds(u, l)' <=> Holds(u, l)
      BY <1>2, <2>2 DEF Holds
    <2>6. OneToken'
      BY <1>1, <2>1, <2>5 DEF OneToken
    <2> QED BY <2>4, <2>6
  <1> QED
    BY <1>3, <1>4 DEF RemoveLock, Unused, locks

\* A TAG that fails on a link keeps the token for ever: the lock is counted as misused.
LEMMA LinkBlocksToken ==
    ASSUME LockInv, NEW t \in Threads, LinkBlocks(t)
    PROVE  PointersOK' /\ OneToken'
  <1> USE LocksAssumption DEF LockInv
  <1>1. /\ pc[t] = "link" /\ UNCHANGED <<index, sem>> /\ Live' = Live /\ None \notin Live
        /\ \A u \in Threads \ {t} : pc'[u] = pc[u] /\ ft'[u] = ft[u] /\ lk'[u] = lk[u]
    BY DEF LinkBlocks, locks, Live, TypeOK, Goto, Return
  <1>2. CASE Goto(t, "signal") /\ UNCHANGED <<ft, lk, tainted>>
    <2>1. \A u \in Threads : pc'[u] \in Inside <=> pc[u] \in Inside
      BY <1>1, <1>2 DEF Goto, TypeOK, Inside
    <2> QED BY <1>1, <1>2, <2>1, Frame
  <1>3. CASE lk' = [lk EXCEPT ![t] = None] /\ tainted' = tainted \cup ({lk[t]} \ {None})
    <2>1. lk'[t] = None
      BY <1>3 DEF TypeOK
    <2>2. PointersOK'
      BY <1>1, <1>3, <2>1 DEF PointersOK
    <2>3. ASSUME NEW l \in Live \ tainted' PROVE \A u \in Threads : Holds(u, l)' <=> Holds(u, l)
      <3>1. l # lk[t] /\ l # None
        BY <1>1, <1>3, <2>3
      <3> QED BY <1>1, <2>1, <3>1 DEF Holds
    <2>4. OneToken'
      BY <1>1, <1>3, <2>3 DEF OneToken
    <2> QED BY <2>2, <2>4
  <1> QED
    BY <1>2, <1>3 DEF LinkBlocks

\* storage_signal gives the token back to the lock the thread holds, or the lock is misused.
LEMMA SignalToken ==
    ASSUME LockInv, NEW t \in Threads, Signal(t)
    PROVE  PointersOK' /\ OneToken'
  <1> USE LocksAssumption DEF LockInv
  <1> DEFINE m == index[ft[t]]
  <1>1. /\ pc[t] = "signal" /\ ft[t] \in FileTags /\ pc'[t] \notin Inside
        /\ lk' = [lk EXCEPT ![t] = None] /\ lk'[t] = None
        /\ \A u \in Threads \ {t} : pc'[u] = pc[u] /\ ft'[u] = ft[u] /\ lk'[u] = lk[u]
    BY DEF Signal, LocalsOK, TypeOK, Return, TurnToOther, Goto, Inside
  <1>2. None \notin Live /\ Live \subseteq LockIds
    BY DEF Live, TypeOK
  <1>3. lk[t] \in Live \ tainted => lk[t] = m
    BY DEF PointersOK
  <1>4. \A l \in Live \ tainted : l # m => \A u \in Threads : Holds(u, l)' <=> Holds(u, l)
    BY <1>1, <1>2, <1>3 DEF Holds
  <1>5. CASE m = None /\ UNCHANGED <<locks, tainted>>
    <2>1. Live' = Live /\ UNCHANGED <<index, sem, tainted>>
      BY <1>5 DEF Live, locks
    <2>2. PointersOK'
      BY <1>1, <1>2, <2>1 DEF PointersOK
    <2>3. OneToken'
      BY <1>2, <1>4, <1>5, <2>1 DEF OneToken
    <2> QED BY <2>2, <2>3
  <1>6. CASE /\ m # None
             /\ sem' = [sem EXCEPT ![m] = sem[m] + 1]
             /\ tainted' = IF lk[t] = m THEN tainted ELSE tainted \cup {m}
             /\ UNCHANGED index
    <2>1. Live' = Live /\ m \in Live /\ tainted \subseteq tainted'
      BY <1>1, <1>6 DEF Live
    <2>2. PointersOK'
      BY <1>1, <1>2, <1>6, <2>1 DEF PointersOK
    <2>3. ASSUME NEW l \in Live \ tainted'
          PROVE  /\ sem'[l] \in {0, 1}
                 /\ sem'[l] = 1 => \A u \in Threads : ~Holds(u, l)'
                 /\ sem'[l] = 0 => \E u \in Threads : Holds(u, l)'
                 /\ \A u, v \in Threads : Holds(u, l)' /\ Holds(v, l)' => u = v
      <3>1. CASE l = m
        <4>1. lk[t] = l /\ Holds(t, l) /\ l \notin tainted
          BY <1>1, <1>6, <2>1, <2>3, <3>1 DEF Holds, Inside
        <4>2. sem[l] = 0 /\ \A u \in Threads : Holds(u, l) => u = t
          BY <2>1, <3>1, <4>1 DEF OneToken
        <4>3. sem'[l] = 1
          BY <1>2, <1>6, <2>1, <3>1, <4>2 DEF TypeOK
        <4>4. \A u \in Threads : ~Holds(u, l)'
          BY <1>1, <1>2, <2>1, <3>1, <4>2 DEF Holds
        <4> QED BY <4>3, <4>4
      <3>2. CASE l # m
        <4>1. sem'[l] = sem[l] /\ l \notin tainted
          BY <1>2, <1>6, <2>1, <2>3, <3>2 DEF TypeOK
        <4> QED BY <1>4, <2>3, <3>2, <4>1 DEF OneToken
      <3> QED BY <3>1, <3>2
    <2>4. OneToken'
      BY <2>1, <2>3 DEF OneToken
    <2> QED BY <2>2, <2>4
  <1>7. CASE m # None /\ DestroyLock(ft[t]) /\ UNCHANGED tainted
    <2>1. /\ Live' = Live \ {m}
          /\ \A l \in Live' : sem'[l] = sem[l]
          /\ \A g \in FileTags : index[g] # m => index'[g] = index[g]
      BY <1>1, <1>7, DestroyLockLive
    <2>2. ASSUME NEW u \in Threads, lk'[u] \in Live' \ tainted' PROVE index'[ft'[u]] = lk'[u]
      <3>1. u # t /\ lk[u] = lk'[u] /\ lk[u] \in Live \ tainted /\ lk[u] # m /\ lk[u] # None
        BY <1>1, <1>2, <1>7, <2>1, <2>2
      <3>2. index[ft[u]] = lk[u] /\ ft[u] \in FileTags
        BY <3>1 DEF PointersOK, LocalsOK
      <3> QED BY <1>1, <2>1, <3>1, <3>2
    <2>3. PointersOK'
      BY <2>2 DEF PointersOK
    <2>4. OneToken'
      BY <1>4, <1>7, <2>1 DEF OneToken
    <2> QED BY <2>3, <2>4
  <1> QED
    BY <1>5, <1>6, <1>7 DEF Signal

-----------------------------------------------------------------------------

\* Every step keeps each registered lock with one token and its users on its File:Tag.
LEMMA TokenStep == LockInv /\ [Next]_vars => PointersOK' /\ OneToken'
  <1> SUFFICES ASSUME LockInv, [Next]_vars PROVE PointersOK' /\ OneToken'
    OBVIOUS
  <1> USE LocksAssumption DEF Inside, locks, history
  <1>1. ASSUME NEW t \in Threads, Start(t) PROVE PointersOK' /\ OneToken'
    BY <1>1, Frame DEF LockInv, TypeOK, LocalsOK, Start, StartCreate, StartUse, StartDelete,
                       StartTag, StartOp, Goto
  <1>2. ASSUME NEW t \in Threads, Mkdir(t) PROVE PointersOK' /\ OneToken'
    BY <1>2, Frame DEF LockInv, TypeOK, LocalsOK, Mkdir, Goto, Return
  <1>3. ASSUME NEW t \in Threads, Fopen(t) PROVE PointersOK' /\ OneToken'
    BY <1>3, Frame DEF LockInv, TypeOK, LocalsOK, Fopen, Goto, Return
  <1>4. ASSUME NEW t \in Threads, WaitIncrement(t) PROVE PointersOK' /\ OneToken'
    BY <1>4, Frame DEF LockInv, TypeOK, WaitIncrement, Goto
  <1>5. ASSUME NEW t \in Threads, WaitLoad(t) PROVE PointersOK' /\ OneToken'
    BY <1>5, Frame DEF LockInv, TypeOK, WaitLoad, Goto
  <1>6. ASSUME NEW t \in Threads, WaitStore(t) PROVE PointersOK' /\ OneToken'
    BY <1>6, Frame DEF LockInv, TypeOK, WaitStore, Goto
  <1>7. ASSUME NEW t \in Threads, Enter(t) PROVE PointersOK' /\ OneToken'
    BY <1>7, Frame DEF LockInv, TypeOK, Enter, Goto
  <1>8. ASSUME NEW t \in Threads, Body(t) PROVE PointersOK' /\ OneToken'
    BY <1>8, Frame DEF LockInv, TypeOK, Body, Goto
  <1>9. ASSUME NEW t \in Threads, RemoveMetadata(t) PROVE PointersOK' /\ OneToken'
    BY <1>9, Frame DEF LockInv, TypeOK, RemoveMetadata, Goto
  <1>10. ASSUME NEW t \in Threads, Rmdir(t) PROVE PointersOK' /\ OneToken'
    BY <1>10, Frame DEF LockInv, TypeOK, Rmdir, Goto
  <1>11. CASE UNCHANGED vars
    BY <1>11, Frame DEF LockInv, vars
  <1> QED
    BY <1>1, <1>2, <1>3, <1>4, <1>5, <1>6, <1>7, <1>8, <1>9, <1>10, <1>11,
       AddLockToken, WaitLookupToken, WaitAcquireToken, WaitFreedToken, RemoveLockToken,
       LinkBlocksToken, SignalToken DEF Next, Run

-----------------------------------------------------------------------------

\* The inductive invariant of the locks of the storage, whatever the workers request.
THEOREM LockInvariant == Spec => []LockInv
  <1>1. LockInv /\ [Next]_vars => LockInv'
    BY TypeStep, LocalsStep, TokenStep DEF LockInv
  <1> QED
    BY InitLockInv, <1>1, PTL DEF Spec

\* The state of the locks is well typed, and an address is the lock of one File:Tag at most.
THEOREM LocksTypeCorrect == Spec => []TypeOK
  <1>1. LockInv => TypeOK
    BY DEF LockInv
  <1> QED BY LockInvariant, <1>1, PTL

\* A registered lock that was not misused is held by one thread at a time, and its token is
\* never lost: storage_wait and storage_signal keep it whatever happens to the index.
THEOREM LockToken == Spec => []OneToken
  <1>1. LockInv => OneToken
    BY DEF LockInv
  <1> QED BY LockInvariant, <1>1, PTL

-----------------------------------------------------------------------------
(***************************************************************************)
(* TLAPS proofs about count_waiting, for every finite set of threads and   *)
(* every set of File:Tags and addresses: remove_lock and storage_signal    *)
(* decide on it whether a lock can be freed.                               *)
(*                                                                         *)
(* The inductive invariant adds to LockInv                                 *)
(*     HolderOK /\ CountsWaiters /\ NoWaiterOnFreedLock                    *)
(* HolderOK is why the increment is safe although it is not atomic: it is  *)
(* done inside sem_locks_index, where nobody frees a lock.                 *)
(***************************************************************************)

\* A thread about to increment count_waiting is inside sem_locks_index with a registered lock.
HolderOK ==
    \A t \in Threads : pc[t] = "increment" => indexHolder = t /\ lk[t] \in Live

WaitInv == LockInv /\ HolderOK /\ CountsWaiters /\ NoWaiterOnFreedLock

Waiting == {"sem_wait", "load", "store"}

-----------------------------------------------------------------------------

\* Nobody waits when the storage starts.
LEMMA InitWaitInv == Init => WaitInv
  <1> SUFFICES ASSUME Init PROVE WaitInv
    OBVIOUS
  <1>1. LockInv
    BY InitLockInv
  <1>2. Live = {}
    BY DEF Init, Live
  <1>3. HolderOK /\ CountsWaiters /\ NoWaiterOnFreedLock
    BY <1>2 DEF Init, HolderOK, CountsWaiters, NoWaiterOnFreedLock
  <1> QED BY <1>1, <1>3 DEF WaitInv

\* The waiters of a lock can be counted.
LEMMA WaitersFinite == \A l : IsFiniteSet(Waiters(l))
  BY LocksAssumption, FS_Subset DEF Waiters

\* A step that leaves the locks and the pointers alone, and moves no thread in or out of the
\* wait, changes no count.
LEMMA WaitFrame ==
    ASSUME LockInv, LocalsOK', CountsWaiters, NoWaiterOnFreedLock,
           UNCHANGED <<index, count, lk, tainted, raced>>,
           \A u \in Threads : lk[u] # None =>
               /\ pc'[u] \in Waiting <=> pc[u] \in Waiting
               /\ pc'[u] = "sem_wait" => pc[u] = "sem_wait"
    PROVE  CountsWaiters' /\ NoWaiterOnFreedLock'
  <1>1. Live' = Live /\ None \notin Live
    BY DEF Live
  <1>2. \A l \in Live : Waiters(l)' = Waiters(l)
    BY <1>1 DEF Waiters, Waiting
  <1>3. CountsWaiters'
    BY <1>1, <1>2 DEF CountsWaiters
  <1>4. NoWaiterOnFreedLock'
    BY <1>1, LocksAssumption DEF NoWaiterOnFreedLock, LocalsOK
  <1> QED BY <1>3, <1>4

\* Only WaitLookup, WaitIncrement, AddLock, RemoveLock and Signal take or need the index.
LEMMA HolderStep == LockInv /\ HolderOK /\ [Next]_vars => HolderOK'
  <1> SUFFICES ASSUME LockInv, HolderOK, [Next]_vars PROVE HolderOK'
    OBVIOUS
  <1> USE LocksAssumption DEF LockInv, TypeOK, LocalsOK, HolderOK, locks, history
  <1>1. ASSUME UNCHANGED <<index, indexHolder>>,
               \A u \in Threads : pc'[u] = "increment" => pc[u] = "increment" /\ lk'[u] = lk[u]
        PROVE  HolderOK'
    BY <1>1 DEF Live
  <1>2. ASSUME indexHolder = None, \A u \in Threads : pc'[u] # "increment"
        PROVE  HolderOK'
    BY <1>2
  <1>3. ASSUME NEW t \in Threads, Start(t) PROVE HolderOK'
    BY <1>1, <1>3 DEF Start, StartCreate, StartUse, StartDelete, StartTag, StartOp, Goto
  <1>4. ASSUME NEW t \in Threads, Mkdir(t) \/ Fopen(t) PROVE HolderOK'
    BY <1>1, <1>4 DEF Mkdir, Fopen, Goto, Return
  <1>5. ASSUME NEW t \in Threads, AddLock(t) PROVE HolderOK'
    BY <1>2, <1>5 DEF AddLock, Goto, Return, TurnToOther
  <1>6. ASSUME NEW t \in Threads, WaitLookup(t) PROVE HolderOK'
    BY <1>6 DEF WaitLookup, Goto, Live
  <1>7. ASSUME NEW t \in Threads, WaitIncrement(t) PROVE HolderOK'
    BY <1>7 DEF WaitIncrement, Goto
  <1>8. ASSUME NEW t \in Threads, WaitAcquire(t) \/ WaitFreed(t) \/ WaitLoad(t) \/ WaitStore(t)
        PROVE  HolderOK'
    BY <1>1, <1>8 DEF WaitAcquire, WaitFreed, WaitLoad, WaitStore, Goto
  <1>9. ASSUME NEW t \in Threads, Enter(t) \/ Body(t) \/ RemoveMetadata(t) \/ Rmdir(t)
        PROVE  HolderOK'
    BY <1>1, <1>9 DEF Enter, Body, RemoveMetadata, Rmdir, Goto
  <1>10. ASSUME NEW t \in Threads, RemoveLock(t) PROVE HolderOK'
    BY <1>2, <1>10 DEF RemoveLock, Goto
  <1>11. ASSUME NEW t \in Threads, LinkBlocks(t) PROVE HolderOK'
    BY <1>1, <1>11 DEF LinkBlocks, Goto, Return
  <1>12. ASSUME NEW t \in Threads, Signal(t) PROVE HolderOK'
    BY <1>2, <1>12 DEF Signal, Goto, Return, TurnToOther
  <1>13. CASE UNCHANGED vars
    BY <1>1, <1>13 DEF vars
  <1> QED
    BY <1>3, <1>4, <1>5, <1>6, <1>7, <1>8, <1>9, <1>10, <1>11, <1>12, <1>13 DEF Next, Run

-----------------------------------------------------------------------------
(* The five steps that touch what the count is about.                      *)

\* count_waiting++ counts the thread that becomes a waiter, or an update is lost.
LEMMA IncrementCounts ==
    ASSUME WaitInv, NEW t \in Threads, WaitIncrement(t)
    PROVE  CountsWaiters' /\ NoWaiterOnFreedLock'
  <1> USE DEF WaitInv, LockInv
  <1> DEFINE m == lk[t]
  <1>1. /\ UNCHANGED <<index, lk, tainted>> /\ Live' = Live
        /\ pc[t] = "increment" /\ pc'[t] = "sem_wait"
        /\ \A u \in Threads \ {t} : pc'[u] = pc[u]
    BY DEF WaitIncrement, Goto, TypeOK, Live
  <1>2. /\ m \in Live /\ m \in LockIds
        /\ count' = [count EXCEPT ![m] = tmp[t] + 1]
        /\ raced' = IF count[m] = tmp[t] THEN raced ELSE raced \cup {m}
    BY <1>1 DEF WaitIncrement, StoreCount, HolderOK, Live, TypeOK
  <1>4. \A l : l # m => Waiters(l)' = Waiters(l)
    BY <1>1 DEF Waiters
  <1>5. ASSUME NEW l, l = m PROVE Cardinality(Waiters(l)') = Cardinality(Waiters(l)) + 1
    <2>1. Waiters(l)' = Waiters(l) \cup {t} /\ t \notin Waiters(l)
      BY <1>1, <1>5 DEF Waiters
    <2> QED BY <2>1, WaitersFinite, FS_AddElement
  <1>6. ASSUME NEW l \in Live' \ (tainted' \cup raced')
        PROVE  count'[l] = Cardinality(Waiters(l)')
    <2>1. l \in Live \ (tainted \cup raced) /\ l \in LockIds
      BY <1>1, <1>2, <1>6 DEF Live, TypeOK
    <2>2. count[l] = Cardinality(Waiters(l))
      BY <2>1 DEF CountsWaiters
    <2>3. CASE l = m
      <3>1. count[m] = tmp[t]
        BY <1>2, <1>6, <2>3
      <3>2. count'[l] = count[l] + 1
        BY <1>2, <2>3, <3>1 DEF TypeOK
      <3> QED BY <1>5, <2>2, <2>3, <3>2
    <2>4. CASE l # m
      BY <1>2, <1>4, <2>1, <2>2, <2>4 DEF TypeOK
    <2> QED BY <2>3, <2>4
  <1>7. CountsWaiters'
    BY <1>6 DEF CountsWaiters
  <1>8. NoWaiterOnFreedLock'
    BY <1>1, <1>2 DEF NoWaiterOnFreedLock
  <1> QED BY <1>7, <1>8

\* count_waiting-- forgets the thread that has its lock, or an update is lost.
LEMMA StoreCounts ==
    ASSUME WaitInv, LocalsOK', NEW t \in Threads, WaitStore(t)
    PROVE  CountsWaiters' /\ NoWaiterOnFreedLock'
  <1> USE DEF WaitInv, LockInv
  <1> DEFINE m == lk[t]
  <1>1. /\ UNCHANGED <<index, lk, tainted>> /\ Live' = Live
        /\ pc[t] = "store" /\ pc'[t] = "enter"
        /\ \A u \in Threads \ {t} : pc'[u] = pc[u]
    BY DEF WaitStore, Goto, TypeOK, Live
  <1>3. \A l : l # m => Waiters(l)' = Waiters(l)
    BY <1>1 DEF Waiters
  <1>4. ASSUME NEW l, l = m PROVE Cardinality(Waiters(l)') = Cardinality(Waiters(l)) - 1
    <2>1. Waiters(l)' = Waiters(l) \ {t} /\ t \in Waiters(l)
      BY <1>1, <1>4 DEF Waiters
    <2> QED BY <2>1, WaitersFinite, FS_RemoveElement
  <1>5. raced \subseteq raced'
    BY DEF WaitStore, StoreCount
  <1>6. ASSUME NEW l \in Live' \ (tainted' \cup raced')
        PROVE  count'[l] = Cardinality(Waiters(l)')
    <2>1. l \in Live \ (tainted \cup raced) /\ l \in LockIds
      BY <1>1, <1>5, <1>6 DEF Live, TypeOK
    <2>2. count[l] = Cardinality(Waiters(l))
      BY <2>1 DEF CountsWaiters
    <2>3. CASE l = m
      <3>1. count' = [count EXCEPT ![m] = tmp[t] - 1] /\ count[m] = tmp[t]
        BY <1>6, <2>1, <2>3 DEF WaitStore, StoreCount
      <3>2. count'[l] = count[l] - 1
        BY <2>1, <2>3, <3>1 DEF TypeOK
      <3> QED BY <1>4, <2>2, <2>3, <3>2
    <2>4. CASE l # m
      <3>1. count'[l] = count[l]
        BY <2>1, <2>4 DEF WaitStore, StoreCount, TypeOK
      <3> QED BY <1>3, <2>2, <2>4, <3>1
    <2> QED BY <2>3, <2>4
  <1>7. CountsWaiters'
    BY <1>6 DEF CountsWaiters
  <1>8. NoWaiterOnFreedLock'
    BY <1>1, <1>5 DEF NoWaiterOnFreedLock
  <1> QED BY <1>7, <1>8

\* A new lock counts nobody, unless some thread still points at its address.
LEMMA AddLockCounts ==
    ASSUME WaitInv, LockInv', NEW t \in Threads, AddLock(t)
    PROVE  CountsWaiters' /\ NoWaiterOnFreedLock'
  <1> USE LocksAssumption DEF WaitInv, LockInv
  <1>1. /\ lk[t] = None /\ UNCHANGED lk /\ ft[t] \in FileTags
        /\ pc[t] \notin Waiting /\ pc'[t] \notin Waiting
        /\ \A u \in Threads \ {t} : pc'[u] = pc[u]
    BY DEF AddLock, LocalsOK, TypeOK, Return, TurnToOther, Goto, Waiting
  <1>2. CASE UNCHANGED <<locks, tainted, raced>>
    <2>1. UNCHANGED <<index, count, lk, tainted, raced>>
      BY <1>1, <1>2 DEF locks
    <2>2. \A u \in Threads : /\ pc'[u] \in Waiting <=> pc[u] \in Waiting
                             /\ pc'[u] = "sem_wait" => pc[u] = "sem_wait"
      BY <1>1 DEF Waiting
    <2> QED BY <2>1, <2>2, WaitFrame
  <1>3. ASSUME index[ft[t]] = None, NEW m \in LockIds \ Live,
               index' = [index EXCEPT ![ft[t]] = m],
               count' = [count EXCEPT ![m] = 0],
               tainted' = IF \E u \in Threads : lk[u] = m
                          THEN tainted \cup {m} ELSE tainted \ {m},
               raced' = raced \ {m}
        PROVE  CountsWaiters' /\ NoWaiterOnFreedLock'
    <2>1. \A g \in FileTags : index'[g] = IF g = ft[t] THEN m ELSE index[g]
      BY <1>1, <1>3 DEF TypeOK
    <2>2. /\ \A l \in Live' : l # m => l \in Live
          /\ \A l \in Live : l \in Live'
          /\ m \in Live'
      <3>1. m # None
        BY <1>3
      <3>2. \A l \in Live' : l # m => l \in Live
        BY <2>1 DEF Live
      <3>3. m \in Live'
        BY <1>1, <2>1, <3>1 DEF Live
      <3>4. ASSUME NEW l \in Live PROVE l \in Live'
        <4>1. PICK g \in FileTags : l = index[g] /\ l # None
          BY DEF Live
        <4>2. index'[g] = l
          BY <1>3, <2>1, <4>1
        <4> QED BY <4>1, <4>2 DEF Live
      <3> QED BY <3>2, <3>3, <3>4
    <2>3. \A l : l # m => Waiters(l)' = Waiters(l)
      BY <1>1 DEF Waiters, Waiting
    <2>4. ASSUME NEW l \in Live' \ (tainted' \cup raced')
          PROVE  count'[l] = Cardinality(Waiters(l)')
      <3>1. CASE l = m
        <4>1. \A u \in Threads : lk[u] # m
          BY <1>3, <2>4, <3>1
        <4>2. Waiters(l)' = {}
          BY <1>1, <3>1, <4>1 DEF Waiters
        <4>3. count'[l] = 0
          BY <1>3, <3>1 DEF TypeOK
        <4> QED BY <4>2, <4>3, FS_EmptySet
      <3>2. CASE l # m
        <4>1. l \in Live \ (tainted \cup raced) /\ l \in LockIds
          BY <1>3, <2>2, <2>4, <3>2 DEF Live, TypeOK
        <4>2. count'[l] = count[l]
          BY <1>3, <3>2, <4>1 DEF TypeOK
        <4> QED BY <2>3, <3>2, <4>1, <4>2 DEF CountsWaiters
      <3> QED BY <3>1, <3>2
    <2>5. CountsWaiters'
      BY <2>4 DEF CountsWaiters
    <2>6. ASSUME NEW u \in Threads, pc'[u] = "sem_wait", lk'[u] \notin Live'
          PROVE  lk'[u] \in tainted' \cup raced'
      <3>1. u # t /\ pc[u] = "sem_wait" /\ lk[u] \notin Live /\ lk[u] # m
        BY <1>1, <2>2, <2>6 DEF Waiting
      <3>2. lk[u] \in tainted \cup raced
        BY <3>1 DEF NoWaiterOnFreedLock
      <3> QED BY <1>1, <1>3, <3>1, <3>2
    <2>7. NoWaiterOnFreedLock'
      BY <2>6 DEF NoWaiterOnFreedLock
    <2> QED BY <2>5, <2>7
  <1> QED
    BY <1>2, <1>3 DEF AddLock

\* A lock is destroyed when its count is zero: then nobody waits for it, unless an update was
\* lost or the lock misused.
LEMMA DestroyCounts ==
    ASSUME WaitInv, NEW f \in FileTags, index[f] # None, DestroyLock(f), Unused(index[f]),
           UNCHANGED <<tainted, raced>>,
           \A u \in Threads : lk'[u] \in {lk[u], None}
                             /\ (lk'[u] # lk[u] => pc[u] \notin Waiting),
           \A u \in Threads : pc'[u] # pc[u] => pc[u] \notin Waiting /\ pc'[u] \notin Waiting
    PROVE  CountsWaiters' /\ NoWaiterOnFreedLock'
  <1> USE DEF WaitInv, LockInv
  <1> DEFINE m == index[f]
  <1>1. Live' = Live \ {m} /\ m \in Live /\ Live \subseteq LockIds /\ None \notin Live
    <2>1. TypeOK
      OBVIOUS
    <2>2. Live' = Live \ {m}
      BY <2>1, DestroyLockLive
    <2>3. m \in Live /\ Live \subseteq LockIds /\ None \notin Live
      BY LocksAssumption DEF Live, TypeOK
    <2> QED BY <2>2, <2>3
  <1>2. \A l \in Live' : count'[l] = count[l]
    BY <1>1 DEF DestroyLock, TypeOK
  <1>3. \A u \in Threads : /\ pc'[u] \in Waiting <=> pc[u] \in Waiting
                           /\ pc[u] \in Waiting => pc'[u] = pc[u] /\ lk'[u] = lk[u]
    BY DEF Waiting
  <1>4. \A l \in Live' : Waiters(l)' = Waiters(l)
    BY <1>3 DEF Waiters, Waiting
  <1>5. CountsWaiters'
    BY <1>1, <1>2, <1>4 DEF CountsWaiters
  <1>6. m \notin tainted \cup raced => Waiters(m) = {}
    <2>1. SUFFICES ASSUME m \notin tainted \cup raced PROVE Waiters(m) = {}
      OBVIOUS
    <2>2. Cardinality(Waiters(m)) = 0
      BY <1>1, <2>1 DEF CountsWaiters, Unused
    <2> QED BY <2>2, WaitersFinite, FS_EmptySet
  <1>7. ASSUME NEW u \in Threads, pc'[u] = "sem_wait", lk'[u] \notin Live'
        PROVE  lk'[u] \in tainted' \cup raced'
    <2>1. pc[u] = "sem_wait" /\ lk'[u] = lk[u]
      BY <1>3, <1>7 DEF Waiting
    <2>2. CASE lk[u] = m
      BY <1>6, <2>1, <2>2 DEF Waiters
    <2>3. CASE lk[u] # m
      BY <1>1, <1>7, <2>1, <2>3 DEF NoWaiterOnFreedLock
    <2> QED BY <2>2, <2>3
  <1>8. NoWaiterOnFreedLock'
    BY <1>7 DEF NoWaiterOnFreedLock
  <1> QED BY <1>5, <1>8

LEMMA RemoveLockCounts ==
    ASSUME WaitInv, LocalsOK', NEW t \in Threads, RemoveLock(t)
    PROVE  CountsWaiters' /\ NoWaiterOnFreedLock'
  <1> USE LocksAssumption DEF WaitInv, LockInv
  <1>1. /\ pc[t] = "remove_lock" /\ pc'[t] = "signal" /\ ft[t] \in FileTags
        /\ \A u \in Threads \ {t} : pc'[u] = pc[u]
        /\ UNCHANGED <<tainted, raced>>
    BY DEF RemoveLock, LocalsOK, TypeOK, Goto, history
  <1>2. CASE UNCHANGED <<index, count, lk>>
    BY <1>1, <1>2, WaitFrame DEF Waiting
  <1>3. CASE /\ index[ft[t]] # None
             /\ Unused(index[ft[t]])
             /\ DestroyLock(ft[t])
             /\ lk' = [lk EXCEPT ![t] = IF @ = index[ft[t]] THEN None ELSE @]
    <2>1. \A u \in Threads : lk'[u] \in {lk[u], None} /\ (lk'[u] # lk[u] => pc[u] \notin Waiting)
      BY <1>1, <1>3 DEF TypeOK, Waiting
    <2>2. \A u \in Threads : pc'[u] # pc[u] => pc[u] \notin Waiting /\ pc'[u] \notin Waiting
      BY <1>1 DEF Waiting
    <2> QED BY <1>1, <1>3, <2>1, <2>2, DestroyCounts
  <1> QED
    BY <1>2, <1>3 DEF RemoveLock, locks

LEMMA SignalCounts ==
    ASSUME WaitInv, LocalsOK', NEW t \in Threads, Signal(t)
    PROVE  CountsWaiters' /\ NoWaiterOnFreedLock'
  <1> USE LocksAssumption DEF WaitInv, LockInv
  <1>1. /\ pc[t] = "signal" /\ pc'[t] \notin Waiting /\ ft[t] \in FileTags
        /\ pc[t] \notin Waiting
        /\ lk' = [lk EXCEPT ![t] = None]
        /\ \A u \in Threads \ {t} : pc'[u] = pc[u] /\ lk'[u] = lk[u]
        /\ UNCHANGED raced
    BY DEF Signal, LocalsOK, TypeOK, Return, TurnToOther, Goto, Waiting
  <1>2. \A l : l # None => Waiters(l)' = Waiters(l)
    BY <1>1 DEF Waiters, Waiting, TypeOK
  <1>3. CASE UNCHANGED <<index, count>> /\ tainted \subseteq tainted'
    <2>1. Live' = Live /\ None \notin Live
      BY <1>3 DEF Live
    <2>2. CountsWaiters'
      BY <1>1, <1>2, <1>3, <2>1 DEF CountsWaiters
    <2>3. NoWaiterOnFreedLock'
      BY <1>1, <1>3, <2>1 DEF NoWaiterOnFreedLock, Waiting
    <2> QED BY <2>2, <2>3
  <1>4. CASE /\ index[ft[t]] # None
             /\ Unused(index[ft[t]])
             /\ DestroyLock(ft[t])
             /\ UNCHANGED tainted
    <2>1. \A u \in Threads : lk'[u] \in {lk[u], None} /\ (lk'[u] # lk[u] => pc[u] \notin Waiting)
      BY <1>1 DEF TypeOK
    <2>2. \A u \in Threads : pc'[u] # pc[u] => pc[u] \notin Waiting /\ pc'[u] \notin Waiting
      BY <1>1
    <2> QED BY <1>1, <1>4, <2>1, <2>2, DestroyCounts
  <1> QED
    BY <1>3, <1>4 DEF Signal, locks

-----------------------------------------------------------------------------

\* Every step keeps the counts, and frees no lock somebody waits for.
LEMMA CountStep == WaitInv /\ LockInv' /\ [Next]_vars => CountsWaiters' /\ NoWaiterOnFreedLock'
  <1> SUFFICES ASSUME WaitInv, LockInv', [Next]_vars PROVE CountsWaiters' /\ NoWaiterOnFreedLock'
    OBVIOUS
  <1>a. LockInv /\ TypeOK /\ LocalsOK /\ LocalsOK' /\ CountsWaiters /\ NoWaiterOnFreedLock
    BY DEF WaitInv, LockInv
  <1> USE <1>a, LocksAssumption DEF TypeOK, LocalsOK, Waiting, locks, history
  <1>1. ASSUME NEW t \in Threads, Start(t) PROVE CountsWaiters' /\ NoWaiterOnFreedLock'
    BY <1>1, WaitFrame DEF Start, StartCreate, StartUse, StartDelete, StartTag, StartOp, Goto
  <1>2. ASSUME NEW t \in Threads, Mkdir(t) \/ Fopen(t)
        PROVE  CountsWaiters' /\ NoWaiterOnFreedLock'
    BY <1>2, WaitFrame DEF Mkdir, Fopen, Goto, Return
  <1>3. ASSUME NEW t \in Threads, WaitLookup(t) PROVE CountsWaiters' /\ NoWaiterOnFreedLock'
    <2>1. /\ UNCHANGED <<index, count, tainted, raced>> /\ Live' = Live
          /\ pc[t] = "wait" /\ pc'[t] \notin Waiting /\ lk[t] = None
          /\ \A u \in Threads \ {t} : pc'[u] = pc[u] /\ lk'[u] = lk[u]
      BY <1>3 DEF WaitLookup, Goto, Live
    <2>2. \A l \in Live : Waiters(l)' = Waiters(l)
      BY <2>1 DEF Waiters
    <2>3. CountsWaiters'
      BY <2>1, <2>2 DEF CountsWaiters
    <2>4. NoWaiterOnFreedLock'
      BY <2>1 DEF NoWaiterOnFreedLock
    <2> QED BY <2>3, <2>4
  <1>4. ASSUME NEW t \in Threads, WaitAcquire(t) \/ WaitFreed(t) \/ WaitLoad(t)
        PROVE  CountsWaiters' /\ NoWaiterOnFreedLock'
    BY <1>4, WaitFrame DEF WaitAcquire, WaitFreed, WaitLoad, Goto
  <1>5. ASSUME NEW t \in Threads, Enter(t) \/ Body(t) \/ RemoveMetadata(t) \/ Rmdir(t)
        PROVE  CountsWaiters' /\ NoWaiterOnFreedLock'
    BY <1>5, WaitFrame DEF Enter, Body, RemoveMetadata, Rmdir, Goto
  <1>6. ASSUME NEW t \in Threads, LinkBlocks(t) PROVE CountsWaiters' /\ NoWaiterOnFreedLock'
    <2>1. /\ UNCHANGED <<index, count, raced>> /\ Live' = Live /\ None \notin Live
          /\ tainted \subseteq tainted'
          /\ pc[t] = "link" /\ pc'[t] \notin Waiting
          /\ \A u \in Threads \ {t} : pc'[u] = pc[u] /\ lk'[u] = lk[u]
      BY <1>6 DEF LinkBlocks, Goto, Return, Live
    <2>2. \A l \in Live : Waiters(l)' = Waiters(l)
      BY <2>1 DEF Waiters
    <2>3. CountsWaiters'
      BY <2>1, <2>2 DEF CountsWaiters
    <2>4. NoWaiterOnFreedLock'
      BY <2>1 DEF NoWaiterOnFreedLock
    <2> QED BY <2>3, <2>4
  <1>7. CASE UNCHANGED vars
    BY <1>7, WaitFrame DEF vars
  <1>8. ASSUME NEW t \in Threads,
               AddLock(t) \/ WaitIncrement(t) \/ WaitStore(t) \/ RemoveLock(t) \/ Signal(t)
        PROVE  CountsWaiters' /\ NoWaiterOnFreedLock'
    BY <1>8, AddLockCounts, IncrementCounts, StoreCounts, RemoveLockCounts, SignalCounts
  <1> QED
    BY <1>1, <1>2, <1>3, <1>4, <1>5, <1>6, <1>7, <1>8 DEF Next, Run

\* The inductive invariant of the counts.
THEOREM WaitInvariant == Spec => []WaitInv
  <1>1. WaitInv /\ [Next]_vars => WaitInv'
    <2>1. LockInv /\ [Next]_vars => LockInv'
      BY TypeStep, LocalsStep, TokenStep DEF LockInv
    <2> QED BY <2>1, HolderStep, CountStep DEF WaitInv
  <1> QED
    BY InitWaitInv, <1>1, PTL DEF Spec

\* count_waiting is the number of waiters of a lock, as long as no update of it was lost.
THEOREM LockCount == Spec => []CountsWaiters
  <1>1. WaitInv => CountsWaiters
    BY DEF WaitInv
  <1> QED BY WaitInvariant, <1>1, PTL

\* No lock is freed under a thread that waits for it, except after a lost update of its count
\* or a post by a thread that did not hold it.
THEOREM LockNotFreed == Spec => []NoWaiterOnFreedLock
  <1>1. WaitInv => NoWaiterOnFreedLock
    BY DEF WaitInv
  <1> QED BY WaitInvariant, <1>1, PTL
=============================================================================
