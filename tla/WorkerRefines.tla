--------------------------- MODULE WorkerRefines ----------------------------
(***************************************************************************)
(* What a query sees of the internal memory: the pages nobody wrote to are *)
(* those of the storage, READ and WRITE are right, a worker that leaves    *)
(* its query loses nothing, and every step is one of ByteFiles.            *)
(***************************************************************************)
EXTENDS WorkerProofs

USE DEF Exists, EnTabla, Actual

\* A File:Tag has the blocks its size tells.
Tamanos == \A f \in FileTags : Exists(f) => files[f].size <= Len(files[f].data)

\* Until they drift apart, a page table is as long as its File:Tag.
TablasDeFiles ==
    ~fault => \A f \in FileTags : EnTabla(f) => Exists(f) /\ tabla[f].largo = files[f].size

Firme == Inv /\ Tamanos /\ TablasDeFiles /\ CleanPageIsTrue

\* What a query sees of block i of f.
Ve(f, i) ==
    IF pagina[<<f, i - 1>>].marco # None
    THEN marco[pagina[<<f, i - 1>>].marco].bytes ELSE files[f].data[i]

-----------------------------------------------------------------------------
(* Pages and blocks.                                                       *)

\* A block has its page.
LEMMA PaginaDe ==
    ASSUME FilesOK, NEW f \in FileTags, Exists(f)
    PROVE  /\ files[f] \in Storage!File
           /\ Len(files[f].data) \in 0..MaxLen
           /\ DOMAIN files[f].data = 1 .. Len(files[f].data)
           /\ files[f].data = [i \in 1 .. Len(files[f].data) |-> files[f].data[i]]
           /\ \A i \in 1 .. Len(files[f].data) : files[f].data[i] \in Contenido
           /\ \A i \in 1 .. Len(files[f].data) : i - 1 \in Nros /\ <<f, i - 1>> \in Paginas
<1>1. files[f] \in Storage!File
  BY DEF FilesOK
<1>2. PICK k \in 0..MaxLen : k = Len(files[f].data) /\ files[f].data \in [1..k -> Contenido]
  BY <1>1, Contenidos
<1>3. \A i \in 1..k : i - 1 \in Nros
  BY Constantes DEF Nros
<1> QED BY <1>1, <1>2, <1>3 DEF Paginas

\* and a page its block.
LEMMA BloqueDe ==
    ASSUME NEW x \in Paginas
    PROVE  /\ x[1] \in FileTags /\ x[2] \in Nros /\ x[2] \in Nat /\ x = <<x[1], x[2]>>
           /\ (x[2] + 1) - 1 = x[2] /\ <<x[1], (x[2] + 1) - 1>> = x
<1>1. x[1] \in FileTags /\ x[2] \in Nros /\ x = <<x[1], x[2]>>
  BY DEF Paginas
<1>2. x[2] \in Nat
  BY <1>1, Constantes
<1>3. (x[2] + 1) - 1 = x[2]
  BY <1>2
<1>4. <<x[1], (x[2] + 1) - 1>> = x
  BY <1>1, <1>3
<1> QED BY <1>1, <1>2, <1>3, <1>4

\* A page in memory.
LEMMA Presente ==
    ASSUME Inv, NEW x \in Paginas, pagina[x].marco # None
    PROVE  /\ pagina[x].marco \in Marcos
           /\ marco[pagina[x].marco] \in Marco /\ marco[pagina[x].marco] # None
           /\ marco[pagina[x].marco].de = x
           /\ marco[pagina[x].marco].bytes \in Contenido
           /\ tabla[x[1]] # None /\ tabla[x[1]] \in Tabla /\ x[2] < tabla[x[1]].largo
           /\ Ve(x[1], x[2] + 1) = marco[pagina[x].marco].bytes
<1>1. x[1] \in FileTags /\ <<x[1], (x[2] + 1) - 1>> = x
  BY BloqueDe
<1>2. /\ pagina[x].marco \in Marcos
      /\ tabla[x[1]] # None /\ x[2] < tabla[x[1]].largo
      /\ marco[pagina[x].marco] # None
      /\ marco[pagina[x].marco].de = x
  BY DEF Inv, StateOK, FramesMatchPages, Nodo
<1>3. marco[pagina[x].marco] \in Marco /\ tabla[x[1]] \in Tabla
  BY <1>1, <1>2 DEF Inv, StateOK
<1>4. marco[pagina[x].marco].bytes \in Contenido
  BY <1>3 DEF Marco
<1>5. Ve(x[1], x[2] + 1) = marco[pagina[x].marco].bytes
  BY <1>1 DEF Ve
<1> QED BY <1>2, <1>3, <1>4, <1>5

\* Until tables and storage drift apart, it is one of the blocks of its File:Tag.
LEMMA Cabe ==
    ASSUME Firme, ~fault, NEW x \in Paginas, pagina[x].marco # None
    PROVE  /\ Exists(x[1]) /\ x[2] < Len(files[x[1]].data)
           /\ x[2] + 1 \in 1 .. Len(files[x[1]].data)
           /\ x[2] < files[x[1]].size
<1>1. x[1] \in FileTags /\ x[2] \in Nat
  BY BloqueDe
<1>2. tabla[x[1]] # None /\ x[2] < tabla[x[1]].largo
  BY Presente DEF Firme
<1>3. Exists(x[1]) /\ tabla[x[1]].largo = files[x[1]].size
  BY <1>1, <1>2 DEF Firme, TablasDeFiles
<1>4. files[x[1]].size <= Len(files[x[1]].data)
  BY <1>1, <1>3 DEF Firme, Tamanos
<1>5. files[x[1]].size \in 0..MaxLen /\ Len(files[x[1]].data) \in 0..MaxLen
  BY <1>1, <1>3, Contenidos DEF Firme, Inv, StateOK
<1> QED BY <1>1, <1>2, <1>3, <1>4, <1>5

\* What is seen of a File:Tag, block by block,
LEMMA VistaDe ==
    ASSUME FilesOK, NEW f \in FileTags
    PROVE  /\ Exists(f) => /\ view[f] = [i \in 1 .. Len(files[f].data) |-> Ve(f, i)]
                           /\ DOMAIN view[f] = 1 .. Len(files[f].data)
                           /\ Len(view[f]) = Len(files[f].data)
           /\ ~Exists(f) => view[f] = None
<1>1. CASE Exists(f)
  <2>1. DOMAIN files[f].data = 1 .. Len(files[f].data) /\ Len(files[f].data) \in 0..MaxLen
    BY <1>1, PaginaDe
  <2>2. view[f] = [i \in DOMAIN files[f].data |-> Ve(f, i)]
    BY <1>1 DEF view, Ve
  <2>3. view[f] = [i \in 1 .. Len(files[f].data) |-> Ve(f, i)]
    BY <2>1, <2>2
  <2>4. Len(view[f]) = Len(files[f].data)
    BY <2>1, <2>3
  <2> QED BY <1>1, <2>3, <2>4
<1>2. CASE ~Exists(f)
  BY <1>2 DEF view
<1> QED BY <1>1, <1>2

\* and after a step.
LEMMA VistaSiguiente ==
    ASSUME FilesOK', NEW f \in FileTags
    PROVE  /\ files'[f] # None =>
                /\ files'[f].data = [i \in 1 .. Len(files'[f].data) |-> files'[f].data[i]]
                /\ DOMAIN files'[f].data = 1 .. Len(files'[f].data)
                /\ Len(files'[f].data) \in 0..MaxLen
                /\ \A i \in 1 .. Len(files'[f].data) : <<f, i - 1>> \in Paginas
                /\ view'[f] = [i \in 1 .. Len(files'[f].data) |-> Ve(f, i)']
                /\ DOMAIN view'[f] = 1 .. Len(files'[f].data)
           /\ files'[f] = None => view'[f] = None
<1>1. CASE files'[f] # None
  <2>1. files'[f] \in Storage!File
    BY <1>1 DEF FilesOK
  <2>2. PICK F \in Storage!File : F = files'[f]
    BY <2>1
  <2>3. PICK k \in 0..MaxLen : k = Len(F.data) /\ F.data \in [1..k -> Contenido]
    BY Contenidos
  <2>4. \A i \in 1..k : <<f, i - 1>> \in Paginas
    BY Constantes DEF Nros, Paginas
  <2>5. DOMAIN files'[f].data = 1 .. Len(files'[f].data)
    BY <2>2, <2>3
  <2>6. view'[f] = [i \in DOMAIN files'[f].data |-> Ve(f, i)']
    BY <1>1 DEF view, Ve
  <2>7. view'[f] = [i \in 1 .. Len(files'[f].data) |-> Ve(f, i)']
    BY <2>5, <2>6
  <2>8. files'[f].data = [i \in 1 .. Len(files'[f].data) |-> files'[f].data[i]]
    BY <2>2, <2>3
  <2>9. Len(files'[f].data) \in 0..MaxLen /\ \A i \in 1 .. Len(files'[f].data) : <<f, i - 1>> \in Paginas
    BY <2>2, <2>3, <2>4
  <2> QED BY <1>1, <2>5, <2>7, <2>8, <2>9
<1>2. CASE files'[f] = None
  BY <1>2 DEF view
<1> QED BY <1>1, <1>2

\* A File:Tag is seen as before if each of its blocks is.
LEMMA MismaVista ==
    ASSUME FilesOK, FilesOK', NEW f \in FileTags,
           files'[f] = None <=> files[f] = None,
           files[f] # None =>
              /\ Len(files'[f].data) = Len(files[f].data)
              /\ \A i \in 1 .. Len(files[f].data) : Ve(f, i)' = Ve(f, i)
    PROVE  view'[f] = view[f]
<1>1. CASE files[f] = None
  BY <1>1, VistaDe, VistaSiguiente
<1>2. CASE files[f] # None
  <2>1. view[f] = [i \in 1 .. Len(files[f].data) |-> Ve(f, i)]
    BY <1>2, VistaDe
  <2>2. view'[f] = [i \in 1 .. Len(files'[f].data) |-> Ve(f, i)']
    BY <1>2, VistaSiguiente
  <2> QED BY <1>2, <2>1, <2>2
<1> QED BY <1>1, <1>2

\* The views of all File:Tags are the view.
LEMMA TodaVista ==
    /\ view = [f \in FileTags |-> view[f]]
    /\ view' = [f \in FileTags |-> view'[f]]
BY DEF view

-----------------------------------------------------------------------------
(* What goes back to the storage.                                          *)

\* A File:Tag after it was sent the pages P of the memory: those of them that are its blocks, if
\* it can still be written, are as they are seen.
LEMMA Guarda ==
    ASSUME Inv, NEW P, P \subseteq {x \in Paginas : pagina[x].marco # None},
           NEW f \in FileTags, Exists(f), NEW G, G = Guardadas(P)[f]
    PROVE  /\ G # None /\ G.size = files[f].size /\ G.committed = files[f].committed
           /\ Len(G.data) = Len(files[f].data)
           /\ G = [files[f] EXCEPT !.data = G.data]
           /\ \A i \in 1 .. Len(files[f].data) :
                 G.data[i] = IF <<f, i - 1>> \in P /\ Storage!Writable(f) THEN Ve(f, i)
                                                                         ELSE files[f].data[i]
           /\ ~Storage!Writable(f) => G = files[f]
<1> DEFINE F == files[f]
           B(i) == IF <<f, i - 1>> \in P /\ Acepta(<<f, i - 1>>)
                   THEN marco[pagina[<<f, i - 1>>].marco].bytes ELSE F.data[i]
           D == [i \in DOMAIN F.data |-> B(i)]
<1>1. /\ F \in Storage!File /\ Len(F.data) \in 0..MaxLen
      /\ DOMAIN F.data = 1 .. Len(F.data)
      /\ F.data = [i \in 1 .. Len(F.data) |-> F.data[i]]
  BY PaginaDe DEF Inv, StateOK, FilesOK
<1>2. G = [F EXCEPT !.data = D]
  BY DEF Guardadas
<1>3. F.size \in 0..MaxLen /\ F.committed \in BOOLEAN /\ F = [data |-> F.data, size |-> F.size, committed |-> F.committed]
  BY <1>1 DEF Storage!File
<1>4. D = [i \in 1 .. Len(F.data) |-> B(i)]
  BY <1>1
<1>5. Len(D) = Len(F.data)
  <2> HIDE DEF D, B, F
  <2> QED BY <1>1, <1>4
<1>6. G.data = D /\ G.size = F.size /\ G.committed = F.committed /\ G = [F EXCEPT !.data = G.data]
  <2> HIDE DEF D, B, F
  <2> QED BY <1>2, <1>3
<1>7. ASSUME NEW i \in 1 .. Len(F.data)
      PROVE  B(i) = IF <<f, i - 1>> \in P /\ Storage!Writable(f) THEN Ve(f, i) ELSE F.data[i]
  <2>1. Acepta(<<f, i - 1>>) <=> Storage!Writable(f)
    BY <1>1 DEF Acepta
  <2>2. CASE <<f, i - 1>> \in P /\ Storage!Writable(f)
    BY <2>1, <2>2 DEF Ve
  <2>3. CASE ~(<<f, i - 1>> \in P /\ Storage!Writable(f))
    BY <2>1, <2>3
  <2> QED BY <2>2, <2>3
<1>8. ASSUME ~Storage!Writable(f) PROVE G = F
  <2>1. \A i \in 1 .. Len(F.data) : B(i) = F.data[i]
    BY <1>7, <1>8
  <2>2. D = F.data
    <3> HIDE DEF B, F
    <3> QED BY <1>1, <1>4, <2>1
  <2> HIDE DEF D, B, F
  <2> QED BY <1>2, <1>3, <2>2
<1>9. G # None
  <2>1. Guardadas(P)[f] \in Storage!File
    BY GuardadasBien DEF Inv
  <2> QED BY <2>1, StorageAssumption
<1> HIDE DEF B, D
<1>10. \A i \in 1 .. Len(F.data) : D[i] = B(i)
  BY <1>4
<1> QED BY <1>5, <1>6, <1>7, <1>8, <1>9, <1>10

\* A File:Tag that is not there stays so.
LEMMA GuardaNada ==
    ASSUME NEW P, NEW f \in FileTags, ~Exists(f)
    PROVE  Guardadas(P)[f] = None
BY DEF Guardadas

\* So does one that none of the pages is of.
LEMMA GuardaOtro ==
    ASSUME Inv, NEW P, P \subseteq {x \in Paginas : pagina[x].marco # None},
           NEW f \in FileTags, \A x \in P : x[1] # f
    PROVE  Guardadas(P)[f] = files[f]
<1>1. CASE files[f] = None
  BY <1>1, GuardaNada
<1>2. CASE files[f] # None
  <2>1. PICK G : G = Guardadas(P)[f]
    OBVIOUS
  <2>2. /\ Len(G.data) = Len(files[f].data)
        /\ G = [files[f] EXCEPT !.data = G.data]
        /\ \A i \in 1 .. Len(files[f].data) :
               G.data[i] = IF <<f, i - 1>> \in P /\ Storage!Writable(f) THEN Ve(f, i)
                                                                       ELSE files[f].data[i]
    BY <1>2, <2>1, Guarda
  <2>3. \A i \in 1 .. Len(files[f].data) : G.data[i] = files[f].data[i]
    BY <2>2
  <2>4. /\ files[f] \in Storage!File
        /\ files[f].data = [i \in 1 .. Len(files[f].data) |-> files[f].data[i]]
    BY <1>2, PaginaDe DEF Inv, StateOK, FilesOK
  <2>5. G \in Storage!File
    BY <1>2, <2>1, GuardadasBien DEF Inv
  <2>6. PICK k \in 0..MaxLen : k = Len(G.data) /\ G.data \in [1..k -> Contenido]
    BY <2>5, Contenidos
  <2>7. G.data = [i \in 1 .. Len(files[f].data) |-> G.data[i]]
    BY <2>2, <2>6
  <2>8. G.data = files[f].data
    BY <2>3, <2>4, <2>7
  <2>9. G = [files[f] EXCEPT !.data = files[f].data]
    BY <2>2, <2>8
  <2> QED BY <2>1, <2>4, <2>9 DEF Storage!File
<1> QED BY <1>1, <1>2

\* The pages of fs that are modified are sent and their bits cleared: what is seen stays.
LEMMA Vuelca ==
    ASSUME Firme, ~fault, NEW fs \in SUBSET FileTags, pagina' = Limpias(fs), marco' = marco,
           NEW f \in FileTags, Exists(f), files'[f] # None,
           files'[f].data = Guardadas(Sucias(fs))[f].data
    PROVE  /\ Len(files'[f].data) = Len(files[f].data)
           /\ \A i \in 1 .. Len(files[f].data) :
                /\ Ve(f, i)' = Ve(f, i)
                /\ files'[f].data[i] \in {files[f].data[i], Ve(f, i)}
                /\ ~Storage!Writable(f) => files'[f].data[i] = files[f].data[i]
                /\ Storage!Writable(f) =>
                     /\ f \in fs => files'[f].data[i] = Ve(f, i)
                     /\ pagina'[<<f, i - 1>>].marco # None /\ ~pagina'[<<f, i - 1>>].modificado =>
                           files'[f].data[i] = Ve(f, i)
<1>1. PICK G : G = Guardadas(Sucias(fs))[f]
  OBVIOUS
<1>2. /\ Len(G.data) = Len(files[f].data)
      /\ \A i \in 1 .. Len(files[f].data) :
             G.data[i] = IF <<f, i - 1>> \in Sucias(fs) /\ Storage!Writable(f) THEN Ve(f, i)
                                                                     ELSE files[f].data[i]
  BY <1>1, Guarda, SuciasPresentes DEF Firme
<1>3. FilesOK /\ pagina \in [Paginas -> Nodo]
  BY DEF Firme, Inv, StateOK, FilesOK
<1>4. ASSUME NEW i \in 1 .. Len(files[f].data)
      PROVE  /\ Ve(f, i)' = Ve(f, i)
             /\ files'[f].data[i] \in {files[f].data[i], Ve(f, i)}
             /\ ~Storage!Writable(f) => files'[f].data[i] = files[f].data[i]
             /\ Storage!Writable(f) =>
                  /\ f \in fs => files'[f].data[i] = Ve(f, i)
                  /\ pagina'[<<f, i - 1>>].marco # None /\ ~pagina'[<<f, i - 1>>].modificado =>
                        files'[f].data[i] = Ve(f, i)
  <2>1. PICK x \in Paginas : x = <<f, i - 1>> /\ x[1] = f /\ x[2] = i - 1
    BY <1>3, PaginaDe
  <2>2. files'[f].data[i] = IF x \in Sucias(fs) /\ Storage!Writable(f) THEN Ve(f, i) ELSE files[f].data[i]
    BY <1>1, <1>2, <2>1
  <2>3. /\ pagina'[x].marco = pagina[x].marco
        /\ x \notin Sucias(fs) => pagina'[x] = pagina[x]
    BY <1>3 DEF Limpias, Nodo
  <2>4. x \in Sucias(fs) <=> x[1] \in fs /\ pagina[x].marco # None /\ pagina[x].modificado
    <3>1. x[2] \in Nros /\ x = <<x[1], x[2]>>
      BY BloqueDe
    <3> QED BY <3>1 DEF Sucias
  <2>5. ASSUME pagina[x].marco = None PROVE ~(x \in Sucias(fs)) /\ Ve(f, i) = files[f].data[i]
    BY <2>1, <2>4, <2>5 DEF Ve
  <2>6. Ve(f, i)' = Ve(f, i)
    <3>1. CASE pagina[x].marco # None
      BY <2>1, <2>3, <3>1 DEF Ve
    <3>2. CASE pagina[x].marco = None
      BY <2>1, <2>2, <2>3, <2>5, <3>2 DEF Ve
    <3> QED BY <3>1, <3>2
  <2>7. ASSUME Storage!Writable(f), pagina[x].marco # None, ~pagina[x].modificado
        PROVE  Ve(f, i) = files[f].data[i]
    <3>1. marco[pagina[x].marco].bytes = files[x[1]].data[x[2] + 1]
      BY <2>1, <2>7 DEF Firme, CleanPageIsTrue
    <3>2. Ve(f, i) = marco[pagina[x].marco].bytes
      BY <2>1, <2>7 DEF Ve
    <3> QED BY <2>1, <3>1, <3>2
  <2>8. ASSUME Storage!Writable(f), f \in fs PROVE files'[f].data[i] = Ve(f, i)
    BY <2>1, <2>2, <2>4, <2>5, <2>7, <2>8
  <2>9. ASSUME Storage!Writable(f), pagina'[x].marco # None, ~pagina'[x].modificado
        PROVE  files'[f].data[i] = Ve(f, i)
    BY <2>2, <2>3, <2>7, <2>9
  <2> QED BY <2>1, <2>2, <2>6, <2>8, <2>9
<1> QED BY <1>1, <1>2, <1>4

-----------------------------------------------------------------------------
(* The size of a File:Tag and its blocks, whatever happens.                *)

LEMMA TamanosGuarda ==
    ASSUME Inv, Tamanos, NEW P, P \subseteq {x \in Paginas : pagina[x].marco # None},
           \A f \in FileTags : files[f] = None => files'[f] = None,
           \A f \in FileTags : files[f] # None =>
              files'[f].size = Guardadas(P)[f].size /\ files'[f].data = Guardadas(P)[f].data
    PROVE  Tamanos'
<1> SUFFICES ASSUME NEW f \in FileTags, files'[f] # None
             PROVE  files'[f].size <= Len(files'[f].data)
  BY DEF Tamanos
<1>1. files[f] # None
  OBVIOUS
<1>2. PICK G : G = Guardadas(P)[f]
  OBVIOUS
<1>3. G.size = files[f].size /\ Len(G.data) = Len(files[f].data)
  BY <1>1, <1>2, Guarda
<1> QED BY <1>1, <1>2, <1>3 DEF Tamanos

LEMMA TamanosPide ==
    ASSUME FilesOK, Tamanos, NEW f \in FileTags, NEW g \in FileTags, NEW n \in 0..MaxLen,
           \/ Storage!Create(f) \/ Storage!Delete(f) \/ Storage!Commit(f)
           \/ Storage!Truncate(f, n) \/ Storage!Tag(f, g)
    PROVE  Tamanos'
<1>1. CASE Storage!Create(f)
  <2>1. files' = [files EXCEPT ![f] = [data |-> <<>>, size |-> 0, committed |-> FALSE]]
    BY <1>1 DEF Storage!Create, Storage!Empty
  <2>2. /\ files'[f].size = 0 /\ files'[f].data = <<>>
        /\ \A h \in FileTags \ {f} : files'[h] = files[h]
    BY <2>1 DEF FilesOK
  <2> QED BY <2>2 DEF Tamanos
<1>2. CASE Storage!Delete(f)
  BY <1>2 DEF FilesOK, Storage!Delete, Tamanos
<1>3. CASE Storage!Commit(f)
  <2>1. /\ files'[f].size = files[f].size /\ files'[f].data = files[f].data
        /\ files[f] # None
        /\ \A h \in FileTags \ {f} : files'[h] = files[h]
    BY <1>3 DEF FilesOK, Storage!Commit, Storage!File
  <2> QED BY <2>1 DEF Tamanos
<1>4. CASE Storage!Truncate(f, n)
  <2> DEFINE d == [i \in 1..n |-> IF i <= Len(files[f].data) THEN files[f].data[i] ELSE EnCero]
  <2>1. /\ files'[f].size = n /\ files'[f].data = d
        /\ \A h \in FileTags \ {f} : files'[h] = files[h]
    BY <1>4 DEF FilesOK, Storage!Truncate, Storage!Writable, Storage!File
  <2>2. Len(d) = n
    OBVIOUS
  <2> QED BY <2>1, <2>2 DEF Tamanos
<1>5. CASE Storage!Tag(f, g)
  <2>1. /\ files'[g].size = files[f].size /\ files'[g].data = files[f].data
        /\ files[f] # None
        /\ \A h \in FileTags \ {g} : files'[h] = files[h]
    BY <1>5 DEF FilesOK, Storage!Tag, Storage!File
  <2> QED BY <2>1 DEF Tamanos
<1> QED BY <1>1, <1>2, <1>3, <1>4, <1>5

LEMMA TamanosOtro ==
    ASSUME FilesOK, Tamanos, NEW f \in FileTags, NEW g \in FileTags,
           NEW i \in 1..MaxLen, NEW d \in Contenido, Storage!Write(f, i, d) \/ Storage!Copy(f, g)
    PROVE  Tamanos'
<1>1. /\ \A h \in FileTags \ {f} : files'[h] = files[h]
      /\ files[f] \in Storage!File
      /\ Storage!Write(f, i, d) => /\ files'[f].size = files[f].size
                                   /\ Len(files'[f].data) = Len(files[f].data)
      /\ Storage!Copy(f, g) => /\ files[g] # None
                               /\ files'[f].data = files[g].data /\ files'[f].size = files[g].size
  BY OtroEscribe
<1>2. files[f] # None
  BY <1>1, StorageAssumption
<1> QED BY <1>1, <1>2 DEF Tamanos

-----------------------------------------------------------------------------
(* FLUSH, and a worker that leaves its query.                              *)

\* A File:Tag that was only sent pages.
LEMMA MismoFile ==
    ASSUME Firme, NEW P, P \subseteq {x \in Paginas : pagina[x].marco # None},
           files' = Guardadas(P), NEW f \in FileTags
    PROVE  /\ files'[f] = None <=> files[f] = None
           /\ files[f] # None => /\ files'[f].size = files[f].size
                                 /\ files'[f].committed = files[f].committed
                                 /\ Len(files'[f].data) = Len(files[f].data)
                                 /\ files'[f] = [files[f] EXCEPT !.data = files'[f].data]
           /\ Storage!Writable(f)' <=> Storage!Writable(f)
<1>1. CASE files[f] = None
  BY <1>1, GuardaNada DEF Storage!Writable
<1>2. CASE files[f] # None
  <2>1. PICK G : G = Guardadas(P)[f] /\ G = files'[f]
    OBVIOUS
  <2>2. /\ G # None /\ G.size = files[f].size /\ G.committed = files[f].committed
        /\ Len(G.data) = Len(files[f].data)
        /\ G = [files[f] EXCEPT !.data = G.data]
    BY <1>2, <2>1, Guarda DEF Firme
  <2> QED BY <1>2, <2>1, <2>2 DEF Storage!Writable
<1> QED BY <1>1, <1>2

LEMMA FlushFirme ==
    ASSUME Firme, Inv', ~fault, NEW fs \in SUBSET FileTags,
           files' = Guardadas(Sucias(fs)), pagina' = Limpias(fs), UNCHANGED <<tabla, marco>>
    PROVE  /\ TablasDeFiles' /\ CleanPageIsTrue'
           /\ \A f \in FileTags : view'[f] = view[f]
           /\ \A f \in fs : Storage!Writable(f) => files'[f].data = view[f]
           /\ Promise!Sync
<1>1. /\ FilesOK /\ FilesOK' /\ pagina \in [Paginas -> Nodo]
      /\ Sucias(fs) \subseteq {x \in Paginas : pagina[x].marco # None}
  BY SuciasPresentes DEF Firme, Inv, StateOK, FilesOK
<1>2. ASSUME NEW f \in FileTags
      PROVE  /\ files'[f] = None <=> files[f] = None
             /\ files[f] # None => /\ files'[f].size = files[f].size
                                   /\ Len(files'[f].data) = Len(files[f].data)
                                   /\ files'[f] = [files[f] EXCEPT !.data = files'[f].data]
             /\ Storage!Writable(f)' <=> Storage!Writable(f)
  BY <1>1, MismoFile
<1>3. ASSUME NEW f \in FileTags, files[f] # None
      PROVE  \A i \in 1 .. Len(files[f].data) :
                /\ Ve(f, i)' = Ve(f, i)
                /\ files'[f].data[i] \in {files[f].data[i], Ve(f, i)}
                /\ ~Storage!Writable(f) => files'[f].data[i] = files[f].data[i]
                /\ Storage!Writable(f) =>
                     /\ f \in fs => files'[f].data[i] = Ve(f, i)
                     /\ pagina'[<<f, i - 1>>].marco # None /\ ~pagina'[<<f, i - 1>>].modificado =>
                           files'[f].data[i] = Ve(f, i)
  <2>1. files'[f] # None /\ files'[f].data = Guardadas(Sucias(fs))[f].data
    BY <1>2, <1>3
  <2> QED BY <1>3, <2>1, Vuelca
<1>4. ASSUME NEW f \in FileTags PROVE view'[f] = view[f]
  BY <1>1, <1>2, <1>3, MismaVista
<1>5. TablasDeFiles'
  BY <1>2 DEF Firme, TablasDeFiles
<1>6. CleanPageIsTrue'
  <2> SUFFICES ASSUME NEW x \in Paginas,
                      pagina'[x].marco # None, ~pagina'[x].modificado, Storage!Writable(x[1])'
               PROVE  marco'[pagina'[x].marco].bytes = files'[x[1]].data[x[2] + 1]
    BY DEF CleanPageIsTrue
  <2>1. pagina'[x].marco = pagina[x].marco
    BY <1>1 DEF Limpias, Nodo
  <2>2. PICK f \in FileTags : f = x[1] /\ <<f, (x[2] + 1) - 1>> = x
    BY BloqueDe
  <2>3. PICK i : i = x[2] + 1
    OBVIOUS
  <2>4. Exists(f) /\ i \in 1 .. Len(files[f].data)
    BY <2>1, <2>2, <2>3, Cabe
  <2>5. Storage!Writable(f)
    BY <1>2, <2>2
  <2>6. files'[f].data[i] = Ve(f, i)
    BY <1>3, <2>2, <2>3, <2>4, <2>5
  <2>7. Ve(f, i) = marco[pagina[x].marco].bytes
    BY <2>1, <2>2, <2>3, Presente DEF Firme
  <2> QED BY <2>1, <2>2, <2>3, <2>6, <2>7
<1>7. ASSUME NEW f \in fs, Storage!Writable(f) PROVE files'[f].data = view[f]
  <2>1. f \in FileTags /\ files[f] # None /\ files'[f] # None
    BY <1>2, <1>7 DEF Storage!Writable
  <2>2. files'[f].data = [i \in 1 .. Len(files'[f].data) |-> files'[f].data[i]]
    BY <1>1, <2>1, VistaSiguiente
  <2>3. view[f] = [i \in 1 .. Len(files[f].data) |-> Ve(f, i)]
    BY <1>1, <2>1, VistaDe
  <2>4. \A i \in 1 .. Len(files[f].data) : files'[f].data[i] = Ve(f, i)
    BY <1>3, <1>7, <2>1
  <2>5. Len(files'[f].data) = Len(files[f].data)
    BY <1>2, <2>1
  <2> QED BY <2>2, <2>3, <2>4, <2>5
<1>8. Promise!Sync
  <2>1. ASSUME NEW f \in FileTags, Storage!Writable(f)
        PROVE  /\ files'[f] = [files[f] EXCEPT !.data = files'[f].data]
               /\ \A i \in DOMAIN files[f].data : files'[f].data[i] \in {files[f].data[i], view[f][i]}
    <3>1. files[f] # None
      BY <2>1 DEF Storage!Writable
    <3>2. DOMAIN files[f].data = 1 .. Len(files[f].data)
      BY <1>1, <3>1, PaginaDe
    <3>3. view[f] = [i \in 1 .. Len(files[f].data) |-> Ve(f, i)]
      BY <1>1, <3>1, VistaDe
    <3> QED BY <1>2, <1>3, <3>1, <3>2, <3>3
  <2>2. ASSUME NEW f \in FileTags, ~Storage!Writable(f) PROVE files'[f] = files[f]
    <3>1. CASE files[f] = None
      BY <1>2, <3>1
    <3>2. CASE files[f] # None
      <4>1. PICK G : G = Guardadas(Sucias(fs))[f] /\ G = files'[f]
        OBVIOUS
      <4> QED BY <1>1, <2>2, <3>2, <4>1, Guarda DEF Firme
    <3> QED BY <3>1, <3>2
  <2>3. \A f \in FileTags : Promise!Storage!Writable(f) <=> Storage!Writable(f)
    BY DEF Promise!Storage!Writable, Storage!Writable
  <2>4. view' = view
    BY <1>4, TodaVista
  <2> QED BY <2>1, <2>2, <2>3, <2>4 DEF Promise!Sync
<1> QED BY <1>4, <1>5, <1>6, <1>7, <1>8

-----------------------------------------------------------------------------
(* Pages come and are used.                                                *)

\* What comes to memory is what was seen, and what was modified stays so.
LEMMA MemoriaIgual ==
    ASSUME Firme, Inv', files' = files,
           \A x \in Paginas :
              IF pagina'[x].marco = None THEN pagina[x].marco = None
              ELSE /\ marco'[pagina'[x].marco].bytes = Ve(x[1], x[2] + 1)
                   /\ pagina[x].marco # None /\ pagina[x].modificado => pagina'[x].modificado
    PROVE  /\ ~fault /\ ~fault' => CleanPageIsTrue'
           /\ \A f \in FileTags : view'[f] = view[f]
<1>1. FilesOK /\ FilesOK'
  BY DEF Firme, Inv, StateOK, FilesOK
<1>2. ASSUME NEW f \in FileTags PROVE view'[f] = view[f]
  <2>1. ASSUME files[f] # None, NEW i \in 1 .. Len(files[f].data) PROVE Ve(f, i)' = Ve(f, i)
    <3>1. PICK x \in Paginas : x = <<f, i - 1>> /\ x[1] = f /\ x[2] + 1 = i
      <4>1. <<f, i - 1>> \in Paginas
        BY <1>1, <2>1, PaginaDe
      <4>2. i \in Nat
        BY <1>1, <2>1, PaginaDe, Constantes
      <4>3. (i - 1) + 1 = i
        BY <4>2
      <4> QED BY <4>1, <4>3
    <3>2. CASE pagina'[x].marco = None
      BY <3>1, <3>2 DEF Ve
    <3>3. CASE pagina'[x].marco # None
      <4>1. marco'[pagina'[x].marco].bytes = Ve(f, i)
        BY <3>1, <3>3
      <4> QED BY <3>1, <3>3, <4>1 DEF Ve
    <3> QED BY <3>2, <3>3
  <2> QED BY <1>1, <2>1, MismaVista
<1>3. ASSUME ~fault PROVE CleanPageIsTrue'
  <2> SUFFICES ASSUME NEW x \in Paginas,
                      pagina'[x].marco # None, ~pagina'[x].modificado, Storage!Writable(x[1])'
               PROVE  marco'[pagina'[x].marco].bytes = files'[x[1]].data[x[2] + 1]
    BY DEF CleanPageIsTrue
  <2>1. marco'[pagina'[x].marco].bytes = Ve(x[1], x[2] + 1)
    OBVIOUS
  <2>2. Storage!Writable(x[1])
    BY DEF Storage!Writable
  <2>3. <<x[1], (x[2] + 1) - 1>> = x
    BY BloqueDe
  <2>4. CASE pagina[x].marco = None
    BY <2>1, <2>3, <2>4 DEF Ve
  <2>5. CASE pagina[x].marco # None
    <3>1. ~pagina[x].modificado
      BY <2>5
    <3>2. marco[pagina[x].marco].bytes = files[x[1]].data[x[2] + 1]
      BY <1>3, <2>2, <2>5, <3>1 DEF Firme, CleanPageIsTrue
    <3> QED BY <2>1, <2>5, <3>2, Presente DEF Firme
  <2> QED BY <2>4, <2>5
<1> QED BY <1>2, <1>3

LEMMA LibreFirme ==
    ASSUME Firme, Inv', ~fault, CargaEnLibre
    PROVE  /\ TablasDeFiles' /\ CleanPageIsTrue'
           /\ \A f \in FileTags : view'[f] = view[f]
           /\ \A f \in FileTags : tabla[f] # None => tabla'[f] # None /\ tabla'[f].largo = tabla[f].largo
<1>1. Falta /\ Inv /\ StateOK
  BY DEF CargaEnLibre, Firme, Inv
<1>2. PICK m \in Marcos :
        /\ marco[m] = None
        /\ tabla' = UnaMas(tabla, ins.ft)
        /\ pagina' = [pagina EXCEPT ![Actual].marco = m]
        /\ marco' = [marco EXCEPT ![m] = Cargado]
        /\ files' = files /\ fault' = fault
  BY DEF CargaEnLibre, MarcoLibre
<1>3. PICK y \in Paginas :
        /\ y = Actual /\ y[1] = ins.ft /\ y[2] = ins.pag /\ ins.ft \in FileTags
        /\ pagina[y].marco = None /\ tabla[ins.ft] \in Tabla /\ tabla[ins.ft] # None
  BY <1>1, EnSuPagina DEF Falta
<1>4. /\ pagina'[y].marco = m
      /\ \A x \in Paginas : x # y => pagina'[x] = pagina[x]
      /\ \A x \in Paginas : pagina'[x].modificado = pagina[x].modificado
  BY <1>1, <1>2, <1>3 DEF StateOK, Nodo
<1>5. marco'[m].bytes = Ve(y[1], y[2] + 1) /\ \A n \in Marcos : n # m => marco'[n] = marco[n]
  <2>1. <<y[1], (y[2] + 1) - 1>> = y
    BY BloqueDe
  <2>2. marco'[m] = Cargado /\ \A n \in Marcos : n # m => marco'[n] = marco[n]
    BY <1>1, <1>2 DEF StateOK
  <2>3. Cargado.bytes = files[y[1]].data[y[2] + 1]
    BY <1>3 DEF Cargado
  <2> QED BY <1>3, <2>1, <2>2, <2>3 DEF Ve
<1>6. ASSUME NEW f \in FileTags
      PROVE  /\ tabla'[f] # None => tabla[f] # None /\ tabla'[f].largo = tabla[f].largo
             /\ tabla[f] # None => tabla'[f] # None /\ tabla'[f].largo = tabla[f].largo
  <2> DEFINE T == [tabla[ins.ft] EXCEPT !.cantidad = tabla[ins.ft].cantidad + 1]
  <2>1. tabla' = [tabla EXCEPT ![ins.ft] = T]
    BY <1>2 DEF UnaMas
  <2>2. T \in Tabla /\ T.largo = tabla[ins.ft].largo
    BY <1>3 DEF Tabla
  <2>3. T # None
    BY <2>2, StorageAssumption
  <2> HIDE DEF T
  <2> QED BY <1>1, <1>3, <2>1, <2>2, <2>3 DEF StateOK
<1>7. TablasDeFiles'
  BY <1>2, <1>6 DEF Firme, TablasDeFiles
<1>8. ASSUME NEW x \in Paginas
      PROVE  IF pagina'[x].marco = None THEN pagina[x].marco = None
             ELSE /\ marco'[pagina'[x].marco].bytes = Ve(x[1], x[2] + 1)
                  /\ pagina[x].marco # None /\ pagina[x].modificado => pagina'[x].modificado
  <2>1. CASE x = y
    BY <1>3, <1>4, <1>5, <2>1, Constantes
  <2>2. CASE x # y
    <3>1. pagina'[x] = pagina[x]
      BY <1>4, <2>2
    <3>2. CASE pagina[x].marco # None
      <4>1. /\ pagina[x].marco \in Marcos /\ marco[pagina[x].marco] # None
            /\ Ve(x[1], x[2] + 1) = marco[pagina[x].marco].bytes
        BY <1>1, <3>2, Presente
      <4> QED BY <1>2, <1>5, <3>1, <3>2, <4>1
    <3> QED BY <3>1, <3>2
  <2> QED BY <2>1, <2>2
<1> QED BY <1>2, <1>6, <1>7, <1>8, MemoriaIgual

\* The bits of a page that is used: modificado only grows.
LEMMA UsadaModifica ==
    ASSUME pagina \in [Paginas -> Nodo], NEW y \in Paginas, NEW escrita \in BOOLEAN, NEW x \in Paginas
    PROVE  /\ Usada(y, escrita)[x].marco = pagina[x].marco
           /\ Usada(y, escrita)[x].modificado = (pagina[x].modificado \/ (x = y /\ escrita))
<1>1. PICK u \in BOOLEAN : u = (algoritmo = "CLOCK-M")
  OBVIOUS
<1>2. PICK P : P = UsadaSolo(y, escrita)
  OBVIOUS
<1>3. P = [pagina EXCEPT ![y].uso = u]
  BY <1>1, <1>2 DEF UsadaSolo
<1>4. P \in [Paginas -> Nodo]
  BY <1>3 DEF Nodo
<1>5. \A z \in Paginas : P[z].marco = pagina[z].marco /\ P[z].modificado = pagina[z].modificado
  BY <1>3 DEF Nodo
<1>6. PICK w \in BOOLEAN : w = (P[y].modificado \/ escrita)
  OBVIOUS
<1>7. Usada(y, escrita) = [P EXCEPT ![y].modificado = w]
  BY <1>2, <1>6 DEF Usada
<1>8. /\ Usada(y, escrita)[x].marco = P[x].marco
      /\ Usada(y, escrita)[x].modificado = IF x = y THEN w ELSE P[x].modificado
  BY <1>4, <1>7 DEF Nodo
<1>9. pagina[x].modificado \in BOOLEAN
  BY DEF Nodo
<1> QED BY <1>5, <1>6, <1>8, <1>9

\* READ changes a bit that says nothing of the contents.
LEMMA LeeFirme ==
    ASSUME Firme, Inv', ~fault, LeePagina
    PROVE  /\ TablasDeFiles' /\ CleanPageIsTrue'
           /\ \A f \in FileTags : view'[f] = view[f]
<1>1. Actual \in Paginas /\ pagina \in [Paginas -> Nodo]
  BY EnMemoriaBien DEF LeePagina, Firme, Inv, StateOK
<1>2. pagina' = Usada(Actual, FALSE) /\ UNCHANGED <<files, tabla, marco, fault>>
  BY DEF LeePagina
<1>3. ASSUME NEW x \in Paginas
      PROVE  pagina'[x].marco = pagina[x].marco /\ (pagina[x].modificado => pagina'[x].modificado)
  BY <1>1, <1>2, UsadaModifica
<1>4. TablasDeFiles'
  BY <1>2 DEF Firme, TablasDeFiles
<1>5. ASSUME NEW x \in Paginas
      PROVE  IF pagina'[x].marco = None THEN pagina[x].marco = None
             ELSE /\ marco'[pagina'[x].marco].bytes = Ve(x[1], x[2] + 1)
                  /\ pagina[x].marco # None /\ pagina[x].modificado => pagina'[x].modificado
  BY <1>2, <1>3, Presente DEF Firme
<1> QED BY <1>2, <1>4, <1>5, MemoriaIgual

-----------------------------------------------------------------------------
(* Page tables.                                                            *)

\* The table of f has n pages: those past the end are dropped, and no other.
Recortado(f, n) ==
    /\ tabla'[f] # None /\ tabla'[f].largo = n
    /\ \A g \in FileTags : g # f => tabla'[g] = tabla[g]
    /\ \A x \in Paginas : IF x[1] = f /\ x[2] >= n THEN pagina'[x].marco = None
                                                   ELSE pagina'[x] = pagina[x]
    /\ \A x \in Paginas : pagina'[x].marco # None =>
         /\ pagina[x].marco # None
         /\ marco'[pagina'[x].marco] = marco[pagina[x].marco]

\* So does actualizar_tabla,
LEMMA Recorta ==
    ASSUME Inv, NEW f \in FileTags, EnTabla(f), NEW n \in 0..MaxLen, Actualizada(f, n)
    PROVE  Recortado(f, n)
<1> DEFINE quitadas == {p \in Presentes(f) : p >= n}
<1>1. /\ tabla' = [tabla EXCEPT ![f] = [largo |-> n, cantidad |-> tabla[f].cantidad - Cardinality(quitadas)]]
      /\ pagina' = [x \in Paginas |-> IF x[1] = f /\ x[2] >= n THEN Ausente ELSE pagina[x]]
      /\ marco' = [m \in Marcos |-> IF \E p \in quitadas : pagina[<<f, p>>].marco = m
                                     THEN None ELSE marco[m]]
  BY DEF Actualizada
<1>2. /\ tabla'[f] # None /\ tabla'[f].largo = n
      /\ \A g \in FileTags : g # f => tabla'[g] = tabla[g]
  <2>1. PICK c : c = tabla[f].cantidad - Cardinality(quitadas)
    OBVIOUS
  <2>2. c \in Int
    <3>1. quitadas \subseteq Nros
      BY DEF Presentes
    <3>2. Cardinality(quitadas) \in Nat
      BY <3>1, NrosFinitos
    <3>3. tabla[f].cantidad \in Int
      BY DEF Inv, StateOK, Tabla
    <3> QED BY <2>1, <3>2, <3>3
  <2>3. [largo |-> n, cantidad |-> c] \in Tabla
    BY <2>2 DEF Tabla
  <2>4. [largo |-> n, cantidad |-> c] # None
    BY <2>3, StorageAssumption
  <2>5. tabla' = [tabla EXCEPT ![f] = [largo |-> n, cantidad |-> c]]
    BY <1>1, <2>1
  <2> QED BY <2>4, <2>5 DEF Inv, StateOK
<1>3. \A x \in Paginas : IF x[1] = f /\ x[2] >= n THEN pagina'[x].marco = None
                                                  ELSE pagina'[x] = pagina[x]
  BY <1>1 DEF Ausente
<1>4. ASSUME NEW x \in Paginas, pagina'[x].marco # None
      PROVE  pagina[x].marco # None /\ marco'[pagina'[x].marco] = marco[pagina[x].marco]
  <2>1. pagina'[x] = pagina[x] /\ ~(x[1] = f /\ x[2] >= n)
    BY <1>3, <1>4
  <2>2. pagina[x].marco \in Marcos /\ marco[pagina[x].marco].de = x
    BY <1>4, <2>1, Presente
  <2>3. ASSUME NEW p \in quitadas, pagina[<<f, p>>].marco = pagina[x].marco PROVE FALSE
    <3>1. <<f, p>> \in Paginas /\ pagina[<<f, p>>].marco # None
      BY DEF Presentes, Paginas
    <3>2. x = <<f, p>>
      BY <2>2, <2>3, <3>1, Presente
    <3> QED BY <2>1, <3>2
  <2> QED BY <1>1, <1>4, <2>1, <2>2, <2>3
<1> QED BY <1>2, <1>3, <1>4 DEF Recortado

\* and a table that is created.
LEMMA RecortaNueva ==
    ASSUME Inv, NEW f \in FileTags, ~EnTabla(f), NEW n \in 0..MaxLen,
           tabla' = [tabla EXCEPT ![f] = [largo |-> n, cantidad |-> n]],
           pagina' = pagina, marco' = marco
    PROVE  Recortado(f, n)
<1>1. [largo |-> n, cantidad |-> n] \in Tabla
  BY Constantes DEF Tabla
<1>2. /\ tabla'[f] # None /\ tabla'[f].largo = n
      /\ \A g \in FileTags : g # f => tabla'[g] = tabla[g]
  BY <1>1, StorageAssumption DEF Inv, StateOK
<1>3. \A x \in Paginas : x[1] = f => pagina[x].marco = None
  BY Presente
<1> QED BY <1>2, <1>3 DEF Recortado

\* The table of a File:Tag is what it was, or is created, as long as nothing has drifted apart.
LEMMA RecortaNada ==
    ASSUME Firme, Inv', ~fault, NEW f \in FileTags, files[f] # None, NEW n, n = files[f].size,
           Recortado(f, n), files' = files
    PROVE  /\ TablasDeFiles' /\ (~fault' => CleanPageIsTrue')
           /\ \A g \in FileTags : view'[g] = view[g]
           /\ \A g \in FileTags : tabla[g] # None => tabla'[g] # None /\ tabla'[g].largo = tabla[g].largo
<1>1. n \in 0..MaxLen
  BY Contenidos DEF Firme, Inv, StateOK
<1>2. TablasDeFiles'
  BY DEF Firme, TablasDeFiles, Recortado
<1>3. \A g \in FileTags : tabla[g] # None => tabla'[g] # None /\ tabla'[g].largo = tabla[g].largo
  BY DEF Firme, TablasDeFiles, Recortado
<1>4. ASSUME NEW x \in Paginas
      PROVE  IF pagina'[x].marco = None THEN pagina[x].marco = None
             ELSE /\ marco'[pagina'[x].marco].bytes = Ve(x[1], x[2] + 1)
                  /\ pagina[x].marco # None /\ pagina[x].modificado => pagina'[x].modificado
  <2>1. CASE x[1] = f /\ x[2] >= n
    <3>1. ASSUME pagina[x].marco # None PROVE FALSE
      <4>1. x[2] < files[x[1]].size
        BY <3>1, Cabe
      <4>2. x[2] \in Nat /\ n \in Nat
        BY <1>1, BloqueDe, Constantes
      <4> QED BY <2>1, <4>1, <4>2
    <3> QED BY <2>1, <3>1 DEF Recortado
  <2>2. CASE ~(x[1] = f /\ x[2] >= n)
    BY <2>2, Presente DEF Firme, Recortado
  <2> QED BY <2>1, <2>2
<1> QED BY <1>2, <1>3, <1>4, MemoriaIgual

\* A READ or WRITE asks for the table, or for its size once more.
LEMMA TablaFirme ==
    ASSUME Firme, Inv', ~fault, AgregaTabla \/ AmpliaTabla \/ FueraDeLimite
    PROVE  /\ TablasDeFiles' /\ CleanPageIsTrue'
           /\ \A f \in FileTags : view'[f] = view[f]
           /\ \A f \in FileTags : tabla[f] # None => tabla'[f] # None /\ tabla'[f].largo = tabla[f].largo
<1>1. PICK f \in FileTags : f = ins.ft /\ Exists(f) /\ files' = files /\ fault' = fault
  BY DEF Firme, Inv, StateOK, AccessOK, AgregaTabla, AmpliaTabla, FueraDeLimite, EnPagina
<1>2. PICK n \in 0..MaxLen : n = files[f].size
  BY <1>1, Contenidos DEF Firme, Inv, StateOK
<1>3. Recortado(f, n)
  <2>1. CASE AgregaTabla
    BY <1>1, <1>2, <2>1, RecortaNueva DEF AgregaTabla, Firme
  <2>2. CASE AmpliaTabla \/ FueraDeLimite
    BY <1>1, <1>2, <2>2, Recorta DEF AmpliaTabla, FueraDeLimite, Firme
  <2> QED BY <2>1, <2>2
<1> QED BY <1>1, <1>2, <1>3, RecortaNada

-----------------------------------------------------------------------------
(* WRITE.                                                                  *)

\* The bytes of a page once it was written to.
Escritos == [i \in 0 .. TamPagina - 1 |->
    IF Indice(ins.pag, i) \in DOMAIN ins.dato THEN ins.dato[Indice(ins.pag, i)]
                                              ELSE Ve(ins.ft, ins.pag + 1)[i]]

LEMMA EscribeFirme ==
    ASSUME Firme, Inv', ~fault, EscribePagina
    PROVE  /\ TablasDeFiles' /\ CleanPageIsTrue'
           /\ ins.ft \in FileTags /\ files[ins.ft] # None
           /\ ins.pag + 1 \in 1 .. Len(files[ins.ft].data)
           /\ Escritos \in Contenido
           /\ \A f \in FileTags : f # ins.ft => view'[f] = view[f]
           /\ view'[ins.ft] = [view[ins.ft] EXCEPT ![ins.pag + 1] = Escritos]
<1>1. PICK y \in Paginas, m \in Marcos :
        /\ y = Actual /\ y[1] = ins.ft /\ y[2] = ins.pag /\ m = pagina[y].marco
        /\ marco[m] \in Marco
  <2>1. Actual \in Paginas /\ pagina[Actual].marco \in Marcos /\ marco[pagina[Actual].marco] \in Marco
    BY EnMemoriaBien DEF EscribePagina, Firme
  <2> QED BY <2>1
<1>2. /\ y[1] \in FileTags /\ y[2] \in Nat /\ <<y[1], (y[2] + 1) - 1>> = y
      /\ pagina[y].marco # None
  BY <1>1, BloqueDe, Constantes
<1>3. /\ files[y[1]] # None /\ y[2] + 1 \in 1 .. Len(files[y[1]].data)
      /\ Ve(y[1], y[2] + 1) = marco[m].bytes /\ marco[m].bytes \in Contenido
  BY <1>1, <1>2, Cabe, Presente DEF Firme
<1>4. /\ pagina' = Usada(y, TRUE) /\ UNCHANGED <<files, tabla, fault>>
      /\ marco' = [marco EXCEPT ![m].bytes = [i \in DOMAIN marco[m].bytes |->
              IF Indice(ins.pag, i) \in DOMAIN ins.dato THEN ins.dato[Indice(ins.pag, i)]
                                                        ELSE marco[m].bytes[i]]]
  BY <1>1 DEF EscribePagina
<1>5. DOMAIN marco[m].bytes = 0 .. TamPagina - 1
  BY <1>3 DEF Contenido
<1>6. marco' = [marco EXCEPT ![m].bytes = Escritos]
  BY <1>1, <1>3, <1>4, <1>5 DEF Escritos
<1>7. /\ marco'[m] # None /\ marco'[m].bytes = Escritos /\ marco'[m].de = marco[m].de
      /\ \A n \in Marcos : n # m => marco'[n] = marco[n]
  <2>1. marco'[m] = [marco[m] EXCEPT !.bytes = Escritos] /\ \A n \in Marcos : n # m => marco'[n] = marco[n]
    BY <1>6 DEF Firme, Inv, StateOK
  <2>2. marco'[m].bytes = Escritos /\ marco'[m].de = marco[m].de
    BY <1>1, <2>1 DEF Marco
  <2>3. pagina'[y].marco = m
    <3>1. PICK b \in BOOLEAN : pagina' = Usada(y, b)
      BY <1>4
    <3> QED BY <1>1, <3>1, UsadaModifica DEF Firme, Inv, StateOK
  <2>4. marco'[m] # None
    BY <1>2, <1>1, <2>3, Constantes DEF Inv, FramesMatchPages
  <2> QED BY <2>1, <2>2, <2>4
<1>8. Escritos \in Contenido
  <2>1. marco'[m] \in Marco
    BY <1>7 DEF Inv, StateOK
  <2> QED BY <1>7, <2>1 DEF Marco
<1>9. \A x \in Paginas :
        /\ pagina'[x].marco = pagina[x].marco
        /\ pagina'[x].modificado = (pagina[x].modificado \/ x = y)
  <2>1. PICK b \in BOOLEAN : b = TRUE
    OBVIOUS
  <2>2. pagina' = Usada(y, b)
    BY <1>4, <2>1
  <2> QED BY <2>1, <2>2, UsadaModifica DEF Firme, Inv, StateOK
<1>10. ASSUME NEW x \in Paginas, pagina[x].marco # None, x # y
       PROVE  marco'[pagina'[x].marco] = marco[pagina[x].marco]
  <2>1. pagina[x].marco \in Marcos /\ marco[pagina[x].marco].de = x /\ marco[m].de = y
    BY <1>1, <1>2, <1>10, Presente DEF Firme
  <2> QED BY <1>7, <1>9, <1>10, <2>1
<1>11. FilesOK /\ FilesOK' /\ files' = files
  BY <1>4 DEF Firme, Inv, StateOK, FilesOK
<1>12. TablasDeFiles'
  BY <1>4 DEF Firme, TablasDeFiles
<1>13. CleanPageIsTrue'
  <2> SUFFICES ASSUME NEW x \in Paginas,
                      pagina'[x].marco # None, ~pagina'[x].modificado, Storage!Writable(x[1])'
               PROVE  marco'[pagina'[x].marco].bytes = files'[x[1]].data[x[2] + 1]
    BY DEF CleanPageIsTrue
  <2>1. x # y /\ pagina[x].marco # None /\ ~pagina[x].modificado
    BY <1>9
  <2>2. Storage!Writable(x[1])
    BY <1>11 DEF Storage!Writable
  <2>3. marco[pagina[x].marco].bytes = files[x[1]].data[x[2] + 1]
    BY <2>1, <2>2 DEF Firme, CleanPageIsTrue
  <2> QED BY <1>10, <1>11, <2>1, <2>3
<1>14. ASSUME NEW f \in FileTags, files[f] # None, NEW i \in 1 .. Len(files[f].data)
       PROVE  Ve(f, i)' = IF f = y[1] /\ i = y[2] + 1 THEN Escritos ELSE Ve(f, i)
  <2>1. PICK x \in Paginas : x = <<f, i - 1>> /\ x[1] = f /\ x[2] = i - 1
    BY <1>11, <1>14, PaginaDe
  <2>2. i \in Nat
    BY <1>11, <1>14, PaginaDe, Constantes
  <2>3. CASE x = y
    <3>1. f = y[1] /\ i = y[2] + 1
      BY <2>1, <2>2, <2>3
    <3> QED BY <1>1, <1>2, <1>7, <1>9, <2>1, <2>3, <3>1 DEF Ve
  <2>4. CASE x # y
    <3>1. ~(f = y[1] /\ i = y[2] + 1)
      BY <1>2, <2>1, <2>4
    <3> QED BY <1>9, <1>10, <1>11, <2>1, <2>4, <3>1 DEF Ve
  <2> QED BY <2>3, <2>4
<1>15. \A f \in FileTags : f # ins.ft => view'[f] = view[f]
  <2> TAKE f \in FileTags
  <2> HAVE f # ins.ft
  <2> QED BY <1>1, <1>11, <1>14, MismaVista
<1>16. view'[ins.ft] = [view[ins.ft] EXCEPT ![ins.pag + 1] = Escritos]
  <2>1. PICK f \in FileTags : f = ins.ft /\ f = y[1] /\ files[f] # None
    BY <1>1, <1>2, <1>3
  <2>2. view[f] = [i \in 1 .. Len(files[f].data) |-> Ve(f, i)]
    BY <1>11, <2>1, VistaDe
  <2>3. view'[f] = [i \in 1 .. Len(files[f].data) |-> Ve(f, i)']
    <3>1. view'[f] = [i \in 1 .. Len(files'[f].data) |-> Ve(f, i)']
      BY <1>11, <2>1, VistaSiguiente
    <3> QED BY <1>11, <3>1
  <2>4. \A i \in 1 .. Len(files[f].data) : Ve(f, i)' = IF i = y[2] + 1 THEN Escritos ELSE Ve(f, i)
    BY <1>14, <2>1
  <2>5. view'[f] = [i \in 1 .. Len(files[f].data) |-> IF i = y[2] + 1 THEN Escritos ELSE Ve(f, i)]
    BY <2>3, <2>4
  <2>6. view'[f] = [view[f] EXCEPT ![y[2] + 1] = Escritos]
    BY <2>2, <2>5
  <2> QED BY <1>1, <2>1, <2>6
<1> QED BY <1>1, <1>2, <1>3, <1>8, <1>12, <1>13, <1>15, <1>16

-----------------------------------------------------------------------------
(* A page takes the frame of another.                                      *)

\* What a replacement does to tables, pages and frames: y comes, v leaves, the others stay.
LEMMA Reemplaza ==
    ASSUME Firme, Inv', CargaEnVictima
    PROVE  \E y \in Paginas, v \in Paginas, m \in Marcos :
             /\ y # v /\ y = Actual /\ y[1] = ins.ft
             /\ pagina[y].marco = None /\ files[y[1]] # None
             /\ v = marco[m].de /\ pagina[v].marco = m
             /\ files' = Guardadas({v} \cap Sucias(FileTags))
             /\ pagina'[y].marco = m /\ marco'[m].bytes = Ve(y[1], y[2] + 1)
             /\ pagina'[v].marco = None
             /\ \A x \in Paginas : x \notin {y, v} =>
                  /\ pagina'[x].marco = pagina[x].marco
                  /\ pagina[x].marco # None =>
                       /\ marco'[pagina[x].marco] = marco[pagina[x].marco]
                       /\ pagina'[x].modificado = pagina[x].modificado
             /\ \A f \in FileTags :
                  /\ tabla'[f] # None => tabla[f] # None /\ tabla'[f].largo = tabla[f].largo
                  /\ f = ins.ft => tabla[f] # None /\ tabla'[f] # None
             /\ fault' = fault
<1>1. Falta /\ Inv /\ StateOK
  BY DEF CargaEnVictima, Firme, Inv
<1> DEFINE Sin(v) == [tabla EXCEPT ![v[1]] = UnaMenos(v[1], ins.ft)]
           Pg(v, m, pasadas) == [x \in Paginas |->
                  IF x = Actual THEN [pagina[x] EXCEPT !.marco = m]
                  ELSE IF x = v \/ Sin(v)[x[1]] = None THEN Ausente
                  ELSE [pagina[x] EXCEPT !.uso = @ /\ x \notin pasadas]]
<1>2. PICK m \in Marcos, pasadas \in SUBSET Paginas :
        /\ files' = Guardadas({marco[m].de} \cap Sucias(FileTags))
        /\ tabla' = UnaMas(Sin(marco[m].de), ins.ft)
        /\ pagina' = Pg(marco[m].de, m, pasadas)
        /\ marco' = [marco EXCEPT ![m] = Cargado]
        /\ marco[m] # None
        /\ fault' = fault
  BY DEF CargaEnVictima, MarcoLibre
<1>3. PICK v \in Paginas : v = marco[m].de /\ pagina[v].marco = m
  <2>1. marco[m] \in Marco
    BY <1>1, <1>2 DEF StateOK
  <2>2. marco[m].de \in Paginas
    BY <2>1 DEF Marco
  <2>3. pagina[marco[m].de].marco = m
    BY <1>1, <1>2 DEF Inv, FramesMatchPages
  <2> QED BY <2>2, <2>3
<1>4. PICK y \in Paginas :
        /\ y = Actual /\ y[1] = ins.ft /\ y[2] = ins.pag /\ ins.ft \in FileTags
        /\ tabla[ins.ft] \in Tabla /\ tabla[ins.ft] # None
        /\ pagina[y].marco = None /\ files[ins.ft] # None
  <2>1. Actual \in Paginas /\ pagina[Actual].marco = None /\ files[ins.ft] # None
    BY <1>1, EnSuPagina DEF Falta
  <2>2. ins.ft \in FileTags /\ tabla[ins.ft] \in Tabla /\ tabla[ins.ft] # None
    BY <1>1, EnSuPagina DEF Falta
  <2> QED BY <2>1, <2>2
<1>5. y # v /\ v[1] \in FileTags /\ tabla[v[1]] # None /\ tabla[v[1]] \in Tabla
  <2>1. y # v
    BY <1>3, <1>4, Constantes
  <2>2. v[1] \in FileTags
    BY BloqueDe
  <2>3. tabla[v[1]] # None /\ tabla[v[1]] \in Tabla
    BY <1>1, <1>3, Presente, Constantes
  <2> QED BY <2>1, <2>2, <2>3
<1>6. /\ marco'[m] = Cargado /\ marco'[m].bytes = Ve(y[1], y[2] + 1) /\ marco'[m].de = y
      /\ marco'[m] # None
      /\ \A n \in Marcos : n # m => marco'[n] = marco[n]
  <2>1. marco'[m] = Cargado /\ \A n \in Marcos : n # m => marco'[n] = marco[n]
    BY <1>1, <1>2 DEF StateOK
  <2>2. <<y[1], (y[2] + 1) - 1>> = y
    BY BloqueDe
  <2>3. Cargado.bytes = files[y[1]].data[y[2] + 1]
    BY <1>4 DEF Cargado
  <2>4. Cargado # None /\ Cargado.de = Actual
    BY <1>1, CargadoBien
  <2> QED BY <1>4, <2>1, <2>2, <2>3, <2>4 DEF Ve
\* The frames that did not change tell which pages are where.
<1>7. FramesMatchPages' /\ StateOK'
  BY DEF Inv
<1>8. pagina'[y].marco = m
  BY <1>6, <1>7, Constantes DEF FramesMatchPages
<1>9. ASSUME NEW x \in Paginas, x # y, pagina'[x].marco # None
      PROVE  x # v /\ pagina[x].marco = pagina'[x].marco
  <2>1. /\ pagina'[x].marco \in Marcos /\ marco'[pagina'[x].marco] # None
        /\ marco'[pagina'[x].marco].de = x
    BY <1>7, <1>9 DEF FramesMatchPages, StateOK, Nodo
  <2>2. pagina'[x].marco # m
    BY <1>6, <1>9, <2>1
  <2>3. marco[pagina'[x].marco] # None /\ marco[pagina'[x].marco].de = x
    BY <1>6, <2>1, <2>2
  <2>4. pagina[x].marco = pagina'[x].marco
    BY <1>1, <2>1, <2>3 DEF Inv, FramesMatchPages
  <2> QED BY <1>3, <2>2, <2>4
<1>10. ASSUME NEW x \in Paginas, x # y, x # v, pagina[x].marco # None
       PROVE  /\ pagina'[x].marco = pagina[x].marco
              /\ marco'[pagina[x].marco] = marco[pagina[x].marco]
  <2>1. /\ pagina[x].marco \in Marcos /\ marco[pagina[x].marco] # None
        /\ marco[pagina[x].marco].de = x
    BY <1>1, <1>10, Presente
  <2>2. pagina[x].marco # m
    BY <1>3, <1>10, <2>1
  <2>3. marco'[pagina[x].marco] = marco[pagina[x].marco]
    BY <1>6, <2>1, <2>2
  <2>4. pagina'[x].marco = pagina[x].marco
    BY <1>7, <2>1, <2>3 DEF FramesMatchPages
  <2> QED BY <2>3, <2>4
<1>11. ASSUME NEW x \in Paginas, x # y, x # v, pagina[x].marco # None
       PROVE  pagina'[x].modificado = pagina[x].modificado
  <2>1. pagina'[x].marco # None
    BY <1>10, <1>11
  <2>2. pagina'[x] = Ausente \/ pagina'[x] = [pagina[x] EXCEPT !.uso = @ /\ x \notin pasadas]
    BY <1>2, <1>3, <1>4, <1>11
  <2>3. pagina'[x] # Ausente
    BY <2>1 DEF Ausente
  <2>4. PICK u \in BOOLEAN : u = (pagina[x].uso /\ x \notin pasadas)
    OBVIOUS
  <2>5. pagina'[x] = [pagina[x] EXCEPT !.uso = u]
    BY <2>2, <2>3, <2>4
  <2>6. pagina[x] \in Nodo
    BY <1>1 DEF StateOK
  <2> QED BY <2>5, <2>6 DEF Nodo
<1>12. pagina'[v].marco = None
  BY <1>5, <1>9
\* The tables.
<1>13. ASSUME NEW f \in FileTags
       PROVE  /\ tabla'[f] # None => tabla[f] # None /\ tabla'[f].largo = tabla[f].largo
              /\ f = ins.ft => tabla[f] # None /\ tabla'[f] # None
  <2> DEFINE t1 == Sin(v)
  <2>1. /\ t1[v[1]] = UnaMenos(v[1], ins.ft) /\ \A g \in FileTags : g # v[1] => t1[g] = tabla[g]
        /\ DOMAIN t1 = FileTags
    BY <1>1, <1>5 DEF StateOK
  <2>2. PICK T : T = [tabla[v[1]] EXCEPT !.cantidad = tabla[v[1]].cantidad - 1]
    OBVIOUS
  <2>3. T \in Tabla /\ T.largo = tabla[v[1]].largo
    BY <1>5, <2>2 DEF Tabla
  <2>4. UnaMenos(v[1], ins.ft) = T \/ (UnaMenos(v[1], ins.ft) = None /\ v[1] # ins.ft)
    BY <2>2 DEF UnaMenos
  <2>5. T # None
    BY <2>3, StorageAssumption
  <2>6. /\ \A g \in FileTags : t1[g] # None =>
              tabla[g] # None /\ t1[g].largo = tabla[g].largo /\ t1[g] \in Tabla
        /\ t1[ins.ft] # None
    <3>1. \A g \in FileTags : tabla[g] # None => tabla[g] \in Tabla
      BY <1>1 DEF StateOK
    <3> HIDE DEF t1
    <3> QED BY <1>4, <1>5, <2>1, <2>3, <2>4, <2>5, <3>1
  <2>7. PICK T2 : T2 = [t1[ins.ft] EXCEPT !.cantidad = t1[ins.ft].cantidad + 1]
    OBVIOUS
  <2>8. tabla' = [t1 EXCEPT ![ins.ft] = T2]
    BY <1>2, <1>3, <2>7 DEF UnaMas
  <2>9. T2 \in Tabla /\ T2.largo = t1[ins.ft].largo
    <3>1. t1[ins.ft] \in Tabla
      BY <1>4, <2>6
    <3> HIDE DEF t1
    <3> QED BY <2>7, <3>1 DEF Tabla
  <2>10. T2 # None
    BY <2>9, StorageAssumption
  <2> HIDE DEF t1
  <2> QED BY <1>4, <2>1, <2>6, <2>8, <2>9, <2>10
<1>14. ASSUME NEW x \in Paginas, x \notin {y, v}
       PROVE  /\ pagina'[x].marco = pagina[x].marco
              /\ pagina[x].marco # None =>
                   /\ marco'[pagina[x].marco] = marco[pagina[x].marco]
                   /\ pagina'[x].modificado = pagina[x].modificado
  BY <1>9, <1>10, <1>11, <1>14
<1>15. files' = Guardadas({v} \cap Sucias(FileTags)) /\ fault' = fault
  BY <1>2, <1>3
<1>16. /\ y # v /\ y = Actual /\ y[1] = ins.ft
       /\ pagina[y].marco = None /\ files[y[1]] # None
       /\ v = marco[m].de /\ pagina[v].marco = m
       /\ pagina'[y].marco = m /\ marco'[m].bytes = Ve(y[1], y[2] + 1)
       /\ pagina'[v].marco = None
  BY <1>3, <1>4, <1>5, <1>6, <1>8, <1>12
<1> HIDE DEF Sin, Pg, Actual
<1> WITNESS y \in Paginas, v \in Paginas, m \in Marcos
<1> QED BY <1>13, <1>14, <1>15, <1>16

LEMMA VictimaFirme ==
    ASSUME Firme, Inv', ~fault, CargaEnVictima
    PROVE  /\ TablasDeFiles' /\ CleanPageIsTrue'
           /\ \A f \in FileTags : Storage!Writable(f) => view'[f] = view[f]
           /\ \A f \in FileTags : Storage!Writable(f)' <=> Storage!Writable(f)
           /\ ins.ft \in FileTags => /\ tabla[ins.ft] # None /\ tabla'[ins.ft] # None
                                     /\ tabla'[ins.ft].largo = tabla[ins.ft].largo
           /\ Promise!Sync \/ \E f \in FileTags, i \in 1..MaxLen : Promise!Discard(f, i)
<1>1. PICK y \in Paginas, v \in Paginas, m \in Marcos :
             /\ y # v /\ y = Actual /\ y[1] = ins.ft
             /\ pagina[y].marco = None /\ files[y[1]] # None
             /\ v = marco[m].de /\ pagina[v].marco = m
             /\ files' = Guardadas({v} \cap Sucias(FileTags))
             /\ pagina'[y].marco = m /\ marco'[m].bytes = Ve(y[1], y[2] + 1)
             /\ pagina'[v].marco = None
             /\ \A x \in Paginas : x \notin {y, v} =>
                  /\ pagina'[x].marco = pagina[x].marco
                  /\ pagina[x].marco # None =>
                       /\ marco'[pagina[x].marco] = marco[pagina[x].marco]
                       /\ pagina'[x].modificado = pagina[x].modificado
             /\ \A f \in FileTags :
                  /\ tabla'[f] # None => tabla[f] # None /\ tabla'[f].largo = tabla[f].largo
                  /\ f = ins.ft => tabla[f] # None /\ tabla'[f] # None
             /\ fault' = fault
  BY Reemplaza
<1>2. /\ FilesOK /\ FilesOK' /\ m # None
      /\ v[1] \in FileTags /\ v[2] \in Nros /\ v[2] \in Nat /\ v = <<v[1], v[2]>>
      /\ <<v[1], (v[2] + 1) - 1>> = v
  BY BloqueDe, Constantes DEF Firme, Inv, StateOK, FilesOK
<1>3. PICK P : P = {v} \cap Sucias(FileTags)
  OBVIOUS
<1>4. P \subseteq {x \in Paginas : pagina[x].marco # None} /\ files' = Guardadas(P)
  BY <1>1, <1>3, SuciasPresentes
<1>5. v \in P <=> pagina[v].modificado
  BY <1>1, <1>2, <1>3 DEF Sucias
<1>6. \A x \in P : x = v
  BY <1>3
<1>7. /\ files[v[1]] # None /\ v[2] + 1 \in 1 .. Len(files[v[1]].data)
      /\ Ve(v[1], v[2] + 1) = marco[m].bytes
  BY <1>1, <1>2, Cabe, Presente DEF Firme
<1>8. ASSUME NEW f \in FileTags
      PROVE  /\ files'[f] = None <=> files[f] = None
             /\ files[f] # None => /\ files'[f].size = files[f].size
                                   /\ Len(files'[f].data) = Len(files[f].data)
                                   /\ files'[f] = [files[f] EXCEPT !.data = files'[f].data]
             /\ Storage!Writable(f)' <=> Storage!Writable(f)
  BY <1>4, MismoFile
<1>9. ASSUME NEW f \in FileTags, files[f] # None
      PROVE  /\ \A i \in 1 .. Len(files[f].data) :
                   files'[f].data[i] = IF <<f, i - 1>> \in P /\ Storage!Writable(f) THEN Ve(f, i)
                                                                         ELSE files[f].data[i]
             /\ ~Storage!Writable(f) => files'[f] = files[f]
  <2>1. PICK G : G = Guardadas(P)[f] /\ G = files'[f]
    BY <1>4
  <2> QED BY <1>4, <1>9, <2>1, Guarda DEF Firme
\* The bytes of the victim are in the storage, unless it does not take them.
<1>10. Storage!Writable(v[1]) => files'[v[1]].data[v[2] + 1] = Ve(v[1], v[2] + 1)
  <2> SUFFICES ASSUME Storage!Writable(v[1])
               PROVE  files'[v[1]].data[v[2] + 1] = Ve(v[1], v[2] + 1)
    OBVIOUS
  <2>1. CASE pagina[v].modificado
    BY <1>2, <1>5, <1>7, <1>9, <2>1
  <2>2. CASE ~pagina[v].modificado
    <3>1. marco[m].bytes = files[v[1]].data[v[2] + 1]
      BY <1>1, <1>2, <2>2 DEF Firme, CleanPageIsTrue
    <3>2. files'[v[1]].data[v[2] + 1] = files[v[1]].data[v[2] + 1]
      BY <1>2, <1>5, <1>7, <1>9, <2>2
    <3> QED BY <1>7, <3>1, <3>2
  <2> QED BY <2>1, <2>2
<1>11. ASSUME NEW f \in FileTags, files[f] # None, NEW i \in 1 .. Len(files[f].data)
       PROVE  Ve(f, i)' = IF f = v[1] /\ i = v[2] + 1 /\ ~Storage!Writable(f)
                          THEN files[f].data[i] ELSE Ve(f, i)
  <2>1. PICK x \in Paginas : x = <<f, i - 1>> /\ x[1] = f /\ x[2] = i - 1
    BY <1>2, <1>11, PaginaDe
  <2>2. i \in Nat
    BY <1>2, <1>11, PaginaDe, Constantes
  <2>3. x = v <=> f = v[1] /\ i = v[2] + 1
    BY <1>2, <2>1, <2>2
  <2>4. CASE x = y
    <3>1. x[2] + 1 = i
      BY <2>1, <2>2
    <3>2. Ve(f, i)' = marco'[m].bytes
      BY <1>1, <1>2, <2>1, <2>4 DEF Ve
    <3> QED BY <1>1, <2>1, <2>3, <2>4, <3>1, <3>2
  <2>5. CASE x = v
    <3>1. Ve(f, i)' = files'[f].data[i]
      BY <1>1, <2>1, <2>5 DEF Ve
    <3>2. CASE Storage!Writable(f)
      BY <1>10, <2>3, <2>5, <3>1, <3>2
    <3>3. CASE ~Storage!Writable(f)
      BY <1>9, <1>11, <2>3, <2>5, <3>1, <3>3
    <3> QED BY <3>2, <3>3
  <2>6. CASE x \notin {y, v}
    <3>1. files'[f].data[i] = files[f].data[i]
      BY <1>6, <1>9, <1>11, <2>1, <2>6
    <3>2. Ve(f, i)' = Ve(f, i)
      BY <1>1, <2>1, <2>6, <3>1 DEF Ve
    <3> QED BY <2>3, <2>6, <3>2
  <2> QED BY <2>4, <2>5, <2>6
<1>12. ASSUME NEW f \in FileTags, f # v[1] \/ Storage!Writable(f) PROVE view'[f] = view[f]
  <2>1. files[f] # None => \A i \in 1 .. Len(files[f].data) : Ve(f, i)' = Ve(f, i)
    BY <1>11, <1>12
  <2> QED BY <1>2, <1>8, <2>1, MismaVista
<1>13. TablasDeFiles'
  <2> SUFFICES ASSUME NEW f \in FileTags, tabla'[f] # None
               PROVE  files'[f] # None /\ tabla'[f].largo = files'[f].size
    BY DEF TablasDeFiles
  <2>1. tabla[f] # None /\ tabla'[f].largo = tabla[f].largo
    BY <1>1
  <2>2. files[f] # None /\ tabla[f].largo = files[f].size
    BY <2>1 DEF Firme, TablasDeFiles
  <2> QED BY <1>8, <2>1, <2>2
<1>14. CleanPageIsTrue'
  <2> SUFFICES ASSUME NEW x \in Paginas,
                      pagina'[x].marco # None, ~pagina'[x].modificado, Storage!Writable(x[1])'
               PROVE  marco'[pagina'[x].marco].bytes = files'[x[1]].data[x[2] + 1]
    BY DEF CleanPageIsTrue
  <2>1. /\ x[1] \in FileTags /\ <<x[1], (x[2] + 1) - 1>> = x
    BY BloqueDe
  <2>2. Storage!Writable(x[1]) /\ files[x[1]] # None
    BY <1>8, <2>1 DEF Storage!Writable
  <2>3. x # v
    BY <1>1
  <2>4. x[2] + 1 \in 1 .. Len(files[x[1]].data)
    <3>1. x[2] \in Nat
      BY BloqueDe
    <3>2. tabla'[x[1]] # None /\ x[2] < tabla'[x[1]].largo
      BY DEF Inv, FramesMatchPages
    <3>3. tabla'[x[1]].largo = files[x[1]].size /\ files[x[1]].size <= Len(files[x[1]].data)
      BY <1>1, <2>1, <2>2, <3>2 DEF Firme, TablasDeFiles, Tamanos
    <3>4. files[x[1]].size \in 0..MaxLen /\ Len(files[x[1]].data) \in 0..MaxLen
      BY <1>2, <2>1, <2>2, Contenidos DEF FilesOK
    <3> QED BY <3>1, <3>2, <3>3, <3>4, Constantes
  <2>5. files'[x[1]].data[x[2] + 1] = files[x[1]].data[x[2] + 1]
    BY <1>6, <1>9, <2>1, <2>2, <2>3, <2>4
  <2>6. CASE x = y
    BY <1>1, <2>1, <2>5, <2>6 DEF Ve
  <2>7. CASE x # y
    <3>1. /\ pagina'[x].marco = pagina[x].marco /\ pagina[x].marco # None
          /\ marco'[pagina[x].marco] = marco[pagina[x].marco]
          /\ ~pagina[x].modificado
      BY <1>1, <2>3, <2>7
    <3>2. marco[pagina[x].marco].bytes = files[x[1]].data[x[2] + 1]
      BY <2>2, <3>1 DEF Firme, CleanPageIsTrue
    <3> QED BY <2>5, <3>1, <3>2
  <2> QED BY <2>6, <2>7
\* What cannot be written is seen as it is stored from now on.
<1>15. ASSUME ~Storage!Writable(v[1])
       PROVE  Promise!Discard(v[1], v[2] + 1) /\ v[2] + 1 \in 1..MaxLen
  <2>1. PICK f \in FileTags : f = v[1] /\ files[f] # None /\ files[f].committed
    BY <1>2, <1>7, <1>15 DEF Storage!Writable
  <2>2. PICK k \in 1 .. Len(files[f].data) : k = v[2] + 1
    BY <1>7, <2>1
  <2>3. Len(files[f].data) \in 0..MaxLen /\ DOMAIN files[f].data = 1 .. Len(files[f].data)
    BY <1>2, <2>1, PaginaDe
  <2>4. view[f] = [i \in 1 .. Len(files[f].data) |-> Ve(f, i)]
    BY <1>2, <2>1, VistaDe
  <2>5. view'[f] = [i \in 1 .. Len(files[f].data) |-> Ve(f, i)']
    <3>1. view'[f] = [i \in 1 .. Len(files'[f].data) |-> Ve(f, i)']
      BY <1>2, <1>8, <2>1, VistaSiguiente
    <3> QED BY <1>8, <2>1, <3>1
  <2>6. \A i \in 1 .. Len(files[f].data) : Ve(f, i)' = IF i = k THEN files[f].data[i] ELSE Ve(f, i)
    BY <1>11, <1>15, <2>1, <2>2
  <2>7. view'[f] = [view[f] EXCEPT ![k] = files[f].data[k]]
    BY <2>2, <2>4, <2>5, <2>6
  <2>8. \A g \in FileTags : g # f => view'[g] = view[g]
    BY <1>12, <2>1
  <2>9. view' = [view EXCEPT ![f][k] = files[f].data[k]]
    <3>1. view = [g \in FileTags |-> view[g]] /\ view' = [g \in FileTags |-> view'[g]]
      BY TodaVista
    <3> QED BY <2>7, <2>8, <3>1
  <2>10. files' = files
    <3>1. \A g \in FileTags : files'[g] = files[g]
      <4> TAKE g \in FileTags
      <4>1. CASE files[g] = None
        BY <1>8, <4>1
      <4>2. CASE files[g] # None /\ g = f
        BY <1>9, <1>15, <2>1, <4>2
      <4>3. CASE g # f
        <5>1. \A x \in P : x[1] # g
          BY <1>6, <2>1, <4>3
        <5> QED BY <1>4, <5>1, GuardaOtro DEF Firme
      <4> QED BY <4>1, <4>2, <4>3
    <3> QED BY <1>2, <3>1 DEF FilesOK
  <2>11. k \in 1..MaxLen
    BY <2>2, <2>3, Constantes
  <2> QED BY <2>1, <2>2, <2>3, <2>9, <2>10, <2>11 DEF Promise!Discard
<1>16. ASSUME Storage!Writable(v[1]) PROVE Promise!Sync
  <2>1. ASSUME NEW f \in FileTags, Storage!Writable(f)
        PROVE  /\ files'[f] = [files[f] EXCEPT !.data = files'[f].data]
               /\ \A i \in DOMAIN files[f].data : files'[f].data[i] \in {files[f].data[i], view[f][i]}
    <3>1. files[f] # None
      BY <2>1 DEF Storage!Writable
    <3>2. DOMAIN files[f].data = 1 .. Len(files[f].data)
      BY <1>2, <3>1, PaginaDe
    <3>3. view[f] = [i \in 1 .. Len(files[f].data) |-> Ve(f, i)]
      BY <1>2, <3>1, VistaDe
    <3>4. files'[f] = [files[f] EXCEPT !.data = files'[f].data]
      BY <1>8, <3>1
    <3>5. \A i \in 1 .. Len(files[f].data) : files'[f].data[i] \in {files[f].data[i], Ve(f, i)}
      BY <1>9, <3>1
    <3> QED BY <3>2, <3>3, <3>4, <3>5
  <2>2. \A f \in FileTags : ~Storage!Writable(f) => files'[f] = files[f]
    BY <1>8, <1>9
  <2>3. \A f \in FileTags : Promise!Storage!Writable(f) <=> Storage!Writable(f)
    BY DEF Promise!Storage!Writable, Storage!Writable
  <2>4. view' = view
    BY <1>12, <1>16, TodaVista
  <2> QED BY <2>1, <2>2, <2>3, <2>4 DEF Promise!Sync
<1>17. ins.ft \in FileTags => /\ tabla[ins.ft] # None /\ tabla'[ins.ft] # None
                              /\ tabla'[ins.ft].largo = tabla[ins.ft].largo
  BY <1>1
<1>18. Promise!Sync \/ \E f \in FileTags, i \in 1..MaxLen : Promise!Discard(f, i)
  BY <1>2, <1>15, <1>16
<1> QED BY <1>8, <1>12, <1>13, <1>14, <1>17, <1>18

-----------------------------------------------------------------------------
(* Requests to the storage about a File:Tag without a table here.          *)

\* Nothing of it is in memory, so it is seen as it is stored, before and after.
LEMMA SinMemoria ==
    ASSUME Firme, FilesOK', ~fault, NEW f \in FileTags, tabla[f] = None,
           UNCHANGED <<tabla, pagina, marco>>,
           \A g \in FileTags : g # f => files'[g] = files[g]
    PROVE  /\ TablasDeFiles' /\ CleanPageIsTrue'
           /\ view[f] = IF files[f] = None THEN None ELSE files[f].data
           /\ view'[f] = IF files'[f] = None THEN None ELSE files'[f].data
           /\ view' = [view EXCEPT ![f] = view'[f]]
<1>1. FilesOK
  BY DEF Firme, Inv, StateOK, FilesOK
<1>2. \A x \in Paginas : pagina[x].marco # None => x[1] # f /\ x[1] \in FileTags
  BY Presente, BloqueDe DEF Firme
<1>3. TablasDeFiles'
  BY DEF Firme, TablasDeFiles
<1>4. CleanPageIsTrue'
  <2> SUFFICES ASSUME NEW x \in Paginas,
                      pagina'[x].marco # None, ~pagina'[x].modificado, Storage!Writable(x[1])'
               PROVE  marco'[pagina'[x].marco].bytes = files'[x[1]].data[x[2] + 1]
    BY DEF CleanPageIsTrue
  <2>1. files'[x[1]] = files[x[1]]
    BY <1>2
  <2>2. Storage!Writable(x[1])
    BY <2>1 DEF Storage!Writable
  <2> QED BY <2>1, <2>2 DEF Firme, CleanPageIsTrue
<1>5. view[f] = IF files[f] = None THEN None ELSE files[f].data
  <2>1. CASE files[f] = None
    BY <1>1, <2>1, VistaDe
  <2>2. CASE files[f] # None
    <3>1. view[f] = [i \in 1 .. Len(files[f].data) |-> Ve(f, i)]
      BY <1>1, <2>2, VistaDe
    <3>2. files[f].data = [i \in 1 .. Len(files[f].data) |-> files[f].data[i]]
      BY <1>1, <2>2, PaginaDe
    <3>3. \A i \in 1 .. Len(files[f].data) : <<f, i - 1>> \in Paginas
      BY <1>1, <2>2, PaginaDe
    <3>4. \A i \in 1 .. Len(files[f].data) : Ve(f, i) = files[f].data[i]
      BY <1>2, <3>3 DEF Ve
    <3> QED BY <2>2, <3>1, <3>2, <3>4
  <2> QED BY <2>1, <2>2
<1>6. view'[f] = IF files'[f] = None THEN None ELSE files'[f].data
  <2>1. CASE files'[f] = None
    BY <2>1, VistaSiguiente
  <2>2. CASE files'[f] # None
    <3>1. view'[f] = [i \in 1 .. Len(files'[f].data) |-> Ve(f, i)']
      BY <2>2, VistaSiguiente
    <3>2. files'[f].data = [i \in 1 .. Len(files'[f].data) |-> files'[f].data[i]]
      BY <2>2, VistaSiguiente
    <3>3. \A i \in 1 .. Len(files'[f].data) : <<f, i - 1>> \in Paginas
      BY <2>2, VistaSiguiente
    <3>4. \A i \in 1 .. Len(files'[f].data) : Ve(f, i)' = files'[f].data[i]
      BY <1>2, <3>3 DEF Ve
    <3> QED BY <2>2, <3>1, <3>2, <3>4
  <2> QED BY <2>1, <2>2
<1>7. \A g \in FileTags : g # f => view'[g] = view[g]
  <2> TAKE g \in FileTags
  <2> HAVE g # f
  <2>1. \A i : Ve(g, i)' = Ve(g, i)
    BY DEF Ve
  <2> QED BY <1>1, <2>1, MismaVista
<1>8. view' = [view EXCEPT ![f] = view'[f]]
  <2>1. view = [g \in FileTags |-> view[g]] /\ view' = [g \in FileTags |-> view'[g]]
    BY TodaVista
  <2> QED BY <1>7, <2>1
<1> QED BY <1>3, <1>4, <1>5, <1>6, <1>8

\* CREATE, TAG, DELETE and COMMIT of such a File:Tag, and TRUNCATE, are what they promise.
LEMMA PideFirme ==
    ASSUME Firme, FilesOK', ~fault, NEW f \in FileTags, NEW g \in FileTags, NEW n \in 0..MaxLen,
           tabla[f] = None, UNCHANGED <<tabla, pagina, marco>>,
           \/ Storage!Create(f) \/ Storage!Delete(f) \/ Storage!Commit(f)
           \/ Storage!Truncate(f, n) \/ Storage!Tag(g, f)
    PROVE  TablasDeFiles' /\ CleanPageIsTrue' /\ Promise!Step
<1>1. \A h \in FileTags : h # f => files'[h] = files[h]
  BY DEF Storage!Create, Storage!Delete, Storage!Commit, Storage!Truncate, Storage!Tag,
         Firme, Inv, StateOK
<1>2. /\ TablasDeFiles' /\ CleanPageIsTrue'
      /\ view[f] = IF files[f] = None THEN None ELSE files[f].data
      /\ view'[f] = IF files'[f] = None THEN None ELSE files'[f].data
      /\ view' = [view EXCEPT ![f] = view'[f]]
  BY <1>1, SinMemoria
<1>3. files \in [FileTags -> Storage!File \cup {None}]
  BY DEF Firme, Inv, StateOK
<1>4. ASSUME Storage!Create(f) PROVE Promise!Create(f)
  <2>1. files' = [files EXCEPT ![f] = [data |-> <<>>, size |-> 0, committed |-> FALSE]] /\ files[f] = None
    BY <1>4 DEF Storage!Create, Storage!Empty
  <2>2. files'[f] # None
    <3>1. <<>> \in [1..0 -> Contenido]
      OBVIOUS
    <3>2. [data |-> <<>>, size |-> 0, committed |-> FALSE] \in Storage!File
      BY <3>1, Constantes DEF Storage!File, Storage!Contents
    <3> QED BY <1>3, <2>1, <3>2, StorageAssumption
  <2>3. files'[f].data = <<>>
    BY <1>3, <2>1
  <2>4. view' = [view EXCEPT ![f] = <<>>]
    BY <1>2, <2>2, <2>3
  <2> QED BY <2>1, <2>4 DEF Promise!Create, Promise!Storage!Create, Promise!Storage!Empty
<1>5. ASSUME Storage!Delete(f) PROVE Promise!Delete(f)
  <2>1. files' = [files EXCEPT ![f] = None] /\ f # Base /\ files[f] # None
    BY <1>5 DEF Storage!Delete
  <2>2. view' = [view EXCEPT ![f] = None]
    BY <1>2, <1>3, <2>1
  <2> QED BY <2>1, <2>2 DEF Promise!Delete, Promise!Storage!Delete
<1>6. ASSUME Storage!Commit(f) PROVE Promise!Commit(f)
  <2>1. files' = [files EXCEPT ![f].committed = TRUE] /\ files[f] # None
    BY <1>6 DEF Storage!Commit
  <2>2. files[f] \in Storage!File /\ view[f] = files[f].data
    BY <1>2, <1>3, <2>1
  <2>3. PICK c \in BOOLEAN : c = TRUE
    OBVIOUS
  <2>4. files' = [files EXCEPT ![f] = [files[f] EXCEPT !.committed = c]]
    BY <2>1, <2>3
  <2>5. [files[f] EXCEPT !.committed = c]
          = [files[f] EXCEPT !.committed = c, !.data = IF files[f].committed THEN @ ELSE view[f]]
    BY <2>2 DEF Storage!File
  <2>6. files' = [files EXCEPT ![f].committed = TRUE,
                               ![f].data = IF files[f].committed THEN @ ELSE view[f]]
    BY <1>3, <2>3, <2>4, <2>5
  <2>7. view'[f] = view[f]
    <3>1. files'[f] \in Storage!File /\ files'[f].data = files[f].data
      BY <1>3, <2>2, <2>4 DEF Storage!File
    <3> QED BY <1>2, <2>1, <2>2, <3>1, StorageAssumption
  <2>8. view' = view
    <3>1. view = [h \in FileTags |-> view[h]]
      BY TodaVista
    <3> QED BY <1>2, <2>7, <3>1
  <2> QED BY <2>1, <2>6, <2>8 DEF Promise!Commit
<1>7. ASSUME Storage!Truncate(f, n) PROVE Promise!Truncate(f, n)
  <2>1. Promise!Storage!Truncate(f, n) /\ files[f] # None
    BY <1>7 DEF Storage!Truncate, Promise!Storage!Truncate, Storage!Writable, Promise!Storage!Writable
  <2>2. PICK d : d = [i \in 1..n |-> IF i <= Len(files[f].data) THEN files[f].data[i] ELSE EnCero]
    OBVIOUS
  <2>3. files' = [files EXCEPT ![f].size = n, ![f].data = d]
    BY <1>7, <2>2 DEF Storage!Truncate
  <2>4. files'[f] = [files[f] EXCEPT !.size = n, !.data = d] /\ files[f] \in Storage!File
    BY <1>3, <2>1, <2>3
  <2>5. files'[f].data = d
    BY <2>4 DEF Storage!File
  <2>6. files'[f] # None
    <3>1. d \in Storage!Contents
      <4>1. d \in [1..n -> Contenido]
        BY <2>2, <2>4, Contenidos, Constantes
      <4> QED BY <4>1 DEF Storage!Contents
    <3>2. files'[f] \in Storage!File
      BY <2>4, <3>1 DEF Storage!File
    <3> QED BY <3>2, StorageAssumption
  <2>7. view' = [view EXCEPT ![f] = d]
    BY <1>2, <2>5, <2>6
  <2>8. view' = [view EXCEPT ![f] = [i \in 1..n |-> IF i <= Len(@) THEN @[i] ELSE EnCero]]
    BY <1>2, <2>1, <2>2, <2>7
  <2> QED BY <2>1, <2>8 DEF Promise!Truncate
<1>8. ASSUME Storage!Tag(g, f) PROVE Promise!Tag(g, f)
  <2>1. Promise!Storage!Tag(g, f) /\ files[g] # None
    BY <1>8 DEF Storage!Tag, Promise!Storage!Tag
  <2>2. PICK c \in BOOLEAN : c = FALSE
    OBVIOUS
  <2>3. files'[f] = [files[g] EXCEPT !.committed = c] /\ files[g] \in Storage!File
    BY <1>3, <1>8, <2>2 DEF Storage!Tag
  <2>4. files'[f] \in Storage!File /\ files'[f].data = files[g].data
    BY <2>3 DEF Storage!File
  <2>5. view' = [view EXCEPT ![f] = files[g].data]
    BY <1>2, <2>4, StorageAssumption
  <2> QED BY <2>1, <2>5 DEF Promise!Tag
<1>9. Promise!Step
  BY <1>4, <1>5, <1>6, <1>7, <1>8 DEF Promise!Step
<1> QED BY <1>2, <1>9

-----------------------------------------------------------------------------
(* The instructions that touch the memory.                                 *)

\* A table that has the pages it is to have.
LEMMA RecortaIgual ==
    ASSUME Inv, NEW f \in FileTags, tabla[f] # None, NEW n, n = tabla[f].largo,
           UNCHANGED <<tabla, pagina, marco>>
    PROVE  Recortado(f, n)
<1>1. n \in Nat
  <2>1. tabla[f] \in Tabla
    BY DEF Inv, StateOK
  <2> QED BY <2>1, Constantes DEF Tabla
<1>2. ASSUME NEW x \in Paginas, x[1] = f, x[2] >= n PROVE pagina[x].marco = None
  <2> SUFFICES ASSUME pagina[x].marco # None PROVE FALSE
    OBVIOUS
  <2>1. x[2] < n /\ x[2] \in Nat
    BY <1>2, Presente, BloqueDe
  <2> QED BY <1>1, <1>2, <2>1
<1> QED BY <1>2 DEF Recortado

\* TRUNCATE.
LEMMA TruncaFirme ==
    ASSUME Firme, Inv', ~fault, NEW f \in FileTags, NEW n \in 0..MaxLen,
           Storage!Truncate(f, n), Recortado(f, n)
    PROVE  TablasDeFiles' /\ CleanPageIsTrue' /\ Promise!Truncate(f, n)
<1>1. FilesOK /\ FilesOK' /\ n \in Nat
  BY Constantes DEF Firme, Inv, StateOK, FilesOK
<1>2. files[f] \in Storage!File /\ files[f] # None /\ Storage!Writable(f)
  BY <1>1 DEF Storage!Truncate, Storage!Writable, FilesOK
<1>3. PICK k \in 0..MaxLen : k = Len(files[f].data) /\ files[f].data \in [1..k -> Contenido]
  BY <1>2, Contenidos
<1>4. PICK d : d = [i \in 1..n |-> IF i <= k THEN files[f].data[i] ELSE EnCero]
  OBVIOUS
<1>5. files' = [files EXCEPT ![f].size = n, ![f].data = d]
  BY <1>3, <1>4 DEF Storage!Truncate
<1>6. /\ files'[f] = [files[f] EXCEPT !.size = n, !.data = d]
      /\ \A g \in FileTags : g # f => files'[g] = files[g]
  BY <1>1, <1>5 DEF FilesOK
<1>7. files'[f].size = n /\ files'[f].data = d /\ Len(d) = n
  BY <1>2, <1>4, <1>6, <1>1 DEF Storage!File
<1>8. files'[f] # None
  <2>1. d \in Storage!Contents
    <3>1. d \in [1..n -> Contenido]
      BY <1>3, <1>4, Constantes
    <3> QED BY <3>1 DEF Storage!Contents
  <2>2. files'[f] \in Storage!File
    BY <1>2, <1>6, <2>1 DEF Storage!File
  <2> QED BY <2>2, StorageAssumption
<1>9. TablasDeFiles'
  BY <1>6, <1>7, <1>8 DEF Firme, TablasDeFiles, Recortado
<1>10. CleanPageIsTrue'
  <2> SUFFICES ASSUME NEW x \in Paginas,
                      pagina'[x].marco # None, ~pagina'[x].modificado, Storage!Writable(x[1])'
               PROVE  marco'[pagina'[x].marco].bytes = files'[x[1]].data[x[2] + 1]
    BY DEF CleanPageIsTrue
  <2>1. /\ ~(x[1] = f /\ x[2] >= n) /\ pagina'[x] = pagina[x] /\ pagina[x].marco # None
        /\ marco'[pagina'[x].marco] = marco[pagina[x].marco]
    BY DEF Recortado
  <2>2. x[1] \in FileTags /\ x[2] \in Nat
    BY BloqueDe
  <2>3. Storage!Writable(x[1])
    BY <1>2, <1>6, <2>2 DEF Storage!Writable
  <2>4. marco[pagina[x].marco].bytes = files[x[1]].data[x[2] + 1]
    BY <2>1, <2>3 DEF Firme, CleanPageIsTrue
  <2>5. files'[x[1]].data[x[2] + 1] = files[x[1]].data[x[2] + 1]
    <3>1. CASE x[1] = f
      <4>1. x[2] + 1 \in 1..k
        BY <1>3, <2>1, <3>1, Cabe
      <4>2. x[2] + 1 \in 1..n
        BY <1>1, <2>1, <2>2, <3>1
      <4> QED BY <1>4, <1>7, <3>1, <4>1, <4>2
    <3>2. CASE x[1] # f
      BY <1>6, <2>2, <3>2
    <3> QED BY <3>1, <3>2
  <2> QED BY <2>1, <2>4, <2>5
<1>11. view[f] = [i \in 1..k |-> Ve(f, i)] /\ Len(view[f]) = k
  BY <1>1, <1>2, <1>3, VistaDe
<1>12. ASSUME NEW i \in 1..n PROVE Ve(f, i)' = IF i <= k THEN Ve(f, i) ELSE EnCero
  <2>1. PICK x \in Paginas : x = <<f, i - 1>> /\ x[1] = f /\ x[2] = i - 1
    <3>1. i - 1 \in Nros
      BY Constantes DEF Nros
    <3>2. <<f, i - 1>> \in Paginas
      BY <3>1 DEF Paginas
    <3> QED BY <3>2
  <2>2. x[2] + 1 = i /\ ~(x[2] >= n) /\ i \in Nat
    BY <1>1, <2>1
  <2>3. pagina'[x] = pagina[x]
    BY <2>2 DEF Recortado
  <2>4. CASE pagina[x].marco # None
    <3>1. marco'[pagina'[x].marco] = marco[pagina[x].marco]
      BY <2>3, <2>4 DEF Recortado
    <3>2. i \in 1..k
      BY <1>3, <2>1, <2>2, <2>4, Cabe
    <3>3. i <= k
      BY <3>2
    <3> QED BY <2>1, <2>3, <2>4, <3>1, <3>3 DEF Ve
  <2>5. CASE pagina[x].marco = None
    <3>1. Ve(f, i)' = d[i]
      BY <1>7, <2>1, <2>3, <2>5 DEF Ve
    <3>2. Ve(f, i) = files[f].data[i]
      BY <2>1, <2>5 DEF Ve
    <3> QED BY <1>4, <3>1, <3>2
  <2> QED BY <2>4, <2>5
<1>13. view'[f] = [i \in 1..n |-> Ve(f, i)']
  <2>1. view'[f] = [i \in 1 .. Len(files'[f].data) |-> Ve(f, i)']
    BY <1>1, <1>8, VistaSiguiente
  <2> QED BY <1>7, <2>1
<1>14. view'[f] = [i \in 1..n |-> IF i <= Len(view[f]) THEN view[f][i] ELSE EnCero]
  <2>1. \A i \in 1..n : i <= k => i \in 1..k
    BY <1>1
  <2> QED BY <1>11, <1>12, <1>13, <2>1
<1>15. ASSUME NEW g \in FileTags, g # f PROVE view'[g] = view[g]
  <2>1. ASSUME files[g] # None, NEW i \in 1 .. Len(files[g].data) PROVE Ve(g, i)' = Ve(g, i)
    <3>1. PICK x \in Paginas : x = <<g, i - 1>> /\ x[1] = g
      BY <1>1, <2>1, PaginaDe
    <3>2. /\ pagina'[x] = pagina[x]
          /\ pagina'[x].marco # None => marco'[pagina'[x].marco] = marco[pagina[x].marco]
      BY <1>15, <3>1 DEF Recortado
    <3> QED BY <1>6, <1>15, <3>1, <3>2 DEF Ve
  <2> QED BY <1>1, <1>6, <1>15, <2>1, MismaVista
<1>16. view' = [view EXCEPT ![f] = [i \in 1..n |-> IF i <= Len(@) THEN @[i] ELSE EnCero]]
  <2>1. view = [g \in FileTags |-> view[g]] /\ view' = [g \in FileTags |-> view'[g]]
    BY TodaVista
  <2> QED BY <1>14, <1>15, <2>1
<1>17. Promise!Storage!Truncate(f, n)
  BY DEF Storage!Truncate, Promise!Storage!Truncate, Storage!Writable, Promise!Storage!Writable
<1> QED BY <1>9, <1>10, <1>16, <1>17 DEF Promise!Truncate

\* DELETE.
LEMMA DeleteFirme ==
    ASSUME Firme, Inv', ~fault, NEW f \in FileTags, Olvida(f), fault' = fault,
           (files[f] # None /\ Storage!Delete(f)) \/ (files[f] = None /\ UNCHANGED files)
    PROVE  /\ TablasDeFiles' /\ CleanPageIsTrue'
           /\ Promise!Delete(f) \/ UNCHANGED <<files, view>>
<1>1. FilesOK /\ FilesOK'
  BY DEF Firme, Inv, StateOK, FilesOK
<1>2. /\ tabla'[f] = None
      /\ \A g \in FileTags : g # f => tabla'[g] = tabla[g]
      /\ \A x \in Paginas : pagina'[x] = IF x[1] = f THEN Ausente ELSE pagina[x]
      /\ \A m \in Marcos : marco'[m] = marco[m] \/ (EnTabla(f) /\ m \in Soltados(f))
  BY DEF Olvida, Firme, Inv, StateOK
<1>3. files'[f] = None /\ \A g \in FileTags : g # f => files'[g] = files[g]
  BY <1>1 DEF Storage!Delete, FilesOK
<1>4. ASSUME NEW x \in Paginas, x[1] # f, pagina[x].marco # None
      PROVE  marco'[pagina'[x].marco] = marco[pagina[x].marco] /\ pagina'[x] = pagina[x]
  <2>1. pagina[x].marco \in Marcos /\ marco[pagina[x].marco].de = x
    BY <1>4, Presente DEF Firme
  <2>2. ASSUME pagina[x].marco \in Soltados(f) PROVE FALSE
    <3>1. PICK p \in Nros : pagina[<<f, p>>].marco # None /\ pagina[<<f, p>>].marco = pagina[x].marco
      BY <2>2 DEF Soltados, Presentes
    <3>2. PICK z \in Paginas : z = <<f, p>> /\ z[1] = f
      <4>1. <<f, p>> \in Paginas
        BY DEF Paginas
      <4> QED BY <4>1
    <3>3. marco[pagina[z].marco].de = z
      BY <3>1, <3>2, Presente DEF Firme
    <3> QED BY <1>4, <2>1, <3>1, <3>2, <3>3
  <2> QED BY <1>2, <1>4, <2>1, <2>2
<1>5. TablasDeFiles'
  BY <1>2, <1>3 DEF Firme, TablasDeFiles
<1>6. CleanPageIsTrue'
  <2> SUFFICES ASSUME NEW x \in Paginas,
                      pagina'[x].marco # None, ~pagina'[x].modificado, Storage!Writable(x[1])'
               PROVE  marco'[pagina'[x].marco].bytes = files'[x[1]].data[x[2] + 1]
    BY DEF CleanPageIsTrue
  <2>1. x[1] # f /\ pagina'[x] = pagina[x] /\ x[1] \in FileTags
    BY <1>2, BloqueDe DEF Ausente
  <2>2. marco'[pagina'[x].marco] = marco[pagina[x].marco]
    BY <1>4, <2>1
  <2>3. files'[x[1]] = files[x[1]]
    BY <1>3, <2>1
  <2>4. Storage!Writable(x[1])
    BY <2>3 DEF Storage!Writable
  <2> QED BY <2>1, <2>2, <2>3, <2>4 DEF Firme, CleanPageIsTrue
<1>7. ASSUME NEW g \in FileTags, g # f PROVE view'[g] = view[g]
  <2>1. ASSUME files[g] # None, NEW i \in 1 .. Len(files[g].data) PROVE Ve(g, i)' = Ve(g, i)
    <3>1. PICK x \in Paginas : x = <<g, i - 1>> /\ x[1] = g
      BY <1>1, <2>1, PaginaDe
    <3>2. /\ pagina'[x] = pagina[x]
          /\ pagina'[x].marco # None => marco'[pagina'[x].marco] = marco[pagina[x].marco]
      BY <1>2, <1>4, <1>7, <3>1
    <3> QED BY <1>3, <1>7, <3>1, <3>2 DEF Ve
  <2> QED BY <1>1, <1>3, <1>7, <2>1, MismaVista
<1>8. view'[f] = None
  BY <1>1, <1>3, VistaSiguiente
<1>9. view = [g \in FileTags |-> view[g]] /\ view' = [g \in FileTags |-> view'[g]]
  BY TodaVista
<1>10. view' = [view EXCEPT ![f] = None]
  BY <1>7, <1>8, <1>9
<1>11. CASE Storage!Delete(f)
  BY <1>5, <1>6, <1>10, <1>11 DEF Storage!Delete, Promise!Delete, Promise!Storage!Delete
<1>12. CASE files[f] = None /\ UNCHANGED files
  <2>1. view[f] = None
    BY <1>1, <1>12, VistaDe
  <2>2. view' = view
    BY <1>9, <1>10, <2>1
  <2> QED BY <1>5, <1>6, <1>12, <2>2
<1> QED BY <1>11, <1>12

\* COMMIT sends what is modified and freezes what is seen.
LEMMA CommitFirme ==
    ASSUME Firme, Inv', ~fault, NEW f \in FileTags, Commit(f)
    PROVE  /\ TablasDeFiles' /\ CleanPageIsTrue'
           /\ Promise!Commit(f) \/ Promise!Sync
<1>1. /\ pagina' = Limpias({f}) /\ UNCHANGED <<tabla, marco, fault>>
      /\ FilesOK /\ FilesOK' /\ {f} \in SUBSET FileTags
      /\ pagina \in [Paginas -> Nodo]
  BY DEF Commit, Firme, Inv, StateOK, FilesOK
<1>2. /\ Sucias({f}) \subseteq {x \in Paginas : pagina[x].marco # None}
      /\ \A x \in Sucias({f}) : x[1] = f
  BY <1>1, SuciasPresentes DEF Sucias
<1>3. CASE files[f] = None
  <2>1. files' = files
    BY <1>3 DEF Commit
  <2>2. \A x \in Paginas : pagina[x].marco # None => x[1] # f
    BY <1>3, Cabe
  <2>3. Sucias({f}) = {}
    BY <1>2, <2>2
  <2>4. \A g \in FileTags : Guardadas(Sucias({f}))[g] = files[g]
    BY <1>2, <2>3, GuardaOtro DEF Firme
  <2>5. Guardadas(Sucias({f})) = [g \in FileTags |-> Guardadas(Sucias({f}))[g]]
    BY DEF Guardadas
  <2>6. files' = Guardadas(Sucias({f}))
    BY <1>1, <2>1, <2>4, <2>5 DEF FilesOK
  <2> QED BY <1>1, <2>6, FlushFirme
<1>4. CASE files[f] # None
  <2>1. PICK G : G = Guardadas(Sucias({f}))[f]
    OBVIOUS
  <2>2. PICK c \in BOOLEAN : c = TRUE
    OBVIOUS
  <2>3. /\ G.size = files[f].size /\ G.committed = files[f].committed
        /\ G = [files[f] EXCEPT !.data = G.data]
        /\ ~Storage!Writable(f) => G = files[f]
        /\ G \in Storage!File /\ files[f] \in Storage!File
    <3>1. Inv /\ StateOK /\ FramesMatchPages
      BY DEF Firme, Inv
    <3>2. PICK P : P = Sucias({f}) /\ P \subseteq {x \in Paginas : pagina[x].marco # None}
      BY <1>2
    <3>3. G = Guardadas(P)[f] /\ P \subseteq {x \in Paginas : pagina[x].marco # None}
      BY <2>1, <3>2
    <3>4. G \in Storage!File
      BY <1>4, <3>1, <3>3, GuardadasBien
    <3>5. files[f] \in Storage!File
      BY <1>1, <1>4 DEF FilesOK
    <3>6. /\ G.size = files[f].size /\ G.committed = files[f].committed
          /\ G = [files[f] EXCEPT !.data = G.data]
          /\ ~Storage!Writable(f) => G = files[f]
      BY <1>4, <3>1, <3>3, Guarda
    <3> QED BY <3>4, <3>5, <3>6
  <2>4. files' = [Guardadas(Sucias({f})) EXCEPT ![f].committed = c]
    BY <1>4, <2>2 DEF Commit
  <2>5. /\ files'[f] = [G EXCEPT !.committed = c]
        /\ \A g \in FileTags : g # f => files'[g] = Guardadas(Sucias({f}))[g]
    BY <2>1, <2>4 DEF Guardadas
  <2>6. \A g \in FileTags : g # f => files'[g] = files[g]
    <3> TAKE g \in FileTags
    <3> HAVE g # f
    <3>1. \A x \in Sucias({f}) : x[1] # g
      BY <1>2
    <3> QED BY <1>2, <2>5, <3>1, GuardaOtro DEF Firme
  <2>7. /\ files'[f].size = files[f].size /\ files'[f].data = G.data /\ files'[f].committed = c
        /\ files'[f] \in Storage!File
    BY <2>3, <2>5 DEF Storage!File
  <2>8. files'[f] # None
    BY <2>7, StorageAssumption
  <2>9. TablasDeFiles'
    BY <1>1, <2>6, <2>7, <2>8 DEF Firme, TablasDeFiles
  <2>10. CleanPageIsTrue'
    <3> SUFFICES ASSUME NEW x \in Paginas,
                        pagina'[x].marco # None, ~pagina'[x].modificado, Storage!Writable(x[1])'
                 PROVE  marco'[pagina'[x].marco].bytes = files'[x[1]].data[x[2] + 1]
      BY DEF CleanPageIsTrue
    <3>1. x[1] # f /\ x[1] \in FileTags
      BY <2>2, <2>7, BloqueDe DEF Storage!Writable
    <3>2. x \notin Sucias({f})
      BY <1>2, <3>1
    <3>3. pagina'[x] = pagina[x]
      BY <1>1, <3>2 DEF Limpias
    <3>4. files'[x[1]] = files[x[1]]
      BY <2>6, <3>1
    <3>5. Storage!Writable(x[1])
      BY <3>4 DEF Storage!Writable
    <3> QED BY <1>1, <3>3, <3>4, <3>5 DEF Firme, CleanPageIsTrue
  <2>11. /\ Len(files'[f].data) = Len(files[f].data)
         /\ \A i \in 1 .. Len(files[f].data) :
              /\ Ve(f, i)' = Ve(f, i)
              /\ Storage!Writable(f) => files'[f].data[i] = Ve(f, i)
    BY <1>1, <1>4, <2>1, <2>7, <2>8, Vuelca
  <2>12. view' = view
    <3>1. view'[f] = view[f]
      BY <1>1, <1>4, <2>8, <2>11, MismaVista
    <3>2. \A g \in FileTags : g # f => view'[g] = view[g]
      <4> TAKE g \in FileTags
      <4> HAVE g # f
      <4>1. ASSUME files[g] # None, NEW i \in 1 .. Len(files[g].data) PROVE Ve(g, i)' = Ve(g, i)
        <5>1. PICK x \in Paginas : x = <<g, i - 1>> /\ x[1] = g
          BY <1>1, <4>1, PaginaDe
        <5>2. x \notin Sucias({f})
          BY <1>2, <5>1
        <5>3. pagina'[x] = pagina[x]
          BY <1>1, <5>2 DEF Limpias
        <5> QED BY <1>1, <2>6, <5>1, <5>3 DEF Ve
      <4> QED BY <1>1, <2>6, <4>1, MismaVista
    <3>3. view = [g \in FileTags |-> view[g]] /\ view' = [g \in FileTags |-> view'[g]]
      BY TodaVista
    <3> QED BY <3>1, <3>2, <3>3
  <2>13. Storage!Writable(f) => G.data = view[f]
    <3> HAVE Storage!Writable(f)
    <3>1. view[f] = [i \in 1 .. Len(files[f].data) |-> Ve(f, i)]
      BY <1>1, <1>4, VistaDe
    <3>2. files'[f].data = [i \in 1 .. Len(files'[f].data) |-> files'[f].data[i]]
      BY <1>1, <2>8, VistaSiguiente
    <3> QED BY <2>7, <2>11, <3>1, <3>2
  <2>14. files'[f] = [files[f] EXCEPT !.committed = c,
                                      !.data = IF files[f].committed THEN @ ELSE view[f]]
    <3>1. CASE files[f].committed
      <4>1. G = files[f]
        BY <2>3, <3>1 DEF Storage!Writable
      <4> QED BY <2>3, <2>5, <3>1, <4>1 DEF Storage!File
    <3>2. CASE ~files[f].committed
      <4>1. G = [files[f] EXCEPT !.data = view[f]]
        BY <1>4, <2>3, <2>13, <3>2 DEF Storage!Writable
      <4> QED BY <2>3, <2>5, <3>2, <4>1 DEF Storage!File
    <3> QED BY <3>1, <3>2
  <2>15. files' = [files EXCEPT ![f].committed = TRUE,
                                ![f].data = IF files[f].committed THEN @ ELSE view[f]]
    <3>1. files' = [files EXCEPT ![f] = [files[f] EXCEPT !.committed = c,
                                      !.data = IF files[f].committed THEN @ ELSE view[f]]]
      BY <1>1, <2>6, <2>14 DEF FilesOK
    <3> QED BY <1>1, <2>2, <3>1 DEF FilesOK
  <2> QED BY <1>4, <2>9, <2>10, <2>12, <2>15 DEF Promise!Commit
<1> QED BY <1>3, <1>4

\* The end of the worker.
LEMMA TerminaFirme ==
    ASSUME FilesOK', Termina,
           UNCHANGED files \/ \E f \in FileTags, n \in 0..MaxLen : Storage!Truncate(f, n)
    PROVE  TablasDeFiles' /\ CleanPageIsTrue' /\ Promise!Crash
<1>1. /\ tabla' = [f \in FileTags |-> None]
      /\ \A x \in Paginas : pagina'[x].marco = None
      /\ up' = FALSE
  BY DEF Termina, MemoriaVacia, Ausente
<1>2. TablasDeFiles' /\ CleanPageIsTrue'
  BY <1>1 DEF TablasDeFiles, CleanPageIsTrue
<1>3. ASSUME NEW f \in FileTags PROVE view'[f] = Promise!Stored(f)'
  <2>1. CASE files'[f] = None
    BY <2>1, VistaSiguiente DEF Promise!Stored
  <2>2. CASE files'[f] # None
    <3>1. view'[f] = [i \in 1 .. Len(files'[f].data) |-> Ve(f, i)']
      BY <2>2, VistaSiguiente
    <3>2. files'[f].data = [i \in 1 .. Len(files'[f].data) |-> files'[f].data[i]]
      BY <2>2, VistaSiguiente
    <3>3. \A i \in 1 .. Len(files'[f].data) : <<f, i - 1>> \in Paginas
      BY <2>2, VistaSiguiente
    <3>4. \A i \in 1 .. Len(files'[f].data) : Ve(f, i)' = files'[f].data[i]
      BY <1>1, <3>3 DEF Ve
    <3>5. view'[f] = files'[f].data
      BY <3>1, <3>2, <3>4
    <3> QED BY <2>2, <3>5 DEF Promise!Stored
  <2> QED BY <2>1, <2>2
<1>4. view' = [f \in FileTags |-> Promise!Stored(f)']
  <2>1. view' = [f \in FileTags |-> view'[f]]
    BY TodaVista
  <2> QED BY <1>3, <2>1
<1>5. UNCHANGED files \/ \E f \in FileTags, n \in 0..MaxLen : Promise!Storage!Truncate(f, n)
  BY DEF Storage!Truncate, Promise!Storage!Truncate, Storage!Writable, Promise!Storage!Writable
<1> QED BY <1>1, <1>2, <1>4, <1>5 DEF Promise!Crash

-----------------------------------------------------------------------------
(* Every step.                                                             *)

\* What a step owes: until tables and storage drift apart, the tables and the clean pages tell
\* the truth and the step is one of ByteFiles.
Cumple ==
    ~fault' => /\ TablasDeFiles' /\ CleanPageIsTrue'
               /\ UNCHANGED <<files, view, up>> \/ Promise!Next

\* Steps that move nothing a query sees,
LEMMA CumpleQuieto ==
    ASSUME Firme, UNCHANGED <<files, tabla, pagina, marco, fault, up>>
    PROVE  Cumple
<1>1. view' = view
  BY DEF view
<1>2. TablasDeFiles'
  BY DEF Firme, TablasDeFiles
<1>3. CleanPageIsTrue'
  BY DEF Firme, CleanPageIsTrue, Storage!Writable
<1> QED BY <1>1, <1>2, <1>3 DEF Cumple

\* steps of the memory,
LEMMA CumpleMira ==
    ASSUME TablasDeFiles', CleanPageIsTrue', UNCHANGED <<files, up>>,
           \A f \in FileTags : view'[f] = view[f]
    PROVE  Cumple
<1>1. view = [f \in FileTags |-> view[f]] /\ view' = [f \in FileTags |-> view'[f]]
  BY TodaVista
<1>2. view' = view
  BY <1>1
<1> QED BY <1>2 DEF Cumple

\* steps that ask the storage something,
LEMMA CumplePide ==
    ASSUME TablasDeFiles', CleanPageIsTrue', Promise!Step \/ Promise!Sync, UNCHANGED up
    PROVE  Cumple
BY DEF Cumple, Promise!Next

\* and the end of the worker.
LEMMA CumpleTermina ==
    ASSUME Inv', up, Termina,
           UNCHANGED files \/ \E f \in FileTags, n \in 0..MaxLen : Storage!Truncate(f, n)
    PROVE  Cumple
<1>1. FilesOK'
  BY DEF Inv, StateOK, FilesOK
<1>2. TablasDeFiles' /\ CleanPageIsTrue' /\ Promise!Crash
  BY <1>1, TerminaFirme
<1> QED BY <1>2 DEF Cumple, Promise!Next

\* TRUNCATE, in its five ways.
LEMMA CumpleTruncate ==
    ASSUME Firme, Inv', up, NEW f \in FileTags, NEW size \in Nat, Truncate(f, size)
    PROVE  Cumple
<1> DEFINE n == Redondeado(size) \div TamPagina
           real == files'[f].size
<1>1. n \in Nat /\ Inv /\ FilesOK /\ FilesOK'
  BY WorkerAssumption, Partes DEF Redondeado, Firme, Inv, StateOK, FilesOK
<1>2. \/ Storage!Writable(f) /\ n \in 0..MaxLen /\ Storage!Truncate(f, n) /\ real = n /\ files[f] # None
      \/ ~Storage!Writable(f) /\ UNCHANGED files
  <2>1. CASE Storage!Writable(f) /\ n <= MaxLen /\ Storage!Truncate(f, n)
    <3>1. n \in 0..MaxLen
      BY <1>1, <2>1, Constantes
    <3>2. files[f] \in Storage!File /\ files[f] # None
      BY <1>1, <2>1 DEF FilesOK, Storage!Writable
    <3>3. real = n
      BY <1>1, <2>1, <3>2 DEF Storage!Truncate, Storage!File, FilesOK
    <3> QED BY <2>1, <3>1, <3>2, <3>3
  <2>2. CASE ~Storage!Writable(f) /\ UNCHANGED files
    BY <2>2
  <2> QED BY <2>1, <2>2 DEF Truncate
<1> HIDE DEF n
\* What a table of that length means.
<1>3. ASSUME ~fault, ~fault', files[f] # None, Recortado(f, real), UNCHANGED up PROVE Cumple
  <2>1. CASE n \in 0..MaxLen /\ Storage!Truncate(f, n) /\ real = n
    <3>1. TablasDeFiles' /\ CleanPageIsTrue' /\ Promise!Truncate(f, n)
      BY <1>3, <2>1, TruncaFirme
    <3>2. Promise!Step
      BY <2>1, <3>1 DEF Promise!Step
    <3> QED BY <1>3, <3>1, <3>2, CumplePide
  <2>2. CASE UNCHANGED files
    <3>1. real = files[f].size
      BY <2>2
    <3>2. TablasDeFiles' /\ CleanPageIsTrue' /\ \A g \in FileTags : view'[g] = view[g]
      BY <1>3, <2>2, <3>1, RecortaNada
    <3> QED BY <1>3, <2>2, <3>2, CumpleMira
  <2> QED BY <1>2, <2>1, <2>2
<1>4. files[f] # None => real \in 0..MaxLen
  BY <1>1, <1>2, Contenidos DEF FilesOK
<1>5. CASE /\ ~EnTabla(f) /\ Exists(f)
           /\ tabla' = [tabla EXCEPT ![f] = [largo |-> real, cantidad |-> real]]
           /\ UNCHANGED <<pagina, marco, up, fault>>
  <2>1. Recortado(f, real)
    BY <1>1, <1>4, <1>5, RecortaNueva
  <2>2. CASE fault'
    BY <2>2 DEF Cumple
  <2>3. CASE ~fault'
    BY <1>3, <1>5, <2>1, <2>3
  <2> QED BY <2>2, <2>3
<1>6. CASE /\ EnTabla(f)
           /\ fault' = (fault \/ (Exists(f) /\ real # tabla[f].largo))
           /\ UNCHANGED <<tabla, pagina, marco, up>>
  <2>1. CASE fault'
    BY <2>1 DEF Cumple
  <2>2. CASE ~fault'
    <3>1. ~fault /\ files[f] # None
      BY <1>6, <2>2 DEF Firme, TablasDeFiles
    <3>2. real = tabla[f].largo
      BY <1>6, <2>2, <3>1
    <3>3. Recortado(f, real)
      BY <1>1, <1>6, <3>2, RecortaIgual
    <3> QED BY <1>3, <1>6, <2>2, <3>1, <3>3
  <2> QED BY <2>1, <2>2
<1>7. CASE EnTabla(f) /\ Exists(f) /\ Actualizada(f, real) /\ UNCHANGED <<up, fault>>
  <2>1. Recortado(f, real)
    BY <1>1, <1>4, <1>7, Recorta
  <2>2. CASE fault'
    BY <2>2 DEF Cumple
  <2>3. CASE ~fault'
    BY <1>3, <1>7, <2>1, <2>3
  <2> QED BY <2>2, <2>3
<1>8. CASE Termina
  BY <1>2, <1>8, CumpleTermina
<1> QED BY <1>5, <1>6, <1>7, <1>8 DEF Truncate, mem

\* What another worker writes or copies to a File:Tag without a table here is seen as it is stored.
LEMMA OtroFirme ==
    ASSUME Firme, ~fault, Otros, NEW f \in FileTags, NEW g \in FileTags,
           NEW i \in 1..MaxLen, NEW d \in Contenido,
           tabla[f] = None, UNCHANGED <<tabla, pagina, marco>>,
           Storage!Write(f, i, d) \/ Storage!Copy(f, g)
    PROVE  TablasDeFiles' /\ CleanPageIsTrue' /\ Promise!Step
<1>1. FilesOK
  BY DEF Firme, Inv, StateOK, FilesOK
<1>2. /\ FilesOK' /\ \A h \in FileTags \ {f} : files'[h] = files[h]
      /\ files[f] \in Storage!File /\ files'[f] \in Storage!File
      /\ Storage!Write(f, i, d) => files'[f].data = [files[f].data EXCEPT ![i] = d]
      /\ Storage!Copy(f, g) => files'[f].data = files[g].data
  BY <1>1, OtroEscribe
<1>3. files[f] # None /\ files'[f] # None
  BY <1>2, StorageAssumption
<1>4. /\ TablasDeFiles' /\ CleanPageIsTrue'
      /\ view[f] = files[f].data
      /\ view' = [view EXCEPT ![f] = files'[f].data]
  BY <1>2, <1>3, SinMemoria
<1>5. CASE Storage!Write(f, i, d)
  <2>1. view' = [view EXCEPT ![f][i] = d]
    BY <1>2, <1>4, <1>5
  <2>2. Promise!WriteElsewhere(f, i, d)
    BY <1>5, <2>1
       DEF Promise!WriteElsewhere, Storage!Write, Promise!Storage!Write, Storage!Writable,
           Promise!Storage!Writable
  <2> QED BY <1>4, <2>2 DEF Promise!Step
<1>6. CASE Storage!Copy(f, g)
  <2>1. view' = [view EXCEPT ![f] = files[g].data]
    BY <1>2, <1>4, <1>6
  <2>2. Promise!CopyElsewhere(f, g)
    BY <1>6, <2>1 DEF Promise!CopyElsewhere, Storage!Copy, Promise!Storage!Copy
  <2> QED BY <1>4, <2>2 DEF Promise!Step
<1> QED BY <1>5, <1>6

\* Another worker.
LEMMA CumpleOtro ==
    ASSUME Firme, Inv', OtroWorker
    PROVE  Cumple
<1> SUFFICES ASSUME ~fault' PROVE Cumple
  BY DEF Cumple
<1>1. /\ ~fault /\ UNCHANGED <<tabla, pagina, marco, up>> /\ FilesOK /\ FilesOK'
      /\ \A f \in FileTags : tabla[f] # None => files'[f] = files[f]
  BY DEF OtroWorker, mem, Firme, Inv, StateOK, FilesOK
<1>2. PICK f \in FileTags, g \in FileTags, n \in 0..MaxLen, i \in 1..MaxLen, d \in Contenido :
        \/ Storage!Create(f) \/ Storage!Delete(f) \/ Storage!Commit(f) \/ Storage!Truncate(f, n)
        \/ Storage!Write(f, i, d) \/ Storage!Copy(f, g)
  <2>1. 0 \in 0..MaxLen /\ 1 \in 1..MaxLen /\ EnCero \in Contenido
    BY Constantes, WorkerAssumption
  <2> QED BY <2>1 DEF OtroWorker
<1>3. CASE tabla[f] # None
  <2>1. \A h \in FileTags : files'[h] = files[h]
    BY <1>1, <1>2, <1>3
       DEF Storage!Create, Storage!Delete, Storage!Commit, Storage!Truncate, Storage!Write,
           Storage!Copy, FilesOK
  <2>2. files' = files
    BY <1>1, <2>1 DEF FilesOK
  <2>3. fault' = fault
    BY <1>1 DEF Firme, Inv, StateOK
  <2> QED BY <1>1, <2>2, <2>3, CumpleQuieto
<1>4. CASE tabla[f] = None /\ (Storage!Write(f, i, d) \/ Storage!Copy(f, g))
  <2>1. TablasDeFiles' /\ CleanPageIsTrue' /\ Promise!Step
    BY <1>1, <1>4, OtroFirme DEF OtroWorker
  <2> QED BY <1>1, <2>1, CumplePide
<1>5. CASE tabla[f] = None /\ ~(Storage!Write(f, i, d) \/ Storage!Copy(f, g))
  <2>1. TablasDeFiles' /\ CleanPageIsTrue' /\ Promise!Step
    BY <1>1, <1>2, <1>5, PideFirme
  <2> QED BY <1>1, <2>1, CumplePide
<1> QED BY <1>3, <1>4, <1>5

\* What is seen of a File:Tag is pages.
LEMMA VistaVale ==
    ASSUME Inv, NEW f \in FileTags, files[f] # None
    PROVE  view[f] \in Storage!Contents /\ view[f] # None
<1>1. /\ Len(files[f].data) \in 0..MaxLen
      /\ \A i \in 1 .. Len(files[f].data) : files[f].data[i] \in Contenido /\ <<f, i - 1>> \in Paginas
      /\ view[f] = [i \in 1 .. Len(files[f].data) |-> Ve(f, i)]
  BY PaginaDe, VistaDe DEF Inv, StateOK, FilesOK
<1>2. ASSUME NEW i \in 1 .. Len(files[f].data) PROVE Ve(f, i) \in Contenido
  <2>1. PICK x \in Paginas : x = <<f, i - 1>>
    BY <1>1
  <2>2. CASE pagina[x].marco = None
    BY <1>1, <2>1, <2>2 DEF Ve
  <2>3. CASE pagina[x].marco # None
    <3>1. marco[pagina[x].marco].bytes \in Contenido
      BY <2>3, Presente
    <3> QED BY <2>1, <2>3, <3>1 DEF Ve
  <2> QED BY <2>2, <2>3
<1>3. view[f] \in [1 .. Len(files[f].data) -> Contenido]
  BY <1>1, <1>2
<1>4. view[f] \in Storage!Contents
  BY <1>1, <1>3 DEF Storage!Contents
<1> QED BY <1>4, StorageAssumption

\* The next instruction of the script.
LEMMA CumpleFetch ==
    ASSUME Firme, Inv', Fetch
    PROVE  Cumple
<1>1. up /\ Inv /\ FilesOK /\ FilesOK' /\ 0 \in 0..MaxLen
  BY Constantes DEF Fetch, Firme, Inv, StateOK, FilesOK
<1>2. ASSUME NEW f \in FileTags, NEW g \in FileTags, UNCHANGED <<tabla, pagina, marco, fault, up>>,
             files[f] = None, Storage!Create(f) \/ Storage!Tag(g, f)
      PROVE  Cumple
  <2> SUFFICES ASSUME ~fault' PROVE Cumple
    BY DEF Cumple
  <2>1. ~fault /\ tabla[f] = None
    BY <1>2 DEF Firme, TablasDeFiles
  <2>2. TablasDeFiles' /\ CleanPageIsTrue' /\ Promise!Step
    BY <1>1, <1>2, <2>1, PideFirme
  <2> QED BY <1>2, <2>2, CumplePide
<1>3. ASSUME NEW f \in FileTags, Create(f) PROVE Cumple
  BY <1>2, <1>3, CumpleQuieto DEF Create, Simple, mem
<1>4. ASSUME NEW f \in FileTags, NEW g \in FileTags, Tag(f, g) PROVE Cumple
  <2>1. CASE Exists(g) /\ UNCHANGED files
    BY <1>4, <2>1, CumpleQuieto DEF Tag, Simple, mem
  <2>2. CASE files[g] = None /\ (Storage!Create(g) \/ Storage!Tag(f, g))
    BY <1>2, <1>4, <2>2 DEF Tag, Simple, mem
  <2> QED BY <1>4, <2>1, <2>2 DEF Tag, Storage!Tag
<1>5. ASSUME NEW f \in FileTags, Flush(f) PROVE Cumple
  <2> SUFFICES ASSUME ~fault' PROVE Cumple
    BY DEF Cumple
  <2>1. /\ files' = Guardadas(Sucias({f})) /\ pagina' = Limpias({f})
        /\ UNCHANGED <<tabla, marco, up>> /\ ~fault /\ {f} \in SUBSET FileTags
    BY <1>5 DEF Flush
  <2>2. TablasDeFiles' /\ CleanPageIsTrue' /\ Promise!Sync
    BY <2>1, FlushFirme
  <2> QED BY <2>1, <2>2, CumplePide
<1>6. ASSUME NEW f \in FileTags, Commit(f) PROVE Cumple
  <2> SUFFICES ASSUME ~fault' PROVE Cumple
    BY DEF Cumple
  <2>1. ~fault /\ UNCHANGED up
    BY <1>6 DEF Commit
  <2>2. TablasDeFiles' /\ CleanPageIsTrue' /\ (Promise!Commit(f) \/ Promise!Sync)
    BY <1>6, <2>1, CommitFirme
  <2>3. Promise!Step \/ Promise!Sync
    BY <2>2 DEF Promise!Step
  <2> QED BY <2>1, <2>2, <2>3, CumplePide
<1>7. ASSUME NEW f \in FileTags, Delete(f) PROVE Cumple
  <2>1. CASE Termina /\ UNCHANGED files
    BY <1>1, <2>1, CumpleTermina
  <2>2. CASE f # Base
    <3> SUFFICES ASSUME ~fault' PROVE Cumple
      BY DEF Cumple
    <3>1. /\ Olvida(f) /\ fault' = fault /\ ~fault /\ UNCHANGED up
          /\ (files[f] # None /\ Storage!Delete(f)) \/ (files[f] = None /\ UNCHANGED files)
      BY <1>7, <2>2 DEF Delete, Resultado
    <3>2. /\ TablasDeFiles' /\ CleanPageIsTrue'
          /\ Promise!Delete(f) \/ UNCHANGED <<files, view>>
      BY <3>1, DeleteFirme
    <3>3. Promise!Step \/ UNCHANGED <<files, view>>
      BY <3>2 DEF Promise!Step
    <3> QED BY <3>1, <3>2, <3>3, CumplePide DEF Cumple
  <2> QED BY <1>7, <2>1, <2>2 DEF Delete
<1>8. ASSUME NEW f \in FileTags, NEW size \in Sizes, Truncate(f, size) PROVE Cumple
  BY <1>1, <1>8, WorkerAssumption, CumpleTruncate
<1>9. ASSUME NEW f \in FileTags, NEW dir \in Direcciones, NEW dato \in Datos,
             Write(f, dir, dato) \/ Read(f, dir, Len(dato))
      PROVE  Cumple
  BY <1>9, CumpleQuieto DEF Write, Read, PideAcceso, mem
<1>10. CASE fase' = "espera" /\ UNCHANGED <<files, mem, algoritmo, ins, error, up, fault>>
  BY <1>10, CumpleQuieto DEF mem
<1> QED BY <1>3, <1>4, <1>5, <1>6, <1>7, <1>8, <1>9, <1>10 DEF Fetch

\* A READ or WRITE.
LEMMA CumpleAcceso ==
    ASSUME Firme, Inv', Acceso
    PROVE  Cumple
<1>1. CASE AgregaTabla \/ AmpliaTabla \/ FueraDeLimite
  <2> SUFFICES ASSUME ~fault' PROVE Cumple
    BY DEF Cumple
  <2>1. ~fault /\ UNCHANGED <<files, up>>
    BY <1>1 DEF AgregaTabla, AmpliaTabla, FueraDeLimite, Resultado
  <2>2. TablasDeFiles' /\ CleanPageIsTrue' /\ \A f \in FileTags : view'[f] = view[f]
    BY <1>1, <2>1, TablaFirme
  <2> QED BY <2>1, <2>2, CumpleMira
<1>2. CASE AccesoFatal
  BY <1>2, CumpleTermina DEF AccesoFatal, EnPagina
<1>3. CASE CargaEnLibre
  <2> SUFFICES ASSUME ~fault' PROVE Cumple
    BY DEF Cumple
  <2>1. ~fault /\ UNCHANGED <<files, up>>
    BY <1>3 DEF CargaEnLibre
  <2>2. TablasDeFiles' /\ CleanPageIsTrue' /\ \A f \in FileTags : view'[f] = view[f]
    BY <1>3, <2>1, LibreFirme
  <2> QED BY <2>1, <2>2, CumpleMira
<1>4. CASE CargaEnVictima
  <2> SUFFICES ASSUME ~fault' PROVE Cumple
    BY DEF Cumple
  <2>1. ~fault /\ UNCHANGED up
    BY <1>4 DEF CargaEnVictima
  <2>2. /\ TablasDeFiles' /\ CleanPageIsTrue'
        /\ Promise!Sync \/ \E f \in FileTags, i \in 1..MaxLen : Promise!Discard(f, i)
    BY <1>4, <2>1, VictimaFirme
  <2>3. Promise!Sync \/ Promise!Step
    BY <2>2 DEF Promise!Step
  <2> QED BY <2>1, <2>2, <2>3, CumplePide
<1>5. CASE EscribePagina
  <2> SUFFICES ASSUME ~fault' PROVE Cumple
    BY DEF Cumple
  <2>1. ~fault /\ UNCHANGED <<files, up>> /\ up
    BY <1>5 DEF EscribePagina, EnMemoria, EnLargo, EnPagina
  <2>2. /\ TablasDeFiles' /\ CleanPageIsTrue'
        /\ ins.ft \in FileTags /\ files[ins.ft] # None
        /\ ins.pag + 1 \in 1 .. Len(files[ins.ft].data)
        /\ Escritos \in Contenido
        /\ \A f \in FileTags : f # ins.ft => view'[f] = view[f]
        /\ view'[ins.ft] = [view[ins.ft] EXCEPT ![ins.pag + 1] = Escritos]
    BY <1>5, <2>1, EscribeFirme
  <2>3. PICK f \in FileTags, i \in 1 .. Len(files[ins.ft].data), d \in Contenido :
            f = ins.ft /\ i = ins.pag + 1 /\ d = Escritos
    BY <2>2
  <2>4. FilesOK /\ i \in 1 .. Len(files[f].data) /\ files[f] # None
    BY <2>2, <2>3 DEF Firme, Inv, StateOK, FilesOK
  <2>5. /\ i \in DOMAIN view[f] /\ i \in 1..MaxLen /\ view[f] # None
    <3>1. DOMAIN view[f] = 1 .. Len(files[f].data)
      BY <2>4, VistaDe
    <3>2. Len(files[f].data) \in 0..MaxLen
      BY <2>4, PaginaDe
    <3>3. view[f] # None
      BY <2>4, VistaVale DEF Firme
    <3> QED BY <2>4, <3>1, <3>2, <3>3, Constantes
  <2>6. view' = [view EXCEPT ![f][i] = d]
    <3>1. view = [g \in FileTags |-> view[g]] /\ view' = [g \in FileTags |-> view'[g]]
      BY TodaVista
    <3>2. view'[f] = [view[f] EXCEPT ![i] = d] /\ \A g \in FileTags : g # f => view'[g] = view[g]
      BY <2>2, <2>3
    <3> QED BY <3>1, <3>2
  <2>7. Promise!Write(f, i, d)
    BY <2>1, <2>5, <2>6 DEF Promise!Write
  <2>8. Promise!Step
    BY <2>5, <2>7 DEF Promise!Step
  <2> QED BY <2>1, <2>2, <2>8, CumplePide
<1>6. CASE LeePagina
  <2> SUFFICES ASSUME ~fault' PROVE Cumple
    BY DEF Cumple
  <2>1. ~fault /\ UNCHANGED <<files, up>>
    BY <1>6 DEF LeePagina
  <2>2. TablasDeFiles' /\ CleanPageIsTrue' /\ \A f \in FileTags : view'[f] = view[f]
    BY <1>6, <2>1, LeeFirme
  <2> QED BY <2>1, <2>2, CumpleMira
<1> QED BY <1>1, <1>2, <1>3, <1>4, <1>5, <1>6 DEF Acceso

\* A query arrives, goes on or leaves, and the worker is started again.
LEMMA CumpleCiclo ==
    ASSUME Firme, Inv', RecibeQuery \/ Continua \/ Desaloja \/ Arranca
    PROVE  Cumple
<1>1. CASE RecibeQuery
  <2>1. CASE Termina
    BY <1>1, <2>1, CumpleTermina DEF RecibeQuery
  <2>2. CASE fase' = "fetch" /\ UNCHANGED <<mem, algoritmo, ins, error, up, fault>>
    <3>1. UNCHANGED files
      BY <1>1 DEF RecibeQuery
    <3> QED BY <2>2, <3>1, CumpleQuieto DEF mem
  <2> QED BY <1>1, <2>1, <2>2, Zenon DEF RecibeQuery
<1>2. CASE Continua
  BY <1>2, CumpleQuieto DEF Continua, mem
<1>3. CASE Desaloja
  <2> SUFFICES ASSUME ~fault' PROVE Cumple
    BY DEF Cumple
  <2>1. /\ files' = Guardadas(Sucias(FileTags)) /\ pagina' = Limpias(FileTags)
        /\ UNCHANGED <<tabla, marco, up>> /\ ~fault /\ FileTags \in SUBSET FileTags
    BY <1>3 DEF Desaloja
  <2>2. TablasDeFiles' /\ CleanPageIsTrue' /\ Promise!Sync
    BY <2>1, FlushFirme
  <2> QED BY <2>1, <2>2, CumplePide
<1>4. CASE Arranca
  <2>1. UNCHANGED <<files, tabla, pagina, marco, fault>> /\ ~up /\ up' = TRUE
    BY <1>4 DEF Arranca, mem
  <2>2. view' = view
    BY <2>1 DEF view
  <2>3. TablasDeFiles' /\ CleanPageIsTrue'
    BY <2>1 DEF Firme, TablasDeFiles, CleanPageIsTrue, Storage!Writable
  <2>4. Promise!Restart
    BY <2>1, <2>2 DEF Promise!Restart
  <2>5. Promise!Next
    BY <2>4 DEF Promise!Next
  <2> QED BY <2>3, <2>5 DEF Cumple
<1> QED BY <1>1, <1>2, <1>3, <1>4

\* So every step keeps its word,
LEMMA TodoCumple ==
    ASSUME Firme, Inv', Next
    PROVE  Cumple
BY CumpleFetch, CumpleOtro, CumpleCiclo, CumpleAcceso DEF Next

\* the blocks of a File:Tag are as many as its size tells,
LEMMA TamanosPaso ==
    ASSUME Inv, Tamanos, Next
    PROVE  Tamanos'
<1>1. FilesOK /\ 0 \in 0..MaxLen
  BY Constantes DEF Inv, StateOK, FilesOK
<1>2. ASSUME UNCHANGED files PROVE Tamanos'
  BY <1>2 DEF Tamanos
<1>3. ASSUME NEW P, P \subseteq {x \in Paginas : pagina[x].marco # None}, files' = Guardadas(P)
      PROVE  Tamanos'
  <2>1. \A f \in FileTags : files[f] = None => files'[f] = None
    BY <1>3, GuardaNada
  <2> QED BY <1>3, <2>1, TamanosGuarda
<1>4. ASSUME NEW fs \in SUBSET FileTags, files' = Guardadas(Sucias(fs)) PROVE Tamanos'
  BY <1>3, <1>4, SuciasPresentes
<1>5. ASSUME NEW f \in FileTags, Commit(f) PROVE Tamanos'
  <2>1. CASE files[f] = None
    BY <1>2, <1>5, <2>1 DEF Commit
  <2>2. CASE files[f] # None
    <3>1. PICK P : P = Sucias({f}) /\ P \subseteq {x \in Paginas : pagina[x].marco # None}
      BY SuciasPresentes
    <3>2. PICK c \in BOOLEAN : c = TRUE
      OBVIOUS
    <3>3. files' = [Guardadas(P) EXCEPT ![f].committed = c]
      BY <1>5, <2>2, <3>1, <3>2 DEF Commit
    <3>4. \A g \in FileTags : files[g] = None => files'[g] = None
      BY <2>2, <3>3 DEF Guardadas
    <3>5. PICK G : G = Guardadas(P)
      OBVIOUS
    <3>6. G \in [FileTags -> Storage!File \cup {None}] /\ G[f] \in Storage!File
      BY <2>2, <3>1, <3>5, GuardadasBien DEF Inv
    <3>7. \A g \in FileTags : g # f => files'[g] = G[g]
      BY <3>3, <3>5, <3>6
    <3>8. files'[f] = [G[f] EXCEPT !.committed = c]
      BY <3>3, <3>5, <3>6
    <3>9. files'[f].size = G[f].size /\ files'[f].data = G[f].data
      BY <3>6, <3>8 DEF Storage!File
    <3>10. \A g \in FileTags : files'[g].size = G[g].size /\ files'[g].data = G[g].data
      BY <3>7, <3>9
    <3> QED BY <3>1, <3>4, <3>5, <3>10, TamanosGuarda
  <2> QED BY <2>1, <2>2
<1>6. ASSUME NEW f \in FileTags, NEW g \in FileTags, NEW n \in 0..MaxLen,
             \/ Storage!Create(f) \/ Storage!Delete(f) \/ Storage!Commit(f)
             \/ Storage!Truncate(f, n) \/ Storage!Tag(f, g)
      PROVE  Tamanos'
  BY <1>1, <1>6, TamanosPide
<1>7. CASE Fetch
  <2>1. ASSUME NEW f \in FileTags, Create(f) PROVE Tamanos'
    BY <1>1, <1>2, <1>6, <2>1 DEF Create
  <2>2. ASSUME NEW f \in FileTags, NEW g \in FileTags, Tag(f, g) PROVE Tamanos'
    BY <1>1, <1>2, <1>6, <2>2 DEF Tag
  <2>3. ASSUME NEW f \in FileTags, Flush(f) PROVE Tamanos'
    <3>1. files' = Guardadas(Sucias({f})) /\ {f} \in SUBSET FileTags
      BY <2>3 DEF Flush
    <3> QED BY <1>4, <3>1
  <2>4. ASSUME NEW f \in FileTags, Delete(f) PROVE Tamanos'
    BY <1>1, <1>2, <1>6, <2>4 DEF Delete
  <2>5. ASSUME NEW f \in FileTags, NEW size \in Sizes, Truncate(f, size) PROVE Tamanos'
    <3> DEFINE n == Redondeado(size) \div TamPagina
    <3>1. n \in Nat
      BY WorkerAssumption DEF Redondeado
    <3>2. UNCHANGED files \/ (n <= MaxLen /\ Storage!Truncate(f, n))
      BY <2>5 DEF Truncate
    <3> HIDE DEF n
    <3>3. n <= MaxLen => n \in 0..MaxLen
      BY <3>1, Constantes
    <3> QED BY <1>2, <1>6, <3>2, <3>3
  <2>6. ASSUME NEW f \in FileTags, NEW dir \in Direcciones, NEW dato \in Datos,
               Write(f, dir, dato) \/ Read(f, dir, Len(dato))
        PROVE  Tamanos'
    BY <1>2, <2>6 DEF Write, Read, PideAcceso
  <2> QED BY <1>2, <1>5, <1>7, <2>1, <2>2, <2>3, <2>4, <2>5, <2>6 DEF Fetch
<1>8. CASE OtroWorker
  <2>1. PICK f \in FileTags, g \in FileTags, n \in 0..MaxLen, i \in 1..MaxLen, d \in Contenido :
          \/ Storage!Create(f) \/ Storage!Delete(f) \/ Storage!Commit(f) \/ Storage!Truncate(f, n)
          \/ Storage!Write(f, i, d) \/ Storage!Copy(f, g)
    <3>1. 1 \in 1..MaxLen /\ EnCero \in Contenido
      BY Constantes, WorkerAssumption
    <3> QED BY <1>1, <1>8, <3>1 DEF OtroWorker
  <2> QED BY <1>1, <1>6, <2>1, TamanosOtro
<1>9. CASE Desaloja
  <2>1. files' = Guardadas(Sucias(FileTags)) /\ FileTags \in SUBSET FileTags
    BY <1>9 DEF Desaloja
  <2> QED BY <1>4, <2>1
<1>10. CASE CargaEnVictima
  <2>1. PICK P : files' = Guardadas(P) /\ P \subseteq Sucias(FileTags)
    BY <1>10 DEF CargaEnVictima
  <2> QED BY <1>3, <2>1, SuciasPresentes
<1>11. CASE Acceso
  <2>1. CASE AgregaTabla
    BY <1>2, <2>1 DEF AgregaTabla
  <2>2. CASE AmpliaTabla
    BY <1>2, <2>2 DEF AmpliaTabla
  <2>3. CASE FueraDeLimite
    BY <1>2, <2>3 DEF FueraDeLimite
  <2>4. CASE AccesoFatal
    BY <1>2, <2>4 DEF AccesoFatal
  <2>5. CASE CargaEnLibre
    BY <1>2, <2>5 DEF CargaEnLibre
  <2>6. CASE EscribePagina
    BY <1>2, <2>6 DEF EscribePagina
  <2>7. CASE LeePagina
    BY <1>2, <2>7 DEF LeePagina
  <2> QED BY <1>10, <1>11, <2>1, <2>2, <2>3, <2>4, <2>5, <2>6, <2>7 DEF Acceso
<1>12. CASE RecibeQuery \/ Continua \/ Arranca
  BY <1>2, <1>12 DEF RecibeQuery, Continua, Arranca
<1> QED BY <1>7, <1>8, <1>9, <1>11, <1>12 DEF Next

\* and the invariant goes on.
LEMMA FirmePaso == Firme /\ [Next]_vars => Firme'
<1> SUFFICES ASSUME Firme, [Next]_vars PROVE Firme'
  OBVIOUS
<1>1. Inv'
  BY InvPaso DEF Firme
<1>2. CASE UNCHANGED vars
  <2>1. TablasDeFiles' /\ CleanPageIsTrue' /\ Tamanos'
    BY <1>2 DEF vars, Firme, Tamanos, TablasDeFiles, CleanPageIsTrue, Storage!Writable
  <2> QED BY <1>1, <2>1 DEF Firme
<1>3. CASE Next
  <2>1. Cumple
    BY <1>1, <1>3, TodoCumple
  <2>2. Tamanos'
    BY <1>3, TamanosPaso DEF Firme
  <2>3. TablasDeFiles' /\ CleanPageIsTrue'
    <3>1. CASE fault'
      BY <3>1 DEF TablasDeFiles, CleanPageIsTrue
    <3>2. CASE ~fault'
      BY <2>1, <3>2 DEF Cumple
    <3> QED BY <3>1, <3>2
  <2> QED BY <1>1, <2>2, <2>3 DEF Firme
<1> QED BY <1>2, <1>3

\* It holds at the start,
LEMMA FirmeInicial == Init => Firme
<1> SUFFICES ASSUME Init PROVE Firme
  OBVIOUS
<1>1. Inv
  BY InvInicial
<1>2. Tamanos
  BY StorageAssumption DEF Init, Tamanos
<1>3. TablasDeFiles /\ CleanPageIsTrue
  BY DEF Init, TablasDeFiles, CleanPageIsTrue, Ausente
<1> QED BY <1>1, <1>2, <1>3 DEF Firme

\* when a query sees what is stored.
LEMMA PromesaInicial == Init => Promise!Init
<1> SUFFICES ASSUME Init PROVE Promise!Init
  OBVIOUS
<1>1. FilesOK /\ Inv
  BY InvInicial DEF Inv, StateOK, FilesOK
<1>2. \A x \in Paginas : pagina[x].marco = None
  BY DEF Init, Ausente
<1>3. ASSUME NEW f \in FileTags PROVE view[f] = Promise!Stored(f)
  <2>1. CASE files[f] = None
    BY <1>1, <2>1, VistaDe DEF Promise!Stored
  <2>2. CASE files[f] # None
    <3>1. view[f] = [i \in 1 .. Len(files[f].data) |-> Ve(f, i)]
      BY <1>1, <2>2, VistaDe
    <3>2. /\ files[f].data = [i \in 1 .. Len(files[f].data) |-> files[f].data[i]]
          /\ \A i \in 1 .. Len(files[f].data) : <<f, i - 1>> \in Paginas
      BY <1>1, <2>2, PaginaDe
    <3>3. \A i \in 1 .. Len(files[f].data) : Ve(f, i) = files[f].data[i]
      BY <1>2, <3>2 DEF Ve
    <3>4. view[f] = files[f].data
      BY <3>1, <3>2, <3>3
    <3> QED BY <2>2, <3>4 DEF Promise!Stored
  <2> QED BY <2>1, <2>2
<1>4. view = [f \in FileTags |-> Promise!Stored(f)]
  <2>1. view = [f \in FileTags |-> view[f]]
    BY TodaVista
  <2> QED BY <1>3, <2>1
<1>5. \A f : Promise!Storage!Contents = Storage!Contents /\ Promise!Storage!File = Storage!File
  BY DEF Promise!Storage!Contents, Storage!Contents, Promise!Storage!File, Storage!File
<1>6. files \in [FileTags -> Promise!Storage!File \cup {None}] /\ up = TRUE
  BY <1>1, <1>5 DEF Init, FilesOK
<1> QED BY <1>4, <1>6 DEF Promise!Init

\* Whatever is loaded, replaced, flushed, truncated, copied or asked for by other workers, the
\* invariant holds.
THEOREM WorkerKeeps == Spec => []Firme
<1> QED BY FirmeInicial, FirmePaso, PTL DEF Spec

\* No flush, replacement or TRUNCATE leaves a page that is not marked as modified with other bytes
\* than the storage has for it, so that a change to a File:Tag that can be written is never lost.
THEOREM WorkerClean == Spec => []CleanPageIsTrue
<1>1. Firme => CleanPageIsTrue
  BY DEF Firme
<1> QED BY <1>1, WorkerKeeps, PTL

\* A worker that leaves its query has stored all that the query sees of the File:Tags that can be
\* written: the query can go on in another worker.
THEOREM WorkerLeaves == Spec => LeavingSavesAll
<1> DEFINE Deja == fase = "consulta" /\ fase' = "espera" /\ up' /\ ~fault =>
                      \A f \in FileTags : Storage!Writable(f) => files'[f].data = view[f]
<1>1. Firme /\ Firme' /\ [Next]_vars => [Deja]_vars
  <2> SUFFICES ASSUME Firme, Firme', Next, fase = "consulta", fase' = "espera", up', ~fault
               PROVE  \A f \in FileTags : Storage!Writable(f) => files'[f].data = view[f]
    OBVIOUS
  <2>1. Desaloja
    BY DEF Next, Fetch, RecibeQuery, Acceso, Continua, Arranca, OtroWorker, ciclo, EnPagina,
           AgregaTabla, AmpliaTabla, FueraDeLimite, AccesoFatal, CargaEnLibre, CargaEnVictima,
           EscribePagina, LeePagina, Falta, EnLargo, EnMemoria
  <2>2. /\ files' = Guardadas(Sucias(FileTags)) /\ pagina' = Limpias(FileTags)
        /\ UNCHANGED <<tabla, marco>> /\ FileTags \in SUBSET FileTags /\ Inv'
    BY <2>1 DEF Desaloja, Firme
  <2> QED BY <2>2, FlushFirme
<1> QED BY <1>1, WorkerKeeps, PTL DEF Spec, LeavingSavesAll

\* Until a table and its File:Tag drift apart every step of the worker is a step of ByteFiles, or
\* one that a query cannot tell.
THEOREM WorkerImplementsByteFiles == Spec => ImplementsByteFiles
<1>1. Firme /\ Firme' /\ [Next]_vars
        => [~fault' => UNCHANGED <<files, view, up>> \/ Promise!Next]_vars
  BY TodoCumple DEF Firme, Cumple
<1> QED BY <1>1, PromesaInicial, WorkerKeeps, PTL DEF Spec, ImplementsByteFiles


-----------------------------------------------------------------------------
(* The order of the last uses.                                             *)

\* The frame that is used goes to the end, and those behind it move up.
LEMMA UsaOrden ==
    ASSUME OrdenOK, NEW m \in Marcos, Usa(m)
    PROVE  OrdenOK'
<1>1. CantidadMarcos \in Nat /\ Len(orden) = CantidadMarcos /\ DOMAIN orden = 1 .. CantidadMarcos
  BY WorkerAssumption DEF OrdenOK
<1>2. CASE algoritmo # "LRU"
  BY <1>2 DEF Usa, OrdenOK
<1>3. CASE algoritmo = "LRU"
  <2>1. PICK k \in 1 .. CantidadMarcos :
          /\ orden[k] = m
          /\ orden' = [i \in 1 .. CantidadMarcos |->
                IF i < k THEN orden[i] ELSE IF i < CantidadMarcos THEN orden[i + 1] ELSE m]
    BY <1>1, <1>3 DEF Usa
  <2>2. orden' \in [1 .. CantidadMarcos -> Marcos]
    <3>1. \A i \in 1 .. CantidadMarcos : i < CantidadMarcos => i + 1 \in 1 .. CantidadMarcos
      BY <1>1
    <3> QED BY <2>1, <3>1 DEF OrdenOK
  <2>3. ASSUME NEW n \in Marcos PROVE \E i \in 1 .. CantidadMarcos : orden'[i] = n
    <3>1. CASE n = m
      <4>1. CantidadMarcos \in 1 .. CantidadMarcos /\ ~(CantidadMarcos < k)
        BY <1>1, <2>1
      <4>2. orden'[CantidadMarcos] = m
        BY <1>1, <2>1, <4>1
      <4> QED BY <3>1, <4>1, <4>2
    <3>2. CASE n # m
      <4>1. PICK j \in 1 .. CantidadMarcos : orden[j] = n
        BY <1>1 DEF OrdenOK
      <4>2. CASE j < k
        BY <2>1, <4>1, <4>2
      <4>3. CASE j > k
        <5>1. j - 1 \in 1 .. CantidadMarcos /\ ~(j - 1 < k) /\ j - 1 < CantidadMarcos /\ (j - 1) + 1 = j
          BY <1>1, <2>1, <4>1, <4>3
        <5>2. orden'[j - 1] = n
          BY <2>1, <4>1, <5>1
        <5> QED BY <5>1, <5>2
      <4>4. j # k
        BY <2>1, <3>2, <4>1
      <4> QED BY <1>1, <4>2, <4>3, <4>4
    <3> QED BY <3>1, <3>2
  <2> QED BY <2>2, <2>3 DEF OrdenOK
<1> QED BY <1>2, <1>3

\* At first it is the order of the frames.
LEMMA OrdenInicial ==
    /\ orden = [i \in 1 .. CantidadMarcos |-> i - 1] => OrdenOK
    /\ orden' = [i \in 1 .. CantidadMarcos |-> i - 1] => OrdenOK'
<1>1. \A i \in 1 .. CantidadMarcos : i - 1 \in Marcos
  BY WorkerAssumption DEF Marcos
<1>2. \A m \in Marcos : m + 1 \in 1 .. CantidadMarcos /\ (m + 1) - 1 = m
  BY WorkerAssumption DEF Marcos
<1>3. ASSUME NEW o, o = [i \in 1 .. CantidadMarcos |-> i - 1]
      PROVE  /\ o \in [1 .. CantidadMarcos -> Marcos]
             /\ \A m \in Marcos : \E k \in DOMAIN o : o[k] = m
  BY <1>1, <1>2, <1>3
<1> QED BY <1>3 DEF OrdenOK

\* Every step keeps it an order of all the frames.
LEMMA OrdenPaso ==
    ASSUME Inv, OrdenOK, [Next]_vars
    PROVE  OrdenOK'
<1>1. ASSUME UNCHANGED orden PROVE OrdenOK'
  BY <1>1 DEF OrdenOK
<1>2. ASSUME Termina PROVE OrdenOK'
  BY <1>2, OrdenInicial DEF Termina, MemoriaVacia
<1>3. CASE UNCHANGED vars
  BY <1>1, <1>3 DEF vars
<1>4. CASE Fetch
  <2>1. ASSUME NEW f \in FileTags, Create(f) \/ Flush(f) \/ Commit(f) PROVE OrdenOK'
    BY <1>1, <2>1 DEF Create, Flush, Commit, Simple, mem
  <2>2. ASSUME NEW f \in FileTags, NEW g \in FileTags, Tag(f, g) PROVE OrdenOK'
    BY <1>1, <2>2 DEF Tag, Simple, mem
  <2>3. ASSUME NEW f \in FileTags, Delete(f) PROVE OrdenOK'
    BY <1>1, <1>2, <2>3 DEF Delete
  <2>4. ASSUME NEW f \in FileTags, NEW size \in Sizes, Truncate(f, size) PROVE OrdenOK'
    BY <1>1, <1>2, <2>4 DEF Truncate, mem
  <2>5. ASSUME NEW f \in FileTags, NEW dir \in Direcciones, NEW dato \in Datos,
               Write(f, dir, dato) \/ Read(f, dir, Len(dato))
        PROVE  OrdenOK'
    BY <1>1, <2>5 DEF Write, Read, PideAcceso, mem
  <2>6. CASE fase' = "espera" /\ UNCHANGED <<files, mem, algoritmo, ins, error, up, fault>>
    BY <1>1, <2>6 DEF mem
  <2> QED BY <1>4, <2>1, <2>2, <2>3, <2>4, <2>5, <2>6 DEF Fetch
<1>5. CASE EscribePagina
  BY <1>5, EnMemoriaBien, UsaOrden DEF EscribePagina
<1>6. CASE LeePagina
  BY <1>6, EnMemoriaBien, UsaOrden DEF LeePagina
<1>7. CASE AgregaTabla \/ CargaEnLibre \/ CargaEnVictima
  BY <1>1, <1>7 DEF AgregaTabla, CargaEnLibre, CargaEnVictima
<1>8. CASE AmpliaTabla \/ FueraDeLimite
  BY <1>1, <1>8 DEF AmpliaTabla, FueraDeLimite, Resultado
<1>9. CASE AccesoFatal
  BY <1>2, <1>9 DEF AccesoFatal
<1>10. CASE RecibeQuery
  <2>1. CASE fase' = "fetch" /\ UNCHANGED <<mem, algoritmo, ins, error, up, fault>>
    BY <1>1, <2>1 DEF mem
  <2> QED BY <1>2, <1>10, <2>1, Zenon DEF RecibeQuery
<1>11. CASE Continua \/ Desaloja \/ Arranca \/ OtroWorker
  BY <1>1, <1>11 DEF Continua, Desaloja, Arranca, OtroWorker, mem
<1> QED BY <1>3, <1>4, <1>5, <1>6, <1>7, <1>8, <1>9, <1>10, <1>11 DEF Next, Acceso

\* Every variable keeps its type, and every frame its one place in the order LRU replaces by.
THEOREM WorkerTypes == Spec => []TypeOK
<1>1. Init => Inv /\ OrdenOK
  BY InvInicial, OrdenInicial DEF Init
<1>2. Inv /\ OrdenOK /\ [Next]_vars => Inv' /\ OrdenOK'
  BY InvPaso, OrdenPaso
<1>3. Inv /\ OrdenOK => TypeOK
  BY DEF Inv, TypeOK
<1> QED BY <1>1, <1>2, <1>3, PTL DEF Spec


-----------------------------------------------------------------------------
(* READ and WRITE over several pages.                                      *)

\* The bytes of the access that are in the pages before hasta are those of the File:Tag.
Hechas(i, hasta) ==
    \A j \in DOMAIN i.dato : Byte_(i, j) \div TamPagina < hasta =>
        i.dato[j] = view[i.ft][Byte_(i, j) \div TamPagina + 1][Byte_(i, j) % TamPagina]

\* An access that is done with the pages before hasta.
EnCurso(i, hasta) ==
    /\ i.ft \in FileTags /\ i.dir \in Nat /\ i.pag \in Nat /\ i.pag >= Primera(i)
    /\ Tam(i) \in Nat /\ DOMAIN i.dato = 1 .. Tam(i)
    /\ ~fault /\ hasta > Primera(i) =>
         EnTabla(i.ft) /\ (Storage!Writable(i.ft) => Hechas(i, hasta))

\* The access in progress, and the one that is over until the master lets the query go on.
Vale ==
    /\ fase \in {"espera", "fetch"} => ins = None
    /\ fase = "pagina" => EnCurso(ins, ins.pag)
    /\ fase = "consulta" /\ ins # None =>
         /\ EnCurso(ins, ins.pag + 1)
         /\ ins.pag + 1 >= Primera(ins) + CantidadPaginas(ins)

\* The page of a byte, and its place in it.
LEMMA Division ==
    ASSUME NEW b \in Nat
    PROVE  /\ b \div TamPagina \in Nat /\ b % TamPagina \in 0 .. TamPagina - 1
           /\ b = (b \div TamPagina) * TamPagina + (b % TamPagina)
<1>1. TamPagina \in Nat /\ TamPagina > 0
  BY WorkerAssumption
<1> QED BY <1>1

LEMMA DivisionCrece ==
    ASSUME NEW a \in Nat, NEW b \in Nat, a <= b
    PROVE  a \div TamPagina <= b \div TamPagina
<1>1. TamPagina \in Nat /\ TamPagina > 0
  BY WorkerAssumption
<1> QED BY <1>1

\* Nothing in progress.
LEMMA ValeNada ==
    ASSUME ins' = None, fase' # "pagina"
    PROVE  Vale'
BY DEF Vale

\* Steps that leave the File:Tag of the access as it is seen.
LEMMA ValeIgual ==
    ASSUME Vale, ins' = ins, fase' = fase, fault' \/ ~fault,
           ~fault' => \A f \in FileTags : f = ins.ft /\ tabla[f] # None =>
                        /\ tabla'[f] # None
                        /\ Storage!Writable(f)' => Storage!Writable(f) /\ view'[f] = view[f]
    PROVE  Vale'
<1>1. ASSUME NEW hasta, EnCurso(ins, hasta) PROVE EnCurso(ins, hasta)'
  <2>1. ins.ft \in FileTags /\ (~fault' /\ hasta > Primera(ins) => tabla[ins.ft] # None)
    BY <1>1 DEF EnCurso
  <2>2. ~fault' /\ hasta > Primera(ins) =>
           tabla'[ins.ft] # None /\ (Storage!Writable(ins.ft)' => Hechas(ins, hasta)')
    BY <1>1, <2>1 DEF EnCurso, Hechas, Byte_
  <2> QED BY <1>1, <2>2 DEF EnCurso, Primera, Tam
<1>2. fase = "pagina" => EnCurso(ins, ins.pag)'
  BY <1>1 DEF Vale
<1>3. fase = "consulta" /\ ins # None => EnCurso(ins, ins.pag + 1)'
  BY <1>1 DEF Vale
<1> QED BY <1>2, <1>3 DEF Vale, Primera, CantidadPaginas, Tam, Libre


\* A page of the access is done.
LEMMA ValeSigue ==
    ASSUME EnPagina, AccessOK, EnCurso(ins, ins.pag),
           NEW f, f = ins.ft, NEW n, n = ins.pag, NEW dato, NEW i,
           i = [op |-> ins.op, ft |-> f, dir |-> ins.dir, dato |-> dato, pag |-> n],
           Len(dato) \in Nat, DOMAIN dato = 1 .. Len(dato),
           Sigue(i),
           ~fault' => tabla'[f] # None /\ (Storage!Writable(f)' => Hechas(i, n + 1)')
    PROVE  Vale'
<1>1. /\ f \in FileTags /\ ins.dir \in Nat /\ n \in Nat /\ n >= Primera(ins)
      /\ i.ft = f /\ i.dir = ins.dir /\ i.pag = n /\ i.dato = dato
  BY DEF EnCurso
<1>2. Primera(i) = Primera(ins) /\ Primera(ins) \in Nat
  BY <1>1, Division DEF Primera
<1>3. PICK z : z = [op |-> ins.op, ft |-> f, dir |-> ins.dir, dato |-> dato, pag |-> n + 1]
  OBVIOUS
<1>4. /\ z.ft = f /\ z.dir = i.dir /\ z.pag = n + 1 /\ z.dato = dato
      /\ Primera(z) = Primera(i) /\ Tam(z) = Len(dato) /\ Tam(i) = Len(dato)
  BY <1>1, <1>3 DEF Primera, Tam
<1>5. ~fault' => tabla'[f] # None /\ (Storage!Writable(f)' => Hechas(z, n + 1)')
  BY <1>1, <1>4 DEF Hechas, Byte_
<1>6. CASE ins' = z /\ fase' = "pagina"
  <2>1. EnCurso(ins, ins.pag)'
    BY <1>1, <1>2, <1>4, <1>5, <1>6 DEF EnCurso
  <2> QED BY <1>6, <2>1 DEF Vale
<1>7. CASE ins' = i /\ fase' = "consulta" /\ ~(n + 1 < Primera(i) + CantidadPaginas(i))
  <2>1. EnCurso(ins, ins.pag + 1)'
    BY <1>1, <1>2, <1>4, <1>7 DEF EnCurso
  <2>2. CantidadPaginas(i) \in Int
    <3>1. Tam(i) \in Nat /\ TamPagina \in Nat \ {0}
      BY <1>4, WorkerAssumption
    <3>2. Tam(i) + TamPagina - 1 \in Nat
      BY <3>1
    <3>3. (Tam(i) + TamPagina - 1) \div TamPagina \in Nat
      BY <3>2, Division
    <3> QED BY <3>3 DEF CantidadPaginas
  <2>3. n + 1 >= Primera(i) + CantidadPaginas(i)
    BY <1>1, <1>2, <1>7, <2>2
  <2>4. ins'.pag + 1 >= Primera(ins)' + CantidadPaginas(ins)'
    BY <1>1, <1>7, <2>3 DEF Primera, CantidadPaginas, Tam, Libre
  <2> QED BY <1>7, <2>1, <2>4 DEF Vale
<1>8. [i EXCEPT !.pag = i.pag + 1] = z
  BY <1>1, <1>3
<1> QED BY <1>1, <1>6, <1>7, <1>8 DEF Sigue

\* The page of the j-th byte of the access, and its place in it.
LEMMA ByteDe ==
    ASSUME NEW i, i.dir \in Nat, Tam(i) \in Nat, NEW j \in 1 .. Tam(i)
    PROVE  \E q \in Nat, r \in 0 .. TamPagina - 1 :
             /\ q = Byte_(i, j) \div TamPagina /\ r = Byte_(i, j) % TamPagina
             /\ Primera(i) <= q /\ q <= (i.dir + Tam(i) - 1) \div TamPagina
             /\ q * TamPagina + r - i.dir + 1 = j
<1>1. PICK b \in Nat : b = Byte_(i, j) /\ b = i.dir + j - 1
  BY DEF Byte_
<1>2. i.dir <= b /\ b <= i.dir + Tam(i) - 1 /\ i.dir + Tam(i) - 1 \in Nat
  BY <1>1
<1>3. i.dir \div TamPagina <= b \div TamPagina
  BY <1>2, DivisionCrece
<1>4. b \div TamPagina <= (i.dir + Tam(i) - 1) \div TamPagina
  BY <1>2, DivisionCrece
<1>5. PICK q \in Nat, r \in 0 .. TamPagina - 1 :
        q = b \div TamPagina /\ r = b % TamPagina /\ b = q * TamPagina + r
  BY Division
<1>6. q * TamPagina + r - i.dir + 1 = j
  <2>1. PICK w \in Nat : w = q * TamPagina
    BY WorkerAssumption
  <2>2. b = w + r
    BY <1>5, <2>1
  <2>3. w + r - i.dir + 1 = j
    BY <1>1, <2>2
  <2> QED BY <2>1, <2>3
<1> QED BY <1>1, <1>3, <1>4, <1>5, <1>6 DEF Primera

LEMMA ValeEscribe ==
    ASSUME Firme, Inv', Vale, EscribePagina
    PROVE  Vale'
<1>1. /\ EnPagina /\ AccessOK /\ EnCurso(ins, ins.pag) /\ Sigue(ins) /\ tabla[ins.ft] # None
      /\ tabla' = tabla /\ fault' = fault
      /\ ins = [op |-> ins.op, ft |-> ins.ft, dir |-> ins.dir, dato |-> ins.dato, pag |-> ins.pag]
      /\ UNCHANGED files
  <2>1. EnLargo /\ Sigue(ins) /\ tabla' = tabla /\ fault' = fault /\ UNCHANGED files
    BY DEF EscribePagina, EnMemoria
  <2>2. EnPagina /\ fase = "pagina" /\ tabla[ins.ft] # None
    BY <2>1 DEF EnLargo, EnPagina
  <2>3. AccessOK /\ EnCurso(ins, ins.pag)
    BY <2>2 DEF Firme, Inv, StateOK, Vale
  <2>4. ins = [op |-> ins.op, ft |-> ins.ft, dir |-> ins.dir, dato |-> ins.dato, pag |-> ins.pag]
    BY <2>2, <2>3 DEF AccessOK
  <2> QED BY <2>1, <2>2, <2>3, <2>4
<1> PICK i : i = ins
  OBVIOUS
<1>2. PICK f \in FileTags, n \in Nat :
        f = ins.ft /\ n = ins.pag /\ i = ins /\ i.dir \in Nat /\ Tam(i) \in Nat
        /\ DOMAIN i.dato = 1 .. Tam(i) /\ n >= Primera(i)
  BY <1>1 DEF EnCurso
<1>3. ASSUME ~fault', Storage!Writable(f)' PROVE Hechas(i, n + 1)'
  <2>1. /\ ~fault /\ files[f] # None /\ n + 1 \in 1 .. Len(files[f].data)
        /\ view'[f] = [view[f] EXCEPT ![n + 1] = Escritos]
    BY <1>1, <1>2, <1>3, EscribeFirme
  <2>2. Storage!Writable(f)
    BY <1>1, <1>3 DEF Storage!Writable
  <2>3. n > Primera(i) => Hechas(i, n)
    BY <1>1, <1>2, <2>1, <2>2 DEF EnCurso
  <2>4. DOMAIN view[f] = 1 .. Len(files[f].data)
    BY <2>1, VistaDe DEF Firme, Inv, StateOK, FilesOK
  <2>5. /\ \A q \in Nat : q # n => view'[f][q + 1] = view[f][q + 1]
        /\ view'[f][n + 1] = Escritos
    BY <1>2, <2>1, <2>4
  <2> SUFFICES ASSUME NEW j \in 1 .. Tam(i), Byte_(i, j) \div TamPagina < n + 1
               PROVE  i.dato[j] = view'[f][Byte_(i, j) \div TamPagina + 1][Byte_(i, j) % TamPagina]
    BY <1>2 DEF Hechas, Byte_
  <2>6. PICK q \in Nat, r \in 0 .. TamPagina - 1 :
          /\ q = Byte_(i, j) \div TamPagina /\ r = Byte_(i, j) % TamPagina
          /\ Primera(i) <= q /\ q * TamPagina + r - i.dir + 1 = j
    BY <1>2, ByteDe
  <2>7. CASE q < n
    <3>1. n > Primera(i)
      <4>1. PICK p \in Nat : p = Primera(i)
        BY <1>2, Division DEF Primera
      <4>2. p < n
        BY <2>6, <2>7, <4>1
      <4> QED BY <4>1, <4>2
    <3>2. i.dato[j] = view[f][q + 1][r]
      BY <1>2, <2>3, <2>6, <2>7, <3>1 DEF Hechas
    <3> QED BY <2>5, <2>6, <2>7, <3>2
  <2>8. CASE q = n
    <3>1. Indice(ins.pag, r) = j
      BY <1>2, <2>6, <2>8 DEF Indice
    <3>2. Escritos[r] = ins.dato[j]
      BY <1>2, <2>6, <3>1 DEF Escritos
    <3> QED BY <1>2, <2>5, <2>6, <2>8, <3>2
  <2> QED BY <2>6, <2>7, <2>8
<1>4. Len(i.dato) \in Nat /\ DOMAIN i.dato = 1 .. Len(i.dato)
  BY <1>2 DEF Tam
<1>5. tabla'[f] # None /\ Sigue(i)
  BY <1>1, <1>2
<1>6. i = [op |-> ins.op, ft |-> f, dir |-> ins.dir, dato |-> i.dato, pag |-> n]
  BY <1>1, <1>2
<1> QED BY <1>1, <1>2, <1>3, <1>4, <1>5, <1>6, ValeSigue

LEMMA ValeLee ==
    ASSUME Firme, Inv', Vale, LeePagina
    PROVE  Vale'
<1> DEFINE m == pagina[Actual].marco
           Leido == [j \in DOMAIN ins.dato |->
                      IF En(ins, j, ins.pag) THEN marco[m].bytes[Byte_(ins, j) % TamPagina]
                                             ELSE ins.dato[j]]
<1>1. /\ EnPagina /\ AccessOK /\ EnCurso(ins, ins.pag) /\ tabla[ins.ft] # None
      /\ tabla' = tabla /\ fault' = fault
      /\ ins = [op |-> ins.op, ft |-> ins.ft, dir |-> ins.dir, dato |-> ins.dato, pag |-> ins.pag]
      /\ UNCHANGED files
  BY DEF LeePagina, EnMemoria, EnLargo, EnPagina, Firme, Inv, StateOK, AccessOK, Vale
<1> PICK i : i = ins
  OBVIOUS
<1>2. PICK f \in FileTags, n \in Nat :
        f = ins.ft /\ n = ins.pag /\ i = ins /\ i.dir \in Nat /\ Tam(i) \in Nat
        /\ DOMAIN i.dato = 1 .. Tam(i) /\ n >= Primera(i)
  BY <1>1 DEF EnCurso
<1>3. PICK d : d = Leido
  OBVIOUS
<1>4. /\ DOMAIN d = 1 .. Tam(i) /\ Len(d) = Tam(i)
      /\ \A j \in 1 .. Tam(i) : d[j] = IF Byte_(i, j) \div TamPagina = n
                                       THEN marco[m].bytes[Byte_(i, j) % TamPagina] ELSE i.dato[j]
  <2>1. d = [j \in 1 .. Tam(i) |->
               IF Byte_(i, j) \div TamPagina = n
               THEN marco[m].bytes[Byte_(i, j) % TamPagina] ELSE i.dato[j]]
    BY <1>2, <1>3 DEF En
  <2>2. Len(d) = Tam(i)
    <3> DEFINE e(j) == IF Byte_(i, j) \div TamPagina = n
                       THEN marco[m].bytes[Byte_(i, j) % TamPagina] ELSE i.dato[j]
    <3>1. d = [j \in 1 .. Tam(i) |-> e(j)]
      BY <2>1
    <3> HIDE DEF e
    <3> QED BY <1>2, <3>1
  <2> QED BY <2>1, <2>2
<1>5. PICK z : z = [op |-> ins.op, ft |-> f, dir |-> ins.dir, dato |-> d, pag |-> n]
  OBVIOUS
<1>6. Sigue(z)
  <2>1. Sigue([ins EXCEPT !.dato = d])
    BY <1>3 DEF LeePagina
  <2>2. [ins EXCEPT !.dato = d] = z
    BY <1>1, <1>2, <1>5
  <2> QED BY <2>1, <2>2
<1>7. ASSUME ~fault', Storage!Writable(f)' PROVE Hechas(z, n + 1)'
  <2>1. ~fault /\ \A g \in FileTags : view'[g] = view[g]
    BY <1>1, <1>7, LeeFirme
  <2>2. Storage!Writable(f)
    BY <1>1, <1>7 DEF Storage!Writable
  <2>3. n > Primera(i) => Hechas(i, n)
    BY <1>1, <1>2, <2>1, <2>2 DEF EnCurso
  <2>4. view[f][n + 1] = marco[m].bytes
    <3>1. PICK y \in Paginas : y = Actual /\ y[1] = f /\ y[2] = n /\ pagina[y].marco # None
      <4>1. Actual \in Paginas /\ pagina[Actual].marco # None
        BY EnMemoriaBien, Constantes DEF LeePagina, Firme
      <4> QED BY <1>2, <4>1
    <3>2. /\ files[f] # None /\ n + 1 \in 1 .. Len(files[f].data)
          /\ Ve(f, n + 1) = marco[m].bytes
      BY <2>1, <3>1, Cabe, Presente DEF Firme
    <3>3. view[f] = [k \in 1 .. Len(files[f].data) |-> Ve(f, k)]
      BY <3>2, VistaDe DEF Firme, Inv, StateOK, FilesOK
    <3> QED BY <3>2, <3>3
  <2> SUFFICES ASSUME NEW j \in 1 .. Tam(i), Byte_(i, j) \div TamPagina < n + 1
               PROVE  d[j] = view'[f][Byte_(i, j) \div TamPagina + 1][Byte_(i, j) % TamPagina]
    <3>1. z.dato = d /\ z.ft = f /\ z.dir = i.dir
      BY <1>2, <1>5
    <3> QED BY <1>4, <3>1 DEF Hechas, Byte_
  <2>5. PICK q \in Nat, r \in 0 .. TamPagina - 1 :
          q = Byte_(i, j) \div TamPagina /\ r = Byte_(i, j) % TamPagina /\ Primera(i) <= q
    BY <1>2, ByteDe
  <2>6. CASE q < n
    <3>1. n > Primera(i)
      <4>1. PICK p \in Nat : p = Primera(i)
        BY <1>2, Division DEF Primera
      <4>2. p < n
        BY <2>5, <2>6, <4>1
      <4> QED BY <4>1, <4>2
    <3>2. i.dato[j] = view[f][q + 1][r]
      BY <1>2, <2>3, <2>5, <2>6, <3>1 DEF Hechas
    <3> QED BY <1>4, <2>1, <2>5, <2>6, <3>2
  <2>7. CASE q = n
    BY <1>4, <2>1, <2>4, <2>5, <2>7
  <2> QED BY <2>5, <2>6, <2>7
<1>8. tabla'[f] # None /\ Len(d) \in Nat /\ DOMAIN d = 1 .. Len(d)
  BY <1>1, <1>2, <1>4
<1> QED BY <1>1, <1>2, <1>5, <1>6, <1>7, <1>8, ValeSigue

\* The first page of an access is asked for.
LEMMA ValePide ==
    ASSUME NEW op, NEW f \in FileTags, NEW dir \in Nat, NEW dato, NEW n \in Nat,
           DOMAIN dato = 1 .. n, Len(dato) = n, PideAcceso(op, f, dir, dato)
    PROVE  Vale'
<1>1. PICK i : i = [op |-> op, ft |-> f, dir |-> dir, dato |-> dato, pag |-> dir \div TamPagina]
  OBVIOUS
<1>2. ins' = i /\ fase' = "pagina"
  BY <1>1 DEF PideAcceso
<1>3. i.ft = f /\ i.dir = dir /\ i.dato = dato /\ i.pag = dir \div TamPagina /\ i.pag \in Nat
  BY <1>1, Division
<1>4. EnCurso(ins, ins.pag)'
  BY <1>2, <1>3 DEF EnCurso, Primera, Tam
<1> QED BY <1>2, <1>4 DEF Vale

\* The instructions of a script.
LEMMA ValeFetch ==
    ASSUME Vale, Fetch
    PROVE  Vale'
<1>1. ins = None
  BY DEF Vale, Fetch
<1>2. ASSUME NEW f \in FileTags, Create(f) PROVE Vale'
  BY <1>1, <1>2, ValeNada DEF Create, Simple, Resultado
<1>3. ASSUME NEW f \in FileTags, NEW g \in FileTags, Tag(f, g) PROVE Vale'
  BY <1>1, <1>3, ValeNada DEF Tag, Simple, Resultado
<1>4. ASSUME NEW f \in FileTags, Flush(f) PROVE Vale'
  BY <1>1, <1>4, ValeNada DEF Flush, Resultado
<1>5. ASSUME NEW f \in FileTags, Commit(f) PROVE Vale'
  BY <1>1, <1>5, ValeNada DEF Commit, Resultado
<1>6. ASSUME NEW f \in FileTags, Delete(f) PROVE Vale'
  BY <1>1, <1>6, ValeNada DEF Delete, Resultado, Termina
<1>7. ASSUME NEW f \in FileTags, NEW size \in Sizes, Truncate(f, size) PROVE Vale'
  BY <1>1, <1>7, ValeNada DEF Truncate, Resultado, Termina
<1>8. ASSUME NEW f \in FileTags, NEW dir \in Direcciones, NEW dato \in Datos,
             Write(f, dir, dato) \/ Read(f, dir, Len(dato))
      PROVE  Vale'
  <2>1. dir \in Nat /\ dato \in Seq(Byte)
    BY WorkerAssumption
  <2>2. PICK n \in Nat : n = Len(dato) /\ DOMAIN dato = 1 .. n
    BY <2>1
  <2>3. CASE Write(f, dir, dato)
    BY <2>1, <2>2, <2>3, ValePide DEF Write
  <2>4. CASE Read(f, dir, Len(dato))
    <3>1. PICK huecos : huecos = [j \in 1 .. n |-> None]
      OBVIOUS
    <3>2. DOMAIN huecos = 1 .. n /\ Len(huecos) = n
      BY <3>1
    <3>3. PideAcceso("READ", f, dir, huecos)
      BY <2>2, <2>4, <3>1 DEF Read
    <3> QED BY <2>1, <3>2, <3>3, ValePide
  <2> QED BY <1>8, <2>3, <2>4
<1>9. CASE fase' = "espera" /\ UNCHANGED ins
  BY <1>1, <1>9, ValeNada
<1> QED BY <1>2, <1>3, <1>4, <1>5, <1>6, <1>7, <1>8, <1>9 DEF Fetch, ciclo

\* The steps of an access.
LEMMA ValeAcceso ==
    ASSUME Firme, Inv', Vale, Acceso
    PROVE  Vale'
<1>1. CASE AgregaTabla \/ AmpliaTabla
  <2>1. UNCHANGED <<files, ins, fase, fault>>
    BY <1>1 DEF AgregaTabla, AmpliaTabla, ciclo
  <2>2. ~fault => \A f \in FileTags : view'[f] = view[f] /\ (tabla[f] # None => tabla'[f] # None)
    BY <1>1, TablaFirme
  <2>3. \A f \in FileTags : Storage!Writable(f)' <=> Storage!Writable(f)
    BY <2>1 DEF Storage!Writable
  <2> QED BY <2>1, <2>2, <2>3, ValeIgual
<1>2. CASE FueraDeLimite
  BY <1>2, ValeNada DEF FueraDeLimite, Resultado
<1>3. CASE AccesoFatal
  BY <1>3, ValeNada DEF AccesoFatal, Termina
<1>4. CASE CargaEnLibre
  <2>1. UNCHANGED <<files, ins, fase, fault>>
    BY <1>4 DEF CargaEnLibre, ciclo
  <2>2. ~fault => \A f \in FileTags : view'[f] = view[f] /\ (tabla[f] # None => tabla'[f] # None)
    BY <1>4, LibreFirme
  <2>3. \A f \in FileTags : Storage!Writable(f)' <=> Storage!Writable(f)
    BY <2>1 DEF Storage!Writable
  <2> QED BY <2>1, <2>2, <2>3, ValeIgual
<1>5. CASE CargaEnVictima
  <2>1. UNCHANGED <<ins, fase, fault>>
    BY <1>5 DEF CargaEnVictima
  <2>2. ~fault => /\ \A f \in FileTags : Storage!Writable(f) => view'[f] = view[f]
                  /\ \A f \in FileTags : Storage!Writable(f)' <=> Storage!Writable(f)
                  /\ ins.ft \in FileTags => tabla'[ins.ft] # None
    BY <1>5, VictimaFirme
  <2> QED BY <2>1, <2>2, ValeIgual
<1>6. CASE EscribePagina
  BY <1>6, ValeEscribe
<1>7. CASE LeePagina
  BY <1>7, ValeLee
<1> QED BY <1>1, <1>2, <1>3, <1>4, <1>5, <1>6, <1>7 DEF Acceso

\* Another worker moves a File:Tag the access is about only when tables and storage drift apart.
LEMMA ValeOtro ==
    ASSUME Firme, Inv', Vale, OtroWorker
    PROVE  Vale'
<1>1. /\ UNCHANGED <<tabla, pagina, marco, ins, fase>> /\ FilesOK /\ FilesOK'
      /\ fault' \/ ~fault
  BY DEF OtroWorker, mem, ciclo, Firme, Inv, StateOK, FilesOK
<1>2. ASSUME ~fault', NEW f \in FileTags, f = ins.ft, tabla[f] # None
      PROVE  /\ tabla'[f] # None
             /\ Storage!Writable(f)' => Storage!Writable(f) /\ view'[f] = view[f]
  <2>1. files'[f] = files[f]
    BY <1>1, <1>2 DEF OtroWorker
  <2>2. view'[f] = view[f]
    <3>1. \A i : Ve(f, i)' = Ve(f, i)
      BY <1>1, <2>1 DEF Ve
    <3> QED BY <1>1, <2>1, <3>1, MismaVista
  <2> QED BY <1>1, <1>2, <2>1, <2>2 DEF Storage!Writable
<1> QED BY <1>1, <1>2, ValeIgual

LEMMA ValePaso == Firme /\ Firme' /\ Vale /\ [Next]_vars => Vale'
<1> SUFFICES ASSUME Firme, Inv', Vale, [Next]_vars PROVE Vale'
  BY DEF Firme
<1>1. CASE UNCHANGED <<files, tabla, pagina, marco, ins, fase, fault>>
  <2>1. view' = view /\ (fault' \/ ~fault)
    BY <1>1 DEF view, Firme, Inv, StateOK
  <2>2. \A f \in FileTags : Storage!Writable(f)' <=> Storage!Writable(f)
    BY <1>1 DEF Storage!Writable
  <2> QED BY <1>1, <2>1, <2>2, ValeIgual
<1>2. CASE Fetch
  BY <1>2, ValeFetch
<1>3. CASE OtroWorker
  BY <1>3, ValeOtro
<1>4. CASE RecibeQuery
  <2>1. CASE Termina
    BY <2>1, ValeNada DEF Termina
  <2>2. CASE fase' = "fetch" /\ UNCHANGED ins
    BY <1>4, <2>2, ValeNada DEF RecibeQuery, Vale
  <2> QED BY <1>4, <2>1, <2>2, Zenon DEF RecibeQuery
<1>5. CASE Acceso
  BY <1>5, ValeAcceso
<1>6. CASE Continua \/ Desaloja
  BY <1>6, ValeNada DEF Continua, Desaloja
<1>7. CASE Arranca
  BY <1>1, <1>7 DEF Arranca, mem, ciclo
<1>8. CASE UNCHANGED vars
  BY <1>1, <1>8 DEF vars
<1> QED BY <1>2, <1>3, <1>4, <1>5, <1>6, <1>7, <1>8 DEF Next

\* An access that is over and whole has all its bytes in the pages it went through.
LEMMA TodoHecho == Firme /\ Vale => AccessIsRight
<1> SUFFICES ASSUME Firme, Vale, Terminado, Entera(ins) PROVE SeVe(ins)
  BY DEF AccessIsRight
<1>1. PICK i : i = ins
  OBVIOUS
<1>2. /\ EnCurso(i, i.pag + 1) /\ i.pag + 1 >= Primera(i) + CantidadPaginas(i)
      /\ ~fault /\ Storage!Writable(i.ft)
  BY <1>1 DEF Terminado, Vale
<1>3. /\ i.dir \in Nat /\ i.pag \in Nat /\ i.pag >= Primera(i)
      /\ Tam(i) \in Nat /\ DOMAIN i.dato = 1 .. Tam(i)
      /\ Primera(i) \in Nat
  BY <1>2, Division DEF EnCurso, Primera
<1>4. Hechas(i, i.pag + 1)
  BY <1>2, <1>3 DEF EnCurso
<1>5. CantidadPaginas(i) \in Int
  <2>1. Tam(i) + TamPagina - 1 \in Nat
    BY <1>3, WorkerAssumption
  <2>2. (Tam(i) + TamPagina - 1) \div TamPagina \in Nat
    BY <2>1, Division
  <2> QED BY <2>2 DEF CantidadPaginas
<1>6. ASSUME NEW j \in 1 .. Tam(i) PROVE Byte_(i, j) \div TamPagina < i.pag + 1
  <2>1. PICK q \in Nat : q = Byte_(i, j) \div TamPagina /\ q <= (i.dir + Tam(i) - 1) \div TamPagina
    BY <1>3, ByteDe
  <2>2. PICK u \in Int : u = (i.dir + Tam(i) - 1) \div TamPagina
    <3>1. i.dir + Tam(i) - 1 \in Nat
      BY <1>3, <1>6
    <3> QED BY <3>1, Division
  <2>3. Primera(i) + CantidadPaginas(i) > u
    BY <1>1, <2>2 DEF Entera
  <2>4. PICK p \in Nat, z \in Int, n \in Nat :
          p = Primera(i) /\ z = CantidadPaginas(i) /\ n = i.pag /\ n + 1 >= p + z /\ p + z > u
    BY <1>2, <1>3, <1>5, <2>3
  <2>5. q <= u
    BY <2>1, <2>2
  <2>6. q < n + 1
    BY <2>4, <2>5
  <2> QED BY <2>1, <2>4, <2>6
<1> QED BY <1>1, <1>3, <1>4, <1>6 DEF Hechas, SeVe

\* The bytes of a READ are those of the File:Tag and those of a WRITE are in it, over as many
\* pages as it takes and whatever was loaded and replaced on the way: the page of a byte that was
\* done may be gone, and is seen in the storage.
THEOREM WorkerAccess == Spec => []AccessIsRight
<1>1. Init => Vale
  BY DEF Init, Vale
<1> QED BY <1>1, WorkerKeeps, ValePaso, TodoHecho, PTL DEF Spec
=============================================================================
