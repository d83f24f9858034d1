---------------------------- MODULE WorkerProofs ----------------------------
(***************************************************************************)
(* Theorems about Worker for any File:Tags, pages, frames, scripts and     *)
(* other workers.                                                          *)
(***************************************************************************)
EXTENDS Worker, FiniteSetTheorems, TLAPS

USE DEF Exists, EnTabla, Actual

\* What the assumptions say of the constants.
LEMMA Constantes ==
    /\ None \notin Marcos /\ Marcos \subseteq Nat /\ 0 \in Marcos
    /\ None \notin FileTags /\ Base \in FileTags
    /\ MaxLen \in Nat /\ Nros \subseteq Nat /\ \A p \in Nat : p < MaxLen => p \in Nros
    /\ EnCero \in Contenido
    /\ Ausente \in Nodo
BY WorkerAssumption DEF Marcos, Nros, EnCero, Contenido, Ausente, Nodo

\* The pages of a File:Tag are finitely many.
LEMMA NrosFinitos ==
    ASSUME NEW S, S \subseteq Nros
    PROVE  IsFiniteSet(S) /\ Cardinality(S) \in Nat
<1>1. IsFiniteSet(Nros) BY WorkerAssumption, FS_Interval DEF Nros
<1>2. IsFiniteSet(S) BY <1>1, FS_Subset
<1> QED BY <1>2, FS_CardinalityType

\* A sequence knows its length.
LEMMA Largo ==
    ASSUME NEW k \in Nat, NEW D, NEW d \in [1..k -> D]
    PROVE  d \in Seq(D) /\ Len(d) = k
OBVIOUS

\* The parts of a File:Tag.
LEMMA Contenidos ==
    ASSUME NEW F \in Storage!File
    PROVE  /\ F.size \in 0..MaxLen /\ F.committed \in BOOLEAN
           /\ Len(F.data) \in 0..MaxLen
           /\ F.data \in [1..Len(F.data) -> Contenido]
           /\ F.data \in Storage!Contents
<1>1. F.data \in UNION {[1..n -> Contenido] : n \in 0..MaxLen}
  BY DEF Storage!File, Storage!Contents
<1>2. PICK k \in 0..MaxLen : F.data \in [1..k -> Contenido]
  BY <1>1
<1>3. Len(F.data) = k
  BY <1>2, Largo, Constantes
<1> QED BY <1>1, <1>2, <1>3 DEF Storage!File, Storage!Contents

FilesOK == files \in [FileTags -> Storage!File \cup {None}]

\* Every request to the storage leaves File:Tags in it.
LEMMA OtroPaso ==
    ASSUME FilesOK, NEW f \in FileTags, NEW g \in FileTags, NEW n \in 0..MaxLen,
           \/ Storage!Create(f) \/ Storage!Delete(f) \/ Storage!Commit(f)
           \/ Storage!Truncate(f, n) \/ Storage!Tag(f, g)
    PROVE  FilesOK'
<1>1. CASE Storage!Create(f)
  <2>1. Storage!Empty \in Storage!File
    <3>1. <<>> \in [1..0 -> Contenido]
      OBVIOUS
    <3>2. 0 \in 0..MaxLen
      BY Constantes
    <3> QED BY <3>1, <3>2 DEF Storage!Empty, Storage!File, Storage!Contents
  <2> QED BY <1>1, <2>1 DEF FilesOK, Storage!Create
<1>2. CASE Storage!Delete(f)
  BY <1>2 DEF FilesOK, Storage!Delete
<1>3. CASE Storage!Commit(f)
  BY <1>3 DEF FilesOK, Storage!Commit, Storage!File
<1>4. CASE Storage!Truncate(f, n)
  <2> DEFINE d == [i \in 1..n |-> IF i <= Len(files[f].data) THEN files[f].data[i] ELSE EnCero]
  <2>1. files[f] \in Storage!File
    BY <1>4 DEF FilesOK, Storage!Truncate, Storage!Writable
  <2>2. d \in [1..n -> Contenido]
    BY <2>1, Contenidos, Constantes
  <2>3. d \in Storage!Contents
    BY <2>2 DEF Storage!Contents
  <2> QED BY <1>4, <2>1, <2>3 DEF FilesOK, Storage!Truncate, Storage!File
<1>5. CASE Storage!Tag(f, g)
  BY <1>5 DEF FilesOK, Storage!Tag, Storage!File
<1> QED BY <1>1, <1>2, <1>3, <1>4, <1>5

\* What the WRITE of another worker, and the second half of its TAG, do to the File:Tag.
LEMMA OtroEscribe ==
    ASSUME FilesOK, NEW f \in FileTags, NEW g \in FileTags, NEW i \in 1..MaxLen, NEW d \in Contenido,
           Storage!Write(f, i, d) \/ Storage!Copy(f, g)
    PROVE  /\ FilesOK' /\ \A h \in FileTags \ {f} : files'[h] = files[h]
           /\ files[f] \in Storage!File /\ files'[f] \in Storage!File
           /\ Storage!Write(f, i, d) => /\ files'[f].data = [files[f].data EXCEPT ![i] = d]
                                        /\ files'[f].size = files[f].size
                                        /\ Len(files'[f].data) = Len(files[f].data)
           /\ Storage!Copy(f, g) => /\ files[g] # None
                                    /\ files'[f].data = files[g].data /\ files'[f].size = files[g].size
<1>1. CASE Storage!Write(f, i, d)
  <2> DEFINE e == [files[f].data EXCEPT ![i] = d]
  <2>1. files[f] \in Storage!File /\ files' = [files EXCEPT ![f].data[i] = d]
    BY <1>1 DEF FilesOK, Storage!Write, Storage!Writable
  <2>2. PICK n \in 0..MaxLen : n = Len(files[f].data) /\ files[f].data \in [1..n -> Contenido]
    BY <2>1, Contenidos
  <2>3. e \in [1..n -> Contenido]
    BY <2>2
  <2>4. e \in Storage!Contents /\ Len(e) = n
    BY <2>2, <2>3, Largo, Constantes DEF Storage!Contents
  <2>5. files'[f] = [files[f] EXCEPT !.data = e] /\ \A h \in FileTags \ {f} : files'[h] = files[h]
    BY <2>1 DEF FilesOK
  <2>6. files'[f] \in Storage!File /\ files'[f].data = e /\ files'[f].size = files[f].size
    <3> HIDE DEF e
    <3> QED BY <2>1, <2>4, <2>5 DEF Storage!File
  <2>7. FilesOK'
    BY <2>1, <2>5, <2>6 DEF FilesOK
  <2>8. ~Storage!Copy(f, g) \/ (files[g] # None /\ files'[f].data = files[g].data /\ files'[f].size = files[g].size)
    <3>1. Storage!Copy(f, g) => files[f].data = <<>>
      BY DEF Storage!Copy
    <3>2. i \in DOMAIN files[f].data
      BY <1>1 DEF Storage!Write
    <3> QED BY <3>1, <3>2
  <2> QED BY <2>1, <2>2, <2>4, <2>5, <2>6, <2>7, <2>8
<1>2. CASE ~Storage!Write(f, i, d) /\ Storage!Copy(f, g)
  <2>1. files[f] \in Storage!File /\ files[g] \in Storage!File /\ files[g] # None
    BY <1>2 DEF FilesOK, Storage!Copy
  <2>2. files'[f] = [files[f] EXCEPT !.data = files[g].data, !.size = files[g].size]
    BY <1>2, <2>1 DEF FilesOK, Storage!Copy
  <2>3. files'[f] \in Storage!File /\ files'[f].data = files[g].data /\ files'[f].size = files[g].size
    BY <2>1, <2>2 DEF Storage!File
  <2>4. FilesOK' /\ \A h \in FileTags \ {f} : files'[h] = files[h]
    BY <1>2, <2>1, <2>3 DEF FilesOK, Storage!Copy
  <2> QED BY <1>2, <2>1, <2>3, <2>4
<1> QED BY <1>1, <1>2

-----------------------------------------------------------------------------
(* What the memory is, as far as frames and tables go.                     *)

Inv == StateOK /\ FramesMatchPages /\ CountCoversPresent

\* Nothing else of a page table matters than who is where.
LEMMA MismaForma ==
    ASSUME FramesMatchPages, CountCoversPresent, StateOK,
           tabla' = tabla,
           \A x \in Paginas : pagina'[x].marco = pagina[x].marco,
           \A m \in Marcos :
              \/ marco'[m] = marco[m]
              \/ marco[m] # None /\ marco'[m] # None /\ marco'[m].de = marco[m].de
    PROVE  FramesMatchPages' /\ CountCoversPresent'
<1>1. FramesMatchPages'
  <2>1. ASSUME NEW m \in Marcos, marco'[m] # None
        PROVE  pagina'[marco'[m].de].marco = m
    <3>1. marco[m] # None /\ marco'[m].de = marco[m].de
      BY <2>1
    <3>2. marco[m].de \in Paginas /\ pagina[marco[m].de].marco = m
      BY <3>1 DEF FramesMatchPages, StateOK, Marco
    <3> QED BY <3>1, <3>2
  <2>2. ASSUME NEW x \in Paginas, pagina'[x].marco # None
        PROVE  /\ EnTabla(x[1])' /\ x[2] < tabla'[x[1]].largo
               /\ marco'[pagina'[x].marco] # None
               /\ marco'[pagina'[x].marco].de = x
    <3>1. pagina[x].marco # None /\ pagina'[x].marco = pagina[x].marco
      BY <2>2
    <3>2. pagina[x].marco \in Marcos
      BY <3>1 DEF StateOK, Nodo
    <3>3. /\ EnTabla(x[1]) /\ x[2] < tabla[x[1]].largo
          /\ marco[pagina[x].marco] # None
          /\ marco[pagina[x].marco].de = x
      BY <3>1 DEF FramesMatchPages
    <3> QED BY <3>1, <3>2, <3>3
  <2> QED BY <2>1, <2>2 DEF FramesMatchPages
<1>2. \A f \in FileTags : Presentes(f)' = Presentes(f)
  BY DEF Presentes, Paginas
<1>3. CountCoversPresent'
  BY <1>2 DEF CountCoversPresent
<1> QED BY <1>1, <1>3

\* The memory a worker starts with.
LEMMA Vacia ==
    ASSUME \A f \in FileTags : tabla'[f] = None,
           \A x \in Paginas : pagina'[x] = Ausente,
           \A m \in Marcos : marco'[m] = None
    PROVE  FramesMatchPages' /\ CountCoversPresent'
BY DEF FramesMatchPages, CountCoversPresent, Ausente

\* A File:Tag without a table has no page in memory.
LEMMA SinTabla ==
    ASSUME FramesMatchPages, NEW f \in FileTags, ~EnTabla(f)
    PROVE  Presentes(f) = {}
BY DEF FramesMatchPages, Presentes, Paginas

\* actualizar_tabla.
LEMMA Actualiza ==
    ASSUME StateOK, FramesMatchPages, CountCoversPresent,
           NEW f \in FileTags, EnTabla(f), NEW n \in 0..MaxLen, Actualizada(f, n)
    PROVE  /\ tabla' \in [FileTags -> Tabla \cup {None}]
           /\ pagina' \in [Paginas -> Nodo]
           /\ marco' \in [Marcos -> Marco \cup {None}]
           /\ FramesMatchPages' /\ CountCoversPresent'
<1> DEFINE quitadas == {p \in Presentes(f) : p >= n}
<1>1. Presentes(f) \subseteq Nros /\ quitadas \subseteq Presentes(f)
  BY DEF Presentes
<1>2. /\ IsFiniteSet(Presentes(f)) /\ Cardinality(Presentes(f)) \in Nat
      /\ IsFiniteSet(quitadas) /\ Cardinality(quitadas) \in Nat
  BY <1>1, NrosFinitos
<1>3. /\ tabla' = [tabla EXCEPT ![f] = [largo |-> n, cantidad |-> tabla[f].cantidad - Cardinality(quitadas)]]
      /\ pagina' = [x \in Paginas |-> IF x[1] = f /\ x[2] >= n THEN Ausente ELSE pagina[x]]
      /\ marco' = [m \in Marcos |-> IF \E p \in quitadas : pagina[<<f, p>>].marco = m
                                     THEN None ELSE marco[m]]
  BY DEF Actualizada
<1>4. tabla[f] \in Tabla
  BY DEF StateOK
<1>5. tabla' \in [FileTags -> Tabla \cup {None}]
  BY <1>2, <1>3, <1>4 DEF StateOK, Tabla
<1>6. pagina' \in [Paginas -> Nodo] /\ marco' \in [Marcos -> Marco \cup {None}]
  BY <1>3, Constantes DEF StateOK
<1>7. FramesMatchPages'
  <2>1. ASSUME NEW m \in Marcos, marco'[m] # None
        PROVE  pagina'[marco'[m].de].marco = m
    <3>1. marco'[m] = marco[m] /\ ~ \E p \in quitadas : pagina[<<f, p>>].marco = m
      BY <2>1, <1>3
    <3>2. PICK y \in Paginas : y = marco[m].de /\ pagina[y].marco = m
      BY <2>1, <3>1 DEF StateOK, Marco, FramesMatchPages
    <3>3. ~(y[1] = f /\ y[2] >= n)
      BY <3>1, <3>2, Constantes DEF Presentes, Paginas
    <3> QED BY <3>1, <3>2, <3>3, <1>3
  <2>2. ASSUME NEW x \in Paginas, pagina'[x].marco # None
        PROVE  /\ EnTabla(x[1])' /\ x[2] < tabla'[x[1]].largo
               /\ marco'[pagina'[x].marco] # None
               /\ marco'[pagina'[x].marco].de = x
    <3>1. pagina'[x] = pagina[x] /\ ~(x[1] = f /\ x[2] >= n)
      BY <2>2, <1>3 DEF Ausente
    <3>2. /\ EnTabla(x[1]) /\ x[2] < tabla[x[1]].largo
          /\ marco[pagina[x].marco] # None
          /\ marco[pagina[x].marco].de = x
          /\ pagina[x].marco \in Marcos
      BY <2>2, <3>1 DEF FramesMatchPages, StateOK, Nodo
    <3>3. x[1] \in FileTags /\ x[2] \in Nat
      BY Constantes DEF Paginas
    <3>4. EnTabla(x[1])' /\ x[2] < tabla'[x[1]].largo
      <4>1. CASE x[1] = f
        <5>1. tabla'[f] = [largo |-> n, cantidad |-> tabla[f].cantidad - Cardinality(quitadas)]
          BY <1>3 DEF StateOK
        <5>2. tabla'[f] \in Tabla
          BY <5>1, <1>2, <1>4 DEF Tabla
        <5>3. x[2] < n
          BY <3>1, <3>3, <4>1, Constantes
        <5>4. tabla'[f] # None
          BY <5>2, StorageAssumption
        <5> QED BY <4>1, <5>1, <5>3, <5>4
      <4>2. CASE x[1] # f
        <5>1. tabla'[x[1]] = tabla[x[1]]
          BY <1>3, <3>3, <4>2 DEF StateOK
        <5> QED BY <3>2, <5>1
      <4> QED BY <4>1, <4>2
    <3>5. ASSUME NEW p \in quitadas, pagina[<<f, p>>].marco = pagina[x].marco
          PROVE  FALSE
      <4>1. <<f, p>> \in Paginas /\ pagina[<<f, p>>].marco # None
        BY <1>1 DEF Presentes, Paginas
      <4>2. x = <<f, p>>
        BY <3>2, <3>5, <4>1 DEF FramesMatchPages
      <4> QED BY <3>1, <4>2
    <3>6. marco'[pagina'[x].marco] = marco[pagina[x].marco]
      BY <3>1, <3>2, <3>5, <1>3
    <3> QED BY <3>1, <3>2, <3>4, <3>6
  <2> QED BY <2>1, <2>2 DEF FramesMatchPages
<1>8. CountCoversPresent'
  <2>1. Presentes(f)' = Presentes(f) \ quitadas
    BY <1>3, Constantes DEF Presentes, Paginas, Ausente
  <2>2. \A g \in FileTags \ {f} : Presentes(g)' = Presentes(g)
    BY <1>3 DEF Presentes, Paginas
  <2>3. Cardinality(Presentes(f) \ quitadas) = Cardinality(Presentes(f)) - Cardinality(quitadas)
    <3>1. Presentes(f) \cap quitadas = quitadas
      BY <1>1
    <3> QED BY <3>1, <1>2, FS_Difference
  <2>4. tabla'[f].cantidad = tabla[f].cantidad - Cardinality(quitadas) /\ tabla[f].cantidad \in Int
    BY <1>3, <1>4 DEF StateOK, Tabla
  <2>5. Cardinality(Presentes(f)) <= tabla[f].cantidad
    BY DEF CountCoversPresent
  <2>6. Cardinality(Presentes(f)') <= tabla'[f].cantidad
    BY <2>1, <2>3, <2>4, <2>5, <1>2
  <2>7. \A g \in FileTags \ {f} : tabla'[g] = tabla[g]
    BY <1>3 DEF StateOK
  <2> QED BY <2>2, <2>6, <2>7 DEF CountCoversPresent
<1> QED BY <1>5, <1>6, <1>7, <1>8

\* DELETE frees every frame of f: its count never stops it too early.
LEMMA Suelta ==
    ASSUME StateOK, FramesMatchPages, CountCoversPresent, NEW f \in FileTags, EnTabla(f),
           NEW p \in Presentes(f)
    PROVE  pagina[<<f, p>>].marco \in Soltados(f)
<1> DEFINE antes == {r \in Presentes(f) : r < p}
<1>1. Presentes(f) \subseteq Nros /\ p \in Nat /\ p \notin antes
  <2>1. Presentes(f) \subseteq Nros
    BY DEF Presentes
  <2>2. p \in Nat
    BY <2>1, Constantes
  <2> HIDE DEF Presentes
  <2> QED BY <2>1, <2>2
<1>2. IsFiniteSet(Presentes(f)) /\ Cardinality(Presentes(f)) \in Nat
  BY <1>1, NrosFinitos
<1>3. IsFiniteSet(Presentes(f) \ {p}) /\ Cardinality(Presentes(f) \ {p}) = Cardinality(Presentes(f)) - 1
  BY <1>2, FS_RemoveElement
<1>4. antes \in SUBSET (Presentes(f) \ {p})
  BY <1>1
<1>5. Cardinality(antes) <= Cardinality(Presentes(f) \ {p}) /\ Cardinality(antes) \in Nat
  BY <1>1, <1>3, <1>4, FS_Subset, NrosFinitos
<1>6. Cardinality(Presentes(f)) <= tabla[f].cantidad /\ tabla[f].cantidad \in Int
  BY DEF CountCoversPresent, StateOK, Tabla
<1>7. Cardinality(antes) < tabla[f].cantidad
  BY <1>2, <1>3, <1>5, <1>6
<1> QED BY <1>7 DEF Soltados

\* DELETE forgets a File:Tag.
LEMMA OlvidaBien ==
    ASSUME StateOK, FramesMatchPages, CountCoversPresent, NEW f \in FileTags, Olvida(f)
    PROVE  /\ tabla' \in [FileTags -> Tabla \cup {None}]
           /\ pagina' \in [Paginas -> Nodo]
           /\ marco' \in [Marcos -> Marco \cup {None}]
           /\ FramesMatchPages' /\ CountCoversPresent'
<1>1. /\ tabla' = [tabla EXCEPT ![f] = None]
      /\ pagina' = [x \in Paginas |-> IF x[1] = f THEN Ausente ELSE pagina[x]]
      /\ marco' = [m \in Marcos |-> IF EnTabla(f) /\ m \in Soltados(f) THEN None ELSE marco[m]]
  BY DEF Olvida
<1>2. /\ tabla' \in [FileTags -> Tabla \cup {None}]
      /\ pagina' \in [Paginas -> Nodo]
      /\ marco' \in [Marcos -> Marco \cup {None}]
  BY <1>1, Constantes DEF StateOK
<1>3. \A g \in FileTags \ {f} : tabla'[g] = tabla[g] /\ Presentes(g)' = Presentes(g)
  BY <1>1 DEF Presentes, Paginas, StateOK
<1>4. tabla'[f] = None
  BY <1>1 DEF StateOK
<1>5. FramesMatchPages'
  <2>1. ASSUME NEW m \in Marcos, marco'[m] # None
        PROVE  pagina'[marco'[m].de].marco = m
    <3>1. marco'[m] = marco[m] /\ ~(EnTabla(f) /\ m \in Soltados(f))
      BY <2>1, <1>1
    <3>2. PICK y \in Paginas : y = marco[m].de /\ pagina[y].marco = m
      BY <2>1, <3>1 DEF StateOK, Marco, FramesMatchPages
    <3>3. ASSUME y[1] = f PROVE FALSE
      <4>1. EnTabla(f)
        BY <3>2, <3>3, Constantes DEF FramesMatchPages
      <4>2. y[2] \in Presentes(f) /\ y = <<f, y[2]>>
        BY <3>2, <3>3, Constantes DEF Presentes, Paginas
      <4>3. m \in Soltados(f)
        BY <3>2, <4>1, <4>2, Suelta
      <4> QED BY <3>1, <4>1, <4>3
    <3> QED BY <3>1, <3>2, <3>3, <1>1
  <2>2. ASSUME NEW x \in Paginas, pagina'[x].marco # None
        PROVE  /\ EnTabla(x[1])' /\ x[2] < tabla'[x[1]].largo
               /\ marco'[pagina'[x].marco] # None
               /\ marco'[pagina'[x].marco].de = x
    <3>1. pagina'[x] = pagina[x] /\ x[1] # f /\ x[1] \in FileTags
      BY <2>2, <1>1 DEF Ausente, Paginas
    <3>2. /\ EnTabla(x[1]) /\ x[2] < tabla[x[1]].largo
          /\ marco[pagina[x].marco] # None
          /\ marco[pagina[x].marco].de = x
          /\ pagina[x].marco \in Marcos
      BY <2>2, <3>1 DEF FramesMatchPages, StateOK, Nodo
    <3>3. ASSUME EnTabla(f), pagina[x].marco \in Soltados(f) PROVE FALSE
      <4>1. PICK p \in Presentes(f) : pagina[<<f, p>>].marco = pagina[x].marco
        BY <3>3 DEF Soltados
      <4>2. <<f, p>> \in Paginas /\ pagina[<<f, p>>].marco # None
        BY DEF Presentes, Paginas
      <4>3. x = <<f, p>>
        BY <3>2, <4>1, <4>2 DEF FramesMatchPages
      <4> QED BY <3>1, <4>3
    <3>4. marco'[pagina'[x].marco] = marco[pagina[x].marco]
      BY <3>1, <3>2, <3>3, <1>1
    <3> QED BY <3>1, <3>2, <3>4, <1>3
  <2> QED BY <2>1, <2>2 DEF FramesMatchPages
<1>6. CountCoversPresent'
  BY <1>3, <1>4 DEF CountCoversPresent
<1> QED BY <1>2, <1>5, <1>6

\* A page table is created: none of its pages can have been present.
LEMMA TablaNueva ==
    ASSUME StateOK, FramesMatchPages, CountCoversPresent, NEW f \in FileTags, ~EnTabla(f),
           NEW n \in 0..MaxLen,
           tabla' = [tabla EXCEPT ![f] = [largo |-> n, cantidad |-> n]],
           pagina' = pagina, marco' = marco
    PROVE  /\ tabla' \in [FileTags -> Tabla \cup {None}]
           /\ FramesMatchPages' /\ CountCoversPresent'
<1>1. [largo |-> n, cantidad |-> n] \in Tabla
  BY Constantes DEF Tabla
<1>2. tabla' \in [FileTags -> Tabla \cup {None}]
  BY <1>1 DEF StateOK
<1>3. \A g \in FileTags : Presentes(g)' = Presentes(g)
  BY DEF Presentes
<1>4. \A x \in Paginas : pagina[x].marco # None => x[1] # f /\ x[1] \in FileTags
  BY DEF FramesMatchPages, Paginas
<1>5. \A g \in FileTags \ {f} : tabla'[g] = tabla[g]
  BY DEF StateOK
<1>6. FramesMatchPages'
  <2>1. \A m \in Marcos : marco'[m] # None => pagina'[marco'[m].de].marco = m
    BY DEF FramesMatchPages
  <2>2. ASSUME NEW x \in Paginas, pagina'[x].marco # None
        PROVE  /\ EnTabla(x[1])' /\ x[2] < tabla'[x[1]].largo
               /\ marco'[pagina'[x].marco] # None
               /\ marco'[pagina'[x].marco].de = x
    BY <2>2, <1>4, <1>5 DEF FramesMatchPages
  <2> QED BY <2>1, <2>2 DEF FramesMatchPages
<1>7. CountCoversPresent'
  <2>1. Cardinality(Presentes(f)') <= tabla'[f].cantidad
    <3>1. Presentes(f)' = {} BY <1>3, SinTabla
    <3>2. tabla'[f].cantidad = n BY DEF StateOK
    <3> QED BY <3>1, <3>2, FS_EmptySet
  <2> QED BY <2>1, <1>3, <1>5 DEF CountCoversPresent
<1> QED BY <1>2, <1>6, <1>7

-----------------------------------------------------------------------------
(* A page comes to memory.                                                 *)

\* The two invariants of any tables t, pages pg and frames mc.
EnMarco(pg, f) == {p \in Nros : pg[<<f, p>>].marco # None}

Encajan(t, pg, mc) ==
    /\ \A m \in Marcos : mc[m] # None => mc[m].de \in Paginas /\ pg[mc[m].de].marco = m
    /\ \A x \in Paginas : pg[x].marco # None =>
          /\ pg[x].marco \in Marcos
          /\ t[x[1]] # None /\ x[2] < t[x[1]].largo
          /\ mc[pg[x].marco] # None
          /\ mc[pg[x].marco].de = x

Cubren(t, pg) ==
    \A f \in FileTags : t[f] # None => Cardinality(EnMarco(pg, f)) <= t[f].cantidad

\* The invariants are these, of the variables,
LEMMA Formas ==
    /\ StateOK /\ FramesMatchPages => Encajan(tabla, pagina, marco)
    /\ CountCoversPresent => Cubren(tabla, pagina)
<1>1. ASSUME StateOK, FramesMatchPages PROVE Encajan(tabla, pagina, marco)
  <2>1. \A m \in Marcos : marco[m] # None => marco[m].de \in Paginas
    BY <1>1 DEF StateOK, Marco
  <2>2. \A x \in Paginas : pagina[x].marco # None => pagina[x].marco \in Marcos
    BY <1>1 DEF StateOK, Nodo
  <2> QED BY <1>1, <2>1, <2>2 DEF Encajan, FramesMatchPages
<1>2. ASSUME CountCoversPresent PROVE Cubren(tabla, pagina)
  BY <1>2 DEF CountCoversPresent, Cubren, EnMarco, Presentes
<1> QED BY <1>1, <1>2

\* and of the next state.
LEMMA FormasSiguientes ==
    /\ Encajan(tabla', pagina', marco') => FramesMatchPages'
    /\ Cubren(tabla', pagina') => CountCoversPresent'
<1>1. Encajan(tabla', pagina', marco') => FramesMatchPages'
  BY DEF Encajan, FramesMatchPages
<1>2. Cubren(tabla', pagina') => CountCoversPresent'
  BY DEF CountCoversPresent, Cubren, EnMarco, Presentes
<1> QED BY <1>1, <1>2

\* A page y that was not present goes to a free frame m, and its table counts it.
LEMMA EntraPagina ==
    ASSUME NEW t, NEW pg, NEW mc, Encajan(t, pg, mc), Cubren(t, pg),
           NEW t2, NEW pg2, NEW mc2,
           NEW y \in Paginas, NEW m \in Marcos,
           mc[m] = None, pg[y].marco = None,
           t[y[1]] # None, t[y[1]].cantidad \in Int, y[2] < t[y[1]].largo,
           t2[y[1]] # None, t2[y[1]].largo = t[y[1]].largo, t2[y[1]].cantidad = t[y[1]].cantidad + 1,
           \A f \in FileTags : f # y[1] => t2[f] = t[f],
           \A x \in Paginas : x # y => pg2[x].marco = pg[x].marco,
           pg2[y].marco = m,
           \A n \in Marcos : n # m => mc2[n] = mc[n],
           mc2[m] # None, mc2[m].de = y
    PROVE  Encajan(t2, pg2, mc2) /\ Cubren(t2, pg2)
<1>1. Encajan(t2, pg2, mc2)
  <2>1. ASSUME NEW n \in Marcos, mc2[n] # None
        PROVE  mc2[n].de \in Paginas /\ pg2[mc2[n].de].marco = n
    <3>1. CASE n = m
      BY <3>1
    <3>2. CASE n # m
      <4>1. mc2[n] = mc[n] /\ mc[n].de \in Paginas /\ pg[mc[n].de].marco = n
        BY <2>1, <3>2 DEF Encajan
      <4>2. mc[n].de # y
        BY <4>1, Constantes
      <4> QED BY <4>1, <4>2
    <3> QED BY <3>1, <3>2
  <2>2. ASSUME NEW x \in Paginas, pg2[x].marco # None
        PROVE  /\ pg2[x].marco \in Marcos
               /\ t2[x[1]] # None /\ x[2] < t2[x[1]].largo
               /\ mc2[pg2[x].marco] # None
               /\ mc2[pg2[x].marco].de = x
    <3>1. CASE x = y
      BY <3>1
    <3>2. CASE x # y
      <4>1. pg2[x].marco = pg[x].marco
        BY <3>2
      <4>2. /\ pg[x].marco \in Marcos
            /\ t[x[1]] # None /\ x[2] < t[x[1]].largo
            /\ mc[pg[x].marco] # None /\ mc[pg[x].marco].de = x
        BY <2>2, <4>1 DEF Encajan
      <4>3. pg[x].marco # m
        BY <4>2
      <4>4. t2[x[1]] # None /\ x[2] < t2[x[1]].largo
        <5>1. x[1] \in FileTags
          BY DEF Paginas
        <5> QED BY <4>2, <5>1
      <4> QED BY <4>1, <4>2, <4>3, <4>4
    <3> QED BY <3>1, <3>2
  <2> QED BY <2>1, <2>2 DEF Encajan
<1>2. Cubren(t2, pg2)
  <2>1. y = <<y[1], y[2]>> /\ y[1] \in FileTags /\ y[2] \in Nros
    BY DEF Paginas
  <2>2. EnMarco(pg2, y[1]) = EnMarco(pg, y[1]) \cup {y[2]}
    <3>1. ASSUME NEW p \in Nros
          PROVE  pg2[<<y[1], p>>].marco # None <=> pg[<<y[1], p>>].marco # None \/ p = y[2]
      <4>1. CASE p = y[2]
        BY <2>1, <4>1, Constantes
      <4>2. CASE p # y[2]
        <5>1. <<y[1], p>> \in Paginas /\ <<y[1], p>> # y
          BY <2>1, <4>2 DEF Paginas
        <5> QED BY <4>2, <5>1
      <4> QED BY <4>1, <4>2
    <3> QED BY <2>1, <3>1 DEF EnMarco
  <2>3. y[2] \notin EnMarco(pg, y[1]) /\ EnMarco(pg, y[1]) \subseteq Nros
    BY <2>1 DEF EnMarco
  <2>4. IsFiniteSet(EnMarco(pg, y[1])) /\ Cardinality(EnMarco(pg, y[1])) \in Nat
    BY <2>3, NrosFinitos
  <2>5. Cardinality(EnMarco(pg2, y[1])) = Cardinality(EnMarco(pg, y[1])) + 1
    BY <2>2, <2>3, <2>4, FS_AddElement
  <2>6. Cardinality(EnMarco(pg, y[1])) <= t[y[1]].cantidad
    BY <2>1 DEF Cubren
  <2>7. Cardinality(EnMarco(pg2, y[1])) <= t2[y[1]].cantidad
    BY <2>4, <2>5, <2>6
  <2>8. ASSUME NEW f \in FileTags, f # y[1]
        PROVE  EnMarco(pg2, f) = EnMarco(pg, f)
    <3>1. \A p \in Nros : <<f, p>> \in Paginas /\ <<f, p>> # y
      BY <2>1, <2>8 DEF Paginas
    <3> QED BY <3>1 DEF EnMarco
  <2> QED BY <2>7, <2>8 DEF Cubren
<1> QED BY <1>1, <1>2

\* The page v leaves its frame, and the table of another File:Tag goes with its last page.
LEMMA SalePagina ==
    ASSUME NEW t, NEW pg, NEW mc, Encajan(t, pg, mc), Cubren(t, pg),
           NEW t2, NEW pg2, NEW mc2,
           NEW m \in Marcos, mc[m] # None, NEW v, v = mc[m].de,
           t[v[1]].cantidad \in Int,
           \/ t2[v[1]] = None /\ t[v[1]].cantidad = 1
           \/ /\ t2[v[1]] # None /\ t2[v[1]].largo = t[v[1]].largo
              /\ t2[v[1]].cantidad = t[v[1]].cantidad - 1,
           \A f \in FileTags : f # v[1] => t2[f] = t[f],
           \A x \in Paginas : IF x = v \/ t2[x[1]] = None THEN pg2[x].marco = None
                                                         ELSE pg2[x].marco = pg[x].marco,
           \A n \in Marcos : n # m => mc2[n] = mc[n],
           mc2[m] = None
    PROVE  Encajan(t2, pg2, mc2) /\ Cubren(t2, pg2)
<1>1. /\ v \in Paginas /\ pg[v].marco = m /\ t[v[1]] # None
      /\ v = <<v[1], v[2]>> /\ v[1] \in FileTags /\ v[2] \in Nros
  <2>1. v \in Paginas /\ pg[v].marco = m
    BY DEF Encajan
  <2> QED BY <2>1, Constantes DEF Encajan, Paginas
<1>2. /\ v[2] \in EnMarco(pg, v[1]) /\ EnMarco(pg, v[1]) \subseteq Nros
      /\ IsFiniteSet(EnMarco(pg, v[1])) /\ Cardinality(EnMarco(pg, v[1])) \in Nat
      /\ Cardinality(EnMarco(pg, v[1])) <= t[v[1]].cantidad
  <2>1. EnMarco(pg, v[1]) \subseteq Nros
    BY DEF EnMarco
  <2>2. pg[<<v[1], v[2]>>].marco # None
    BY <1>1, Constantes
  <2>3. v[2] \in EnMarco(pg, v[1])
    BY <1>1, <2>2 DEF EnMarco
  <2> QED BY <1>1, <2>1, <2>3, NrosFinitos DEF Cubren
<1>3. /\ IsFiniteSet(EnMarco(pg, v[1]) \ {v[2]})
      /\ Cardinality(EnMarco(pg, v[1]) \ {v[2]}) = Cardinality(EnMarco(pg, v[1])) - 1
  BY <1>2, FS_RemoveElement
\* Where the table goes, no other page of it was present.
<1>4. ASSUME t2[v[1]] = None, NEW x \in Paginas, x[1] = v[1], x # v
      PROVE  pg[x].marco = None
  <2>1. Cardinality(EnMarco(pg, v[1]) \ {v[2]}) = 0
    <3>1. Cardinality(EnMarco(pg, v[1]) \ {v[2]}) \in Nat
      BY <1>3, FS_CardinalityType
    <3> QED BY <1>2, <1>3, <1>4, <3>1
  <2>2. EnMarco(pg, v[1]) \ {v[2]} = {}
    BY <1>3, <2>1, FS_EmptySet
  <2>3. x = <<v[1], x[2]>> /\ x[2] \in Nros /\ x[2] # v[2]
    BY <1>1, <1>4 DEF Paginas
  <2> QED BY <2>2, <2>3 DEF EnMarco
<1>5. ASSUME NEW x \in Paginas, pg2[x].marco # None
      PROVE  pg2[x].marco = pg[x].marco /\ x # v /\ t2[x[1]] # None
  BY <1>5
<1>6. ASSUME NEW x \in Paginas, x # v, pg[x].marco # None
      PROVE  pg2[x].marco = pg[x].marco /\ t2[x[1]] # None
  <2>1. x[1] \in FileTags /\ t[x[1]] # None
    BY <1>6 DEF Encajan, Paginas
  <2>2. CASE x[1] = v[1]
    <3>1. t2[v[1]] # None
      BY <1>4, <1>6, <2>2
    <3> QED BY <1>6, <2>2, <3>1
  <2>3. CASE x[1] # v[1]
    BY <1>6, <2>1, <2>3
  <2> QED BY <2>2, <2>3
<1>7. Encajan(t2, pg2, mc2)
  <2>1. ASSUME NEW n \in Marcos, mc2[n] # None
        PROVE  mc2[n].de \in Paginas /\ pg2[mc2[n].de].marco = n
    <3>1. n # m /\ mc2[n] = mc[n] /\ mc[n].de \in Paginas /\ pg[mc[n].de].marco = n
      BY <2>1 DEF Encajan
    <3>2. mc[n].de # v /\ pg[mc[n].de].marco # None
      BY <1>1, <3>1, Constantes
    <3> QED BY <1>6, <3>1, <3>2
  <2>2. ASSUME NEW x \in Paginas, pg2[x].marco # None
        PROVE  /\ pg2[x].marco \in Marcos
               /\ t2[x[1]] # None /\ x[2] < t2[x[1]].largo
               /\ mc2[pg2[x].marco] # None
               /\ mc2[pg2[x].marco].de = x
    <3>1. pg2[x].marco = pg[x].marco /\ x # v /\ t2[x[1]] # None /\ x[1] \in FileTags
      BY <1>5, <2>2 DEF Paginas
    <3>2. /\ pg[x].marco \in Marcos /\ x[2] < t[x[1]].largo
          /\ mc[pg[x].marco] # None /\ mc[pg[x].marco].de = x
      BY <2>2, <3>1 DEF Encajan
    <3>3. pg[x].marco # m
      BY <3>1, <3>2
    <3>4. x[2] < t2[x[1]].largo
      BY <3>1, <3>2
    <3> QED BY <3>1, <3>2, <3>3, <3>4
  <2> QED BY <2>1, <2>2 DEF Encajan
<1>8. ASSUME NEW f \in FileTags, t2[f] # None
      PROVE  Cardinality(EnMarco(pg2, f)) <= t2[f].cantidad
  <2>1. CASE f = v[1]
    <3>1. EnMarco(pg2, f) = EnMarco(pg, f) \ {v[2]}
      <4>1. ASSUME NEW p \in Nros
            PROVE  pg2[<<f, p>>].marco # None <=> pg[<<f, p>>].marco # None /\ p # v[2]
        <5>1. <<f, p>> \in Paginas /\ (<<f, p>> = v <=> p = v[2])
          BY <1>1, <2>1 DEF Paginas
        <5>2. <<f, p>>[1] = f
          OBVIOUS
        <5> QED BY <5>1, <5>2, <1>8
      <4> QED BY <4>1 DEF EnMarco
    <3>2. Cardinality(EnMarco(pg2, f)) = Cardinality(EnMarco(pg, v[1])) - 1
      BY <1>3, <2>1, <3>1
    <3>3. t2[f].cantidad = t[v[1]].cantidad - 1
      BY <1>8, <2>1
    <3> QED BY <1>2, <3>2, <3>3
  <2>2. CASE f # v[1]
    <3>1. EnMarco(pg2, f) = EnMarco(pg, f)
      <4>1. ASSUME NEW p \in Nros
            PROVE  pg2[<<f, p>>].marco = pg[<<f, p>>].marco
        <5>1. <<f, p>> \in Paginas /\ <<f, p>> # v /\ <<f, p>>[1] = f
          BY <1>1, <2>2 DEF Paginas
        <5> QED BY <5>1, <1>8
      <4> QED BY <4>1 DEF EnMarco
    <3>2. t2[f] = t[f]
      BY <2>2
    <3> QED BY <1>8, <3>1, <3>2 DEF Cubren
  <2> QED BY <2>1, <2>2
<1> QED BY <1>7, <1>8 DEF Cubren

\* Where a page that is asked for has its place.
LEMMA EnSuPagina ==
    ASSUME StateOK, EnLargo
    PROVE  /\ ins.ft \in FileTags /\ ins.pag \in Nros
           /\ Actual \in Paginas /\ Actual[1] = ins.ft /\ Actual[2] = ins.pag
           /\ tabla[ins.ft] \in Tabla /\ tabla[ins.ft] # None
           /\ tabla[ins.ft].largo \in Nat /\ tabla[ins.ft].cantidad \in Int
           /\ ins.pag < tabla[ins.ft].largo
<1>1. ins.ft \in FileTags /\ ins.pag \in Nat
  BY DEF StateOK, AccessOK, EnLargo, EnPagina
<1>2. tabla[ins.ft] \in Tabla /\ tabla[ins.ft] # None /\ ins.pag < tabla[ins.ft].largo
  BY <1>1 DEF StateOK, EnLargo
<1>3. tabla[ins.ft].largo \in 0..MaxLen /\ tabla[ins.ft].cantidad \in Int
  BY <1>2 DEF Tabla
<1>4. ins.pag \in Nros
  BY <1>1, <1>2, <1>3, Constantes
<1> QED BY <1>1, <1>2, <1>3, <1>4, Constantes DEF Paginas

\* The frame holds the page that was asked for.
LEMMA CargadoBien ==
    ASSUME StateOK, Falta
    PROVE  Cargado \in Marco /\ Cargado # None /\ Cargado.de = Actual
<1>1. ins.pag \in Nat /\ ins.ft \in FileTags /\ Actual \in Paginas
  BY EnSuPagina, Constantes DEF Falta
<1>2. files[ins.ft] \in Storage!File /\ ins.pag < Len(files[ins.ft].data)
  BY <1>1 DEF StateOK, Falta
<1>3. files[ins.ft].data[ins.pag + 1] \in Contenido
  BY <1>1, <1>2, Contenidos
<1>4. Cargado \in Marco
  BY <1>1, <1>3 DEF Cargado, Marco
<1> QED BY <1>4, StorageAssumption DEF Cargado

\* The types and the invariants of the memory.
MemOK ==
    /\ tabla \in [FileTags -> Tabla \cup {None}]
    /\ pagina \in [Paginas -> Nodo]
    /\ marco \in [Marcos -> Marco \cup {None}]
    /\ clock \in Marcos
    /\ FramesMatchPages /\ CountCoversPresent

\* A page comes to a free frame.
LEMMA CargaEnLibreBien ==
    ASSUME Inv, CargaEnLibre
    PROVE  MemOK'
<1>1. Falta /\ StateOK /\ FramesMatchPages /\ CountCoversPresent
  BY DEF CargaEnLibre, Inv
<1>2. PICK m \in Marcos :
        /\ marco[m] = None
        /\ tabla' = UnaMas(tabla, ins.ft)
        /\ pagina' = [pagina EXCEPT ![Actual].marco = m]
        /\ marco' = [marco EXCEPT ![m] = Cargado]
        /\ clock' = clock
  BY DEF CargaEnLibre, MarcoLibre
<1>3. /\ ins.ft \in FileTags /\ ins.pag \in Nros
      /\ Actual \in Paginas /\ Actual[1] = ins.ft /\ Actual[2] = ins.pag
      /\ tabla[ins.ft] \in Tabla /\ tabla[ins.ft] # None
      /\ tabla[ins.ft].cantidad \in Int /\ ins.pag < tabla[ins.ft].largo
      /\ pagina[Actual].marco = None
  BY <1>1, EnSuPagina DEF Falta
<1>4. Cargado \in Marco /\ Cargado # None /\ Cargado.de = Actual
  BY <1>1, CargadoBien
<1>5. tabla' = [tabla EXCEPT ![ins.ft] = [tabla[ins.ft] EXCEPT !.cantidad = tabla[ins.ft].cantidad + 1]]
  BY <1>2 DEF UnaMas
<1>6. [tabla[ins.ft] EXCEPT !.cantidad = tabla[ins.ft].cantidad + 1] \in Tabla
  BY <1>3 DEF Tabla
<1>7. /\ tabla'[ins.ft] # None /\ tabla'[ins.ft].largo = tabla[ins.ft].largo
      /\ tabla'[ins.ft].cantidad = tabla[ins.ft].cantidad + 1
      /\ \A f \in FileTags : f # ins.ft => tabla'[f] = tabla[f]
      /\ tabla' \in [FileTags -> Tabla \cup {None}]
  <2>1. tabla'[ins.ft] = [tabla[ins.ft] EXCEPT !.cantidad = tabla[ins.ft].cantidad + 1]
    BY <1>1, <1>3, <1>5 DEF StateOK
  <2>2. tabla'[ins.ft].largo = tabla[ins.ft].largo /\ tabla'[ins.ft].cantidad = tabla[ins.ft].cantidad + 1
    BY <1>3, <2>1 DEF Tabla
  <2>3. tabla'[ins.ft] # None
    BY <1>6, <2>1, StorageAssumption
  <2>4. /\ \A f \in FileTags : f # ins.ft => tabla'[f] = tabla[f]
        /\ tabla' \in [FileTags -> Tabla \cup {None}]
    BY <1>1, <1>5, <1>6 DEF StateOK
  <2> QED BY <2>2, <2>3, <2>4
<1>8. /\ pagina' \in [Paginas -> Nodo] /\ pagina'[Actual].marco = m
      /\ \A x \in Paginas : x # Actual => pagina'[x].marco = pagina[x].marco
  BY <1>1, <1>2, <1>3 DEF StateOK, Nodo
<1>9. /\ marco' \in [Marcos -> Marco \cup {None}] /\ marco'[m] = Cargado
      /\ \A n \in Marcos : n # m => marco'[n] = marco[n]
  BY <1>1, <1>2, <1>4 DEF StateOK
<1>10. Encajan(tabla', pagina', marco') /\ Cubren(tabla', pagina')
  <2>1. Encajan(tabla, pagina, marco) /\ Cubren(tabla, pagina)
    BY <1>1, Formas
  <2>2. PICK y \in Paginas : y = Actual /\ y[1] = ins.ft /\ y[2] = ins.pag
    BY <1>3
  <2>3. /\ marco[m] = None /\ pagina[y].marco = None
        /\ tabla[y[1]] # None /\ tabla[y[1]].cantidad \in Int /\ y[2] < tabla[y[1]].largo
    BY <1>2, <1>3, <2>2
  <2>4. /\ tabla'[y[1]] # None /\ tabla'[y[1]].largo = tabla[y[1]].largo
        /\ tabla'[y[1]].cantidad = tabla[y[1]].cantidad + 1
        /\ \A f \in FileTags : f # y[1] => tabla'[f] = tabla[f]
    BY <1>7, <2>2
  <2>5. /\ \A x \in Paginas : x # y => pagina'[x].marco = pagina[x].marco
        /\ pagina'[y].marco = m
        /\ \A n \in Marcos : n # m => marco'[n] = marco[n]
        /\ marco'[m] # None /\ marco'[m].de = y
    BY <1>4, <1>8, <1>9, <2>2
  <2> QED BY <2>1, <2>3, <2>4, <2>5, EntraPagina, SMTT(40)
<1> QED BY <1>1, <1>2, <1>7, <1>8, <1>9, <1>10, FormasSiguientes DEF MemOK, StateOK

\* What the storage has after it was sent pages of the memory.
LEMMA GuardadasBien ==
    ASSUME StateOK, FramesMatchPages, NEW P, P \subseteq {x \in Paginas : pagina[x].marco # None}
    PROVE  /\ Guardadas(P) \in [FileTags -> Storage!File \cup {None}]
           /\ \A f \in FileTags : Exists(f) => Guardadas(P)[f] \in Storage!File
<1> SUFFICES ASSUME NEW f \in FileTags
             PROVE  IF Exists(f) THEN Guardadas(P)[f] \in Storage!File ELSE Guardadas(P)[f] = None
  BY DEF Guardadas
<1>1. CASE Exists(f)
  <2> DEFINE F == files[f]
             G(i) == IF <<f, i - 1>> \in P /\ Acepta(<<f, i - 1>>)
                     THEN marco[pagina[<<f, i - 1>>].marco].bytes ELSE F.data[i]
  <2>1. F \in Storage!File
    BY <1>1 DEF StateOK
  <2>2. PICK k \in 0..MaxLen : k = Len(F.data) /\ F.data \in [1..k -> Contenido]
    BY <2>1, Contenidos
  <2>3. ASSUME NEW i \in 1..k PROVE G(i) \in Contenido
    <3>1. CASE <<f, i - 1>> \in P
      <4>1. <<f, i - 1>> \in Paginas /\ pagina[<<f, i - 1>>].marco \in Marcos
        BY <3>1 DEF StateOK, Nodo
      <4>2. marco[pagina[<<f, i - 1>>].marco] \in Marco
        BY <3>1, <4>1 DEF StateOK, FramesMatchPages
      <4> QED BY <2>2, <4>2 DEF Marco
    <3>2. CASE <<f, i - 1>> \notin P
      BY <2>2, <3>2
    <3> QED BY <3>1, <3>2
  <2>4. [i \in 1..k |-> G(i)] \in Storage!Contents
    BY <2>3 DEF Storage!Contents
  <2>5. DOMAIN F.data = 1..k
    BY <2>2
  <2>6. Guardadas(P)[f] = [F EXCEPT !.data = [i \in 1..k |-> G(i)]]
    BY <1>1, <2>5 DEF Guardadas
  <2> HIDE DEF G
  <2> QED BY <1>1, <2>1, <2>4, <2>6 DEF Storage!File
<1>2. CASE ~Exists(f)
  BY <1>2 DEF Guardadas
<1> QED BY <1>1, <1>2

\* Only pages in memory are modified.
LEMMA SuciasPresentes ==
    ASSUME NEW fs \in SUBSET FileTags
    PROVE  Sucias(fs) \subseteq {x \in Paginas : pagina[x].marco # None}
BY DEF Sucias, Paginas

\* FLUSH touches only the modified bits.
LEMMA LimpiasBien ==
    ASSUME StateOK, FramesMatchPages, CountCoversPresent, NEW fs \in SUBSET FileTags,
           pagina' = Limpias(fs), UNCHANGED <<tabla, marco>>
    PROVE  pagina' \in [Paginas -> Nodo] /\ FramesMatchPages' /\ CountCoversPresent'
<1>1. pagina' \in [Paginas -> Nodo] /\ \A x \in Paginas : pagina'[x].marco = pagina[x].marco
  BY DEF Limpias, StateOK, Nodo
<1> QED BY <1>1, MismaForma

\* Where the hand of the clock can be.
LEMMA Vueltas ==
    ASSUME NEW m \in Marcos
    PROVE  (m + 1) % CantidadMarcos \in Marcos
BY WorkerAssumption DEF Marcos

\* A page takes the frame of another.
LEMMA CargaEnVictimaBien ==
    ASSUME Inv, CargaEnVictima
    PROVE  MemOK' /\ FilesOK'
<1>1. Falta /\ StateOK /\ FramesMatchPages /\ CountCoversPresent
  BY DEF CargaEnVictima, Inv
<1> DEFINE Sin(v) == [tabla EXCEPT ![v[1]] = UnaMenos(v[1], ins.ft)]
           Pg(v, m, pasadas) == [x \in Paginas |->
                  IF x = Actual THEN [pagina[x] EXCEPT !.marco = m]
                  ELSE IF x = v \/ Sin(v)[x[1]] = None THEN Ausente
                  ELSE [pagina[x] EXCEPT !.uso = @ /\ x \notin pasadas]]
<1>2. PICK m \in Marcos, pasadas \in SUBSET Paginas :
        /\ Elige(m, pasadas)
        /\ files' = Guardadas({marco[m].de} \cap Sucias(FileTags))
        /\ tabla' = UnaMas(Sin(marco[m].de), ins.ft)
        /\ pagina' = Pg(marco[m].de, m, pasadas)
        /\ marco' = [marco EXCEPT ![m] = Cargado]
  BY DEF CargaEnVictima
<1>3. FilesOK'
  <2>1. {marco[m].de} \cap Sucias(FileTags) \subseteq {x \in Paginas : pagina[x].marco # None}
    BY SuciasPresentes
  <2> QED BY <1>1, <1>2, <2>1, GuardadasBien DEF FilesOK
<1>4. clock' \in Marcos
  BY <1>1, <1>2, Vueltas DEF Elige, StateOK
<1>5. marco[m] # None
  BY <1>1 DEF CargaEnVictima, MarcoLibre
<1>6. PICK v \in Paginas : /\ v = marco[m].de /\ pagina[v].marco = m
                           /\ v[1] \in FileTags /\ v[2] \in Nros
                           /\ tabla[v[1]] # None /\ tabla[v[1]] \in Tabla
  <2>1. marco[m].de \in Paginas /\ pagina[marco[m].de].marco = m
    BY <1>1, <1>5 DEF StateOK, Marco, FramesMatchPages
  <2>2. marco[m].de[1] \in FileTags /\ marco[m].de[2] \in Nros
    BY <2>1 DEF Paginas
  <2>3. tabla[marco[m].de[1]] # None
    BY <1>1, <2>1, Constantes DEF FramesMatchPages
  <2> QED BY <1>1, <2>1, <2>2, <2>3 DEF StateOK
<1>7. PICK y \in Paginas : /\ y = Actual /\ y[1] = ins.ft /\ y[2] = ins.pag
                           /\ y[1] \in FileTags
                           /\ tabla[y[1]] \in Tabla /\ tabla[y[1]] # None
                           /\ y[2] < tabla[y[1]].largo /\ pagina[y].marco = None
  BY <1>1, EnSuPagina DEF Falta
<1>8. y # v
  BY <1>6, <1>7, Constantes
<1>9. Cargado \in Marco /\ Cargado # None /\ Cargado.de = y
  BY <1>1, <1>7, CargadoBien
\* The memory without the victim.
<1> DEFINE t1 == Sin(v)
           p1 == [x \in Paginas |-> IF x = v \/ t1[x[1]] = None THEN Ausente ELSE pagina[x]]
           m1 == [marco EXCEPT ![m] = None]
<1>10. /\ t1 \in [FileTags -> Tabla \cup {None}]
       /\ \/ t1[v[1]] = None /\ tabla[v[1]].cantidad = 1 /\ v[1] # y[1]
          \/ /\ t1[v[1]] # None /\ t1[v[1]] \in Tabla /\ t1[v[1]].largo = tabla[v[1]].largo
             /\ t1[v[1]].cantidad = tabla[v[1]].cantidad - 1
       /\ \A f \in FileTags : f # v[1] => t1[f] = tabla[f]
  <2>1. t1[v[1]] = UnaMenos(v[1], y[1]) /\ \A f \in FileTags : f # v[1] => t1[f] = tabla[f]
    BY <1>1, <1>6, <1>7 DEF StateOK
  <2>2. \/ UnaMenos(v[1], y[1]) = None /\ tabla[v[1]].cantidad = 1 /\ v[1] # y[1]
        \/ UnaMenos(v[1], y[1]) = [tabla[v[1]] EXCEPT !.cantidad = tabla[v[1]].cantidad - 1]
    BY DEF UnaMenos
  <2>3. LET T == [tabla[v[1]] EXCEPT !.cantidad = tabla[v[1]].cantidad - 1]
        IN  /\ T \in Tabla /\ T.largo = tabla[v[1]].largo
            /\ T.cantidad = tabla[v[1]].cantidad - 1
    BY <1>6 DEF Tabla
  <2>4. UnaMenos(v[1], y[1]) \in Tabla \cup {None}
    BY <2>2, <2>3
  <2>5. t1 \in [FileTags -> Tabla \cup {None}]
    BY <1>1, <1>7, <2>4 DEF StateOK
  <2> QED BY <2>1, <2>2, <2>3, <2>5, StorageAssumption
<1>11. /\ \A x \in Paginas : IF x = v \/ t1[x[1]] = None THEN p1[x].marco = None
                                                          ELSE p1[x].marco = pagina[x].marco
       /\ \A n \in Marcos : n # m => m1[n] = marco[n]
       /\ m1[m] = None
  BY <1>1 DEF Ausente, StateOK
<1>12. tabla[v[1]].cantidad \in Int
  BY <1>6 DEF Tabla
<1>13. Encajan(t1, p1, m1) /\ Cubren(t1, p1)
  <2>1. Encajan(tabla, pagina, marco) /\ Cubren(tabla, pagina)
    BY <1>1, Formas
  <2>2. v = marco[m].de
    BY <1>6
  <2>3. /\ \/ t1[v[1]] = None /\ tabla[v[1]].cantidad = 1
           \/ /\ t1[v[1]] # None /\ t1[v[1]].largo = tabla[v[1]].largo
              /\ t1[v[1]].cantidad = tabla[v[1]].cantidad - 1
        /\ \A f \in FileTags : f # v[1] => t1[f] = tabla[f]
    BY <1>10
  <2> HIDE DEF t1, p1, m1
  <2> QED BY <1>5, <1>11, <1>12, <2>1, <2>2, <2>3, SalePagina
\* And with the page that was asked for.
<1>14. /\ t1[y[1]] # None /\ t1[y[1]] \in Tabla /\ t1[y[1]].cantidad \in Int
       /\ t1[y[1]].largo = tabla[y[1]].largo
  <2>1. t1[y[1]] # None /\ t1[y[1]].largo = tabla[y[1]].largo /\ t1[y[1]] \in Tabla
    BY <1>7, <1>10
  <2> QED BY <2>1 DEF Tabla
<1>15. /\ tabla' \in [FileTags -> Tabla \cup {None}]
       /\ tabla'[y[1]] # None /\ tabla'[y[1]].largo = t1[y[1]].largo
       /\ tabla'[y[1]].cantidad = t1[y[1]].cantidad + 1
       /\ \A f \in FileTags : f # y[1] => tabla'[f] = t1[f]
  <2> DEFINE T == [t1[y[1]] EXCEPT !.cantidad = t1[y[1]].cantidad + 1]
  <2>1. tabla' = [t1 EXCEPT ![y[1]] = T]
    BY <1>2, <1>6, <1>7 DEF UnaMas
  <2>2. T \in Tabla /\ T.largo = t1[y[1]].largo /\ T.cantidad = t1[y[1]].cantidad + 1
    BY <1>14 DEF Tabla
  <2>3. T # None
    BY <2>2, StorageAssumption
  <2>4. t1 \in [FileTags -> Tabla \cup {None}]
    BY <1>10
  <2> HIDE DEF t1, T
  <2> QED BY <1>7, <2>1, <2>2, <2>3, <2>4
<1>16. /\ pagina' \in [Paginas -> Nodo] /\ pagina'[y].marco = m
       /\ \A x \in Paginas : x # y => pagina'[x].marco = p1[x].marco
  <2> HIDE DEF Actual
  <2>1. \A x \in Paginas : pagina[x] \in Nodo
    BY <1>1 DEF StateOK
  <2>2. \A x \in Paginas : pagina'[x] =
                  IF x = y THEN [pagina[x] EXCEPT !.marco = m]
                  ELSE IF x = v \/ t1[x[1]] = None THEN Ausente
                  ELSE [pagina[x] EXCEPT !.uso = @ /\ x \notin pasadas]
    BY <1>2, <1>6, <1>7
  <2>5. \A x \in Paginas : p1[x] = IF x = v \/ t1[x[1]] = None THEN Ausente ELSE pagina[x]
    OBVIOUS
  <2> HIDE DEF t1, p1
  <2>3. ASSUME NEW x \in Paginas
        PROVE  /\ pagina'[x] \in Nodo
               /\ x = y => pagina'[x].marco = m
               /\ x # y => pagina'[x].marco = p1[x].marco
    <3>1. CASE x = y
      <4>1. pagina'[x] = [pagina[x] EXCEPT !.marco = m]
        BY <2>2, <3>1
      <4>2. pagina'[x] \in Nodo /\ pagina'[x].marco = m
        BY <2>1, <4>1 DEF Nodo
      <4> QED BY <3>1, <4>2
    <3>2. CASE x # y /\ (x = v \/ t1[x[1]] = None)
      <4>1. pagina'[x] = Ausente
        BY <2>2, <3>2
      <4>2. p1[x] = Ausente
        BY <2>5, <3>2
      <4> QED BY <3>2, <4>1, <4>2, Constantes
    <3>3. CASE x # y /\ ~(x = v \/ t1[x[1]] = None)
      <4>1. pagina'[x] = [pagina[x] EXCEPT !.uso = @ /\ x \notin pasadas]
        BY <2>2, <3>3
      <4>2. pagina'[x] \in Nodo /\ pagina'[x].marco = pagina[x].marco
        BY <2>1, <4>1 DEF Nodo
      <4>3. p1[x] = pagina[x]
        BY <2>5, <3>3
      <4> QED BY <3>3, <4>2, <4>3
    <3> QED BY <3>1, <3>2, <3>3
  <2>4. DOMAIN pagina' = Paginas /\ pagina' = [x \in Paginas |-> pagina'[x]]
    BY <1>2
  <2> QED BY <2>3, <2>4
<1>17. /\ marco' \in [Marcos -> Marco \cup {None}] /\ marco'[m] = Cargado
       /\ \A n \in Marcos : n # m => marco'[n] = m1[n]
  BY <1>1, <1>2, <1>9 DEF StateOK
<1>18. Encajan(tabla', pagina', marco') /\ Cubren(tabla', pagina')
  <2>1. m1[m] = None /\ p1[y].marco = None /\ y[2] < t1[y[1]].largo
    <3>1. p1[y] = pagina[y]
      BY <1>8, <1>14
    <3> QED BY <1>7, <1>11, <1>14, <3>1
  <2>2. marco'[m] # None /\ marco'[m].de = y
    BY <1>9, <1>17
  <2> HIDE DEF t1, p1, m1
  <2> QED BY <1>13, <1>14, <1>15, <1>16, <1>17, <2>1, <2>2, EntraPagina, SMTT(40)
<1> QED BY <1>3, <1>4, <1>15, <1>16, <1>17, <1>18, FormasSiguientes DEF MemOK

-----------------------------------------------------------------------------
(* The steps.                                                              *)

CicloOK ==
    /\ algoritmo \in Algoritmos
    /\ fase \in {"espera", "fetch", "pagina", "consulta"}
    /\ error \in BOOLEAN /\ up \in BOOLEAN /\ fault \in BOOLEAN
    /\ AccessOK

\* The invariant in parts: the storage, the memory, the cycle.
LEMMA Partes ==
    /\ Inv => FilesOK /\ MemOK /\ CicloOK
    /\ FilesOK' /\ MemOK' /\ CicloOK' => Inv'
BY DEF Inv, StateOK, FilesOK, MemOK, CicloOK

\* A step that does not touch the memory.
LEMMA MemIgual ==
    ASSUME MemOK, UNCHANGED mem
    PROVE  MemOK'
<1>1. \A f \in FileTags : Presentes(f)' = Presentes(f)
  BY DEF mem, Presentes
<1> QED BY <1>1 DEF MemOK, mem, FramesMatchPages, CountCoversPresent

\* The worker ends.
LEMMA TerminaBien ==
    ASSUME Inv, Termina
    PROVE  MemOK' /\ CicloOK'
<1>1. /\ tabla' = [f \in FileTags |-> None]
      /\ pagina' = [x \in Paginas |-> Ausente]
      /\ marco' = [m \in Marcos |-> None]
      /\ clock' = 0
  BY DEF Termina, MemoriaVacia
<1>2. MemOK'
  BY <1>1, Constantes, Vacia DEF MemOK
<1>3. CicloOK'
  BY DEF Termina, Inv, StateOK, CicloOK, AccessOK
<1> QED BY <1>2, <1>3

\* An instruction is over.
LEMMA ResultadoBien ==
    ASSUME Inv, NEW mal \in BOOLEAN, Resultado(mal), UNCHANGED <<algoritmo, up>>, fault' \in BOOLEAN
    PROVE  CicloOK'
BY DEF Resultado, Inv, StateOK, CicloOK, AccessOK

\* The requests to the storage that have no size.
LEMMA PasoSimple ==
    ASSUME FilesOK, NEW f \in FileTags, NEW g \in FileTags,
           Storage!Create(f) \/ Storage!Delete(f) \/ Storage!Tag(g, f) \/ UNCHANGED files
    PROVE  FilesOK'
<1>1. 0 \in 0..MaxLen
  BY Constantes
<1>2. CASE UNCHANGED files
  BY <1>2 DEF FilesOK
<1> QED BY <1>1, <1>2, OtroPaso

\* READ and WRITE begin.
LEMMA PideAccesoBien ==
    ASSUME Inv, NEW op, NEW f \in FileTags, NEW dir \in Nat, NEW dato,
           op = "WRITE" => dato \in Seq(Byte), PideAcceso(op, f, dir, dato)
    PROVE  Inv'
<1>1. FilesOK' /\ MemOK'
  BY Partes, MemIgual DEF FilesOK, PideAcceso
<1>2. dir \div TamPagina \in Nat
  BY WorkerAssumption
<1>3. AccessOK'
  BY <1>2 DEF AccessOK, PideAcceso
<1>4. CicloOK'
  BY <1>3, Partes DEF CicloOK, PideAcceso
<1> QED BY <1>1, <1>4, Partes

\* CREATE and TAG touch only the storage.
LEMMA SimpleBien ==
    ASSUME Inv, NEW mal \in BOOLEAN, Resultado(mal), Simple
    PROVE  MemOK' /\ CicloOK'
<1>1. MemOK'
  BY Partes, MemIgual DEF Simple
<1>2. CicloOK'
  BY ResultadoBien DEF Simple, Inv, StateOK
<1> QED BY <1>1, <1>2

\* FLUSH, COMMIT and the end of a query.
LEMMA FlushBien ==
    ASSUME Inv, NEW fs \in SUBSET FileTags, pagina' = Limpias(fs),
           UNCHANGED <<tabla, marco, clock>>
    PROVE  MemOK'
BY LimpiasBien DEF Inv, MemOK, StateOK

\* TRUNCATE, in its five ways.
LEMMA TruncateBien ==
    ASSUME Inv, NEW f \in FileTags, NEW size \in Nat, Truncate(f, size)
    PROVE  Inv'
<1> DEFINE n == Redondeado(size) \div TamPagina
           real == files'[f].size
<1>1. n \in Nat
  BY WorkerAssumption DEF Redondeado
<1>2. FilesOK' /\ (Exists(f) => real \in 0..MaxLen)
  <2>1. CASE Storage!Writable(f) /\ n <= MaxLen /\ Storage!Truncate(f, n)
    <3>1. n \in 0..MaxLen
      BY <1>1, <2>1, Constantes
    <3>2. FilesOK'
      BY <2>1, <3>1, Partes, OtroPaso
    <3>3. files[f] \in Storage!File
      BY <2>1 DEF Inv, StateOK, Storage!Writable
    <3>4. real = n
      BY <2>1, <3>3 DEF Storage!Truncate, Storage!File, Inv, StateOK
    <3> QED BY <3>1, <3>2, <3>4
  <2>2. CASE UNCHANGED files
    BY <2>2, Partes, Contenidos DEF FilesOK
  <2> QED BY <2>1, <2>2 DEF Truncate
<1>3. ASSUME Resultado(~Storage!Writable(f)), UNCHANGED <<algoritmo, up>>, fault' \in BOOLEAN
      PROVE  CicloOK'
  BY <1>3, ResultadoBien
<1>4. fault \in BOOLEAN
  BY DEF Inv, StateOK
<1>5. CASE /\ ~EnTabla(f) /\ Exists(f)
           /\ tabla' = [tabla EXCEPT ![f] = [largo |-> real, cantidad |-> real]]
           /\ Resultado(~Storage!Writable(f))
           /\ UNCHANGED <<pagina, marco, orden, clock, algoritmo, ins, up, fault>>
  <2>1. MemOK'
    BY <1>2, <1>5, TablaNueva DEF MemOK, Inv, StateOK
  <2> QED BY <1>2, <1>3, <1>4, <1>5, <2>1, Partes
<1>6. CASE /\ EnTabla(f) /\ Resultado(~Storage!Writable(f))
           /\ fault' = (fault \/ (Exists(f) /\ real # tabla[f].largo))
           /\ UNCHANGED <<mem, algoritmo, ins, up>>
  <2>1. MemOK'
    BY <1>6, Partes, MemIgual
  <2> QED BY <1>2, <1>3, <1>6, <2>1, Partes
<1>7. CASE /\ EnTabla(f) /\ Exists(f) /\ Actualizada(f, real)
           /\ Resultado(~Storage!Writable(f))
           /\ UNCHANGED <<orden, clock, algoritmo, ins, up, fault>>
  <2>1. MemOK'
    BY <1>2, <1>7, Actualiza DEF MemOK, Inv, StateOK
  <2> QED BY <1>2, <1>3, <1>4, <1>7, <2>1, Partes
<1>8. CASE Termina
  BY <1>2, <1>8, TerminaBien, Partes
<1> QED BY <1>5, <1>6, <1>7, <1>8 DEF Truncate

\* Every instruction.
LEMMA FetchBien ==
    ASSUME Inv, Fetch
    PROVE  Inv'
<1>1. FilesOK /\ MemOK /\ CicloOK
  BY Partes
<1>2. ASSUME NEW f \in FileTags, Create(f) PROVE Inv'
  <2>1. FilesOK'
    BY <1>1, <1>2, PasoSimple DEF Create
  <2>2. MemOK' /\ CicloOK'
    BY <1>2, SimpleBien DEF Create
  <2> QED BY <2>1, <2>2, Partes
<1>3. ASSUME NEW f \in FileTags, NEW g \in FileTags, Tag(f, g) PROVE Inv'
  <2>1. FilesOK'
    BY <1>1, <1>3, PasoSimple DEF Tag
  <2>2. MemOK' /\ CicloOK'
    BY <1>3, SimpleBien DEF Tag
  <2> QED BY <2>1, <2>2, Partes
<1>4. ASSUME NEW f \in FileTags, Flush(f) PROVE Inv'
  <2>1. FilesOK'
    BY <1>4, SuciasPresentes, GuardadasBien DEF Flush, FilesOK, Inv
  <2>2. MemOK'
    BY <1>4, FlushBien DEF Flush
  <2>3. CicloOK'
    BY <1>1, <1>4, ResultadoBien DEF Flush, Rechazadas, CicloOK
  <2> QED BY <2>1, <2>2, <2>3, Partes
<1>5. ASSUME NEW f \in FileTags, Commit(f) PROVE Inv'
  <2>1. FilesOK'
    <3>1. Guardadas(Sucias({f})) \in [FileTags -> Storage!File \cup {None}]
      BY SuciasPresentes, GuardadasBien DEF Inv
    <3>2. CASE Exists(f)
      <4>1. Guardadas(Sucias({f}))[f] \in Storage!File
        BY <3>2, SuciasPresentes, GuardadasBien DEF Inv
      <4> QED BY <1>5, <3>1, <3>2, <4>1 DEF Commit, FilesOK, Storage!File
    <3>3. CASE ~Exists(f)
      BY <1>1, <1>5, <3>3 DEF Commit, FilesOK
    <3> QED BY <3>2, <3>3
  <2>2. MemOK'
    BY <1>5, FlushBien DEF Commit
  <2>3. CicloOK'
    BY <1>1, <1>5, ResultadoBien DEF Commit, Rechazadas, CicloOK
  <2> QED BY <2>1, <2>2, <2>3, Partes
<1>6. ASSUME NEW f \in FileTags, Delete(f) PROVE Inv'
  <2>1. CASE Termina /\ UNCHANGED files
    BY <1>1, <2>1, TerminaBien, Partes DEF FilesOK
  <2>2. CASE f # Base
    <3>1. FilesOK'
      BY <1>1, <1>6, <2>2, PasoSimple DEF Delete
    <3>2. MemOK'
      BY <1>6, <2>2, OlvidaBien DEF Delete, MemOK, Inv, StateOK
    <3>3. CicloOK'
      BY <1>1, <1>6, <2>2, ResultadoBien DEF Delete, CicloOK
    <3> QED BY <3>1, <3>2, <3>3, Partes
  <2> QED BY <1>6, <2>1, <2>2 DEF Delete
<1>7. ASSUME NEW f \in FileTags, NEW size \in Sizes, Truncate(f, size) PROVE Inv'
  BY <1>7, WorkerAssumption, TruncateBien
<1>8. ASSUME NEW f \in FileTags, NEW dir \in Direcciones, NEW dato \in Datos,
             Write(f, dir, dato) \/ Read(f, dir, Len(dato))
      PROVE  Inv'
  <2>1. dir \in Nat /\ dato \in Seq(Byte)
    BY WorkerAssumption
  <2>2. CASE Write(f, dir, dato)
    BY <2>1, <2>2, PideAccesoBien DEF Write
  <2>3. CASE Read(f, dir, Len(dato))
    BY <2>1, <2>3, PideAccesoBien DEF Read
  <2> QED BY <1>8, <2>2, <2>3
<1>9. CASE fase' = "espera" /\ UNCHANGED <<files, mem, algoritmo, ins, error, up, fault>>
  <2>1. MemOK'
    BY <1>1, <1>9, MemIgual
  <2>2. FilesOK' /\ CicloOK'
    BY <1>1, <1>9 DEF FilesOK, CicloOK, AccessOK
  <2> QED BY <2>1, <2>2, Partes
<1> QED BY <1>2, <1>3, <1>4, <1>5, <1>6, <1>7, <1>8, <1>9 DEF Fetch

\* The page of an access that is in memory, and the access that goes on.
LEMMA EnMemoriaBien ==
    ASSUME Inv, EnMemoria
    PROVE  /\ Actual \in Paginas /\ pagina[Actual].marco \in Marcos
           /\ marco[pagina[Actual].marco] \in Marco
<1>1. Actual \in Paginas /\ pagina[Actual].marco # None
  BY EnSuPagina DEF EnMemoria, Inv
<1>2. pagina[Actual].marco \in Marcos
  BY <1>1 DEF Inv, StateOK, Nodo
<1>3. marco[pagina[Actual].marco] # None
  BY <1>1 DEF Inv, FramesMatchPages
<1> QED BY <1>1, <1>2, <1>3 DEF Inv, StateOK

\* The access goes on to its next page or is over.
LEMMA SigueBien ==
    ASSUME Inv, EnPagina, NEW dato, ins.op = "WRITE" => dato = ins.dato,
           Sigue([op |-> ins.op, ft |-> ins.ft, dir |-> ins.dir, dato |-> dato, pag |-> ins.pag]),
           UNCHANGED <<algoritmo, error, up, fault>>
    PROVE  CicloOK'
<1>1. /\ ins.ft \in FileTags /\ ins.dir \in Nat /\ ins.pag \in Nat
      /\ ins.op = "WRITE" => ins.dato \in Seq(Byte)
  BY DEF Inv, StateOK, AccessOK, EnPagina
<1> DEFINE i == [op |-> ins.op, ft |-> ins.ft, dir |-> ins.dir, dato |-> dato, pag |-> ins.pag]
<1>2. \/ ins' = [i EXCEPT !.pag = i.pag + 1] /\ fase' = "pagina"
      \/ fase' = "consulta"
  BY DEF Sigue
<1>3. AccessOK'
  <2>1. CASE fase' = "consulta"
    BY <2>1 DEF AccessOK
  <2>2. CASE ins' = [i EXCEPT !.pag = i.pag + 1] /\ fase' = "pagina"
    <3>1. ins' = [op |-> ins.op, ft |-> ins.ft, dir |-> ins.dir, dato |-> dato, pag |-> ins.pag + 1]
      BY <2>2
    <3> QED BY <1>1, <3>1 DEF AccessOK
  <2> QED BY <1>2, <2>1, <2>2
<1>4. fase' \in {"pagina", "consulta"}
  BY <1>2
<1> QED BY <1>3, <1>4 DEF Inv, StateOK, CicloOK

\* The bits of a page do not move it.
LEMMA UsadaBien ==
    ASSUME Inv, NEW x \in Paginas, NEW escrita \in BOOLEAN
    PROVE  /\ Usada(x, escrita) \in [Paginas -> Nodo]
           /\ \A y \in Paginas : Usada(x, escrita)[y].marco = pagina[y].marco
<1>1. pagina \in [Paginas -> Nodo]
  BY DEF Inv, StateOK
<1>2. UsadaSolo(x, escrita) \in [Paginas -> Nodo]
  <2>1. (algoritmo = "CLOCK-M") \in BOOLEAN
    OBVIOUS
  <2> QED BY <1>1, <2>1 DEF UsadaSolo, Nodo
<1>3. \A y \in Paginas : UsadaSolo(x, escrita)[y].marco = pagina[y].marco
  BY <1>1 DEF UsadaSolo, Nodo
<1> DEFINE P == UsadaSolo(x, escrita)
<1>4. Usada(x, escrita) = [P EXCEPT ![x].modificado = P[x].modificado \/ escrita]
  BY DEF Usada
<1>5. (P[x].modificado \/ escrita) \in BOOLEAN
  OBVIOUS
<1>6. P \in [Paginas -> Nodo] /\ \A y \in Paginas : P[y].marco = pagina[y].marco
  BY <1>2, <1>3
<1> HIDE DEF P
<1> QED BY <1>4, <1>5, <1>6 DEF Nodo

\* WRITE puts bytes in the frame of its page.
LEMMA EscribeBien ==
    ASSUME Inv, EscribePagina
    PROVE  Inv'
<1> DEFINE m == pagina[Actual].marco
           B == marco[m].bytes
           Nuevo(i) == LET j == Indice(ins.pag, i)
                       IN  IF j \in DOMAIN ins.dato THEN ins.dato[j] ELSE B[i]
<1>1. Actual \in Paginas /\ m \in Marcos /\ marco[m] \in Marco
  BY EnMemoriaBien DEF EscribePagina
<1>2. ins.dato \in Seq(Byte) /\ B \in Contenido
  BY <1>1 DEF EscribePagina, EnMemoria, EnLargo, EnPagina, Inv, StateOK, AccessOK, Marco
<1>3. [i \in DOMAIN B |-> Nuevo(i)] \in Contenido
  <2>1. DOMAIN B = 0 .. TamPagina - 1 /\ \A i \in DOMAIN B : B[i] \in Byte
    BY <1>2 DEF Contenido
  <2>2. \A j \in DOMAIN ins.dato : ins.dato[j] \in Byte
    BY <1>2
  <2>3. \A i \in DOMAIN B : Nuevo(i) \in Byte
    BY <2>1, <2>2
  <2> HIDE DEF Nuevo, B
  <2> QED BY <2>1, <2>3 DEF Contenido
<1> DEFINE N == [marco[m] EXCEPT !.bytes = [i \in DOMAIN B |-> Nuevo(i)]]
<1>4. marco' = [marco EXCEPT ![m] = N]
  BY DEF EscribePagina
<1>5. N \in Marco /\ N.de = marco[m].de
  <2> HIDE DEF Nuevo
  <2> QED BY <1>1, <1>3 DEF Marco
<1>6. N # None
  BY <1>5, StorageAssumption
<1>7. /\ marco' \in [Marcos -> Marco \cup {None}]
      /\ \A n \in Marcos : \/ marco'[n] = marco[n]
                           \/ marco[n] # None /\ marco'[n] # None /\ marco'[n].de = marco[n].de
  <2>1. marco \in [Marcos -> Marco \cup {None}] /\ marco[m] # None
    BY <1>1, StorageAssumption DEF Inv, StateOK
  <2> HIDE DEF N, m
  <2> QED BY <1>1, <1>4, <1>5, <1>6, <2>1
<1>8. /\ pagina' \in [Paginas -> Nodo]
      /\ \A x \in Paginas : pagina'[x].marco = pagina[x].marco
  BY <1>1, UsadaBien DEF EscribePagina
<1>9. MemOK'
  BY <1>7, <1>8, MismaForma DEF EscribePagina, MemOK, Inv, StateOK
<1>10. CicloOK'
  <2>1. EnPagina /\ Sigue(ins) /\ UNCHANGED <<algoritmo, error, up, fault>>
    BY DEF EscribePagina, EnMemoria, EnLargo
  <2>2. ins = [op |-> ins.op, ft |-> ins.ft, dir |-> ins.dir, dato |-> ins.dato, pag |-> ins.pag]
    BY <2>1 DEF Inv, StateOK, AccessOK, EnPagina
  <2> QED BY <2>1, <2>2, SigueBien
<1>11. FilesOK'
  BY Partes DEF EscribePagina, FilesOK
<1> QED BY <1>9, <1>10, <1>11, Partes

\* READ takes them.
LEMMA LeeBien ==
    ASSUME Inv, LeePagina
    PROVE  Inv'
<1>1. Actual \in Paginas /\ EnPagina /\ ins.op = "READ"
  BY EnMemoriaBien DEF LeePagina, EnMemoria, EnLargo
<1>2. PICK leido : Sigue([ins EXCEPT !.dato = leido])
  BY DEF LeePagina
<1>3. [ins EXCEPT !.dato = leido]
        = [op |-> ins.op, ft |-> ins.ft, dir |-> ins.dir, dato |-> leido, pag |-> ins.pag]
  <2>1. ins = [op |-> ins.op, ft |-> ins.ft, dir |-> ins.dir, dato |-> ins.dato, pag |-> ins.pag]
    BY <1>1 DEF Inv, StateOK, AccessOK, EnPagina
  <2> QED BY <2>1
<1>4. CicloOK'
  BY <1>1, <1>2, <1>3, SigueBien DEF LeePagina
<1>5. MemOK'
  BY <1>1, UsadaBien, MismaForma DEF LeePagina, MemOK, Inv, StateOK
<1>6. FilesOK'
  BY Partes DEF LeePagina, FilesOK
<1> QED BY <1>4, <1>5, <1>6, Partes

\* Every step of a READ or WRITE.
LEMMA AccesoBien ==
    ASSUME Inv, Acceso
    PROVE  Inv'
<1>1. FilesOK /\ MemOK /\ CicloOK
  BY Partes
<1>2. ASSUME UNCHANGED ciclo, UNCHANGED <<algoritmo, up, fault>> PROVE CicloOK'
  BY <1>1, <1>2 DEF ciclo, CicloOK, AccessOK
<1>3. ASSUME EnPagina
      PROVE  ins.ft \in FileTags /\ (Exists(ins.ft) => files[ins.ft].size \in 0..MaxLen)
  BY <1>1, <1>3, Contenidos DEF EnPagina, CicloOK, AccessOK, FilesOK
<1>4. CASE AgregaTabla
  <2>1. MemOK'
    BY <1>3, <1>4, TablaNueva DEF AgregaTabla, MemOK, Inv, StateOK
  <2>2. FilesOK'
    BY <1>1, <1>4 DEF AgregaTabla, FilesOK
  <2> QED BY <1>2, <1>4, <2>1, <2>2, Partes DEF AgregaTabla
<1>5. CASE AmpliaTabla
  <2>1. MemOK'
    BY <1>3, <1>5, Actualiza DEF AmpliaTabla, MemOK, Inv, StateOK
  <2>2. FilesOK'
    BY <1>1, <1>5 DEF AmpliaTabla, FilesOK
  <2> QED BY <1>2, <1>5, <2>1, <2>2, Partes DEF AmpliaTabla
<1>6. CASE FueraDeLimite
  <2>1. MemOK'
    BY <1>3, <1>6, Actualiza DEF FueraDeLimite, MemOK, Inv, StateOK
  <2>2. FilesOK'
    BY <1>1, <1>6 DEF FueraDeLimite, FilesOK
  <2>3. CicloOK'
    BY <1>1, <1>6, ResultadoBien DEF FueraDeLimite, CicloOK
  <2> QED BY <2>1, <2>2, <2>3, Partes
<1>7. CASE AccesoFatal
  BY <1>1, <1>7, TerminaBien, Partes DEF AccesoFatal, FilesOK
<1>8. CASE CargaEnLibre
  <2>1. MemOK'
    BY <1>8, CargaEnLibreBien
  <2>2. FilesOK'
    BY <1>1, <1>8 DEF CargaEnLibre, FilesOK
  <2> QED BY <1>2, <1>8, <2>1, <2>2, Partes DEF CargaEnLibre
<1>9. CASE CargaEnVictima
  <2>1. MemOK' /\ FilesOK'
    BY <1>9, CargaEnVictimaBien
  <2>2. CicloOK'
    <3>1. fase' = fase /\ ins' = ins /\ UNCHANGED <<algoritmo, up, fault>>
      BY <1>9 DEF CargaEnVictima
    <3>2. error' \in BOOLEAN
      BY <1>9 DEF CargaEnVictima
    <3> QED BY <1>1, <3>1, <3>2 DEF CicloOK, AccessOK
  <2> QED BY <2>1, <2>2, Partes
<1>10. CASE EscribePagina
  BY <1>10, EscribeBien
<1>11. CASE LeePagina
  BY <1>11, LeeBien
<1> QED BY <1>4, <1>5, <1>6, <1>7, <1>8, <1>9, <1>10, <1>11 DEF Acceso

\* The cycle, the restart and the other workers.
LEMMA RestoBien ==
    ASSUME Inv, RecibeQuery \/ Continua \/ Desaloja \/ Arranca \/ OtroWorker
    PROVE  Inv'
<1>1. FilesOK /\ MemOK /\ CicloOK
  BY Partes
<1>2. CASE RecibeQuery
  <2>1. FilesOK'
    BY <1>1, <1>2 DEF RecibeQuery, FilesOK
  <2>2. CASE Termina
    BY <2>1, <2>2, TerminaBien, Partes
  <2>3. CASE fase' = "fetch" /\ UNCHANGED <<mem, algoritmo, ins, error, up, fault>>
    <3>1. MemOK'
      BY <1>1, <2>3, MemIgual
    <3>2. CicloOK'
      BY <1>1, <2>3 DEF CicloOK, AccessOK
    <3> QED BY <2>1, <3>1, <3>2, Partes
  <2> QED BY <1>2, <2>2, <2>3 DEF RecibeQuery
<1>3. CASE Continua
  <2>1. MemOK'
    BY <1>1, <1>3, MemIgual DEF Continua
  <2>2. FilesOK' /\ CicloOK'
    BY <1>1, <1>3 DEF Continua, FilesOK, CicloOK, AccessOK
  <2> QED BY <2>1, <2>2, Partes
<1>4. CASE Desaloja
  <2>1. MemOK'
    BY <1>4, FlushBien DEF Desaloja
  <2>2. FilesOK'
    BY <1>4, SuciasPresentes, GuardadasBien DEF Desaloja, FilesOK, Inv
  <2>3. error' \in BOOLEAN
    BY <1>4 DEF Desaloja, Rechazadas
  <2>4. CicloOK'
    BY <1>1, <1>4, <2>3 DEF Desaloja, CicloOK, AccessOK
  <2> QED BY <2>1, <2>2, <2>4, Partes
<1>5. CASE Arranca
  <2>1. MemOK'
    BY <1>1, <1>5, MemIgual DEF Arranca
  <2>2. FilesOK' /\ CicloOK'
    BY <1>1, <1>5 DEF Arranca, ciclo, FilesOK, CicloOK, AccessOK
  <2> QED BY <2>1, <2>2, Partes
<1>6. CASE OtroWorker
  <2>1. FilesOK'
    <3>1. ASSUME NEW f \in FileTags, NEW n \in 0..MaxLen, Storage!Truncate(f, n) PROVE FilesOK'
      BY <1>1, <3>1, OtroPaso
    <3>2. ASSUME NEW f \in FileTags, Storage!Create(f) \/ Storage!Delete(f) PROVE FilesOK'
      BY <1>1, <3>2, PasoSimple
    <3>3. ASSUME NEW f \in FileTags, Storage!Commit(f) PROVE FilesOK'
      BY <1>1, <3>3 DEF FilesOK, Storage!Commit, Storage!File
    <3>4. ASSUME NEW f \in FileTags, NEW i \in 1..MaxLen, NEW d \in Contenido, Storage!Write(f, i, d)
          PROVE  FilesOK'
      BY <1>1, <3>4, OtroEscribe
    <3>5. ASSUME NEW f \in FileTags, NEW g \in FileTags, Storage!Copy(f, g) PROVE FilesOK'
      BY <1>1, <3>5 DEF FilesOK, Storage!Copy, Storage!File
    <3> QED BY <1>6, <3>1, <3>2, <3>3, <3>4, <3>5 DEF OtroWorker
  <2>2. MemOK'
    BY <1>1, <1>6, MemIgual DEF OtroWorker
  <2>3. CicloOK'
    <3>1. fault' \in BOOLEAN
      BY <1>6 DEF OtroWorker
    <3> QED BY <1>1, <1>6, <3>1 DEF OtroWorker, ciclo, CicloOK, AccessOK
  <2> QED BY <2>1, <2>2, <2>3, Partes
<1> QED BY <1>2, <1>3, <1>4, <1>5, <1>6

\* The invariant holds at the start
LEMMA InvInicial == Init => Inv
<1> SUFFICES ASSUME Init PROVE Inv
  OBVIOUS
<1>1. FilesOK
  BY StorageAssumption DEF Init, FilesOK
<1>2. /\ tabla \in [FileTags -> Tabla \cup {None}]
      /\ pagina \in [Paginas -> Nodo]
      /\ marco \in [Marcos -> Marco \cup {None}]
      /\ clock \in Marcos
  BY Constantes DEF Init
<1>3. /\ algoritmo \in Algoritmos /\ fase \in {"espera", "fetch", "pagina", "consulta"}
      /\ error \in BOOLEAN /\ up \in BOOLEAN /\ fault \in BOOLEAN /\ AccessOK
  BY DEF Init, AccessOK
<1>4. FramesMatchPages /\ CountCoversPresent
  BY DEF Init, FramesMatchPages, CountCoversPresent, Ausente
<1> QED BY <1>1, <1>2, <1>3, <1>4 DEF Inv, StateOK, FilesOK

\* and every step keeps it.
LEMMA InvPaso == Inv /\ [Next]_vars => Inv'
<1> SUFFICES ASSUME Inv, [Next]_vars PROVE Inv'
  OBVIOUS
<1>1. CASE UNCHANGED vars
  <2>1. MemOK'
    BY <1>1, Partes, MemIgual DEF vars, mem
  <2>2. FilesOK' /\ CicloOK'
    BY <1>1, Partes DEF vars, FilesOK, CicloOK, AccessOK
  <2> QED BY <2>1, <2>2, Partes
<1>2. CASE Next
  BY <1>2, FetchBien, AccesoBien, RestoBien DEF Next
<1> QED BY <1>1, <1>2

\* Whatever the scripts ask for, whatever other workers do to the same File:Tags and however often
\* the worker ends and is started again, its tables, pages and frames stay consistent.
THEOREM WorkerInvariant == Spec => []Inv
<1>1. Init => Inv
  BY InvInicial
<1>2. Inv /\ [Next]_vars => Inv'
  BY InvPaso
<1> QED BY <1>1, <1>2, PTL DEF Spec

\* A used frame belongs to the one page that points at it, and a page in memory is in a table.
THEOREM WorkerFrames == Spec => []FramesMatchPages
<1>1. Inv => FramesMatchPages
  BY DEF Inv
<1> QED BY <1>1, WorkerInvariant, PTL

\* cantidad_paginas never tells less than the pages of a table that are in memory.
THEOREM WorkerCount == Spec => []CountCoversPresent
<1>1. Inv => CountCoversPresent
  BY DEF Inv
<1> QED BY <1>1, WorkerInvariant, PTL
=============================================================================
