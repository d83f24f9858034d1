------------------------------- MODULE Worker --------------------------------
(***************************************************************************)
(* A worker: the cycle of main.c, the instructions of interpreter.c, the   *)
(* internal memory of memoria.c and the page replacement of                *)
(* algoritmos_reemplazo.c, over the storage of FileStore.                  *)
(*                                                                         *)
(* A step is an instruction that is one request to the storage, or the     *)
(* part of a READ or WRITE up to its next request: the metadata of a       *)
(* File:Tag, a page brought to memory, the bytes of one page.  A script is *)
(* any sequence of instructions.  Pages and frames count from 0, as in the *)
(* code; the blocks of FileStore count from 1.                             *)
(***************************************************************************)
EXTENDS Integers, Sequences, FiniteSets, FiniteSetsExt

CONSTANTS
    FileTags,
    Base,            \* initial_file:BASE
    Byte,
    Cero,            \* the byte a block is filled with
    TamPagina,       \* tam_pagina: the block size the storage announces
    CantidadMarcos,  \* TAM_MEMORIA / tam_pagina
    Algoritmos,      \* values ALGORITMO_REEMPLAZO may have
    Datos,           \* contents of the WRITEs; their lengths are the sizes of the READs
    Direcciones,     \* addresses of the READs and WRITEs
    Sizes,           \* sizes a TRUNCATE asks for
    MaxLen,          \* bound: pages of the longest File:Tag
    Iniciales,       \* storages the worker may be started on
    Otros,           \* TRUE if other workers use the storage too
    MaxInstr,        \* bound: instructions a worker runs
    None

Nros      == 0 .. MaxLen - 1
Marcos    == 0 .. CantidadMarcos - 1
Contenido == [0 .. TamPagina - 1 -> Byte]
EnCero    == [i \in 0 .. TamPagina - 1 |-> Cero]
Paginas   == FileTags \X Nros

ASSUME WorkerAssumption ==
    /\ Base \in FileTags
    /\ Cero \in Byte
    /\ TamPagina \in Nat \ {0}
    /\ CantidadMarcos \in Nat \ {0}
    /\ Algoritmos \subseteq {"LRU", "CLOCK-M"}
    /\ Datos \subseteq Seq(Byte) \ {<<>>}
    /\ MaxLen \in Nat \ {0}
    /\ Direcciones \subseteq Nat
    /\ Sizes \subseteq Nat
    /\ Otros \in BOOLEAN
    /\ None \notin FileTags \cup Byte \cup Int \cup Paginas

VARIABLES
    files,       \* the storage
    tabla,       \* file_tag_pages: File:Tag -> its cantidad_paginas and the length of its table
    pagina,      \* nodo_pagina of each page that is in a table: its frame (presencia) and its bits
    marco,       \* frame -> None if it is free (bit_map), or the page it was given to and its bytes
    orden,       \* frames by the time of their last use (LRU)
    clock,       \* victima_clock
    algoritmo,   \* ALGORITMO_REEMPLAZO
    fase,        \* where the cycle is
    ins,         \* the READ or WRITE in progress: what it asks for and the page it is at
    error,       \* the master has an ERROR_AT_EXEC it has not answered yet
    up,          \* the process runs
    corridas,    \* instructions run so far, for the bound
    fault        \* history: the page tables and the storage have drifted apart

Storage == INSTANCE FileStore WITH Data <- Contenido, Zero <- EnCero, NoFile <- None

\* A page table, a nodo_pagina, a used frame.
Tabla == [largo : 0..MaxLen, cantidad : Int]
Nodo  == [marco : Marcos \cup {None}, modificado : BOOLEAN, uso : BOOLEAN]
Marco == [de : Paginas, bytes : Contenido]

ASSUME StorageAssumption ==
    /\ Iniciales \subseteq [FileTags -> Storage!File \cup {None}]
    /\ \A s \in Iniciales, f \in FileTags : s[f] # None => s[f].size <= Len(s[f].data)
    /\ None \notin Storage!File \cup Storage!Contents \cup Tabla \cup Marco

mem  == <<tabla, pagina, marco, orden, clock>>
ciclo == <<fase, ins, error>>
vars == <<files, tabla, pagina, marco, orden, clock, algoritmo, fase, ins, error, up, corridas,
          fault>>

Ausente == [marco |-> None, modificado |-> FALSE, uso |-> FALSE]

Exists(f)    == files[f] # None
EnTabla(f)   == tabla[f] # None
Presentes(f) == {p \in Nros : pagina[<<f, p>>].marco # None}

MemoriaVacia ==
    /\ tabla' = [f \in FileTags |-> None]
    /\ pagina' = [x \in Paginas |-> Ausente]
    /\ marco' = [m \in Marcos |-> None]
    /\ orden' = [i \in 1 .. CantidadMarcos |-> i - 1]
    /\ clock' = 0

Init ==
    /\ files \in Iniciales
    /\ corridas = 0
    /\ tabla = [f \in FileTags |-> None]
    /\ pagina = [x \in Paginas |-> Ausente]
    /\ marco = [m \in Marcos |-> None]
    /\ orden = [i \in 1 .. CantidadMarcos |-> i - 1]
    /\ clock = 0
    /\ algoritmo \in Algoritmos
    /\ fase = "espera"
    /\ ins = None
    /\ error = FALSE
    /\ up = TRUE
    /\ fault = FALSE

\* exit() or a NULL followed: the process and its memory are gone.
Termina ==
    /\ MemoriaVacia
    /\ up' = FALSE
    /\ fase' = "espera" /\ ins' = None /\ error' = FALSE /\ fault' = FALSE
    /\ UNCHANGED algoritmo

\* log_ejecucion: an instruction is over, and an error goes to the master.
Resultado(mal) ==
    /\ fase' = "consulta"
    /\ error' = (error \/ mal)

-----------------------------------------------------------------------------
(* What goes back to the storage.                                          *)

\* storage_write takes a page only inside a File:Tag that is not committed.
AceptaMenos(x)   == Storage!Writable(x[1]) /\ x[2] + 1 < Len(files[x[1]].data)   \* bug: not the last
AceptaSiempre(x) == Exists(x[1]) /\ x[2] < Len(files[x[1]].data)    \* bug: committed or not
Acepta(x)        == Storage!Writable(x[1]) /\ x[2] < Len(files[x[1]].data)

Sucias(fs) == {x \in fs \X Nros : pagina[x].marco # None /\ pagina[x].modificado}

\* The storage after it was sent the pages P.
Guardadas(P) ==
    [f \in FileTags |->
        IF Exists(f)
        THEN [files[f] EXCEPT !.data = [i \in DOMAIN @ |->
                 IF <<f, i - 1>> \in P /\ Acepta(<<f, i - 1>>)
                 THEN marco[pagina[<<f, i - 1>>].marco].bytes ELSE @[i]]]
        ELSE None]

Rechazadas(P) == \E x \in P : ~Acepta(x)

\* FLUSH: refused or not, a page sent is no longer modified.
Limpias(fs) ==
    [x \in Paginas |-> IF x \in Sucias(fs) THEN [pagina[x] EXCEPT !.modificado = FALSE] ELSE pagina[x]]

-----------------------------------------------------------------------------
(* Page tables.                                                            *)

\* actualizar_tabla, when the size of f is n.
Actualizada(f, n) ==
    LET quitadas == {p \in Presentes(f) : p >= n}
    IN  /\ tabla' = [tabla EXCEPT ![f] = [largo |-> n, cantidad |-> @.cantidad - Cardinality(quitadas)]]
        /\ pagina' = [x \in Paginas |-> IF x[1] = f /\ x[2] >= n THEN Ausente ELSE pagina[x]]
        /\ marco' = [m \in Marcos |-> IF \E p \in quitadas : pagina[<<f, p>>].marco = m
                                      THEN None ELSE marco[m]]

\* It exits if it would drop a page that was written to.
PierdeSucias(f, n) == \E x \in Sucias({f}) : x[2] >= n

\* DELETE frees frames until cantidad_paginas says that no page is left.
Soltados(f) ==
    {pagina[<<f, p>>].marco : p \in {q \in Presentes(f) :
        Cardinality({r \in Presentes(f) : r < q}) < tabla[f].cantidad}}

Olvida(f) ==
    /\ tabla' = [tabla EXCEPT ![f] = None]
    /\ pagina' = [x \in Paginas |-> IF x[1] = f THEN Ausente ELSE pagina[x]]
    /\ marco' = [m \in Marcos |-> IF EnTabla(f) /\ m \in Soltados(f) THEN None ELSE marco[m]]

-----------------------------------------------------------------------------
(* Page replacement.                                                       *)

MarcoLibre == {m \in Marcos : marco[m] = None}

\* The pages CLOCK-M meets: the k-th after the hand.
Puntero(k) == (clock + k) % CantidadMarcos
Vuelta     == Marcos
Uso(k)     == pagina[marco[Puntero(k)].de].uso
Mod(k)     == pagina[marco[Puntero(k)].de].modificado

\* The victim is the k-th page, and the pages it has passed lose their uso bit: a turn looks for
\* a page neither used nor modified, the next for one modified only and clears uso, and the two
\* are repeated, by then without any uso bit.
EligeClock(k, pasadas) ==
    LET limpias  == {i \in Vuelta : ~Uso(i) /\ ~Mod(i)}
        sinUso   == {i \in Vuelta : ~Uso(i) /\ Mod(i)}
        segundas == {i \in Vuelta : ~Mod(i)}
    IN  \/ limpias # {} /\ k = Min(limpias) /\ pasadas = {}
        \/ limpias = {} /\ sinUso # {} /\ k = Min(sinUso) /\ pasadas = 0 .. k - 1
        \/ limpias = {} /\ sinUso = {} /\ pasadas = Vuelta
              /\ k = IF segundas # {} THEN Min(segundas) ELSE 0

Elige(m, pasadas) ==
    \/ /\ algoritmo = "LRU"
       /\ m = Head(orden) /\ pasadas = {}
       /\ UNCHANGED clock
    \/ /\ algoritmo = "CLOCK-M"
       /\ \E k \in Vuelta, ks \in SUBSET Vuelta :
             /\ EligeClock(k, ks)
             /\ m = Puntero(k) /\ pasadas = {marco[Puntero(i)].de : i \in ks}
       /\ clock' = (m + 1) % CantidadMarcos

Olvidada(g, f) == IF g # f THEN None ELSE [tabla[g] EXCEPT !.cantidad = @ - 1]   \* bug: always

\* check_file_tag: one page less of g; the table of another File:Tag goes with its last page.
UnaMenos(g, f) ==
    IF tabla[g].cantidad = 1 /\ g # f THEN None
    ELSE [tabla[g] EXCEPT !.cantidad = @ - 1]

-----------------------------------------------------------------------------
(* READ and WRITE.                                                         *)

Tam(i)    == Len(i.dato)
Primera(i) == i.dir \div TamPagina
Libre(i)  == TamPagina - (i.dir % TamPagina)         \* bytes from dir to the end of its page

\* cantidad_paginas_escribir, cantidad_paginas_leer: the offset in the first page is not counted.
CantidadPaginas(i) ==
    IF Tam(i) <= Libre(i) THEN 1 ELSE (Tam(i) + TamPagina - 1) \div TamPagina

Byte_(i, j) == i.dir + j - 1                       \* address of the j-th byte
En(i, j, p) == Byte_(i, j) \div TamPagina = p      \* it is in page p

Actual == <<ins.ft, ins.pag>>

PideAcceso(op, f, dir, dato) ==
    /\ ins' = [op |-> op, ft |-> f, dir |-> dir, dato |-> dato, pag |-> dir \div TamPagina]
    /\ fase' = "pagina"
    /\ UNCHANGED <<files, mem, algoritmo, error, up, fault>>

Write(f, dir, dato) == PideAcceso("WRITE", f, dir, dato)
Read(f, dir, n)     == PideAcceso("READ", f, dir, [j \in 1..n |-> None])

EnPagina == up /\ fase = "pagina"

\* agregar_file_tag_en_memoria: the table begins with the size the storage tells.
AgregaTabla ==
    LET f == ins.ft
    IN  /\ EnPagina
        /\ ~EnTabla(f) /\ Exists(f)
        /\ tabla' = [tabla EXCEPT ![f] = [largo |-> files[f].size, cantidad |-> files[f].size]]
        /\ UNCHANGED <<files, pagina, marco, orden, clock, algoritmo, ciclo, up, fault>>

\* A page beyond the table: the size is asked for again.
AmpliaTabla ==
    LET f == ins.ft
    IN  /\ EnPagina
        /\ EnTabla(f) /\ ins.pag > tabla[f].largo
        /\ Exists(f) /\ ins.pag <= files[f].size /\ ~PierdeSucias(f, files[f].size)
        /\ Actualizada(f, files[f].size)
        /\ UNCHANGED <<files, orden, clock, algoritmo, ciclo, up, fault>>

\* It is beyond the File:Tag: ERR_FUERA_LIMITE.
FueraDeLimite ==
    LET f == ins.ft
    IN  /\ EnPagina
        /\ EnTabla(f) /\ ins.pag > tabla[f].largo
        /\ Exists(f) /\ ins.pag > files[f].size /\ ~PierdeSucias(f, files[f].size)
        /\ ins.pag = Primera(ins)
        /\ Actualizada(f, files[f].size)
        /\ Resultado(TRUE)
        /\ ins' = None
        /\ UNCHANGED <<files, orden, clock, algoritmo, up, fault>>

\* The ways an access kills the worker: no such File:Tag; a page written to that the File:Tag
\* has no more; the page after the last one, a NULL of the list (> for >=); a page past the
\* first that is out of range; a page the storage does not have.
AccesoFatal ==
    LET f == ins.ft
        p == ins.pag
    IN  /\ EnPagina
        /\ \/ ~Exists(f) /\ (EnTabla(f) => p > tabla[f].largo)
           \/ /\ EnTabla(f) /\ Exists(f) /\ p > tabla[f].largo
              /\ PierdeSucias(f, files[f].size) \/ (p > files[f].size /\ p # Primera(ins))
           \/ EnTabla(f) /\ p = tabla[f].largo
           \/ /\ EnTabla(f) /\ p < tabla[f].largo /\ pagina[Actual].marco = None
              /\ Exists(f) => p >= Len(files[f].data)
        /\ Termina
        /\ UNCHANGED files

EnLargo   == EnPagina /\ EnTabla(ins.ft) /\ ins.pag < tabla[ins.ft].largo
EnMemoria == EnLargo /\ pagina[Actual].marco # None

Falta ==
    /\ EnLargo
    /\ pagina[Actual].marco = None
    /\ Exists(ins.ft) /\ ins.pag < Len(files[ins.ft].data)

\* The frame once the page is in it.
Cargado == [de |-> Actual, bytes |-> files[ins.ft].data[ins.pag + 1]]

SinContar(t, f) == t   \* bug: the page is not counted

\* A page more in memory.
UnaMas(t, f) == [t EXCEPT ![f].cantidad = @ + 1]

\* solicitar_pagina with a free frame.
CargaEnLibre ==
    /\ Falta
    /\ \E m \in MarcoLibre :
         /\ \A n \in MarcoLibre : m <= n
         /\ tabla' = UnaMas(tabla, ins.ft)
         /\ pagina' = [pagina EXCEPT ![Actual].marco = m]
         /\ marco' = [marco EXCEPT ![m] = Cargado]
    /\ UNCHANGED <<files, orden, clock, algoritmo, ciclo, up, fault>>

\* solicitar_pagina without one: the page was read before the victim is written back.
CargaEnVictima ==
    /\ Falta
    /\ MarcoLibre = {}
    /\ \E m \in Marcos, pasadas \in SUBSET Paginas :
         LET v == marco[m].de
             sin == [tabla EXCEPT ![v[1]] = UnaMenos(v[1], ins.ft)]
         IN  /\ Elige(m, pasadas)
             /\ files' = Guardadas({v} \cap Sucias(FileTags))
             /\ error' = (error \/ Rechazadas({v} \cap Sucias(FileTags)))
             /\ tabla' = UnaMas(sin, ins.ft)
             /\ pagina' = [x \in Paginas |->
                  IF x = Actual THEN [pagina[x] EXCEPT !.marco = m]
                  ELSE IF x = v \/ sin[x[1]] = None THEN Ausente
                  ELSE [pagina[x] EXCEPT !.uso = @ /\ x \notin pasadas]]
             /\ marco' = [marco EXCEPT ![m] = Cargado]
    /\ UNCHANGED <<orden, algoritmo, fase, ins, up, fault>>

\* Bug: the frame keeps its old place too.
UsaDeNuevo(m) == orden' = IF algoritmo = "LRU" THEN Append(orden, m) ELSE orden

\* interaccion_con_memoria: LRU remembers when, CLOCK-M that.
Usa(m) ==
    \/ /\ algoritmo = "LRU"
       /\ \E k \in DOMAIN orden :
             /\ orden[k] = m
             /\ orden' = [i \in DOMAIN orden |-> IF i < k THEN orden[i]
                                               ELSE IF i < Len(orden) THEN orden[i + 1] ELSE m]
    \/ algoritmo # "LRU" /\ UNCHANGED orden

\* The page is done, and the access goes on to the next one or is over.
Sigue(i) ==
    IF i.pag + 1 < Primera(i) + CantidadPaginas(i)
    THEN ins' = [i EXCEPT !.pag = @ + 1] /\ fase' = "pagina"
    ELSE ins' = i /\ fase' = "consulta"

UsadaSolo(x, escrita) == [pagina EXCEPT ![x].uso = (algoritmo = "CLOCK-M")]   \* bug: not modificado

\* The bits of a page that was used.
Usada(x, escrita) == [UsadaSolo(x, escrita) EXCEPT ![x].modificado = @ \/ escrita]

Alineado(p, i) == (p - Primera(ins)) * TamPagina + i + 1   \* bug: dir taken as aligned

\* The byte of the access that goes to byte i of page p.
Indice(p, i) == p * TamPagina + i - ins.dir + 1

EscribePagina ==
    LET m == pagina[Actual].marco
    IN  /\ EnMemoria /\ ins.op = "WRITE"
        /\ marco' = [marco EXCEPT ![m].bytes = [i \in DOMAIN @ |->
              LET j == Indice(ins.pag, i) IN IF j \in DOMAIN ins.dato THEN ins.dato[j] ELSE @[i]]]
        /\ pagina' = Usada(Actual, TRUE)
        /\ Usa(m)
        /\ Sigue(ins)
        /\ UNCHANGED <<files, tabla, clock, algoritmo, error, up, fault>>

LeePagina ==
    LET m == pagina[Actual].marco
        p == ins.pag
        leido == [j \in DOMAIN ins.dato |->
                    IF En(ins, j, p) THEN marco[m].bytes[Byte_(ins, j) % TamPagina] ELSE ins.dato[j]]
    IN  /\ EnMemoria /\ ins.op = "READ"
        /\ pagina' = Usada(Actual, FALSE)
        /\ Usa(m)
        /\ Sigue([ins EXCEPT !.dato = leido])
        /\ UNCHANGED <<files, tabla, marco, clock, algoritmo, error, up, fault>>

-----------------------------------------------------------------------------
(* The other instructions: one request to the storage.                     *)

Simple == UNCHANGED <<mem, algoritmo, ins, up, fault>>

Create(f) ==
    /\ \/ ~Exists(f) /\ Storage!Create(f) /\ Resultado(FALSE)
       \/ Exists(f) /\ UNCHANGED files /\ Resultado(TRUE)
    /\ Simple

\* TAG copies what the storage has: nothing is flushed before.  Without a source the File:Tag
\* is created all the same.
Tag(f, g) ==
    /\ \/ Exists(g) /\ UNCHANGED files /\ Resultado(TRUE)
       \/ ~Exists(g) /\ ~Exists(f) /\ Storage!Create(g) /\ Resultado(TRUE)
       \/ Storage!Tag(f, g) /\ Resultado(FALSE)
    /\ Simple

Flush(f) ==
    /\ files' = Guardadas(Sucias({f}))
    /\ pagina' = Limpias({f})
    /\ Resultado(Rechazadas(Sucias({f})))
    /\ UNCHANGED <<tabla, marco, orden, clock, algoritmo, ins, up, fault>>

Commit(f) ==
    /\ files' = IF Exists(f) THEN [Guardadas(Sucias({f})) EXCEPT ![f].committed = TRUE] ELSE files
    /\ pagina' = Limpias({f})
    /\ Resultado(Rechazadas(Sucias({f})) \/ ~Exists(f))
    /\ UNCHANGED <<tabla, marco, orden, clock, algoritmo, ins, up, fault>>

\* Memory forgets the File:Tag whatever the storage answers; for the base the answer is
\* NOT_DEF_ERR, which ends the worker.
Delete(f) ==
    \/ f = Base /\ Termina /\ UNCHANGED files
    \/ /\ f # Base
       /\ \/ Exists(f) /\ Storage!Delete(f) /\ Resultado(FALSE)
          \/ ~Exists(f) /\ UNCHANGED files /\ Resultado(TRUE)
       /\ Olvida(f)
       /\ UNCHANGED <<orden, clock, algoritmo, ins, up, fault>>

\* The size is rounded by adding its remainder.
Redondeado(size) == size + (size % TamPagina)

\* The storage first; the table is compared through cantidad_paginas.
Truncate(f, size) ==
    LET n == Redondeado(size) \div TamPagina
        real == files'[f].size
    IN  /\ \/ Storage!Writable(f) /\ n <= MaxLen /\ Storage!Truncate(f, n)
           \/ ~Storage!Writable(f) /\ UNCHANGED files
        /\ \/ ~EnTabla(f) /\ Exists(f)
              /\ tabla' = [tabla EXCEPT ![f] = [largo |-> real, cantidad |-> real]]
              /\ Resultado(~Storage!Writable(f))
              /\ UNCHANGED <<pagina, marco, orden, clock, algoritmo, ins, up, fault>>
           \/ EnTabla(f) /\ n = tabla[f].cantidad
              /\ Resultado(~Storage!Writable(f))
              /\ fault' = (fault \/ (Exists(f) /\ real # tabla[f].largo))
              /\ UNCHANGED <<mem, algoritmo, ins, up>>
           \/ EnTabla(f) /\ Exists(f) /\ n # tabla[f].cantidad /\ ~PierdeSucias(f, real)
              /\ Actualizada(f, real)
              /\ Resultado(~Storage!Writable(f))
              /\ UNCHANGED <<orden, clock, algoritmo, ins, up, fault>>
           \/ EnTabla(f) /\ Exists(f) /\ n # tabla[f].cantidad /\ PierdeSucias(f, real) /\ Termina
           \/ ~Exists(f) /\ (EnTabla(f) => n # tabla[f].cantidad) /\ Termina

-----------------------------------------------------------------------------
(* The cycle.                                                              *)

\* A query arrives and its script is parsed; an instruction nobody knows ends the worker.
RecibeQuery ==
    /\ up /\ fase = "espera"
    /\ \/ fase' = "fetch" /\ UNCHANGED <<mem, algoritmo, ins, error, up, fault>>
       \/ Termina
    /\ UNCHANGED files

\* The next instruction of the script.  After END, or after the last one, the worker waits for
\* another query; only END tells the master.
Fetch ==
    /\ up /\ fase = "fetch"
    /\ \/ \E f \in FileTags :
            \/ Create(f) \/ Flush(f) \/ Commit(f) \/ Delete(f)
            \/ \E g \in FileTags : Tag(f, g)
            \/ \E size \in Sizes : Truncate(f, size)
            \/ \E dir \in Direcciones, dato \in Datos :
                  Write(f, dir, dato) \/ Read(f, dir, Len(dato))
       \/ fase' = "espera" /\ UNCHANGED <<files, mem, algoritmo, ins, error, up, fault>>

\* CONSULTA_INTERRUPCION: the master has the query left after an error, or when it wants to.
\* Leaving flushes every File:Tag, which can fail once more.
Continua ==
    /\ up /\ fase = "consulta"
    /\ ~error
    /\ fase' = "fetch" /\ ins' = None
    /\ UNCHANGED <<files, mem, algoritmo, error, up, fault>>

Desaloja ==
    /\ up /\ fase = "consulta"
    /\ files' = Guardadas(Sucias(FileTags))
    /\ pagina' = Limpias(FileTags)
    /\ error' = Rechazadas(Sucias(FileTags))
    /\ fase' = "espera" /\ ins' = None
    /\ UNCHANGED <<tabla, marco, orden, clock, algoritmo, up, fault>>

\* The worker is started again.
Arranca == ~up /\ up' = TRUE /\ UNCHANGED <<files, mem, algoritmo, ciclo, fault>>

\* A request of another worker: its TAG is seen half done, a Create and later a Copy.  One that
\* changes a File:Tag with a table here is a fault.
OtroWorker ==
    /\ Otros
    /\ \E f \in FileTags :
          \/ Storage!Create(f) \/ Storage!Delete(f) \/ Storage!Commit(f)
          \/ \E n \in 0..MaxLen : Storage!Truncate(f, n)
          \/ \E i \in 1..MaxLen, d \in Contenido : Storage!Write(f, i, d)
          \/ \E g \in FileTags : Storage!Copy(f, g)
    /\ fault' = (fault \/ \E f \in FileTags : EnTabla(f) /\ files'[f] # files[f])
    /\ UNCHANGED <<mem, algoritmo, ciclo, up>>

Acceso ==
    \/ AgregaTabla \/ AmpliaTabla \/ FueraDeLimite \/ AccesoFatal
    \/ CargaEnLibre \/ CargaEnVictima
    \/ EscribePagina \/ LeePagina

Next ==
    \/ (Fetch \/ OtroWorker) /\ corridas < MaxInstr /\ corridas' = corridas + 1
    \/ (RecibeQuery \/ Acceso \/ Continua \/ Desaloja \/ Arranca) /\ UNCHANGED corridas

Spec == Init /\ [][Next]_vars

-----------------------------------------------------------------------------
(* Properties.                                                             *)

\* An access in progress knows what it is about.
AccessOK ==
    fase = "pagina" =>
        /\ ins = [op |-> ins.op, ft |-> ins.ft, dir |-> ins.dir, dato |-> ins.dato, pag |-> ins.pag]
        /\ ins.ft \in FileTags /\ ins.dir \in Nat /\ ins.pag \in Nat
        /\ ins.op = "WRITE" => ins.dato \in Seq(Byte)

\* Every variable but orden has its type.
StateOK ==
    /\ files \in [FileTags -> Storage!File \cup {None}]
    /\ tabla \in [FileTags -> Tabla \cup {None}]
    /\ pagina \in [Paginas -> Nodo]
    /\ marco \in [Marcos -> Marco \cup {None}]
    /\ clock \in Marcos
    /\ algoritmo \in Algoritmos
    /\ fase \in {"espera", "fetch", "pagina", "consulta"}
    /\ error \in BOOLEAN /\ up \in BOOLEAN /\ fault \in BOOLEAN
    /\ AccessOK

\* Every frame has one place in the order of the last uses, whatever was used and replaced.
OrdenOK ==
    /\ orden \in [1 .. CantidadMarcos -> Marcos]
    /\ \A m \in Marcos : \E k \in DOMAIN orden : orden[k] = m

\* Every variable has its type, and the victim of LRU is one of all the frames.
TypeOK == StateOK /\ OrdenOK

\* Bitmap, frames and page tables agree whatever happens to a File:Tag: a used frame belongs to
\* the one page that points at it, and a page present in memory is in a table.  The replacement
\* follows the frame to its page and the hand of CLOCK-M the page to its frame.
FramesMatchPages ==
    /\ \A m \in Marcos : marco[m] # None => pagina[marco[m].de].marco = m
    /\ \A x \in Paginas : pagina[x].marco # None =>
          /\ EnTabla(x[1]) /\ x[2] < tabla[x[1]].largo
          /\ marco[pagina[x].marco] # None
          /\ marco[pagina[x].marco].de = x

\* cantidad_paginas counts the pages a table had at first and those brought since, so it is not
\* the number present, but never less: DELETE stops at zero, and a replacement destroys the table.
CountCoversPresent ==
    \A f \in FileTags : EnTabla(f) => Cardinality(Presentes(f)) <= tabla[f].cantidad

\* The pages a query sees: those in memory, and the storage for the others.
view == [f \in FileTags |->
    IF Exists(f)
    THEN [i \in DOMAIN files[f].data |->
            IF pagina[<<f, i - 1>>].marco # None THEN marco[pagina[<<f, i - 1>>].marco].bytes
                                                 ELSE files[f].data[i]]
    ELSE None]

\* A page nobody wrote to since it was brought or flushed has what the storage has: no flush and
\* no replacement loses a change to a File:Tag that can still be written.
CleanPageIsTrue ==
    ~fault => \A x \in Paginas :
        pagina[x].marco # None /\ ~pagina[x].modificado /\ Storage!Writable(x[1])
            => marco[pagina[x].marco].bytes = files[x[1]].data[x[2] + 1]

\* The pages of the access reach its last byte: not so when it is not aligned.
Entera(i) == Primera(i) + CantidadPaginas(i) > (i.dir + Tam(i) - 1) \div TamPagina

\* The bytes of the access are those of the File:Tag.
SeVe(i) == \A j \in DOMAIN i.dato :
    i.dato[j] = view[i.ft][Byte_(i, j) \div TamPagina + 1][Byte_(i, j) % TamPagina]

Terminado == fase = "consulta" /\ ins # None /\ ~fault /\ Storage!Writable(ins.ft)

\* A READ or WRITE over several pages, each of which may replace another of them, ends with the
\* bytes it is about in the File:Tag.
AccessIsRight == Terminado /\ Entera(ins) => SeVe(ins)

\* WRITE: "Escribe en la Memoria Interna los bytes correspondientes a partir de la direccion base
\* del File:Tag" (interpreter.h).
WriteTakesAll ==
    Terminado /\ ins.op = "WRITE" /\ (ins.dir + Tam(ins) - 1) \div TamPagina < Len(view[ins.ft])
        => SeVe(ins)

\* A query that is made to leave has all its changes in the storage, wherever it goes on.
LeavingSavesAll ==
    [][fase = "consulta" /\ fase' = "espera" /\ up' /\ ~fault =>
         \A f \in FileTags : Storage!Writable(f) => files'[f].data = view[f]]_vars

Promise == INSTANCE ByteFiles WITH Data <- Contenido, Zero <- EnCero, NoFile <- None, Others <- Otros

\* The worker is the File:Tags of ByteFiles, until a page table and its File:Tag drift apart:
\* frames, tables, replacement and the order of the flushes cannot be told by a query.
ImplementsByteFiles ==
    /\ Promise!Init
    /\ [][~fault' => UNCHANGED <<files, view, up>> \/ Promise!Next]_vars
=============================================================================
