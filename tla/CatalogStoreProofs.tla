------------------------- MODULE CatalogStoreProofs -------------------------
(***************************************************************************)
(* The catalog, its file and its handles, for any number of clients, any   *)
(* table definitions and any save threshold: the catalog stays well        *)
(* formed, a database that crashed opens again, a crash loses fewer tables *)
(* than the threshold, a clean close loses none, and the two ways to build *)
(* a key agree.                                                            *)
(***************************************************************************)
EXTENDS CatalogStore, FiniteSetTheorems, TLAPS

Json == "catalog.json"
Temp == "catalog.json.tmp"

Pc == {"idle", "count", "reset", "save", "create", "write", "sync", "rename", "release"}
Writes == {"write", "sync", "rename"}

\* Calls and the catalog in memory.  A client that is in a call holds a handle
\* on an open database.
CallsOK ==
  /\ phase \in {"up", "down", "unopenable"} /\ handles \subseteq Client
  /\ WellFormed(cat) /\ registered \subseteq cat.tables
  /\ overlap \in BOOLEAN /\ raced \in BOOLEAN
  /\ cl = [c \in Client |-> cl[c]]
  /\ \A c \in Client :
       /\ cl[c] = [pc |-> cl[c].pc, why |-> cl[c].why, snap |-> cl[c].snap, fd |-> cl[c].fd]
       /\ cl[c].pc \in Pc /\ cl[c].why \in {"none", "ddl", "call", "drop"}
       /\ WellFormed(cl[c].snap)
       /\ cl[c].pc # "idle" => phase = "up" /\ c \in handles
       /\ cl[c].why = "drop" => cl[c].pc \notin {"idle", "count", "reset"}
       /\ cl[c].pc = "release" => cl[c].why = "drop"

\* The files: what decodes at all is a snapshot of the catalog.
FilesOK ==
  /\ inode = [i \in Inode |-> inode[i]]
  /\ \A i \in Inode :
       /\ inode[i] = [data |-> inode[i].data, synced |-> inode[i].synced]
       /\ inode[i].data \in {NoBytes, Mixed} \/ WellFormed(inode[i].data)
  /\ entry \in [{Json, Temp} -> Inode \cup {0}]
  /\ \A c \in Client : /\ cl[c].fd \in Inode \cup {0}
                       /\ cl[c].pc \in Writes => cl[c].fd # 0

\* One save at a time: its file is the temporary one, which nobody else has
\* open, and the catalog's own file is a complete snapshot on the disk.
DiskOK ==
  /\ \A c, d \in Saving : c = d
  /\ entry[Temp] = entry[Json] => entry[Temp] = 0
  /\ entry[Json] # 0 => /\ inode[entry[Json]].synced = TRUE
                        /\ WellFormed(inode[entry[Json]].data)
  /\ \A c \in Client :
       IF cl[c].pc \notin Writes THEN cl[c].fd = 0
       ELSE /\ cl[c].fd = entry[Temp] /\ entry[Temp] # 0
            /\ inode[entry[Temp]].data = (IF cl[c].pc = "write" THEN NoBytes ELSE cl[c].snap)
            /\ cl[c].pc = "rename" => inode[entry[Temp]].synced = TRUE
  /\ phase # "unopenable"

\* One drop at a time: the client that drops the last handle is alone, and
\* what it saves is the catalog.
CloseOK ==
  /\ \A c, d \in Client : cl[c].why = "drop" /\ cl[d].why = "drop" => c = d
  /\ \A c \in Client : cl[c].why = "drop" =>
       /\ cl[c].pc # "release" => handles = {c}
       /\ c \in Saving => cl[c].snap = cat
       /\ cl[c].pc = "release" /\ handles = {c} => Published = cat
  /\ phase = "down" /\ cat # EmptyCatalog => Published = cat

Counted == {c \in Client : cl[c].pc = "count"}

\* The tables that a crash would lose are at most those that the counter has
\* counted or is about to, unless a save that will take them all has yet to
\* begin.  Once a save has taken its snapshot, the snapshot counts.
Owes(reg, saved, count, counted) == Cardinality(reg \ saved) <= count + Cardinality(counted)

Owed(saved) == Owes(registered, saved, ddl_count_since_save, Counted)

CountOK ==
  /\ phase = "up" /\ ddl_count_since_save >= Threshold => \E c \in Client : cl[c].pc = "reset"
  /\ ~overlap /\ (\A c \in Client : cl[c].pc \notin {"reset", "save"}) =>
       /\ \A c \in Saving : Owed(cl[c].snap.tables)
       /\ Saving = {} => Owed(Published.tables)

Accepted(l) == IntoSchema(l) /\ \E e \in Tables : l = e.layout

\* The cached positions are those of a layout that this process has ingested
\* the table under, and so are the columns in the registry.
KeysOK ==
  /\ \A t \in DOMAIN providers : Accepted(providers[t])
  /\ \A t \in DOMAIN pk_column_cache :
       /\ \E l \in laid : /\ l[1] = t /\ Accepted(l[2])
                          /\ pk_column_cache[t] = resolve_pk_columns(l[2].cols, l[2].pk)
       /\ \E l \in laid : /\ l[1] = t
                          /\ t \in DOMAIN table_schemas /\ table_schemas[t] = l[2].cols

Inv ==
  /\ ddl_count_since_save \in Nat /\ CallsOK /\ FilesOK
  /\ (~overlap => DiskOK) /\ (~overlap /\ ~raced => CloseOK) /\ CountOK /\ KeysOK

-----------------------------------------------------------------------------
(* What an action does to the call it is part of. *)

\* The call of client c moves on to r, the others stay where they are.
Becomes(c, r) == cl' = [d \in Client |-> IF d = c THEN r ELSE cl[d]]

Call(pc, why, snap, fd) == [pc |-> pc, why |-> why, snap |-> snap, fd |-> fd]

\* A call moves on with another reason.
LEMMA CallWhy ==
  ASSUME CallsOK, NEW c \in Client, NEW x, NEW y, cl' = [cl EXCEPT ![c].pc = x, ![c].why = y]
  PROVE  Becomes(c, Call(x, y, cl[c].snap, cl[c].fd))
<1> DEFINE g == [d \in Client |-> IF d = c THEN Call(x, cl[c].why, cl[c].snap, cl[c].fd) ELSE cl[d]]
<1>1. [cl EXCEPT ![c].pc = x] = g
  BY DEF CallsOK, Call
<1>2. [g EXCEPT ![c].why = y] = [d \in Client |-> IF d = c THEN Call(x, y, cl[c].snap, cl[c].fd) ELSE cl[d]]
  <2>1. /\ g[c] = Call(x, cl[c].why, cl[c].snap, cl[c].fd) /\ g = [d \in Client |-> g[d]]
        /\ \A d \in Client \ {c} : g[d] = cl[d]
    BY Zenon
  <2> HIDE DEF g
  <2> QED
    BY <2>1 DEF Call
<1>3. cl' = [[cl EXCEPT ![c].pc = x] EXCEPT ![c].why = y]
  BY Zenon
<1> QED
  BY <1>1, <1>2, <1>3, Zenon DEF Becomes

\* A call moves on with another file.
LEMMA CallFile ==
  ASSUME CallsOK, NEW c \in Client, NEW x, NEW y, cl' = [cl EXCEPT ![c].pc = x, ![c].fd = y]
  PROVE  Becomes(c, Call(x, cl[c].why, cl[c].snap, y))
<1> DEFINE g == [d \in Client |-> IF d = c THEN Call(x, cl[c].why, cl[c].snap, cl[c].fd) ELSE cl[d]]
<1>1. [cl EXCEPT ![c].pc = x] = g
  BY DEF CallsOK, Call
<1>2. [g EXCEPT ![c].fd = y] = [d \in Client |-> IF d = c THEN Call(x, cl[c].why, cl[c].snap, y) ELSE cl[d]]
  <2>1. /\ g[c] = Call(x, cl[c].why, cl[c].snap, cl[c].fd) /\ g = [d \in Client |-> g[d]]
        /\ \A d \in Client \ {c} : g[d] = cl[d]
    BY Zenon
  <2> HIDE DEF g
  <2> QED
    BY <2>1 DEF Call
<1>3. cl' = [[cl EXCEPT ![c].pc = x] EXCEPT ![c].fd = y]
  BY Zenon
<1> QED
  BY <1>1, <1>2, <1>3, Zenon DEF Becomes

\* register_table, save_catalog and Drop begin a call.
LEMMA CallBegins ==
  ASSUME CallsOK, NEW c \in Client
  PROVE  /\ \A e : register_table(c, e) => Becomes(c, Call("count", "ddl", cl[c].snap, cl[c].fd))
         /\ SaveNow(c) => Becomes(c, Call("save", "call", cl[c].snap, cl[c].fd))
         /\ DropCheck(c) =>
              Becomes(c, Call(IF LastHandle THEN "save" ELSE "release", "drop", cl[c].snap, cl[c].fd))
<1>1. ASSUME NEW e, register_table(c, e)
      PROVE  Becomes(c, Call("count", "ddl", cl[c].snap, cl[c].fd))
  <2>1. cl' = [cl EXCEPT ![c].pc = "count", ![c].why = "ddl"]
    BY <1>1, Zenon DEF register_table
  <2> QED
    BY <2>1, CallWhy, Zenon
<1>2. SaveNow(c) => Becomes(c, Call("save", "call", cl[c].snap, cl[c].fd))
  <2>1. SaveNow(c) => cl' = [cl EXCEPT ![c].pc = "save", ![c].why = "call"]
    BY Zenon DEF SaveNow
  <2> QED
    BY <2>1, CallWhy, Zenon
<1>3. ASSUME DropCheck(c)
      PROVE  Becomes(c, Call(IF LastHandle THEN "save" ELSE "release", "drop", cl[c].snap, cl[c].fd))
  <2> DEFINE x == IF LastHandle THEN "save" ELSE "release"
  <2>1. cl' = [cl EXCEPT ![c].pc = x, ![c].why = "drop"]
    BY <1>3, Zenon DEF DropCheck
  <2>2. Becomes(c, Call(x, "drop", cl[c].snap, cl[c].fd))
    <3> HIDE DEF x
    <3> QED
      BY <2>1, CallWhy, Zenon
  <2> QED
    BY <2>2, Zenon
<1> QED
  BY <1>1, <1>2, <1>3, Zenon

\* The steps of a save up to the file, and the release of a handle.
LEMMA CallGoesOn ==
  ASSUME CallsOK, NEW c \in Client
  PROVE  /\ SaveCount(c) =>
              Becomes(c, IF Due(ddl_count_since_save + 1)
                         THEN Call("reset", cl[c].why, cl[c].snap, cl[c].fd) ELSE Idle)
         /\ SaveReset(c) => Becomes(c, Call("save", cl[c].why, cl[c].snap, cl[c].fd))
         /\ SaveSnapshot(c) => Becomes(c, Call("create", cl[c].why, cat, cl[c].fd))
         /\ Release(c) => Becomes(c, Idle)
BY ZenonT(30) DEF CallsOK, SaveCount, SaveReset, SaveSnapshot, Release, Goto, Becomes, Call

\* The steps of a save on its file.
LEMMA CallWrites ==
  ASSUME CallsOK, NEW c \in Client
  PROVE  /\ SaveCreate(c) =>
              Becomes(c, Call("write", cl[c].why, cl[c].snap,
                              IF entry[Temp] = 0 THEN CHOOSE j \in Inode \ InUse : TRUE
                              ELSE entry[Temp]))
         /\ SaveWrite(c) => Becomes(c, Call("sync", cl[c].why, cl[c].snap, cl[c].fd))
         /\ SaveSync(c) => Becomes(c, Call("rename", cl[c].why, cl[c].snap, cl[c].fd))
         /\ SaveRename(c) =>
              Becomes(c, IF cl[c].why = "drop" THEN Call("release", "drop", EmptyCatalog, 0)
                         ELSE Idle)
<1> DEFINE i == IF entry[Temp] = 0 THEN CHOOSE j \in Inode \ InUse : TRUE ELSE entry[Temp]
<1>1. ASSUME SaveCreate(c)
      PROVE  Becomes(c, Call("write", cl[c].why, cl[c].snap, i))
  <2>1. cl' = [cl EXCEPT ![c].pc = "write", ![c].fd = i]
    BY <1>1, Zenon DEF SaveCreate, Opened, Temp
  <2> HIDE DEF i
  <2> QED
    BY <2>1, CallFile, Zenon
<1>2. SaveWrite(c) => Becomes(c, Call("sync", cl[c].why, cl[c].snap, cl[c].fd))
  BY ZenonT(40) DEF CallsOK, SaveWrite, Goto, Becomes, Call
<1>3. SaveSync(c) => Becomes(c, Call("rename", cl[c].why, cl[c].snap, cl[c].fd))
  BY ZenonT(40) DEF CallsOK, SaveSync, Goto, Becomes, Call
<1>4. SaveRename(c) =>
        Becomes(c, IF cl[c].why = "drop" THEN Call("release", "drop", EmptyCatalog, 0) ELSE Idle)
  BY ZenonT(40) DEF CallsOK, SaveRename, AfterSave, Idle, Becomes, Call
<1> QED
  BY <1>1, <1>2, <1>3, <1>4, Zenon

-----------------------------------------------------------------------------
(* Calls and the catalog in memory. *)

\* The empty catalog is well formed.
LEMMA EmptyWellFormed == WellFormed(EmptyCatalog)
BY Zenon DEF WellFormed, EmptyCatalog, Snapshots

\* Every DDL statement keeps the catalog well formed.
LEMMA DdlWellFormed ==
  ASSUME WellFormed(cat), NEW c \in Client
  PROVE  /\ \A n \in Name :
              /\ create_catalog(c, n) \/ create_schema(c, n) => WellFormed(cat')
              /\ drop_catalog(c, n) \/ drop_schema(c, n) \/ drop_table(c, n) => WellFormed(cat')
         /\ \A e \in Tables : create_table(c, e) => WellFormed(cat')
<1> USE DEF WellFormed, Snapshots
<1>1. ASSUME NEW n \in Name, create_catalog(c, n)
      PROVE  WellFormed(cat')
  BY <1>1, Zenon DEF create_catalog, Ddl
<1>2. ASSUME NEW n \in Name, create_schema(c, n)
      PROVE  WellFormed(cat')
  <2>1. /\ cat'.catalogs = cat.catalogs \cup {n[1]} /\ cat'.tables = cat.tables
        /\ cat'.schemas = cat.schemas \cup {SchemaOf(n)}
        /\ cat' = [catalogs |-> cat'.catalogs, schemas |-> cat'.schemas, tables |-> cat'.tables]
    BY <1>2, Zenon DEF create_schema, Ddl
  <2>2. SchemaOf(n)[1] = n[1]
    BY Zenon DEF SchemaOf
  <2> QED
    BY <2>1, <2>2, Zenon
<1>3. ASSUME NEW n \in Name, drop_catalog(c, n)
      PROVE  WellFormed(cat')
  BY <1>3, Zenon DEF drop_catalog, Ddl
<1>4. ASSUME NEW n \in Name, drop_schema(c, n)
      PROVE  WellFormed(cat')
  BY <1>4, Zenon DEF drop_schema, Ddl
<1>5. ASSUME NEW n \in Name, drop_table(c, n)
      PROVE  WellFormed(cat')
  BY <1>5, Zenon DEF drop_table, Ddl
<1>6. ASSUME NEW e \in Tables, create_table(c, e)
      PROVE  WellFormed(cat')
  <2>1. /\ cat'.catalogs = cat.catalogs \cup {e.name[1]} /\ cat'.tables = cat.tables \cup {e}
        /\ cat'.schemas = cat.schemas \cup {SchemaOf(e.name)}
        /\ cat' = [catalogs |-> cat'.catalogs, schemas |-> cat'.schemas, tables |-> cat'.tables]
    BY <1>6, Zenon DEF create_table, Ddl
  <2>2. IntoSchema(e.layout) /\ \A g \in cat.tables : g.name # e.name
    BY <1>6, Zenon DEF create_table, Has
  <2>3. e.name \in Name /\ SchemaOf(e.name)[1] = e.name[1]
    BY Zenon DEF Name, SchemaOf
  <2>4. cat' \in Snapshots
    BY <2>1, <2>3, Zenon
  <2>5. \A x \in cat'.schemas : x[1] \in cat'.catalogs
    BY <2>1, <2>3, Zenon
  <2>6. \A g \in cat'.tables : SchemaOf(g.name) \in cat'.schemas /\ IntoSchema(g.layout)
    BY <2>1, <2>2, Zenon
  <2>7. \A g, h \in cat'.tables : g.name = h.name => g = h
    BY <2>1, <2>2, Zenon
  <2> QED
    BY <2>4, <2>5, <2>6, <2>7, Zenon
<1> QED
  BY <1>1, <1>2, <1>3, <1>4, <1>5, <1>6, Zenon

\* The steps of a call keep CallsOK: the client that moves is in a call on an open
\* database, and the catalog in memory stays as it is.
LEMMA CallKeeps ==
  ASSUME CallsOK, NEW c \in Client, NEW r, Becomes(c, r),
         phase = "up", c \in handles, UNCHANGED <<phase, handles, cat>>,
         overlap' \in BOOLEAN, raced' \in BOOLEAN, registered' \subseteq cat.tables,
         r = Call(r.pc, r.why, r.snap, r.fd), WellFormed(r.snap),
         r.pc \in Pc, r.why \in {"none", "ddl", "call", "drop"},
         r.why = "drop" => r.pc \notin {"idle", "count", "reset"},
         r.pc = "release" => r.why = "drop"
  PROVE  CallsOK'
<1> USE DEF CallsOK
<1>1. cl' = [d \in Client |-> IF d = c THEN r ELSE cl[d]]
  BY Zenon DEF Becomes
<1>2. ASSUME NEW d \in Client
      PROVE  /\ cl'[d] = [pc |-> cl'[d].pc, why |-> cl'[d].why, snap |-> cl'[d].snap,
                          fd |-> cl'[d].fd]
             /\ cl'[d].pc \in Pc /\ cl'[d].why \in {"none", "ddl", "call", "drop"}
             /\ WellFormed(cl'[d].snap)
             /\ cl'[d].pc # "idle" => phase' = "up" /\ d \in handles'
             /\ cl'[d].why = "drop" => cl'[d].pc \notin {"idle", "count", "reset"}
             /\ cl'[d].pc = "release" => cl'[d].why = "drop"
  BY <1>1, Zenon DEF Call
<1> QED
  BY <1>1, <1>2, Zenon

\* Next by actions.  The DDL statements change the catalog and nothing else.
DdlStep ==
  \/ \E c \in Client, n \in Name :
       \/ create_catalog(c, n) \/ drop_catalog(c, n)
       \/ create_schema(c, n) \/ drop_schema(c, n) \/ drop_table(c, n)
  \/ \E c \in Client, e \in Tables : create_table(c, e)

\* What a DDL statement leaves alone; it needs a client between two calls.
LEMMA DdlEffect ==
  ASSUME DdlStep
  PROVE  /\ \E c \in Client : Free(c)
         /\ registered' \subseteq registered
         /\ UNCHANGED <<phase, providers, ddl_count_since_save, handles, cl, disk, engine,
                        overlap, raced, laid>>
BY ZenonT(40) DEF DdlStep, create_catalog, drop_catalog, create_schema, drop_schema, drop_table,
             create_table, Ddl

\* The tables that are registered stay in the catalog.
LEMMA DdlRegistered ==
  ASSUME DdlStep, CallsOK
  PROVE  registered' \subseteq cat'.tables
<1> USE DEF CallsOK, WellFormed, Snapshots, Ddl
<1>1. ASSUME NEW c \in Client, NEW n \in Name, drop_table(c, n)
      PROVE  registered' \subseteq cat'.tables
  BY <1>1, Zenon DEF drop_table
<1>2. ASSUME NEW c \in Client, NEW n \in Name,
             create_catalog(c, n) \/ drop_catalog(c, n) \/ create_schema(c, n) \/ drop_schema(c, n)
      PROVE  registered' = registered /\ cat'.tables = cat.tables
  BY <1>2, ZenonT(30) DEF create_catalog, drop_catalog, create_schema, drop_schema
<1>3. ASSUME NEW c \in Client, NEW e \in Tables, create_table(c, e)
      PROVE  registered' \subseteq cat'.tables
  BY <1>3, Zenon DEF create_table
<1> QED
  BY <1>1, <1>2, <1>3, Zenon DEF DdlStep

\* The catalog and the calls stay well formed.
LEMMA CallsStep ==
  ASSUME Inv, [Next]_vars
  PROVE  CallsOK'
<1>0. CallsOK
  BY Zenon DEF Inv
<1> USE <1>0
<1>1. CASE DdlStep
  <2>1. WellFormed(cat')
    BY <1>1, DdlWellFormed, Zenon DEF CallsOK, DdlStep
  <2>2. registered' \subseteq cat'.tables
    BY <1>1, DdlRegistered, Zenon
  <2>3. UNCHANGED <<phase, handles, cl, overlap, raced>>
    BY <1>1, DdlEffect, Zenon
  <2> QED
    BY <2>1, <2>2, <2>3, Zenon DEF CallsOK
<1>2. ASSUME NEW c \in Client, NEW e \in Tables, register_table(c, e)
      PROVE  CallsOK'
  <2> DEFINE r == Call("count", "ddl", cl[c].snap, cl[c].fd)
  <2>1. Becomes(c, r)
    BY <1>2, CallBegins, Zenon
  <2>2. /\ phase = "up" /\ c \in handles /\ UNCHANGED <<phase, handles, cat>>
        /\ overlap' \in BOOLEAN /\ raced' \in BOOLEAN /\ registered' \subseteq cat.tables
    BY <1>2, Zenon DEF register_table, Free, CallsOK
  <2>3. /\ r = Call(r.pc, r.why, r.snap, r.fd) /\ WellFormed(r.snap)
        /\ r.pc \in Pc /\ r.why \in {"none", "ddl", "call", "drop"}
        /\ r.why = "drop" => r.pc \notin {"idle", "count", "reset"}
        /\ r.pc = "release" => r.why = "drop"
    BY <1>2, EmptyWellFormed, Zenon DEF Call, Idle, Pc, CallsOK, register_table
  <2> HIDE DEF r
  <2> QED
    BY <2>1, <2>2, <2>3, CallKeeps, Zenon
<1>3. ASSUME NEW c \in Client, SaveNow(c)
      PROVE  CallsOK'
  <2> DEFINE r == Call("save", "call", cl[c].snap, cl[c].fd)
  <2>1. Becomes(c, r)
    BY <1>3, CallBegins, Zenon
  <2>2. /\ phase = "up" /\ c \in handles /\ UNCHANGED <<phase, handles, cat>>
        /\ overlap' \in BOOLEAN /\ raced' \in BOOLEAN /\ registered' \subseteq cat.tables
    BY <1>3, Zenon DEF SaveNow, Free, history, CallsOK
  <2>3. /\ r = Call(r.pc, r.why, r.snap, r.fd) /\ WellFormed(r.snap)
        /\ r.pc \in Pc /\ r.why \in {"none", "ddl", "call", "drop"}
        /\ r.why = "drop" => r.pc \notin {"idle", "count", "reset"}
        /\ r.pc = "release" => r.why = "drop"
    BY <1>3, EmptyWellFormed, Zenon DEF Call, Idle, Pc, CallsOK, SaveNow
  <2> HIDE DEF r
  <2> QED
    BY <2>1, <2>2, <2>3, CallKeeps, Zenon
<1>4. ASSUME NEW c \in Client, DropCheck(c)
      PROVE  CallsOK'
  <2> DEFINE r == Call(IF LastHandle THEN "save" ELSE "release", "drop", cl[c].snap, cl[c].fd)
  <2>1. Becomes(c, r)
    BY <1>4, CallBegins, Zenon
  <2>2. /\ phase = "up" /\ c \in handles /\ UNCHANGED <<phase, handles, cat>>
        /\ overlap' \in BOOLEAN /\ raced' \in BOOLEAN /\ registered' \subseteq cat.tables
    BY <1>4, Zenon DEF DropCheck, Free, CallsOK
  <2>3. /\ r = Call(r.pc, r.why, r.snap, r.fd) /\ WellFormed(r.snap)
        /\ r.pc \in Pc /\ r.why \in {"none", "ddl", "call", "drop"}
        /\ r.why = "drop" => r.pc \notin {"idle", "count", "reset"}
        /\ r.pc = "release" => r.why = "drop"
    BY <1>4, EmptyWellFormed, Zenon DEF Call, Idle, Pc, CallsOK, DropCheck
  <2> HIDE DEF r
  <2> QED
    BY <2>1, <2>2, <2>3, CallKeeps, Zenon
<1>5. ASSUME NEW c \in Client, SaveCount(c)
      PROVE  CallsOK'
  <2> DEFINE r == IF Due(ddl_count_since_save + 1) THEN Call("reset", cl[c].why, cl[c].snap, cl[c].fd) ELSE Idle
  <2>1. Becomes(c, r)
    BY <1>5, CallGoesOn, Zenon
  <2>2. /\ phase = "up" /\ c \in handles /\ UNCHANGED <<phase, handles, cat>>
        /\ overlap' \in BOOLEAN /\ raced' \in BOOLEAN /\ registered' \subseteq cat.tables
    BY <1>5, Zenon DEF SaveCount, memory, CallsOK
  <2>3. /\ r = Call(r.pc, r.why, r.snap, r.fd) /\ WellFormed(r.snap)
        /\ r.pc \in Pc /\ r.why \in {"none", "ddl", "call", "drop"}
        /\ r.why = "drop" => r.pc \notin {"idle", "count", "reset"}
        /\ r.pc = "release" => r.why = "drop"
    BY <1>5, EmptyWellFormed, Zenon DEF Call, Idle, Pc, CallsOK, SaveCount
  <2> HIDE DEF r
  <2> QED
    BY <2>1, <2>2, <2>3, CallKeeps, Zenon
<1>6. ASSUME NEW c \in Client, SaveReset(c)
      PROVE  CallsOK'
  <2> DEFINE r == Call("save", cl[c].why, cl[c].snap, cl[c].fd)
  <2>1. Becomes(c, r)
    BY <1>6, CallGoesOn, Zenon
  <2>2. /\ phase = "up" /\ c \in handles /\ UNCHANGED <<phase, handles, cat>>
        /\ overlap' \in BOOLEAN /\ raced' \in BOOLEAN /\ registered' \subseteq cat.tables
    BY <1>6, Zenon DEF SaveReset, memory, CallsOK
  <2>3. /\ r = Call(r.pc, r.why, r.snap, r.fd) /\ WellFormed(r.snap)
        /\ r.pc \in Pc /\ r.why \in {"none", "ddl", "call", "drop"}
        /\ r.why = "drop" => r.pc \notin {"idle", "count", "reset"}
        /\ r.pc = "release" => r.why = "drop"
    BY <1>6, EmptyWellFormed, Zenon DEF Call, Idle, Pc, CallsOK, SaveReset
  <2> HIDE DEF r
  <2> QED
    BY <2>1, <2>2, <2>3, CallKeeps, Zenon
<1>7. ASSUME NEW c \in Client, SaveSnapshot(c)
      PROVE  CallsOK'
  <2> DEFINE r == Call("create", cl[c].why, cat, cl[c].fd)
  <2>1. Becomes(c, r)
    BY <1>7, CallGoesOn, Zenon
  <2>2. /\ phase = "up" /\ c \in handles /\ UNCHANGED <<phase, handles, cat>>
        /\ overlap' \in BOOLEAN /\ raced' \in BOOLEAN /\ registered' \subseteq cat.tables
    BY <1>7, Zenon DEF SaveSnapshot, memory, CallsOK
  <2>3. /\ r = Call(r.pc, r.why, r.snap, r.fd) /\ WellFormed(r.snap)
        /\ r.pc \in Pc /\ r.why \in {"none", "ddl", "call", "drop"}
        /\ r.why = "drop" => r.pc \notin {"idle", "count", "reset"}
        /\ r.pc = "release" => r.why = "drop"
    BY <1>7, EmptyWellFormed, Zenon DEF Call, Idle, Pc, CallsOK, SaveSnapshot
  <2> HIDE DEF r
  <2> QED
    BY <2>1, <2>2, <2>3, CallKeeps, Zenon
<1>8. ASSUME NEW c \in Client, SaveCreate(c)
      PROVE  CallsOK'
  <2> DEFINE r == Call("write", cl[c].why, cl[c].snap,
                 IF entry[Temp] = 0 THEN CHOOSE j \in Inode \ InUse : TRUE ELSE entry[Temp])
  <2>1. Becomes(c, r)
    BY <1>8, CallWrites, Zenon
  <2>2. /\ phase = "up" /\ c \in handles /\ UNCHANGED <<phase, handles, cat>>
        /\ overlap' \in BOOLEAN /\ raced' \in BOOLEAN /\ registered' \subseteq cat.tables
    BY <1>8, Zenon DEF SaveCreate, memory, CallsOK
  <2>3. /\ r = Call(r.pc, r.why, r.snap, r.fd) /\ WellFormed(r.snap)
        /\ r.pc \in Pc /\ r.why \in {"none", "ddl", "call", "drop"}
        /\ r.why = "drop" => r.pc \notin {"idle", "count", "reset"}
        /\ r.pc = "release" => r.why = "drop"
    BY <1>8, EmptyWellFormed DEF Call, Idle, Pc, CallsOK, SaveCreate
  <2> HIDE DEF r
  <2> QED
    BY <2>1, <2>2, <2>3, CallKeeps, Zenon
<1>9. ASSUME NEW c \in Client, SaveWrite(c)
      PROVE  CallsOK'
  <2> DEFINE r == Call("sync", cl[c].why, cl[c].snap, cl[c].fd)
  <2>1. Becomes(c, r)
    BY <1>9, CallWrites, Zenon
  <2>2. /\ phase = "up" /\ c \in handles /\ UNCHANGED <<phase, handles, cat>>
        /\ overlap' \in BOOLEAN /\ raced' \in BOOLEAN /\ registered' \subseteq cat.tables
    BY <1>9, Zenon DEF SaveWrite, memory, CallsOK
  <2>3. /\ r = Call(r.pc, r.why, r.snap, r.fd) /\ WellFormed(r.snap)
        /\ r.pc \in Pc /\ r.why \in {"none", "ddl", "call", "drop"}
        /\ r.why = "drop" => r.pc \notin {"idle", "count", "reset"}
        /\ r.pc = "release" => r.why = "drop"
    BY <1>9, EmptyWellFormed, Zenon DEF Call, Idle, Pc, CallsOK, SaveWrite
  <2> HIDE DEF r
  <2> QED
    BY <2>1, <2>2, <2>3, CallKeeps, Zenon
<1>10. ASSUME NEW c \in Client, SaveSync(c)
      PROVE  CallsOK'
  <2> DEFINE r == Call("rename", cl[c].why, cl[c].snap, cl[c].fd)
  <2>1. Becomes(c, r)
    BY <1>10, CallWrites, Zenon
  <2>2. /\ phase = "up" /\ c \in handles /\ UNCHANGED <<phase, handles, cat>>
        /\ overlap' \in BOOLEAN /\ raced' \in BOOLEAN /\ registered' \subseteq cat.tables
    BY <1>10, Zenon DEF SaveSync, memory, CallsOK
  <2>3. /\ r = Call(r.pc, r.why, r.snap, r.fd) /\ WellFormed(r.snap)
        /\ r.pc \in Pc /\ r.why \in {"none", "ddl", "call", "drop"}
        /\ r.why = "drop" => r.pc \notin {"idle", "count", "reset"}
        /\ r.pc = "release" => r.why = "drop"
    BY <1>10, EmptyWellFormed, Zenon DEF Call, Idle, Pc, CallsOK, SaveSync
  <2> HIDE DEF r
  <2> QED
    BY <2>1, <2>2, <2>3, CallKeeps, Zenon
<1>11. ASSUME NEW c \in Client, SaveRename(c)
      PROVE  CallsOK'
  <2> DEFINE r == IF cl[c].why = "drop" THEN Call("release", "drop", EmptyCatalog, 0) ELSE Idle
  <2>1. Becomes(c, r)
    BY <1>11, CallWrites, Zenon
  <2>2. /\ phase = "up" /\ c \in handles /\ UNCHANGED <<phase, handles, cat>>
        /\ overlap' \in BOOLEAN /\ raced' \in BOOLEAN /\ registered' \subseteq cat.tables
    BY <1>11, Zenon DEF SaveRename, memory, CallsOK
  <2>3. /\ r = Call(r.pc, r.why, r.snap, r.fd) /\ WellFormed(r.snap)
        /\ r.pc \in Pc /\ r.why \in {"none", "ddl", "call", "drop"}
        /\ r.why = "drop" => r.pc \notin {"idle", "count", "reset"}
        /\ r.pc = "release" => r.why = "drop"
    BY <1>11, EmptyWellFormed, Zenon DEF Call, Idle, Pc, CallsOK, SaveRename
  <2> HIDE DEF r
  <2> QED
    BY <2>1, <2>2, <2>3, CallKeeps, Zenon
<1>12. ASSUME NEW c \in Client, Release(c)
       PROVE  CallsOK'
  <2>1. cl' = [d \in Client |-> IF d = c THEN Idle ELSE cl[d]]
    BY <1>12, CallGoesOn, Zenon DEF Becomes
  <2>2. /\ handles' = handles \ {c} /\ UNCHANGED <<cat, registered, overlap, raced>>
        /\ phase = "up" /\ phase' = IF handles = {c} THEN "down" ELSE "up"
    BY <1>12, Zenon DEF Release, history
  <2>3. ASSUME NEW d \in Client, cl'[d].pc # "idle"
        PROVE  phase' = "up" /\ d \in handles'
    BY <2>1, <2>2, <2>3, Zenon DEF CallsOK, Idle
  <2>4. ASSUME NEW d \in Client
        PROVE  /\ cl'[d] = [pc |-> cl'[d].pc, why |-> cl'[d].why, snap |-> cl'[d].snap,
                            fd |-> cl'[d].fd]
               /\ cl'[d].pc \in Pc /\ cl'[d].why \in {"none", "ddl", "call", "drop"}
               /\ WellFormed(cl'[d].snap)
               /\ cl'[d].why = "drop" => cl'[d].pc \notin {"idle", "count", "reset"}
               /\ cl'[d].pc = "release" => cl'[d].why = "drop"
    BY <2>1, EmptyWellFormed, Zenon DEF CallsOK, Idle, Pc
  <2> QED
    BY <2>1, <2>2, <2>3, <2>4, ZenonT(40) DEF CallsOK
<1>13. ASSUME NEW lost, Crash(lost)
       PROVE  CallsOK'
  BY <1>13, EmptyWellFormed, Zenon DEF Crash, CallsOK, Idle, Pc, EmptyCatalog
<1>14. CASE Open
  <2>1. Published \in {NoBytes, Mixed} \/ WellFormed(Published)
    BY EmptyWellFormed, Zenon DEF Inv, FilesOK, Published, Json
  <2>2. WellFormed(cat')
    BY <1>14, <2>1, EmptyWellFormed, Zenon DEF Open
  <2> QED
    BY <1>14, <2>2, Zenon DEF Open, CallsOK
<1>15. CASE UNCHANGED vars
  BY <1>15, Zenon DEF vars, history, CallsOK
<1>16. ASSUME NEW c \in Client, NEW t, deregister_table(c, t) \/ ingest(c, t)
       PROVE  CallsOK'
  BY <1>16, ZenonT(40) DEF deregister_table, ingest, history, CallsOK
<1> QED
  BY Zenon, <1>1, <1>2, <1>3, <1>4, <1>5, <1>6, <1>7, <1>8, <1>9, <1>10, <1>11, <1>12, <1>13, <1>14,
     <1>15, <1>16 DEF Next, DdlStep

-----------------------------------------------------------------------------
(* The files. *)

\* There is always an inode for a new file.
LEMMA FreeInode ==
  ASSUME FilesOK, entry[Temp] = 0
  PROVE  \E i \in Inode : i \notin InUse
<1> DEFINE fds == {cl[c].fd : c \in Client}
           f == [c \in Client |-> cl[c].fd]
           N == Cardinality(Client)
<1>1. IsFiniteSet(Client) /\ N \in Nat
  BY CatalogAssumption, FS_CardinalityType, Zenon
<1>2. IsFiniteSet(fds) /\ Cardinality(fds) <= N
  <2>1. f \in Surjection(Client, fds)
    BY Zenon DEF Surjection
  <2> HIDE DEF fds, f
  <2> QED
    BY <1>1, <2>1, FS_Surjection, Zenon
<1>3. /\ IsFiniteSet(fds \cup {0} \cup {entry[Json]})
      /\ Cardinality(fds \cup {0} \cup {entry[Json]}) <= N + 2
  <2> HIDE DEF fds
  <2>1. IsFiniteSet(fds \cup {0}) /\ Cardinality(fds \cup {0}) <= N + 1
    <3>1. Cardinality(fds) \in Nat
      BY <1>2, FS_CardinalityType, Zenon
    <3> QED
      <4>1. /\ IsFiniteSet(fds \cup {0})
            /\ Cardinality(fds \cup {0}) =
                 IF 0 \in fds THEN Cardinality(fds) ELSE Cardinality(fds) + 1
        BY <1>2, FS_AddElement, Zenon
      <4> QED
        BY <1>1, <1>2, <3>1, <4>1
  <2>2. Cardinality(fds \cup {0}) \in Nat
    BY <2>1, FS_CardinalityType, Zenon
  <2> QED
    <3> DEFINE A == fds \cup {0}
               B == A \cup {entry[Json]}
    <3>1. IsFiniteSet(B) /\ Cardinality(B) = IF entry[Json] \in A THEN Cardinality(A)
                                             ELSE Cardinality(A) + 1
      <4> HIDE DEF A
      <4> QED
        BY <2>1, FS_AddElement, Zenon DEF A
    <3> HIDE DEF A, B
    <3>2. Cardinality(B) <= N + 2
      BY <1>1, <2>1, <2>2, <3>1 DEF A
    <3> QED
      BY <3>1, <3>2, Zenon DEF A, B
<1>4. InUse = fds \cup {0} \cup {entry[Json]}
  BY ZenonT(40) DEF InUse, FilesOK, Json, Temp
<1>5. IsFiniteSet(0..(N + 2)) /\ Cardinality(0..(N + 2)) = N + 3
  <2> DEFINE M == N + 2
  <2>1. M \in Int /\ M - 0 + 1 = N + 3 /\ ~(0 > M)
    BY <1>1
  <2> HIDE DEF M
  <2>2. 0 \in Int
    OBVIOUS
  <2>3. IsFiniteSet(0..M) /\ Cardinality(0..M) = M - 0 + 1
    BY <2>1, <2>2, FS_Interval, Zenon
  <2> QED
    BY <2>1, <2>3, Zenon DEF M
<1>6. 0..(N + 2) = Inode \cup {0}
  BY <1>1 DEF Inode
<1>7. ASSUME \A i \in Inode : i \in InUse
      PROVE  FALSE
  <2>1. 0..(N + 2) \subseteq fds \cup {0} \cup {entry[Json]}
    BY <1>4, <1>6, <1>7, Zenon
  <2> HIDE DEF fds
  <2>2. N + 3 <= Cardinality(fds \cup {0} \cup {entry[Json]})
    <3> DEFINE S == fds \cup {0} \cup {entry[Json]}
               T == 0..(N + 2)
    <3>1. IsFiniteSet(S) /\ T \in SUBSET S /\ Cardinality(T) = N + 3
      BY <1>3, <1>5, <2>1, Zenon
    <3> HIDE DEF S, T
    <3>2. Cardinality(T) <= Cardinality(S)
      BY <3>1, FS_Subset, Zenon
    <3> QED
      BY <3>1, <3>2, Zenon DEF S
  <2>3. Cardinality(fds \cup {0} \cup {entry[Json]}) \in Nat
    BY <1>3, FS_CardinalityType, Zenon
  <2> QED
    BY <1>1, <1>3, <2>2, <2>3
<1> QED
  BY <1>7, Zenon

\* The inode that a save gets for the temporary file: the file's, or one that is
\* not in use.
LEMMA CreateEffect ==
  ASSUME FilesOK, CallsOK, NEW c \in Client, SaveCreate(c)
  PROVE  \E i \in Inode :
           /\ IF entry[Temp] = 0 THEN i \notin InUse ELSE i = entry[Temp]
           /\ inode' = [inode EXCEPT ![i] = [data |-> NoBytes, synced |-> FALSE]]
           /\ entry' = [entry EXCEPT ![Temp] = i]
           /\ Becomes(c, Call("write", cl[c].why, cl[c].snap, i))
<1> DEFINE i == IF entry[Temp] = 0 THEN CHOOSE j \in Inode \ InUse : TRUE ELSE entry[Temp]
<1>1. /\ inode' = [inode EXCEPT ![i] = [data |-> NoBytes, synced |-> FALSE]]
      /\ entry' = [entry EXCEPT ![Temp] = i]
  BY Zenon DEF SaveCreate, Opened, Temp
<1>2. Becomes(c, Call("write", cl[c].why, cl[c].snap, i))
  BY CallWrites, Zenon
<1>3. i \in Inode /\ IF entry[Temp] = 0 THEN i \notin InUse ELSE i = entry[Temp]
  BY FreeInode, Zenon DEF FilesOK
<1> HIDE DEF i
<1> QED
  BY <1>1, <1>2, <1>3, ZenonT(30)

\* The actions that neither touch a file nor move a call to or from one.
Quiet ==
  /\ UNCHANGED <<inode, entry>>
  /\ \A c \in Client :
       \/ cl'[c] = cl[c]
       \/ /\ cl[c].pc \notin Writes \cup {"create"} /\ cl'[c].pc \notin Writes
          /\ cl'[c].fd \in {cl[c].fd, 0}
       \/ cl'[c].pc = "idle" /\ cl'[c].fd = 0

\* A call that moves without touching a file.
LEMMA QuietCall ==
  ASSUME NEW c \in Client, NEW r, Becomes(c, r), UNCHANGED <<inode, entry>>,
         \/ cl[c].pc \notin Writes \cup {"create"} /\ r.pc \notin Writes /\ r.fd = cl[c].fd
         \/ r.pc = "idle" /\ r.fd = 0
  PROVE  Quiet
BY SMTT(30), Zenon DEF Becomes, Quiet

\* Every action that is not a step of a save on its file, or a crash, is quiet.
LEMMA Quiets ==
  ASSUME CallsOK, Next,
         ~\E c \in Client : SaveCreate(c) \/ SaveWrite(c) \/ SaveSync(c) \/ SaveRename(c),
         ~\E lost \in SUBSET Inode : Crash(lost)
  PROVE  Quiet
<1> USE DEF Quiet, Writes
<1>1. CASE DdlStep
  BY <1>1, DdlEffect, Zenon DEF disk
<1>2. ASSUME NEW c \in Client, NEW e \in Tables, register_table(c, e)
      PROVE  Quiet
  <2> DEFINE r == Call("count", "ddl", cl[c].snap, cl[c].fd)
  <2>1. Becomes(c, r)
    BY <1>2, CallBegins, Zenon
  <2>2. cl[c].pc \notin Writes \cup {"create"} /\ r.pc \notin Writes /\ r.fd = cl[c].fd
    BY <1>2, Zenon DEF register_table, Free, Call
  <2>3. UNCHANGED <<inode, entry>>
    BY <1>2, Zenon DEF register_table, disk
  <2> HIDE DEF r
  <2> QED
    BY <2>1, <2>2, <2>3, QuietCall, Zenon
<1>3. ASSUME NEW c \in Client, NEW t, deregister_table(c, t) \/ ingest(c, t)
      PROVE  Quiet
  BY <1>3, Zenon DEF deregister_table, ingest, disk
<1>4. ASSUME NEW c \in Client, SaveCount(c)
      PROVE  Quiet
  BY <1>4, CallGoesOn DEF Becomes, Call, Idle, SaveCount, disk
<1>5. ASSUME NEW c \in Client, SaveReset(c)
      PROVE  Quiet
  BY <1>5, CallGoesOn DEF Becomes, Call, SaveReset, disk
<1>6. ASSUME NEW c \in Client, SaveNow(c)
      PROVE  Quiet
  <2> DEFINE r == Call("save", "call", cl[c].snap, cl[c].fd)
  <2>1. Becomes(c, r)
    BY <1>6, CallBegins, Zenon
  <2>2. cl[c].pc \notin Writes \cup {"create"} /\ r.pc \notin Writes /\ r.fd = cl[c].fd
    BY <1>6, Zenon DEF SaveNow, Free, Call
  <2>3. UNCHANGED <<inode, entry>>
    BY <1>6, Zenon DEF SaveNow, disk
  <2> HIDE DEF r
  <2> QED
    BY <2>1, <2>2, <2>3, QuietCall, Zenon
<1>7. ASSUME NEW c \in Client, SaveSnapshot(c)
      PROVE  Quiet
  <2> DEFINE r == Call("create", cl[c].why, cat, cl[c].fd)
  <2>1. Becomes(c, r)
    BY <1>7, CallGoesOn, Zenon
  <2>2. cl[c].pc \notin Writes \cup {"create"} /\ r.pc \notin Writes /\ r.fd = cl[c].fd
    BY <1>7, Zenon DEF SaveSnapshot, Call
  <2>3. UNCHANGED <<inode, entry>>
    BY <1>7, Zenon DEF SaveSnapshot, disk
  <2> HIDE DEF r
  <2> QED
    BY <2>1, <2>2, <2>3, QuietCall, Zenon
<1>8. ASSUME NEW c \in Client, DropCheck(c)
      PROVE  Quiet
  <2> DEFINE r == Call(IF LastHandle THEN "save" ELSE "release", "drop", cl[c].snap, cl[c].fd)
  <2>1. Becomes(c, r)
    BY <1>8, CallBegins, Zenon
  <2>2. cl[c].pc \notin Writes \cup {"create"} /\ r.pc \notin Writes /\ r.fd = cl[c].fd
    BY <1>8, Zenon DEF DropCheck, Free, Call
  <2>3. UNCHANGED <<inode, entry>>
    BY <1>8, Zenon DEF DropCheck, disk
  <2> HIDE DEF r
  <2> QED
    BY <2>1, <2>2, <2>3, QuietCall, Zenon
<1>9. ASSUME NEW c \in Client, Release(c)
      PROVE  Quiet
  BY <1>9, CallGoesOn, Zenon DEF Becomes, Idle, Release, disk
<1>10. CASE Open
  BY <1>10, Zenon DEF Open, disk
<1> QED
  BY <1>1, <1>2, <1>3, <1>4, <1>5, <1>6, <1>7, <1>8, <1>9, <1>10, Zenon DEF Next, DdlStep

\* A write leaves one of the two snapshots, or bytes that do not decode.
LEMMA OverwrittenIs ==
  ASSUME NEW old, NEW new
  PROVE  Overwritten(old, new) \in {new, Mixed}
BY Zenon DEF Overwritten

\* What decodes in a file stays a snapshot of the catalog.
LEMMA FilesStep ==
  ASSUME Inv, [Next]_vars
  PROVE  FilesOK'
<1>0. CallsOK /\ FilesOK
  BY Zenon DEF Inv
<1> USE <1>0
<1>1. ASSUME NEW c \in Client, SaveCreate(c)
      PROVE  FilesOK'
  <2>1. PICK i \in Inode :
          /\ inode' = [inode EXCEPT ![i] = [data |-> NoBytes, synced |-> FALSE]]
          /\ entry' = [entry EXCEPT ![Temp] = i]
          /\ Becomes(c, Call("write", cl[c].why, cl[c].snap, i))
    BY <1>1, CreateEffect, Zenon
  <2>2. i # 0
    BY DEF Inode
  <2>3. \A d \in Client : cl'[d].fd \in Inode \cup {0} /\ (cl'[d].pc \in Writes => cl'[d].fd # 0)
    BY <2>1, <2>2, Zenon DEF Becomes, Call, FilesOK
  <2> QED
    BY <2>1, <2>3, Zenon DEF FilesOK, Temp
<1>2. ASSUME NEW c \in Client, SaveWrite(c)
      PROVE  FilesOK'
  <2> DEFINE i == cl[c].fd
             new == Overwritten(inode[i].data, cl[c].snap)
  <2>1. i \in Inode
    BY <1>2, Zenon DEF SaveWrite, FilesOK, Writes
  <2>2. inode' = [inode EXCEPT ![i] = [data |-> new, synced |-> FALSE]]
    BY <1>2, Zenon DEF SaveWrite
  <2>3. new \in {NoBytes, Mixed} \/ WellFormed(new)
    BY OverwrittenIs, ZenonT(40) DEF CallsOK
  <2>4. \A d \in Client : cl'[d].fd = cl[d].fd /\ (cl'[d].pc \in Writes => cl[d].pc \in Writes)
    <3>1. Becomes(c, Call("sync", cl[c].why, cl[c].snap, cl[c].fd)) /\ cl[c].pc \in Writes
      BY <1>2, CallWrites, Zenon DEF SaveWrite, Writes
    <3> QED
      BY <3>1, Zenon DEF Becomes, Call
  <2> HIDE DEF i, new
  <2> QED
    <3>1. entry' = entry
      BY <1>2, Zenon DEF SaveWrite
    <3>2. \A j \in Inode : inode'[j] = IF j = i THEN [data |-> new, synced |-> FALSE] ELSE inode[j]
      BY <2>1, <2>2, Zenon DEF FilesOK
    <3>3. inode' = [j \in Inode |-> inode'[j]]
      BY <2>2, ZenonT(30) DEF FilesOK
    <3>4. ASSUME NEW j \in Inode
          PROVE  /\ inode'[j] = [data |-> inode'[j].data, synced |-> inode'[j].synced]
                 /\ inode'[j].data \in {NoBytes, Mixed} \/ WellFormed(inode'[j].data)
      BY <2>3, <3>2 DEF FilesOK
    <3> QED
      BY <2>4, <3>1, <3>3, <3>4, Zenon DEF FilesOK
<1>3. ASSUME NEW c \in Client, SaveSync(c)
      PROVE  FilesOK'
  <2> DEFINE i == cl[c].fd
  <2>1. i \in Inode
    BY <1>3, Zenon DEF SaveSync, FilesOK, Writes
  <2>2. inode' = [inode EXCEPT ![i].synced = TRUE]
    BY <1>3, Zenon DEF SaveSync
  <2>3. \A d \in Client : cl'[d].fd = cl[d].fd /\ (cl'[d].pc \in Writes => cl[d].pc \in Writes)
    <3>1. Becomes(c, Call("rename", cl[c].why, cl[c].snap, cl[c].fd)) /\ cl[c].pc \in Writes
      BY <1>3, CallWrites, Zenon DEF SaveSync, Writes
    <3> QED
      BY <3>1, Zenon DEF Becomes, Call
  <2> HIDE DEF i
  <2> QED
    BY <1>3, <2>1, <2>2, <2>3, ZenonT(90) DEF FilesOK, SaveSync
<1>4. ASSUME NEW c \in Client, SaveRename(c)
      PROVE  FilesOK'
  <2>1. inode' = [i \in Inode |-> IF i \in InUse' THEN inode[i] ELSE Unused]
    BY <1>4, Zenon DEF SaveRename
  <2>2. entry' \in [{Json, Temp} -> Inode \cup {0}]
    BY <1>4, Zenon DEF SaveRename, FilesOK, Json, Temp
  <2>3. \A d \in Client : cl'[d].fd \in Inode \cup {0} /\ (cl'[d].pc \in Writes => cl'[d].fd # 0)
    BY <1>4, CallWrites DEF Becomes, Call, Idle, FilesOK, Writes
  <2> QED
    BY <2>1, <2>2, <2>3, Zenon DEF FilesOK, Unused
<1>5. ASSUME NEW lost \in SUBSET Inode, Crash(lost)
      PROVE  FilesOK'
  <2>1. inode' = [i \in Inode |-> IF i \in lost THEN Unused
                                 ELSE [data |-> inode[i].data, synced |-> TRUE]]
    BY <1>5, Zenon DEF Crash
  <2>2. entry' = entry /\ cl' = [c \in Client |-> Idle]
    BY <1>5, Zenon DEF Crash
  <2>4. ASSUME NEW i \in Inode
        PROVE  /\ inode'[i] = [data |-> inode'[i].data, synced |-> inode'[i].synced]
               /\ inode'[i].data \in {NoBytes, Mixed} \/ WellFormed(inode'[i].data)
    BY <2>1, Zenon DEF FilesOK, Unused
  <2>5. \A c \in Client : cl'[c].fd = 0 /\ cl'[c].pc \notin Writes
    BY <2>2, Zenon DEF Idle, Writes
  <2> QED
    BY <2>1, <2>2, <2>4, <2>5, Zenon DEF FilesOK
<1>6. CASE Quiet
  BY <1>6, Zenon DEF Quiet, FilesOK, Writes
<1>7. CASE UNCHANGED vars
  BY <1>7, Zenon DEF vars, disk, FilesOK
<1> QED
  BY <1>1, <1>2, <1>3, <1>4, <1>5, <1>6, <1>7, Quiets, Zenon

-----------------------------------------------------------------------------
(* One save at a time. *)

\* overlap is for good, and only SaveSnapshot adds a client to Saving.
LEMMA Overlaps ==
  ASSUME CallsOK, Next
  PROVE  /\ overlap => overlap'
         /\ ~overlap' => \A c, d \in Client :
              c \in Saving' /\ c \notin Saving /\ d \in Saving' => d = c
<1> USE DEF Saving
<1>1. CASE DdlStep
  BY <1>1, DdlEffect
<1>3. ASSUME NEW c \in Client, SaveSnapshot(c)
      PROVE  /\ overlap => overlap'
             /\ ~overlap' => \A d \in Saving' : d = c
  <2>1. overlap' = (overlap \/ Saving # {})
    BY <1>3, Zenon DEF SaveSnapshot
  <2>2. \A d \in Client : d # c => cl'[d] = cl[d]
    BY <1>3, CallGoesOn DEF Becomes
  <2> QED
    BY <2>1, <2>2, Zenon
<1>4. ASSUME NEW c \in Client, NEW e \in Tables, register_table(c, e)
      PROVE  overlap' = overlap /\ Saving' \subseteq Saving
  <2>1. Becomes(c, Call("count", "ddl", cl[c].snap, cl[c].fd))
    BY <1>4, CallBegins, Zenon
  <2> QED
    BY <1>4, <2>1 DEF register_table, Becomes, Call
<1>5. ASSUME NEW c \in Client, NEW t, deregister_table(c, t) \/ ingest(c, t)
      PROVE  overlap' = overlap /\ Saving' \subseteq Saving
  BY <1>5, Zenon DEF deregister_table, ingest, history
<1>6. ASSUME NEW c \in Client, SaveCount(c) \/ SaveReset(c)
      PROVE  overlap' = overlap /\ Saving' \subseteq Saving
  BY <1>6, CallGoesOn DEF SaveCount, SaveReset, Becomes, Call, Idle
<1>7. ASSUME NEW c \in Client, SaveNow(c) \/ DropCheck(c)
      PROVE  overlap' = overlap /\ Saving' \subseteq Saving
  BY <1>7, CallBegins DEF SaveNow, DropCheck, history, Becomes, Call
<1>8. ASSUME NEW c \in Client, Release(c)
      PROVE  overlap' = overlap /\ Saving' \subseteq Saving
  BY <1>8, CallGoesOn, ZenonT(40) DEF Release, history, Becomes, Idle
<1>9. ASSUME NEW c \in Client, SaveCreate(c) \/ SaveWrite(c) \/ SaveSync(c)
      PROVE  overlap' = overlap /\ Saving' \subseteq Saving
  BY <1>9, CallWrites DEF SaveCreate, SaveWrite, SaveSync, Becomes
<1>10. ASSUME NEW c \in Client, SaveRename(c)
       PROVE  overlap' = overlap /\ Saving' \subseteq Saving
  BY <1>10, CallWrites, Zenon DEF SaveRename, Becomes, Call, Idle
<1>11. ASSUME NEW lost \in SUBSET Inode, Crash(lost)
       PROVE  overlap' = overlap /\ Saving' \subseteq Saving
  BY <1>11, Zenon DEF Crash, Idle
<1>12. CASE Open
  BY <1>12, Zenon DEF Open
<1> QED
  BY <1>1, <1>3, <1>4, <1>5, <1>6, <1>7, <1>8, <1>9, <1>10, <1>11, <1>12, ZenonT(30) DEF Next, DdlStep

\* The catalog's own file decodes, so Open succeeds.
LEMMA PublishedDecodes ==
  ASSUME FilesOK, DiskOK
  PROVE  WellFormed(Published) /\ Published \notin {NoBytes, Mixed}
<1>1. WellFormed(Published)
  BY EmptyWellFormed, Zenon DEF FilesOK, DiskOK, Published, Json
<1> QED
  BY <1>1, ContentAssumption, Zenon DEF WellFormed

\* The part of DiskOK about one client.
SaverOK(c) ==
  IF cl[c].pc \notin Writes THEN cl[c].fd = 0
  ELSE /\ cl[c].fd = entry[Temp] /\ entry[Temp] # 0
       /\ inode[entry[Temp]].data = (IF cl[c].pc = "write" THEN NoBytes ELSE cl[c].snap)
       /\ cl[c].pc = "rename" => inode[entry[Temp]].synced = TRUE

\* rename publishes the snapshot that the save has taken.
LEMMA RenamePublishes ==
  ASSUME CallsOK, FilesOK, DiskOK, NEW c \in Client, SaveRename(c)
  PROVE  /\ entry'[Json] = entry[Temp] /\ entry'[Temp] = 0 /\ entry[Temp] \in Inode
         /\ inode'[entry'[Json]] = inode[entry[Temp]]
         /\ inode[entry[Temp]].synced = TRUE /\ Published' = cl[c].snap
<1>1. SaverOK(c) /\ cl[c].pc = "rename"
  BY Zenon DEF DiskOK, SaverOK, SaveRename
<1>2. /\ entry[Temp] \in Inode /\ inode[entry[Temp]].data = cl[c].snap
      /\ inode[entry[Temp]].synced = TRUE /\ entry[Temp] # 0
  BY <1>1, Zenon DEF SaverOK, Writes, FilesOK
<1>3. entry'[Json] = entry[Temp] /\ entry'[Temp] = 0 /\ DOMAIN entry' = {Json, Temp}
  BY <1>2, Zenon DEF SaveRename, FilesOK, Json, Temp
<1>4. entry'[Json] \in InUse'
  BY <1>3, Zenon DEF InUse
<1>5. inode'[entry'[Json]] = inode[entry[Temp]]
  BY <1>2, <1>3, <1>4, Zenon DEF SaveRename
<1> QED
  BY <1>2, <1>3, <1>5, Zenon DEF Published, Json

\* While no two saves overlap, the catalog's file is a complete snapshot on the
\* disk and the one save that runs writes to a file of its own.
LEMMA DiskStep ==
  ASSUME Inv, [Next]_vars, ~overlap'
  PROVE  DiskOK'
<1>1. CASE UNCHANGED vars
  BY <1>1, Zenon DEF vars, disk, history, Inv, DiskOK, Saving
<1> SUFFICES ASSUME Next PROVE DiskOK'
  BY <1>1, Zenon
<1>2. CallsOK /\ FilesOK /\ overlap \in BOOLEAN
  BY Zenon DEF Inv, CallsOK
<1>3. ~overlap /\ \A c, d \in Client :
              c \in Saving' /\ c \notin Saving /\ d \in Saving' => d = c
  BY <1>2, Overlaps, Zenon
<1>4. DiskOK
  BY <1>3, Zenon DEF Inv
<1>5. \A c \in Client : SaverOK(c)
  BY <1>4, Zenon DEF DiskOK, SaverOK
<1>6. \A c, d \in Saving' : c = d
  <2>1. Saving \subseteq Client /\ Saving' \subseteq Client
    BY Zenon DEF Saving
  <2>2. \A c, d \in Saving : c = d
    BY <1>4, Zenon DEF DiskOK
  <2> HIDE DEF Saving
  <2> QED
    BY <1>3, <2>1, <2>2, Zenon
<1>7. phase' # "unopenable"
  <2>1. phase # "unopenable"
    BY <1>4, Zenon DEF DiskOK
  <2>2. CASE Open
    BY <1>2, <1>4, <2>2, PublishedDecodes, Zenon DEF Open
  <2>3. CASE DdlStep
    BY <2>1, <2>3, DdlEffect, Zenon
  <2>4. ASSUME NEW c \in Client, NEW t, deregister_table(c, t) \/ ingest(c, t) \/ register_table(c, t)
        PROVE  phase' # "unopenable"
    BY <2>1, <2>4, Zenon DEF deregister_table, ingest, register_table
  <2>5. ASSUME NEW c \in Client,
               \/ SaveCount(c) \/ SaveReset(c) \/ SaveNow(c) \/ SaveSnapshot(c) \/ DropCheck(c)
               \/ SaveCreate(c) \/ SaveWrite(c) \/ SaveSync(c) \/ SaveRename(c)
        PROVE  phase' # "unopenable"
    BY <2>1, <2>5, Zenon DEF SaveCount, SaveReset, SaveNow, SaveSnapshot, DropCheck, SaveCreate,
                             SaveWrite, SaveSync, SaveRename, memory
  <2>6. ASSUME NEW c \in Client, Release(c)
        PROVE  phase' # "unopenable"
    BY <2>6, Zenon DEF Release
  <2>7. ASSUME NEW lost, Crash(lost)
        PROVE  phase' # "unopenable"
    BY <2>7, Zenon DEF Crash
  <2> QED
    BY <2>2, <2>3, <2>4, <2>5, <2>6, <2>7, Zenon DEF Next, DdlStep
<1> SUFFICES /\ entry'[Temp] = entry'[Json] => entry'[Temp] = 0
             /\ entry'[Json] # 0 => /\ inode'[entry'[Json]].synced = TRUE
                                    /\ WellFormed(inode'[entry'[Json]].data)
             /\ \A c \in Client : SaverOK(c)'
  BY <1>6, <1>7, Zenon DEF DiskOK, SaverOK
<1>8. entry[Temp] = entry[Json] => entry[Temp] = 0
  BY <1>4, Zenon DEF DiskOK
<1>9. entry[Json] # 0 => /\ inode[entry[Json]].synced = TRUE
                         /\ WellFormed(inode[entry[Json]].data)
  BY <1>4, Zenon DEF DiskOK
<1>10. CASE Quiet
  BY <1>5, <1>8, <1>9, <1>10, ZenonT(40) DEF Quiet, SaverOK, Writes
\* A client that is not the one saving has no file open.
<1>11. ASSUME NEW c \in Client, c \in Saving, NEW d \in Client, d # c
       PROVE  cl[d].pc \notin Writes /\ cl[d].fd = 0
  BY <1>4, <1>5, <1>11, Zenon DEF DiskOK, SaverOK, Saving, Writes
<1>12. ASSUME NEW c \in Client, SaveCreate(c)
       PROVE  /\ entry'[Temp] = entry'[Json] => entry'[Temp] = 0
              /\ entry'[Json] # 0 => /\ inode'[entry'[Json]].synced = TRUE
                                     /\ WellFormed(inode'[entry'[Json]].data)
              /\ \A d \in Client : SaverOK(d)'
  <2>1. PICK i \in Inode :
          /\ IF entry[Temp] = 0 THEN i \notin InUse ELSE i = entry[Temp]
          /\ inode' = [inode EXCEPT ![i] = [data |-> NoBytes, synced |-> FALSE]]
          /\ entry' = [entry EXCEPT ![Temp] = i]
          /\ Becomes(c, Call("write", cl[c].why, cl[c].snap, i))
    BY <1>2, <1>12, CreateEffect, Zenon
  <2>2. i # entry[Json] /\ i # 0
    BY <1>2, <1>8, <2>1 DEF InUse, FilesOK, Json, Temp, Inode
  <2>3. entry'[Temp] = i /\ entry'[Json] = entry[Json]
    BY <1>2, <2>1, Zenon DEF FilesOK, Json, Temp
  <2>4. /\ inode'[i] = [data |-> NoBytes, synced |-> FALSE]
        /\ entry[Json] # 0 => inode'[entry[Json]] = inode[entry[Json]]
    BY <1>2, <2>1, <2>2, Zenon DEF FilesOK
  <2>5. cl[c].pc = "create" /\ c \in Saving
    BY <1>12, Zenon DEF SaveCreate, Saving
  <2>6. ASSUME NEW d \in Client, d # c
        PROVE  SaverOK(d)'
    BY <1>11, <2>1, <2>5, <2>6, Zenon DEF SaverOK, Becomes
  <2>7. SaverOK(c)'
    BY <2>1, <2>2, <2>3, <2>4, SMTT(30) DEF SaverOK, Becomes, Call, Writes
  <2> QED
    BY <1>9, <2>2, <2>3, <2>4, <2>6, <2>7, Zenon
<1>13. ASSUME NEW c \in Client, SaveWrite(c) \/ SaveSync(c)
       PROVE  /\ entry'[Temp] = entry'[Json] => entry'[Temp] = 0
              /\ entry'[Json] # 0 => /\ inode'[entry'[Json]].synced = TRUE
                                     /\ WellFormed(inode'[entry'[Json]].data)
              /\ \A d \in Client : SaverOK(d)'
  <2>1. /\ entry' = entry /\ cl[c].fd = entry[Temp] /\ entry[Temp] # 0 /\ entry[Temp] # entry[Json]
        /\ entry[Temp] \in Inode /\ entry[Json] \in Inode \cup {0}
    BY <1>2, <1>5, <1>8, <1>13, Zenon DEF SaveWrite, SaveSync, SaverOK, Writes, FilesOK
  <2>2. c \in Saving
    BY <1>13, Zenon DEF SaveWrite, SaveSync, Saving
  <2>3. ASSUME NEW d \in Client, d # c
        PROVE  cl'[d] = cl[d]
    BY <1>2, <1>13, <2>3, CallWrites, SMTT(30) DEF Becomes
  <2>4. ASSUME NEW d \in Client, d # c
        PROVE  SaverOK(d)'
    BY <1>11, <2>2, <2>3, <2>4, Zenon DEF SaverOK
  <2>5. entry[Json] # 0 => inode'[entry[Json]] = inode[entry[Json]]
    BY <1>2, <1>13, <2>1, Zenon DEF SaveWrite, SaveSync, FilesOK
  <2>6. CASE SaveWrite(c)
    <3>1. inode[entry[Temp]].data = NoBytes
      BY <1>5, <2>6, Zenon DEF SaverOK, SaveWrite, Writes
    <3>2. inode'[entry[Temp]].data = cl[c].snap
      BY <1>2, <2>1, <2>6, <3>1, Zenon DEF SaveWrite, Overwritten, FilesOK
    <3>3. Becomes(c, Call("sync", cl[c].why, cl[c].snap, cl[c].fd))
      BY <1>2, <2>6, CallWrites, Zenon
    <3>4. SaverOK(c)'
      BY <2>1, <3>2, <3>3, ZenonT(40) DEF SaverOK, Becomes, Call, Writes
    <3> QED
      BY <1>9, <2>1, <2>4, <2>5, <3>4, Zenon
  <2>7. CASE SaveSync(c)
    <3>1. inode[entry[Temp]].data = cl[c].snap
      BY <1>5, <2>7, Zenon DEF SaverOK, SaveSync, Writes
    <3>2. inode'[entry[Temp]].data = cl[c].snap /\ inode'[entry[Temp]].synced = TRUE
      BY <1>2, <2>1, <2>7, <3>1, SMTT(30) DEF SaveSync, FilesOK
    <3>3. Becomes(c, Call("rename", cl[c].why, cl[c].snap, cl[c].fd))
      BY <1>2, <2>7, CallWrites, Zenon
    <3>4. SaverOK(c)'
      BY <2>1, <3>2, <3>3, Zenon DEF SaverOK, Becomes, Call, Writes
    <3> QED
      BY <1>9, <2>1, <2>4, <2>5, <3>4, Zenon
  <2> QED
    BY <1>13, <2>6, <2>7, Zenon
<1>14. ASSUME NEW c \in Client, SaveRename(c)
       PROVE  /\ entry'[Temp] = entry'[Json] => entry'[Temp] = 0
              /\ entry'[Json] # 0 => /\ inode'[entry'[Json]].synced = TRUE
                                     /\ WellFormed(inode'[entry'[Json]].data)
              /\ \A d \in Client : SaverOK(d)'
  <2>1. /\ entry'[Json] = entry[Temp] /\ entry'[Temp] = 0 /\ inode'[entry'[Json]].synced = TRUE
        /\ entry'[Json] # 0 => inode'[entry'[Json]].data = cl[c].snap
    BY <1>2, <1>4, <1>14, RenamePublishes, Zenon DEF Published, Json
  <2>2. WellFormed(cl[c].snap)
    BY <1>2, Zenon DEF CallsOK
  <2>5. c \in Saving
    BY <1>14, ZenonT(40) DEF SaveRename, Saving
  <2>6. ASSUME NEW d \in Client
        PROVE  SaverOK(d)'
    BY <1>2, <1>11, <1>14, <2>5, CallWrites DEF SaverOK, Becomes, Call, Idle, Writes
  <2> QED
    BY <2>1, <2>2, <2>6, Zenon
<1>15. ASSUME NEW lost \in SUBSET Inode, Crash(lost)
       PROVE  /\ entry'[Temp] = entry'[Json] => entry'[Temp] = 0
              /\ entry'[Json] # 0 => /\ inode'[entry'[Json]].synced = TRUE
                                     /\ WellFormed(inode'[entry'[Json]].data)
              /\ \A d \in Client : SaverOK(d)'
  <2>1. entry' = entry /\ cl' = [d \in Client |-> Idle]
    BY <1>15, Zenon DEF Crash
  <2>2. \A d \in Client : SaverOK(d)'
    BY <2>1, Zenon DEF SaverOK, Idle, Writes
  <2>3. entry[Json] # 0 => entry[Json] \in Inode /\ entry[Json] \notin lost
    BY <1>2, <1>9, <1>15, Zenon DEF Crash, FilesOK
  <2>4. entry[Json] # 0 => inode'[entry[Json]] = [data |-> inode[entry[Json]].data, synced |-> TRUE]
    BY <1>15, <2>3, ZenonT(30) DEF Crash
  <2> QED
    BY <1>8, <1>9, <2>1, <2>2, <2>4
<1> QED
  BY <1>2, <1>10, <1>12, <1>13, <1>14, <1>15, Quiets, ZenonT(30)

-----------------------------------------------------------------------------
(* One drop at a time. *)

\* A call that is no drop leaves the drop that runs beside it alone: it is not
\* the drop of the last handle.
LEMMA CloseOther ==
  ASSUME CallsOK, CloseOK, NEW d \in Client, NEW r, Becomes(d, r), r.why # "drop",
         phase = "up", d \in handles, cl[d].pc # "release",
         cl[d].why # "drop", UNCHANGED <<phase, cat, handles>>
  PROVE  CloseOK'
<1>1. \A c \in Client : cl'[c].why = "drop" => c # d /\ cl'[c] = cl[c]
  BY Zenon DEF Becomes
<1>2. ASSUME NEW c \in Client, cl'[c].why = "drop"
      PROVE  handles # {c} /\ cl[c].pc = "release"
  BY <1>1, <1>2, Zenon DEF CloseOK
<1> QED
  BY <1>1, <1>2, ZenonT(40) DEF CloseOK, Saving

\* When no two drops overlap, the last handle leaves the catalog in its file.
LEMMA CloseStep ==
  ASSUME Inv, [Next]_vars, ~overlap', ~raced'
  PROVE  CloseOK'
<1>1. CASE UNCHANGED vars
  BY <1>1, Zenon DEF vars, disk, history, Inv, CloseOK, Saving, Published
<1> SUFFICES ASSUME Next PROVE CloseOK'
  BY <1>1, Zenon
<1>2. CallsOK /\ FilesOK
  BY Zenon DEF Inv
<1>3. ~overlap
  BY <1>2, Overlaps, Zenon DEF CallsOK
<1>4. DiskOK
  BY <1>3, Zenon DEF Inv
<1>5. CASE Open
  <2>1. \A c \in Client : cl'[c].why # "drop"
    BY <1>2, <1>5, Zenon DEF Open, CallsOK
  <2>2. phase' # "down"
    BY <1>5, Zenon DEF Open
  <2> QED
    BY <2>1, <2>2, Zenon DEF CloseOK
<1>6. ASSUME NEW lost, Crash(lost)
      PROVE  CloseOK'
  BY <1>6, Zenon DEF Crash, Idle, CloseOK
<1>7. ASSUME ~raced
      PROVE  CloseOK
  BY <1>3, <1>7, Zenon DEF Inv
<1>8. CASE DdlStep
  <2>1. PICK d \in Client : Free(d)
    BY <1>8, DdlEffect, Zenon
  <2>2. CloseOK /\ UNCHANGED <<phase, handles, cl, disk>>
    BY <1>7, <1>8, DdlEffect, Zenon
  <2>3. \A c \in Client : cl[c].why = "drop" => handles # {c}
    BY <1>2, <2>1, Zenon DEF Free, CallsOK
  <2> QED
    BY <2>1, <2>2, <2>3, Zenon DEF Free, CloseOK, Saving
<1>9. ASSUME NEW c \in Client, NEW e \in Tables, register_table(c, e)
      PROVE  CloseOK'
  <2> DEFINE r == Call("count", "ddl", cl[c].snap, cl[c].fd)
  <2>1. Becomes(c, r) /\ r.why # "drop"
    BY <1>2, <1>9, CallBegins, Zenon DEF Call
  <2>2. /\ phase = "up" /\ c \in handles /\ cl[c].pc # "release" /\ cl[c].why # "drop"
        /\ UNCHANGED <<phase, cat, handles>> /\ ~raced
    BY <1>2, <1>9, Zenon DEF register_table, Free, CallsOK
  <2> HIDE DEF r
  <2> QED
    BY <1>2, <1>7, <2>1, <2>2, CloseOther, Zenon
<1>10. ASSUME NEW c \in Client, NEW t, deregister_table(c, t) \/ ingest(c, t)
       PROVE  CloseOK'
  BY <1>7, <1>10, Zenon DEF deregister_table, ingest, history, disk, CloseOK, Saving, Published
<1>11. ASSUME NEW c \in Client, SaveNow(c)
       PROVE  CloseOK'
  <2> DEFINE r == Call("save", "call", cl[c].snap, cl[c].fd)
  <2>1. Becomes(c, r) /\ r.why # "drop"
    BY <1>2, <1>11, CallBegins, Zenon DEF Call
  <2>2. /\ phase = "up" /\ c \in handles /\ cl[c].pc # "release" /\ cl[c].why # "drop"
        /\ UNCHANGED <<phase, cat, handles>> /\ ~raced
    BY <1>2, <1>11, Zenon DEF SaveNow, Free, history, CallsOK
  <2> HIDE DEF r
  <2> QED
    BY <1>2, <1>7, <2>1, <2>2, CloseOther, Zenon
<1>12. ASSUME NEW c \in Client, SaveCount(c)
       PROVE  CloseOK'
  <2> DEFINE r == IF Due(ddl_count_since_save + 1)
                  THEN Call("reset", cl[c].why, cl[c].snap, cl[c].fd) ELSE Idle
  <2>1. /\ phase = "up" /\ c \in handles /\ cl[c].pc # "release" /\ cl[c].why # "drop"
        /\ UNCHANGED <<phase, cat, handles>> /\ ~raced
    BY <1>2, <1>12, Zenon DEF SaveCount, memory, CallsOK
  <2>2. Becomes(c, r) /\ r.why # "drop"
    BY <1>2, <1>12, <2>1, CallGoesOn, ZenonT(30) DEF Call, Idle
  <2> HIDE DEF r
  <2> QED
    BY <1>2, <1>7, <2>1, <2>2, CloseOther, Zenon
<1>13. ASSUME NEW c \in Client, SaveReset(c)
       PROVE  CloseOK'
  <2> DEFINE r == Call("save", cl[c].why, cl[c].snap, cl[c].fd)
  <2>1. /\ phase = "up" /\ c \in handles /\ cl[c].pc # "release" /\ cl[c].why # "drop"
        /\ UNCHANGED <<phase, cat, handles>> /\ ~raced
    BY <1>2, <1>13, Zenon DEF SaveReset, memory, CallsOK
  <2>2. Becomes(c, r) /\ r.why # "drop"
    BY <1>2, <1>13, <2>1, CallGoesOn, Zenon DEF Call
  <2> HIDE DEF r
  <2> QED
    BY <1>2, <1>7, <2>1, <2>2, CloseOther, Zenon
<1>14. ASSUME NEW c \in Client, SaveSnapshot(c) \/ SaveCreate(c) \/ SaveWrite(c) \/ SaveSync(c)
       PROVE  CloseOK'
  <2>1. /\ phase = "up" /\ c \in handles /\ cl[c].pc # "release"
        /\ UNCHANGED <<phase, cat, handles>> /\ ~raced
    BY <1>2, <1>14, Zenon DEF SaveSnapshot, SaveCreate, SaveWrite, SaveSync, memory, CallsOK
  <2>2. /\ cl'[c].why = cl[c].why /\ cl'[c].pc # "release"
        /\ cl'[c].snap = IF cl[c].pc = "save" THEN cat ELSE cl[c].snap
        /\ cl[c].pc # "save" => c \in Saving
    <3>1. CASE SaveSnapshot(c)
      <4>1. Becomes(c, Call("create", cl[c].why, cat, cl[c].fd))
        BY <1>2, <3>1, CallGoesOn, Zenon
      <4> QED
        BY <3>1, <4>1 DEF SaveSnapshot, Becomes, Call
    <3>2. CASE SaveCreate(c)
      BY <1>2, <3>2, CallWrites, SMTT(30) DEF SaveCreate, Becomes, Call, Saving
    <3>3. CASE SaveWrite(c)
      <4>1. Becomes(c, Call("sync", cl[c].why, cl[c].snap, cl[c].fd))
        BY <1>2, <3>3, CallWrites, Zenon
      <4> QED
        BY <3>3, <4>1, Zenon DEF SaveWrite, Saving, Becomes, Call
    <3>4. CASE SaveSync(c)
      <4>1. Becomes(c, Call("rename", cl[c].why, cl[c].snap, cl[c].fd))
        BY <1>2, <3>4, CallWrites, Zenon
      <4> QED
        BY <3>4, <4>1, Zenon DEF SaveSync, Saving, Becomes, Call
    <3> QED
      BY <1>14, <3>1, <3>2, <3>3, <3>4, Zenon
  <2>3. \A d \in Client : d # c => cl'[d] = cl[d]
    <3>1. \E x : Becomes(c, x)
      BY <1>2, <1>14, CallGoesOn, CallWrites, Zenon
    <3> QED
      BY <3>1, Zenon DEF Becomes
  <2>4. CloseOK
    BY <1>7, <2>1, Zenon
  <2>5. ASSUME NEW d \in Client, d # c, cl'[d].why = "drop"
        PROVE  handles # {d} /\ cl'[d].pc = "release"
    BY <2>1, <2>3, <2>4, <2>5, ZenonT(40) DEF CloseOK
  <2>6. cl'[c].why = "drop" => handles' = {c} /\ cl'[c].snap = cat'
    BY <2>1, <2>2, <2>4, Zenon DEF CloseOK
  <2>7. \A d, e \in Client : cl'[d].why = "drop" /\ cl'[e].why = "drop" => d = e
    BY <2>2, <2>3, <2>4, ZenonT(40) DEF CloseOK
  <2>8. \A d \in Client : cl'[d].why = "drop" =>
          /\ cl'[d].pc # "release" => handles' = {d}
          /\ d \in Saving' => cl'[d].snap = cat'
          /\ cl'[d].pc = "release" /\ handles' = {d} => Published' = cat'
    BY <2>1, <2>2, <2>5, <2>6, Zenon DEF Saving
  <2> QED
    BY <2>1, <2>7, <2>8, Zenon DEF CloseOK
<1>15. ASSUME NEW c \in Client, SaveRename(c)
       PROVE  CloseOK'
  <2>1. /\ phase = "up" /\ c \in handles /\ c \in Saving
        /\ UNCHANGED <<phase, cat, handles>> /\ ~raced
    BY <1>2, <1>15, Zenon DEF SaveRename, memory, CallsOK, Saving
  <2>2. CloseOK
    BY <1>7, <2>1, Zenon
  <2>3. /\ cl'[c].why = "drop" <=> cl[c].why = "drop"
        /\ c \notin Saving' /\ (cl'[c].why = "drop" => cl'[c].pc = "release")
        /\ \A d \in Client : d # c => cl'[d] = cl[d]
    BY <1>2, <1>15, CallWrites DEF Becomes, Call, Idle, Saving
  <2>4. cl[c].why = "drop" => Published' = cat'
    BY <1>2, <1>4, <1>15, <2>1, <2>2, RenamePublishes, ZenonT(30) DEF CloseOK
  <2>5. ASSUME NEW d \in Client, d # c, cl'[d].why = "drop"
        PROVE  handles # {d} /\ cl'[d].pc = "release"
    BY <2>1, <2>2, <2>3, <2>5 DEF CloseOK
  <2>6. \A d, e \in Client : cl'[d].why = "drop" /\ cl'[e].why = "drop" => d = e
    BY <2>2, <2>3, ZenonT(40) DEF CloseOK
  <2>7. \A d \in Client : cl'[d].why = "drop" =>
          /\ cl'[d].pc # "release" => handles' = {d}
          /\ d \in Saving' => cl'[d].snap = cat'
          /\ cl'[d].pc = "release" /\ handles' = {d} => Published' = cat'
    <3>1. ASSUME NEW d \in Client, d # c, cl'[d].why = "drop"
          PROVE  handles' # {d} /\ cl'[d].pc = "release" /\ d \notin Saving'
      BY <2>1, <2>5, <3>1, Zenon DEF Saving
    <3> QED
      BY <2>3, <2>4, <3>1, Zenon
  <2> QED
    BY <2>1, <2>6, <2>7, Zenon DEF CloseOK
<1>16. ASSUME NEW c \in Client, DropCheck(c)
       PROVE  CloseOK'
  <2>1. /\ phase = "up" /\ c \in handles /\ UNCHANGED <<phase, cat, handles>> /\ ~raced
        /\ \A d \in Client : cl[d].why # "drop"
    BY <1>16, ZenonT(30) DEF DropCheck, Free
  <2>2. LastHandle <=> handles = {c}
    <3>1. IsFiniteSet(handles)
      BY <1>2, CatalogAssumption, FS_Subset, Zenon DEF CallsOK
    <3> QED
      <4>1. Cardinality(handles) = 1 <=> \E d : handles = {d}
        BY <3>1, FS_Singleton, Zenon
      <4> QED
        BY <2>1, <4>1, Zenon DEF LastHandle
  <2>3. Becomes(c, Call(IF LastHandle THEN "save" ELSE "release", "drop", cl[c].snap, cl[c].fd))
    BY <1>2, <1>16, CallBegins, Zenon
  <2>4. /\ cl'[c].pc = IF LastHandle THEN "save" ELSE "release"
        /\ \A d \in Client : d # c => cl'[d] = cl[d]
    BY <2>3, Zenon DEF Becomes, Call
  <2> QED
    BY <2>1, <2>2, <2>4, Zenon DEF CloseOK, Saving
<1>17. ASSUME NEW c \in Client, Release(c)
       PROVE  CloseOK'
  <2>1. /\ UNCHANGED <<cat, inode, entry>> /\ ~raced /\ cl[c].pc = "release"
        /\ phase' = IF handles = {c} THEN "down" ELSE "up"
    BY <1>17, Zenon DEF Release, history, disk
  <2>2. CloseOK /\ cl[c].why = "drop"
    BY <1>2, <1>7, <2>1, ZenonT(40) DEF CallsOK
  <2>3. \A d \in Client : cl'[d].why # "drop"
    BY <1>2, <1>17, <2>2, CallGoesOn, SMTT(30) DEF Becomes, Idle, CloseOK
  <2>4. handles = {c} => Published' = cat'
    BY <2>1, <2>2, Zenon DEF CloseOK, Published
  <2> QED
    BY <2>1, <2>3, <2>4, Zenon DEF CloseOK
<1> QED
  BY <1>5, <1>6, <1>8, <1>9, <1>10, <1>11, <1>12, <1>13, <1>14, <1>15, <1>16, <1>17, Zenon
  DEF Next, DdlStep

-----------------------------------------------------------------------------
(* What a crash would lose. *)

\* Fewer registered tables, fewer to lose; a counted one more to lose; a call
\* that goes from being counted to the counter.
LEMMA OwesLess ==
  ASSUME NEW reg, IsFiniteSet(reg), NEW less \in SUBSET reg, NEW saved, NEW count \in Nat,
         NEW counted, IsFiniteSet(counted), Owes(reg, saved, count, counted)
  PROVE  Owes(less, saved, count, counted)
<1> DEFINE S == reg \ saved
           T == less \ saved
<1>1. IsFiniteSet(S) /\ T \in SUBSET S
  BY FS_Subset, Zenon
<1>2. Cardinality(S) \in Nat /\ Cardinality(T) \in Nat /\ Cardinality(T) <= Cardinality(S)
  <2> HIDE DEF S, T
  <2> QED
    BY <1>1, FS_Subset, FS_CardinalityType, Zenon
<1>3. Cardinality(counted) \in Nat
  BY FS_CardinalityType, Zenon
<1>4. Cardinality(S) <= count + Cardinality(counted)
  BY Zenon DEF Owes
<1>5. Cardinality(T) <= count + Cardinality(counted)
  <2> HIDE DEF S, T
  <2> QED
    BY <1>2, <1>3, <1>4
<1> QED
  BY <1>5, Zenon DEF Owes

\* Registering a table begins a call that will count it.
LEMMA OwesMore ==
  ASSUME NEW reg, IsFiniteSet(reg), NEW e, NEW saved, NEW count \in Nat,
         NEW counted, IsFiniteSet(counted), NEW c, c \notin counted,
         Owes(reg, saved, count, counted)
  PROVE  Owes(reg \cup {e}, saved, count, counted \cup {c})
<1> DEFINE S == reg \ saved
           T == (reg \cup {e}) \ saved
<1>1. IsFiniteSet(S) /\ T \in SUBSET (S \cup {e})
  BY FS_Subset, Zenon
<1>2. Cardinality(S) \in Nat /\ Cardinality(T) \in Nat /\ Cardinality(T) <= Cardinality(S) + 1
  <2> HIDE DEF S, T
  <2>1. IsFiniteSet(S \cup {e}) /\ Cardinality(S \cup {e}) <= Cardinality(S) + 1
        /\ Cardinality(S) \in Nat
    <3>1. Cardinality(S) \in Nat
      BY <1>1, FS_CardinalityType, Zenon
    <3>2. /\ IsFiniteSet(S \cup {e})
          /\ Cardinality(S \cup {e}) = IF e \in S THEN Cardinality(S) ELSE Cardinality(S) + 1
      BY <1>1, FS_AddElement, Zenon
    <3> QED
      BY <3>1, <3>2
  <2>2. IsFiniteSet(T) /\ Cardinality(T) <= Cardinality(S \cup {e})
    BY <1>1, <2>1, FS_Subset, Zenon
  <2>3. Cardinality(T) \in Nat /\ Cardinality(S \cup {e}) \in Nat
    BY <2>1, <2>2, FS_CardinalityType, Zenon
  <2> QED
    BY <2>1, <2>2, <2>3
<1>3. Cardinality(counted) \in Nat /\ Cardinality(counted \cup {c}) = Cardinality(counted) + 1
  BY FS_CardinalityType, FS_AddElement, Zenon
<1>4. Cardinality(S) <= count + Cardinality(counted)
  BY Zenon DEF Owes
<1>5. Cardinality(T) <= count + Cardinality(counted \cup {c})
  <2> HIDE DEF S, T
  <2> QED
    BY <1>2, <1>3, <1>4
<1> QED
  BY <1>5, Zenon DEF Owes

\* The counter takes over what a call stood for.
LEMMA OwesCounted ==
  ASSUME NEW reg, IsFiniteSet(reg), NEW saved, NEW count \in Nat,
         NEW counted, IsFiniteSet(counted), NEW c \in counted, Owes(reg, saved, count, counted)
  PROVE  Owes(reg, saved, count + 1, counted \ {c})
<1>1. Cardinality(counted) \in Nat /\ Cardinality(counted \ {c}) = Cardinality(counted) - 1
  BY FS_CardinalityType, FS_RemoveElement, Zenon
<1>2. Cardinality(reg \ saved) \in Nat
  BY FS_Difference, FS_CardinalityType, ZenonT(30)
<1>3. Cardinality(reg \ saved) <= count + Cardinality(counted)
  BY Zenon DEF Owes
<1> QED
  BY <1>1, <1>2, <1>3 DEF Owes

\* The sets that are counted are finite.
LEMMA CountedSets ==
  ASSUME CallsOK
  PROVE  IsFiniteSet(registered) /\ IsFiniteSet(Counted)
<1>1. registered \subseteq Tables
  BY Zenon DEF CallsOK, WellFormed, Snapshots
<1>2. Counted \subseteq Client
  BY Zenon DEF Counted
<1> QED
  BY <1>1, <1>2, CatalogAssumption, FS_Subset, Zenon

\* The claims of CountOK about the tables, without its guard.
Settled == ~overlap /\ \A c \in Client : cl[c].pc \notin {"reset", "save"}

AllOwed ==
  /\ \A c \in Saving : Owed(cl[c].snap.tables)
  /\ Saving = {} => Owed(Published.tables)

\* A step that leaves the counter, the calls to be counted, the saves and the
\* published catalog alone, and registers nothing.
LEMMA OwedKept ==
  ASSUME CallsOK, ddl_count_since_save \in Nat, AllOwed, registered' \subseteq registered,
         UNCHANGED <<ddl_count_since_save, Counted, Saving>>,
         \A c \in Saving : cl'[c].snap = cl[c].snap,
         Saving = {} => Published' = Published
  PROVE  AllOwed'
<1>1. ASSUME NEW saved, Owed(saved)
      PROVE  Owes(registered', saved, ddl_count_since_save', Counted')
  <2>1. Owes(registered, saved, ddl_count_since_save, Counted)
    BY <1>1, Zenon DEF Owed
  <2>2. Owes(registered', saved, ddl_count_since_save, Counted)
    BY <2>1, CountedSets, OwesLess, Zenon
  <2> QED
    BY <2>2, Zenon
<1>2. ASSUME NEW c \in Saving
      PROVE  Owes(registered', cl'[c].snap.tables, ddl_count_since_save', Counted')
  BY <1>1, Zenon DEF AllOwed
<1>3. Saving = {} => Owes(registered', Published'.tables, ddl_count_since_save', Counted')
  BY <1>1, Zenon DEF AllOwed
<1> QED
  BY <1>2, <1>3, Zenon DEF AllOwed, Owed

\* A call that moves without being counted before or after, and without
\* beginning or ending a save.
LEMMA OwedCall ==
  ASSUME CallsOK, ddl_count_since_save \in Nat, AllOwed, UNCHANGED <<ddl_count_since_save, registered>>,
         NEW c \in Client, NEW r, Becomes(c, r), cl[c].pc # "count", r.pc # "count",
         c \in Saving <=> r.pc \in {"create", "write", "sync", "rename"},
         c \in Saving => r.snap = cl[c].snap,
         c \notin Saving => UNCHANGED <<inode, entry>>
  PROVE  AllOwed'
<1>1. Counted' = Counted
  BY Zenon DEF Becomes, Counted
<1>2. Saving' = Saving
  BY Zenon DEF Becomes, Saving
<1>3. \A d \in Saving : cl'[d].snap = cl[d].snap
  BY Zenon DEF Becomes, Saving
<1>4. Saving = {} => Published' = Published
  BY SMTT(30), Zenon DEF Published
<1> QED
  BY <1>1, <1>2, <1>3, <1>4, OwedKept, Zenon

\* The counter is never left at the threshold without a save to come.
LEMMA DueStep ==
  ASSUME Inv, [Next]_vars, phase' = "up", ddl_count_since_save' >= Threshold
  PROVE  \E c \in Client : cl'[c].pc = "reset"
<1>1. CallsOK /\ ddl_count_since_save \in Nat /\ Threshold \in Nat \ {0}
  BY CatalogAssumption, Zenon DEF Inv
<1>2. ASSUME NEW c \in Client, SaveCount(c)
      PROVE  \E d \in Client : cl'[d].pc = "reset"
  <2>1. Due(ddl_count_since_save + 1)
    BY <1>2, Zenon DEF SaveCount, Due
  <2> QED
    BY <1>1, <1>2, <2>1, CallGoesOn DEF Becomes, Call
<1>3. ASSUME NEW c \in Client, SaveReset(c)
      PROVE  FALSE
  BY <1>1, <1>3 DEF SaveReset
<1>4. ASSUME Open
      PROVE  FALSE
  BY <1>1, <1>4 DEF Open
<1>5. ASSUME NEW lost, Crash(lost)
      PROVE  FALSE
  BY <1>5, Zenon DEF Crash
<1>6. ASSUME phase = "up", UNCHANGED <<ddl_count_since_save, cl>>
      PROVE  \E c \in Client : cl'[c].pc = "reset"
  BY <1>6, Zenon DEF Inv, CountOK
<1>7. ASSUME phase = "up", ddl_count_since_save' = ddl_count_since_save,
             NEW c \in Client, NEW r, Becomes(c, r), cl[c].pc # "reset"
      PROVE  \E d \in Client : cl'[d].pc = "reset"
  <2>1. PICK d \in Client : cl[d].pc = "reset"
    BY <1>7, Zenon DEF Inv, CountOK
  <2>2. cl'[d] = cl[d]
    BY <1>7, <2>1, Zenon DEF Becomes
  <2> QED
    BY <2>1, <2>2, Zenon
<1>8. CASE UNCHANGED vars
  BY <1>6, <1>8, Zenon DEF vars
<1>9. CASE DdlStep
  <2>1. (\E c \in Client : Free(c)) /\ UNCHANGED <<ddl_count_since_save, cl>>
    BY <1>9, DdlEffect, Zenon
  <2> QED
    BY <1>6, <2>1, Zenon DEF Free
<1>10. ASSUME NEW c \in Client, NEW t, deregister_table(c, t) \/ ingest(c, t)
       PROVE  \E d \in Client : cl'[d].pc = "reset"
  BY <1>6, <1>10, Zenon DEF deregister_table, ingest, Free
<1>11. ASSUME NEW c \in Client, NEW e, register_table(c, e)
       PROVE  \E d \in Client : cl'[d].pc = "reset"
  BY <1>1, <1>7, <1>11, CallBegins, Zenon DEF register_table, Free
<1>12. ASSUME NEW c \in Client, SaveNow(c) \/ DropCheck(c)
       PROVE  \E d \in Client : cl'[d].pc = "reset"
  BY <1>1, <1>7, <1>12, CallBegins, Zenon DEF SaveNow, DropCheck, Free
<1>13. ASSUME NEW c \in Client, SaveSnapshot(c) \/ Release(c)
       PROVE  \E d \in Client : cl'[d].pc = "reset"
  BY <1>1, <1>7, <1>13, CallGoesOn, Zenon DEF SaveSnapshot, Release
<1>14. ASSUME NEW c \in Client, SaveCreate(c) \/ SaveWrite(c) \/ SaveSync(c) \/ SaveRename(c)
       PROVE  \E d \in Client : cl'[d].pc = "reset"
  BY <1>1, <1>7, <1>14, CallWrites, Zenon DEF SaveCreate, SaveWrite, SaveSync, SaveRename
<1> QED
  BY <1>2, <1>3, <1>4, <1>5, <1>8, <1>9, <1>10, <1>11, <1>12, <1>13, <1>14, ZenonT(30) DEF Next, DdlStep

\* As long as no two saves overlap, a crash loses at most what is counted.
LEMMA OwedStep ==
  ASSUME Inv, [Next]_vars, Settled'
  PROVE  AllOwed'
<1>1. CallsOK /\ FilesOK /\ ddl_count_since_save \in Nat
  BY SMTT(30), Zenon DEF Inv
<1>2. ASSUME Settled
      PROVE  AllOwed
  BY <1>2, Zenon DEF Inv, CountOK, Settled, AllOwed
<1>3. ASSUME UNCHANGED <<cl, overlap, ddl_count_since_save, inode, entry>>, registered' \subseteq registered
      PROVE  AllOwed'
  BY <1>1, <1>2, <1>3, OwedKept, Zenon DEF Settled, Counted, Saving, Published
<1>4. CASE UNCHANGED vars
  BY <1>3, <1>4, Zenon DEF vars, disk, history
<1>5. CASE DdlStep
  BY <1>3, <1>5, DdlEffect, Zenon DEF disk
<1>6. ASSUME NEW c \in Client, NEW t, deregister_table(c, t) \/ ingest(c, t)
      PROVE  AllOwed'
  BY <1>3, <1>6, Zenon DEF deregister_table, ingest, disk, history
<1>7. ASSUME registered' = {}, ddl_count_since_save' \in Nat
      PROVE  AllOwed'
  <2>1. ASSUME NEW saved
        PROVE  Owes(registered', saved, ddl_count_since_save', Counted')
    <3>1. IsFiniteSet(Counted')
      BY CatalogAssumption, FS_Subset, Zenon DEF Counted
    <3>2. Cardinality(Counted') \in Nat
      BY <3>1, FS_CardinalityType, Zenon
    <3>3. Cardinality(registered' \ saved) = 0
      BY <1>7, FS_EmptySet, Zenon
    <3> QED
      BY <1>7, <3>2, <3>3 DEF Owes
  <2> QED
    BY <2>1, Zenon DEF AllOwed, Owed
<1>8. CASE Open
  BY <1>1, <1>7, <1>8, Zenon DEF Open
<1>9. ASSUME NEW lost \in SUBSET Inode, Crash(lost)
      PROVE  AllOwed'
  BY <1>1, <1>7, <1>9, Zenon DEF Crash
<1>10. ASSUME NEW c \in Client, NEW e \in Tables, register_table(c, e)
       PROVE  AllOwed'
  <2>1. Becomes(c, Call("count", "ddl", cl[c].snap, cl[c].fd)) /\ cl[c].pc = "idle"
    BY <1>1, <1>10, CallBegins, Zenon DEF register_table, Free
  <2>2. /\ registered' = registered \cup {e}
        /\ UNCHANGED <<ddl_count_since_save, inode, entry, overlap>>
    BY <1>10, Zenon DEF register_table, disk
  <2>3. Counted' = Counted \cup {c} /\ c \notin Counted
    BY <2>1, Zenon DEF Becomes, Call, Counted
  <2>4. Saving' = Saving /\ \A d \in Saving : cl'[d] = cl[d]
    BY <2>1, Zenon DEF Becomes, Call, Saving
  <2>5. Settled
    BY <2>1, <2>2, Zenon DEF Settled, Becomes
  <2>6. ASSUME NEW saved, Owed(saved)
        PROVE  Owes(registered', saved, ddl_count_since_save', Counted')
    <3>1. Owes(registered \cup {e}, saved, ddl_count_since_save, Counted \cup {c})
      BY <1>1, <2>3, <2>6, CountedSets, OwesMore, Zenon DEF Owed
    <3> QED
      BY <2>2, <2>3, <3>1, Zenon
  <2>7. Published' = Published
    BY <2>2, Zenon DEF Published
  <2> QED
    BY <1>2, <2>4, <2>5, <2>6, <2>7, Zenon DEF AllOwed, Owed
<1>11. ASSUME NEW c \in Client, SaveCount(c)
       PROVE  AllOwed'
  <2>1. /\ cl[c].pc = "count" /\ ddl_count_since_save' = ddl_count_since_save + 1
        /\ UNCHANGED <<registered, inode, entry, overlap>>
    BY <1>11, Zenon DEF SaveCount, memory, disk
  <2>2. Becomes(c, Idle)
    <3>1. Becomes(c, IF Due(ddl_count_since_save + 1)
                     THEN Call("reset", cl[c].why, cl[c].snap, cl[c].fd) ELSE Idle)
      BY <1>1, <1>11, CallGoesOn, Zenon
    <3>2. CASE Due(ddl_count_since_save + 1)
      <4>1. Becomes(c, Call("reset", cl[c].why, cl[c].snap, cl[c].fd))
        BY <3>1, <3>2, ZenonT(30)
      <4>2. cl'[c].pc = "reset"
        BY <4>1, Zenon DEF Becomes, Call
      <4> QED
        BY <4>2, Zenon DEF Settled
    <3> QED
      BY <3>1, <3>2, Zenon
  <2>3. Counted' = Counted \ {c} /\ c \in Counted
    BY <2>1, <2>2, Zenon DEF Becomes, Idle, Counted
  <2>4. Saving' = Saving /\ \A d \in Saving : cl'[d] = cl[d]
    BY <2>1, <2>2, Zenon DEF Becomes, Idle, Saving
  <2>5. Settled
    BY <2>1, <2>2, Zenon DEF Settled, Becomes
  <2>6. ASSUME NEW saved, Owed(saved)
        PROVE  Owes(registered', saved, ddl_count_since_save', Counted')
    <3>1. Owes(registered, saved, ddl_count_since_save + 1, Counted \ {c})
      BY <1>1, <2>3, <2>6, CountedSets, OwesCounted, Zenon DEF Owed
    <3> QED
      BY <2>1, <2>3, <3>1, Zenon
  <2>7. Published' = Published
    BY <2>1, Zenon DEF Published
  <2> QED
    BY <1>2, <2>4, <2>5, <2>6, <2>7, ZenonT(40) DEF AllOwed, Owed
<1>12. ASSUME NEW c \in Client, SaveReset(c) \/ SaveNow(c)
       PROVE  FALSE
  <2>1. cl'[c].pc = "save"
    <3>1. \E w : Becomes(c, Call("save", w, cl[c].snap, cl[c].fd))
      BY <1>1, <1>12, CallBegins, CallGoesOn, ZenonT(30)
    <3> QED
      BY <3>1, SMTT(30) DEF Becomes, Call
  <2> QED
    BY <2>1, Zenon DEF Settled
<1>13. ASSUME NEW c \in Client, SaveSnapshot(c)
       PROVE  AllOwed'
  <2>1. Becomes(c, Call("create", cl[c].why, cat, cl[c].fd))
    BY <1>1, <1>13, CallGoesOn, Zenon
  <2>2. /\ registered' \subseteq cat.tables /\ ddl_count_since_save' \in Nat
        /\ overlap' = (overlap \/ Saving # {})
    BY <1>1, <1>13, Zenon DEF SaveSnapshot, memory, CallsOK
  <2>3. \A d \in Saving' : d = c /\ cl'[d].snap = cat
    BY <2>1, <2>2, ZenonT(30) DEF Settled, Becomes, Call, Saving
  <2>4. Saving' # {}
    BY <2>1, Zenon DEF Becomes, Call, Saving
  <2>5. Owes(registered', cat.tables, ddl_count_since_save', Counted')
    <3>2. IsFiniteSet(Counted')
      BY CatalogAssumption, FS_Subset, Zenon DEF Counted
    <3>3. Cardinality(Counted') \in Nat
      BY <3>2, FS_CardinalityType, Zenon
    <3>4. registered' \ cat.tables = {}
      BY <2>2, Zenon
    <3>5. Cardinality(registered' \ cat.tables) = 0
      BY <3>4, FS_EmptySet, Zenon
    <3> QED
      BY <2>2, <3>3, <3>5 DEF Owes
  <2> QED
    BY <2>3, <2>4, <2>5, Zenon DEF AllOwed, Owed
<1>14. ASSUME NEW c \in Client, SaveCreate(c) \/ SaveWrite(c) \/ SaveSync(c)
       PROVE  AllOwed'
  <2>1. /\ UNCHANGED <<ddl_count_since_save, registered, overlap>> /\ c \in Saving
        /\ cl[c].pc \notin {"reset", "save", "count"}
    BY <1>14, Zenon DEF SaveCreate, SaveWrite, SaveSync, memory, Saving
  <2>2. PICK r : /\ Becomes(c, r) /\ r.pc \in {"write", "sync", "rename"} /\ r.snap = cl[c].snap
    <3>1. CASE SaveCreate(c)
      <4>1. PICK i \in Inode : Becomes(c, Call("write", cl[c].why, cl[c].snap, i))
        BY <1>1, <3>1, CreateEffect, Zenon
      <4> QED
        BY <4>1 DEF Call
    <3>2. CASE SaveWrite(c)
      <4>1. Becomes(c, Call("sync", cl[c].why, cl[c].snap, cl[c].fd))
        BY <1>1, <3>2, CallWrites, Zenon
      <4> QED
        BY <4>1, SMTT(30) DEF Call
    <3>3. CASE SaveSync(c)
      <4>1. Becomes(c, Call("rename", cl[c].why, cl[c].snap, cl[c].fd))
        BY <1>1, <3>3, CallWrites, Zenon
      <4> QED
        BY <4>1, SMTT(30) DEF Call
    <3> QED
      BY <1>14, <3>1, <3>2, <3>3, Zenon
  <2>3. Settled
    BY <2>1, <2>2, Zenon DEF Settled, Becomes
  <2> QED
    BY <1>1, <1>2, <2>1, <2>2, <2>3, OwedCall, ZenonT(40)
<1>15. ASSUME NEW c \in Client, SaveRename(c)
       PROVE  AllOwed'
  <2>1. /\ UNCHANGED <<ddl_count_since_save, registered, overlap>> /\ c \in Saving
        /\ cl[c].pc = "rename"
    BY <1>15, Zenon DEF SaveRename, memory, Saving
  <2>2. PICK r : /\ Becomes(c, r) /\ r.pc \in {"release", "idle"}
    <3> DEFINE x == IF cl[c].why = "drop" THEN Call("release", "drop", EmptyCatalog, 0) ELSE Idle
    <3>1. Becomes(c, x)
      BY <1>1, <1>15, CallWrites, Zenon
    <3>2. x.pc \in {"release", "idle"}
      BY Zenon DEF Call, Idle
    <3> HIDE DEF x
    <3> QED
      BY <3>1, <3>2, Zenon
  <2>3. Settled
    BY <2>1, <2>2, Zenon DEF Settled, Becomes
  <2>4. DiskOK
    BY <2>3, Zenon DEF Inv, Settled
  <2>5. Saving' = {}
    BY <2>1, <2>2, <2>4, Zenon DEF DiskOK, Saving, Becomes
  <2>6. Published' = cl[c].snap
    BY <1>1, <1>15, <2>4, RenamePublishes, ZenonT(30)
  <2>7. Counted' = Counted
    BY <2>1, <2>2, Zenon DEF Counted, Becomes
  <2>8. Owed(cl[c].snap.tables)
    BY <1>2, <2>1, <2>3, Zenon DEF AllOwed
  <2> QED
    BY <2>1, <2>5, <2>6, <2>7, <2>8, Zenon DEF AllOwed, Owed
<1>16. ASSUME NEW c \in Client, DropCheck(c) \/ Release(c)
       PROVE  AllOwed'
  <2>1. /\ UNCHANGED <<ddl_count_since_save, registered, overlap, inode, entry>>
        /\ cl[c].pc \in {"idle", "release"}
    BY <1>16, Zenon DEF DropCheck, Release, Free, disk, history
  <2>2. PICK r : /\ Becomes(c, r) /\ r.pc \in {"save", "release", "idle"}
    <3>1. CASE DropCheck(c)
      <4> DEFINE x == Call(IF LastHandle THEN "save" ELSE "release", "drop", cl[c].snap, cl[c].fd)
      <4>1. Becomes(c, x)
        BY <1>1, <3>1, CallBegins, Zenon
      <4>2. x.pc \in {"save", "release"}
        BY Zenon DEF Call
      <4> HIDE DEF x
      <4> QED
        BY <4>1, <4>2, Zenon
    <3>2. CASE Release(c)
      BY <1>1, <3>2, CallGoesOn DEF Idle
    <3> QED
      BY <1>16, <3>1, <3>2, Zenon
  <2>3. r.pc # "save"
    BY <2>2, Zenon DEF Settled, Becomes
  <2>4. Settled
    BY <2>1, <2>2, Zenon DEF Settled, Becomes
  <2> QED
    BY <1>1, <1>2, <2>1, <2>2, <2>3, <2>4, OwedCall, Zenon DEF Saving
<1> QED
  BY <1>4, <1>5, <1>6, <1>8, <1>9, <1>10, <1>11, <1>12, <1>13, <1>14, <1>15, <1>16, ZenonT(40)
  DEF Next, DdlStep

-----------------------------------------------------------------------------
(* Key columns. *)

\* The positions of the key columns lead back to the key.
LEMMA ResolvedColumns ==
  ASSUME NEW l, Accepted(l)
  PROVE  LET p == resolve_pk_columns(l.cols, l.pk)
         IN  [i \in 1..Len(p) |-> l.cols[p[i]]] = l.pk
<1> DEFINE p == resolve_pk_columns(l.cols, l.pk)
<1>1. l.cols \in Seq(STRING) /\ l.pk \in Seq(STRING)
  BY CatalogAssumption, Zenon DEF Accepted
<1>2. Len(l.pk) \in Nat /\ DOMAIN l.pk = 1..Len(l.pk) /\ DOMAIN l.cols = 1..Len(l.cols)
  BY <1>1
<1>3. \A i \in 1..Len(l.pk) : \E j \in 1..Len(l.cols) : l.cols[j] = l.pk[i]
  <2>1. Range(l.pk) \subseteq Range(l.cols)
    BY Zenon DEF Accepted, IntoSchema
  <2>2. \A i \in 1..Len(l.pk) : l.pk[i] \in Range(l.pk)
    BY <1>2, Zenon DEF Range
  <2>3. \A x \in Range(l.cols) : \E j \in 1..Len(l.cols) : l.cols[j] = x
    BY <1>2, Zenon DEF Range
  <2> QED
    BY <2>1, <2>2, <2>3, Zenon
<1>4. \A i \in 1..Len(l.pk) : p[i] \in 1..Len(l.cols) /\ l.cols[p[i]] = l.pk[i]
  BY <1>3, Zenon DEF resolve_pk_columns
<1>5. Len(p) = Len(l.pk)
  <2>1. p \in [1..Len(l.pk) -> Nat]
    <3>1. p = [i \in 1..Len(l.pk) |-> p[i]]
      BY DEF resolve_pk_columns
    <3>2. \A i \in 1..Len(l.pk) : p[i] \in Nat
      BY <1>2, <1>4
    <3> HIDE DEF p
    <3> QED
      BY <3>1, <3>2, ZenonT(40)
  <2>2. p \in Seq(Nat) /\ DOMAIN p = 1..Len(l.pk)
    BY <1>2, <2>1
  <2> HIDE DEF p
  <2> QED
    BY <1>2, <2>2
<1>6. l.pk = [i \in 1..Len(l.pk) |-> l.pk[i]]
  BY <1>1
<1>7. [i \in 1..Len(p) |-> l.cols[p[i]]] = [i \in 1..Len(l.pk) |-> l.pk[i]]
  <2> HIDE DEF p
  <2> QED
    BY <1>4, <1>5, Zenon
<1> QED
  BY <1>6, <1>7, Zenon

\* Every provider has a layout that into_schema accepted, and the cache and the
\* registry hold what an ingest of this process left there.
LEMMA KeysStep ==
  ASSUME Inv, [Next]_vars
  PROVE  KeysOK'
<1>1. CallsOK /\ KeysOK
  BY Zenon DEF Inv
<1>2. ASSUME UNCHANGED <<providers, pk_column_cache, laid, table_schemas>>
      PROVE  KeysOK'
  BY <1>1, <1>2, ZenonT(40) DEF KeysOK
<1>3. CASE UNCHANGED vars
  BY <1>2, <1>3, Zenon DEF vars, engine, history
<1>4. CASE DdlStep
  BY <1>2, <1>4, DdlEffect, Zenon DEF engine
<1>5. ASSUME NEW c \in Client, NEW e \in Tables, register_table(c, e)
      PROVE  KeysOK'
  <2>1. Accepted(e.layout)
    BY <1>1, <1>5, Zenon DEF register_table, CallsOK, WellFormed, Accepted
  <2>2. /\ providers' = [t \in DOMAIN providers \cup {e.name[3]} |->
                          IF t = e.name[3] THEN e.layout ELSE providers[t]]
        /\ UNCHANGED <<pk_column_cache, laid, table_schemas>>
    BY <1>5, Zenon DEF register_table, engine
  <2> QED
    BY <1>1, <2>1, <2>2, ZenonT(40) DEF KeysOK
<1>6. ASSUME NEW c \in Client, NEW t, deregister_table(c, t)
      PROVE  KeysOK'
  BY <1>1, <1>6, SMTT(30) DEF deregister_table, engine, history, KeysOK
<1>7. ASSUME NEW c \in Client, NEW t, ingest(c, t)
      PROVE  KeysOK'
  <2> DEFINE l == <<t, providers[t]>>
  <2>1. /\ t \in DOMAIN providers /\ Accepted(providers[t]) /\ providers' = providers
        /\ l[1] = t /\ l[2] = providers[t] /\ laid' = laid \cup {l}
        /\ table_schemas' = With(table_schemas, t, providers[t].cols)
        /\ pk_column_cache' =
             IF t \in DOMAIN pk_column_cache THEN pk_column_cache
             ELSE With(pk_column_cache, t, resolve_pk_columns(providers[t].cols, providers[t].pk))
    BY <1>1, <1>7, Zenon DEF ingest, KeysOK
  <2>2. /\ DOMAIN pk_column_cache' = DOMAIN pk_column_cache \cup {t}
        /\ \A u \in DOMAIN pk_column_cache : pk_column_cache'[u] = pk_column_cache[u]
        /\ t \notin DOMAIN pk_column_cache =>
             pk_column_cache'[t] = resolve_pk_columns(l[2].cols, l[2].pk)
    BY <2>1, Zenon DEF With
  <2>3. /\ DOMAIN table_schemas' = DOMAIN table_schemas \cup {t} /\ table_schemas'[t] = l[2].cols
        /\ \A u \in DOMAIN table_schemas : u # t => table_schemas'[u] = table_schemas[u]
    BY <2>1, Zenon DEF With
  <2>4. ASSUME NEW u \in DOMAIN pk_column_cache'
        PROVE  \E k \in laid' : /\ k[1] = u /\ Accepted(k[2])
                                /\ pk_column_cache'[u] = resolve_pk_columns(k[2].cols, k[2].pk)
    <3> HIDE DEF l
    <3>1. CASE u \in DOMAIN pk_column_cache
      BY <1>1, <2>1, <2>2, <3>1, SMTT(30) DEF KeysOK
    <3>2. CASE u \notin DOMAIN pk_column_cache
      BY <2>1, <2>2, <3>2, Zenon
    <3> QED
      BY <3>1, <3>2, Zenon
  <2>5. ASSUME NEW u \in DOMAIN pk_column_cache'
        PROVE  \E k \in laid' : /\ k[1] = u
                                /\ u \in DOMAIN table_schemas' /\ table_schemas'[u] = k[2].cols
    <3> HIDE DEF l
    <3>1. CASE u = t
      BY <2>1, <2>3, <3>1, ZenonT(40)
    <3>2. CASE u # t
      BY <1>1, <2>1, <2>2, <2>3, <3>2 DEF KeysOK
    <3> QED
      BY <3>1, <3>2, Zenon
  <2> QED
    BY <1>1, <2>1, <2>4, <2>5, Zenon DEF KeysOK
<1>8. ASSUME NEW c \in Client,
             \/ SaveCount(c) \/ SaveReset(c) \/ SaveNow(c) \/ SaveSnapshot(c) \/ DropCheck(c)
             \/ SaveCreate(c) \/ SaveWrite(c) \/ SaveSync(c) \/ SaveRename(c) \/ Release(c)
      PROVE  UNCHANGED <<providers, pk_column_cache, laid, table_schemas>>
  BY <1>8, Zenon DEF SaveCount, SaveReset, SaveNow, SaveSnapshot, DropCheck, SaveCreate, SaveWrite,
              SaveSync, SaveRename, Release, memory, engine, history
<1>9. ASSUME NEW lost, Crash(lost)
      PROVE  UNCHANGED <<providers, pk_column_cache, laid, table_schemas>>
  BY <1>9, Zenon DEF Crash, engine
<1>10. CASE Open
  BY <1>10 DEF Open, KeysOK
<1> QED
  BY <1>2, <1>3, <1>4, <1>5, <1>6, <1>7, <1>8, <1>9, <1>10, ZenonT(40) DEF Next, DdlStep

-----------------------------------------------------------------------------
(* The invariant and the theorems. *)

\* The invariant holds of a new database.
LEMMA InitInv == Init => Inv
<1> SUFFICES ASSUME Init PROVE Inv
  BY Zenon
<1>1. ddl_count_since_save = 0 /\ Threshold \in Nat \ {0}
  BY CatalogAssumption, Zenon DEF Init
<1>2. cl = [c \in Client |-> Idle] /\ Saving = {} /\ Counted = {}
  BY Zenon DEF Init, Idle, Saving, Counted
<1>3. CallsOK
  <2>1. \A c \in Client : cl[c] = [pc |-> "idle", why |-> "none", snap |-> EmptyCatalog, fd |-> 0]
    BY <1>2, Zenon DEF Idle
  <2>2. WellFormed(cat) /\ registered = {} /\ handles = Client /\ phase = "up"
    BY EmptyWellFormed, Zenon DEF Init
  <2>3. overlap \in BOOLEAN /\ raced \in BOOLEAN
    BY Zenon DEF Init
  <2> QED
    BY <1>2, <2>1, <2>2, <2>3, EmptyWellFormed, SMTT(30) DEF CallsOK, Pc
<1>4. /\ inode = [i \in Inode |-> Unused] /\ entry = [f \in {Json, Temp} |-> 0]
      /\ \A c \in Client : cl[c].fd = 0 /\ cl[c].pc \notin Writes
  BY <1>2, SMTT(30) DEF Init, Json, Temp, Idle, Writes
<1>5. FilesOK /\ DiskOK
  <2>1. FilesOK
    BY <1>4, Zenon DEF FilesOK, Unused
  <2>2. entry[Json] = 0 /\ entry[Temp] = 0 /\ phase # "unopenable"
    BY <1>4, ZenonT(30) DEF Init
  <2> QED
    BY <1>2, <1>4, <2>1, <2>2, Zenon DEF DiskOK
<1>6. CloseOK
  BY <1>2, SMTT(30) DEF Init, CloseOK, Idle
<1>7. CountOK
  <2>1. Owed(Published.tables)
    <3>1. registered \ Published.tables = {}
      BY Zenon DEF Init
    <3> QED
      BY <1>1, <1>2, <3>1, FS_EmptySet DEF Owed, Owes
  <2> QED
    BY <1>1, <1>2, <2>1 DEF CountOK
<1>8. KeysOK
  BY DEF Init, KeysOK
<1> QED
  BY <1>1, <1>3, <1>4, <1>5, <1>6, <1>7, <1>8, Zenon DEF Inv

\* Every step keeps the invariant.
LEMMA NextInv == Inv /\ [Next]_vars => Inv'
<1> SUFFICES ASSUME Inv, [Next]_vars PROVE Inv'
  BY Zenon
<1>1. ddl_count_since_save' \in Nat
  <2>1. ddl_count_since_save \in Nat
    BY Zenon DEF Inv
  <2>2. CASE UNCHANGED vars
    BY <2>1, <2>2, Zenon DEF vars
  <2>3. CASE DdlStep
    BY <2>1, <2>3, DdlEffect, Zenon
  <2>4. ASSUME NEW c \in Client, NEW t, register_table(c, t) \/ deregister_table(c, t) \/ ingest(c, t)
        PROVE  ddl_count_since_save' \in Nat
    BY <2>1, <2>4, ZenonT(40) DEF register_table, deregister_table, ingest
  <2>5. ASSUME NEW c \in Client,
               \/ SaveCount(c) \/ SaveReset(c) \/ SaveNow(c) \/ SaveSnapshot(c) \/ SaveCreate(c)
               \/ SaveWrite(c) \/ SaveSync(c) \/ SaveRename(c) \/ DropCheck(c) \/ Release(c)
        PROVE  ddl_count_since_save' \in Nat
    BY <2>1, <2>5 DEF SaveCount, SaveReset, SaveNow, SaveSnapshot, SaveCreate, SaveWrite, SaveSync,
                      SaveRename, DropCheck, Release
  <2>6. ASSUME NEW lost, Crash(lost)
        PROVE  ddl_count_since_save' \in Nat
    BY <2>1, <2>6, Zenon DEF Crash
  <2>7. CASE Open
    BY <2>7, Zenon DEF Open
  <2> QED
    BY <2>2, <2>3, <2>4, <2>5, <2>6, <2>7, Zenon DEF Next, DdlStep
<1>2. CountOK'
  BY DueStep, OwedStep, Zenon DEF CountOK, Settled, AllOwed
<1> QED
  BY <1>1, <1>2, CallsStep, FilesStep, DiskStep, CloseStep, KeysStep, Zenon DEF Inv

\* The invariant holds in every reachable state.
LEMMA AlwaysInv == Spec => []Inv
BY InitInv, NextInv, PTL DEF Spec

\* The catalog in memory and every snapshot that a save has taken are well
\* formed, for any table definitions and any number of clients (catalog.rs).
THEOREM CatalogAlwaysWellFormed == Spec => []CatTypeOK
<1>1. Inv => CatTypeOK
  BY SMTT(30), Zenon DEF Inv, CallsOK, CatTypeOK
<1> QED
  BY <1>1, AlwaysInv, PTL

\* A database opens again after a crash or a power failure at any step of a
\* save, as long as no two saves have overlapped (save_catalog, embedded.rs).
THEOREM AlwaysOpensAgain == Spec => []OpensAgain
<1>1. Inv => OpensAgain
  BY SMTT(30), Zenon DEF Inv, DiskOK, OpensAgain
<1> QED
  BY <1>1, AlwaysInv, PTL

\* Whatever CATALOG_SAVE_THRESHOLD is, a crash between calls loses fewer
\* registered tables, as long as no two saves have overlapped
\* (schedule_catalog_save, embedded.rs).
THEOREM LossAlwaysBounded == Spec => []LossBounded
<1>1. ASSUME Inv, phase = "up", ~overlap, \A c \in Client : cl[c].pc = "idle"
      PROVE  Cardinality(registered \ Published.tables) < Threshold
  <2>1. Saving = {} /\ Counted = {}
    BY <1>1, Zenon DEF Saving, Counted
  <2>2. Owed(Published.tables) /\ ddl_count_since_save < Threshold
    BY <1>1, <2>1, CatalogAssumption DEF Inv, CountOK
  <2>3. IsFiniteSet(registered \ Published.tables)
    BY <1>1, CountedSets, FS_Difference, ZenonT(30) DEF Inv
  <2>4. Cardinality(registered \ Published.tables) \in Nat
    BY <2>3, FS_CardinalityType, Zenon
  <2>5. Cardinality(Counted) = 0
    BY <2>1, FS_EmptySet, Zenon
  <2> QED
    BY <1>1, <2>2, <2>4, <2>5, CatalogAssumption, SMTT(30) DEF Owed, Owes, Inv
<1>2. Inv => LossBounded
  BY <1>1, Zenon DEF LossBounded
<1> QED
  BY <1>2, AlwaysInv, PTL

\* The last handle that is dropped leaves the final catalog in the file, as long
\* as neither saves nor drops have overlapped (Drop for Database, embedded.rs).
THEOREM CleanCloseAlwaysSaves == Spec => []CleanCloseSaves
<1>1. Inv => CleanCloseSaves
  BY SMTT(30), Zenon DEF Inv, CloseOK, CleanCloseSaves
<1> QED
  BY <1>1, AlwaysInv, PTL

\* INSERT and DELETE build the same key for a table that a process ingests under
\* one layout, whatever the layout (resolve_pk_columns, assemble_table_key).
THEOREM KeyColumnsAlwaysAgree == Spec => []KeyColumnsAgree
<1>1. ASSUME Inv, NEW t \in DOMAIN pk_column_cache, t \in DOMAIN providers,
             \A l \in laid : l[1] = t => l[2] = providers[t]
      PROVE  [i \in 1..Len(pk_column_cache[t]) |-> table_schemas[t][pk_column_cache[t][i]]]
               = providers[t].pk
  <2>1. /\ Accepted(providers[t]) /\ table_schemas[t] = providers[t].cols
        /\ pk_column_cache[t] = resolve_pk_columns(providers[t].cols, providers[t].pk)
    BY <1>1, SMTT(30) DEF Inv, KeysOK
  <2>2. [i \in 1..Len(pk_column_cache[t]) |-> providers[t].cols[pk_column_cache[t][i]]]
          = providers[t].pk
    BY <2>1, ResolvedColumns, Zenon
  <2> QED
    BY <2>1, <2>2, Zenon
<1>2. Inv => KeyColumnsAgree
  BY <1>1, Zenon DEF KeyColumnsAgree
<1> QED
  BY <1>2, AlwaysInv, PTL
=============================================================================
