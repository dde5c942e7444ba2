---------------------------- MODULE CatalogStore ----------------------------
(***************************************************************************)
(* The catalog, its file and the handles on a database:                    *)
(* crates/hatp-frontend/src/catalog.rs and schema.rs (DDL), execution.rs   *)
(* (what a session has registered), crates/hatp/src/embedded.rs (loading,  *)
(* counting DDL, saving, dropping the last handle), and the schema and     *)
(* key-column registries of crates/hatp-engine/src/lib.rs.                 *)
(*                                                                         *)
(* Every client is a thread with a clone of the Database.  The catalog is  *)
(* behind one lock, so each DDL is one step; saving is a step per system   *)
(* call.  A layout is the columns of a table, in order, and the names of   *)
(* its primary-key columns.  Of a file only the snapshot written to it     *)
(* counts: NoBytes is an empty file, Mixed one that does not decode.       *)
(*                                                                         *)
(* A client registers a table that the catalog has, as register_table      *)
(* expects, and a session refuses a name it already has.                   *)
(***************************************************************************)
EXTENDS Integers, Sequences, FiniteSets, Functions

CONSTANTS
  Client,
  Tables,          \* the definitions clients ask for, valid or not: a name, which is
                   \* <<catalog, schema, table>>, and a layout
  Ingested,        \* bare names of the tables that clients insert into
  Threshold,       \* CATALOG_SAVE_THRESHOLD
  MaxDdl, MaxCalls, MaxOpens,  \* DDL, other calls, reopenings
  NoBytes, Mixed   \* contents of a file that are no snapshot

ASSUME CatalogAssumption ==
  /\ IsFiniteSet(Client) /\ IsFiniteSet(Tables)
  /\ Threshold \in Nat \ {0} /\ MaxDdl \in Nat /\ MaxCalls \in Nat /\ MaxOpens \in Nat
  /\ \A e \in Tables :
       Len(e.name) = 3 /\ e.layout.cols \in Seq(STRING) /\ e.layout.pk \in Seq(STRING)

VARIABLES
  phase,           \* "up", "down" or "unopenable"
  cat,             \* the catalog in memory: [catalogs, schemas, tables]
  providers,       \* session: table name -> the layout it was registered with
  ddl_count_since_save,
  handles,         \* clients whose Database clone is alive
  cl,              \* client -> where it is in a call
  inode,           \* inode -> [data, synced]; an unused one has NoBytes
  entry,           \* directory: "catalog.json" and "catalog.json.tmp" -> inode, or 0
  table_schemas,   \* engine: table name -> columns of the last ingest
  pk_column_cache, \* engine: table name -> positions of the key columns
  ddls, calls, opens,
  (* History variables; no action reads them. *)
  registered,      \* tables of the catalog that register_table has counted
  overlap,         \* two saves have run at the same time
  raced,           \* two handles have been dropped at the same time
  laid             \* <<t, l>>: this process has ingested table t under layout l

engine == <<table_schemas, pk_column_cache>>
disk == <<inode, entry>>
counts == <<ddls, calls, opens>>
history == <<registered, overlap, raced, laid>>
vars == <<phase, cat, providers, ddl_count_since_save, handles, cl, disk, engine, counts,
          history>>

Inode == 1..(Cardinality(Client) + 2)
Unused == [data |-> NoBytes, synced |-> TRUE]

Name == {e.name : e \in Tables}

SchemaOf(n) == <<n[1], n[2]>>

Snapshots == [catalogs : SUBSET {n[1] : n \in Name}, schemas : SUBSET {SchemaOf(n) : n \in Name},
              tables : SUBSET Tables]

ASSUME ContentAssumption == {NoBytes, Mixed} \cap Snapshots = {}

EmptyCatalog == [catalogs |-> {}, schemas |-> {}, tables |-> {}]

Idle == [pc |-> "idle", why |-> "none", snap |-> EmptyCatalog, fd |-> 0]

Init ==
  /\ phase = "up" /\ cat = EmptyCatalog /\ providers = << >>
  /\ ddl_count_since_save = 0 /\ handles = Client
  /\ cl = [c \in Client |-> Idle]
  /\ inode = [i \in Inode |-> Unused] /\ entry = [f \in {"catalog.json", "catalog.json.tmp"} |-> 0]
  /\ table_schemas = << >> /\ pk_column_cache = << >>
  /\ ddls = 0 /\ calls = 0 /\ opens = 0
  /\ registered = {} /\ overlap = FALSE /\ raced = FALSE /\ laid = {}

\* The client is between two calls.
Free(c) == phase = "up" /\ c \in handles /\ cl[c].pc = "idle"

-----------------------------------------------------------------------------
(* DDL on the catalog in memory. *)

\* TableSchema::new and with_primary_key accept the layout.
IntoSchema(l) ==
  /\ l.cols # << >> /\ \A i, j \in 1..Len(l.cols) : l.cols[i] = l.cols[j] => i = j
  /\ Range(l.pk) \subseteq Range(l.cols)

Has(n) == \E e \in cat.tables : e.name = n

Ddl(c, new) ==
  /\ Free(c) /\ ddls < MaxDdl
  /\ ddls' = ddls + 1 /\ cat' = new
  /\ UNCHANGED <<phase, providers, ddl_count_since_save, handles, cl, disk, engine, calls,
                 opens, overlap, raced, laid>>

create_catalog(c, n) ==
  /\ n[1] \notin cat.catalogs
  /\ Ddl(c, [cat EXCEPT !.catalogs = @ \cup {n[1]}]) /\ UNCHANGED registered

drop_catalog(c, n) ==
  /\ n[1] \in cat.catalogs /\ \A s \in cat.schemas : s[1] # n[1]
  /\ Ddl(c, [cat EXCEPT !.catalogs = @ \ {n[1]}]) /\ UNCHANGED registered

create_schema(c, n) ==
  /\ SchemaOf(n) \notin cat.schemas
  /\ Ddl(c, [cat EXCEPT !.catalogs = @ \cup {n[1]}, !.schemas = @ \cup {SchemaOf(n)}])
  /\ UNCHANGED registered

\* Fault: a schema that still has tables is dropped too.
drop_schema_NotEmpty(c, n) ==
  /\ SchemaOf(n) \in cat.schemas
  /\ Ddl(c, [cat EXCEPT !.schemas = @ \ {SchemaOf(n)}]) /\ UNCHANGED registered

drop_schema(c, n) ==
  /\ SchemaOf(n) \in cat.schemas /\ \A e \in cat.tables : SchemaOf(e.name) # SchemaOf(n)
  /\ Ddl(c, [cat EXCEPT !.schemas = @ \ {SchemaOf(n)}]) /\ UNCHANGED registered

\* create_table: a missing catalog or schema is created with the table.
create_table(c, e) ==
  /\ IntoSchema(e.layout) /\ ~Has(e.name)
  /\ Ddl(c, [catalogs |-> cat.catalogs \cup {e.name[1]},
             schemas |-> cat.schemas \cup {SchemaOf(e.name)}, tables |-> cat.tables \cup {e}])
  /\ UNCHANGED registered

\* drop_table: the catalog's entry only; nothing counts it towards a save.
drop_table(c, n) ==
  /\ Has(n)
  /\ Ddl(c, [cat EXCEPT !.tables = {e \in @ : e.name # n}])
  /\ registered' = {e \in registered : e.name # n}

-----------------------------------------------------------------------------
(* Sessions. *)

\* Database::register_table: the session gets a provider under the bare table
\* name, then schedule_catalog_save counts the call.
register_table(c, e) ==
  /\ Free(c) /\ e \in cat.tables /\ e.name[3] \notin DOMAIN providers
  /\ providers' = [t \in DOMAIN providers \cup {e.name[3]} |->
                     IF t = e.name[3] THEN e.layout ELSE providers[t]]
  /\ cl' = [cl EXCEPT ![c].pc = "count", ![c].why = "ddl"]
  /\ registered' = registered \cup {e}
  /\ UNCHANGED <<phase, cat, ddl_count_since_save, handles, disk, engine, counts, overlap,
                 raced, laid>>

\* DROP TABLE: the session forgets the provider.
deregister_table(c, t) ==
  /\ Free(c) /\ t \in DOMAIN providers /\ calls < MaxCalls
  /\ calls' = calls + 1
  /\ providers' = [u \in DOMAIN providers \ {t} |-> providers[u]]
  /\ UNCHANGED <<phase, cat, ddl_count_since_save, handles, cl, disk, engine, ddls, opens,
                 history>>

\* Fault: the key columns are taken to be the first ones of the batch.
resolve_pk_columns_First(cols, pk) == [i \in 1..Len(pk) |-> i]

\* The positions of the key columns in the batch.
resolve_pk_columns(cols, pk) ==
  [i \in 1..Len(pk) |-> CHOOSE j \in 1..Len(cols) : cols[j] = pk[i]]

With(f, x, y) == [z \in DOMAIN f \cup {x} |-> IF z = x THEN y ELSE f[z]]

\* ingest_batches of one batch in the order of the provider's columns: the
\* registry takes the columns, the key columns are resolved once per table.
ingest(c, t) ==
  /\ Free(c) /\ t \in DOMAIN providers
  /\ table_schemas' = With(table_schemas, t, providers[t].cols)
  /\ pk_column_cache' =
       IF t \in DOMAIN pk_column_cache THEN pk_column_cache
       ELSE With(pk_column_cache, t, resolve_pk_columns(providers[t].cols, providers[t].pk))
  /\ laid' = laid \cup {<<t, providers[t]>>}
  /\ UNCHANGED <<phase, cat, providers, ddl_count_since_save, handles, cl, disk, counts,
                 registered, overlap, raced>>

-----------------------------------------------------------------------------
(* Saving. *)

memory == <<phase, cat, providers, handles, engine, counts, registered, raced, laid>>

Goto(c, pc) == cl' = [cl EXCEPT ![c].pc = pc]

\* The call that the save belongs to goes on.
AfterSave(c) == IF cl[c].why = "drop" THEN [Idle EXCEPT !.pc = "release", !.why = "drop"] ELSE Idle

\* Fault: the save waits for one DDL more.
Due_Above(count) == count > Threshold

Due(count) == count >= Threshold

\* fetch_add and the comparison.
SaveCount(c) ==
  /\ phase = "up" /\ cl[c].pc = "count"
  /\ ddl_count_since_save' = ddl_count_since_save + 1
  /\ cl' = [cl EXCEPT ![c] = IF Due(ddl_count_since_save + 1) THEN [@ EXCEPT !.pc = "reset"]
                             ELSE Idle]
  /\ UNCHANGED <<memory, disk, overlap>>

SaveReset(c) ==
  /\ phase = "up" /\ cl[c].pc = "reset"
  /\ ddl_count_since_save' = 0
  /\ Goto(c, "save")
  /\ UNCHANGED <<memory, disk, overlap>>

\* Database::save_catalog, called directly.
SaveNow(c) ==
  /\ Free(c) /\ calls < MaxCalls
  /\ calls' = calls + 1
  /\ cl' = [cl EXCEPT ![c].pc = "save", ![c].why = "call"]
  /\ UNCHANGED <<phase, cat, providers, ddl_count_since_save, handles, disk, engine, ddls, opens,
                 history>>

Saving == {c \in Client : cl[c].pc \in {"create", "write", "sync", "rename"}}

\* to_snapshot, under the catalog's read lock.
SaveSnapshot(c) ==
  /\ phase = "up" /\ cl[c].pc = "save"
  /\ cl' = [cl EXCEPT ![c].pc = "create", ![c].snap = cat]
  /\ overlap' = (overlap \/ Saving # {})
  /\ UNCHANGED <<memory, ddl_count_since_save, disk>>

InUse == {entry[f] : f \in DOMAIN entry} \cup {cl[c].fd : c \in Client}

Opened(c, f) ==
  LET i == IF entry[f] = 0 THEN CHOOSE j \in Inode \ InUse : TRUE ELSE entry[f]
  IN  /\ inode' = [inode EXCEPT ![i] = [data |-> NoBytes, synced |-> FALSE]]
      /\ entry' = [entry EXCEPT ![f] = i]
      /\ cl' = [cl EXCEPT ![c].pc = "write", ![c].fd = i]

\* Fault: the catalog's own file is opened for writing.
SaveCreate_InPlace(c) ==
  /\ phase = "up" /\ cl[c].pc = "create"
  /\ Opened(c, "catalog.json")
  /\ UNCHANGED <<memory, ddl_count_since_save, overlap>>

\* File::create: every save opens, and truncates, the one temporary file.
SaveCreate(c) ==
  /\ phase = "up" /\ cl[c].pc = "create"
  /\ Opened(c, "catalog.json.tmp")
  /\ UNCHANGED <<memory, ddl_count_since_save, overlap>>

Size(snap) == Cardinality(snap.catalogs) + Cardinality(snap.schemas) + Cardinality(snap.tables)

\* write_all, from offset 0: what another save wrote beyond it stays.
Overwritten(old, new) ==
  IF old = NoBytes THEN new
  ELSE IF old # Mixed /\ Size(old) <= Size(new) THEN new
  ELSE Mixed

SaveWrite(c) ==
  /\ phase = "up" /\ cl[c].pc = "write"
  /\ inode' = [inode EXCEPT ![cl[c].fd] = [data |-> Overwritten(@.data, cl[c].snap),
                                           synced |-> FALSE]]
  /\ Goto(c, "sync")
  /\ UNCHANGED <<memory, ddl_count_since_save, entry, overlap>>

SaveSync(c) ==
  /\ phase = "up" /\ cl[c].pc = "sync"
  /\ inode' = [inode EXCEPT ![cl[c].fd].synced = TRUE]
  /\ Goto(c, "rename")
  /\ UNCHANGED <<memory, ddl_count_since_save, entry, overlap>>

\* rename fails when another save has taken the temporary file away; the error
\* is logged.
SaveRename(c) ==
  /\ phase = "up" /\ cl[c].pc = "rename"
  /\ entry' = IF entry["catalog.json.tmp"] = 0 THEN entry
              ELSE [entry EXCEPT !["catalog.json"] = entry["catalog.json.tmp"],
                                 !["catalog.json.tmp"] = 0]
  /\ cl' = [cl EXCEPT ![c] = AfterSave(c)]
  /\ inode' = [i \in Inode |-> IF i \in InUse' THEN inode[i] ELSE Unused]
  /\ UNCHANGED <<memory, ddl_count_since_save, overlap>>

-----------------------------------------------------------------------------
(* Handles, crashes, opening. *)

\* Fault: the handle being dropped is not counted among the strong ones.
LastHandle_Uncounted == Cardinality(handles) = 0

LastHandle == Cardinality(handles) = 1

\* Drop for Database: whether this is the last handle is asked first, and the
\* handle released last.
DropCheck(c) ==
  /\ Free(c)
  /\ cl' = [cl EXCEPT ![c].pc = IF LastHandle THEN "save" ELSE "release", ![c].why = "drop"]
  /\ raced' = (raced \/ \E d \in Client : cl[d].why = "drop")
  /\ UNCHANGED <<phase, cat, providers, ddl_count_since_save, handles, disk, engine, counts,
                 registered, overlap, laid>>

Release(c) ==
  /\ phase = "up" /\ cl[c].pc = "release"
  /\ handles' = handles \ {c}
  /\ cl' = [cl EXCEPT ![c] = Idle]
  /\ phase' = IF handles = {c} THEN "down" ELSE "up"
  /\ UNCHANGED <<cat, providers, ddl_count_since_save, disk, engine, counts, history>>

\* The process dies; a power failure may also take what was not synced.
Crash(lost) ==
  /\ phase = "up" /\ opens < MaxOpens
  /\ \A i \in lost : ~inode[i].synced
  /\ phase' = "down"
  /\ inode' = [i \in Inode |-> IF i \in lost THEN Unused
                            ELSE [data |-> inode[i].data, synced |-> TRUE]]
  /\ cl' = [c \in Client |-> Idle] /\ handles' = {}
  /\ cat' = EmptyCatalog /\ registered' = {}
  /\ UNCHANGED <<providers, ddl_count_since_save, entry, engine, counts, overlap, raced,
                 laid>>

Published == IF entry["catalog.json"] = 0 THEN EmptyCatalog
             ELSE inode[entry["catalog.json"]].data

\* register_catalog_with: every table of the catalog "hatp" gets a provider, in
\* a catalog of its own; the session's default catalog, where register_table
\* puts them, starts empty.  Nothing is cached and nothing is counted yet.
Open ==
  /\ phase = "down" /\ opens < MaxOpens
  /\ opens' = opens + 1
  /\ phase' = IF Published \in {NoBytes, Mixed} THEN "unopenable" ELSE "up"
  /\ cat' = IF Published \in {NoBytes, Mixed} THEN EmptyCatalog ELSE Published
  /\ handles' = Client /\ ddl_count_since_save' = 0
  /\ providers' = << >> /\ pk_column_cache' = << >> /\ registered' = {}
  /\ laid' = {} /\ raced' = FALSE
  /\ UNCHANGED <<cl, disk, table_schemas, ddls, calls, overlap>>

Next ==
  \/ \E c \in Client, n \in Name :
       \/ create_catalog(c, n) \/ drop_catalog(c, n)
       \/ create_schema(c, n) \/ drop_schema(c, n) \/ drop_table(c, n)
  \/ \E c \in Client, e \in Tables : create_table(c, e) \/ register_table(c, e)
  \/ \E c \in Client, n \in Name : deregister_table(c, n[3])
  \/ \E c \in Client, t \in Ingested : ingest(c, t)
  \/ \E c \in Client :
       \/ SaveCount(c) \/ SaveReset(c) \/ SaveNow(c) \/ SaveSnapshot(c)
       \/ SaveCreate(c) \/ SaveWrite(c) \/ SaveSync(c) \/ SaveRename(c)
       \/ DropCheck(c) \/ Release(c)
  \/ \E lost \in SUBSET Inode : Crash(lost)
  \/ Open

Spec == Init /\ [][Next]_vars

-----------------------------------------------------------------------------
(* Properties. *)

WellFormed(s) ==
  /\ s \in Snapshots
  /\ \A x \in s.schemas : x[1] \in s.catalogs
  /\ \A e \in s.tables : SchemaOf(e.name) \in s.schemas /\ IntoSchema(e.layout)
  /\ \A e, g \in s.tables : e.name = g.name => e = g

\* The catalog is well formed: a table is in a schema and a schema in a catalog
\* that exist, no name has two definitions and every definition is one that
\* into_schema accepts; so is every snapshot that a save has taken.
CatTypeOK ==
  /\ phase \in {"up", "down", "unopenable"} /\ handles \subseteq Client
  /\ WellFormed(cat) /\ \A c \in Client : WellFormed(cl[c].snap)

\* As long as no two saves run at the same time, a database that crashed or
\* lost power at any step of a save opens again, with the old catalog or the
\* new one.
OpensAgain == ~overlap => phase # "unopenable"

\* As long as no two saves run at the same time, a crash between calls loses
\* fewer than CATALOG_SAVE_THRESHOLD registered tables, whichever calls the
\* counter's fetch_add and reset interleave with.
LossBounded ==
  phase = "up" /\ ~overlap /\ (\A c \in Client : cl[c].pc = "idle") =>
    Cardinality(registered \ Published.tables) < Threshold

\* When the handles are dropped one after the other, the last one leaves the
\* final catalog in the file, uncounted DDL included.
CleanCloseSaves ==
  phase = "down" /\ handles = {} /\ cat # EmptyCatalog /\ ~overlap /\ ~raced => Published = cat

\* INSERT builds a key from the columns at the cached positions, DELETE and
\* UPDATE from the columns that the table's schema gives the key's names: as
\* long as a process ingests a table under one layout they are the same.
KeyColumnsAgree ==
  \A t \in DOMAIN pk_column_cache \cap DOMAIN providers :
    (\A l \in laid : l[1] = t => l[2] = providers[t]) =>
      [i \in 1..Len(pk_column_cache[t]) |-> table_schemas[t][pk_column_cache[t][i]]]
        = providers[t].pk

-----------------------------------------------------------------------------
(* What the documentation says of the program, and the program does not do. *)

\* embedded.rs, save_catalog: "fsync before rename so a power loss cannot publish
\* an empty file."
NoEmptyCatalog == phase # "unopenable"

\* lib.rs, assemble_table_key: "Shared by [`build_pk_key`] and
\* [`Engine::delete_plan`] so the two key layouts cannot drift".
KeyLayoutsNeverDrift ==
  \A t \in DOMAIN pk_column_cache \cap DOMAIN providers :
    table_schemas[t] = providers[t].cols =>
      [i \in 1..Len(pk_column_cache[t]) |-> table_schemas[t][pk_column_cache[t][i]]]
        = providers[t].pk
=============================================================================
