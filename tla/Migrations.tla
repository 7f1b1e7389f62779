----------------------------- MODULE Migrations ------------------------------
(***************************************************************************)
(* The eight Alembic scripts as sequences of DDL statements, and what      *)
(* PostgreSQL makes of a statement: the catalog after it, or a refusal.    *)
(***************************************************************************)
EXTENDS Tables, Sequences, SequencesExt, Functions

-----------------------------------------------------------------------------
(* Catalogs                                                                *)

\* tables: by name; types: an enum type's labels by name; unique: the columns of
\* unique indexes by index name; indexed: the other indexes the scripts drop.
Empty == [tables |-> <<>>, types |-> <<>>, extensions |-> {}, functions |-> {},
          triggers |-> {}, unique |-> <<>>, indexed |-> {}]

Without(f, x) == Restrict(f, DOMAIN f \ {x})
With(f, x, v) == [y \in DOMAIN f \cup {x} |-> IF y = x THEN v ELSE f[y]]

Index(name, table, cols) == [name |-> name, on |-> table, cols |-> cols]

Referring(tables, name) == {t \in DOMAIN tables \ {name} : \E k \in tables[t].fks : k[2] = name}

\* A table after ALTER TABLE, and what is left of it when another table or a type is dropped.
WithColumn(table, col, types) == [table EXCEPT !.cols = @ \cup {col}, !.types = @ \cup types]
WithoutColumn(table, col)     == [table EXCEPT !.cols = @ \ {col}, !.types = {y \in @ : y[1] # col}]
WithoutKeysTo(table, name)    == [table EXCEPT !.fks = {k \in @ : k[2] # name}]
WithoutType(table, name) ==
    [table EXCEPT !.cols = @ \ {y[1] : y \in {z \in table.types : z[2] = name}},
                  !.types = {y \in @ : y[2] # name}]

\* A table is dropped with its triggers and indexes, and with CASCADE the foreign keys to it.
DropTable(c, name) ==
    [c EXCEPT !.tables = [t \in DOMAIN @ \ {name} |-> WithoutKeysTo(@[t], name)],
              !.triggers = @ \ {name},
              !.unique = Restrict(@, {i \in DOMAIN @ : @[i].on # name}),
              !.indexed = {i \in @ : i.on # name}]

\* A column is dropped with the indexes on it.
DropColumn(c, table, col) ==
    [c EXCEPT !.tables[table] = WithoutColumn(@, col),
              !.unique = Restrict(@, {i \in DOMAIN @ : ~ (@[i].on = table /\ col \in @[i].cols)}),
              !.indexed = {i \in @ : ~ (i.on = table /\ col \in i.cols)}]

KnownTypes(c) == DOMAIN c.types \cup c.extensions

Indexes(c) == c.indexed \cup Range(c.unique)

-----------------------------------------------------------------------------
(* Statements                                                              *)

CreateExtension(name)      == [op |-> "create extension", name |-> name]
CreateType(name, labels)   == [op |-> "create type", name |-> name, labels |-> labels]
CreateFunction(name)       == [op |-> "create function", name |-> name]
CreateTable(name, table)   == [op |-> "create table", name |-> name, table |-> table]
CreateTrigger(table)       == [op |-> "create trigger", name |-> table]
CreateIndex(index)         == [op |-> "create index", index |-> index]
CreateUniqueIndex(index)   == [op |-> "create unique index", index |-> index]
AddColumn(table, col, types) == [op |-> "add column", name |-> table, col |-> col, types |-> types]
DropTableCascade(name)     == [op |-> "drop table cascade", name |-> name]
DropTableOnly(name)        == [op |-> "drop table", name |-> name]
DropColumnOf(table, col)   == [op |-> "drop column", name |-> table, col |-> col]
DropIndex(name)            == [op |-> "drop index", name |-> name]
DropFunction(name)         == [op |-> "drop function", name |-> name]
DropType(name)             == [op |-> "drop type", name |-> name]

\* PostgreSQL accepts the statement: what it creates is new, what it names is there,
\* and a plain DROP TABLE leaves no foreign key behind.
Accepts(c, st) ==
    CASE st.op = "create type"    -> st.name \notin KnownTypes(c)
      [] st.op = "create table"   ->
            /\ st.name \notin DOMAIN c.tables
            /\ \A k \in st.table.fks : k[2] \in DOMAIN c.tables
            /\ \A y \in st.table.types : y[2] \in KnownTypes(c)
      [] st.op = "create trigger" ->
            st.name \in DOMAIN c.tables \ c.triggers /\ "fii_set_updated_at" \in c.functions
      [] st.op \in {"create index", "create unique index"} ->
            /\ \A i \in Indexes(c) : i.name # st.index.name
            /\ st.index.on \in DOMAIN c.tables
            /\ st.index.cols \subseteq c.tables[st.index.on].cols
      [] st.op = "add column"     ->
            /\ st.name \in DOMAIN c.tables
            /\ st.col \notin c.tables[st.name].cols
            /\ \A y \in st.types : y[2] \in KnownTypes(c)
      [] st.op = "drop table"     -> st.name \in DOMAIN c.tables /\ Referring(c.tables, st.name) = {}
      [] st.op = "drop column"    -> st.name \in DOMAIN c.tables /\ st.col \in c.tables[st.name].cols
      [] st.op = "drop index"     -> \E i \in Indexes(c) : i.name = st.name
      [] OTHER                    -> TRUE   \* IF EXISTS, IF NOT EXISTS, OR REPLACE

Effect(c, st) ==
    CASE st.op = "create extension" -> [c EXCEPT !.extensions = @ \cup {st.name}]
      [] st.op = "create type"      -> [c EXCEPT !.types = With(@, st.name, st.labels)]
      [] st.op = "create function"  -> [c EXCEPT !.functions = @ \cup {st.name}]
      [] st.op = "create table"     -> [c EXCEPT !.tables = With(@, st.name, st.table)]
      [] st.op = "create trigger"   -> [c EXCEPT !.triggers = @ \cup {st.name}]
      [] st.op = "create index"     -> [c EXCEPT !.indexed = @ \cup {st.index}]
      [] st.op = "create unique index" -> [c EXCEPT !.unique = With(@, st.index.name, st.index)]
      [] st.op = "add column"       ->
            [c EXCEPT !.tables[st.name] = WithColumn(@, st.col, st.types)]
      [] st.op \in {"drop table", "drop table cascade"} -> DropTable(c, st.name)
      [] st.op = "drop column"      -> DropColumn(c, st.name, st.col)
      [] st.op = "drop index"       ->
            [c EXCEPT !.unique = Without(@, st.name), !.indexed = {i \in @ : i.name # st.name}]
      [] st.op = "drop function"    ->
            [c EXCEPT !.functions = @ \ {st.name}, !.triggers = {}]
      [] st.op = "drop type"        ->
            [c EXCEPT !.types = Without(@, st.name),
                      !.tables = [t \in DOMAIN @ |-> WithoutType(@[t], st.name)]]

\* The first refusal ends a command.
Execute(result, st) ==
    IF result.ok /\ Accepts(result.catalog, st)
    THEN [result EXCEPT !.catalog = Effect(@, st)]
    ELSE [result EXCEPT !.ok = FALSE]

\* (A recursive function: FoldLeft takes time quadratic in the length of a script.)
RunScript(catalog, statements) ==
    LET after[i \in 0 .. Len(statements)] ==
            IF i = 0 THEN [ok |-> TRUE, catalog |-> catalog]
            ELSE Execute(after[i - 1], statements[i])
    IN  after[Len(statements)]

=============================================================================
