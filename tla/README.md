# A TLA+ verification of gelite

gelite is a small object database on top of SQLite. A schema file declares
object types with scalar fields and links; `gelite schema apply` turns it into
tables of a SQLite file and into catalog rows that describe it; queries over
objects and links (from a file, or in a REPL) are compiled against that catalog
to SQL. There is no server: every command is a process that opens the file, and
several of them may do so at the same time.

## 1. Inventory

| Part | Source | State it keeps | Operations |
|---|---|---|---|
| Schema catalog | `engine/schema-model` | immutable list of object types; ids are positions | `try_new` (what is a legal catalog), lookups |
| Schema language | `engine/schema-parser` | none | text to catalog |
| Schema planning | `engine/sqlite-schema-plan`, `engine/sqlite-schema-sqlgen` | none | initial plan, migration plan or refusal, canonical snapshot, statement order |
| Database file | SQLite (linked) | committed content, locks, one transaction per connection | statements, `BEGIN`, `COMMIT`, `ROLLBACK` |
| Native runner | `engine/sqlite-runner` | one connection, busy timeout zero | `load_verified_schema`, `load_schema_catalog`, `apply_schema_statements`, query execution |
| Commands | `tools/gelite-commands` | per call; the nested calls of `execute_follow_ups` | `apply_schema`, `compile_script`, `execute_script`, `execute_query` with follow-up fetches |
| REPL | `tools/repl` | pending lines, the catalog loaded at start, the transaction left open by the user | line handling, compile, execute |
| CLI | `tools/gelite-cli` | none | opens the file, loads the catalog, runs one of the above |
| Query front end | `engine/query-ast`, `engine/query-parser` | none | text to syntax tree |
| Query resolution | `engine/query-resolver`, `engine/query-ir` | none | names and types against the catalog |
| Query planning | `engine/sqlite-query-plan`, `engine/sqlite-query-sqlgen` | none | joins, EXISTS, follow-up fetches, mutations, SQL text |
| WASM runner | `engine/sqlite-runner` (`wasm.rs`) | none | a stub |

The parts interact by plain calls inside one process; processes interact only
through the file. What is hard is therefore at the file: another process may act
between any two statements, every lock it holds is an immediate error, every
statement may fail, and a process may die anywhere. Catalog rows, user tables,
and the version row must nevertheless agree, over any chain of migrations, and
what a process has read must still be true when it acts on it. The hazards are
listed one by one, with the lines where they bite, in `PROJECT.json`.

What makes each part correct:

* planning: a migration and an initial apply of the same schema give the same
  tables; the catalog rows rebuild the schema they were written for; what is
  refused is what existing rows could not satisfy;
* apply: all or nothing; versions form one gapless history; nobody overwrites a
  version he has not read; the connection is clean afterwards;
* query processes: the catalog they hold is one that was committed, and queries
  compiled from it stay executable;
* scripts: a transaction block takes effect as a whole or not at all;
* follow-up fetches: every list is one its parent had, however its children were
  read in pieces, and no statement binds more than SQLite takes;
* REPL: what the user typed is executed once, in order, when complete; what it says
  of a transaction is true, and a pasted transaction takes effect as a whole or not;
* parser: a text means what the grammar derives it from, and nothing of an accepted
  text is passed over;
* query compilation: the SQL has the meaning of the query.

## 2. Modules

```
Lists ── SchemaCatalog ── SchemaPlan
                               └─ SchemaStore ─┐
                                               ├─ SchemaApply ── MCSchemaApply
                                      Sqlite ──┤      │    └──── SchemaApplyProofs
                                               │      └ INSTANCE SchemaHistory
                                               ├─ ScriptExecution ── MCScripts
                                      Script ──┤      │    └──────── ScriptProofs
                                               │      └ INSTANCE ScriptContract
                                               ├─ ReplSession ── MCSession (with ReplCompile)
                                               │      │    └──── ReplSessionProofs
                                               │      └ INSTANCE SessionContract
                                      Sqlite ──┴─ FollowUps ── MCFollowUps
                                       Lists ──┘      └─────── NestedReadProofs
Lists, Sqlite ── CommonProofs ── ScriptProofs, ReplSessionProofs, NestedReadProofs, TypingProofs
SchemaStore ── CommonProofs ── SchemaPlanProofs ── SchemaApplyProofs, MutationProofs

SchemaPlan ── QueryTables ── StoredObjects ── MutationSession ── MutationProofs
                   │               │                    └──────────┐
                   │               └ INSTANCE MutationContract     │
                   └─ QueryResolver ── QueryPlan ── SqlEngine ─────┴─ QuerySession ── MCQueries
SchemaCatalog ─┬─ NullLogic ─────────────────────────┘                     │
               │      └────────┐                                           └ INSTANCE QueryMeaning
               └─ ObjectGraph ─┴─ QueryMeaning
                       └───────── MutationContract

QueryAst ─┬─ QueryParser ─┬─ QueryGrammar ─┬─ QueryTexts ── MCTexts
Lists ────┘               └─ ReplCompile ──┤      └ INSTANCE QueryWords
Lists ── ReplInput ── Typing ──────────────┘
                         └── TypingProofs
```

**`Sqlite`** (external) is the file as a shared resource: `disk` is its committed
content, and per connection `txn` (transaction open), `lock` (none, shared,
reserved, pending) and `work` (private copy, present exactly under a write
lock). It is taken from the calls in `native.rs`: default rollback journal (the
code never sets `journal_mode`), deferred `BEGIN`, busy timeout zero. So `Read`
takes SHARED, the first `Write` RESERVED (one holder), `COMMIT` needs everybody
else out, and `CommitBusy` leaves the transaction open with PENDING. A failing
statement (`StatementError`) either keeps the transaction or, as SQLite does for
some errors, has already rolled it back.

**`Lists`** is sorting, filtering, mapping and splitting as `Vec::sort_by_key` and the iterator
adaptors do it, each given by what its result is or by a recursive function, so that plans and
texts can be reasoned about.

**`SchemaCatalog`** is `schema-model` plus the way `native.rs` rebuilds a catalog
from rows. A catalog is a sequence of object types, each with a sequence of
fields; the position is the id, as in the code. `ValidCatalog` is `try_new`,
`Snapshot` the canonical snapshot (name-sorted JSON in the code, hence a set
here; the checksum is a function of it and is taken together with it), `Loadable`
and `CatalogFromRows` are `load_schema_catalog` with its rejections.

**`SchemaPlan`** is `sqlite-schema-plan` with the statement order of
`sqlite-schema-sqlgen`: `InitialStatements`, `MigrationStatements` and
`Supported`. Statements are records; SQL text is left out. Names are strings
only where the code builds one name from another (`author_id`, `post__tags`,
lower-cased table names), because collisions between such names are part of the
behaviour. `NameOrder` stands for the byte order of strings and `Lowercase` for
`to_ascii_lowercase`.

**`SchemaStore`** (external) says which of these statements SQLite accepts on
which content and what they change: unique names of tables and indexes,
case-insensitive column names, keys and foreign keys of the catalog tables.

**`SchemaApply`** is the system: processes that run `apply_schema`, or open the
database for queries, on one file. `pc` is the place in the code between two
calls to SQLite; every call is one action. `StartApply` to `RollbackVerification`
is `load_verified_schema` (three probes, then one transaction), `RejectUnsupported`
and `NothingToDo` the early returns of `apply_schema`, `BeginApply` to
`RollbackApply` is `apply_schema_statements`, `OpenSession` to `CloseSession` a
query process (`run_repl_command`, `run_query_command`): it reads the catalog in
two autocommit statements without verification and keeps it. `Crash` kills a
process anywhere; `Finish` is the end of a command, where its connection and
everything it has read go away.

**`SchemaHistory`** is what `schema apply` promises, with no process, file or lock
in it: a sequence of snapshots that only grows at its end, each new one extending
the last with additions existing rows can satisfy. `SchemaApply!History` is the
refinement mapping.

**`Script`** is a query script after `parse_script`: a sequence of selects, writes
and transaction commands (an `"invalid"` statement is one that `compile_query`
refuses). `Compiles` is `compile_script`; its flag `transaction_start` is
`InBlock`, a function of the statements before. `SameBlock`, `Committed` and `Unit`
say what the blocks of an accepted script mean.

**`ScriptExecution`** is `gelite query run`: processes that run `execute_script` on
one file. `next` is the loop index, `inTransaction` the local `in_transaction`,
separate from SQLite's own `txn`, which may end without the code being told
(`StatementError`). A data statement is one SQL statement in the code (multi-link
updates included), so it is one action; a select with multi links is followed by any number of
further selects (`FollowUp`), each an action of its own, because the code runs them
one by one. The file is the set of effects in it, an effect being a process and a
statement number; `reads` and `results` record what every select has seen, which is
what the isolation properties speak about. `ReturnError` is the error path with its
ignored ROLLBACK, `CloseConnection` the drop of the runner at the end of
`run_query_command`.

**`ScriptContract`** is what scripts promise about the file: only whole units are
installed, each once, in script order, never a rolled-back one. It has no
connections, locks or failures; a script may stop anywhere.
`ScriptExecution!Contract` maps it to the file and the compiled scripts.

**`QueryTables`** is what queries are compiled against and run on: the catalog with its fields
by name, the tables `SchemaPlan` gives it, and (external) what SQLite makes of joins, constraints
and deletions on them. **`StoredObjects`** has the rows of a database and the objects they stand
for (`Graph`): the values of stored fields, and the ids a relation table relates a row to.

**`MutationSession`** is `insert`, `update` and `delete` from the parsed statement to the rows:
what the resolver accepts (`AssignedValue`, `AcceptedInsert` and its neighbours), the plan, and
the SQL statement on the rows. `Insert`, `Update`, `LinkSet` and `Delete` are the four kinds of
statements. How a filter or a select inside of a mutation is resolved, planned and run is given by
eight constant operators (`FilterResolution`, `SelectPlan`, `FoundValues` and their neighbours), so that what is
proved of it is true whatever a filter finds. In the runs they are the definitions of the modules that
follow, and `Selected` and `Chosen`, the objects a filter or select means, are those of `QueryMeaning`.

**`QueryResolver`** is `query-resolver` for selects with the IR it produces. A parsed expression
and a resolved one are records with a tag; `Rejected` stands for every
`ResolveError`, because which one is reported is wording, while *that* a query is
refused is what later stages rely on. A path is resolved to steps that know where
their relation is stored (`LinkTraversal`), so that an inverse link is the stored
link read backwards.

**`QueryPlan`** is `sqlite-query-plan` with the parts of `sqlite-query-sqlgen` that
decide something: joins and their kinds (`SingleLinkJoin`, `ManyStepJoins`), EXISTS
for multi links (`Correlated`), table aliases (`SelectedAliases`, `StepAlias`),
selected columns and the shape that numbers them (`ShapeValues`, `ResultShape`), and
follow-up fetches. Rendering keeps the tree, so the text is left out.
An alias taken from the query is a sequence of one name; the `__gelite_join_N` that
the planner counts up are longer sequences, equal exactly when its cache would give
the same name.

**`NullLogic`** and **`SqlEngine`** (external) are SQLite: three-valued logic,
arithmetic, and what a select of `QueryPlan` finds in a database, which gives every
table a set of rows. A mutation checks the constraints at its end and then
changes everything or nothing; `ON DELETE RESTRICT` is checked row by row in an order
SQLite chooses, so deleting objects that refer to each other may go either way.
`Prepares` says which selects are statements at all; a statement that is none changes nothing.

**`QuerySession`** is the pipeline on one database: `compile_query`, `execute_query`,
and the nesting of rows and follow-up rows into objects (`ShapedObject`, from
`shape_object` and `attach_follow_up`; the code moves each column out of the row, and
no column is read twice). It extends `MutationSession`, whose statements make its databases.

**`QueryMeaning`** says what a query means on a graph of objects, with no table,
join, alias or column in it: paths reach sets of objects, a comparison over a multi
path asks for one that satisfies it, a shape denotes a nested object. **`MutationContract`**
says what mutations promise: a legal graph changes to another legal one, by the whole
statement or not at all. **`ObjectGraph`** is what both have in common, graphs and which of them are
legal. None is translated from code; they are the reference
the compiled statements are compared with, written after `spec/query.md`. `MutationContract` is given
the refused mutations too and would allow their effects; that they have none in
`MutationSession` is the resolver's doing (`Changes`).

**`FollowUps`** is a select with multi links: `execute_query` with
`execute_follow_ups`, which reads the children of the rows it has, in batches that stay within
`SQLITE_MAX_BIND_VALUES`, and calls itself for the children of each batch. Every batch is a
statement of its own, so the frames of the recursion are kept in `stack`, innermost
first, and other processes may replace the content of the file between any two
statements (`WriterCommits`). A row is its id and, per fetch, the identity its
children hang on, which may be absent or shared by several rows; other columns are left out. `Chunks`
is `slice::chunks`, `ParentIds` the sorted and deduplicated identities,
`Attached` is `attach_follow_up`. `NoRoomForParents` is the error for a fetch whose projection
alone uses the limit up, `StatementFails` any error of a statement, which drops the whole answer.
The last part of the module says what the nested result promises, with no batches in it: `TrueLists` is the
set of lists that are complete at every level, each as some content had it. The plans of a
select are nested vectors, so that the fetches form a finite tree (`TreeAssumption`); the
recursion goes down its levels, at most as many as there are fetches.

**`QueryAst`** and **`QueryParser`** are `query-ast` and `query-parser`, function by
function, from tokens to trees: the Pratt loop with its binding powers (`BindingPower`,
`ExprBp`), the lookahead that decides whether a word is a keyword or a name
(`IsIdent`, `StartsScoped`, `InfixOp`), the least integer (`MinLiteral`), shapes, clauses, assignments, and
`ParseScript`, which splits at semicolons. A token is a string; a parser takes a text
and a position and gives a tree and the next position, or fails. Which error is
reported, spans and characters are left out. **`QueryGrammar`** is the other side: the rules of
`spec/query.md`, each an action that puts phrases together and knows the tree of the text it
makes; it never looks at a text. **`QueryWords`** reads a tree back from left to right.

**`ReplInput`** is `complete_repl_inputs`: pending text, the test for completeness (quotation
marks and braces), lines that start a statement or are a command. It knows nothing of the
parser, as the code does not; **`ReplCompile`** adds `compile_input`, which parses what was
taken. **`Typing`** enters arbitrary texts symbol by symbol at a prompt (`TypingSpec`), and
**`QueryTexts`** has either that or the statements the grammar derives, entered with line breaks
anywhere.

**`ReplSession`** is `run_repl` over `execute_request`: one connection per session, inputs that
are lists of queries, `interrupts` and `pending` as in the code, transactions that stay open
across inputs and errors, arguments without a prompt, exit, end of input, crashes. `known` and `block`
are what a user can conclude from the messages, not variables of the program: they
are what the properties relate to the connection. `QueryFails` covers constraints, locks
of others and transaction commands in the wrong state, and SQLite may have rolled
back by itself; the code does not notice and neither does the user.

**`SessionContract`** is a session as its user sees it: a transaction is known to be open,
closed, or, after an error, unsure; the file changes by whole transactions and by single changes
outside of one. It has no connection and no locks.

**`MCSchemaApply`**, **`MCScripts`**, **`MCFollowUps`**, **`MCTexts`**, **`MCSession`** and **`MCQueries`** hold the
instances; the modules called `...Proofs` hold the theorems.

## 3. Runs

| Run | What it asks | Bounds | Distinct states |
|---|---|---|---|
| `SchemaApply.cfg` | races between applies and sessions | 2 processes; 5 schemas: a base, two rival successors, one that extends one of them with a new type ordered before the others and an inverse link, one that is refused | 443 k |
| `SchemaEvolution.cfg` | convergence over chains of migrations | 1 process; every valid combination of 5 optional fields over 2 types, plus name collisions, table-name twins, refused changes and a third type | 338 k |
| `SchemaLiveness.cfg` | commands end | 2 processes; 2 schemas | 16 k |
| `SchemaPartial.cfg` | expected violation, see findings | 2 processes; 1 schema | - |
| `ScriptRaces.cfg` | atomicity and isolation of scripts, and that their preflight agrees with SQLite | 2 processes; 7 scripts and 6 that are refused; at most `MaxFollowUps` = 2 follow-ups per select | 240 k |
| `FollowUps.cfg` | nested lists read in batches | 1 reader, 1 writer; 4 fetches on 2 levels below the select; batches of 1 and 2 ids and a fetch without room; 3 contents of 5 objects | 8 k |
| `QueryTexts.cfg` | texts mean what the grammar says, and the prompt takes them apart | 5 parts of the grammar, up to 8 rules; 5 keyboards, up to 4 symbols behind a given beginning | 767 k |
| `ReplSession.cfg` | sessions and their transactions | 2 processes, with 2 inputs and 1; 11 inputs and 2 arguments, up to 5 queries each | 801 k |
| `Queries.cfg` | selects mean what they say | 47 selects, 5 of them refused; 3 people, 2 departments; 16 mutations, 1 refused | 5 k |
| `Mutations.cfg` | mutations do what they say | 16 mutations, 1 refused; 3 people, 1 department | 2 k |
| `QueryUnprepared.cfg` | expected violation, see findings | two selects | - |
| `NestedSelects.cfg` | expected violation, see findings | 1 part of the grammar, up to 9 rules | - |

Nothing in the model is counted up without end: versions end because supported
migrations only add and the set of schemas is finite. Two processes are enough
for a race between a reader and a writer or between two writers; three writers
would meet the same two-holder conflict on RESERVED, and the theorems below hold
for any number. The schemas are chosen so that ids in declaration order, in name
order and in migration order all differ, so that two migrations of the same base
touch disjoint objects (only the version number keeps them apart), and so that
names built by the planner can collide.

Deadlock is not checked where the system really stops: a script or a select ends, a
text has as many symbols as a keyboard has, a session has as many inputs as its user
enters. The caps in guards are `MaxFollowUps` (two follow-ups are enough for another
process to act before, between and after them), `MaxInputs` and the bounds of
languages and keyboards. The seven scripts have blocks that read and write, blocks with two writes,
a rolled-back block after an autocommit write, two blocks in a row, and selects
outside blocks, and any two of them run against each other.

What is checked about schemas:

* `VersionsContiguous`, `CommitsSucceedTheirBase`: version numbers are 1..n with
  one row each, and a commit adds exactly the successor of the version its plan
  was made from. The verification and the writing transaction are separate; what
  saves the code is the UNIQUE version number inserted last.
* `ImplementsHistory`: the refinement of `SchemaHistory`.
* `StoredSchemaVerifies`: the rows in the file pass the next command's
  verification, whatever chain of migrations, errors and crashes led there.
* `PhysicalMatchesCatalog`: tables and indexes are those of an initial apply of
  the same schema; this catches a lost foreign key or a column planned
  differently by the two planners.
* `SessionCatalogCommitted`: although a session reads objects and fields in two
  statements, it gets a committed version or an error. It holds because migrations
  never remove anything and because rows of unknown owners are rejected.
* `SessionCatalogUsable`: what a session compiled keeps working while others
  migrate: columns stay, and columns it does not know of are nullable.
* `NoTransactionLeft`: between transactions a process holds no lock, whichever
  statement failed before, the COMMIT included.
* `UnchangedIsTruthful`: the silent success of an empty plan is only given for a
  schema that is in the history.
* `CommandsEnd`: a command terminates. Fairness is weak fairness of each process's
  own steps: a process that is running executes its next statement, and with a
  zero busy timeout a lock is an answer and not a wait, so nothing stronger is
  needed and nothing is assumed of the user who opens and closes sessions.
* `TypeOK` is the type invariant.

What is checked about scripts:

* `TransitionsValid`: SQLite is never sent a BEGIN inside, or a COMMIT or ROLLBACK
  outside a transaction. The preflight decides that from the text, SQLite from its
  own state; they must agree at every statement reached.
* `CleanReturn`: whichever statement failed, and whether or not SQLite rolled back by
  itself, `execute_script` leaves no transaction and no lock behind.
* `SuccessIsCommitted`: a reported success means that exactly the writes not rolled
  back by the script are in the file.
* `BlocksAreIsolated`: all selects of a block, follow-ups included, see the same
  effects of other processes (`BlocksReadOneState`; outside a block this is false,
  and the model has the torn reads), and nobody reads half of somebody else's block
  (`NoPartialBlockRead`).
* `ReadsOwnWrites`: a select sees the earlier writes of its script that are committed
  or belong to its block, and no others.
* `ImplementsContract`: the refinement of `ScriptContract`.
* `TypeOK` is the type invariant.

What is checked about follow-up fetches. Two fetches hang on the same rows, one on the
row itself and one on an optional single link that rows share; below each is a further
fetch. A limit of three bind values gives batches of two and of one, and none at all for
one fetch. The writer may replace the file between any two statements, so that parents and
children vanish, appear or move in the middle of a select.

* `ListsWereTrue`: every list of a result, at every level, is the list its owner had in some
  state the file was in during the select: whole, without repetition, and under the
  right parent. Different lists may come from different states; the model
  has these answers, and no document promises more.
* `BlockResultIsOneState`: in a transaction block the whole nested result is one state.
* `WithinBindLimit`: no statement still to be sent binds too much, and none is empty.
* `SelectsEnd`: the recursion ends. Fairness is that of the commands: a running
  process executes its next statement, a lock is an answer.

What is checked about texts. A phrase of the grammar is derived bottom-up; the five
languages have, between them, every rule, with one or two words for each kind. Two are entered
at the prompt: one has no select within another, one has them in braces and in parentheses. The
keyboards type four arbitrary symbols inside an expression, a list of assignments, behind a
shape, in a script, and twice three symbols at the prompt; most of these texts are
nonsense, which is what a grammar cannot produce.

* `SentencesAreUnderstood`: whatever the grammar derives is accepted, and the parser gives
  it the tree of its derivation.
* `AcceptedTextsAreRead`: nothing of an accepted text is passed over or read twice, and a
  script is its statements, the last one closed.
* `StatementsStayWhole`: a statement pasted with line breaks anywhere, or entered in two
  lines at an open brace, is one query with its meaning, also if a string in it looks
  like commands. Left out are breaks behind which a line begins with a select in parentheses
  that no brace surrounds, and names which are themselves keywords or commands of the prompt.
* `OpenSelectsStayWhole` (`NestedSelects.cfg`): the same of exactly these breaks. It does not
  hold, see the findings.
* `PastesAreTakenApart`: statements pasted below each other in a transaction are taken apart into
  exactly these.
* `PromptKeepsText`: everything entered is in one query or pending, in order and once; pending
  text is incomplete; a query recalled from the history is the same query.

What is checked about sessions. The inputs are texts, and `ReplInput` says which queries
they are: single lines, pasted transactions that commit, roll back, stay open, contain a
statement that does not compile or end in an incomplete one.

* `MessagesAreTrue`: without an error the messages tell whether a transaction is open, and
  whenever one is, a commit adds exactly the changes reported since its start.
* `PastedBlocksAreWhole`: a transaction that is pasted as one input reaches the file as a whole or not
  at all, whatever fails on the way; only a commit entered later can save a part.
* `ImplementsContract`: the refinement of `SessionContract`.
* `InputsEnd`: what is entered comes to an end, whatever locks the other session keeps.
  Fairness is weak fairness of what the program does by itself (`RunInput`, `Leave`);
  nobody has to type, commit or close.
* `TypeOK` is the type invariant.

What is checked about queries: the catalog of `MCQueries` has a required, three
optional and a multi link, two inverse links (of a single and of a multi link) and
links from a type to itself; the mutations reach databases with empty relations,
chains and cycles of links, absent values at every place of a path, equal and
different values, and zeros to divide by. Every accepted filter both selects and
rejects objects in some of them. Three people are the fewest for a chain of two
links with a third object beside it; two departments the fewest for a multi link
that relates one person to several.

* `SelectsReturnTheirObjects`: filter, order, limit and offset of every select give
  the objects `QueryMeaning` gives, none of them twice. Objects with equal keys may
  come in any order.
* `ResultsNestObjects`: every row becomes the nested object the shape denotes.
* `RequiredValuesPresent`: a computed value the resolver calls required is not null.
* `AcceptedSelectsRun`: what is accepted is a statement SQLite prepares.
* `MutationsFindTheirObjects`: what the compiled filters and selects of mutations find are the objects
  they mean, and a select assigned to a single link finds at most one, in every database reached, on the
  evidence of its filter alone.
* `RefusalsAreJustified`: a mutation that changes nothing had nothing to change, or
  a required field, a unique value, a missing target or a link in use forbids it.
* `ImplementsObjectGraph`: the refinement of `MutationContract`.
* `TypeOK` is the type invariant.

Ids are given out in a fixed order and may be used again after a deletion, which
only makes the sets of reachable databases equal up to renaming. In `Mutations.cfg`
a single department is enough, because no mutation relates departments to each other
but by the literal id of the first.

`PROJECT.json` names for each of them a mutant of the code's definitions which
violates it.

### Findings

**Partial metadata.** `load_verified_schema` probes the three metadata tables in three autocommit reads
before it opens its transaction. If another process commits the first schema of
the file in between, the command reports *database contains partial engine schema
metadata*, which was never the case (`SchemaPartial.cfg`). The effect is a spurious
error; the file is untouched.

**Offset without limit.** The grammar and the planner allow `offset` on its own; the
renderer then writes `OFFSET n` without `LIMIT`, which is a syntax error in SQLite
(`QueryUnprepared.cfg`).

**A link called root.** A link selected at the root of a shape gets its own name as
table alias, also when that name is `root`, the alias of the root table; SQLite
refuses the statement (`QueryUnprepared.cfg`). Paths avoid the name, and a test of the
planner asks for that. One run shows both: `SomeAcceptedSelectRuns` says that one of its two
selects runs or is refused, and is violated because both are accepted and neither runs.

**A nested select at the beginning of a line.** `needs_more_input` counts braces and quotation
marks, not parentheses (`repl/src/lib.rs:282`), and `starts_data_statement` takes a line that
begins with `select` for a new statement. A statement with `in (` at the end of a line and the nested
select on the next, which is how the guide to the prompt writes it
(`docs/src/organization.md:176-177`), is handed out in two pieces; the first does not compile and
the rest is dropped (`NestedSelects.cfg`). As the first
piece ends in the parenthesis, nothing of the statement is ever executed.

Met while modelling, and not kept as runs, because no property of the system rests on them or a
run could only restate a sentence:

* Whether `exists` is a name or begins a scoped predicate is decided by looking for a brace
  behind all names and dots that follow (`parser.rs:546`), over the end of the path, so that
  `exists.name and exists .posts { ... }` is refused. `spec/query.md:892` says that `exists` "remains
  usable as a field name", and `tests/select.rs:61` uses it as one.
* `spec/query.md:79-82` makes the comma between items of a shape optional; the parser
  requires it (`parser.rs:307`), and a test says so (`tests/select.rs:593`).
* "A runtime failure rolls back the active explicit transaction" (`spec/query.md:734`) is
  true of scripts; in the REPL the transaction stays open, and `ReplSession` has it open.
* When a query of a pasted input fails, the queries behind it are dropped, but an incomplete
  text at its end stays pending (`repl/src/lib.rs:178`).
* `docs/src/limitations.md:36` has transaction commands only in the REPL; scripts have them too.
* `spec/storage-sqlite.md:383` has verification fail before reading when a transaction is
  open already; the code looks for the three metadata tables first.
* The parser accepts `a = b = c` and `a = not b`, which the grammar of
  `spec/query.md:403-405` does not derive.

## 4. Proofs

`SchemaApplyProofs` proves for every set of processes and every set of valid
schemas, with all failures and crashes:

* `TypeCorrect`: `ControlTypeOK`, the part of the type invariant about locks,
  transactions and program counters, and `WholeTypeCorrect`: all of `TypeOK`;
* `HistoryContiguous`: `[]VersionsContiguous`;
* `NoLostMigration`: `CommitsSucceedTheirBase`;
* `NothingLeftOpen`: `[]NoTransactionLeft`;
* `StoredAlwaysVerifies`: `[]StoredSchemaVerifies`;
* `PhysicalSchemaMatches`: `[]PhysicalMatchesCatalog`;
* `SessionsServeVersions`: `[]SessionCatalogCommitted`;
* `OldSessionsWork`: `[]SessionCatalogUsable`;
* `UnchangedTruthful`: `UnchangedIsTruthful`;
* `HistoryImplemented`: `Spec => ImplementsHistory`, every commit maps to an `AddVersion` and
  every other step to a stutter.

`VersionsContiguous` is not inductive: that a commit installs a gapless history
depends on what the process has in its private copy. `HistoryInv` adds, per
process, that what it took for the latest version was a stored one
(`BaseStored`), and that a private copy has the versions of the file, plus, once
the version row is inserted, its successor (`CopyTracksFile`). This is kept by
other processes because the holder of RESERVED is unique: while one process has a
private copy, nobody else can commit. The step lemma goes action by action;
`QuietStep` handles all those that leave the file and everybody else alone, and
`CommitInstallsSuccessor` the one that matters.

The last six are about what is in the file, and rest on `ContentInv`. None of them is
inductive: rows and tables are added statement by statement to a private copy, by a plan made
for a catalog that was read in an earlier transaction, and what a reader holds was read in two
statements. The invariant has a part for each of these:

* `StoredInv`: an empty file has nothing; otherwise its rows *describe* the snapshot of the latest
  version (`Describes`: an object row for each object with dense ids, its field rows, whose
  targets are rows of the right objects), its tables and indexes are those of that snapshot, with
  names that differ, and every older version grew to it (`TablesStored`);
* `PlanInv`: the catalog a plan was made for is still the stored one, as long as its version is the
  latest, whatever was verified how long ago;
* `CopyInv`: a private copy is the file plus the rows, tables and indexes of the statements
  executed so far, no key twice, and the tables those statements created were not there
  and have names of their own (`CreatesOnce`), because SQLite accepted each;
* `ReaderInv`: under the SHARED lock of verification what was read is what is stored; a
  session that read the objects in one statement and the fields in the next has a part of the
  objects of today, which either are all, or make the load fail on a field without its object.

At the commit, the two lemmas that carry the proof meet `CopyInv`: executed to its end, an initial
plan, or a supported migration plan from the stored catalog, leaves rows that describe the desired
catalog (`InitialPlan`, `MigrationPlan`), and exactly the tables and indexes an initial plan of
it creates (`InitialTablesStored`, `MigratedTablesStored`). They are proved in
`SchemaPlanProofs`, for any catalogs. The hard part is that the columns of new
fields go to the right tables although names of tables are built from lower-cased names of
objects and fields. `try_new` does not exclude that two of them collide; but a plan has a
statement for each table, SQLite accepted them all, and so the names of a file with a schema
differ (`CreatesOnce`, `TypesApart`). Nothing is assumed of names, or of `Lowercase`.

`CommonProofs` has the facts on lists these rest on: a finite set with distinct keys has exactly one
sorted list, filtering keeps the items that pass, in order, and `FlattenSeq` of a
sequence of lists has exactly the items of the parts, each at a place found from its part's
(`ConcatPlaces`). `FlattenSeq` is recursive, and the induction theorems of the library cannot
be instantiated here, so its facts are proved without them: `LeastNatural`, from the
well-foundedness of `<` on the naturals, gives a least prefix for which the fact fails,
and the equation of the function takes it one step down. The same gives `SequencesByAppend`
(what holds of the empty sequence and is kept by appending holds of all) and `FoldedByItems`
(what a recursive function along a sequence makes of one item more), on which the facts about
`Split` rest.

The rest of `TypeOK` says that whatever the file or a private copy contains is named after what
the schemas declare. It is the last to be proved, because it takes both invariants: that a
statement of a migration writes such things needs the catalog it was planned from to be one
(`PlanInv`, `MigrationTypedPlan`), and that what a process reads back is a catalog a schema file can
declare needs the rows to describe a version (`StoredInv`, `StoredCatalogTyped`); of a session, that
the object rows it read are all there are (`LoadedObjectRows`). The sets of names are those
built from declared names, not strings of any kind, of which the provers know nothing.

The assumptions are `SchemasAssumption` (schemas are declarations that passed `try_new`),
`NamesAssumption` (`NameOrder` is an order of strings that has the names of the schemas, which
stands for strings being comparable) and what `Sqlite` and `SchemaStore` say of the library.

`ScriptProofs` proves for every set of processes, every set of scripts and any
number of follow-ups:

* `TypeCorrect`: `[]TypeOK`;
* `PreflightSound`: `[]TransitionsValid`;
* `ReturnsClean`: `[]CleanReturn`;
* `SuccessIsDurable`: `[]SuccessIsCommitted`;
* `ScriptsImplementContract`: `Spec => ImplementsContract`.

They rest on one inductive invariant, `ScriptInv`. It divides the writes before the
current statement into `Pending` (of the open block) and `Settled` (committed, of
earlier units), and says of each process that the file has exactly its settled
writes (`FileInv`), that a private copy is the file plus the pending ones
(`CopyInv`), and that `in_transaction`, SQLite's transaction and the place in the
script agree (`ControlInv`; when SQLite has given up a transaction, the process is
already on its error path). The first part of the module is about scripts alone: how
the two sets change over a select, a write, a start, a commit and a rollback, and
that the pending writes at a commit are a unit. The second part goes action by
action. Other processes do not disturb the invariant of a process because they add
only their own effects and can write the file back only while it holds no lock
(`OthersKept`). The assumption is `ScriptsAssumption` (scripts are sequences of
statements) and what `Sqlite` says of the library.

The last part is about what selects read:

* `BlocksIsolated`: `[]BlocksAreIsolated`;
* `OwnWritesAreRead`: `[]ReadsOwnWrites`.

What a process has read is a set of pairs of a statement and a content (`History`), to which a
step adds what is read now. The invariant says of each pair that it has exactly the
reader's own settled and pending writes of that moment (`OwnRead`), that the blocks of
others are in it whole (`OthersRead`), and, as long as the block of the statement
is open, that the file still has the same effects of others (`StillCurrent`), because the
reader's SHARED lock keeps everybody from writing back. Two reads of one block were
therefore both current when the later one was made.

`NestedReadProofs` proves of `FollowUps`, for every plan of fetches, every limit and every contents:

* `BatchesFit`: `[]WithinBindLimit`;
* `CallsTyped`: the type invariant of `FollowUps`.

The invariant says of every frame of the recursion that its batches fit its fetch and its
rows are a finite sequence whose owners are ids or `NoId`; `ChunksTyped` is the fact about
`slice::chunks` it rests on.

and of the nested result, for any other processes that commit between the statements:

* `NestedListsTrue`: `[]ListsWereTrue`;
* `BlockResultsAreStates`: `[]BlockResultIsOneState`.

Neither says anything of a select that runs, so `NestedInv` has to. Of every open call it says
that its rows were read in one content the select has seen, and that the lists of the
fetches it is done with are true lists of the identities they hang on (`RowsTrue`); of the
outermost one, that its rows are those of the select; of every other, that they are exactly the
children of the parents in one batch (`RowsOfBatch`). Of the call that waits for it, it says that the
children found so far are true lists for the parents whose batches are finished, and none yet
for those in the batch that was sent and in the batches that wait, which have no parent in common
(`ChildrenTrue`). This gives each step what it needs: `Grouped` appends to an empty list, because
no parent is in two batches (`ChunksItems`: every item of a list without repetitions is in exactly
one chunk); a finished row is an object one level up (`FinishedRow`, `BatchObjectsTrue`); and
`Attached` finds the list of every parent it asks for, and an empty one where there is none
(`RowAttached`). A commit of another process adds a content to those the select has seen, which leaves
true what was true (`TrueListsGrow`, `StackGrows`). For the second theorem the
invariant adds that under an open transaction the reader holds SHARED and has seen one
content only, since `WriterCommits` needs all locks of others gone. Which lists are true is
defined by recursion over levels; `DepthsByStep`, the first-order induction of `CommonProofs` cut
off at the number of fetches, gives the equations `NestedListsAt` and `TrueListsAt`. The
invariant was checked on the instance of `follow_ups` before it was proved.

`ReplSessionProofs` proves for any sessions, inputs, arguments and bounds:

* `TypeCorrect`: `[]TypeOK`;
* `MessagesStayTrue`: `[]MessagesAreTrue`;
* `SessionsImplementContract`: `Spec => ImplementsContract`.

`SessionInv` adds two facts to the properties: the private copy contains the file, since nobody
else can write the file back meanwhile, and a change is never made twice (`AllPast`: every
change made belongs to a query that is over). The last part of the module proves
`PastesCommitWhole`, `[]PastedBlocksAreWhole`: while an input runs, a transaction started in it
is open and has all changes of its block (`BlockInv`); a change that waits for a commit is
of an earlier input or has met no end of a transaction yet (`PendingInv`). When an error
stops the input, nothing but a commit of a later input can bring the change to the file.

`TypingProofs` proves for any keyboards, any length of texts and any number of inputs:

* `PromptKeepsEverything`: `TypingSpec => []PromptKeepsText`.

The hard part is `HistoryRepeats`: a query that was taken line by line, in several inputs, behind
other queries, is taken whole when it is entered again. Nothing in the property says how a text
came to be pending; `PromptInv` does (`Waits`): taking the text again from its beginning, line
by line (`Replay`), leaves it pending as it is, so that none of its lines would begin something new;
the same is true of the text trimmed, which is as complete as the untrimmed one
(`NeedsMoreBreak`: a line break is no quotation mark and no brace) and has the same symbols. A line
that continues a text keeps this (`WaitsContinue`) because the code asks the same question about
the same text both times; a line that ends it makes a query that is taken again whole
(`WholeRecalled`). For `NothingIsLost` every line taken adds exactly its symbols (`TakeLineGood`),
and the lines of a text have all of its symbols but the breaks (`LinesTogether`). `Split`,
`Without` and `TakeLines` are recursive functions along a sequence; `FoldedByItems` of
`CommonProofs` reduces such a function to its first value and one step, and `SequencesByAppend` is the
induction. The assumption is `KeyboardsAssumption` (what a text begins with is a sequence). The
theorem is about `TypingSpec`, and every behaviour of `QueryTexts!Spec`
is one of it: `Init` chooses from `Keyboards` or `NoKeyboard`, and each step of `Next` is one of
`TypeOrEnter` or leaves `typingVars` alone.

`MutationProofs` proves for every catalog whose tables the file has, every list of mutations, and
whatever their filters and selects find:

* `StatementsKeepTables`: `[]TypeOK` of `StoredObjects`: rows have exactly the columns of their
  tables, objects have ids of their types, and every NOT NULL, UNIQUE and foreign key holds.

It is inductive, but two of its steps are not checked by anybody at run time. The columns a
statement writes are columns of its table, and never the id, because of what the resolver
accepts (`AcceptedAssignment`, `PlannedAssignment`), and no two tables or columns have one name
(`TablesApart`). A delete is only checked row by row, in an order SQLite chooses: if some order
passes, every row that referred to a deleted one is deleted too (`ReferrersDeleted`), and the rows of
relation tables go with the objects they relate, so that nothing left refers to anything gone
(`ReferencesKept`); that needs ids to be unique across types (`IdsDetermine`). The assumptions are
`CatalogAssumption` and `TablesAssumption` (the catalog is a legal one, and no CREATE TABLE
of it failed), `IdsAssumption` (ids are uuids: no two types share one) and
`MutationsAssumption` (mutations are as the parser makes them).

The second part compares the rows with the objects they stand for:

* `MutationsImplementObjectGraph`: `Spec /\ []MutationsFindTheirObjects => ImplementsObjectGraph`;
* `NoStatementFailsForNothing`: `Spec /\ []MutationsFindTheirObjects => []RefusalsAreJustified`.

`MutationsFindTheirObjects` is the invariant of the run `mutations`: filters and selects find the objects
they mean. It is a hypothesis, because what a compiled filter means is beyond the prover (see below);
everything behind the filter is proved. The argument has three parts.

* *Constraints and legality.* The constraints of the tables hold exactly where the graph of their rows is legal:
  required fields are NOT NULL, unique fields and ids have unique columns, links and relation tables refer to rows of
  the type they lead to (`TypedLegal`, `LegalConstraints`). For the second direction rows need the
  shape a statement gives them, before anything is checked (`Shaped`).
* *Effects.* What a statement writes, before constraints are checked, has the graph that `MutationContract` gives it:
  `InsertEffect`, `UpdateEffect`, `LinkEffect`, `DeleteEffect`. They rest on one lemma that says when
  rows stand for a given graph (`GraphIs`), and on what a statement leaves alone: the relation
  rows of other fields (`RelationTablesApart`), the links of other objects (`RelatedStay`, `ObjectStays`), and, for an assigned
  field, that no two fields of a type share a column (`ColumnsSet`, `ValueWritten`). That a select assigned to a
  single link gives what it means takes that it finds at most one object (`FoundMember`).
* *Refusals.* A statement is rolled back when its effect breaks a constraint; then the graph it would have is
  not legal, and the contract lets it be refused (`CheckedMeant`). A delete is also refused when some order of SQLite
  meets a row that refers to a deleted one; then either a row that stays refers to it, and the graph without it is
  not legal, or two deleted objects refer to each other (`ReferredRefused`).

The attempts corrected the model three times: a statement SQLite cannot prepare (an alias given twice in
the joins of its filter) is an error that changes nothing; the filter of an update selects rows by a
subselect of ids, as the renderer writes it, not by a join with the rows; and `-=` deletes the rows whose
source is in one subselect and whose target is in the other, whatever else these rows have.

`CommonProofs` also holds what these modules share about the file: what every operation of `Sqlite` does to locks,
copies and the file, and that it leaves other connections alone. All theorems rest on
the named assumptions of the constants (records have their types, bounds are numbers, names
like `NoId` are no ids), which TLC evaluates in the runs, and on `Sqlite` as a
description of the library.

What stays with TLC, and why:

* `SelectsReturnTheirObjects`, `ResultsNestObjects`, `RequiredValuesPresent`, `AcceptedSelectsRun`
  and `MutationsFindTheirObjects` of the query runs: they compare what a compiled filter or shape
  finds with what it means, and both are defined by recursion over expressions and shapes. `QueryResolver`, `QueryPlan`, `SqlEngine` and `QueryMeaning` have
  `RECURSIVE` operators, which the prover does not take, and equality of two recursive definitions on every
  expression is an induction over data;
* `SentencesAreUnderstood`, `AcceptedTextsAreRead`, `StatementsStayWhole` and
  `PastesAreTakenApart` of `QueryTexts`: the parser is mutually recursive, for the same two reasons;
* all liveness under fairness (`CommandsEnd`, `SelectsEnd`, `InputsEnd`);
* the three expected violations, which are counterexamples.

## 5. What is not modelled, and the plan

Not modelled: SQL text, quoting and formatting, command-line arguments, files, exit codes and
output (plain I/O; the CLI is modelled as far as the life of its processes goes), the schema
language (a grammar without state, whose result is the catalog; the catalogs of the
instances are written directly), the WASM runner (a stub without transactions or schema
reading), the REPL's compile-only mode (it changes nothing), and, in scripts and sessions, the rows of
user tables (a statement is kept as its effect). In texts: characters, spans and the kinds of
errors. In queries: which error a refusal reports, 64-bit overflow and floating point, the text functions beyond
their types and nulls, and locks and other processes, which are the business of the
script, session and follow-up modules. In sessions the follow-ups of a select are part of it,
because what they read is checked in `FollowUps`.

What is left: an induction principle the provers can use would let the meaning of compiled
filters be proved as well as checked; the schema language, if its grammar grows beyond declarations.
