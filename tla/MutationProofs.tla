--------------------------- MODULE MutationProofs ---------------------------
(***************************************************************************)
(* Proofs about MutationSession, for every catalog, every list of          *)
(* mutations, and whatever filters and selects are: the type invariant,    *)
(* and, where filters and selects find the objects they mean, that the     *)
(* rows implement the graph of objects of MutationContract.                *)
(*                                                                         *)
(* An insert or update writes only columns of its table and never the id,  *)
(* because the resolver accepts no other assignment; SQLite checks the     *)
(* constraints of the rows it writes.  A delete is not checked as a whole: *)
(* that what it leaves refers to nothing it took is proved from the rules  *)
(* of ON DELETE RESTRICT and CASCADE.                                      *)
(*                                                                         *)
(* Rows are compared with objects in three steps: the constraints of the   *)
(* rows hold exactly where their graph is legal; each statement, before    *)
(* its constraints are checked, has the graph that the contract gives it;  *)
(* and so a statement is refused only where the contract lets it be.       *)
(***************************************************************************)
EXTENDS MutationSession, SchemaPlanProofs

-----------------------------------------------------------------------------
\* The tables of the catalog

TheCatalog == IsCatalog(Catalog) /\ ValidCatalog(Catalog)

LEMMA CatalogIs == TheCatalog
BY CatalogAssumption, DeclaredCatalog DEF TheCatalog

\* A type is the name of an object type, which FindType finds.
LEMMA TypeObject ==
    ASSUME NEW type \in TypeNames(Catalog)
    PROVE  \E o \in ToSet(Catalog) :
              /\ o.name = type /\ FindType(Catalog, type) = o /\ IsList(o.fields)
<1>1. PICK o \in ToSet(Catalog) : o.name = type
    BY DEF TypeNames
<1>2. IsCatalog(Catalog)
    BY CatalogIs DEF TheCatalog
<1>3. DistinctNames(Catalog) /\ IsList(o.fields)
    BY <1>2 DEF IsCatalog
<1>4. FindType(Catalog, o.name) = o
    BY <1>3, FindTypeFinds
<1>5. QED
    BY <1>1, <1>3, <1>4

\* The columns of a table are those of its plan.
LEMMA PlannedColumns ==
    ASSUME NEW table \in TablePlans
    PROVE  table.name \in DOMAIN ColumnsOf /\ ColumnsOf[table.name] = ToSet(table.columns)
<1> DEFINE named == CHOOSE other \in TablePlans : other.name = table.name
<1>1. named \in TablePlans /\ named.name = table.name
    OBVIOUS
<1>2. named = table
    BY <1>1, TablesAssumption
<1>3. table.name \in {other.name : other \in TablePlans}
    OBVIOUS
<1>4. QED
    BY <1>2, <1>3 DEF ColumnsOf

\* The fields of a type.
FieldsOf(type) == ToSet(FindType(Catalog, type).fields)

\* A type has a table with an id and a column for each field that has one,
LEMMA ObjectTablePlan ==
    ASSUME NEW type \in TypeNames(Catalog)
    PROVE  /\ ObjectTable(type, FindType(Catalog, type).fields) \in TablePlans
           /\ ObjectTable(type, FindType(Catalog, type).fields).name = TableName(type)
           /\ TableName(type) \in DOMAIN ColumnsOf
           /\ ColumnsOf[TableName(type)] = ObjectColumns(FieldsOf(type))
<1>1. PICK o \in ToSet(Catalog) : o.name = type /\ FindType(Catalog, type) = o /\ IsList(o.fields)
    BY TypeObject
<1>2. PICK table : table = ObjectTable(type, o.fields)
    OBVIOUS
<1>3. table \in TablePlans
    BY <1>1, <1>2 DEF TablePlans
<1>4. table.name = TableName(type) /\ ToSet(table.columns) = ObjectColumns(ToSet(o.fields))
    BY <1>1, <1>2, ObjectTableColumns DEF TableName
<1>5. table.name \in DOMAIN ColumnsOf /\ ColumnsOf[table.name] = ToSet(table.columns)
    BY <1>3, PlannedColumns
<1>6. QED
    BY <1>1, <1>2, <1>3, <1>4, <1>5 DEF FieldsOf

SourceColumn(type) == Column("source_id", "TEXT", FALSE, FALSE, TableName(type))
TargetColumn(field) == Column("target_id", "TEXT", FALSE, FALSE, TableName(field.type))
PositionColumn == Column("position", "INTEGER", TRUE, FALSE, None)

LEMMA ThreeItems ==
    ASSUME NEW x, NEW y, NEW z
    PROVE  ToSet(<<x, y, z>>) = {x, y, z}
<1>1. PICK list : list = <<x, y, z>>
    OBVIOUS
<1>2. DOMAIN list = 1..3 /\ list[1] = x /\ list[2] = y /\ list[3] = z
    BY <1>1
<1>3. ToSet(list) = {x, y, z}
    BY <1>2 DEF ToSet
<1>4. QED
    BY <1>1, <1>3

\* and each of its stored multi links a table with two ids.
LEMMA RelationTablePlan ==
    ASSUME NEW type \in TypeNames(Catalog), NEW f \in FieldsOf(type), HasRelationTable(f)
    PROVE  /\ RelationTable(type, f) \in TablePlans
           /\ RelationTable(type, f).name = RelationTableName(type, f.name)
           /\ RelationTableName(type, f.name) \in DOMAIN ColumnsOf
           /\ ColumnsOf[RelationTableName(type, f.name)]
                = {SourceColumn(type), TargetColumn(f), PositionColumn}
<1>1. PICK o \in ToSet(Catalog) : o.name = type /\ FindType(Catalog, type) = o /\ IsList(o.fields)
    BY TypeObject
<1>2. RelationTable(o.name, f) \in RelationTablesOf(o.name, ToSet(o.fields))
    BY <1>1 DEF RelationTablesOf, FieldsOf
<1>3. RelationTable(o.name, f) \in ToSet(RelationTables(o.name, o.fields))
    BY <1>1, <1>2, RelationTablesItems
<1>4. RelationTable(o.name, f) \in TablePlans
    BY <1>3 DEF TablePlans
<1>5. PICK table : table = RelationTable(type, f)
    OBVIOUS
<1>6. table.name = RelationTableName(type, f.name)
    BY <1>5 DEF RelationTable, CreateTable
<1>7. table.columns = <<SourceColumn(type), TargetColumn(f), PositionColumn>>
    BY <1>5 DEF RelationTable, CreateTable, SourceColumn, TargetColumn, PositionColumn, TableName
<1>8. ToSet(table.columns) = {SourceColumn(type), TargetColumn(f), PositionColumn}
    BY ONLY <1>7, ThreeItems
<1>9. table.name \in DOMAIN ColumnsOf /\ ColumnsOf[table.name] = ToSet(table.columns)
    BY <1>1, <1>4, <1>5, PlannedColumns
<1>10. QED
    BY <1>1, <1>4, <1>5, <1>6, <1>8, <1>9

\* There are no other tables.
LEMMA EveryTable ==
    ASSUME NEW t \in DOMAIN ColumnsOf
    PROVE  \/ \E type \in TypeNames(Catalog) : t = TableName(type)
           \/ \E type \in TypeNames(Catalog) : \E f \in FieldsOf(type) :
                 HasRelationTable(f) /\ t = RelationTableName(type, f.name)
<1>1. PICK table \in TablePlans : table.name = t
    BY DEF ColumnsOf
<1>2. CASE table \in {ObjectTable(o.name, o.fields) : o \in ToSet(Catalog)}
  <2>1. PICK o \in ToSet(Catalog) : table = ObjectTable(o.name, o.fields)
    BY <1>2
  <2>2. o.name \in TypeNames(Catalog) /\ FindType(Catalog, o.name) = o
    BY CatalogIs, FindTypeFinds DEF TypeNames, TheCatalog, IsCatalog
  <2>3. table.name = TableName(o.name)
    BY <2>1, <2>2, ObjectTablePlan
  <2>4. QED
    BY <1>1, <2>2, <2>3
<1>3. CASE table \in UNION {ToSet(RelationTables(o.name, o.fields)) : o \in ToSet(Catalog)}
  <2>1. PICK o \in ToSet(Catalog) : table \in ToSet(RelationTables(o.name, o.fields))
    BY <1>3
  <2>2. o.name \in TypeNames(Catalog) /\ FindType(Catalog, o.name) = o /\ IsList(o.fields)
    BY CatalogIs, FindTypeFinds DEF TypeNames, TheCatalog, IsCatalog
  <2>3. table \in RelationTablesOf(o.name, ToSet(o.fields))
    BY <2>1, <2>2, RelationTablesItems
  <2>4. PICK f \in ToSet(o.fields) : HasRelationTable(f) /\ table = RelationTable(o.name, f)
    BY <2>3 DEF RelationTablesOf
  <2>5. f \in FieldsOf(o.name)
    BY <2>2 DEF FieldsOf
  <2>6. table.name = RelationTableName(o.name, f.name)
    BY <2>4 DEF RelationTable, CreateTable
  <2>7. QED
    BY <1>1, <2>2, <2>4, <2>5, <2>6
<1>4. QED
    BY <1>2, <1>3 DEF TablePlans

\* A relation table is not the table of a type: it has no id column.
LEMMA TablesApart ==
    ASSUME NEW type \in TypeNames(Catalog), NEW f \in FieldsOf(type), HasRelationTable(f)
    PROVE  ~IsObjectTable(RelationTableName(type, f.name))
<1> SUFFICES ASSUME NEW other \in TypeNames(Catalog), TableName(other) = RelationTableName(type, f.name)
             PROVE  FALSE
    BY DEF IsObjectTable
<1>1. IdColumn \in {SourceColumn(type), TargetColumn(f), PositionColumn}
    BY ObjectTablePlan, RelationTablePlan DEF ObjectColumns
<1>2. QED
    BY <1>1 DEF IdColumn, SourceColumn, TargetColumn, PositionColumn, Column

\* The columns of the table of a type, in order: the id, then those of the fields.
LEMMA TypeColumnList ==
    ASSUME NEW type \in TypeNames(Catalog)
    PROVE  \E stored, columns :
              /\ ToSet(stored) = {f \in FieldsOf(type) : HasColumn(f)}
              /\ DistinctNames(columns) /\ 1 \in DOMAIN columns /\ columns[1] = IdColumn
              /\ \A i \in DOMAIN stored :
                    /\ i \in Nat \ {0} /\ i + 1 \in DOMAIN columns
                    /\ columns[i + 1] = StoredColumn(stored[i])
<1>1. PICK o \in ToSet(Catalog) : o.name = type /\ FindType(Catalog, type) = o /\ IsList(o.fields)
    BY TypeObject
<1>2. PICK stored : stored = Filter(o.fields, HasColumn)
    OBVIOUS
<1>3. IsList(stored) /\ ToSet(stored) = {f \in FieldsOf(type) : HasColumn(f)}
    BY <1>1, <1>2, ColumnFields DEF FieldsOf
<1>4. PICK rest : rest = [i \in DOMAIN stored |-> StoredColumn(stored[i])]
    OBVIOUS
<1>5. IsList(rest) /\ DOMAIN rest = DOMAIN stored /\ Len(rest) \in Nat /\ DOMAIN rest = 1..Len(rest)
  <2>1. rest = [i \in DOMAIN stored |-> rest[i]]
    BY <1>4
  <2>2. IsList(rest) /\ DOMAIN rest = DOMAIN stored
    BY ONLY <1>3, <2>1, MappedList
  <2>3. QED
    BY <2>2, ListLength
<1>6. PICK columns : columns = <<IdColumn>> \o rest
    OBVIOUS
<1>7. /\ 1 \in DOMAIN columns /\ columns[1] = IdColumn
      /\ \A i \in DOMAIN stored :
            i \in Nat \ {0} /\ i + 1 \in DOMAIN columns /\ columns[i + 1] = StoredColumn(stored[i])
  <2>1. rest \in Seq(ToSet(rest))
    BY <1>5 DEF IsList
  <2>2. /\ 1 \in DOMAIN columns /\ columns[1] = IdColumn
        /\ \A i \in DOMAIN rest :
              i \in Nat \ {0} /\ i + 1 \in DOMAIN columns /\ columns[i + 1] = rest[i]
    BY <1>5, <1>6, <2>1
  <2>3. QED
    BY <1>4, <1>5, <2>2
<1>8. DistinctNames(columns)
  <2>1. ObjectTable(type, o.fields).columns = columns
    BY <1>2, <1>4, <1>6 DEF ObjectTable, Map, CreateTable
  <2>2. ObjectTable(type, o.fields) \in TablePlans
    BY <1>1, ObjectTablePlan
  <2>3. QED
    BY <2>1, <2>2, TablesAssumption
<1>9. QED
    BY <1>3, <1>7, <1>8

\* No field of a type is stored in the column of the id,
LEMMA IdColumnApart ==
    ASSUME NEW type \in TypeNames(Catalog), NEW f \in FieldsOf(type), HasColumn(f)
    PROVE  StoredColumnName(f) # "id"
<1>1. PICK stored, columns :
              /\ ToSet(stored) = {g \in FieldsOf(type) : HasColumn(g)}
              /\ DistinctNames(columns) /\ 1 \in DOMAIN columns /\ columns[1] = IdColumn
              /\ \A i \in DOMAIN stored :
                    /\ i \in Nat \ {0} /\ i + 1 \in DOMAIN columns
                    /\ columns[i + 1] = StoredColumn(stored[i])
    BY TypeColumnList
<1>2. PICK i \in DOMAIN stored : stored[i] = f
    BY <1>1 DEF ToSet
<1>3. i + 1 \in DOMAIN columns /\ columns[i + 1] = StoredColumn(f) /\ i + 1 # 1
    BY <1>1, <1>2
<1>4. columns[i + 1].name # columns[1].name
    BY <1>1, <1>3 DEF DistinctNames
<1>5. QED
    BY <1>1, <1>3, <1>4 DEF IdColumn, StoredColumn, Column

\* and no two fields are stored in one column.
LEMMA ColumnsApart ==
    ASSUME NEW type \in TypeNames(Catalog), NEW f \in FieldsOf(type), HasColumn(f),
           NEW g \in FieldsOf(type), HasColumn(g), StoredColumnName(f) = StoredColumnName(g)
    PROVE  f = g
<1>1. PICK stored, columns :
              /\ ToSet(stored) = {h \in FieldsOf(type) : HasColumn(h)}
              /\ DistinctNames(columns) /\ 1 \in DOMAIN columns /\ columns[1] = IdColumn
              /\ \A i \in DOMAIN stored :
                    /\ i \in Nat \ {0} /\ i + 1 \in DOMAIN columns
                    /\ columns[i + 1] = StoredColumn(stored[i])
    BY TypeColumnList
<1>2. PICK i \in DOMAIN stored : stored[i] = f
    BY <1>1 DEF ToSet
<1>3. PICK j \in DOMAIN stored : stored[j] = g
    BY <1>1 DEF ToSet
<1>4. /\ i \in Nat /\ i + 1 \in DOMAIN columns /\ columns[i + 1] = StoredColumn(f)
      /\ j \in Nat /\ j + 1 \in DOMAIN columns /\ columns[j + 1] = StoredColumn(g)
    BY <1>1, <1>2, <1>3
<1>5. columns[i + 1].name = columns[j + 1].name
    BY <1>4 DEF StoredColumn, Column
<1>6. i + 1 = j + 1
    BY <1>1, <1>4, <1>5 DEF DistinctNames
<1>7. i = j
    BY <1>4, <1>6
<1>8. QED
    BY <1>2, <1>3, <1>7

\* A column that refers to a table refers to the table of a type.
LEMMA ReferencedTables ==
    ASSUME NEW t \in DOMAIN ColumnsOf, NEW c \in ColumnsOf[t], c.references # None
    PROVE  \E type \in TypeNames(Catalog) : c.references = TableName(type)
<1>0. \A type \in TypeNames(Catalog) : \A f \in FieldsOf(type) :
          f.kind = "link" => f.type \in TypeNames(Catalog)
  <2>1. ASSUME NEW type \in TypeNames(Catalog), NEW f \in FieldsOf(type), f.kind = "link"
        PROVE  f.type \in TypeNames(Catalog)
    <3>1. PICK o \in ToSet(Catalog) : FindType(Catalog, type) = o
      BY TypeObject
    <3>2. f \in ToSet(o.fields)
      BY <3>1 DEF FieldsOf
    <3>3. ValidCatalog(Catalog)
      BY CatalogIs DEF TheCatalog
    <3>4. QED
      BY <2>1, <3>2, <3>3 DEF ValidCatalog
  <2>2. QED
    BY <2>1
<1>1. CASE \E type \in TypeNames(Catalog) : t = TableName(type)
  <2>1. PICK type \in TypeNames(Catalog) : t = TableName(type)
    BY <1>1
  <2>2. c \in ObjectColumns(FieldsOf(type))
    BY <2>1, ObjectTablePlan
  <2>3. PICK f \in FieldsOf(type) : c = StoredColumn(f)
    BY <2>2 DEF ObjectColumns, IdColumn, Column
  <2>4. f.kind = "link" /\ c.references = TableName(f.type)
    BY <2>3 DEF StoredColumn, Column, TableName
  <2>5. QED
    BY <1>0, <2>4
<1>2. CASE \E type \in TypeNames(Catalog) : \E f \in FieldsOf(type) :
              HasRelationTable(f) /\ t = RelationTableName(type, f.name)
  <2>0. PICK type \in TypeNames(Catalog) : \E f \in FieldsOf(type) :
            HasRelationTable(f) /\ t = RelationTableName(type, f.name)
    BY <1>2
  <2>1. PICK f \in FieldsOf(type) : HasRelationTable(f) /\ t = RelationTableName(type, f.name)
    BY <2>0
  <2>2. c \in {SourceColumn(type), TargetColumn(f), PositionColumn}
    BY <2>1, RelationTablePlan
  <2>3. c.references = TableName(type) \/ c.references = TableName(f.type)
    BY <2>2 DEF SourceColumn, TargetColumn, PositionColumn, Column
  <2>4. f.type \in TypeNames(Catalog)
    BY <1>0, <2>1 DEF HasRelationTable, IsMany
  <2>5. QED
    BY <2>3, <2>4
<1>3. QED
    BY <1>1, <1>2, EveryTable

\* The names of the columns of both kinds of tables.
LEMMA TypeColumnNames ==
    ASSUME NEW type \in TypeNames(Catalog)
    PROVE  /\ "id" \in ColumnNames(TableName(type))
           /\ \A f \in FieldsOf(type) :
                 HasColumn(f) => StoredColumnName(f) \in ColumnNames(TableName(type)) \ {"id"}
<1>1. IdColumn \in ColumnsOf[TableName(type)]
    BY ObjectTablePlan DEF ObjectColumns
<1>2. \A f \in FieldsOf(type) : HasColumn(f) => StoredColumn(f) \in ColumnsOf[TableName(type)]
    BY ObjectTablePlan DEF ObjectColumns
<1>3. IdColumn.name = "id" /\ \A f : StoredColumn(f).name = StoredColumnName(f)
    BY DEF IdColumn, StoredColumn, Column
<1>4. QED
    BY <1>1, <1>2, <1>3, IdColumnApart DEF ColumnNames

LEMMA RelationColumnNames ==
    ASSUME NEW type \in TypeNames(Catalog), NEW f \in FieldsOf(type), HasRelationTable(f)
    PROVE  ColumnNames(RelationTableName(type, f.name)) = {"source_id", "target_id", "position"}
<1>1. PICK a, b, c : a = SourceColumn(type) /\ b = TargetColumn(f) /\ c = PositionColumn
    OBVIOUS
<1>2. a.name = "source_id" /\ b.name = "target_id" /\ c.name = "position"
    BY <1>1 DEF SourceColumn, TargetColumn, PositionColumn, Column
<1>3. ColumnsOf[RelationTableName(type, f.name)] = {a, b, c}
    BY <1>1, RelationTablePlan
<1>4. ColumnNames(RelationTableName(type, f.name)) = {x.name : x \in {a, b, c}}
    BY <1>3 DEF ColumnNames
<1>5. QED
    BY <1>2, <1>4

-----------------------------------------------------------------------------
\* What the resolver accepts

LEMMA RejectedIsNot == ~Accepted(Rejected)
BY DEF Accepted, Rejected

\* A field other than the id that the table of a type has is declared.
LEMMA FieldIsDeclared ==
    ASSUME NEW type \in TypeNames(Catalog), NEW name, HasField(type, name), name # "id"
    PROVE  FieldTable[type][name] \in FieldsOf(type) /\ FieldTable[type][name].name = name
<1> DEFINE fields == {IdField} \cup FieldsOf(type)
           chosen == CHOOSE f \in fields : f.name = name
<1>1. FieldTable[type] = ByName(fields)
    BY DEF FieldTable, FieldsOf
<1>2. name \in {f.name : f \in fields} /\ FieldTable[type][name] = chosen
    BY <1>1 DEF HasField, ByName
<1>3. chosen \in fields /\ chosen.name = name
    BY <1>2
<1>4. IdField.name = "id"
    BY DEF IdField, ScalarField
<1>5. QED
    BY <1>2, <1>3, <1>4

\* What an accepted assignment says of its field: it is the one named, it is stored,
\* and it is a multi link exactly when the operator is not the one that sets it.
AssignsField(type, a, r) ==
    /\ r.field \in FieldsOf(type) /\ r.field.inverse = None
    /\ r.field.name = a.field /\ r.op = a.op
    /\ IF a.op = ":=" THEN HasColumn(r.field) ELSE HasRelationTable(r.field)

LEMMA AcceptedAssignment ==
    ASSUME NEW type \in TypeNames(Catalog), NEW a, NEW r, r = ResolveAssignment(type, a),
           Accepted(r), Accepted(r.value)
    PROVE  /\ AssignsField(type, a, r)
           /\ \E select : r.value = AssignedValue(r.field, a, select)
<1>1. HasField(type, a.field) /\ a.field # "id" /\ FieldTable[type][a.field].inverse = None
    BY RejectedIsNot DEF ResolveAssignment
<1>2. PICK field : field = FieldTable[type][a.field]
    OBVIOUS
<1>3. PICK select : select = IF a.value.tag = "select" THEN SelectResolution(a.value) ELSE Rejected
    OBVIOUS
<1>4. r.field = field /\ r.op = a.op /\ r.value = AssignedValue(field, a, select)
    BY <1>1, <1>2, <1>3 DEF ResolveAssignment
<1>5. field \in FieldsOf(type) /\ field.inverse = None /\ field.name = a.field
    BY <1>1, <1>2, FieldIsDeclared
<1>6. IsMany(field) => a.op # ":="
  <2> SUFFICES ASSUME IsMany(field), a.op = ":=" PROVE FALSE
      OBVIOUS
  <2>1. AssignedValue(field, a, select) = MultiLinkValue(field, a, select)
    BY DEF AssignedValue
  <2>2. QED
    BY <1>4, <2>1, RejectedIsNot DEF MultiLinkValue
<1>7. ~IsMany(field) => a.op = ":="
  <2> SUFFICES ASSUME ~IsMany(field), a.op # ":=" PROVE FALSE
      OBVIOUS
  <2>1. AssignedValue(field, a, select) = Rejected
    BY DEF AssignedValue
  <2>2. QED
    BY <1>4, <2>1, RejectedIsNot
<1>8. QED
    BY <1>4, <1>5, <1>6, <1>7 DEF AssignsField, HasColumn, HasRelationTable

LEMMA AcceptedAssignments ==
    ASSUME NEW q, q.type \in TypeNames(Catalog), AssignmentsAccepted(q, ResolveAssignments(q)),
           NEW i \in DOMAIN q.assignments
    PROVE  /\ DOMAIN ResolveAssignments(q) = DOMAIN q.assignments
           /\ Accepted(ResolveAssignments(q)[i].value)
           /\ AssignsField(q.type, q.assignments[i], ResolveAssignments(q)[i])
           /\ \E select : ResolveAssignments(q)[i].value
                            = AssignedValue(ResolveAssignments(q)[i].field, q.assignments[i], select)
<1>1. PICK r : r = ResolveAssignments(q)[i]
    OBVIOUS
<1>2. /\ DOMAIN ResolveAssignments(q) = DOMAIN q.assignments
      /\ r = ResolveAssignment(q.type, q.assignments[i])
    BY <1>1 DEF ResolveAssignments
<1>3. Accepted(r) /\ Accepted(r.value)
    BY <1>1, <1>2 DEF AssignmentsAccepted
<1>4. QED
    BY <1>1, <1>2, <1>3, AcceptedAssignment

-----------------------------------------------------------------------------
\* What the planner makes of it

\* A value v is written as w.
WritesValue(v, w) ==
    \/ v.tag = "null" /\ w = [tag |-> "bind", value |-> None]
    \/ v.tag = "literal" /\ w = [tag |-> "bind", value |-> v.value]
    \/ v.tag = "select" /\ w.tag = "select"

\* Assignment a is planned as w: its value goes to the column of its field.
WritesField(type, a, w) ==
    \E f \in FieldsOf(type) :
        HasColumn(f) /\ f.name = a.field /\ w.column = StoredColumnName(f) /\ WritesValue(a.value, w.value)

\* The assignments of query q are planned one by one.
Writes(q, plan) ==
    /\ plan.table = TableName(q.type)
    /\ DOMAIN plan.assignments = DOMAIN q.assignments
    /\ \A i, j \in DOMAIN q.assignments : q.assignments[i].field = q.assignments[j].field => i = j
    /\ \A i \in DOMAIN q.assignments : WritesField(q.type, q.assignments[i], plan.assignments[i])

\* The assignment of query q adds to or removes from a multi link.
Relinks(q, ir, plan) ==
    /\ q.assignments[1].op # ":=" /\ plan.add = (q.assignments[1].op = "+=")
    /\ \E f \in FieldsOf(q.type) :
          /\ HasRelationTable(f) /\ f.name = q.assignments[1].field
          /\ plan.table = RelationTableName(q.type, f.name)
          /\ ir.assignments[1].value.select.type = f.type

\* The statement a query is planned as.
PlannedFor(q, ir, plan) ==
    \/ q.tag = "insert" /\ plan.tag = "insert" /\ Writes(q, plan)
    \/ q.tag = "update" /\ plan.tag = "update" /\ q.assignments[1].op = ":=" /\ Writes(q, plan)
    \/ q.tag = "update" /\ plan.tag = "link_set" /\ Relinks(q, ir, plan)
    \/ q.tag = "delete" /\ plan.tag = "delete" /\ plan.table = TableName(q.type)

LEMMA PlannedValue ==
    ASSUME NEW type \in TypeNames(Catalog), NEW a, a.op = ":=", a.value.tag \in {"null", "literal", "select"},
           NEW r, AssignsField(type, a, r), NEW select, r.value = AssignedValue(r.field, a, select),
           Accepted(r.value)
    PROVE  WritesField(type, a, PlanAssignment(r))
<1>1. PICK w : w = PlanAssignment(r)
    OBVIOUS
<1>2. w.column = StoredColumnName(r.field)
    BY <1>1 DEF PlanAssignment
<1>3. HasColumn(r.field) /\ ~IsMany(r.field) /\ r.field \in FieldsOf(type) /\ r.field.name = a.field
    BY DEF AssignsField, HasColumn
<1>4. WritesValue(a.value, w.value)
  <2>1. CASE a.value.tag = "null"
    <3>1. r.value.tag = "null"
      BY <1>3, <2>1, RejectedIsNot DEF AssignedValue
    <3>2. QED
      BY <1>1, <2>1, <3>1 DEF PlanAssignment, WritesValue
  <2>2. CASE a.value.tag = "literal"
    <3>1. r.value = [tag |-> "literal", value |-> a.value.value]
      BY <1>3, <2>2, RejectedIsNot DEF AssignedValue, LiteralValue
    <3>2. QED
      BY <1>1, <2>2, <3>1 DEF PlanAssignment, WritesValue
  <2>3. CASE a.value.tag = "select"
    <3>1. r.value.tag = "link_select"
      BY <1>3, <2>3, RejectedIsNot DEF AssignedValue, SingleLinkValue
    <3>2. w.value.tag = "select"
      BY <1>1, <3>1 DEF PlanAssignment
    <3>3. QED
      BY <2>3, <3>2 DEF WritesValue
  <2>4. QED
    BY <2>1, <2>2, <2>3
<1>5. QED
    BY <1>1, <1>2, <1>3, <1>4 DEF WritesField

\* What a parsed assignment can be.
ParsedValues(q) ==
    \A i \in DOMAIN q.assignments : q.assignments[i].value.tag \in {"null", "literal", "select"}

LEMMA PlannedAssignments ==
    ASSUME NEW q, q.type \in TypeNames(Catalog), ParsedValues(q),
           AssignmentsAccepted(q, ResolveAssignments(q)),
           \A i \in DOMAIN q.assignments : q.assignments[i].op = ":=",
           NEW plan, plan.table = TableName(q.type),
           plan.assignments
              = [i \in DOMAIN ResolveAssignments(q) |-> PlanAssignment(ResolveAssignments(q)[i])]
    PROVE  Writes(q, plan)
<1>1. PICK resolved : resolved = ResolveAssignments(q)
    OBVIOUS
<1>2. DOMAIN resolved = DOMAIN q.assignments
    BY <1>1 DEF ResolveAssignments
<1>3. ASSUME NEW i \in DOMAIN q.assignments
      PROVE  WritesField(q.type, q.assignments[i], plan.assignments[i])
  <2>1. plan.assignments[i] = PlanAssignment(resolved[i])
    BY <1>1, <1>2
  <2>2. AssignsField(q.type, q.assignments[i], resolved[i]) /\ Accepted(resolved[i].value)
    BY <1>1, AcceptedAssignments
  <2>3. PICK select : resolved[i].value = AssignedValue(resolved[i].field, q.assignments[i], select)
    BY <1>1, AcceptedAssignments
  <2>4. q.assignments[i].op = ":=" /\ q.assignments[i].value.tag \in {"null", "literal", "select"}
    BY DEF ParsedValues
  <2>5. WritesField(q.type, q.assignments[i], PlanAssignment(resolved[i]))
    BY <2>2, <2>3, <2>4, PlannedValue
  <2>6. QED
    BY <2>1, <2>5
<1>4. \A i, j \in DOMAIN q.assignments : q.assignments[i].field = q.assignments[j].field => i = j
    BY DEF AssignmentsAccepted
<1>5. QED
    BY <1>1, <1>2, <1>3, <1>4 DEF Writes

LEMMA InsertPlanned ==
    ASSUME NEW q, q.tag = "insert", ParsedValues(q), NEW ir, ir = ResolveMutation(q), Accepted(ir)
    PROVE  q.type \in TypeNames(Catalog) /\ PlannedFor(q, ir, PlanMutation(ir))
<1>1. q.type \in TypeNames(Catalog)
    BY RejectedIsNot DEF ResolveMutation
<1>2. PICK resolved : resolved = ResolveAssignments(q)
    OBVIOUS
<1>3. PICK insert : insert = [tag |-> "insert", type |-> q.type, assignments |-> resolved]
    OBVIOUS
<1>4. ir = AcceptedInsert(q, insert)
    BY <1>1, <1>2, <1>3 DEF ResolveMutation
<1>5. /\ ir = insert /\ AssignmentsAccepted(q, resolved)
      /\ \A i \in DOMAIN q.assignments : q.assignments[i].op = ":="
    BY <1>3, <1>4, RejectedIsNot DEF AcceptedInsert
<1>6. PICK plan : plan = PlanInsert(ir)
    OBVIOUS
<1>7. /\ plan.tag = "insert" /\ plan.table = TableName(q.type)
      /\ plan.assignments = [i \in DOMAIN resolved |-> PlanAssignment(resolved[i])]
    BY <1>3, <1>5, <1>6 DEF PlanInsert
<1>8. Writes(q, plan)
    BY <1>1, <1>2, <1>5, <1>7, PlannedAssignments
<1>9. PlanMutation(ir) = plan
    BY <1>3, <1>5, <1>6 DEF PlanMutation
<1>10. QED
    BY <1>1, <1>7, <1>8, <1>9 DEF PlannedFor

LEMMA DeletePlanned ==
    ASSUME NEW q, q.tag = "delete", NEW ir, ir = ResolveMutation(q), Accepted(ir)
    PROVE  q.type \in TypeNames(Catalog) /\ PlannedFor(q, ir, PlanMutation(ir))
<1>1. q.type \in TypeNames(Catalog)
    BY RejectedIsNot DEF ResolveMutation
<1>2. PICK delete : delete = [tag |-> "delete", type |-> q.type, filter |-> FilterResolution(q.type, q.filter)]
    OBVIOUS
<1>3. ir = AcceptedDelete(delete)
    BY <1>1, <1>2 DEF ResolveMutation
<1>4. ir = delete
    BY <1>3, RejectedIsNot DEF AcceptedDelete
<1>5. PlanMutation(ir) = PlanDelete(ir)
    BY <1>2, <1>4 DEF PlanMutation
<1>6. PlanDelete(ir).tag = "delete" /\ PlanDelete(ir).table = TableName(q.type)
    BY <1>2, <1>4 DEF PlanDelete
<1>7. QED
    BY <1>1, <1>5, <1>6 DEF PlannedFor

\* An accepted assignment to a multi link has a select of the objects it leads to.
LEMMA RelinkedSelect ==
    ASSUME NEW type \in TypeNames(Catalog), NEW a, a.op # ":=", NEW r, AssignsField(type, a, r),
           NEW select, r.value = AssignedValue(r.field, a, select), Accepted(r.value)
    PROVE  HasRelationTable(r.field) /\ r.value.select.type = r.field.type
<1>1. HasRelationTable(r.field) /\ IsMany(r.field)
    BY DEF AssignsField, HasRelationTable
<1>2. r.value = MultiLinkValue(r.field, a, select)
    BY <1>1 DEF AssignedValue
<1>3. r.value.select = select /\ SelectsTargets(r.field, select)
    BY <1>2, RejectedIsNot DEF MultiLinkValue
<1>4. QED
    BY <1>1, <1>3 DEF SelectsTargets

LEMMA UpdatePlanned ==
    ASSUME NEW q, q.tag = "update", IsList(q.assignments), ParsedValues(q),
           NEW ir, ir = ResolveMutation(q), Accepted(ir)
    PROVE  q.type \in TypeNames(Catalog) /\ PlannedFor(q, ir, PlanMutation(ir))
<1>1. q.type \in TypeNames(Catalog)
    BY RejectedIsNot DEF ResolveMutation
<1>2. PICK resolved : resolved = ResolveAssignments(q)
    OBVIOUS
<1>3. PICK update : update = [tag |-> "update", type |-> q.type,
                              filter |-> FilterResolution(q.type, q.filter), assignments |-> resolved]
    OBVIOUS
<1>4. ir = AcceptedUpdate(q, update)
    BY <1>1, <1>2, <1>3 DEF ResolveMutation
<1>5. /\ ir = update /\ AssignmentsAccepted(q, resolved) /\ q.assignments # <<>>
      /\ Len(q.assignments) = 1 \/ \A i \in DOMAIN q.assignments : q.assignments[i].op = ":="
    BY <1>3, <1>4, RejectedIsNot DEF AcceptedUpdate
<1>6. Len(q.assignments) \in Nat /\ DOMAIN q.assignments = 1..Len(q.assignments) /\ 1 \in DOMAIN q.assignments
  <2>1. Len(q.assignments) \in Nat /\ DOMAIN q.assignments = 1..Len(q.assignments)
    BY ListLength
  <2>2. Len(q.assignments) # 0
    BY <1>5 DEF IsList
  <2>3. QED
    BY <2>1, <2>2
<1>7. PICK first : first = resolved[1]
    OBVIOUS
<1>8. PICK a : a = q.assignments[1]
    OBVIOUS
<1>9. ir.tag = "update" /\ ir.type = q.type /\ ir.assignments = resolved
    BY <1>3, <1>5
<1>10. PICK plan : plan = PlanUpdate(ir)
    OBVIOUS
<1>11. PlanMutation(ir) = plan
    BY <1>9, <1>10 DEF PlanMutation
<1>12. /\ AssignsField(q.type, a, first) /\ Accepted(first.value)
       /\ \E select : first.value = AssignedValue(first.field, a, select)
    BY <1>1, <1>2, <1>5, <1>6, <1>7, <1>8, AcceptedAssignments
<1>13. /\ first.op = a.op /\ first.field.name = a.field /\ first.field \in FieldsOf(q.type)
       /\ a.op = ":=" => HasColumn(first.field)
    BY <1>12 DEF AssignsField
<1>14. CASE a.op # ":="
  <2>1. /\ plan.tag = "link_set" /\ plan.table = RelationTableName(q.type, first.field.name)
        /\ plan.add = (a.op = "+=")
    BY <1>7, <1>9, <1>10, <1>13, <1>14 DEF PlanUpdate
  <2>2. HasRelationTable(first.field) /\ first.value.select.type = first.field.type
    BY <1>1, <1>12, <1>14, RelinkedSelect
  <2>3. ir.assignments[1] = first
    BY <1>7, <1>9
  <2>4. Relinks(q, ir, plan)
    BY <1>8, <1>13, <1>14, <2>1, <2>2, <2>3 DEF Relinks
  <2>5. QED
    BY <1>1, <1>11, <2>1, <2>4 DEF PlannedFor
<1>15. CASE a.op = ":="
  <2>1. \A i \in DOMAIN q.assignments : q.assignments[i].op = ":="
    BY <1>5, <1>6, <1>8, <1>15
  <2>2. /\ plan.tag = "update" /\ plan.table = TableName(q.type)
        /\ plan.assignments = [i \in DOMAIN resolved |-> PlanAssignment(resolved[i])]
    BY <1>7, <1>9, <1>10, <1>13, <1>15 DEF PlanUpdate
  <2>3. Writes(q, plan)
    BY <1>1, <1>2, <1>5, <2>1, <2>2, PlannedAssignments
  <2>4. QED
    BY <1>1, <1>8, <1>11, <1>15, <2>2, <2>3 DEF PlannedFor
<1>16. QED
    BY <1>14, <1>15

\* Every statement that is executed is one of these.
LEMMA ChangesPlanned ==
    ASSUME NEW i \in DOMAIN Changes
    PROVE  /\ i \in DOMAIN Mutations /\ Changes[i].query = Mutations[i]
           /\ IsList(Changes[i].query.assignments)
           /\ Changes[i].query.type \in TypeNames(Catalog)
           /\ PlannedFor(Changes[i].query, Changes[i].ir, Changes[i].plan)
<1>1. PICK q : q = Mutations[i]
    OBVIOUS
<1>2. PICK ir : ir = ResolveMutation(q)
    OBVIOUS
<1>3. /\ i \in DOMAIN Mutations /\ Accepted(Compiled[i].ir) /\ Changes[i] = Compiled[i]
    BY DEF Changes, AcceptedOf, Compiled
<1>4. Compiled[i].query = q /\ Compiled[i].ir = ir /\ Compiled[i].plan = PlanMutation(ir)
    BY <1>1, <1>2, <1>3 DEF Compiled, PlannedMutation
<1>5. /\ q.tag \in {"insert", "update", "delete"} /\ q.assignments \in Seq(ToSet(q.assignments))
      /\ \A a \in ToSet(q.assignments) : a.value.tag \in {"null", "literal", "select"}
    BY <1>1, <1>3, MutationsAssumption DEF IsParsedMutation
<1>6. IsList(q.assignments) /\ ParsedValues(q)
    BY <1>5, ListOfSet DEF ParsedValues, ToSet
<1>7. Accepted(ir)
    BY <1>3, <1>4
<1>8. q.type \in TypeNames(Catalog) /\ PlannedFor(q, ir, PlanMutation(ir))
  <2>1. CASE q.tag = "insert"
    BY <1>2, <1>6, <1>7, <2>1, InsertPlanned
  <2>2. CASE q.tag = "update"
    BY <1>2, <1>6, <1>7, <2>2, UpdatePlanned
  <2>3. CASE q.tag = "delete"
    BY <1>2, <1>7, <2>3, DeletePlanned
  <2>4. QED
    BY <1>5, <2>1, <2>2, <2>3
<1>9. QED
    BY <1>1, <1>3, <1>4, <1>6, <1>8

\* An insert or update writes columns of its table, and not the id.
WritesColumns(plan) ==
    \A i \in DOMAIN plan.assignments : plan.assignments[i].column \in ColumnNames(plan.table) \ {"id"}

LEMMA ColumnsWritten ==
    ASSUME NEW q, q.type \in TypeNames(Catalog), NEW plan, Writes(q, plan)
    PROVE  plan.table = TableName(q.type) /\ WritesColumns(plan)
<1>1. ASSUME NEW i \in DOMAIN plan.assignments
      PROVE  plan.assignments[i].column \in ColumnNames(TableName(q.type)) \ {"id"}
  <2>1. PICK f \in FieldsOf(q.type) : HasColumn(f) /\ plan.assignments[i].column = StoredColumnName(f)
    BY DEF Writes, WritesField
  <2>2. QED
    BY <2>1, TypeColumnNames
<1>2. QED
    BY <1>1 DEF Writes, WritesColumns

-----------------------------------------------------------------------------
\* Writing the rows of one table

IsRow(t, row) == DOMAIN row = ColumnNames(t)
HasIdOf(type, row) == row.id \in ToSet(IdsOf[type])

\* The type invariant of any rows d.
Typed(d) ==
    /\ DOMAIN d = DOMAIN ColumnsOf
    /\ \A t \in DOMAIN d : \A row \in d[t] : IsRow(t, row)
    /\ \A type \in TypeNames(Catalog) : \A row \in d[TableName(type)] : HasIdOf(type, row)
    /\ ConstraintsHold(d)

LEMMA TypedIs == TypeOK <=> Typed(db)
BY DEF TypeOK, Typed, IsRow, HasIdOf

LEMMA TypedNext == TypeOK' <=> Typed(db')
BY DEF TypeOK, Typed, IsRow, HasIdOf, ConstraintsHold

LEMMA EmptyTyped == Typed(EmptyTables)
<1>1. /\ DOMAIN EmptyTables = DOMAIN ColumnsOf
      /\ \A t \in DOMAIN ColumnsOf : EmptyTables[t] = {}
    BY DEF EmptyTables
<1>2. \A type \in TypeNames(Catalog) : TableName(type) \in DOMAIN ColumnsOf
    BY ObjectTablePlan
<1>3. ConstraintsHold(EmptyTables)
    BY <1>1 DEF ConstraintsHold
<1>4. QED
    BY <1>1, <1>2, <1>3 DEF Typed

\* Rows of the right form in the table of a type.
LEMMA TypeRowsTyped ==
    ASSUME NEW d, Typed(d), NEW type \in TypeNames(Catalog), NEW rows,
           \A row \in rows : IsRow(TableName(type), row) /\ HasIdOf(type, row),
           NEW changed, changed = [d EXCEPT ![TableName(type)] = rows]
    PROVE  Typed(Checked(d, changed))
<1>1. CASE ~ConstraintsHold(changed)
    BY <1>1 DEF Checked
<1>2. CASE ConstraintsHold(changed)
  <2>1. DOMAIN changed = DOMAIN ColumnsOf
    BY DEF Typed
  <2>2. \A t \in DOMAIN d : changed[t] = IF t = TableName(type) THEN rows ELSE d[t]
    OBVIOUS
  <2>3. \A t \in DOMAIN changed : \A row \in changed[t] : IsRow(t, row)
    BY <2>1, <2>2 DEF Typed
  <2>4. ASSUME NEW other \in TypeNames(Catalog), NEW row \in changed[TableName(other)]
        PROVE  HasIdOf(other, row)
    <3>1. TableName(other) \in DOMAIN d
      BY ObjectTablePlan DEF Typed
    <3>2. CASE other = type
      BY <2>2, <2>4, <3>1, <3>2
    <3>3. CASE other # type
      <4>1. TableName(other) # TableName(type)
        BY <3>3, TablesAssumption
      <4>2. QED
        BY <2>2, <2>4, <3>1, <4>1 DEF Typed
    <3>4. QED
      BY <3>2, <3>3
  <2>5. QED
    BY <1>2, <2>1, <2>3, <2>4 DEF Typed, Checked
<1>3. QED
    BY <1>1, <1>2

\* Rows of the right form in a relation table.
LEMMA RelationRowsTyped ==
    ASSUME NEW d, Typed(d), NEW t \in DOMAIN ColumnsOf, ~IsObjectTable(t), NEW rows,
           \A row \in rows : IsRow(t, row),
           NEW changed, changed = [d EXCEPT ![t] = rows]
    PROVE  Typed(Checked(d, changed))
<1>1. CASE ~ConstraintsHold(changed)
    BY <1>1 DEF Checked
<1>2. CASE ConstraintsHold(changed)
  <2>1. DOMAIN changed = DOMAIN ColumnsOf
    BY DEF Typed
  <2>2. \A u \in DOMAIN d : changed[u] = IF u = t THEN rows ELSE d[u]
    OBVIOUS
  <2>3. \A u \in DOMAIN changed : \A row \in changed[u] : IsRow(u, row)
    BY <2>1, <2>2 DEF Typed
  <2>4. ASSUME NEW type \in TypeNames(Catalog), NEW row \in changed[TableName(type)]
        PROVE  HasIdOf(type, row)
    <3>1. TableName(type) \in DOMAIN d /\ TableName(type) # t
      BY ObjectTablePlan DEF Typed, IsObjectTable
    <3>2. QED
      BY <2>2, <2>4, <3>1 DEF Typed
  <2>5. QED
    BY <1>2, <2>1, <2>3, <2>4 DEF Typed, Checked
<1>3. QED
    BY <1>1, <1>2

LEMMA SetColumnsWritten ==
    ASSUME NEW stmt, WritesColumns(stmt)
    PROVE  DOMAIN SetColumns(stmt.assignments) \subseteq ColumnNames(stmt.table) \ {"id"}
BY DEF WritesColumns, SetColumns

-----------------------------------------------------------------------------
\* The statements

LEMMA InsertTyped ==
    ASSUME Typed(db), NEW type \in TypeNames(Catalog), NEW stmt,
           stmt.table = TableName(type), WritesColumns(stmt), NEW id \in ToSet(IdsOf[type])
    PROVE  Typed(InsertRow(stmt, id))
<1>1. PICK set : set = SetColumns(stmt.assignments)
    OBVIOUS
<1>2. PICK nulls : nulls = [name \in ColumnNames(stmt.table) |-> None]
    OBVIOUS
<1>3. PICK given : given = [id |-> id]
    OBVIOUS
<1>4. PICK row : row = Assigning(given, Assigning(set, nulls))
    OBVIOUS
<1>5. DOMAIN given = {"id"} /\ given["id"] = id
    BY <1>3
<1>6. DOMAIN row = DOMAIN given \cup (DOMAIN set \cup DOMAIN nulls)
    BY <1>4 DEF Assigning
<1>7. DOMAIN set \subseteq ColumnNames(stmt.table) /\ DOMAIN nulls = ColumnNames(stmt.table)
    BY <1>1, <1>2, SetColumnsWritten
<1>8. IsRow(TableName(type), row)
    BY <1>5, <1>6, <1>7, TypeColumnNames DEF IsRow
<1>9. row["id"] = id
    BY <1>4, <1>5 DEF Assigning
<1>10. HasIdOf(type, row)
    BY <1>9 DEF HasIdOf
<1>11. PICK rows : rows = db[TableName(type)] \cup {row}
    OBVIOUS
<1>12. \A r \in rows : IsRow(TableName(type), r) /\ HasIdOf(type, r)
  <2>1. TableName(type) \in DOMAIN db
    BY ObjectTablePlan DEF Typed
  <2>2. QED
    BY <1>8, <1>10, <1>11, <2>1 DEF Typed
<1>13. InsertRow(stmt, id) = Checked(db, [db EXCEPT ![TableName(type)] = rows])
    BY <1>1, <1>2, <1>3, <1>4, <1>11 DEF InsertRow
<1>14. QED
    BY <1>12, <1>13, TypeRowsTyped

LEMMA UpdateTyped ==
    ASSUME Typed(db), NEW type \in TypeNames(Catalog), NEW stmt,
           stmt.table = TableName(type), WritesColumns(stmt)
    PROVE  Typed(UpdateRows(stmt))
<1>1. PICK set : set = SetColumns(stmt.assignments)
    OBVIOUS
<1>2. PICK found : found = FilteredRows(stmt)
    OBVIOUS
<1>3. PICK rows : rows = Rewritten(db[TableName(type)], found, set)
    OBVIOUS
<1>4. UpdateRows(stmt) = Checked(db, [db EXCEPT ![TableName(type)] = rows])
    BY <1>1, <1>2, <1>3 DEF UpdateRows
<1>5. found \subseteq db[TableName(type)]
    BY <1>2 DEF FilteredRows
<1>6. DOMAIN set \subseteq ColumnNames(TableName(type)) \ {"id"}
    BY <1>1, SetColumnsWritten
<1>7. TableName(type) \in DOMAIN db
    BY ObjectTablePlan DEF Typed
<1>8. \A row \in db[TableName(type)] : IsRow(TableName(type), row) /\ HasIdOf(type, row)
    BY <1>7 DEF Typed
<1>9. ASSUME NEW row \in found
      PROVE  IsRow(TableName(type), Assigning(set, row)) /\ HasIdOf(type, Assigning(set, row))
  <2>1. DOMAIN row = ColumnNames(TableName(type)) /\ row.id \in ToSet(IdsOf[type])
    BY <1>5, <1>8 DEF IsRow, HasIdOf
  <2>2. DOMAIN Assigning(set, row) = ColumnNames(TableName(type))
    BY <1>6, <2>1 DEF Assigning
  <2>3. "id" \in DOMAIN row \ DOMAIN set
    BY <1>6, <2>1, TypeColumnNames
  <2>4. Assigning(set, row)["id"] = row["id"]
    BY <2>3 DEF Assigning
  <2>5. QED
    BY <2>1, <2>2, <2>4 DEF IsRow, HasIdOf
<1>10. \A r \in rows : IsRow(TableName(type), r) /\ HasIdOf(type, r)
    BY <1>3, <1>8, <1>9 DEF Rewritten
<1>11. QED
    BY <1>4, <1>10, TypeRowsTyped

LEMMA LinkTyped ==
    ASSUME Typed(db), NEW type \in TypeNames(Catalog), NEW f \in FieldsOf(type), HasRelationTable(f),
           NEW stmt, stmt.table = RelationTableName(type, f.name)
    PROVE  Typed(LinkRows(stmt))
<1>1. PICK t : t = RelationTableName(type, f.name)
    OBVIOUS
<1>2. t \in DOMAIN ColumnsOf /\ ~IsObjectTable(t) /\ ColumnNames(t) = {"source_id", "target_id", "position"}
    BY <1>1, RelationTablePlan, TablesApart, RelationColumnNames
<1>3. PICK linked : linked = Linked(stmt)
    OBVIOUS
<1>4. \A row \in linked : IsRow(t, row)
    BY <1>2, <1>3 DEF Linked, IsRow
<1>5. PICK rows : rows = IF stmt.add THEN db[t] \cup linked ELSE {row \in db[t] : ~Relates(stmt, row)}
    OBVIOUS
<1>6. \A row \in db[t] : IsRow(t, row)
    BY <1>2 DEF Typed
<1>7. \A row \in rows : IsRow(t, row)
    BY <1>4, <1>5, <1>6
<1>8. LinkRows(stmt) = Checked(db, [db EXCEPT ![t] = rows])
    BY <1>1, <1>3, <1>5 DEF LinkRows
<1>9. QED
    BY <1>2, <1>7, <1>8, RelationRowsTyped

-----------------------------------------------------------------------------
\* Deletes

\* No two rows of the tables of types have one id.
LEMMA IdsDetermine ==
    ASSUME NEW d, Typed(d), NEW s \in TypeNames(Catalog), NEW t \in TypeNames(Catalog),
           NEW row \in d[TableName(s)], NEW other \in d[TableName(t)], row.id = other.id
    PROVE  s = t /\ row = other
<1>1. row.id \in ToSet(IdsOf[s]) /\ other.id \in ToSet(IdsOf[t])
    BY DEF Typed, HasIdOf
<1>2. s = t /\ row.id # None
    BY <1>1, IdsAssumption
<1>3. TableName(s) \in DOMAIN d /\ IdColumn \in ColumnsOf[TableName(s)]
    BY ObjectTablePlan DEF Typed, ObjectColumns
<1>4. IdColumn.name = "id" /\ IdColumn.unique
    BY DEF IdColumn, Column
<1>5. \A x \in d[TableName(s)] : x[IdColumn.name] = row[IdColumn.name] => x = row
    BY <1>2, <1>3, <1>4 DEF Typed, ConstraintsHold
<1>6. QED
    BY <1>2, <1>4, <1>5

\* If an order of deleting passes every row, whatever refers to a deleted row from another
\* row is deleted too.
LEMMA ReferrersDeleted ==
    ASSUME NEW rows, NEW others,
           ~Stuck(rows, others),
           NEW target \in rows, NEW row \in others[target]
    PROVE  row \in rows
<1>1. {target} \in (SUBSET rows) \ {{}}
    OBVIOUS
<1>2. row \in rows \ {target}
    BY <1>1 DEF Stuck
<1>3. QED
    BY <1>2

\* What a delete leaves of a table.
LEMMA WithoutRowsKeeps ==
    ASSUME NEW d, NEW table, NEW rows, NEW t \in DOMAIN d
    PROVE  /\ DOMAIN WithoutRows(d, table, rows) = DOMAIN d
           /\ WithoutRows(d, table, rows)[t] \subseteq d[t]
           /\ t = table => WithoutRows(d, table, rows)[t] = d[t] \ rows
           /\ t # table /\ IsObjectTable(t) => WithoutRows(d, table, rows)[t] = d[t]
           /\ t # table /\ ~IsObjectTable(t) =>
                 \A row \in WithoutRows(d, table, rows)[t] : \A c \in ColumnsOf[t] :
                    c.references = table => \A r \in rows : row[c.name] # r.id
BY DEF WithoutRows

\* The rows a delete leaves refer to rows it leaves.
LEMMA ReferencesKept ==
    ASSUME NEW d, Typed(d), NEW type \in TypeNames(Catalog), NEW table, table = TableName(type),
           NEW rows \in SUBSET d[table],
           NEW others, others = [r \in rows |-> RestrictingRows(d, table, r.id)],
           ~Stuck(rows, others),
           NEW left, left = WithoutRows(d, table, rows),
           NEW t \in DOMAIN d, NEW c \in ColumnsOf[t], NEW row \in left[t],
           c.references # None, row[c.name] # None
    PROVE  \E target \in left[c.references] : target.id = row[c.name]
<1>1. DOMAIN d = DOMAIN ColumnsOf /\ ConstraintsHold(d)
    BY DEF Typed
<1>2. PICK referenced \in TypeNames(Catalog) : c.references = TableName(referenced)
    BY <1>1, ReferencedTables
<1>3. c.references \in DOMAIN d /\ IsObjectTable(c.references) /\ table \in DOMAIN d /\ IsObjectTable(table)
    BY <1>1, <1>2, ObjectTablePlan DEF IsObjectTable
<1>4. row \in d[t]
    BY WithoutRowsKeeps
<1>5. PICK target \in d[c.references] : target.id = row[c.name]
    BY <1>1, <1>4 DEF ConstraintsHold
<1>6. CASE c.references # table
    BY <1>3, <1>5, <1>6, WithoutRowsKeeps
<1>7. CASE c.references = table /\ target \notin rows
    BY <1>3, <1>5, <1>7, WithoutRowsKeeps
<1>8. ASSUME c.references = table, target \in rows PROVE FALSE
  <2>1. IsObjectTable(t)
    BY <1>3, <1>5, <1>8, WithoutRowsKeeps
  <2>2. PICK s \in TypeNames(Catalog) : t = TableName(s)
    BY <2>1 DEF IsObjectTable
  <2>3. row \notin rows
    <3>1. CASE t = table
      BY <3>1, WithoutRowsKeeps
    <3>2. CASE t # table
      <4> SUFFICES ASSUME row \in rows PROVE FALSE
          OBVIOUS
      <4>1. row \in d[TableName(type)] /\ row \in d[TableName(s)]
        BY <1>4, <2>2
      <4>2. s = type
        BY <4>1, IdsDetermine
      <4>3. QED
        BY <2>2, <3>2, <4>2
    <3>3. QED
      BY <3>1, <3>2
  <2>4. row.id # target.id
    <3> SUFFICES ASSUME row.id = target.id PROVE FALSE
        OBVIOUS
    <3>1. row \in d[TableName(s)] /\ target \in d[TableName(type)]
      BY <1>4, <1>5, <1>8, <2>2
    <3>2. row = target
      BY <3>1, IdsDetermine
    <3>3. QED
      BY <1>8, <2>3, <3>2
  <2>5. row \in RestrictingRows(d, table, target.id)
    BY <1>4, <1>5, <1>8, <2>1, <2>4 DEF RestrictingRows
  <2>6. row \in others[target]
    BY <1>8, <2>5
  <2>7. row \in rows
    BY <1>8, <2>6, ReferrersDeleted
  <2>8. QED
    BY <2>3, <2>7
<1>9. QED
    BY <1>6, <1>7, <1>8

LEMMA LeftTyped ==
    ASSUME NEW d, Typed(d), NEW type \in TypeNames(Catalog), NEW table, table = TableName(type),
           NEW rows \in SUBSET d[table],
           NEW others, others = [r \in rows |-> RestrictingRows(d, table, r.id)],
           ~Stuck(rows, others)
    PROVE  Typed(WithoutRows(d, table, rows))
<1>1. PICK left : left = WithoutRows(d, table, rows)
    OBVIOUS
<1>2. DOMAIN left = DOMAIN d
    BY <1>1 DEF WithoutRows
<1>3. \A t \in DOMAIN d : left[t] \subseteq d[t]
    BY <1>1, WithoutRowsKeeps
<1>4. \A t \in DOMAIN left : \A row \in left[t] : IsRow(t, row)
    BY <1>2, <1>3 DEF Typed
<1>5. \A other \in TypeNames(Catalog) : \A row \in left[TableName(other)] : HasIdOf(other, row)
  <2>1. \A other \in TypeNames(Catalog) : TableName(other) \in DOMAIN d
    BY ObjectTablePlan DEF Typed
  <2>2. QED
    BY <1>3, <2>1 DEF Typed
<1>6. ASSUME NEW t \in DOMAIN left, NEW c \in ColumnsOf[t], NEW row \in left[t]
      PROVE  /\ row[c.name] = None => c.nullable
             /\ c.unique /\ row[c.name] # None =>
                   \A other \in left[t] : other[c.name] = row[c.name] => other = row
             /\ c.references # None /\ row[c.name] # None =>
                   \E target \in left[c.references] : target.id = row[c.name]
  <2>1. t \in DOMAIN d /\ row \in d[t] /\ left[t] \subseteq d[t] /\ ConstraintsHold(d)
    BY <1>2, <1>3 DEF Typed
  <2>2. /\ row[c.name] = None => c.nullable
        /\ c.unique /\ row[c.name] # None =>
              \A other \in d[t] : other[c.name] = row[c.name] => other = row
    BY <2>1 DEF ConstraintsHold
  <2>3. c.references # None /\ row[c.name] # None =>
            \E target \in left[c.references] : target.id = row[c.name]
    BY <1>1, <2>1, ReferencesKept
  <2>4. QED
    BY <2>1, <2>2, <2>3
<1>7. ConstraintsHold(left)
    BY <1>6 DEF ConstraintsHold
<1>8. Typed(left)
    BY <1>2, <1>4, <1>5, <1>7 DEF Typed
<1>9. QED
    BY <1>1, <1>8

LEMMA DeleteTyped ==
    ASSUME NEW d, Typed(d), NEW type \in TypeNames(Catalog),
           NEW rows \in SUBSET d[TableName(type)],
           NEW after \in DeleteRows(d, TableName(type), rows)
    PROVE  Typed(after)
<1>1. PICK table : table = TableName(type)
    OBVIOUS
<1>2. PICK others : others = [r \in rows |-> RestrictingRows(d, table, r.id)]
    OBVIOUS
<1>3. after = d \/ (~Stuck(rows, others) /\ after = WithoutRows(d, table, rows))
    BY <1>1, <1>2 DEF DeleteRows, OutcomesOfDeleting
<1>4. ~Stuck(rows, others) => Typed(WithoutRows(d, table, rows))
    BY <1>1, <1>2, LeftTyped
<1>5. QED
    BY <1>3, <1>4

-----------------------------------------------------------------------------
\* Every statement keeps the type invariant, whether SQLite prepares it or not.

LEMMA OutcomesTyped ==
    ASSUME Typed(db), NEW c, c.query.type \in TypeNames(Catalog), PlannedFor(c.query, c.ir, c.plan),
           NEW after \in Outcomes(c)
    PROVE  Typed(after)
<1>1. CASE ~StatementPrepares(c.plan)
    BY <1>1 DEF Outcomes
<1>2. CASE StatementPrepares(c.plan)
  <2>1. after \in Executed(c)
    BY <1>2 DEF Outcomes
  <2>2. PICK type \in TypeNames(Catalog) : type = c.query.type
    OBVIOUS
  <2>3. CASE c.plan.tag = "insert"
    <3>1. PICK id \in NextIds(type) : after = InsertRow(c.plan, id)
      BY <2>1, <2>2, <2>3 DEF Executed
    <3>2. id \in ToSet(IdsOf[type])
      BY <3>1 DEF NextIds, FreshPlaces, ToSet
    <3>3. c.plan.table = TableName(type) /\ WritesColumns(c.plan)
      BY <2>2, <2>3, ColumnsWritten DEF PlannedFor
    <3>4. QED
      BY <3>1, <3>2, <3>3, InsertTyped
  <2>4. CASE c.plan.tag = "update"
    <3>1. after = UpdateRows(c.plan)
      BY <2>1, <2>4 DEF Executed
    <3>2. c.plan.table = TableName(type) /\ WritesColumns(c.plan)
      BY <2>2, <2>4, ColumnsWritten DEF PlannedFor
    <3>3. QED
      BY <3>1, <3>2, UpdateTyped
  <2>5. CASE c.plan.tag = "link_set"
    <3>1. after = LinkRows(c.plan)
      BY <2>1, <2>5 DEF Executed
    <3>2. PICK f \in FieldsOf(type) :
              HasRelationTable(f) /\ c.plan.table = RelationTableName(type, f.name)
      BY <2>2, <2>5 DEF PlannedFor, Relinks
    <3>3. QED
      BY <3>1, <3>2, LinkTyped
  <2>6. CASE c.plan.tag = "delete"
    <3>1. PICK rows : rows = FilteredRows(c.plan)
      OBVIOUS
    <3>2. c.plan.table = TableName(type)
      BY <2>2, <2>6 DEF PlannedFor
    <3>3. after \in DeleteRows(db, TableName(type), rows)
      BY <2>1, <2>6, <3>1, <3>2 DEF Executed
    <3>4. rows \subseteq db[TableName(type)]
      BY <3>1, <3>2 DEF FilteredRows
    <3>5. QED
      BY <3>3, <3>4, DeleteTyped
  <2>7. QED
    BY <2>3, <2>4, <2>5, <2>6 DEF PlannedFor
<1>3. QED
    BY <1>1, <1>2

\* No sequence of mutations, whatever their filters and selects find, leaves a row
\* with columns its table does not have, an object without an id of its type, or a
\* constraint broken: no required value is missing, no unique value is there twice,
\* and no link leads to an object that is gone.
THEOREM StatementsKeepTables == Spec => []TypeOK
<1>1. Init => TypeOK
    BY EmptyTyped, TypedIs DEF Init
<1>2. TypeOK /\ [Next]_db => TypeOK'
  <2> SUFFICES ASSUME TypeOK, [Next]_db PROVE TypeOK'
      OBVIOUS
  <2>1. Typed(db)
    BY TypedIs
  <2>2. CASE Next
    <3>1. PICK i \in DOMAIN Changes : Mutate(Changes[i])
      BY <2>2 DEF Next
    <3>2. db' \in Outcomes(Changes[i])
      BY <3>1 DEF Mutate, Insert, Update, LinkSet, Delete
    <3>3. Typed(db')
      BY <2>1, <3>2, ChangesPlanned, OutcomesTyped
    <3>4. QED
      BY <3>3, TypedNext
  <2>3. CASE UNCHANGED db
    BY <2>1, <2>3, TypedNext
  <2>4. QED
    BY <2>2, <2>3
<1>3. QED
    BY <1>1, <1>2, PTL DEF Spec

-----------------------------------------------------------------------------
\* The fields of the contract are those of the catalog.

StoredIn(type) == {f \in FieldsOf(type) : f.inverse = None}

\* What a field of a type can be.
FieldShape(f) ==
    /\ f.kind = "link" => f.type \in TypeNames(Catalog)
    /\ f.unique => ~IsMany(f)

LEMMA FieldShapes ==
    ASSUME NEW type \in TypeNames(Catalog), NEW f \in FieldsOf(type)
    PROVE  FieldShape(f)
<1>1. PICK o \in ToSet(Catalog) : FindType(Catalog, type) = o
    BY TypeObject
<1>2. f \in ToSet(o.fields)
    BY <1>1 DEF FieldsOf
<1>3. ValidCatalog(Catalog)
    BY CatalogIs DEF TheCatalog
<1>4. QED
    BY <1>2, <1>3 DEF ValidCatalog, FieldShape, IsMany

\* The name of a declared field determines it, and is not the name of the id.
LEMMA DeclaredNames ==
    ASSUME NEW type \in TypeNames(Catalog), NEW f \in FieldsOf(type)
    PROVE  f.name # "id" /\ \A g \in FieldsOf(type) : g.name = f.name => g = f
<1>1. PICK o \in ToSet(Catalog) : FindType(Catalog, type) = o
    BY TypeObject
<1>2. FieldsOf(type) = ToSet(o.fields)
    BY <1>1 DEF FieldsOf
<1>3. ValidCatalog(Catalog)
    BY CatalogIs DEF TheCatalog
<1>4. DistinctNames(o.fields) /\ "id" \notin FieldNames(o)
    BY <1>3 DEF ValidCatalog
<1>5. QED
    BY <1>2, <1>4, NameDetermines DEF FieldNames

LEMMA TableField ==
    ASSUME NEW type \in TypeNames(Catalog), NEW f \in FieldsOf(type)
    PROVE  HasField(type, f.name) /\ FieldTable[type][f.name] = f
<1> DEFINE fields == {IdField} \cup FieldsOf(type)
<1>1. FieldTable[type] = ByName(fields) /\ type \in DOMAIN FieldTable
    BY DEF FieldTable, FieldsOf
<1>2. f.name \in {g.name : g \in fields}
    OBVIOUS
<1>3. HasField(type, f.name)
    BY <1>1, <1>2 DEF HasField, ByName
<1>4. FieldTable[type][f.name] \in FieldsOf(type) /\ FieldTable[type][f.name].name = f.name
    BY <1>3, DeclaredNames, FieldIsDeclared
<1>5. QED
    BY <1>3, <1>4, DeclaredNames

\* A field with a column is stored: inverse links have none.
LEMMA StoredHasColumn ==
    ASSUME NEW type \in TypeNames(Catalog), NEW f \in FieldsOf(type), HasColumn(f)
    PROVE  f \in StoredIn(type)
<1>1. PICK o \in ToSet(Catalog) : FindType(Catalog, type) = o
    BY TypeObject
<1>2. f \in ToSet(o.fields)
    BY <1>1 DEF FieldsOf
<1>3. f.kind = "link" => ValidInverse(Catalog, o, f)
    BY <1>2, CatalogIs DEF TheCatalog, ValidCatalog
<1>4. f.kind # "link" => f.inverse = None
  <2>1. Catalog \in Seq(DeclaredObject)
    BY CatalogAssumption DEF Catalogs
  <2>2. o \in DeclaredObject
    BY <2>1, ItemsInSet
  <2>3. o.fields \in Seq(DeclaredField)
    BY <2>2 DEF DeclaredObject
  <2>4. f \in DeclaredField
    BY <1>2, <2>3, ItemsInSet
  <2>5. QED
    BY <2>4 DEF DeclaredField
<1>5. QED
    BY <1>3, <1>4 DEF ValidInverse, HasColumn, IsMany, StoredIn

LEMMA ContractStoredFields ==
    ASSUME NEW type
    PROVE  Contract!StoredFields(type) = StoredIn(type)
BY DEF Contract!StoredFields, Contract!FindType, Contract!ToSet, StoredIn, FieldsOf, FindType, ToSet

LEMMA ContractFieldNamed ==
    ASSUME NEW type \in TypeNames(Catalog), NEW f \in FieldsOf(type)
    PROVE  Contract!FieldNamed(type, f.name) = f
<1>1. Contract!FieldNamed(type, f.name) = CHOOSE g \in FieldsOf(type) : g.name = f.name
    BY DEF Contract!FieldNamed, Contract!FindType, Contract!ToSet, FieldsOf, FindType, ToSet
<1>2. QED
    BY <1>1, DeclaredNames

LEMMA ContractManyLink == \A f : Contract!IsManyLink(f) <=> IsMany(f)
BY DEF Contract!IsManyLink, IsMany

-----------------------------------------------------------------------------
\* The graph of some rows

\* Rows of the right form, objects told apart by their ids.
Shaped(d) ==
    /\ DOMAIN d = DOMAIN ColumnsOf
    /\ \A t \in DOMAIN d : \A row \in d[t] : IsRow(t, row)
    /\ \A type \in TypeNames(Catalog) : \A row \in d[TableName(type)] :
          /\ HasIdOf(type, row)
          /\ \A other \in d[TableName(type)] : other.id = row.id => other = row

LEMMA TypedShaped ==
    ASSUME NEW d, Typed(d)
    PROVE  Shaped(d)
BY IdsDetermine DEF Typed, Shaped

LEMMA ShapedIds ==
    ASSUME NEW d, Shaped(d), NEW s \in TypeNames(Catalog), NEW t \in TypeNames(Catalog),
           NEW row \in d[TableName(s)], NEW other \in d[TableName(t)], row.id = other.id
    PROVE  s = t /\ row = other /\ row.id # None
<1>1. row.id \in ToSet(IdsOf[s]) /\ other.id \in ToSet(IdsOf[t])
    BY DEF Shaped, HasIdOf
<1>2. s = t /\ row.id # None
    BY <1>1, IdsAssumption
<1>3. QED
    BY <1>2 DEF Shaped

LEMMA ObjectRowsAre ==
    ASSUME NEW d, NEW p
    PROVE  p \in ObjectRows(d) <=>
              \E type \in TypeNames(Catalog) : \E row \in d[TableName(type)] : p = <<type, row>>
BY DEF ObjectRows

\* The objects of a graph are the rows of the tables of types.
LEMMA GraphRow ==
    ASSUME NEW d, NEW x \in DOMAIN GraphOf(d)
    PROVE  \E type \in TypeNames(Catalog) : \E row \in d[TableName(type)] : row.id = x
<1>1. DOMAIN GraphOf(d) = {p[2].id : p \in ObjectRows(d)}
    BY DEF GraphOf
<1>2. PICK p \in ObjectRows(d) : p[2].id = x
    BY <1>1
<1>3. PICK type \in TypeNames(Catalog) : \E row \in d[TableName(type)] : p = <<type, row>>
    BY <1>2, ObjectRowsAre
<1>4. QED
    BY <1>2, <1>3

LEMMA GraphAt ==
    ASSUME NEW d, Shaped(d), NEW type \in TypeNames(Catalog), NEW row \in d[TableName(type)]
    PROVE  row.id \in DOMAIN GraphOf(d) /\ GraphOf(d)[row.id] = ObjectOf(d, type, row)
<1>1. PICK stored : stored = ObjectRows(d)
    OBVIOUS
<1>2. PICK id : id = row.id
    OBVIOUS
<1>3. <<type, row>> \in stored /\ <<type, row>>[2].id = id
    BY <1>1, <1>2, ObjectRowsAre
<1>4. id \in {p[2].id : p \in stored}
    BY <1>3
<1>5. PICK p : p = CHOOSE q \in stored : q[2].id = id
    OBVIOUS
<1>6. p \in stored /\ p[2].id = id
    BY <1>3, <1>5
<1>7. PICK other \in TypeNames(Catalog) : \E r \in d[TableName(other)] : p = <<other, r>>
    BY <1>1, <1>6, ObjectRowsAre
<1>8. PICK r \in d[TableName(other)] : p = <<other, r>>
    BY <1>7
<1>9. other = type /\ r = row
    BY <1>2, <1>6, <1>8, ShapedIds
<1>10. GraphOf(d)[id] = ObjectOf(d, p[1], p[2])
    BY <1>1, <1>4, <1>5 DEF GraphOf
<1>11. id \in DOMAIN GraphOf(d)
    BY <1>1, <1>4 DEF GraphOf
<1>12. QED
    BY <1>2, <1>8, <1>9, <1>10, <1>11

\* An object of a graph: its type and the values of its stored fields.
LEMMA ObjectParts ==
    ASSUME NEW d, NEW type \in TypeNames(Catalog), NEW row
    PROVE  /\ ObjectOf(d, type, row).type = type
           /\ ObjectOf(d, type, row) = [type |-> type, fields |-> ObjectOf(d, type, row).fields]
           /\ DOMAIN ObjectOf(d, type, row).fields = {f.name : f \in StoredIn(type)}
           /\ \A f \in StoredIn(type) :
                 ObjectOf(d, type, row).fields[f.name] = StoredValue(d, type, row, f)
<1>1. StoredFieldNames(type) = {f.name : f \in StoredIn(type)}
    BY DEF StoredFieldNames, StoredIn, FieldsOf
<1>2. \A f \in StoredIn(type) : FieldTable[type][f.name] = f
    BY TableField DEF StoredIn
<1>3. QED
    BY <1>1, <1>2 DEF ObjectOf

\* Two objects with the same values are the same.
LEMMA SameObject ==
    ASSUME NEW d, NEW type \in TypeNames(Catalog), NEW row, NEW fields,
           fields = [name \in {f.name : f \in StoredIn(type)} |-> fields[name]],
           \A f \in StoredIn(type) : fields[f.name] = StoredValue(d, type, row, f)
    PROVE  ObjectOf(d, type, row) = [type |-> type, fields |-> fields]
<1>1. PICK object : object = ObjectOf(d, type, row)
    OBVIOUS
<1>2. PICK names : names = {f.name : f \in StoredIn(type)}
    OBVIOUS
<1>3. /\ object = [type |-> type, fields |-> object.fields]
      /\ DOMAIN object.fields = names
      /\ \A f \in StoredIn(type) : object.fields[f.name] = fields[f.name]
    BY <1>1, <1>2, ObjectParts
<1>4. object.fields = [name \in names |-> object.fields[name]]
    BY <1>1, <1>2, <1>3 DEF ObjectOf, StoredFieldNames, StoredIn, FieldsOf
<1>5. \A name \in names : object.fields[name] = fields[name]
    BY <1>2, <1>3
<1>6. object.fields = fields
    BY <1>2, <1>4, <1>5
<1>7. QED
    BY <1>1, <1>3, <1>6

LEMMA GraphType ==
    ASSUME NEW d, Shaped(d), NEW type \in TypeNames(Catalog), NEW row \in d[TableName(type)]
    PROVE  row.id \in DOMAIN GraphOf(d) /\ GraphOf(d)[row.id].type = type
<1>1. row.id \in DOMAIN GraphOf(d) /\ GraphOf(d)[row.id] = ObjectOf(d, type, row)
    BY GraphAt
<1>2. ObjectOf(d, type, row).type = type
    BY ObjectParts
<1>3. QED
    BY <1>1, <1>2

\* The objects of a type.
LEMMA GraphObjects ==
    ASSUME NEW d, Shaped(d), NEW type \in TypeNames(Catalog)
    PROVE  Contract!Objects(GraphOf(d), type) = {row.id : row \in d[TableName(type)]}
<1>1. PICK g : g = GraphOf(d)
    OBVIOUS
<1>2. \A row \in d[TableName(type)] : row.id \in DOMAIN g /\ g[row.id].type = type
    BY <1>1, GraphType
<1>3. ASSUME NEW x \in DOMAIN g, g[x].type = type
      PROVE  \E row \in d[TableName(type)] : row.id = x
  <2>1. PICK other \in TypeNames(Catalog) : \E row \in d[TableName(other)] : row.id = x
    BY <1>1, GraphRow
  <2>2. PICK row \in d[TableName(other)] : row.id = x
    BY <2>1
  <2>3. g[x].type = other
    BY <1>1, <2>2, GraphType
  <2>4. QED
    BY <1>3, <2>2, <2>3
<1>4. Contract!Objects(g, type) = {x \in DOMAIN g : g[x].type = type}
    BY DEF Contract!Objects
<1>5. QED
    BY <1>1, <1>2, <1>3, <1>4

-----------------------------------------------------------------------------
\* Constraints and legality

\* The rows of relation tables relate objects of the types of the link.
RelationsHold(d) ==
    \A type \in TypeNames(Catalog) : \A f \in FieldsOf(type) : HasRelationTable(f) =>
        \A r \in d[RelationTableName(type, f.name)] :
            /\ r.source_id # None /\ \E row \in d[TableName(type)] : row.id = r.source_id
            /\ r.target_id # None /\ \E row \in d[TableName(f.type)] : row.id = r.target_id

LEMMA NoneIsNoTable ==
    ASSUME NEW type \in TypeNames(Catalog)
    PROVE  TableName(type) # None
BY ObjectTablePlan, TablesAssumption

LEMMA TypedRelations ==
    ASSUME NEW d, Typed(d)
    PROVE  RelationsHold(d)
<1> SUFFICES ASSUME NEW type \in TypeNames(Catalog), NEW f \in FieldsOf(type), HasRelationTable(f),
                    NEW t, t = RelationTableName(type, f.name), NEW r \in d[t]
             PROVE  /\ r.source_id # None /\ \E row \in d[TableName(type)] : row.id = r.source_id
                    /\ r.target_id # None /\ \E row \in d[TableName(f.type)] : row.id = r.target_id
    BY DEF RelationsHold
<1>1. t \in DOMAIN d /\ ConstraintsHold(d) /\ ColumnsOf[t] = {SourceColumn(type), TargetColumn(f), PositionColumn}
    BY RelationTablePlan DEF Typed
<1>2. PICK s, g : s = SourceColumn(type) /\ g = TargetColumn(f)
    OBVIOUS
<1>3. /\ s.name = "source_id" /\ ~s.nullable /\ s.references = TableName(type)
      /\ g.name = "target_id" /\ ~g.nullable /\ g.references = TableName(f.type)
    BY <1>2 DEF SourceColumn, TargetColumn, Column
<1>4. s \in ColumnsOf[t] /\ g \in ColumnsOf[t]
    BY <1>1, <1>2
<1>5. s.references # None /\ g.references # None
  <2>1. f.type \in TypeNames(Catalog)
    BY FieldShapes DEF FieldShape, HasRelationTable, IsMany
  <2>2. QED
    BY <1>3, <2>1, NoneIsNoTable
<1>6. \A c \in ColumnsOf[t] : ~c.nullable /\ c.references # None =>
          r[c.name] # None /\ \E row \in d[c.references] : row.id = r[c.name]
    BY <1>1 DEF ConstraintsHold
<1>7. QED
    BY <1>3, <1>4, <1>5, <1>6

\* What the constraints say of the column of a field.
LEMMA ColumnConstraints ==
    ASSUME NEW d, Typed(d), NEW type \in TypeNames(Catalog), NEW f \in FieldsOf(type), HasColumn(f),
           NEW column, column = StoredColumnName(f), NEW row \in d[TableName(type)]
    PROVE  /\ f.cardinality = "required" => row[column] # None
           /\ f.unique /\ row[column] # None =>
                 \A other \in d[TableName(type)] : other[column] = row[column] => other = row
           /\ f.kind = "link" /\ row[column] # None =>
                 \E target \in d[TableName(f.type)] : target.id = row[column]
<1>1. PICK c : c = StoredColumn(f)
    OBVIOUS
<1>2. /\ c.name = column /\ c.nullable = (f.cardinality # "required") /\ c.unique = f.unique
      /\ f.kind = "link" => c.references = TableName(f.type)
    BY <1>1 DEF StoredColumn, Column, TableName
<1>3. TableName(type) \in DOMAIN d /\ c \in ColumnsOf[TableName(type)] /\ ConstraintsHold(d)
    BY <1>1, ObjectTablePlan DEF Typed, ObjectColumns
<1>4. /\ row[c.name] = None => c.nullable
      /\ c.unique /\ row[c.name] # None =>
            \A other \in d[TableName(type)] : other[c.name] = row[c.name] => other = row
      /\ c.references # None /\ row[c.name] # None =>
            \E target \in d[c.references] : target.id = row[c.name]
    BY <1>3 DEF ConstraintsHold
<1>5. f.kind = "link" => TableName(f.type) # None
    BY FieldShapes, NoneIsNoTable DEF FieldShape
<1>6. QED
    BY <1>2, <1>4, <1>5

\* Where the constraints hold, the graph is legal.
LEMMA TypedLegalObject ==
    ASSUME NEW d, Typed(d), NEW type \in TypeNames(Catalog), NEW row \in d[TableName(type)],
           NEW f \in StoredIn(type), NEW g, g = GraphOf(d), NEW x, x = row.id
    PROVE  Contract!LegalObject(g, x, f)
<1>1. Shaped(d) /\ RelationsHold(d) /\ f \in FieldsOf(type)
    BY TypedShaped, TypedRelations DEF StoredIn
<1>2. PICK value : value = StoredValue(d, type, row, f)
    OBVIOUS
<1>3. g[x].type = type /\ g[x].fields[f.name] = value
  <2>1. g[x] = ObjectOf(d, type, row)
    BY <1>1, GraphAt
  <2>2. QED
    BY <1>2, <2>1, ObjectParts
<1>4. \A t \in TypeNames(Catalog) : Contract!Objects(g, t) = {r.id : r \in d[TableName(t)]}
    BY <1>1, GraphObjects
<1>5. f.kind = "link" => f.type \in TypeNames(Catalog)
    BY <1>1, FieldShapes DEF FieldShape
<1>6. CASE IsMany(f)
  <2>1. /\ f.cardinality # "required" /\ ~f.unique /\ f.kind = "link" /\ f.cardinality = "many"
        /\ HasRelationTable(f)
    BY <1>1, <1>6, FieldShapes DEF IsMany, FieldShape, HasRelationTable, StoredIn
  <2>2. value = RelatedIds(d, type, row, f)
    BY <1>2, <1>6 DEF StoredValue
  <2>3. value \subseteq {r.id : r \in d[TableName(f.type)]}
    BY <1>1, <2>1, <2>2 DEF RelatedIds, RelationsHold
  <2>4. Contract!StoredTargets(g, x, f) = value
    BY <1>3, <2>1 DEF Contract!StoredTargets
  <2>5. QED
    BY <1>4, <1>5, <2>1, <2>3, <2>4 DEF Contract!LegalObject
<1>7. CASE ~IsMany(f)
  <2>1. HasColumn(f) /\ value = row[StoredColumnName(f)]
    BY <1>2, <1>7 DEF HasColumn, StoredValue
  <2>2. /\ f.cardinality = "required" => value # None
        /\ f.unique /\ value # None =>
              \A other \in d[TableName(type)] : other[StoredColumnName(f)] = value => other = row
        /\ f.kind = "link" /\ value # None =>
              \E target \in d[TableName(f.type)] : target.id = value
    BY <1>1, <2>1, ColumnConstraints
  <2>3. ASSUME f.unique, value # None, NEW y \in Contract!Objects(g, type), g[y].fields[f.name] = value
        PROVE  y = x
    <3>1. PICK other \in d[TableName(type)] : other.id = y
      BY <1>4, <2>3
    <3>2. g[y] = ObjectOf(d, type, other)
      BY <1>1, <3>1, GraphAt
    <3>3. g[y].fields[f.name] = StoredValue(d, type, other, f)
      BY <3>2, ObjectParts
    <3>4. other[StoredColumnName(f)] = value
      BY <1>7, <2>3, <3>3 DEF StoredValue
    <3>5. QED
      BY <2>2, <2>3, <3>1, <3>4
  <2>4. ASSUME f.kind = "link" PROVE Contract!StoredTargets(g, x, f) \subseteq Contract!Objects(g, f.type)
    <3>1. Contract!StoredTargets(g, x, f) = {value} \ {None}
      BY <1>3, <1>7, <2>4 DEF Contract!StoredTargets, IsMany
    <3>2. QED
      BY <1>4, <1>5, <2>2, <2>4, <3>1
  <2>5. QED
    BY <1>3, <2>2, <2>3, <2>4 DEF Contract!LegalObject
<1>8. QED
    BY <1>6, <1>7

LEMMA TypedLegal ==
    ASSUME NEW d, Typed(d)
    PROVE  Contract!Legal(GraphOf(d))
<1>1. PICK g : g = GraphOf(d)
    OBVIOUS
<1>2. ASSUME NEW x \in DOMAIN g, NEW f \in Contract!StoredFields(g[x].type)
      PROVE  Contract!LegalObject(g, x, f)
  <2>1. PICK type \in TypeNames(Catalog) : \E row \in d[TableName(type)] : row.id = x
    BY <1>1, GraphRow
  <2>2. PICK row \in d[TableName(type)] : row.id = x
    BY <2>1
  <2>3. g[x].type = type
    BY <1>1, <2>2, TypedShaped, GraphType
  <2>4. f \in StoredIn(type)
    BY <2>3, ContractStoredFields
  <2>5. QED
    BY <1>1, <2>2, <2>4, TypedLegalObject
<1>3. QED
    BY <1>1, <1>2 DEF Contract!Legal

\* Where the graph is legal, the constraints of the tables of types hold,
LEMMA LegalColumns ==
    ASSUME NEW d, Shaped(d), Contract!Legal(GraphOf(d)), NEW type \in TypeNames(Catalog),
           NEW f \in FieldsOf(type), HasColumn(f), NEW row \in d[TableName(type)],
           NEW column, column = StoredColumnName(f)
    PROVE  /\ row[column] = None => f.cardinality # "required"
           /\ f.unique /\ row[column] # None =>
                 \A other \in d[TableName(type)] : other[column] = row[column] => other = row
           /\ f.kind = "link" /\ row[column] # None =>
                 \E target \in d[TableName(f.type)] : target.id = row[column]
<1>1. PICK g : g = GraphOf(d)
    OBVIOUS
<1>2. ~IsMany(f) /\ f \in StoredIn(type)
    BY StoredHasColumn DEF HasColumn
<1>3. \A r \in d[TableName(type)] :
          r.id \in DOMAIN g /\ g[r.id].type = type /\ g[r.id].fields[f.name] = r[column]
  <2>1. ASSUME NEW r \in d[TableName(type)]
        PROVE  r.id \in DOMAIN g /\ g[r.id].type = type /\ g[r.id].fields[f.name] = r[column]
    <3>1. r.id \in DOMAIN g /\ g[r.id] = ObjectOf(d, type, r)
      BY <1>1, GraphAt
    <3>2. g[r.id].type = type /\ g[r.id].fields[f.name] = StoredValue(d, type, r, f)
      BY <1>2, <3>1, ObjectParts
    <3>3. QED
      BY <1>2, <3>1, <3>2 DEF StoredValue
  <2>2. QED
    BY <2>1
<1>4. PICK x : x = row.id
    OBVIOUS
<1>5. x \in DOMAIN g /\ g[x].type = type /\ g[x].fields[f.name] = row[column]
    BY <1>3, <1>4
<1>6. Contract!LegalObject(g, x, f)
  <2>1. f \in Contract!StoredFields(g[x].type)
    BY <1>2, <1>5, ContractStoredFields
  <2>2. QED
    BY <1>1, <1>5, <2>1 DEF Contract!Legal
<1>7. /\ f.cardinality = "required" => row[column] # None
      /\ f.unique /\ row[column] # None =>
            \A y \in Contract!Objects(g, type) : g[y].fields[f.name] = row[column] => y = x
      /\ f.kind = "link" => Contract!StoredTargets(g, x, f) \subseteq Contract!Objects(g, f.type)
    BY <1>5, <1>6 DEF Contract!LegalObject
<1>8. \A t \in TypeNames(Catalog) : Contract!Objects(g, t) = {r.id : r \in d[TableName(t)]}
    BY <1>1, GraphObjects
<1>9. ASSUME f.unique, row[column] # None, NEW other \in d[TableName(type)], other[column] = row[column]
      PROVE  other = row
  <2>1. other.id \in Contract!Objects(g, type) /\ g[other.id].fields[f.name] = row[column]
    BY <1>3, <1>8, <1>9
  <2>2. other.id = row.id
    BY <1>4, <1>7, <1>9, <2>1
  <2>3. QED
    BY <2>2, ShapedIds
<1>10. ASSUME f.kind = "link", row[column] # None
       PROVE  \E target \in d[TableName(f.type)] : target.id = row[column]
  <2>1. f.type \in TypeNames(Catalog)
    BY <1>10, FieldShapes DEF FieldShape
  <2>2. Contract!StoredTargets(g, x, f) = {row[column]} \ {None}
    BY <1>2, <1>5, <1>10 DEF Contract!StoredTargets, IsMany
  <2>3. row[column] \in Contract!Objects(g, f.type)
    BY <1>7, <1>10, <2>2
  <2>4. QED
    BY <1>8, <2>1, <2>3
<1>11. QED
    BY <1>7, <1>9, <1>10

\* and with those of the relation tables all of them.
LEMMA LegalConstraints ==
    ASSUME NEW d, Shaped(d), RelationsHold(d), Contract!Legal(GraphOf(d))
    PROVE  ConstraintsHold(d)
<1> SUFFICES ASSUME NEW t \in DOMAIN d, NEW c \in ColumnsOf[t], NEW row \in d[t]
             PROVE  /\ row[c.name] = None => c.nullable
                    /\ c.unique /\ row[c.name] # None =>
                          \A other \in d[t] : other[c.name] = row[c.name] => other = row
                    /\ c.references # None /\ row[c.name] # None =>
                          \E target \in d[c.references] : target.id = row[c.name]
    BY DEF ConstraintsHold
<1>1. t \in DOMAIN ColumnsOf
    BY DEF Shaped
<1>2. CASE \E type \in TypeNames(Catalog) : t = TableName(type)
  <2>1. PICK type \in TypeNames(Catalog) : t = TableName(type)
    BY <1>2
  <2>2. c \in ObjectColumns(FieldsOf(type))
    BY <2>1, ObjectTablePlan
  <2>3. CASE c = IdColumn
    <3>1. c.name = "id" /\ c.references = None
      BY <2>3 DEF IdColumn, Column
    <3>2. row["id"] # None /\ \A other \in d[t] : other["id"] = row["id"] => other = row
      BY <2>1, ShapedIds
    <3>3. QED
      BY <3>1, <3>2
  <2>4. CASE c # IdColumn
    <3>1. PICK f \in FieldsOf(type) : HasColumn(f) /\ c = StoredColumn(f)
      BY <2>2, <2>4 DEF ObjectColumns
    <3>2. /\ c.name = StoredColumnName(f) /\ c.nullable = (f.cardinality # "required")
          /\ c.unique = f.unique
          /\ f.kind = "link" => c.references = TableName(f.type)
          /\ f.kind # "link" => c.references = None
      BY <3>1 DEF StoredColumn, Column, TableName
    <3>3. PICK column : column = StoredColumnName(f)
      OBVIOUS
    <3>4. /\ row[column] = None => f.cardinality # "required"
          /\ f.unique /\ row[column] # None =>
                \A other \in d[t] : other[column] = row[column] => other = row
          /\ f.kind = "link" /\ row[column] # None =>
                \E target \in d[TableName(f.type)] : target.id = row[column]
      BY <2>1, <3>1, <3>3, LegalColumns
    <3>5. QED
      BY <3>2, <3>3, <3>4
  <2>5. QED
    BY <2>3, <2>4
<1>3. CASE \E type \in TypeNames(Catalog) : \E f \in FieldsOf(type) :
              HasRelationTable(f) /\ t = RelationTableName(type, f.name)
  <2>1. PICK type \in TypeNames(Catalog) : \E f \in FieldsOf(type) :
              HasRelationTable(f) /\ t = RelationTableName(type, f.name)
    BY <1>3
  <2>2. PICK f \in FieldsOf(type) : HasRelationTable(f) /\ t = RelationTableName(type, f.name)
    BY <2>1
  <2>3. c \in {SourceColumn(type), TargetColumn(f), PositionColumn}
    BY <2>2, RelationTablePlan
  <2>4. /\ row["source_id"] # None /\ \E r \in d[TableName(type)] : r.id = row["source_id"]
        /\ row["target_id"] # None /\ \E r \in d[TableName(f.type)] : r.id = row["target_id"]
    BY <2>2 DEF RelationsHold
  <2>5. CASE c = SourceColumn(type)
    <3>1. c.name = "source_id" /\ ~c.unique /\ c.references = TableName(type)
      BY <2>5 DEF SourceColumn, Column
    <3>2. QED
      BY <2>4, <3>1
  <2>6. CASE c = TargetColumn(f)
    <3>1. c.name = "target_id" /\ ~c.unique /\ c.references = TableName(f.type)
      BY <2>6 DEF TargetColumn, Column
    <3>2. QED
      BY <2>4, <3>1
  <2>7. CASE c = PositionColumn
    <3>1. c.nullable /\ ~c.unique /\ c.references = None
      BY <2>7 DEF PositionColumn, Column
    <3>2. QED
      BY <3>1
  <2>8. QED
    BY <2>3, <2>5, <2>6, <2>7
<1>4. QED
    BY <1>1, <1>2, <1>3, EveryTable

-----------------------------------------------------------------------------
\* What is written to the columns of a row is what is assigned to its fields.

LEMMA FoundMember ==
    ASSUME NEW chosen, NEW found \in {<<>>} \cup {<<x>> : x \in chosen}, ToSet(found) = chosen
    PROVE  FirstValue(found) = Contract!OnlyMember(chosen)
<1>1. CASE found = <<>>
  <2>1. chosen = {}
    BY <1>1 DEF ToSet
  <2>2. QED
    BY <1>1, <2>1 DEF FirstValue, Contract!OnlyMember
<1>2. CASE found # <<>>
  <2>1. PICK x \in chosen : found = <<x>>
    BY <1>2
  <2>2. DOMAIN found = 1..1 /\ found[1] = x
    BY <2>1
  <2>3. chosen = {x}
    BY <2>2 DEF ToSet
  <2>4. FirstValue(found) = x
    BY <1>2, <2>2 DEF FirstValue
  <2>5. Contract!OnlyMember(chosen) = x
    BY <2>3 DEF Contract!OnlyMember
  <2>6. QED
    BY <2>4, <2>5
<1>3. QED
    BY <1>1, <1>2

LEMMA ValueWritten ==
    ASSUME NEW c, Writes(c.query, c.plan), FindsWhatItAssigns(c), NEW i \in DOMAIN c.query.assignments
    PROVE  AssignedIn(c.plan.assignments[i].value)
             = Contract!Assigned(Graph, c.query.assignments[i].value)
<1>1. PICK v, w : v = c.query.assignments[i].value /\ w = c.plan.assignments[i].value
    OBVIOUS
<1>2. i \in DOMAIN c.plan.assignments /\ WritesValue(v, w)
    BY <1>1 DEF Writes, WritesField
<1>3. CASE v.tag = "null" /\ w = [tag |-> "bind", value |-> None]
    BY <1>1, <1>3 DEF AssignedIn, Contract!Assigned
<1>4. CASE v.tag = "literal" /\ w = [tag |-> "bind", value |-> v.value]
    BY <1>1, <1>4 DEF AssignedIn, Contract!Assigned
<1>5. CASE v.tag = "select" /\ w.tag = "select"
  <2>1. PICK found : found = FoundValues(db, w.select)
    OBVIOUS
  <2>2. PICK chosen : chosen = Chosen(Graph, v)
    OBVIOUS
  <2>3. ToSet(found) = chosen /\ found \in {<<>>} \cup {<<x>> : x \in chosen}
    BY <1>1, <1>2, <1>5, <2>1, <2>2 DEF FindsWhatItAssigns
  <2>4. AssignedIn(w) = FirstValue(found)
    BY <1>5, <2>1 DEF AssignedIn
  <2>5. Contract!Assigned(Graph, v) = Contract!OnlyMember(chosen)
    BY <1>5, <2>2 DEF Contract!Assigned
  <2>6. QED
    BY <1>1, <2>3, <2>4, <2>5, FoundMember
<1>6. QED
    BY <1>2, <1>3, <1>4, <1>5 DEF WritesValue

\* The columns an insert or update sets.
LEMMA ColumnsSet ==
    ASSUME NEW c, c.query.type \in TypeNames(Catalog), IsList(c.query.assignments),
           Writes(c.query, c.plan), FindsWhatItAssigns(c),
           NEW f \in FieldsOf(c.query.type), HasColumn(f),
           NEW column, column = StoredColumnName(f),
           NEW set, set = SetColumns(c.plan.assignments)
    PROVE  /\ column \in DOMAIN set <=> f.name \in Contract!AssignedFields(c.query)
           /\ column \in DOMAIN set => set[column] = Contract!AssignedTo(Graph, c.query, f.name)
<1>1. PICK q : q = c.query
    OBVIOUS
<1>2. PICK written : written = c.plan.assignments
    OBVIOUS
<1>3. DOMAIN written = DOMAIN q.assignments /\ DOMAIN q.assignments \subseteq Nat
  <2>1. DOMAIN q.assignments = 1..Len(q.assignments) /\ Len(q.assignments) \in Nat
    BY <1>1, ListLength
  <2>2. QED
    BY <1>1, <1>2, <2>1 DEF Writes
<1>4. ASSUME NEW i \in DOMAIN q.assignments
      PROVE  written[i].column = column <=> q.assignments[i].field = f.name
  <2>1. PICK g \in FieldsOf(q.type) :
            HasColumn(g) /\ g.name = q.assignments[i].field /\ written[i].column = StoredColumnName(g)
    BY <1>1, <1>2 DEF Writes, WritesField
  <2>2. written[i].column = column => g = f
    BY <1>1, <2>1, ColumnsApart
  <2>3. g.name = f.name => g = f
    BY <1>1, <2>1, DeclaredNames
  <2>4. QED
    BY <2>1, <2>2, <2>3
<1>5. DOMAIN set = {written[i].column : i \in DOMAIN written}
    BY <1>2 DEF SetColumns
<1>6. column \in DOMAIN set <=> \E i \in DOMAIN q.assignments : q.assignments[i].field = f.name
    BY <1>3, <1>4, <1>5
<1>7. column \in DOMAIN set <=> f.name \in Contract!AssignedFields(q)
    BY <1>6 DEF Contract!AssignedFields
<1>8. ASSUME NEW i \in DOMAIN q.assignments, q.assignments[i].field = f.name
      PROVE  set[column] = Contract!AssignedTo(Graph, q, f.name)
  <2>1. \A j \in DOMAIN q.assignments : q.assignments[j].field = f.name => j = i
    BY <1>1, <1>8 DEF Writes
  <2>2. LastOf(written, column) = i
    <3>1. i \in DOMAIN written /\ written[i].column = column /\ i <= i
      BY <1>3, <1>4, <1>8
    <3>2. \A j \in DOMAIN written : written[j].column = column => j = i
      BY <1>3, <1>4, <2>1
    <3>3. QED
      BY <3>1, <3>2 DEF LastOf
  <2>3. column \in DOMAIN set
    BY <1>6, <1>8
  <2>4. set[column] = AssignedIn(written[i].value)
    BY <1>2, <1>5, <2>2, <2>3 DEF SetColumns
  <2>5. Contract!AssignedTo(Graph, q, f.name) = Contract!Assigned(Graph, q.assignments[i].value)
    <3>1. i = CHOOSE j \in DOMAIN q.assignments : q.assignments[j].field = f.name
      BY <1>8, <2>1
    <3>2. QED
      BY <3>1 DEF Contract!AssignedTo
  <2>6. QED
    BY <1>1, <1>2, <2>4, <2>5, ValueWritten
<1>9. QED
    BY <1>1, <1>6, <1>7, <1>8

-----------------------------------------------------------------------------
\* Graphs of changed rows

\* The rows of d stand for the objects of h, and all of them.
RowsStandFor(d, h) ==
    \A type \in TypeNames(Catalog) : \A row \in d[TableName(type)] :
        row.id \in DOMAIN h /\ h[row.id] = ObjectOf(d, type, row)

ObjectsHaveRows(d, h) ==
    \A x \in DOMAIN h : \E type \in TypeNames(Catalog) : \E row \in d[TableName(type)] : row.id = x

\* The graph of d is h if the rows of d stand for the objects of h.
LEMMA GraphIs ==
    ASSUME NEW d, Shaped(d), NEW h, h = [x \in DOMAIN h |-> h[x]],
           RowsStandFor(d, h), ObjectsHaveRows(d, h)
    PROVE  GraphOf(d) = h
<1>1. PICK g : g = GraphOf(d)
    OBVIOUS
<1>2. g = [x \in DOMAIN g |-> g[x]]
    BY <1>1 DEF GraphOf
<1>3. \A x \in DOMAIN g : x \in DOMAIN h
  <2>1. ASSUME NEW x \in DOMAIN g
        PROVE  x \in DOMAIN h
    <3>1. PICK type \in TypeNames(Catalog) : \E row \in d[TableName(type)] : row.id = x
      BY <1>1, GraphRow
    <3>2. QED
      BY <3>1 DEF RowsStandFor
  <2>2. QED
    BY <2>1
<1>4. \A x \in DOMAIN h : x \in DOMAIN g /\ g[x] = h[x]
  <2>1. ASSUME NEW x \in DOMAIN h
        PROVE  x \in DOMAIN g /\ g[x] = h[x]
    <3>1. PICK type \in TypeNames(Catalog) : \E row \in d[TableName(type)] : row.id = x
      BY DEF ObjectsHaveRows
    <3>2. PICK row \in d[TableName(type)] : row.id = x
      BY <3>1
    <3>3. h[x] = ObjectOf(d, type, row)
      BY <3>2 DEF RowsStandFor
    <3>4. QED
      BY <1>1, <3>2, <3>3, GraphAt
  <2>2. QED
    BY <2>1
<1>5. QED
    BY <1>1, <1>2, <1>3, <1>4

\* Rows of other tables with the same relations stand for the same objects.
SameRelations(d, e) ==
    \A type \in TypeNames(Catalog) : \A f \in FieldsOf(type) : HasRelationTable(f) =>
        d[RelationTableName(type, f.name)] = e[RelationTableName(type, f.name)]

LEMMA RelatedStay ==
    ASSUME NEW d, NEW e, SameRelations(d, e), NEW type \in TypeNames(Catalog),
           NEW f \in StoredIn(type), IsMany(f), NEW row, NEW other, row.id = other.id
    PROVE  RelatedIds(d, type, row, f) = RelatedIds(e, type, other, f)
<1>1. f \in FieldsOf(type) /\ HasRelationTable(f)
    BY DEF StoredIn, HasRelationTable
<1>2. QED
    BY <1>1 DEF SameRelations, RelatedIds

LEMMA ObjectStays ==
    ASSUME NEW d, NEW e, SameRelations(d, e), NEW type \in TypeNames(Catalog), NEW row
    PROVE  ObjectOf(d, type, row) = ObjectOf(e, type, row)
<1>1. \A f \in StoredIn(type) : StoredValue(d, type, row, f) = StoredValue(e, type, row, f)
    BY RelatedStay DEF StoredValue
<1>2. PICK fields : fields = ObjectOf(e, type, row).fields
    OBVIOUS
<1>3. fields = [name \in {f.name : f \in StoredIn(type)} |-> fields[name]]
    BY <1>2 DEF ObjectOf, StoredFieldNames, StoredIn, FieldsOf
<1>4. \A f \in StoredIn(type) : fields[f.name] = StoredValue(d, type, row, f)
    BY <1>1, <1>2, ObjectParts
<1>5. ObjectOf(d, type, row) = [type |-> type, fields |-> fields]
    BY <1>3, <1>4, SameObject
<1>6. QED
    BY <1>2, <1>5, ObjectParts

\* Every object is still there.
KeepsIds(d, e) ==
    \A type \in TypeNames(Catalog) : \A row \in d[TableName(type)] :
        \E other \in e[TableName(type)] : other.id = row.id

LEMMA RelationsStay ==
    ASSUME NEW d, RelationsHold(d), NEW e, SameRelations(e, d), KeepsIds(d, e)
    PROVE  RelationsHold(e)
<1> SUFFICES ASSUME NEW type \in TypeNames(Catalog), NEW f \in FieldsOf(type), HasRelationTable(f),
                    NEW r \in e[RelationTableName(type, f.name)]
             PROVE  /\ r.source_id # None /\ \E row \in e[TableName(type)] : row.id = r.source_id
                    /\ r.target_id # None /\ \E row \in e[TableName(f.type)] : row.id = r.target_id
    BY DEF RelationsHold
<1>1. r \in d[RelationTableName(type, f.name)]
    BY DEF SameRelations
<1>2. /\ r.source_id # None /\ \E row \in d[TableName(type)] : row.id = r.source_id
      /\ r.target_id # None /\ \E row \in d[TableName(f.type)] : row.id = r.target_id
    BY <1>1 DEF RelationsHold
<1>3. f.type \in TypeNames(Catalog)
    BY FieldShapes DEF FieldShape, HasRelationTable, IsMany
<1>4. \A s \in TypeNames(Catalog) : \A row \in d[TableName(s)] :
          \E other \in e[TableName(s)] : other.id = row.id
    BY DEF KeepsIds
<1>5. \E row \in e[TableName(type)] : row.id = r.source_id
    BY <1>2, <1>4
<1>6. \E row \in e[TableName(f.type)] : row.id = r.target_id
    BY <1>2, <1>3, <1>4
<1>7. QED
    BY <1>2, <1>5, <1>6

\* Other rows in the table of a type.
RowsOfType(type, rows) ==
    /\ \A row \in rows : IsRow(TableName(type), row) /\ HasIdOf(type, row)
    /\ \A row, other \in rows : other.id = row.id => other = row

OtherTypesStay(d, e, type) ==
    \A other \in TypeNames(Catalog) : other # type => d[TableName(other)] = e[TableName(other)]

TypeRowsSet(d, type, rows, changed) == changed = [d EXCEPT ![TableName(type)] = rows]

LEMMA TypeRowsShaped ==
    ASSUME NEW d, Shaped(d), NEW type \in TypeNames(Catalog), NEW rows, RowsOfType(type, rows),
           NEW changed, TypeRowsSet(d, type, rows, changed)
    PROVE  Shaped(changed) /\ OtherTypesStay(changed, d, type) /\ SameRelations(changed, d)
<1>1. DOMAIN changed = DOMAIN d /\ DOMAIN d = DOMAIN ColumnsOf
    BY DEF Shaped, TypeRowsSet
<1>2. \A t \in DOMAIN d : changed[t] = IF t = TableName(type) THEN rows ELSE d[t]
    BY DEF TypeRowsSet
<1>3. \A other \in TypeNames(Catalog) : TableName(other) \in DOMAIN d
    BY <1>1, ObjectTablePlan
<1>4. changed[TableName(type)] = rows
    BY <1>2, <1>3
<1>5. ASSUME NEW other \in TypeNames(Catalog), other # type
      PROVE  changed[TableName(other)] = d[TableName(other)]
  <2>1. TableName(other) # TableName(type)
    BY <1>5, TablesAssumption
  <2>2. QED
    BY <1>2, <1>3, <2>1
<1>6. SameRelations(changed, d)
  <2> SUFFICES ASSUME NEW s \in TypeNames(Catalog), NEW f \in FieldsOf(s), HasRelationTable(f),
                      NEW t, t = RelationTableName(s, f.name)
               PROVE  changed[t] = d[t]
      BY DEF SameRelations
  <2>1. t \in DOMAIN d /\ ~IsObjectTable(t) /\ IsObjectTable(TableName(type))
    BY <1>1, RelationTablePlan, TablesApart DEF IsObjectTable
  <2>2. QED
    BY <1>2, <2>1
<1>7. \A t \in DOMAIN changed : \A row \in changed[t] : IsRow(t, row)
    BY <1>1, <1>2 DEF Shaped, RowsOfType
<1>8. ASSUME NEW other \in TypeNames(Catalog), NEW row \in changed[TableName(other)]
      PROVE  /\ HasIdOf(other, row)
             /\ \A r \in changed[TableName(other)] : r.id = row.id => r = row
  <2>1. CASE other = type
    BY <1>4, <1>8, <2>1 DEF RowsOfType
  <2>2. CASE other # type
    BY <1>5, <1>8, <2>2 DEF Shaped
  <2>3. QED
    BY <2>1, <2>2
<1>9. Shaped(changed)
    BY <1>1, <1>7, <1>8 DEF Shaped
<1>10. QED
    BY <1>5, <1>6, <1>9 DEF OtherTypesStay

-----------------------------------------------------------------------------
\* Inserts

\* A statement whose selects find what they mean.
PlannedWrite(c) ==
    /\ c.query.type \in TypeNames(Catalog) /\ IsList(c.query.assignments)
    /\ Writes(c.query, c.plan) /\ FindsWhatItAssigns(c)

\* Only fields with columns are written.
LEMMA WritesNoLinks ==
    ASSUME NEW c, PlannedWrite(c), NEW f \in FieldsOf(c.query.type), IsMany(f)
    PROVE  f.name \notin Contract!AssignedFields(c.query)
<1> SUFFICES ASSUME NEW i \in DOMAIN c.query.assignments, c.query.assignments[i].field = f.name
             PROVE  FALSE
    BY DEF Contract!AssignedFields
<1>1. PICK g \in FieldsOf(c.query.type) : HasColumn(g) /\ g.name = f.name
    BY DEF PlannedWrite, Writes, WritesField
<1>2. g = f
    BY <1>1, DeclaredNames DEF PlannedWrite
<1>3. QED
    BY <1>1, <1>2 DEF HasColumn

\* The row of a new object.
NewRow(stmt, id) ==
    Assigning([id |-> id],
        Assigning(SetColumns(stmt.assignments), [name \in ColumnNames(stmt.table) |-> None]))

LEMMA NewRowColumns ==
    ASSUME NEW c, PlannedWrite(c), NEW id, NEW row, row = NewRow(c.plan, id)
    PROVE  /\ IsRow(TableName(c.query.type), row) /\ row.id = id
           /\ \A f \in FieldsOf(c.query.type) : HasColumn(f) =>
                 row[StoredColumnName(f)]
                    = IF f.name \in Contract!AssignedFields(c.query)
                      THEN Contract!AssignedTo(Graph, c.query, f.name) ELSE None
<1>1. PICK set : set = SetColumns(c.plan.assignments)
    OBVIOUS
<1>2. PICK table : table = TableName(c.query.type)
    OBVIOUS
<1>3. c.plan.table = table /\ DOMAIN set \subseteq ColumnNames(table) \ {"id"}
    BY <1>1, <1>2, ColumnsWritten, SetColumnsWritten DEF PlannedWrite
<1>4. PICK nulls : nulls = [name \in ColumnNames(table) |-> None]
    OBVIOUS
<1>5. PICK given : given = [id |-> id]
    OBVIOUS
<1>6. row = Assigning(given, Assigning(set, nulls))
    BY <1>1, <1>3, <1>4, <1>5 DEF NewRow
<1>7. DOMAIN given = {"id"} /\ given["id"] = id /\ DOMAIN nulls = ColumnNames(table)
    BY <1>4, <1>5
<1>8. "id" \in ColumnNames(table)
    BY <1>2, TypeColumnNames DEF PlannedWrite
<1>9. DOMAIN row = ColumnNames(table) /\ row["id"] = id
    BY <1>3, <1>6, <1>7, <1>8 DEF Assigning
<1>10. \A name \in ColumnNames(table) \ {"id"} :
          row[name] = IF name \in DOMAIN set THEN set[name] ELSE None
    BY <1>3, <1>4, <1>6, <1>7 DEF Assigning
<1>11. ASSUME NEW f \in FieldsOf(c.query.type), HasColumn(f)
       PROVE  row[StoredColumnName(f)]
                = IF f.name \in Contract!AssignedFields(c.query)
                  THEN Contract!AssignedTo(Graph, c.query, f.name) ELSE None
  <2>1. PICK column : column = StoredColumnName(f)
    OBVIOUS
  <2>2. column \in ColumnNames(table) \ {"id"}
    BY <1>2, <1>11, <2>1, TypeColumnNames DEF PlannedWrite
  <2>3. /\ column \in DOMAIN set <=> f.name \in Contract!AssignedFields(c.query)
        /\ column \in DOMAIN set => set[column] = Contract!AssignedTo(Graph, c.query, f.name)
    BY <1>1, <1>11, <2>1, ColumnsSet DEF PlannedWrite
  <2>4. QED
    BY <1>10, <2>1, <2>2, <2>3
<1>12. QED
    BY <1>2, <1>9, <1>11 DEF IsRow

\* It stands for the object the insert means.
LEMMA NewObject ==
    ASSUME Shaped(db), RelationsHold(db), NEW c, PlannedWrite(c), NEW id,
           \A row \in db[TableName(c.query.type)] : row.id # id,
           NEW row, row = NewRow(c.plan, id)
    PROVE  ObjectOf(db, c.query.type, row)
             = [type |-> c.query.type, fields |-> Contract!NewFields(Graph, c.query)]
<1>1. PICK type \in TypeNames(Catalog) : type = c.query.type
    BY DEF PlannedWrite
<1>2. PICK fields : fields = Contract!NewFields(Graph, c.query)
    OBVIOUS
<1>3. Contract!StoredFields(type) = StoredIn(type)
    BY ContractStoredFields
<1>4. /\ fields = [name \in {f.name : f \in StoredIn(type)} |-> fields[name]]
      /\ \A f \in StoredIn(type) : fields[f.name] =
            IF f.name \in Contract!AssignedFields(c.query)
            THEN Contract!AssignedTo(Graph, c.query, f.name)
            ELSE IF Contract!IsManyLink(Contract!FieldNamed(type, f.name)) THEN {} ELSE None
    BY <1>1, <1>2, <1>3 DEF Contract!NewFields
<1>5. ASSUME NEW f \in StoredIn(type)
      PROVE  fields[f.name] = StoredValue(db, type, row, f)
  <2>1. f \in FieldsOf(type) /\ Contract!FieldNamed(type, f.name) = f
    BY ContractFieldNamed DEF StoredIn
  <2>2. CASE IsMany(f)
    <3>1. fields[f.name] = {}
      BY <1>1, <1>4, <2>1, <2>2, WritesNoLinks, ContractManyLink
    <3>2. HasRelationTable(f)
      BY <2>2 DEF HasRelationTable, StoredIn
    <3>3. row.id = id
      BY NewRowColumns
    <3>4. RelatedIds(db, type, row, f) = {}
      BY <1>1, <2>1, <3>2, <3>3 DEF RelatedIds, RelationsHold
    <3>5. QED
      BY <2>2, <3>1, <3>4 DEF StoredValue
  <2>3. CASE ~IsMany(f)
    <3>1. HasColumn(f)
      BY <2>3 DEF HasColumn
    <3>2. PICK value : value = IF f.name \in Contract!AssignedFields(c.query)
                               THEN Contract!AssignedTo(Graph, c.query, f.name) ELSE None
      OBVIOUS
    <3>3. fields[f.name] = value
      BY <1>4, <2>1, <2>3, <3>2, ContractManyLink
    <3>4. row[StoredColumnName(f)] = value
      BY <1>1, <2>1, <3>1, <3>2, NewRowColumns
    <3>5. QED
      BY <2>3, <3>3, <3>4 DEF StoredValue
  <2>4. QED
    BY <2>2, <2>3
<1>6. ObjectOf(db, type, row) = [type |-> type, fields |-> fields]
    BY <1>4, <1>5, SameObject
<1>7. QED
    BY <1>1, <1>2, <1>6

LEMMA FreshId ==
    ASSUME Shaped(db), NEW type \in TypeNames(Catalog), NEW id \in NextIds(type)
    PROVE  /\ id \in ToSet(IdsOf[type]) /\ id \notin DOMAIN Graph
           /\ \A row \in db[TableName(type)] : row.id # id
<1>1. id \in ToSet(IdsOf[type]) /\ \A row \in db[TableName(type)] : row.id # id
    BY DEF NextIds, FreshPlaces, ToSet
<1>2. ASSUME id \in DOMAIN Graph PROVE FALSE
  <2>1. PICK s \in TypeNames(Catalog) : \E row \in db[TableName(s)] : row.id = id
    BY <1>2, GraphRow DEF Graph
  <2>2. PICK row \in db[TableName(s)] : row.id = id
    BY <2>1
  <2>3. id \in ToSet(IdsOf[s])
    BY <2>2 DEF Shaped, HasIdOf
  <2>4. s = type
    BY <1>1, <2>3, IdsAssumption
  <2>5. QED
    BY <1>1, <2>2, <2>4
<1>3. QED
    BY <1>1, <1>2

\* An insert adds the object it means.
LEMMA InsertEffect ==
    ASSUME Shaped(db), RelationsHold(db), NEW c, PlannedWrite(c),
           NEW table, table = TableName(c.query.type), NEW id \in NextIds(c.query.type),
           NEW changed, changed = [db EXCEPT ![table] = @ \cup {NewRow(c.plan, id)}]
    PROVE  /\ Shaped(changed) /\ SameRelations(changed, db) /\ KeepsIds(db, changed)
           /\ GraphOf(changed) = Contract!Inserted(Graph, c.query, id)
<1>1. PICK type \in TypeNames(Catalog) : type = c.query.type
    BY DEF PlannedWrite
<1>2. PICK row : row = NewRow(c.plan, id)
    OBVIOUS
<1>3. PICK rows : rows = db[table] \cup {row}
    OBVIOUS
<1>4. /\ id \in ToSet(IdsOf[type]) /\ id \notin DOMAIN Graph
      /\ \A r \in db[table] : r.id # id
    BY <1>1, FreshId
<1>5. IsRow(table, row) /\ row.id = id
    BY <1>2, NewRowColumns
<1>6. table \in DOMAIN db
    BY <1>1, ObjectTablePlan DEF Shaped
<1>7. RowsOfType(type, rows)
    BY <1>1, <1>3, <1>4, <1>5, <1>6 DEF Shaped, HasIdOf, RowsOfType
<1>8. changed = [db EXCEPT ![TableName(type)] = rows]
    BY <1>1, <1>2, <1>3
<1>9. /\ Shaped(changed) /\ changed[table] = rows
      /\ OtherTypesStay(changed, db, type) /\ SameRelations(changed, db)
  <2>1. TypeRowsSet(db, type, rows, changed)
    BY <1>8 DEF TypeRowsSet
  <2>2. Shaped(changed) /\ OtherTypesStay(changed, db, type) /\ SameRelations(changed, db)
    BY <1>1, <1>7, <2>1, TypeRowsShaped
  <2>3. changed[table] = rows
    BY <1>1, <1>6, <1>8
  <2>4. QED
    BY <2>2, <2>3
<1>10. PICK object : object = [type |-> type, fields |-> Contract!NewFields(Graph, c.query)]
    OBVIOUS
<1>11. PICK g, h : g = Graph /\ h = Contract!Inserted(Graph, c.query, id)
    OBVIOUS
<1>12. /\ h = [y \in DOMAIN h |-> h[y]] /\ DOMAIN h = DOMAIN g \cup {id}
       /\ h[id] = object /\ \A y \in DOMAIN g : h[y] = g[y]
    BY <1>1, <1>4, <1>10, <1>11 DEF Contract!Inserted
<1>13. ObjectOf(db, type, row) = object
    BY <1>1, <1>2, <1>4, <1>10, NewObject
<1>14. ASSUME NEW s \in TypeNames(Catalog), NEW r \in changed[TableName(s)]
       PROVE  r.id \in DOMAIN h /\ h[r.id] = ObjectOf(changed, s, r)
  <2>1. ObjectOf(changed, s, r) = ObjectOf(db, s, r)
    BY <1>9, ObjectStays
  <2>2. CASE s = type /\ r = row
    BY <1>5, <1>12, <1>13, <2>1, <2>2
  <2>3. CASE r \in db[TableName(s)]
    <3>1. r.id \in DOMAIN g /\ g[r.id] = ObjectOf(db, s, r)
      BY <1>11, <2>3, GraphAt DEF Graph
    <3>2. QED
      BY <1>12, <2>1, <3>1
  <2>4. QED
    BY <1>1, <1>3, <1>9, <1>14, <2>2, <2>3 DEF OtherTypesStay
<1>15. \A s \in TypeNames(Catalog) : \A r \in db[TableName(s)] : r \in changed[TableName(s)]
    BY <1>1, <1>3, <1>9 DEF OtherTypesStay
<1>16. ASSUME NEW x \in DOMAIN h
       PROVE  \E s \in TypeNames(Catalog) : \E r \in changed[TableName(s)] : r.id = x
  <2>1. CASE x = id
    BY <1>1, <1>3, <1>5, <1>9, <2>1
  <2>2. CASE x \in DOMAIN g
    <3>1. PICK s \in TypeNames(Catalog) : \E r \in db[TableName(s)] : r.id = x
      BY <1>11, <2>2, GraphRow DEF Graph
    <3>2. QED
      BY <1>15, <3>1
  <2>3. QED
    BY <1>12, <2>1, <2>2
<1>17. GraphOf(changed) = h
  <2>1. RowsStandFor(changed, h)
    BY <1>14 DEF RowsStandFor
  <2>2. ObjectsHaveRows(changed, h)
    BY <1>16 DEF ObjectsHaveRows
  <2>3. QED
    BY <1>9, <1>12, <2>1, <2>2, GraphIs
<1>18. KeepsIds(db, changed)
    BY <1>15 DEF KeepsIds
<1>19. QED
    BY <1>9, <1>11, <1>17, <1>18

-----------------------------------------------------------------------------
\* Updates

\* The rows of an accepted filter are those of the objects it means, all of its type.
LEMMA FilteredAre ==
    ASSUME Shaped(db), NEW c, c.query.type \in TypeNames(Catalog),
           c.plan.table = TableName(c.query.type), FindsWhatItFilters(c),
           NEW type \in TypeNames(Catalog), NEW row \in db[TableName(type)]
    PROVE  row.id \in Selected(Graph, c.query) <=> type = c.query.type /\ row \in FilteredRows(c.plan)
<1>1. PICK found : found = FilteredRows(c.plan)
    OBVIOUS
<1>2. found \subseteq db[TableName(c.query.type)]
    BY <1>1 DEF FilteredRows
<1>3. Selected(Graph, c.query) = {r.id : r \in found}
    BY <1>1 DEF FindsWhatItFilters
<1>4. ASSUME row.id \in Selected(Graph, c.query)
      PROVE  type = c.query.type /\ row \in found
  <2>1. PICK r \in found : r.id = row.id
    BY <1>3, <1>4
  <2>2. r \in db[TableName(c.query.type)]
    BY <1>2, <2>1
  <2>3. c.query.type = type /\ r = row
    BY <2>1, <2>2, ShapedIds
  <2>4. QED
    BY <2>1, <2>3
<1>5. QED
    BY <1>1, <1>3, <1>4

\* The object of a row whose assigned columns are rewritten.
LEMMA RewrittenRow ==
    ASSUME Shaped(db), NEW c, PlannedWrite(c), NEW type, type = c.query.type,
           NEW row \in db[TableName(type)],
           NEW new, new = Assigning(SetColumns(c.plan.assignments), row)
    PROVE  /\ IsRow(TableName(type), new) /\ new.id = row.id
           /\ \A f \in FieldsOf(type) : HasColumn(f) =>
                 new[StoredColumnName(f)]
                    = IF f.name \in Contract!AssignedFields(c.query)
                      THEN Contract!AssignedTo(Graph, c.query, f.name) ELSE row[StoredColumnName(f)]
<1>1. PICK set : set = SetColumns(c.plan.assignments)
    OBVIOUS
<1>2. PICK table : table = TableName(type)
    OBVIOUS
<1>3. c.plan.table = table /\ DOMAIN set \subseteq ColumnNames(table) \ {"id"}
    BY <1>1, <1>2, ColumnsWritten, SetColumnsWritten DEF PlannedWrite
<1>4. type \in TypeNames(Catalog) /\ "id" \in ColumnNames(table) /\ table \in DOMAIN db
    BY <1>2, TypeColumnNames, ObjectTablePlan DEF PlannedWrite, Shaped
<1>5. DOMAIN row = ColumnNames(table)
    BY <1>2, <1>4 DEF Shaped, IsRow
<1>6. DOMAIN new = ColumnNames(table) /\ new["id"] = row["id"]
    BY <1>1, <1>3, <1>4, <1>5 DEF Assigning
<1>7. \A name \in ColumnNames(table) : new[name] = IF name \in DOMAIN set THEN set[name] ELSE row[name]
    BY <1>1, <1>3, <1>5 DEF Assigning
<1>8. ASSUME NEW f \in FieldsOf(type), HasColumn(f)
      PROVE  new[StoredColumnName(f)]
                = IF f.name \in Contract!AssignedFields(c.query)
                  THEN Contract!AssignedTo(Graph, c.query, f.name) ELSE row[StoredColumnName(f)]
  <2>1. PICK column : column = StoredColumnName(f)
    OBVIOUS
  <2>2. column \in ColumnNames(table)
    BY <1>2, <1>4, <1>8, <2>1, TypeColumnNames
  <2>3. /\ column \in DOMAIN set <=> f.name \in Contract!AssignedFields(c.query)
        /\ column \in DOMAIN set => set[column] = Contract!AssignedTo(Graph, c.query, f.name)
    BY <1>1, <1>8, <2>1, ColumnsSet DEF PlannedWrite
  <2>4. QED
    BY <1>7, <2>1, <2>2, <2>3
<1>9. QED
    BY <1>2, <1>6, <1>8 DEF IsRow

\* The object with the values an update assigns.
UpdatedObject(g, q, x) ==
    [type |-> g[x].type,
     fields |-> [name \in DOMAIN g[x].fields |->
        IF name \in Contract!AssignedFields(q) THEN Contract!AssignedTo(g, q, name)
        ELSE g[x].fields[name]]]

LEMMA RewrittenObject ==
    ASSUME Shaped(db), NEW c, PlannedWrite(c), NEW type, type = c.query.type,
           NEW row \in db[TableName(type)],
           NEW new, new = Assigning(SetColumns(c.plan.assignments), row)
    PROVE  ObjectOf(db, type, new) = UpdatedObject(Graph, c.query, row.id)
<1>1. PICK object : object = Graph[row.id]
    OBVIOUS
<1>2. type \in TypeNames(Catalog) /\ object = ObjectOf(db, type, row)
    BY <1>1, GraphAt DEF Graph, PlannedWrite
<1>3. /\ object.type = type /\ DOMAIN object.fields = {f.name : f \in StoredIn(type)}
      /\ \A f \in StoredIn(type) : object.fields[f.name] = StoredValue(db, type, row, f)
    BY <1>2, ObjectParts
<1>4. PICK fields : fields = UpdatedObject(Graph, c.query, row.id).fields
    OBVIOUS
<1>5. /\ fields = [name \in {f.name : f \in StoredIn(type)} |-> fields[name]]
      /\ \A f \in StoredIn(type) : fields[f.name] =
            IF f.name \in Contract!AssignedFields(c.query)
            THEN Contract!AssignedTo(Graph, c.query, f.name) ELSE object.fields[f.name]
    BY <1>1, <1>3, <1>4 DEF UpdatedObject
<1>6. UpdatedObject(Graph, c.query, row.id) = [type |-> type, fields |-> fields]
    BY <1>1, <1>3, <1>4 DEF UpdatedObject
<1>7. ASSUME NEW f \in StoredIn(type)
      PROVE  fields[f.name] = StoredValue(db, type, new, f)
  <2>1. f \in FieldsOf(type)
    BY DEF StoredIn
  <2>2. CASE IsMany(f)
    <3>1. fields[f.name] = RelatedIds(db, type, row, f)
      BY <1>3, <1>5, <2>1, <2>2, WritesNoLinks DEF StoredValue
    <3>2. new.id = row.id
      BY RewrittenRow
    <3>3. QED
      BY <2>2, <3>1, <3>2 DEF StoredValue, RelatedIds
  <2>3. CASE ~IsMany(f)
    <3>1. HasColumn(f)
      BY <2>3 DEF HasColumn
    <3>2. object.fields[f.name] = row[StoredColumnName(f)]
      BY <1>3, <2>3 DEF StoredValue
    <3>3. PICK value : value = IF f.name \in Contract!AssignedFields(c.query)
                               THEN Contract!AssignedTo(Graph, c.query, f.name)
                               ELSE row[StoredColumnName(f)]
      OBVIOUS
    <3>4. fields[f.name] = value
      BY <1>5, <3>2, <3>3
    <3>5. new[StoredColumnName(f)] = value
      BY <2>1, <3>1, <3>3, RewrittenRow
    <3>6. QED
      BY <2>3, <3>4, <3>5 DEF StoredValue
  <2>4. QED
    BY <2>2, <2>3
<1>8. ObjectOf(db, type, new) = [type |-> type, fields |-> fields]
    BY <1>2, <1>5, <1>7, SameObject
<1>9. QED
    BY <1>6, <1>8

LEMMA ContractUpdated ==
    ASSUME NEW g, NEW q, NEW h, h = Contract!Updated(g, q)
    PROVE  /\ h = [x \in DOMAIN h |-> h[x]] /\ DOMAIN h = DOMAIN g
           /\ \A x \in DOMAIN g :
                 h[x] = IF x \in Selected(g, q) THEN UpdatedObject(g, q, x) ELSE g[x]
BY DEF Contract!Updated, Contract!Refilled, UpdatedObject

\* An update changes the objects it means.
LEMMA UpdateEffect ==
    ASSUME Shaped(db), NEW c, PlannedWrite(c), FindsWhatItFilters(c),
           NEW table, table = TableName(c.query.type),
           NEW changed,
           changed = [db EXCEPT ![table] =
                         Rewritten(@, FilteredRows(c.plan), SetColumns(c.plan.assignments))]
    PROVE  /\ Shaped(changed) /\ SameRelations(changed, db) /\ KeepsIds(db, changed)
           /\ GraphOf(changed) = Contract!Updated(Graph, c.query)
<1>1. PICK type \in TypeNames(Catalog) : type = c.query.type
    BY DEF PlannedWrite
<1>2. PICK set : set = SetColumns(c.plan.assignments)
    OBVIOUS
<1>3. PICK found : found = FilteredRows(c.plan)
    OBVIOUS
<1>4. PICK rows : rows = Rewritten(db[table], found, set)
    OBVIOUS
<1>5. c.plan.table = table /\ found \subseteq db[table]
    BY <1>3 DEF PlannedWrite, Writes, FilteredRows
<1>6. rows = (db[table] \ found) \cup {Assigning(set, row) : row \in found}
    BY <1>4 DEF Rewritten
<1>7. \A row \in db[table] : IsRow(table, Assigning(set, row)) /\ Assigning(set, row).id = row.id
    BY <1>1, <1>2, RewrittenRow
<1>8. table \in DOMAIN db
    BY <1>1, ObjectTablePlan DEF Shaped
<1>9. RowsOfType(type, rows)
  <2>1. ASSUME NEW r \in rows
        PROVE  \E row \in db[table] :
                  /\ r.id = row.id /\ IsRow(table, r)
                  /\ r = IF row \in found THEN Assigning(set, row) ELSE row
    <3>1. CASE r \in db[table] \ found
      BY <1>8, <3>1 DEF Shaped
    <3>2. CASE r \in {Assigning(set, row) : row \in found}
      BY <1>5, <1>7, <3>2
    <3>3. QED
      BY <1>6, <3>1, <3>2
  <2>2. \A row \in db[table] : HasIdOf(type, row)
    BY <1>1 DEF Shaped
  <2>3. ASSUME NEW r \in rows
        PROVE  IsRow(TableName(type), r) /\ HasIdOf(type, r)
    BY <1>1, <2>1, <2>2 DEF HasIdOf
  <2>4. ASSUME NEW r \in rows, NEW s \in rows, s.id = r.id
        PROVE  s = r
    <3>1. PICK row \in db[table] : r.id = row.id /\ r = IF row \in found THEN Assigning(set, row) ELSE row
      BY <2>1
    <3>2. PICK other \in db[table] : s.id = other.id /\ s = IF other \in found THEN Assigning(set, other) ELSE other
      BY <2>1
    <3>3. row = other
      BY <1>1, <2>4, <3>1, <3>2, ShapedIds
    <3>4. QED
      BY <3>1, <3>2, <3>3
  <2>5. QED
    BY <2>3, <2>4 DEF RowsOfType
<1>10. TypeRowsSet(db, type, rows, changed)
    BY <1>1, <1>2, <1>3, <1>4 DEF TypeRowsSet
<1>11. Shaped(changed) /\ OtherTypesStay(changed, db, type) /\ SameRelations(changed, db)
    BY <1>9, <1>10, TypeRowsShaped
<1>12. changed[table] = rows
    BY <1>1, <1>8, <1>10 DEF TypeRowsSet
<1>13. PICK g, h : g = Graph /\ h = Contract!Updated(Graph, c.query)
    OBVIOUS
<1>14. /\ h = [x \in DOMAIN h |-> h[x]] /\ DOMAIN h = DOMAIN g
       /\ \A x \in DOMAIN g :
             h[x] = IF x \in Selected(g, c.query) THEN UpdatedObject(g, c.query, x) ELSE g[x]
    BY <1>13, ContractUpdated
<1>15. ASSUME NEW s \in TypeNames(Catalog), NEW row \in db[TableName(s)], s # type \/ row \notin found
       PROVE  /\ row \in changed[TableName(s)]
              /\ row.id \in DOMAIN h /\ h[row.id] = ObjectOf(changed, s, row)
  <2>1. row \in changed[TableName(s)]
    BY <1>1, <1>6, <1>11, <1>12, <1>15 DEF OtherTypesStay
  <2>2. row.id \in DOMAIN g /\ g[row.id] = ObjectOf(db, s, row)
    BY <1>13, GraphAt DEF Graph
  <2>3. row.id \notin Selected(g, c.query)
    BY <1>1, <1>3, <1>5, <1>13, <1>15, FilteredAre
  <2>4. ObjectOf(changed, s, row) = ObjectOf(db, s, row)
    BY <1>11, ObjectStays
  <2>5. QED
    BY <1>14, <2>1, <2>2, <2>3, <2>4
<1>16. ASSUME NEW row \in found
       PROVE  /\ Assigning(set, row) \in changed[table] /\ Assigning(set, row).id = row.id
              /\ row.id \in DOMAIN h /\ h[row.id] = ObjectOf(changed, type, Assigning(set, row))
  <2>1. PICK new : new = Assigning(set, row)
    OBVIOUS
  <2>2. row \in db[table] /\ new \in changed[table] /\ new.id = row.id
    BY <1>5, <1>6, <1>7, <1>12, <2>1
  <2>3. row.id \in DOMAIN g
    BY <1>1, <1>13, <2>2, GraphAt DEF Graph
  <2>4. row.id \in Selected(g, c.query)
    BY <1>1, <1>3, <1>5, <1>13, <2>2, FilteredAre
  <2>5. ObjectOf(db, type, new) = UpdatedObject(g, c.query, row.id)
    BY <1>1, <1>2, <1>13, <2>1, <2>2, RewrittenObject
  <2>6. ObjectOf(changed, type, new) = ObjectOf(db, type, new)
    BY <1>11, ObjectStays
  <2>7. QED
    BY <1>14, <2>1, <2>2, <2>3, <2>4, <2>5, <2>6
<1>17. KeepsIds(db, changed)
  <2>1. ASSUME NEW s \in TypeNames(Catalog), NEW row \in db[TableName(s)]
        PROVE  \E other \in changed[TableName(s)] : other.id = row.id
    <3>1. CASE s = type /\ row \in found
      BY <1>1, <1>16, <3>1
    <3>2. CASE s # type \/ row \notin found
      BY <1>15, <3>2
    <3>3. QED
      BY <3>1, <3>2
  <2>2. QED
    BY <2>1 DEF KeepsIds
<1>18. RowsStandFor(changed, h)
  <2>1. ASSUME NEW s \in TypeNames(Catalog), NEW r \in changed[TableName(s)]
        PROVE  r.id \in DOMAIN h /\ h[r.id] = ObjectOf(changed, s, r)
    <3>1. CASE s # type
      <4>1. r \in db[TableName(s)]
        BY <1>11, <2>1, <3>1 DEF OtherTypesStay
      <4>2. QED
        BY <1>15, <3>1, <4>1
    <3>2. CASE s = type /\ r \in db[table] \ found
      BY <1>1, <1>15, <3>2
    <3>3. CASE s = type /\ r \in {Assigning(set, row) : row \in found}
      BY <1>16, <3>3
    <3>4. QED
      BY <1>1, <1>6, <1>12, <2>1, <3>1, <3>2, <3>3
  <2>2. QED
    BY <2>1 DEF RowsStandFor
<1>19. ObjectsHaveRows(changed, h)
  <2>1. ASSUME NEW x \in DOMAIN h
        PROVE  \E s \in TypeNames(Catalog) : \E r \in changed[TableName(s)] : r.id = x
    <3>1. PICK s \in TypeNames(Catalog) : \E r \in db[TableName(s)] : r.id = x
      BY <1>13, <1>14, GraphRow DEF Graph
    <3>2. QED
      BY <1>17, <3>1 DEF KeepsIds
  <2>2. QED
    BY <2>1 DEF ObjectsHaveRows
<1>20. GraphOf(changed) = h
    BY <1>11, <1>14, <1>18, <1>19, GraphIs
<1>21. QED
    BY <1>11, <1>13, <1>17, <1>20

-----------------------------------------------------------------------------
\* Additions to and removals from multi links

\* The relation table of one link is that of no other.
LEMMA RelationTablesApart ==
    ASSUME NEW s \in TypeNames(Catalog), NEW g \in FieldsOf(s), HasRelationTable(g),
           NEW type \in TypeNames(Catalog), NEW f \in FieldsOf(type), HasRelationTable(f),
           RelationTableName(s, g.name) = RelationTableName(type, f.name)
    PROVE  s = type /\ g = f
<1>1. PICK a, b : a = SourceColumn(s) /\ b = SourceColumn(type)
    OBVIOUS
<1>2. a \in {SourceColumn(type), TargetColumn(f), PositionColumn}
    BY <1>1, RelationTablePlan
<1>3. a = b
    BY <1>1, <1>2 DEF SourceColumn, TargetColumn, PositionColumn, Column
<1>4. TableName(s) = TableName(type)
    BY <1>1, <1>3 DEF SourceColumn, Column
<1>5. s = type
    BY <1>4, TablesAssumption
<1>6. \A x, y \in FieldsOf(type) : HasRelationTable(x) /\ HasRelationTable(y)
          /\ RelationTableName(type, x.name) = RelationTableName(type, y.name) => x = y
    BY TablesAssumption DEF FieldsOf
<1>7. QED
    BY <1>5, <1>6

\* The targets that the rows of a relation table relate x to.
TargetsOf(rows, x) == {r.target_id : r \in {r \in rows : r.source_id = x}}

\* Those after an addition or a removal.
TargetsAfter(add, sources, targets, before, x) ==
    IF x \notin sources THEN TargetsOf(before, x)
    ELSE IF add THEN TargetsOf(before, x) \cup targets
    ELSE TargetsOf(before, x) \ targets

LinkedRows(stmt) ==
    IF stmt.add THEN db[stmt.table] \cup Linked(stmt)
    ELSE {row \in db[stmt.table] : ~Relates(stmt, row)}

LEMMA LinkedRowsAre ==
    ASSUME NEW stmt, NEW rows, rows = LinkedRows(stmt), NEW before, before = db[stmt.table],
           NEW sources, sources = ToSet(FoundValues(db, stmt.sources)),
           NEW targets, targets = ToSet(FoundValues(db, stmt.targets))
    PROVE  /\ \A r \in rows : r \in before \/
                 /\ DOMAIN r = {"source_id", "target_id", "position"}
                 /\ r.source_id \in sources /\ r.target_id \in targets
           /\ \A x : TargetsOf(rows, x) = TargetsAfter(stmt.add, sources, targets, before, x)
<1>1. PICK linked : linked = Linked(stmt)
    OBVIOUS
<1>2. \A r : r \in linked <=> \E s \in sources, t \in targets :
                                 r = [source_id |-> s, target_id |-> t, position |-> None]
    BY <1>1 DEF Linked
<1>3. \A r \in linked : /\ DOMAIN r = {"source_id", "target_id", "position"}
                        /\ r.source_id \in sources /\ r.target_id \in targets
    BY <1>2
<1>4. \A x \in sources : \A y \in targets : \E r \in linked : r.source_id = x /\ r.target_id = y
  <2>1. ASSUME NEW x \in sources, NEW y \in targets
        PROVE  \E r \in linked : r.source_id = x /\ r.target_id = y
    <3>1. PICK r : r = [source_id |-> x, target_id |-> y, position |-> None]
      OBVIOUS
    <3>2. r \in linked
      BY <1>2, <3>1
    <3>3. r.source_id = x /\ r.target_id = y
      BY <3>1
    <3>4. QED
      BY <3>2, <3>3
  <2>2. QED
    BY <2>1
<1>5. CASE stmt.add
  <2>1. rows = before \cup linked
    BY <1>1, <1>5 DEF LinkedRows
  <2>2. ASSUME NEW x
        PROVE  TargetsOf(rows, x) = IF x \notin sources THEN TargetsOf(before, x)
                                    ELSE TargetsOf(before, x) \cup targets
    BY <1>3, <1>4, <2>1 DEF TargetsOf
  <2>3. QED
    BY <1>3, <1>5, <2>1, <2>2 DEF TargetsAfter
<1>6. CASE ~stmt.add
  <2>1. rows = {r \in before : ~(r.source_id \in sources /\ r.target_id \in targets)}
    BY <1>6 DEF LinkedRows, Relates
  <2>2. ASSUME NEW x
        PROVE  TargetsOf(rows, x) = IF x \notin sources THEN TargetsOf(before, x)
                                    ELSE TargetsOf(before, x) \ targets
    BY <2>1 DEF TargetsOf
  <2>3. QED
    BY <1>6, <2>1, <2>2 DEF TargetsAfter
<1>7. QED
    BY <1>5, <1>6

\* A statement that links or unlinks the objects it means.
PlannedLink(c, f) ==
    /\ c.query.type \in TypeNames(Catalog) /\ f \in FieldsOf(c.query.type) /\ HasRelationTable(f)
    /\ f.name = c.query.assignments[1].field
    /\ c.plan.table = RelationTableName(c.query.type, f.name)
    /\ c.plan.add = (c.query.assignments[1].op = "+=")

LinksObjects(c, f, sources, targets) ==
    /\ sources = ToSet(FoundValues(db, c.plan.sources))
    /\ sources = Selected(Graph, c.query)
    /\ sources \subseteq {row.id : row \in db[TableName(c.query.type)]}
    /\ targets = ToSet(FoundValues(db, c.plan.targets))
    /\ targets = Chosen(Graph, c.query.assignments[1].value)
    /\ targets \subseteq {row.id : row \in db[TableName(f.type)]}

LEMMA RelatesObjects ==
    ASSUME Shaped(db), NEW c, NEW f, PlannedLink(c, f), FindsWhatItRelates(c),
           c.ir.assignments[1].value.select.type = f.type
    PROVE  \E sources, targets : LinksObjects(c, f, sources, targets)
<1>1. PICK sources : sources = ToSet(FoundValues(db, c.plan.sources))
    OBVIOUS
<1>2. PICK targets : targets = ToSet(FoundValues(db, c.plan.targets))
    OBVIOUS
<1>3. f.type \in TypeNames(Catalog) /\ c.query.type \in TypeNames(Catalog)
    BY FieldShapes DEF PlannedLink, FieldShape, HasRelationTable, IsMany
<1>4. \A s \in TypeNames(Catalog) :
          Contract!Objects(Graph, s) = {row.id : row \in db[TableName(s)]}
    BY GraphObjects DEF Graph
<1>5. /\ sources = Selected(Graph, c.query) /\ sources \subseteq Contract!Objects(Graph, c.query.type)
      /\ targets = Chosen(Graph, c.query.assignments[1].value)
      /\ targets \subseteq Contract!Objects(Graph, f.type)
    BY <1>1, <1>2 DEF FindsWhatItRelates
<1>6. LinksObjects(c, f, sources, targets)
    BY <1>1, <1>2, <1>3, <1>4, <1>5 DEF LinksObjects
<1>7. QED
    BY <1>6

LinksRows(c, changed) == changed = [db EXCEPT ![c.plan.table] = LinkedRows(c.plan)]

\* Objects stay, the relations of the link are those of objects.
LEMMA LinkShaped ==
    ASSUME Shaped(db), RelationsHold(db), NEW c, NEW f, PlannedLink(c, f),
           NEW sources, NEW targets, LinksObjects(c, f, sources, targets),
           NEW changed, LinksRows(c, changed)
    PROVE  /\ Shaped(changed) /\ RelationsHold(changed)
           /\ \A type \in TypeNames(Catalog) : changed[TableName(type)] = db[TableName(type)]
<1>1. PICK t : t = c.plan.table
    OBVIOUS
<1>2. PICK type \in TypeNames(Catalog) : type = c.query.type
    BY DEF PlannedLink
<1>3. f \in FieldsOf(type) /\ HasRelationTable(f) /\ t = RelationTableName(type, f.name)
    BY <1>1, <1>2 DEF PlannedLink
<1>4. t \in DOMAIN db /\ ~IsObjectTable(t) /\ ColumnNames(t) = {"source_id", "target_id", "position"}
    BY <1>3, RelationTablePlan, TablesApart, RelationColumnNames DEF Shaped
<1>5. PICK rows : rows = LinkedRows(c.plan)
    OBVIOUS
<1>6. \A r \in rows : r \in db[t] \/ /\ DOMAIN r = {"source_id", "target_id", "position"}
                                     /\ r.source_id \in sources /\ r.target_id \in targets
    BY <1>1, <1>5, LinkedRowsAre DEF LinksObjects
<1>7. DOMAIN changed = DOMAIN db /\ \A u \in DOMAIN db : changed[u] = IF u = t THEN rows ELSE db[u]
    BY <1>1, <1>5 DEF LinksRows
<1>8. ASSUME NEW s \in TypeNames(Catalog)
      PROVE  changed[TableName(s)] = db[TableName(s)]
  <2>1. TableName(s) \in DOMAIN db /\ TableName(s) # t
    BY <1>4, ObjectTablePlan DEF Shaped, IsObjectTable
  <2>2. QED
    BY <1>7, <2>1
<1>9. \A u \in DOMAIN changed : \A row \in changed[u] : IsRow(u, row)
    BY <1>4, <1>6, <1>7 DEF Shaped, IsRow
<1>10. Shaped(changed)
    BY <1>7, <1>8, <1>9 DEF Shaped
<1>11. ASSUME NEW s \in TypeNames(Catalog), NEW g \in FieldsOf(s), HasRelationTable(g),
              NEW u, u = RelationTableName(s, g.name), NEW r \in changed[u]
       PROVE  /\ r.source_id # None /\ \E row \in db[TableName(s)] : row.id = r.source_id
              /\ r.target_id # None /\ \E row \in db[TableName(g.type)] : row.id = r.target_id
  <2>1. CASE r \in db[u]
    BY <1>11, <2>1 DEF RelationsHold
  <2>2. CASE r \notin db[u]
    <3>1. u \in DOMAIN db
      BY <1>11, RelationTablePlan DEF Shaped
    <3>2. u = t /\ r.source_id \in sources /\ r.target_id \in targets
      BY <1>6, <1>7, <1>11, <2>2, <3>1
    <3>3. s = type /\ g = f
      BY <1>3, <1>11, <3>2, RelationTablesApart
    <3>4. /\ \E row \in db[TableName(s)] : row.id = r.source_id
          /\ \E row \in db[TableName(g.type)] : row.id = r.target_id
      BY <1>2, <3>2, <3>3 DEF LinksObjects
    <3>5. g.type \in TypeNames(Catalog)
      BY <1>11, FieldShapes DEF FieldShape, HasRelationTable, IsMany
    <3>6. QED
      BY <3>4, <3>5, ShapedIds
  <2>3. QED
    BY <2>1, <2>2
<1>12. RelationsHold(changed)
  <2>1. ASSUME NEW s \in TypeNames(Catalog), NEW g \in FieldsOf(s), HasRelationTable(g)
        PROVE  changed[TableName(g.type)] = db[TableName(g.type)]
    BY <1>8, <2>1, FieldShapes DEF FieldShape, HasRelationTable, IsMany
  <2>2. QED
    BY <1>8, <1>11, <2>1 DEF RelationsHold
<1>13. QED
    BY <1>8, <1>10, <1>12

\* The object with the targets an addition or removal gives it.
LinkedObject(g, q, x) ==
    [type |-> g[x].type,
     fields |-> [name \in DOMAIN g[x].fields |->
        IF name # q.assignments[1].field THEN g[x].fields[name]
        ELSE IF q.assignments[1].op = "+="
             THEN g[x].fields[name] \cup Chosen(g, q.assignments[1].value)
             ELSE g[x].fields[name] \ Chosen(g, q.assignments[1].value)]]

LEMMA ContractRelinked ==
    ASSUME NEW g, NEW q, NEW h, h = Contract!Relinked(g, q)
    PROVE  /\ h = [x \in DOMAIN h |-> h[x]] /\ DOMAIN h = DOMAIN g
           /\ \A x \in DOMAIN g :
                 h[x] = IF x \in Selected(g, q) THEN LinkedObject(g, q, x) ELSE g[x]
BY DEF Contract!Relinked, Contract!Refilled, LinkedObject

\* The fields of other links and of other types stay.
LEMMA LinkedField ==
    ASSUME NEW c, NEW f, PlannedLink(c, f),
           NEW changed, LinksRows(c, changed), Shaped(db),
           NEW s \in TypeNames(Catalog), NEW g \in StoredIn(s), NEW row,
           s # c.query.type \/ g # f
    PROVE  StoredValue(changed, s, row, g) = StoredValue(db, s, row, g)
<1>1. CASE IsMany(g)
  <2>1. g \in FieldsOf(s) /\ HasRelationTable(g)
    BY <1>1 DEF StoredIn, HasRelationTable
  <2>2. PICK u : u = RelationTableName(s, g.name)
    OBVIOUS
  <2>3. u # c.plan.table
    BY <2>1, <2>2, RelationTablesApart DEF PlannedLink
  <2>4. u \in DOMAIN db
    BY <2>1, <2>2, RelationTablePlan DEF Shaped
  <2>5. changed[u] = db[u]
    BY <2>3, <2>4 DEF LinksRows
  <2>6. QED
    BY <1>1, <2>2, <2>5 DEF StoredValue, RelatedIds
<1>2. CASE ~IsMany(g)
    BY <1>2 DEF StoredValue
<1>3. QED
    BY <1>1, <1>2

LEMMA LinkObject ==
    ASSUME Shaped(db), NEW c, NEW f, PlannedLink(c, f),
           NEW sources, NEW targets, LinksObjects(c, f, sources, targets),
           NEW changed, LinksRows(c, changed),
           NEW s \in TypeNames(Catalog), NEW row \in db[TableName(s)]
    PROVE  ObjectOf(changed, s, row)
             = IF row.id \in sources THEN LinkedObject(Graph, c.query, row.id) ELSE Graph[row.id]
<1>1. PICK object : object = Graph[row.id]
    OBVIOUS
<1>2. object = ObjectOf(db, s, row)
    BY <1>1, GraphAt DEF Graph
<1>3. /\ object.type = s /\ object = [type |-> s, fields |-> object.fields]
      /\ DOMAIN object.fields = {g.name : g \in StoredIn(s)}
      /\ \A g \in StoredIn(s) : object.fields[g.name] = StoredValue(db, s, row, g)
    BY <1>2, ObjectParts
<1>4. PICK type \in TypeNames(Catalog) : type = c.query.type
    BY DEF PlannedLink
<1>5. PICK t : t = c.plan.table
    OBVIOUS
<1>6. f \in FieldsOf(type) /\ HasRelationTable(f) /\ t = RelationTableName(type, f.name)
    BY <1>4, <1>5 DEF PlannedLink
<1>7. t \in DOMAIN db /\ changed[t] = LinkedRows(c.plan)
    BY <1>5, <1>6, RelationTablePlan DEF Shaped, LinksRows
<1>8. PICK before : before = TargetsOf(db[t], row.id)
    OBVIOUS
<1>9. TargetsOf(changed[t], row.id) =
          IF row.id \notin sources THEN before
          ELSE IF c.query.assignments[1].op = "+=" THEN before \cup targets ELSE before \ targets
  <2>1. PICK rows : rows = LinkedRows(c.plan)
    OBVIOUS
  <2>2. TargetsOf(rows, row.id) =
            IF row.id \notin sources THEN before
            ELSE IF c.plan.add THEN before \cup targets ELSE before \ targets
    <3>1. PICK old : old = db[t]
      OBVIOUS
    <3>2. /\ sources = ToSet(FoundValues(db, c.plan.sources))
          /\ targets = ToSet(FoundValues(db, c.plan.targets))
      BY DEF LinksObjects
    <3>3. TargetsOf(rows, row.id) = TargetsAfter(c.plan.add, sources, targets, old, row.id)
      BY <1>5, <2>1, <3>1, <3>2, LinkedRowsAre
    <3>4. QED
      BY <1>8, <3>1, <3>3 DEF TargetsAfter
  <2>3. c.plan.add = (c.query.assignments[1].op = "+=")
    BY DEF PlannedLink
  <2>4. QED
    BY <1>7, <1>8, <2>1, <2>2, <2>3
<1>10. \A d : StoredValue(d, type, row, f) = TargetsOf(d[t], row.id)
    BY <1>6 DEF StoredValue, RelatedIds, TargetsOf, HasRelationTable
<1>11. \A g \in StoredIn(s) : s # type \/ g # f =>
           StoredValue(changed, s, row, g) = object.fields[g.name]
    BY <1>3, <1>4, LinkedField
<1>12. targets = Chosen(Graph, c.query.assignments[1].value) /\ f.name = c.query.assignments[1].field
    BY DEF LinksObjects, PlannedLink
<1>13. CASE row.id \notin sources
  <2>1. PICK fields : fields = object.fields
    OBVIOUS
  <2>2. fields = [name \in {g.name : g \in StoredIn(s)} |-> fields[name]]
    BY <1>2, <2>1 DEF ObjectOf, StoredFieldNames, StoredIn, FieldsOf
  <2>3. ASSUME NEW g \in StoredIn(s)
        PROVE  fields[g.name] = StoredValue(changed, s, row, g)
    <3>1. CASE s = type /\ g = f
      BY <1>3, <1>8, <1>9, <1>10, <1>13, <2>1, <3>1
    <3>2. CASE s # type \/ g # f
      BY <1>11, <2>1, <3>2
    <3>3. QED
      BY <3>1, <3>2
  <2>4. ObjectOf(changed, s, row) = [type |-> s, fields |-> fields]
    BY <2>2, <2>3, SameObject
  <2>5. QED
    BY <1>1, <1>3, <1>13, <2>1, <2>4
<1>14. CASE row.id \in sources
  <2>1. s = type
    <3>1. PICK r \in db[TableName(type)] : r.id = row.id
      BY <1>4, <1>14 DEF LinksObjects
    <3>2. QED
      BY <3>1, ShapedIds
  <2>2. PICK fields : fields = LinkedObject(Graph, c.query, row.id).fields
    OBVIOUS
  <2>3. /\ fields = [name \in {g.name : g \in StoredIn(s)} |-> fields[name]]
        /\ \A g \in StoredIn(s) : fields[g.name] =
              IF g.name # f.name THEN object.fields[g.name]
              ELSE IF c.query.assignments[1].op = "+=" THEN object.fields[g.name] \cup targets
              ELSE object.fields[g.name] \ targets
    BY <1>1, <1>3, <1>12, <2>2 DEF LinkedObject
  <2>4. LinkedObject(Graph, c.query, row.id) = [type |-> s, fields |-> fields]
    BY <1>1, <1>3, <2>2 DEF LinkedObject
  <2>5. ASSUME NEW g \in StoredIn(s)
        PROVE  fields[g.name] = StoredValue(changed, s, row, g)
    <3>1. CASE g = f
      <4>1. object.fields[g.name] = before
        BY <1>3, <1>8, <1>10, <2>1, <3>1
      <4>2. StoredValue(changed, s, row, g) =
                IF c.query.assignments[1].op = "+=" THEN before \cup targets ELSE before \ targets
        BY <1>9, <1>10, <1>14, <2>1, <3>1
      <4>3. QED
        BY <2>3, <3>1, <4>1, <4>2
    <3>2. CASE g # f
      <4>1. g.name # f.name
        BY <1>6, <2>1, <3>2, DeclaredNames DEF StoredIn
      <4>2. QED
        BY <1>11, <2>3, <3>2, <4>1
    <3>3. QED
      BY <3>1, <3>2
  <2>6. ObjectOf(changed, s, row) = [type |-> s, fields |-> fields]
    BY <2>3, <2>5, SameObject
  <2>7. QED
    BY <1>14, <2>4, <2>6
<1>15. QED
    BY <1>13, <1>14

\* An addition or removal changes the links it means.
LEMMA LinkEffect ==
    ASSUME Shaped(db), RelationsHold(db), NEW c, NEW f, PlannedLink(c, f),
           NEW sources, NEW targets, LinksObjects(c, f, sources, targets),
           NEW changed, LinksRows(c, changed)
    PROVE  GraphOf(changed) = Contract!Relinked(Graph, c.query)
<1>1. /\ Shaped(changed)
      /\ \A type \in TypeNames(Catalog) : changed[TableName(type)] = db[TableName(type)]
    BY LinkShaped
<1>2. PICK g, h : g = Graph /\ h = Contract!Relinked(Graph, c.query)
    OBVIOUS
<1>3. /\ h = [x \in DOMAIN h |-> h[x]] /\ DOMAIN h = DOMAIN g
      /\ \A x \in DOMAIN g : h[x] = IF x \in sources THEN LinkedObject(g, c.query, x) ELSE g[x]
    BY <1>2, ContractRelinked DEF LinksObjects
<1>4. RowsStandFor(changed, h)
  <2>1. ASSUME NEW s \in TypeNames(Catalog), NEW row \in changed[TableName(s)]
        PROVE  row.id \in DOMAIN h /\ h[row.id] = ObjectOf(changed, s, row)
    <3>1. row \in db[TableName(s)]
      BY <1>1, <2>1
    <3>2. row.id \in DOMAIN g
      BY <1>2, <3>1, GraphAt DEF Graph
    <3>3. ObjectOf(changed, s, row)
            = IF row.id \in sources THEN LinkedObject(g, c.query, row.id) ELSE g[row.id]
      BY <1>2, <3>1, LinkObject
    <3>4. QED
      BY <1>3, <3>2, <3>3
  <2>2. QED
    BY <2>1 DEF RowsStandFor
<1>5. ObjectsHaveRows(changed, h)
  <2>1. ASSUME NEW x \in DOMAIN h
        PROVE  \E s \in TypeNames(Catalog) : \E r \in changed[TableName(s)] : r.id = x
    <3>1. PICK s \in TypeNames(Catalog) : \E r \in db[TableName(s)] : r.id = x
      BY <1>2, <1>3, GraphRow DEF Graph
    <3>2. QED
      BY <1>1, <3>1
  <2>2. QED
    BY <2>1 DEF ObjectsHaveRows
<1>6. GraphOf(changed) = h
    BY <1>1, <1>3, <1>4, <1>5, GraphIs
<1>7. QED
    BY <1>2, <1>6

-----------------------------------------------------------------------------
\* Deletes

\* A delete whose filter finds the objects it means, and the rows it leaves.
PlannedDelete(c) ==
    /\ c.query.type \in TypeNames(Catalog)
    /\ c.plan.table = TableName(c.query.type) /\ FindsWhatItFilters(c)

Leaves(c, left) == left = WithoutRows(db, TableName(c.query.type), FilteredRows(c.plan))

LEMMA LeftObjects ==
    ASSUME Shaped(db), NEW c, PlannedDelete(c), NEW left, Leaves(c, left),
           NEW s \in TypeNames(Catalog), NEW row
    PROVE  row \in left[TableName(s)]
             <=> row \in db[TableName(s)] /\ row.id \notin Selected(Graph, c.query)
<1>1. PICK type \in TypeNames(Catalog) : type = c.query.type
    BY DEF PlannedDelete
<1>2. PICK found : found = FilteredRows(c.plan)
    OBVIOUS
<1>3. PICK t : t = TableName(s)
    OBVIOUS
<1>4. t \in DOMAIN db /\ IsObjectTable(t) /\ left = WithoutRows(db, TableName(type), found)
    BY <1>1, <1>2, <1>3, ObjectTablePlan DEF Leaves, Shaped, IsObjectTable
<1>5. left[t] = IF t = TableName(type) THEN db[t] \ found ELSE db[t]
    BY <1>4 DEF WithoutRows
<1>6. t = TableName(type) <=> s = type
    BY <1>1, <1>3, TablesAssumption
<1>7. row \in db[TableName(s)] =>
          (row.id \in Selected(Graph, c.query) <=> s = type /\ row \in found)
    BY <1>1, <1>2, FilteredAre DEF PlannedDelete
<1>8. QED
    BY <1>3, <1>5, <1>6, <1>7

\* The relations of deleted objects are gone, those of others stay.
LEMMA LeftRelations ==
    ASSUME Shaped(db), RelationsHold(db), NEW c, PlannedDelete(c), NEW left, Leaves(c, left),
           NEW s \in TypeNames(Catalog), NEW f \in FieldsOf(s), HasRelationTable(f),
           NEW row \in left[TableName(s)]
    PROVE  RelatedIds(left, s, row, f) = RelatedIds(db, s, row, f) \ Selected(Graph, c.query)
<1>1. PICK type \in TypeNames(Catalog) : type = c.query.type
    BY DEF PlannedDelete
<1>2. PICK table : table = TableName(type)
    OBVIOUS
<1>3. PICK ids : ids = Selected(Graph, c.query)
    OBVIOUS
<1>4. PICK t : t = RelationTableName(s, f.name)
    OBVIOUS
<1>5. PICK found : found = FilteredRows(c.plan)
    OBVIOUS
<1>6. ids = {r.id : r \in found} /\ found \subseteq db[table] /\ left = WithoutRows(db, table, found)
    BY <1>1, <1>2, <1>3, <1>5 DEF PlannedDelete, FindsWhatItFilters, FilteredRows, Leaves
<1>7. /\ t \in DOMAIN db /\ ~IsObjectTable(t) /\ IsObjectTable(table)
      /\ ColumnsOf[t] = {SourceColumn(s), TargetColumn(f), PositionColumn}
    BY <1>2, <1>4, RelationTablePlan, TablesApart DEF Shaped, IsObjectTable
<1>8. left[t] = {r \in db[t] : \A x \in ColumnsOf[t] : x.references = table => r[x.name] \notin ids}
    BY <1>6, <1>7 DEF WithoutRows
<1>9. PICK a, b, p : a = SourceColumn(s) /\ b = TargetColumn(f) /\ p = PositionColumn
    OBVIOUS
<1>10. /\ a.name = "source_id" /\ a.references = TableName(s)
       /\ b.name = "target_id" /\ b.references = TableName(f.type) /\ p.references = None
    BY <1>9 DEF SourceColumn, TargetColumn, PositionColumn, Column
<1>11. table # None /\ f.type \in TypeNames(Catalog)
    BY <1>2, NoneIsNoTable, FieldShapes DEF FieldShape, HasRelationTable, IsMany
<1>12. \A r \in db[t] : r \in left[t] <=>
           /\ TableName(s) = table => r["source_id"] \notin ids
           /\ TableName(f.type) = table => r["target_id"] \notin ids
    BY <1>7, <1>8, <1>9, <1>10, <1>11
<1>13. row \in db[TableName(s)] /\ row.id \notin ids
    BY <1>3, LeftObjects
<1>14. ASSUME NEW r \in db[t], r.source_id = row.id
       PROVE  r \in left[t] <=> r.target_id \notin ids
  <2>1. CASE TableName(f.type) = table
    BY <1>12, <1>13, <1>14, <2>1
  <2>2. CASE TableName(f.type) # table
    <3>1. r.target_id \notin ids
      <4> SUFFICES ASSUME r.target_id \in ids PROVE FALSE
          OBVIOUS
      <4>1. PICK x \in found : x.id = r.target_id
        BY <1>6
      <4>2. x \in db[TableName(type)]
        BY <1>2, <1>6, <4>1
      <4>3. PICK y \in db[TableName(f.type)] : y.id = r.target_id
        BY <1>4 DEF RelationsHold
      <4>4. type = f.type
        BY <1>11, <4>1, <4>2, <4>3, ShapedIds
      <4>5. QED
        BY <1>2, <2>2, <4>4
    <3>2. r \in left[t]
      BY <1>12, <1>13, <1>14, <2>2
    <3>3. QED
      BY <3>1, <3>2
  <2>3. QED
    BY <2>1, <2>2
<1>15. \A r \in left[t] : r \in db[t]
    BY <1>8
<1>16. QED
    BY <1>3, <1>4, <1>14, <1>15 DEF RelatedIds

\* The object without the targets that are deleted.
LeftObject(g, q, x) ==
    [type |-> g[x].type,
     fields |-> [name \in DOMAIN g[x].fields |->
        IF Contract!IsManyLink(Contract!FieldNamed(g[x].type, name))
        THEN g[x].fields[name] \cap (DOMAIN g \ Selected(g, q)) ELSE g[x].fields[name]]]

IsRemaining(g, q, h) ==
    /\ h = [x \in DOMAIN h |-> h[x]] /\ DOMAIN h = DOMAIN g \ Selected(g, q)
    /\ \A x \in DOMAIN h : h[x] = LeftObject(g, q, x)

LEMMA ContractRemaining ==
    ASSUME NEW g, NEW q
    PROVE  IsRemaining(g, q, Contract!Remaining(g, q))
BY DEF Contract!Remaining, Contract!Refilled, LeftObject, IsRemaining

LEMMA RelatedAreObjects ==
    ASSUME Shaped(db), RelationsHold(db), NEW s \in TypeNames(Catalog), NEW f \in FieldsOf(s),
           HasRelationTable(f), NEW row
    PROVE  RelatedIds(db, s, row, f) \subseteq DOMAIN Graph
<1>1. ASSUME NEW r \in db[RelationTableName(s, f.name)]
      PROVE  r.target_id \in DOMAIN Graph
  <2>1. PICK y \in db[TableName(f.type)] : y.id = r.target_id
    BY DEF RelationsHold
  <2>2. f.type \in TypeNames(Catalog)
    BY FieldShapes DEF FieldShape, HasRelationTable, IsMany
  <2>3. QED
    BY <2>1, <2>2, GraphAt DEF Graph
<1>2. QED
    BY <1>1 DEF RelatedIds

LEMMA LeftRow ==
    ASSUME Shaped(db), RelationsHold(db), NEW c, PlannedDelete(c), NEW left, Leaves(c, left),
           NEW s \in TypeNames(Catalog), NEW row \in left[TableName(s)]
    PROVE  ObjectOf(left, s, row) = LeftObject(Graph, c.query, row.id)
<1>1. PICK object : object = Graph[row.id]
    OBVIOUS
<1>2. row \in db[TableName(s)]
    BY LeftObjects
<1>3. object = ObjectOf(db, s, row)
    BY <1>1, <1>2, GraphAt DEF Graph
<1>4. /\ object.type = s /\ DOMAIN object.fields = {f.name : f \in StoredIn(s)}
      /\ \A f \in StoredIn(s) : object.fields[f.name] = StoredValue(db, s, row, f)
    BY <1>3, ObjectParts
<1>5. PICK fields : fields = LeftObject(Graph, c.query, row.id).fields
    OBVIOUS
<1>6. /\ fields = [name \in {f.name : f \in StoredIn(s)} |-> fields[name]]
      /\ \A f \in StoredIn(s) : fields[f.name] =
            IF Contract!IsManyLink(Contract!FieldNamed(s, f.name))
            THEN object.fields[f.name] \cap (DOMAIN Graph \ Selected(Graph, c.query))
            ELSE object.fields[f.name]
    BY <1>1, <1>4, <1>5 DEF LeftObject
<1>7. LeftObject(Graph, c.query, row.id) = [type |-> s, fields |-> fields]
    BY <1>1, <1>4, <1>5 DEF LeftObject
<1>8. ASSUME NEW f \in StoredIn(s)
      PROVE  fields[f.name] = StoredValue(left, s, row, f)
  <2>1. f \in FieldsOf(s) /\ Contract!FieldNamed(s, f.name) = f
    BY ContractFieldNamed DEF StoredIn
  <2>2. CASE IsMany(f)
    <3>1. HasRelationTable(f)
      BY <2>2 DEF HasRelationTable, StoredIn
    <3>2. PICK related : related = RelatedIds(db, s, row, f)
      OBVIOUS
    <3>3. object.fields[f.name] = related
      BY <1>4, <2>2, <3>2 DEF StoredValue
    <3>4. fields[f.name] = related \cap (DOMAIN Graph \ Selected(Graph, c.query))
      BY <1>6, <2>1, <2>2, <3>3, ContractManyLink
    <3>5. related \subseteq DOMAIN Graph
      BY <2>1, <3>1, <3>2, RelatedAreObjects
    <3>6. RelatedIds(left, s, row, f) = related \ Selected(Graph, c.query)
      BY <2>1, <3>1, <3>2, LeftRelations
    <3>7. QED
      BY <2>2, <3>4, <3>5, <3>6 DEF StoredValue
  <2>3. CASE ~IsMany(f)
    BY <1>4, <1>6, <2>1, <2>3, ContractManyLink DEF StoredValue
  <2>4. QED
    BY <2>2, <2>3
<1>9. ObjectOf(left, s, row) = [type |-> s, fields |-> fields]
    BY <1>6, <1>8, SameObject
<1>10. QED
    BY <1>7, <1>9

\* A delete that is carried out leaves the objects it does not mean.
LEMMA DeleteEffect ==
    ASSUME Shaped(db), RelationsHold(db), NEW c, PlannedDelete(c), NEW left, Leaves(c, left), Shaped(left)
    PROVE  GraphOf(left) = Contract!Remaining(Graph, c.query)
<1>1. PICK g, h : g = Graph /\ h = Contract!Remaining(Graph, c.query)
    OBVIOUS
<1>2. /\ h = [x \in DOMAIN h |-> h[x]] /\ DOMAIN h = DOMAIN g \ Selected(g, c.query)
      /\ \A x \in DOMAIN h : h[x] = LeftObject(g, c.query, x)
  <2>1. IsRemaining(Graph, c.query, Contract!Remaining(Graph, c.query))
    BY ContractRemaining
  <2>2. IsRemaining(g, c.query, h)
    BY <1>1, <2>1
  <2>3. QED
    BY <2>2 DEF IsRemaining
<1>3. RowsStandFor(left, h)
  <2>1. ASSUME NEW s \in TypeNames(Catalog), NEW row \in left[TableName(s)]
        PROVE  row.id \in DOMAIN h /\ h[row.id] = ObjectOf(left, s, row)
    <3>1. row \in db[TableName(s)] /\ row.id \notin Selected(g, c.query)
      BY <1>1, LeftObjects
    <3>2. row.id \in DOMAIN g
      BY <1>1, <3>1, GraphAt DEF Graph
    <3>3. ObjectOf(left, s, row) = LeftObject(g, c.query, row.id)
      BY <1>1, LeftRow
    <3>4. QED
      BY <1>2, <3>1, <3>2, <3>3
  <2>2. QED
    BY <2>1 DEF RowsStandFor
<1>4. ObjectsHaveRows(left, h)
  <2>1. ASSUME NEW x \in DOMAIN h
        PROVE  \E s \in TypeNames(Catalog) : \E r \in left[TableName(s)] : r.id = x
    <3>1. PICK s \in TypeNames(Catalog) : \E r \in db[TableName(s)] : r.id = x
      BY <1>1, <1>2, GraphRow DEF Graph
    <3>2. PICK r \in db[TableName(s)] : r.id = x
      BY <3>1
    <3>3. r \in left[TableName(s)]
      BY <1>1, <1>2, <3>2, LeftObjects
    <3>4. QED
      BY <3>2, <3>3
  <2>2. QED
    BY <2>1 DEF ObjectsHaveRows
<1>5. GraphOf(left) = h
    BY <1>2, <1>3, <1>4, GraphIs
<1>6. QED
    BY <1>1, <1>5

-----------------------------------------------------------------------------
\* Every statement does what it means, or nothing for a reason.

\* The outcome after of query q is one of its effects, or nothing changes because
\* the effect is none or not legal.
Meant(q, after) ==
    /\ after = db \/ (GraphOf(after) \in Contract!Effects(Graph, q) /\ Contract!Legal(GraphOf(after)))
    /\ after = db => Graph \in Contract!Effects(Graph, q) \/ Contract!MayBeRefused(Graph, q)

LEMMA CheckedMeant ==
    ASSUME NEW q, NEW changed, Shaped(changed), RelationsHold(changed),
           GraphOf(changed) \in Contract!Effects(Graph, q)
    PROVE  Meant(q, Checked(db, changed))
<1>1. CASE ConstraintsHold(changed)
  <2>1. Checked(db, changed) = changed
    BY <1>1 DEF Checked
  <2>2. Typed(changed)
    BY <1>1 DEF Shaped, Typed
  <2>3. Contract!Legal(GraphOf(changed))
    BY <2>2, TypedLegal
  <2>4. changed = db => Graph = GraphOf(changed)
    BY DEF Graph
  <2>5. QED
    BY <2>1, <2>3, <2>4 DEF Meant
<1>2. CASE ~ConstraintsHold(changed)
  <2>1. Checked(db, changed) = db
    BY <1>2 DEF Checked
  <2>2. ~Contract!Legal(GraphOf(changed))
    BY <1>2, LegalConstraints
  <2>3. Contract!MayBeRefused(Graph, q)
    BY <2>2 DEF Contract!MayBeRefused
  <2>4. QED
    BY <2>1, <2>3 DEF Meant
<1>3. QED
    BY <1>1, <1>2

LEMMA InsertMeant ==
    ASSUME Shaped(db), RelationsHold(db), NEW c, PlannedWrite(c), c.query.tag = "insert",
           NEW id \in NextIds(c.query.type)
    PROVE  Meant(c.query, InsertRow(c.plan, id))
<1>1. PICK table : table = TableName(c.query.type)
    OBVIOUS
<1>2. PICK row : row = NewRow(c.plan, id)
    OBVIOUS
<1>3. PICK changed : changed = [db EXCEPT ![table] = @ \cup {row}]
    OBVIOUS
<1>4. c.plan.table = table
    BY <1>1 DEF PlannedWrite, Writes
<1>5. InsertRow(c.plan, id) = Checked(db, changed)
    BY <1>2, <1>3, <1>4 DEF InsertRow, NewRow
<1>6. changed = [db EXCEPT ![table] = @ \cup {NewRow(c.plan, id)}]
    BY <1>2, <1>3
<1>7. /\ Shaped(changed) /\ SameRelations(changed, db) /\ KeepsIds(db, changed)
      /\ GraphOf(changed) = Contract!Inserted(Graph, c.query, id)
    BY <1>1, <1>6, InsertEffect
<1>8. RelationsHold(changed)
    BY <1>7, RelationsStay
<1>9. GraphOf(changed) \in Contract!Effects(Graph, c.query)
  <2>1. PICK type \in TypeNames(Catalog) : type = c.query.type
    BY DEF PlannedWrite
  <2>2. id \in ToSet(IdsOf[type]) \ DOMAIN Graph
    BY <2>1, FreshId
  <2>3. id \in [t \in TypeNames(Catalog) |-> ToSet(IdsOf[t])][c.query.type] \ DOMAIN Graph
    BY <2>1, <2>2
  <2>4. QED
    BY <1>7, <2>3 DEF Contract!Effects
<1>10. QED
    BY <1>5, <1>7, <1>8, <1>9, CheckedMeant

LEMMA UpdateMeant ==
    ASSUME Shaped(db), RelationsHold(db), NEW c, PlannedWrite(c), FindsWhatItFilters(c),
           c.query.tag = "update", c.query.assignments[1].op = ":="
    PROVE  Meant(c.query, UpdateRows(c.plan))
<1>1. PICK table : table = TableName(c.query.type)
    OBVIOUS
<1>2. PICK changed : changed = [db EXCEPT ![table] =
                        Rewritten(@, FilteredRows(c.plan), SetColumns(c.plan.assignments))]
    OBVIOUS
<1>3. c.plan.table = table
    BY <1>1 DEF PlannedWrite, Writes
<1>4. UpdateRows(c.plan) = Checked(db, changed)
    BY <1>2, <1>3 DEF UpdateRows
<1>5. /\ Shaped(changed) /\ SameRelations(changed, db) /\ KeepsIds(db, changed)
      /\ GraphOf(changed) = Contract!Updated(Graph, c.query)
    BY <1>1, <1>2, UpdateEffect
<1>6. RelationsHold(changed)
    BY <1>5, RelationsStay
<1>7. GraphOf(changed) \in Contract!Effects(Graph, c.query)
    BY <1>5 DEF Contract!Effects, Contract!IsRelinking
<1>8. QED
    BY <1>4, <1>5, <1>6, <1>7, CheckedMeant

LEMMA LinkMeant ==
    ASSUME Shaped(db), RelationsHold(db), NEW c, NEW f, PlannedLink(c, f), FindsWhatItRelates(c),
           c.ir.assignments[1].value.select.type = f.type,
           c.query.tag = "update", c.query.assignments[1].op # ":="
    PROVE  Meant(c.query, LinkRows(c.plan))
<1>1. PICK changed : LinksRows(c, changed)
    BY DEF LinksRows
<1>2. LinkRows(c.plan) = Checked(db, changed)
    BY <1>1 DEF LinkRows, LinksRows, LinkedRows
<1>3. PICK sources, targets : LinksObjects(c, f, sources, targets)
    BY RelatesObjects
<1>4. Shaped(changed) /\ RelationsHold(changed)
    BY <1>1, <1>3, LinkShaped
<1>5. GraphOf(changed) = Contract!Relinked(Graph, c.query)
    BY <1>1, <1>3, LinkEffect
<1>6. GraphOf(changed) \in Contract!Effects(Graph, c.query)
    BY <1>5 DEF Contract!Effects, Contract!IsRelinking
<1>7. QED
    BY <1>2, <1>4, <1>6, CheckedMeant

\* A delete is refused where an object refers to a deleted one: if it stays, what is left
\* is not legal, and if it goes too, deleted objects refer to each other.
LEMMA ReferredRefused ==
    ASSUME Shaped(db), NEW c, PlannedDelete(c), c.query.tag = "delete",
           NEW table, table = TableName(c.query.type),
           NEW r \in FilteredRows(c.plan), NEW row \in RestrictingRows(db, table, r.id)
    PROVE  Contract!MayBeRefused(Graph, c.query)
<1>1. PICK type \in TypeNames(Catalog) : type = c.query.type
    BY DEF PlannedDelete
<1>2. PICK t \in DOMAIN db : /\ IsObjectTable(t) /\ row \in db[t] /\ row.id # r.id
                             /\ \E x \in ColumnsOf[t] : x.references = table /\ row[x.name] = r.id
    BY DEF RestrictingRows
<1>3. PICK s \in TypeNames(Catalog) : t = TableName(s)
    BY <1>2 DEF IsObjectTable
<1>4. PICK x \in ColumnsOf[t] : x.references = table /\ row[x.name] = r.id
    BY <1>2
<1>5. table # None /\ x \in ObjectColumns(FieldsOf(s))
    BY <1>1, <1>3, NoneIsNoTable, ObjectTablePlan
<1>6. PICK f \in FieldsOf(s) : HasColumn(f) /\ x = StoredColumn(f)
    BY <1>4, <1>5 DEF ObjectColumns, IdColumn, Column
<1>7. /\ f.kind = "link" /\ TableName(f.type) = table /\ x.name = StoredColumnName(f)
    BY <1>4, <1>5, <1>6 DEF StoredColumn, Column, TableName
<1>8. f.type = type /\ f \in StoredIn(s) /\ ~IsMany(f)
    BY <1>1, <1>6, <1>7, FieldShapes, TablesAssumption, StoredHasColumn DEF FieldShape, HasColumn
<1>9. PICK g : g = Graph
    OBVIOUS
<1>10. PICK y, z : y = row.id /\ z = r.id
    OBVIOUS
<1>11. r \in db[TableName(type)] /\ z \in Selected(g, c.query)
  <2>1. r \in db[TableName(type)]
    BY <1>1 DEF PlannedDelete, FilteredRows
  <2>2. QED
    BY <1>1, <1>9, <1>10, <2>1, FilteredAre DEF PlannedDelete
<1>12. y \in DOMAIN g /\ g[y] = ObjectOf(db, s, row)
    BY <1>2, <1>3, <1>9, <1>10, GraphAt DEF Graph
<1>13. g[y].type = s /\ DOMAIN g[y].fields = {h.name : h \in StoredIn(s)} /\ g[y].fields[f.name] = z
  <2>1. g[y].type = s /\ DOMAIN g[y].fields = {h.name : h \in StoredIn(s)}
    BY <1>12, ObjectParts
  <2>2. g[y].fields[f.name] = StoredValue(db, s, row, f)
    BY <1>8, <1>12, ObjectParts
  <2>3. StoredValue(db, s, row, f) = row[StoredColumnName(f)]
    BY <1>8 DEF StoredValue
  <2>4. QED
    BY <1>4, <1>7, <1>10, <2>1, <2>2, <2>3
<1>14. y # z /\ z # None
  <2>1. z # None
    BY <1>10, <1>11, ShapedIds
  <2>2. QED
    BY <1>2, <1>10, <2>1
<1>15. CASE y \in Selected(g, c.query)
  <2>1. s = type
    BY <1>1, <1>2, <1>3, <1>9, <1>10, <1>15, FilteredAre DEF PlannedDelete
  <2>2. f \in Contract!StoredFields(c.query.type) /\ ~Contract!IsManyLink(f)
    BY <1>1, <1>8, <2>1, ContractStoredFields, ContractManyLink
  <2>3. QED
    BY <1>9, <1>11, <1>13, <1>14, <1>15, <2>2 DEF Contract!MayBeRefused
<1>16. CASE y \notin Selected(g, c.query)
  <2>1. PICK h : h = Contract!Remaining(g, c.query)
    OBVIOUS
  <2>2. IsRemaining(g, c.query, h)
    BY <2>1, ContractRemaining
  <2>3. y \in DOMAIN h /\ h[y] = LeftObject(g, c.query, y) /\ z \notin DOMAIN h
    BY <1>11, <1>12, <1>16, <2>2 DEF IsRemaining
  <2>4. h[y].type = s /\ h[y].fields[f.name] = z
    <3>1. ~Contract!IsManyLink(Contract!FieldNamed(s, f.name))
      BY <1>6, <1>8, ContractFieldNamed, ContractManyLink
    <3>2. f.name \in DOMAIN g[y].fields
      BY <1>8, <1>13
    <3>3. QED
      BY <1>13, <2>3, <3>1, <3>2 DEF LeftObject
  <2>5. Contract!StoredTargets(h, y, f) = {z} \ {None}
    BY <1>7, <1>8, <2>4 DEF Contract!StoredTargets, IsMany
  <2>6. ~Contract!LegalObject(h, y, f)
    <3>1. z \in Contract!StoredTargets(h, y, f)
      BY <1>14, <2>5
    <3>2. z \notin Contract!Objects(h, f.type)
      BY <2>3 DEF Contract!Objects
    <3>3. QED
      BY <1>7, <3>1, <3>2 DEF Contract!LegalObject
  <2>7. f \in Contract!StoredFields(h[y].type)
    BY <1>8, <2>4, ContractStoredFields
  <2>8. ~Contract!Legal(h)
    BY <2>3, <2>6, <2>7 DEF Contract!Legal
  <2>9. h \in Contract!Effects(g, c.query)
    BY <2>1 DEF Contract!Effects
  <2>10. QED
    BY <1>9, <2>8, <2>9 DEF Contract!MayBeRefused
<1>17. QED
    BY <1>15, <1>16

LEMMA DeleteMeant ==
    ASSUME Typed(db), NEW c, PlannedDelete(c), c.query.tag = "delete",
           NEW table, table = TableName(c.query.type),
           NEW after \in DeleteRows(db, table, FilteredRows(c.plan))
    PROVE  Meant(c.query, after)
<1>1. PICK rows : rows = FilteredRows(c.plan)
    OBVIOUS
<1>2. PICK others : others = [r \in rows |-> RestrictingRows(db, table, r.id)]
    OBVIOUS
<1>3. PICK left : left = WithoutRows(db, table, rows)
    OBVIOUS
<1>4. \/ ~Stuck(rows, others) /\ after = left
      \/ after = db /\ \E r \in rows : others[r] # {}
    BY <1>1, <1>2, <1>3 DEF DeleteRows, OutcomesOfDeleting
<1>5. Shaped(db) /\ RelationsHold(db) /\ Leaves(c, left)
    BY <1>1, <1>3, TypedShaped, TypedRelations DEF Leaves
<1>6. CASE ~Stuck(rows, others) /\ after = left
  <2>1. rows \in SUBSET db[table] /\ c.query.type \in TypeNames(Catalog)
    BY <1>1 DEF PlannedDelete, FilteredRows
  <2>2. Typed(left)
    BY <1>2, <1>3, <1>6, <2>1, LeftTyped
  <2>3. GraphOf(left) = Contract!Remaining(Graph, c.query)
    BY <1>5, <2>2, TypedShaped, DeleteEffect
  <2>4. GraphOf(left) \in Contract!Effects(Graph, c.query)
    BY <2>3 DEF Contract!Effects
  <2>5. Contract!Legal(GraphOf(left))
    BY <2>2, TypedLegal
  <2>6. after = db => Graph = GraphOf(left)
    BY <1>6 DEF Graph
  <2>7. QED
    BY <1>6, <2>4, <2>5, <2>6 DEF Meant
<1>7. CASE after = db /\ \E r \in rows : others[r] # {}
  <2>1. PICK r \in rows : others[r] # {}
    BY <1>7
  <2>2. PICK row \in RestrictingRows(db, table, r.id) : TRUE
    BY <1>2, <2>1
  <2>3. Contract!MayBeRefused(Graph, c.query)
    BY <1>1, <1>5, <2>2, ReferredRefused
  <2>4. QED
    BY <1>7, <2>3 DEF Meant
<1>8. QED
    BY <1>4, <1>6, <1>7

LEMMA OutcomesMeant ==
    ASSUME Typed(db), NEW i \in DOMAIN Changes, NEW c, c = Changes[i], FindsItsObjects(c),
           NEW after \in Outcomes(c)
    PROVE  i \in DOMAIN Mutations /\ c.query = Mutations[i] /\ Meant(c.query, after)
<1>1. /\ i \in DOMAIN Mutations /\ c.query = Mutations[i] /\ IsList(c.query.assignments)
      /\ c.query.type \in TypeNames(Catalog) /\ PlannedFor(c.query, c.ir, c.plan)
    BY ChangesPlanned
<1>2. Shaped(db) /\ RelationsHold(db)
    BY TypedShaped, TypedRelations
<1>3. after \in Executed(c)
    BY DEF Outcomes, FindsItsObjects
<1>4. CASE c.plan.tag = "insert"
  <2>1. PICK id \in NextIds(c.query.type) : after = InsertRow(c.plan, id)
    BY <1>3, <1>4 DEF Executed
  <2>2. PlannedWrite(c) /\ c.query.tag = "insert"
    BY <1>1, <1>4 DEF PlannedFor, PlannedWrite, FindsItsObjects
  <2>3. QED
    BY <1>1, <1>2, <2>1, <2>2, InsertMeant
<1>5. CASE c.plan.tag = "update"
  <2>1. after = UpdateRows(c.plan)
    BY <1>3, <1>5 DEF Executed
  <2>2. /\ PlannedWrite(c) /\ FindsWhatItFilters(c)
        /\ c.query.tag = "update" /\ c.query.assignments[1].op = ":="
    BY <1>1, <1>5 DEF PlannedFor, PlannedWrite, FindsItsObjects
  <2>3. QED
    BY <1>1, <1>2, <2>1, <2>2, UpdateMeant
<1>6. CASE c.plan.tag = "link_set"
  <2>1. after = LinkRows(c.plan)
    BY <1>3, <1>6 DEF Executed
  <2>2. c.query.tag = "update" /\ Relinks(c.query, c.ir, c.plan) /\ FindsWhatItRelates(c)
    BY <1>1, <1>6 DEF PlannedFor, FindsItsObjects
  <2>3. PICK f \in FieldsOf(c.query.type) :
            /\ HasRelationTable(f) /\ f.name = c.query.assignments[1].field
            /\ c.plan.table = RelationTableName(c.query.type, f.name)
            /\ c.ir.assignments[1].value.select.type = f.type
    BY <2>2 DEF Relinks
  <2>4. PlannedLink(c, f) /\ c.query.assignments[1].op # ":="
    BY <1>1, <2>2, <2>3 DEF Relinks, PlannedLink
  <2>5. QED
    BY <1>1, <1>2, <2>1, <2>2, <2>3, <2>4, LinkMeant
<1>7. CASE c.plan.tag = "delete"
  <2>1. PICK table : table = TableName(c.query.type)
    OBVIOUS
  <2>2. PlannedDelete(c) /\ c.query.tag = "delete" /\ c.plan.table = table
    BY <1>1, <1>7, <2>1 DEF PlannedFor, PlannedDelete, FindsItsObjects
  <2>3. after \in DeleteRows(db, table, FilteredRows(c.plan))
    BY <1>3, <1>7, <2>2 DEF Executed
  <2>4. QED
    BY <1>1, <2>1, <2>2, <2>3, DeleteMeant
<1>8. QED
    BY <1>1, <1>4, <1>5, <1>6, <1>7 DEF PlannedFor

LEMMA EmptyGraph == DOMAIN GraphOf(EmptyTables) = {}
<1>1. \A type \in TypeNames(Catalog) : EmptyTables[TableName(type)] = {}
    BY ObjectTablePlan DEF EmptyTables
<1>2. Shaped(EmptyTables)
    BY EmptyTyped, TypedShaped
<1>3. \A x \in DOMAIN GraphOf(EmptyTables) : FALSE
    BY <1>1, GraphRow
<1>4. QED
    BY <1>3

LEMMA GraphNext == Graph' = GraphOf(db')
BY DEF Graph, GraphOf, ObjectRows, ObjectOf, StoredValue, RelatedIds

\* Whatever the filters and selects are, if they find the objects they mean, every
\* insert, update and delete does to the objects what it means, on all its rows or on
\* none: the assignments reach the fields they name, the links of other objects stay,
\* and what is left is a legal graph.
THEOREM MutationsImplementObjectGraph ==
    Spec /\ []MutationsFindTheirObjects => ImplementsObjectGraph
<1>1. Init => Contract!Init
  <2> SUFFICES ASSUME Init PROVE DOMAIN Graph = {}
      BY DEF Contract!Init
  <2>1. Graph = GraphOf(EmptyTables)
    BY DEF Init, Graph
  <2>2. QED
    BY <2>1, EmptyGraph
<1>2. TypeOK /\ MutationsFindTheirObjects /\ [Next]_db => [Contract!Next]_Graph
  <2> SUFFICES ASSUME TypeOK, MutationsFindTheirObjects, Next, Graph' # Graph
               PROVE  Contract!Next
      BY DEF Graph
  <2>1. Typed(db)
    BY TypedIs
  <2>2. PICK i \in DOMAIN Changes : Mutate(Changes[i])
    BY DEF Next
  <2>3. PICK c : c = Changes[i]
    OBVIOUS
  <2>4. db' \in Outcomes(c) /\ FindsItsObjects(c)
    BY <2>2, <2>3 DEF Mutate, Insert, Update, LinkSet, Delete, MutationsFindTheirObjects,
       Every
  <2>5. PICK after : after = db'
    OBVIOUS
  <2>6. i \in DOMAIN Mutations /\ c.query = Mutations[i] /\ Meant(c.query, after)
    BY <2>1, <2>3, <2>4, <2>5, OutcomesMeant
  <2>7. Graph' = GraphOf(after) /\ Graph = GraphOf(db)
    BY <2>5, GraphNext DEF Graph
  <2>8. GraphOf(after) \in Contract!Effects(Graph, Mutations[i]) /\ Contract!Legal(GraphOf(after))
    BY <2>6, <2>7 DEF Meant
  <2>9. Contract!Do(Mutations[i])
    BY <2>7, <2>8 DEF Contract!Do
  <2>10. QED
    BY <2>6, <2>9 DEF Contract!Next
<1>3. QED
    BY <1>1, <1>2, StatementsKeepTables, PTL DEF Spec, ImplementsObjectGraph, Contract!Spec

\* A statement that changes nothing had nothing to change, or would have broken a
\* required field, a unique field or a link.
THEOREM NoStatementFailsForNothing ==
    Spec /\ []MutationsFindTheirObjects => []RefusalsAreJustified
<1>1. TypeOK /\ MutationsFindTheirObjects => RefusalsAreJustified
  <2> SUFFICES ASSUME TypeOK, MutationsFindTheirObjects, NEW i \in DOMAIN Changes,
                      db \in Outcomes(Changes[i])
               PROVE  \/ Graph \in Contract!Effects(Graph, Changes[i].query)
                      \/ Contract!MayBeRefused(Graph, Changes[i].query)
      BY DEF RefusalsAreJustified, Every, JustifiesRefusal
  <2>1. PICK c : c = Changes[i]
    OBVIOUS
  <2>2. Typed(db) /\ FindsItsObjects(c) /\ db \in Outcomes(c)
    BY <2>1, TypedIs DEF MutationsFindTheirObjects, Every
  <2>3. Meant(c.query, db)
    BY <2>1, <2>2, OutcomesMeant
  <2>4. QED
    BY <2>1, <2>3 DEF Meant
<1>2. QED
    BY <1>1, StatementsKeepTables, PTL

=============================================================================
