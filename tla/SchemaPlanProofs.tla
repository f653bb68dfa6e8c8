-------------------------- MODULE SchemaPlanProofs --------------------------
(***************************************************************************)
(* What the plans of SchemaPlan do, for any catalogs.                      *)
(*                                                                         *)
(* Executed to its end, a plan leaves catalog rows from which the desired  *)
(* catalog is loaded again (Describes), and exactly the tables and indexes *)
(* that catalog needs (TablesStored).  Of the states on the way there, it  *)
(* is enough that each statement only adds, in the plan's order, and that  *)
(* no two statements of a plan create tables of the same name.             *)
(***************************************************************************)
EXTENDS SchemaStore, CommonProofs

-----------------------------------------------------------------------------
\* Catalogs as sets of objects

\* A field is a record of six entries, so equal entries make equal fields.
IsField(f) ==
    f = [kind |-> f.kind, name |-> f.name, type |-> f.type,
         cardinality |-> f.cardinality, unique |-> f.unique, inverse |-> f.inverse]

\* A list of named objects with lists of fields, no name twice.
IsCatalog(catalog) ==
    /\ IsList(catalog) /\ DistinctNames(catalog)
    /\ \A o \in ToSet(catalog) :
          /\ IsList(o.fields) /\ DistinctNames(o.fields)
          /\ \A f \in ToSet(o.fields) : IsField(f)

LEMMA NameDetermines ==
    ASSUME NEW seq, DistinctNames(seq), NEW x \in ToSet(seq), NEW y \in ToSet(seq),
           x.name = y.name
    PROVE  x = y
BY DEF DistinctNames, ToSet

LEMMA FindTypeFinds ==
    ASSUME NEW catalog, DistinctNames(catalog), NEW object \in ToSet(catalog)
    PROVE  FindType(catalog, object.name) = object
<1>1. \A other \in ToSet(catalog) : other.name = object.name => other = object
    BY NameDetermines
<1>2. QED
    BY <1>1 DEF FindType

\* A catalog that parse_schema returns.
LEMMA DeclaredCatalog ==
    ASSUME NEW catalog \in Catalogs, ValidCatalog(catalog)
    PROVE  IsCatalog(catalog)
<1>1. IsList(catalog) /\ DistinctNames(catalog)
    BY ListOfSet DEF Catalogs, ValidCatalog
<1>2. ASSUME NEW o \in ToSet(catalog)
      PROVE  /\ IsList(o.fields) /\ DistinctNames(o.fields)
             /\ \A f \in ToSet(o.fields) : IsField(f)
  <2>1. o \in DeclaredObject
    BY DEF Catalogs, ToSet
  <2>2. o.fields \in Seq(DeclaredField)
    BY <2>1 DEF DeclaredObject
  <2>3. IsList(o.fields) /\ \A f \in ToSet(o.fields) : f \in DeclaredField
    BY <2>2, ListOfSet DEF ToSet
  <2>4. \A f \in DeclaredField : IsField(f)
    BY DEF DeclaredField, IsField
  <2>5. DistinctNames(o.fields)
    BY DEF ValidCatalog
  <2>6. QED
    BY <2>3, <2>4, <2>5
<1>3. QED
    BY <1>1, <1>2 DEF IsCatalog

\* A migration that is not refused keeps every object with all its fields as
\* they are, and adds to it only fields that old rows have a value for.
LEMMA SupportedKeepsFields ==
    ASSUME NEW current, NEW desired, IsCatalog(current), IsCatalog(desired),
           Supported(current, desired), NEW object \in ToSet(current)
    PROVE  \E kept \in ToSet(desired) :
              /\ kept.name = object.name
              /\ ToSet(object.fields) \subseteq ToSet(kept.fields)
              /\ \A f \in ToSet(kept.fields) \ ToSet(object.fields) :
                    f.name \notin FieldNames(object) /\ ValidFieldAddition(f)
<1>1. PICK kept \in ToSet(desired) :
          /\ kept.name = object.name
          /\ \A f \in ToSet(object.fields) :
                \E same \in ToSet(kept.fields) : same.name = f.name /\ SameField(f, same)
    BY DEF Supported, NothingRemovedOrChanged
<1>2. /\ \A f \in ToSet(object.fields) : IsField(f)
      /\ DistinctNames(kept.fields) /\ \A f \in ToSet(kept.fields) : IsField(f)
    BY DEF IsCatalog
<1>3. ASSUME NEW f \in ToSet(object.fields) PROVE f \in ToSet(kept.fields)
  <2>1. PICK same \in ToSet(kept.fields) : same.name = f.name /\ SameField(f, same)
    BY <1>1
  <2>2. IsField(same) /\ IsField(f)
    BY <1>2
  <2>3. same = f
    BY <2>1, <2>2 DEF SameField, IsField
  <2>4. QED
    BY <2>3
<1>4. ASSUME NEW f \in ToSet(kept.fields) \ ToSet(object.fields)
      PROVE  f.name \notin FieldNames(object) /\ ValidFieldAddition(f)
  <2>1. f.name \notin FieldNames(object)
    <3> SUFFICES ASSUME NEW g \in ToSet(object.fields), g.name = f.name PROVE FALSE
        BY DEF FieldNames
    <3>1. g = f
      BY <1>2, <1>3, NameDetermines
    <3>2. QED
      BY <1>4, <3>1
  <2>2. kept.name \in TypeNames(current) /\ FindType(current, kept.name) = object
    BY <1>1, FindTypeFinds DEF TypeNames, IsCatalog
  <2>3. QED
    BY <2>1, <2>2 DEF Supported, AdditionsSupported
<1>5. QED
    BY <1>1, <1>3, <1>4

-----------------------------------------------------------------------------
\* The lists plans are made from

\* The order of names has every name of the catalog.
NamesOrdered(catalog) ==
    /\ IsList(NameOrder)
    /\ \A o \in ToSet(catalog) :
          {o.name} \cup FieldNames(o) \subseteq ToSet(NameOrder)

LEMMA SortedByNameItems ==
    ASSUME IsList(NameOrder), NEW items, IsFiniteSet(items),
           \A x \in items : x.name \in ToSet(NameOrder),
           \A x, y \in items : x.name = y.name => x = y
    PROVE  /\ IsList(SortedByName(items)) /\ ToSet(SortedByName(items)) = items
           /\ Len(SortedByName(items)) = Cardinality(items)
           /\ \A i, j \in DOMAIN SortedByName(items) :
                  SortedByName(items)[i] = SortedByName(items)[j] => i = j
<1> DEFINE key == [item \in items |-> CHOOSE i \in DOMAIN NameOrder : NameOrder[i] = item.name]
<1>1. DOMAIN NameOrder \subseteq Nat
    BY ListLength
<1>2. \A x \in items : key[x] \in DOMAIN NameOrder /\ NameOrder[key[x]] = x.name
    BY DEF ToSet
<1>3. SortedByName(items) = SortedByKey(items, key)
    BY DEF SortedByName
<1> HIDE DEF key
<1>4. (\A x \in items : key[x] \in Nat) /\ (\A x, y \in items : key[x] = key[y] => x = y)
    BY <1>1, <1>2
<1>5. QED
    BY <1>3, <1>4, SortedItems

LEMMA SortedObjectsItems ==
    ASSUME NEW catalog, IsCatalog(catalog), NamesOrdered(catalog)
    PROVE  /\ IsList(SortedObjects(catalog)) /\ ToSet(SortedObjects(catalog)) = ToSet(catalog)
           /\ \A i, j \in DOMAIN SortedObjects(catalog) :
                  SortedObjects(catalog)[i] = SortedObjects(catalog)[j] => i = j
<1>1. IsFiniteSet(ToSet(catalog)) /\ \A x, y \in ToSet(catalog) : x.name = y.name => x = y
    BY ListFinite, NameDetermines DEF IsCatalog
<1>2. \A x \in ToSet(catalog) : x.name \in ToSet(NameOrder)
    BY DEF NamesOrdered
<1>3. QED
    BY <1>1, <1>2, SortedByNameItems DEF SortedObjects, NamesOrdered

LEMMA SortedFieldsItems ==
    ASSUME NEW catalog, IsCatalog(catalog), NamesOrdered(catalog), NEW o \in ToSet(catalog)
    PROVE  /\ IsList(SortedFields(o)) /\ ToSet(SortedFields(o)) = ToSet(o.fields)
           /\ \A i, j \in DOMAIN SortedFields(o) :
                  SortedFields(o)[i] = SortedFields(o)[j] => i = j
<1>1. IsFiniteSet(ToSet(o.fields)) /\ \A x, y \in ToSet(o.fields) : x.name = y.name => x = y
    BY ListFinite, NameDetermines DEF IsCatalog
<1>2. \A x \in ToSet(o.fields) : x.name \in ToSet(NameOrder)
    BY DEF NamesOrdered, FieldNames
<1>3. QED
    BY <1>1, <1>2, SortedByNameItems DEF SortedFields, NamesOrdered

\* A filtered list has the items at the places it keeps.
LEMMA FilterPlaces ==
    ASSUME NEW seq, IsList(seq), NEW kept, kept \subseteq DOMAIN seq,
           NEW list, list = [n \in DOMAIN SortedByKey(kept, [i \in kept |-> i]) |->
                                 seq[SortedByKey(kept, [i \in kept |-> i])[n]]]
    PROVE  IsList(list) /\ ToSet(list) = {seq[i] : i \in kept}
<1>1. PICK order : order = SortedByKey(kept, [i \in kept |-> i])
    OBVIOUS
<1>2. list = [n \in DOMAIN order |-> seq[order[n]]]
    BY <1>1
<1>3. QED
    BY <1>1, <1>2, FilteredItems

LEMMA NewObjectsItems ==
    ASSUME NEW current, NEW desired, IsCatalog(desired), NamesOrdered(desired)
    PROVE  /\ IsList(NewObjects(current, desired))
           /\ ToSet(NewObjects(current, desired)) = {o \in ToSet(desired) : o.name \notin TypeNames(current)}
<1>1. PICK seq : seq = SortedObjects(desired)
    OBVIOUS
<1>2. IsList(seq) /\ ToSet(seq) = ToSet(desired)
    BY <1>1, SortedObjectsItems
<1>3. PICK kept : kept = {i \in DOMAIN seq : seq[i].name \notin TypeNames(current)}
    OBVIOUS
<1>4. NewObjects(current, desired) =
          [n \in DOMAIN SortedByKey(kept, [i \in kept |-> i]) |->
              seq[SortedByKey(kept, [i \in kept |-> i])[n]]]
    BY <1>1, <1>3 DEF NewObjects, Filter
<1>5. /\ IsList(NewObjects(current, desired))
      /\ ToSet(NewObjects(current, desired)) = {seq[i] : i \in kept}
  <2>1. IsList(seq) /\ kept \subseteq DOMAIN seq
    BY <1>2, <1>3
  <2>2. QED
    BY ONLY <1>4, <2>1, FilterPlaces
<1>6. {seq[i] : i \in kept} = {o \in ToSet(seq) : o.name \notin TypeNames(current)}
    BY <1>3 DEF ToSet
<1>7. QED
    BY <1>2, <1>5, <1>6

LEMMA KeptObjectsItems ==
    ASSUME NEW current, NEW desired, IsCatalog(desired), NamesOrdered(desired)
    PROVE  /\ IsList(KeptObjects(current, desired))
           /\ ToSet(KeptObjects(current, desired)) = {o \in ToSet(desired) : o.name \in TypeNames(current)}
<1>1. PICK seq : seq = SortedObjects(desired)
    OBVIOUS
<1>2. IsList(seq) /\ ToSet(seq) = ToSet(desired)
    BY <1>1, SortedObjectsItems
<1>3. PICK kept : kept = {i \in DOMAIN seq : seq[i].name \in TypeNames(current)}
    OBVIOUS
<1>4. KeptObjects(current, desired) =
          [n \in DOMAIN SortedByKey(kept, [i \in kept |-> i]) |->
              seq[SortedByKey(kept, [i \in kept |-> i])[n]]]
    BY <1>1, <1>3 DEF KeptObjects, Filter
<1>5. /\ IsList(KeptObjects(current, desired))
      /\ ToSet(KeptObjects(current, desired)) = {seq[i] : i \in kept}
  <2>1. IsList(seq) /\ kept \subseteq DOMAIN seq
    BY <1>2, <1>3
  <2>2. QED
    BY ONLY <1>4, <2>1, FilterPlaces
<1>6. {seq[i] : i \in kept} = {o \in ToSet(seq) : o.name \in TypeNames(current)}
    BY <1>3 DEF ToSet
<1>7. QED
    BY <1>2, <1>5, <1>6

LEMMA AddedFieldsItems ==
    ASSUME NEW current, NEW desired, IsCatalog(desired), NamesOrdered(desired),
           NEW o \in ToSet(desired)
    PROVE  /\ IsList(AddedFields(current, o))
           /\ ToSet(AddedFields(current, o)) = {f \in ToSet(o.fields) : f.name \notin FieldNames(FindType(current, o.name))}
<1>1. PICK seq : seq = SortedFields(o)
    OBVIOUS
<1>2. IsList(seq) /\ ToSet(seq) = ToSet(o.fields)
    BY <1>1, SortedFieldsItems
<1>3. PICK kept : kept = {i \in DOMAIN seq : seq[i].name \notin FieldNames(FindType(current, o.name))}
    OBVIOUS
<1>4. AddedFields(current, o) =
          [n \in DOMAIN SortedByKey(kept, [i \in kept |-> i]) |->
              seq[SortedByKey(kept, [i \in kept |-> i])[n]]]
    BY <1>1, <1>3 DEF AddedFields, Filter
<1>5. /\ IsList(AddedFields(current, o))
      /\ ToSet(AddedFields(current, o)) = {seq[i] : i \in kept}
  <2>1. IsList(seq) /\ kept \subseteq DOMAIN seq
    BY <1>2, <1>3
  <2>2. PICK list : list = AddedFields(current, o)
    OBVIOUS
  <2>3. list = [n \in DOMAIN SortedByKey(kept, [i \in kept |-> i]) |->
                    seq[SortedByKey(kept, [i \in kept |-> i])[n]]]
    BY <1>4, <2>2
  <2>4. IsList(list) /\ ToSet(list) = {seq[i] : i \in kept}
    BY ONLY <2>1, <2>3, FilterPlaces
  <2>5. QED
    BY <2>2, <2>4
<1>6. {seq[i] : i \in kept} = {f \in ToSet(seq) : f.name \notin FieldNames(FindType(current, o.name))}
    BY <1>3 DEF ToSet
<1>7. QED
    BY <1>2, <1>5, <1>6

LEMMA ColumnFields ==
    ASSUME NEW fields, IsList(fields)
    PROVE  /\ IsList(Filter(fields, HasColumn))
           /\ ToSet(Filter(fields, HasColumn)) = {f \in ToSet(fields) : HasColumn(f)}
<1>1. PICK seq : seq = fields
    OBVIOUS
<1>2. IsList(seq) /\ ToSet(seq) = ToSet(fields)
    BY <1>1
<1>3. PICK kept : kept = {i \in DOMAIN seq : HasColumn(seq[i])}
    OBVIOUS
<1>4. Filter(fields, HasColumn) =
          [n \in DOMAIN SortedByKey(kept, [i \in kept |-> i]) |->
              seq[SortedByKey(kept, [i \in kept |-> i])[n]]]
    BY <1>1, <1>3 DEF Filter
<1>5. /\ IsList(Filter(fields, HasColumn))
      /\ ToSet(Filter(fields, HasColumn)) = {seq[i] : i \in kept}
  <2>1. IsList(seq) /\ kept \subseteq DOMAIN seq
    BY <1>2, <1>3
  <2>2. QED
    BY ONLY <1>4, <2>1, FilterPlaces
<1>6. {seq[i] : i \in kept} = {f \in ToSet(seq) : HasColumn(f)}
    BY <1>3 DEF ToSet
<1>7. QED
    BY <1>2, <1>5, <1>6

LEMMA RelationFields ==
    ASSUME NEW fields, IsList(fields)
    PROVE  /\ IsList(Filter(fields, HasRelationTable))
           /\ ToSet(Filter(fields, HasRelationTable)) = {f \in ToSet(fields) : HasRelationTable(f)}
<1>1. PICK seq : seq = fields
    OBVIOUS
<1>2. IsList(seq) /\ ToSet(seq) = ToSet(fields)
    BY <1>1
<1>3. PICK kept : kept = {i \in DOMAIN seq : HasRelationTable(seq[i])}
    OBVIOUS
<1>4. Filter(fields, HasRelationTable) =
          [n \in DOMAIN SortedByKey(kept, [i \in kept |-> i]) |->
              seq[SortedByKey(kept, [i \in kept |-> i])[n]]]
    BY <1>1, <1>3 DEF Filter
<1>5. /\ IsList(Filter(fields, HasRelationTable))
      /\ ToSet(Filter(fields, HasRelationTable)) = {seq[i] : i \in kept}
  <2>1. IsList(seq) /\ kept \subseteq DOMAIN seq
    BY <1>2, <1>3
  <2>2. QED
    BY ONLY <1>4, <2>1, FilterPlaces
<1>6. {seq[i] : i \in kept} = {f \in ToSet(seq) : HasRelationTable(f)}
    BY <1>3 DEF ToSet
<1>7. QED
    BY <1>2, <1>5, <1>6

-----------------------------------------------------------------------------
\* Loading catalog rows

\* Rows with the keys that the catalog tables declare.
KeyedRows(objects, fields) ==
    /\ IsFiniteSet(objects) /\ IsFiniteSet(fields)
    /\ \A o \in objects : o.object_id \in Nat
    /\ \A row \in fields : row.field_id \in Nat
    /\ \A a, b \in objects : a.object_id = b.object_id \/ a.name = b.name => a = b
    /\ \A a, b \in fields : a.object_id = b.object_id /\ a.field_id = b.field_id => a = b

\* Objects are numbered from one on.
DenseIds(objects) == {o.object_id : o \in objects} = 1..Cardinality(objects)

DeclaredOf(object, fields) ==
    {row \in fields : row.object_id = object.object_id /\ ~row.is_implicit}

LoadedObject(object, objects, fields) ==
    ObjectType(object.name,
        [j \in DOMAIN DeclaredRows(object, fields) |->
            FieldFromRow(DeclaredRows(object, fields)[j], objects)])

\* Every declared row of an object makes one of its fields.
LEMMA LoadedFields ==
    ASSUME NEW objects, NEW fields, KeyedRows(objects, fields), NEW o \in objects
    PROVE  /\ LoadedObject(o, objects, fields).name = o.name
           /\ IsList(LoadedObject(o, objects, fields).fields)
           /\ ToSet(LoadedObject(o, objects, fields).fields) =
                  {FieldFromRow(row, objects) : row \in DeclaredOf(o, fields)}
           /\ (\A a, b \in DeclaredOf(o, fields) : a.name = b.name => a = b)
                 => DistinctNames(LoadedObject(o, objects, fields).fields)
<1> DEFINE key == [row \in DeclaredOf(o, fields) |-> row.field_id]
<1>1. IsFiniteSet(DeclaredOf(o, fields))
    BY FS_Subset DEF DeclaredOf, KeyedRows
<1>2. /\ \A x \in DeclaredOf(o, fields) : key[x] \in Nat
      /\ \A x, y \in DeclaredOf(o, fields) : key[x] = key[y] => x = y
    BY DEF DeclaredOf, KeyedRows
<1>3. PICK rows : rows = DeclaredRows(o, fields)
    OBVIOUS
<1>4. rows = SortedByKey(DeclaredOf(o, fields), key)
    BY <1>3 DEF DeclaredRows, DeclaredOf
<1> HIDE DEF key
<1>5. /\ IsList(rows) /\ ToSet(rows) = DeclaredOf(o, fields)
      /\ \A i, j \in DOMAIN rows : rows[i] = rows[j] => i = j
    BY <1>1, <1>2, <1>4, SortedItems
<1>6. PICK list : list = [j \in DOMAIN rows |-> FieldFromRow(rows[j], objects)]
    OBVIOUS
<1>7. LoadedObject(o, objects, fields) = ObjectType(o.name, list)
    BY <1>3, <1>6 DEF LoadedObject
<1>8. LoadedObject(o, objects, fields).name = o.name
      /\ LoadedObject(o, objects, fields).fields = list
    BY <1>7 DEF ObjectType
<1>9. Len(rows) \in Nat /\ DOMAIN rows = 1..Len(rows)
    BY <1>5, ListLength
<1>10. list = [i \in 1..Len(rows) |-> list[i]]
    BY <1>6, <1>9
<1>11. IsList(list) /\ DOMAIN list = DOMAIN rows
    BY <1>9, <1>10, ListFromFunction
<1>12. ToSet(list) = {FieldFromRow(row, objects) : row \in DeclaredOf(o, fields)}
  <2>1. ToSet(list) = {FieldFromRow(rows[i], objects) : i \in DOMAIN rows}
    BY <1>6, <1>11 DEF ToSet
  <2>2. DeclaredOf(o, fields) = {rows[i] : i \in DOMAIN rows}
    BY <1>5 DEF ToSet
  <2>3. QED
    BY <2>1, <2>2
<1>13. ASSUME \A a, b \in DeclaredOf(o, fields) : a.name = b.name => a = b
       PROVE  DistinctNames(list)
  <2>1. \A i \in DOMAIN rows : rows[i] \in DeclaredOf(o, fields) /\ list[i].name = rows[i].name
    BY <1>5, <1>6 DEF ToSet, FieldFromRow
  <2>2. QED
    BY <1>5, <1>11, <1>13, <2>1 DEF DistinctNames
<1>14. QED
    BY <1>8, <1>11, <1>12, <1>13

\* Every object row makes one object of the catalog, in the order of the ids.
LEMMA LoadedObjects ==
    ASSUME NEW objects, NEW fields, KeyedRows(objects, fields),
           NEW catalog, catalog = CatalogFromRows(objects, fields)
    PROVE  /\ IsList(catalog) /\ Len(catalog) = Cardinality(objects)
           /\ ToSet(catalog) = {LoadedObject(o, objects, fields) : o \in objects}
           /\ DistinctNames(catalog)
           /\ DenseIds(objects) =>
                 \A o \in objects : o.object_id \in DOMAIN catalog
                                    /\ catalog[o.object_id].name = o.name
<1> DEFINE key == [row \in objects |-> row.object_id]
<1>1. /\ IsFiniteSet(objects) /\ \A x \in objects : key[x] \in Nat
      /\ \A x, y \in objects : key[x] = key[y] => x = y
    BY DEF KeyedRows
<1>2. PICK rows : rows = SortedByKey(objects, key)
    OBVIOUS
<1>3. catalog = [i \in DOMAIN rows |-> LoadedObject(rows[i], objects, fields)]
    BY <1>2 DEF CatalogFromRows, LoadedObject
<1>4. \A x \in objects : key[x] = x.object_id
    OBVIOUS
<1>5. {key[x] : x \in objects} = {x.object_id : x \in objects}
    OBVIOUS
<1> HIDE DEF key
<1>6. /\ IsList(rows) /\ ToSet(rows) = objects /\ Len(rows) = Cardinality(objects)
      /\ \A i, j \in DOMAIN rows : rows[i] = rows[j] => i = j
    BY <1>1, <1>2, SortedItems
<1>7. Len(rows) \in Nat /\ DOMAIN rows = 1..Len(rows)
    BY <1>6, ListLength
<1>8. catalog = [i \in 1..Len(rows) |-> catalog[i]]
    BY <1>3, <1>7
<1>9. IsList(catalog) /\ Len(catalog) = Len(rows) /\ DOMAIN catalog = DOMAIN rows
    BY <1>7, <1>8, ListFromFunction
<1>10. ToSet(catalog) = {LoadedObject(o, objects, fields) : o \in objects}
  <2>1. ToSet(catalog) = {LoadedObject(rows[i], objects, fields) : i \in DOMAIN rows}
    BY <1>3, <1>9 DEF ToSet
  <2>2. objects = {rows[i] : i \in DOMAIN rows}
    BY <1>6 DEF ToSet
  <2>3. QED
    BY <2>1, <2>2
<1>11. \A i \in DOMAIN catalog : rows[i] \in objects /\ catalog[i].name = rows[i].name
  <2>1. ASSUME NEW i \in DOMAIN catalog
        PROVE  rows[i] \in objects /\ catalog[i].name = rows[i].name
    <3>1. rows[i] \in objects /\ catalog[i] = LoadedObject(rows[i], objects, fields)
      BY <1>3, <1>6, <1>9, <2>1 DEF ToSet
    <3>2. QED
      BY <3>1, LoadedFields
  <2>2. QED
    BY <2>1
<1>12. DistinctNames(catalog)
  <2>1. \A a, b \in objects : a.name = b.name => a = b
    BY DEF KeyedRows
  <2>2. QED
    BY <1>6, <1>9, <1>11, <2>1 DEF DistinctNames
<1>13. ASSUME DenseIds(objects), NEW o \in objects
       PROVE  o.object_id \in DOMAIN catalog /\ catalog[o.object_id].name = o.name
  <2>1. {key[x] : x \in objects} = 1..Cardinality(objects)
    BY <1>5, <1>13 DEF DenseIds
  <2>2. OrderedByKey(rows, objects, key)
    BY <1>1, <1>2, SortedByKeyIsOrdered
  <2>3. \A i \in 1..Cardinality(objects) : key[rows[i]] = i
    BY <1>1, <2>1, <2>2, SortedByPosition
  <2>4. o.object_id \in 1..Cardinality(objects)
    BY <1>13 DEF DenseIds
  <2>5. o.object_id \in DOMAIN catalog
    BY <1>6, <1>7, <1>9, <2>4
  <2>6. rows[o.object_id] \in objects /\ rows[o.object_id].object_id = o.object_id
    BY <1>4, <1>11, <2>3, <2>4, <2>5
  <2>7. rows[o.object_id] = o
    BY <2>6 DEF KeyedRows
  <2>8. QED
    BY <1>11, <2>5, <2>7
<1>14. QED
    BY <1>6, <1>9, <1>10, <1>12, <1>13

-----------------------------------------------------------------------------
\* What catalog rows say

\* A row of object row o that stands for field f.
IsRowOf(row, o, f, objects) ==
    /\ row = DeclaredFieldRow(o.object_id, row.field_id, f, row.target_object_id)
    /\ f.kind = "link" => \E target \in objects :
          target.object_id = row.target_object_id /\ target.name = f.type

\* The rows say what the snapshot says: every object of it has a row and an
\* implicit id, every field of it has one row, and there are no other rows.
Describes(objects, fields, snapshot) ==
    /\ KeyedRows(objects, fields) /\ DenseIds(objects)
    /\ {o.name : o \in objects} = {s.name : s \in snapshot}
    /\ \A o \in objects : ImplicitIdRow(o.object_id) \in fields
    /\ \A row \in fields : row.is_implicit =>
          \E o \in objects : row = ImplicitIdRow(o.object_id)
    /\ \A row \in fields : ~row.is_implicit =>
          \E o \in objects, s \in snapshot :
              s.name = o.name /\ \E f \in s.fields : IsRowOf(row, o, f, objects)
    /\ \A o \in objects, s \in snapshot : s.name = o.name =>
          \A f \in s.fields : \E row \in fields :
              /\ IsRowOf(row, o, f, objects)
              /\ \A other \in fields : IsRowOf(other, o, f, objects) => other = row

\* A catalog that a user can have declared.
Declarable(catalog) == catalog \in Catalogs /\ ValidCatalog(catalog)

LEMMA RowMakesField ==
    ASSUME NEW objects, NEW fields, KeyedRows(objects, fields), NEW o \in objects,
           NEW f \in DeclaredField, NEW row, IsRowOf(row, o, f, objects)
    PROVE  /\ FieldFromRow(row, objects) = f
           /\ row.object_id = o.object_id /\ row.name = f.name /\ ~row.is_implicit
           /\ row.kind = f.kind /\ row.cardinality = f.cardinality
           /\ row.is_unique = f.unique /\ row.inverse = f.inverse
           /\ f.kind = "scalar" => row.scalar_type = f.type /\ row.target_object_id = None
           /\ f.kind = "link" => row.scalar_type = None
<1>1. row = DeclaredFieldRow(o.object_id, row.field_id, f, row.target_object_id)
    BY DEF IsRowOf
<1>2. f.kind \in {"scalar", "link"} /\ IsField(f)
    BY DEF DeclaredField, IsField
<1>3. /\ row.object_id = o.object_id /\ row.name = f.name /\ row.is_implicit = FALSE
      /\ row.kind = f.kind /\ row.cardinality = f.cardinality
      /\ row.is_unique = f.unique /\ row.inverse = f.inverse
      /\ row.scalar_type = IF f.kind = "scalar" THEN f.type ELSE None
      /\ row.target_object_id = IF f.kind = "link" THEN row.target_object_id ELSE None
  <2>1. PICK id, target : id = row.field_id /\ target = row.target_object_id
    OBVIOUS
  <2>2. row = DeclaredFieldRow(o.object_id, id, f, target)
    BY <1>1, <2>1
  <2>3. QED
    BY <2>1, <2>2 DEF DeclaredFieldRow, FieldRow
<1>4. FieldFromRow(row, objects).type = f.type
  <2>1. CASE f.kind = "scalar"
    BY <1>3, <2>1 DEF FieldFromRow
  <2>2. CASE f.kind = "link"
    <3>1. PICK target \in objects : target.object_id = row.target_object_id /\ target.name = f.type
      BY <2>2 DEF IsRowOf
    <3>2. \A other \in objects : other.object_id = row.target_object_id => other = target
      BY <3>1 DEF KeyedRows
    <3>3. (CHOOSE x \in objects : x.object_id = row.target_object_id) = target
      BY <3>1, <3>2
    <3>4. row.kind # "scalar"
      BY <1>3, <2>2
    <3>5. QED
      BY <3>1, <3>3, <3>4 DEF FieldFromRow
  <2>3. QED
    BY <1>2, <2>1, <2>2
<1>5. FieldFromRow(row, objects) = [kind |-> f.kind, name |-> f.name, type |-> f.type,
          cardinality |-> f.cardinality, unique |-> f.unique, inverse |-> f.inverse]
    BY <1>3, <1>4 DEF FieldFromRow
<1>6. FieldFromRow(row, objects) = f
    BY <1>2, <1>5 DEF IsField
<1>7. QED
    BY <1>3, <1>6

\* The objects of a snapshot.
LEMMA SnapshotObjects ==
    ASSUME NEW catalog, Declarable(catalog), NEW s \in Snapshot(catalog)
    PROVE  /\ \E o \in ToSet(catalog) : s.name = o.name /\ s.fields = ToSet(o.fields)
           /\ s.fields \subseteq DeclaredField
           /\ \A f, g \in s.fields : f.name = g.name => f = g
           /\ \A t \in Snapshot(catalog) : t.name = s.name => t = s
<1>1. IsCatalog(catalog)
    BY DeclaredCatalog DEF Declarable
<1>2. PICK o \in ToSet(catalog) : s = [name |-> o.name, fields |-> ToSet(o.fields)]
    BY DEF Snapshot
<1>3. s.name = o.name /\ s.fields = ToSet(o.fields)
    BY <1>2
<1>4. o \in DeclaredObject
    BY DEF Declarable, Catalogs, ToSet
<1>5. ToSet(o.fields) \subseteq DeclaredField
    BY <1>4 DEF DeclaredObject, ToSet
<1>6. \A f, g \in ToSet(o.fields) : f.name = g.name => f = g
    BY <1>1, NameDetermines DEF IsCatalog
<1>7. ASSUME NEW t \in Snapshot(catalog), t.name = s.name PROVE t = s
  <2>1. PICK p \in ToSet(catalog) : t = [name |-> p.name, fields |-> ToSet(p.fields)]
    BY DEF Snapshot
  <2>2. p = o
    BY <1>1, <1>3, <1>7, <2>1, NameDetermines DEF IsCatalog
  <2>3. QED
    BY <1>2, <2>1, <2>2
<1>8. QED
    BY <1>3, <1>5, <1>6, <1>7

\* The declared rows of an object make exactly the fields of the snapshot.
LEMMA DescribedFields ==
    ASSUME NEW objects, NEW fields, NEW catalog, Declarable(catalog),
           Describes(objects, fields, Snapshot(catalog)),
           NEW o \in objects, NEW s \in Snapshot(catalog), s.name = o.name
    PROVE  /\ {FieldFromRow(row, objects) : row \in DeclaredOf(o, fields)} = s.fields
           /\ \A a, b \in DeclaredOf(o, fields) : a.name = b.name => a = b
           /\ \A row \in DeclaredOf(o, fields) :
                 \E f \in s.fields : IsRowOf(row, o, f, objects)
<1>1. KeyedRows(objects, fields) /\ s.fields \subseteq DeclaredField
    BY SnapshotObjects DEF Describes
<1>2. ASSUME NEW row \in DeclaredOf(o, fields)
      PROVE  \E f \in s.fields : IsRowOf(row, o, f, objects)
  <2>1. row \in fields /\ ~row.is_implicit /\ row.object_id = o.object_id
    BY <1>2 DEF DeclaredOf
  <2>2. PICK p \in objects, t \in Snapshot(catalog) :
            t.name = p.name /\ \E f \in t.fields : IsRowOf(row, p, f, objects)
    BY <2>1 DEF Describes
  <2>3. PICK f \in t.fields : IsRowOf(row, p, f, objects)
    BY <2>2
  <2>4. f \in DeclaredField
    BY <2>3, SnapshotObjects
  <2>5. row.object_id = p.object_id
    BY ONLY <1>1, <2>3, <2>4, RowMakesField
  <2>6. p = o
    BY <1>1, <2>1, <2>5 DEF KeyedRows
  <2>7. t = s
    BY <2>2, <2>6, SnapshotObjects
  <2>8. QED
    BY <2>3, <2>6, <2>7
<1>3. ASSUME NEW f \in s.fields, NEW row, IsRowOf(row, o, f, objects)
      PROVE  /\ FieldFromRow(row, objects) = f /\ row.object_id = o.object_id
             /\ row.name = f.name /\ ~row.is_implicit
  <2>1. KeyedRows(objects, fields) /\ f \in DeclaredField /\ IsRowOf(row, o, f, objects)
    BY <1>1, <1>3
  <2>2. QED
    BY ONLY <2>1, RowMakesField
<1>4. ASSUME NEW f \in s.fields
      PROVE  \E row \in DeclaredOf(o, fields) :
                 /\ FieldFromRow(row, objects) = f
                 /\ \A other \in fields : IsRowOf(other, o, f, objects) => other = row
  <2>1. PICK row \in fields :
            /\ IsRowOf(row, o, f, objects)
            /\ \A other \in fields : IsRowOf(other, o, f, objects) => other = row
    BY DEF Describes
  <2>2. QED
    BY <1>3, <2>1 DEF DeclaredOf
<1>5. {FieldFromRow(row, objects) : row \in DeclaredOf(o, fields)} \subseteq s.fields
    BY <1>2, <1>3
<1>6. s.fields \subseteq {FieldFromRow(row, objects) : row \in DeclaredOf(o, fields)}
    BY <1>4
<1>7. ASSUME NEW a \in DeclaredOf(o, fields), NEW b \in DeclaredOf(o, fields), a.name = b.name
      PROVE  a = b
  <2>1. PICK f \in s.fields : IsRowOf(a, o, f, objects)
    BY <1>2
  <2>2. PICK g \in s.fields : IsRowOf(b, o, g, objects)
    BY <1>2
  <2>3. f.name = g.name
    BY <1>3, <1>7, <2>1, <2>2
  <2>4. f = g
    BY <2>3, SnapshotObjects
  <2>5. a \in fields /\ b \in fields
    BY DEF DeclaredOf
  <2>6. QED
    BY <1>4, <2>1, <2>2, <2>4, <2>5
<1>8. QED
    BY <1>2, <1>5, <1>6, <1>7

\* Two catalogs with the same objects are valid together.
SameObjects(a, b) ==
    \A o \in ToSet(a) : \E p \in ToSet(b) : p.name = o.name /\ ToSet(p.fields) = ToSet(o.fields)

LEMMA ValidBySnapshot ==
    ASSUME NEW a, NEW b, ValidCatalog(b), SameObjects(a, b), SameObjects(b, a),
           DistinctNames(a), \A o \in ToSet(a) : DistinctNames(o.fields)
    PROVE  ValidCatalog(a)
<1>1. TypeNames(a) = TypeNames(b)
    BY DEF TypeNames, SameObjects
<1>2. TypeNames(a) \cap ScalarTypes = {}
    BY <1>1 DEF ValidCatalog
<1>3. ASSUME NEW o \in ToSet(a)
      PROVE  /\ "id" \notin FieldNames(o)
             /\ \A field \in ToSet(o.fields) :
                   field.kind = "link" =>
                       /\ field.type \in TypeNames(a)
                       /\ ~(field.cardinality = "many" /\ field.unique)
                       /\ ValidInverse(a, o, field)
  <2>1. PICK p \in ToSet(b) : p.name = o.name /\ ToSet(p.fields) = ToSet(o.fields)
    BY DEF SameObjects
  <2>2. /\ "id" \notin FieldNames(p)
        /\ \A field \in ToSet(p.fields) :
              field.kind = "link" =>
                  /\ field.type \in TypeNames(b)
                  /\ ~(field.cardinality = "many" /\ field.unique)
                  /\ ValidInverse(b, p, field)
    BY DEF ValidCatalog
  <2>3. FieldNames(p) = FieldNames(o)
    BY <2>1 DEF FieldNames
  <2>4. ASSUME NEW field, ValidInverse(b, p, field)
        PROVE  ValidInverse(a, o, field)
    <3> SUFFICES ASSUME field.inverse # None
                 PROVE  ValidInverse(a, o, field)
        BY DEF ValidInverse
    <3>1. field.cardinality = "many"
      BY <2>4 DEF ValidInverse
    <3>2. PICK target \in ToSet(b) : target.name = field.type /\
            \E source \in ToSet(target.fields) :
                /\ source.name = field.inverse
                /\ source.kind = "link"
                /\ source.inverse = None
                /\ source.type = p.name
      BY <2>4 DEF ValidInverse
    <3>3. PICK same \in ToSet(a) : same.name = target.name /\ ToSet(same.fields) = ToSet(target.fields)
      BY DEF SameObjects
    <3>4. same.name = field.type /\
            \E source \in ToSet(same.fields) :
                /\ source.name = field.inverse
                /\ source.kind = "link"
                /\ source.inverse = None
                /\ source.type = o.name
      BY <2>1, <3>2, <3>3
    <3>5. QED
      BY <3>1, <3>4 DEF ValidInverse
  <2>5. QED
    BY <1>1, <2>1, <2>2, <2>3, <2>4
<1>4. QED
    BY <1>2, <1>3 DEF ValidCatalog

\* Reading the implicit id as field one changes nothing.
LEMMA SameValue ==
    ASSUME NEW f, f = [y \in DOMAIN f |-> f[y]], NEW x, NEW v, f[x] = v
    PROVE  [f EXCEPT ![x] = v] = f
OBVIOUS
LEMMA ImplicitIdKept ==
    ASSUME NEW id
    PROVE  [ImplicitIdRow(id) EXCEPT !.field_id = 1] = ImplicitIdRow(id)
<1>1. PICK r : r = ImplicitIdRow(id)
    OBVIOUS
<1>2. r = [y \in DOMAIN r |-> r[y]]
    BY <1>1 DEF ImplicitIdRow, FieldRow
<1>3. r.field_id = 1
    BY <1>1 DEF ImplicitIdRow, FieldRow
<1>4. [r EXCEPT !.field_id = 1] = r
    BY <1>2, <1>3, SameValue
<1>5. QED
    BY <1>1, <1>4

\* Rows that describe a declared catalog load, and load as that catalog up to
\* the order of its objects and fields.
LEMMA DescribedLoads ==
    ASSUME NEW objects, NEW fields, NEW catalog, Declarable(catalog),
           Describes(objects, fields, Snapshot(catalog)),
           NEW loaded, loaded = CatalogFromRows(objects, fields)
    PROVE  /\ Loadable(objects, fields) /\ Snapshot(loaded) = Snapshot(catalog)
           /\ IsCatalog(loaded) /\ Len(loaded) = Cardinality(objects)
           /\ \A o \in objects :
                 o.object_id \in DOMAIN loaded /\ loaded[o.object_id].name = o.name
<1>1. /\ KeyedRows(objects, fields) /\ DenseIds(objects)
      /\ {o.name : o \in objects} = {s.name : s \in Snapshot(catalog)}
    BY DEF Describes
<1>2. IsCatalog(catalog) /\ ValidCatalog(catalog)
    BY DeclaredCatalog DEF Declarable
<1>3. /\ IsList(loaded) /\ Len(loaded) = Cardinality(objects)
      /\ ToSet(loaded) = {LoadedObject(o, objects, fields) : o \in objects}
      /\ DistinctNames(loaded)
      /\ \A o \in objects : o.object_id \in DOMAIN loaded
                            /\ loaded[o.object_id].name = o.name
    BY <1>1, LoadedObjects
<1> DEFINE Loads(o, s) ==
        /\ LoadedObject(o, objects, fields).name = s.name
        /\ IsList(LoadedObject(o, objects, fields).fields)
        /\ ToSet(LoadedObject(o, objects, fields).fields) = s.fields
        /\ DistinctNames(LoadedObject(o, objects, fields).fields)
<1>4. ASSUME NEW o \in objects, NEW s \in Snapshot(catalog), s.name = o.name
      PROVE  Loads(o, s)
  <2>1. /\ {FieldFromRow(row, objects) : row \in DeclaredOf(o, fields)} = s.fields
        /\ \A a, b \in DeclaredOf(o, fields) : a.name = b.name => a = b
    BY <1>4, DescribedFields
  <2>2. /\ LoadedObject(o, objects, fields).name = o.name
        /\ IsList(LoadedObject(o, objects, fields).fields)
        /\ ToSet(LoadedObject(o, objects, fields).fields) =
               {FieldFromRow(row, objects) : row \in DeclaredOf(o, fields)}
        /\ DistinctNames(LoadedObject(o, objects, fields).fields)
    <3>1. KeyedRows(objects, fields) /\ o \in objects
      BY <1>1
    <3>2. QED
      BY ONLY <2>1, <3>1, LoadedFields
  <2>3. QED
    BY <1>4, <2>1, <2>2
<1>5. /\ \A o \in objects : \E s \in Snapshot(catalog) : s.name = o.name
      /\ \A s \in Snapshot(catalog) : \E o \in objects : s.name = o.name
    BY <1>1
<1> HIDE DEF Loads
<1>6. /\ \A x \in ToSet(loaded) : \E s \in Snapshot(catalog) : \E o \in objects :
            x = LoadedObject(o, objects, fields) /\ Loads(o, s)
      /\ \A s \in Snapshot(catalog) : \E x \in ToSet(loaded) : \E o \in objects :
            x = LoadedObject(o, objects, fields) /\ Loads(o, s)
  <2>1. \A o \in objects : LoadedObject(o, objects, fields) \in ToSet(loaded)
    BY <1>3
  <2>2. \A x \in ToSet(loaded) : \E o \in objects : x = LoadedObject(o, objects, fields)
    BY <1>3
  <2>3. \A o \in objects, s \in Snapshot(catalog) : s.name = o.name => Loads(o, s)
    BY <1>4
  <2>4. QED
    BY ONLY <1>5, <2>1, <2>2, <2>3
<1> USE DEF Loads
<1>7. /\ \A x \in ToSet(loaded) : \E s \in Snapshot(catalog) :
            /\ x.name = s.name /\ IsList(x.fields)
            /\ ToSet(x.fields) = s.fields /\ DistinctNames(x.fields)
      /\ \A s \in Snapshot(catalog) : \E x \in ToSet(loaded) :
            x.name = s.name /\ ToSet(x.fields) = s.fields
    BY <1>6
<1>8. \A s \in Snapshot(catalog) : s = [name |-> s.name, fields |-> s.fields]
    BY DEF Snapshot
<1>9. Snapshot(loaded) = Snapshot(catalog)
  <2>1. ASSUME NEW t \in Snapshot(loaded) PROVE t \in Snapshot(catalog)
    <3>1. PICK x \in ToSet(loaded) : t = [name |-> x.name, fields |-> ToSet(x.fields)]
      BY DEF Snapshot
    <3>2. PICK s \in Snapshot(catalog) : x.name = s.name /\ ToSet(x.fields) = s.fields
      BY <1>7
    <3>3. QED
      BY <1>8, <3>1, <3>2
  <2>2. ASSUME NEW s \in Snapshot(catalog) PROVE s \in Snapshot(loaded)
    <3>1. PICK x \in ToSet(loaded) : x.name = s.name /\ ToSet(x.fields) = s.fields
      BY <1>7
    <3>2. s = [name |-> x.name, fields |-> ToSet(x.fields)]
      BY <1>8, <3>1
    <3>3. QED
      BY <3>2 DEF Snapshot
  <2>3. QED
    BY <2>1, <2>2
<1>10. SameObjects(loaded, catalog)
  <2> SUFFICES ASSUME NEW x \in ToSet(loaded)
               PROVE  \E p \in ToSet(catalog) : p.name = x.name /\ ToSet(p.fields) = ToSet(x.fields)
      BY DEF SameObjects
  <2>1. PICK s \in Snapshot(catalog) : x.name = s.name /\ ToSet(x.fields) = s.fields
    BY <1>7
  <2>2. QED
    BY <2>1, SnapshotObjects
<1>11. SameObjects(catalog, loaded)
  <2> SUFFICES ASSUME NEW p \in ToSet(catalog)
               PROVE  \E x \in ToSet(loaded) : x.name = p.name /\ ToSet(x.fields) = ToSet(p.fields)
      BY DEF SameObjects
  <2>1. PICK s \in Snapshot(catalog) : s = [name |-> p.name, fields |-> ToSet(p.fields)]
    BY DEF Snapshot
  <2>2. QED
    BY <1>7, <2>1
<1>12. ValidCatalog(loaded)
  <2>1. \A o \in ToSet(loaded) : DistinctNames(o.fields)
    BY <1>7
  <2>2. QED
    BY <1>2, <1>3, <1>10, <1>11, <2>1, ValidBySnapshot
<1>13. IsCatalog(loaded)
  <2>1. ASSUME NEW x \in ToSet(loaded), NEW f \in ToSet(x.fields) PROVE IsField(f)
    <3>1. f \in DeclaredField
      BY <1>7, SnapshotObjects
    <3>2. QED
      BY <3>1 DEF DeclaredField, IsField
  <2>2. QED
    BY <1>3, <1>7, <2>1 DEF IsCatalog
<1>14. ASSUME NEW row \in fields, row.is_implicit
       PROVE  /\ OwnerKnown(objects, row) /\ InverseMetadataOk(row) /\ KindMetadataOk(row)
  <2>1. PICK o \in objects : row = ImplicitIdRow(o.object_id)
    BY <1>14 DEF Describes
  <2>2. QED
    BY <2>1 DEF ImplicitIdRow, FieldRow, OwnerKnown, InverseMetadataOk, KindMetadataOk
<1>15. ASSUME NEW row \in fields, ~row.is_implicit
       PROVE  /\ OwnerKnown(objects, row) /\ InverseMetadataOk(row) /\ KindMetadataOk(row)
              /\ FieldRowReadable(row, objects)
  <2>1. PICK o \in objects, s \in Snapshot(catalog) :
            s.name = o.name /\ \E f \in s.fields : IsRowOf(row, o, f, objects)
    BY <1>15 DEF Describes
  <2>2. PICK f \in s.fields : IsRowOf(row, o, f, objects)
    BY <2>1
  <2>3. f \in DeclaredField
    BY SnapshotObjects
  <2>4. /\ row.object_id = o.object_id /\ row.kind = f.kind /\ row.cardinality = f.cardinality
        /\ row.is_unique = f.unique /\ row.inverse = f.inverse
        /\ f.kind = "scalar" => row.scalar_type = f.type /\ row.target_object_id = None
        /\ f.kind = "link" => row.scalar_type = None
    BY ONLY <1>1, <2>2, <2>3, RowMakesField
  <2>5. OwnerKnown(objects, row) /\ KindMetadataOk(row)
    BY <2>4 DEF OwnerKnown, KindMetadataOk
  <2>6. FieldRowReadable(row, objects)
    <3>1. f.kind = "link" => \E target \in objects : target.object_id = row.target_object_id
      BY <2>2 DEF IsRowOf
    <3>2. \/ f.kind = "scalar" /\ f.type \in ScalarTypes /\ f.cardinality \in {"required", "optional"}
          \/ f.kind = "link"
      BY <2>3 DEF DeclaredField
    <3>3. QED
      BY <2>4, <3>1, <3>2 DEF FieldRowReadable
  <2>7. InverseMetadataOk(row)
    <3>1. PICK p \in ToSet(catalog) : s.name = p.name /\ s.fields = ToSet(p.fields)
      BY SnapshotObjects
    <3>2. f.kind = "link" => ~(f.cardinality = "many" /\ f.unique) /\ ValidInverse(catalog, p, f)
      BY <1>2, <3>1 DEF ValidCatalog
    <3>3. f.inverse # None => f.kind = "link"
      BY <2>3 DEF DeclaredField
    <3>4. f.inverse # None => f.kind = "link" /\ ~f.unique
      BY <3>2, <3>3 DEF ValidInverse
    <3>5. QED
      BY <1>15, <2>4, <3>4 DEF InverseMetadataOk
  <2>8. QED
    BY <2>5, <2>6, <2>7
<1>16. ASSUME NEW o \in objects PROVE HasOneImplicitId(o, fields)
  <2>1. PICK implicit : implicit = {row \in fields : row.object_id = o.object_id /\ row.is_implicit}
    OBVIOUS
  <2>2. ImplicitIdRow(o.object_id) \in implicit
    BY <2>1 DEF Describes, ImplicitIdRow, FieldRow
  <2>3. ASSUME NEW row \in implicit PROVE row = ImplicitIdRow(o.object_id)
    <3>1. PICK p \in objects : row = ImplicitIdRow(p.object_id)
      BY <2>1 DEF Describes
    <3>2. p.object_id = o.object_id
      BY <2>1, <3>1 DEF ImplicitIdRow, FieldRow
    <3>3. QED
      BY <3>1, <3>2
  <2>4. [ImplicitIdRow(o.object_id) EXCEPT !.field_id = 1] = ImplicitIdRow(o.object_id)
    BY ImplicitIdKept
  <2>5. implicit = {ImplicitIdRow(o.object_id)}
    BY <2>2, <2>3
  <2>6. QED
    BY <2>1, <2>2, <2>4, <2>5 DEF HasOneImplicitId
<1>17. Loadable(objects, fields)
  <2>1. /\ \A row \in fields : OwnerKnown(objects, row)
        /\ \A row \in fields : InverseMetadataOk(row) /\ KindMetadataOk(row)
        /\ \A row \in fields : ~row.is_implicit => FieldRowReadable(row, objects)
    BY <1>14, <1>15
  <2>2. QED
    BY <1>12, <1>16, <2>1 DEF Loadable
<1>18. QED
    BY <1>3, <1>9, <1>13, <1>17

-----------------------------------------------------------------------------
\* The statements of a plan

\* A list made from another place by place.
LEMMA MappedList ==
    ASSUME NEW seq, IsList(seq), NEW list, list = [i \in DOMAIN seq |-> list[i]]
    PROVE  /\ IsList(list) /\ DOMAIN list = DOMAIN seq /\ Len(list) = Len(seq)
           /\ ToSet(list) = {list[i] : i \in DOMAIN seq}
<1>1. Len(seq) \in Nat /\ DOMAIN seq = 1..Len(seq)
    BY ListLength
<1>2. list = [i \in 1..Len(seq) |-> list[i]]
    BY <1>1
<1>3. QED
    BY <1>1, <1>2, ListFromFunction

LEMMA FlatMappedList ==
    ASSUME NEW seq, IsList(seq), NEW lists, lists = [i \in DOMAIN seq |-> lists[i]],
           \A i \in DOMAIN seq : IsList(lists[i])
    PROVE  /\ IsList(FlattenSeq(lists))
           /\ ToSet(FlattenSeq(lists)) = UNION {ToSet(lists[i]) : i \in DOMAIN seq}
<1>1. IsList(lists) /\ DOMAIN lists = DOMAIN seq
    BY MappedList
<1>2. \A i \in DOMAIN lists : IsList(lists[i])
    BY <1>1
<1>3. /\ IsList(FlattenSeq(lists))
      /\ ToSet(FlattenSeq(lists)) = UNION {ToSet(lists[i]) : i \in DOMAIN lists}
    BY ONLY <1>1, <1>2, FlattenLists
<1>4. QED
    BY <1>1, <1>3

LEMMA EmptyTuple == IsList(<<>>) /\ ToSet(<<>>) = {}
BY DEF IsList, ToSet

LEMMA OneItem == ASSUME NEW x PROVE IsList(<<x>>) /\ ToSet(<<x>>) = {x}
<1>1. PICK list : list = <<x>>
    OBVIOUS
<1>2. Len(list) = 1 /\ DOMAIN list = 1..1 /\ list[1] = x /\ list \in Seq({x})
    BY <1>1
<1>3. IsList(list)
    BY <1>2, ListOfSet
<1>4. ToSet(list) = {x}
    BY <1>2 DEF ToSet
<1>5. QED
    BY <1>1, <1>3, <1>4

LEMMA TwoItems == ASSUME NEW x, NEW y PROVE IsList(<<x, y>>) /\ ToSet(<<x, y>>) = {x, y}
<1>1. PICK list : list = <<x, y>>
    OBVIOUS
<1>2. Len(list) = 2 /\ DOMAIN list = 1..2 /\ list[1] = x /\ list[2] = y /\ list \in Seq({x, y})
    BY <1>1
<1>3. IsList(list)
    BY <1>2, ListOfSet
<1>4. ToSet(list) = {x, y}
    BY <1>2 DEF ToSet
<1>5. QED
    BY <1>1, <1>3, <1>4

\* The columns of an object table.
ObjectColumns(fields) == {IdColumn} \cup {StoredColumn(f) : f \in {g \in fields : HasColumn(g)}}

LEMMA ObjectTableColumns ==
    ASSUME NEW name, NEW fields, IsList(fields)
    PROVE  /\ ObjectTable(name, fields).op = "create_table"
           /\ ObjectTable(name, fields).name = ToAsciiLowercase(name)
           /\ ToSet(ObjectTable(name, fields).columns) = ObjectColumns(ToSet(fields))
<1>1. PICK stored : stored = Filter(fields, HasColumn)
    OBVIOUS
<1>2. IsList(stored) /\ ToSet(stored) = {g \in ToSet(fields) : HasColumn(g)}
    BY <1>1, ColumnFields
<1>3. PICK columns : columns = [i \in DOMAIN stored |-> StoredColumn(stored[i])]
    OBVIOUS
<1>4. columns = [i \in DOMAIN stored |-> columns[i]]
    BY <1>3
<1>5. IsList(columns) /\ ToSet(columns) = {columns[i] : i \in DOMAIN stored}
    BY ONLY <1>2, <1>4, MappedList
<1>6. ToSet(columns) = {StoredColumn(f) : f \in ToSet(stored)}
  <2>1. ToSet(stored) = {stored[i] : i \in DOMAIN stored}
    BY DEF ToSet
  <2>2. QED
    BY <1>3, <1>5, <2>1
<1>7. ToSet(<<IdColumn>> \o columns) = {IdColumn} \cup ToSet(columns)
  <2>1. PICK first : first = <<IdColumn>>
    OBVIOUS
  <2>2. IsList(first) /\ ToSet(first) = {IdColumn}
    BY <2>1, OneItem
  <2>3. ToSet(first \o columns) = {IdColumn} \cup ToSet(columns)
    BY <1>5, <2>2, ConcatLists
  <2>4. QED
    BY <2>1, <2>3
<1>8. ObjectTable(name, fields) = CreateTable(ToAsciiLowercase(name), <<IdColumn>> \o columns)
    BY <1>1, <1>3 DEF ObjectTable, Map
<1>9. QED
    BY <1>2, <1>6, <1>7, <1>8 DEF CreateTable, ObjectColumns

RelationTable(object, field) ==
    CreateTable(RelationTableName(object, field.name),
        <<Column("source_id", "TEXT", FALSE, FALSE, ToAsciiLowercase(object)),
          Column("target_id", "TEXT", FALSE, FALSE, ToAsciiLowercase(field.type)),
          Column("position", "INTEGER", TRUE, FALSE, None)>>)

RelationTablesOf(object, fields) ==
    {RelationTable(object, f) : f \in {g \in fields : HasRelationTable(g)}}

LEMMA RelationTablesItems ==
    ASSUME NEW object, NEW fields, IsList(fields)
    PROVE  /\ IsList(RelationTables(object, fields))
           /\ ToSet(RelationTables(object, fields)) = RelationTablesOf(object, ToSet(fields))
<1>1. PICK stored : stored = Filter(fields, HasRelationTable)
    OBVIOUS
<1>2. IsList(stored) /\ ToSet(stored) = {g \in ToSet(fields) : HasRelationTable(g)}
    BY <1>1, RelationFields
<1>3. PICK list : list = RelationTables(object, fields)
    OBVIOUS
<1>4. list = [i \in DOMAIN stored |-> RelationTable(object, stored[i])]
    BY <1>1, <1>3 DEF RelationTables, RelationTable, Map
<1>5. list = [i \in DOMAIN stored |-> list[i]]
    BY <1>4
<1>6. IsList(list) /\ ToSet(list) = {list[i] : i \in DOMAIN stored}
    BY ONLY <1>2, <1>5, MappedList
<1>7. ToSet(list) = {RelationTable(object, f) : f \in ToSet(stored)}
  <2>1. ToSet(stored) = {stored[i] : i \in DOMAIN stored}
    BY DEF ToSet
  <2>2. QED
    BY <1>4, <1>6, <2>1
<1>8. QED
    BY <1>2, <1>3, <1>6, <1>7 DEF RelationTablesOf

IndexesOf(object, fields) == UNION {ToSet(FieldIndexes(object, f)) : f \in fields}

LEMMA FieldIndexesItems ==
    ASSUME NEW object, NEW field
    PROVE  /\ IsList(FieldIndexes(object, field))
           /\ \A s \in ToSet(FieldIndexes(object, field)) : s.op = "create_index"
<1> DEFINE IndexOn(table, column) == CreateIndex(table \o "__" \o column \o "_idx", table, column)
           relation == RelationTableName(object, field.name)
           a == IndexOn(relation, "source_id")
           b == IndexOn(relation, "target_id")
           d == IndexOn(ToAsciiLowercase(object), StoredColumnName(field))
<1>1. FieldIndexes(object, field) \in {<<>>, <<a, b>>, <<d>>}
    BY DEF FieldIndexes
<1>2. a.op = "create_index" /\ b.op = "create_index" /\ d.op = "create_index"
    BY DEF CreateIndex
<1> HIDE DEF a, b, d
<1>3. QED
    BY <1>1, <1>2, EmptyTuple, OneItem, TwoItems

LEMMA IndexesItems ==
    ASSUME NEW object, NEW fields, IsList(fields)
    PROVE  /\ IsList(Indexes(object, fields))
           /\ ToSet(Indexes(object, fields)) = IndexesOf(object.name, ToSet(fields))
<1>1. PICK lists : lists = [i \in DOMAIN fields |-> FieldIndexes(object.name, fields[i])]
    OBVIOUS
<1>2. lists = [i \in DOMAIN fields |-> lists[i]] /\ \A i \in DOMAIN fields : IsList(lists[i])
    BY <1>1, FieldIndexesItems
<1>3. /\ IsList(FlattenSeq(lists))
      /\ ToSet(FlattenSeq(lists)) = UNION {ToSet(lists[i]) : i \in DOMAIN fields}
    BY ONLY <1>2, IsList(fields), FlatMappedList
<1>4. UNION {ToSet(lists[i]) : i \in DOMAIN fields} = IndexesOf(object.name, ToSet(fields))
  <2>1. ToSet(fields) = {fields[i] : i \in DOMAIN fields}
    BY DEF ToSet
  <2>2. {ToSet(lists[i]) : i \in DOMAIN fields} =
            {ToSet(FieldIndexes(object.name, f)) : f \in ToSet(fields)}
    BY <1>1, <2>1
  <2>3. QED
    BY <2>2 DEF IndexesOf
<1>5. Indexes(object, fields) = FlattenSeq(lists)
    BY <1>1 DEF Indexes, FlatMap
<1>6. QED
    BY <1>3, <1>4, <1>5

\* The rows of an object that is new: the implicit id and the declared fields.
ObjectFieldRowsOf(id, fields, target) ==
    {InsertField(ImplicitIdRow(id))} \cup
    {InsertField(DeclaredFieldRow(id, j + 1, fields[j], target[fields[j].type])) :
        j \in DOMAIN fields}

LEMMA ObjectFieldRowsItems ==
    ASSUME NEW id, NEW fields, IsList(fields), NEW target
    PROVE  /\ IsList(ObjectFieldRows(id, fields, target))
           /\ ToSet(ObjectFieldRows(id, fields, target)) = ObjectFieldRowsOf(id, fields, target)
<1>1. PICK rows : rows = [j \in DOMAIN fields |->
            InsertField(DeclaredFieldRow(id, j + 1, fields[j], target[fields[j].type]))]
    OBVIOUS
<1>2. rows = [i \in DOMAIN fields |-> rows[i]]
    BY <1>1
<1>3. IsList(rows) /\ ToSet(rows) = {rows[i] : i \in DOMAIN fields}
    BY ONLY <1>2, IsList(fields), MappedList
<1>4. PICK first : first = <<InsertField(ImplicitIdRow(id))>>
    OBVIOUS
<1>5. IsList(first) /\ ToSet(first) = {InsertField(ImplicitIdRow(id))}
    BY <1>4, OneItem
<1>6. IsList(first \o rows) /\ ToSet(first \o rows) = ToSet(first) \cup ToSet(rows)
    BY <1>3, <1>5, ConcatLists
<1>7. ObjectFieldRows(id, fields, target) = first \o rows
    BY <1>1, <1>4 DEF ObjectFieldRows
<1>8. {rows[i] : i \in DOMAIN fields} =
        {InsertField(DeclaredFieldRow(id, j + 1, fields[j], target[fields[j].type])) :
            j \in DOMAIN fields}
    BY <1>1
<1>9. QED
    BY <1>3, <1>5, <1>6, <1>7, <1>8 DEF ObjectFieldRowsOf

MetadataTableStatements == {CreateTable(name, <<>>) : name \in ToSet(MetadataTables)}

LEMMA MetadataItems ==
    /\ IsList(MetadataTablePlans) /\ ToSet(MetadataTablePlans) = MetadataTableStatements
    /\ Len(MetadataTablePlans) = 3
<1>1. PICK names : names = MetadataTables
    OBVIOUS
<1>2. /\ names \in Seq({VersionsTable, ObjectsTable, FieldsTable}) /\ Len(names) = 3
      /\ DOMAIN names = 1..3
    BY <1>1 DEF MetadataTables
<1>3. IsList(names)
    BY <1>2, ListOfSet
<1>4. PICK list : list = [i \in DOMAIN names |-> CreateTable(names[i], <<>>)]
    OBVIOUS
<1>5. list = [i \in DOMAIN names |-> list[i]]
    BY <1>4
<1>6. /\ IsList(list) /\ Len(list) = Len(names)
      /\ ToSet(list) = {list[i] : i \in DOMAIN names}
    BY ONLY <1>3, <1>5, MappedList
<1>7. MetadataTablePlans = list
    BY <1>1, <1>4 DEF MetadataTablePlans, Map
<1>8. ToSet(list) = {CreateTable(name, <<>>) : name \in ToSet(names)}
    BY <1>4, <1>6 DEF ToSet
<1>9. QED
    BY <1>1, <1>2, <1>6, <1>7, <1>8 DEF MetadataTableStatements


\* The items of a list of lists made from the items of a list.
LEMMA FlatMappedItems ==
    ASSUME NEW seq, IsList(seq), NEW part, \A x \in ToSet(seq) : IsList(part[x]),
           NEW lists, lists = [i \in DOMAIN seq |-> part[seq[i]]]
    PROVE  /\ IsList(FlattenSeq(lists))
           /\ ToSet(FlattenSeq(lists)) = UNION {ToSet(part[x]) : x \in ToSet(seq)}
<1>1. ToSet(seq) = {seq[i] : i \in DOMAIN seq}
    BY DEF ToSet
<1>2. lists = [i \in DOMAIN seq |-> lists[i]] /\ \A i \in DOMAIN seq : IsList(lists[i])
    BY <1>1
<1>3. /\ IsList(FlattenSeq(lists))
      /\ ToSet(FlattenSeq(lists)) = UNION {ToSet(lists[i]) : i \in DOMAIN seq}
    BY ONLY <1>2, IsList(seq), FlatMappedList
<1>4. {ToSet(lists[i]) : i \in DOMAIN seq} = {ToSet(part[x]) : x \in ToSet(seq)}
    BY <1>1
<1>5. QED
    BY <1>3, <1>4

\* What plan_initial_schema plans for a catalog.
InitialTarget(catalog) == [type \in TypeNames(catalog) |-> TypeId(catalog, type)]

InitialItems(catalog) ==
    MetadataTableStatements
    \cup {ObjectTable(o.name, o.fields) : o \in ToSet(catalog)}
    \cup (UNION {RelationTablesOf(o.name, ToSet(o.fields)) : o \in ToSet(catalog)})
    \cup {InsertObject(ObjectRow(i, catalog[i].name)) : i \in DOMAIN catalog}
    \cup (UNION {ObjectFieldRowsOf(i, catalog[i].fields, InitialTarget(catalog)) :
                    i \in DOMAIN catalog})
    \cup (UNION {IndexesOf(o.name, ToSet(o.fields)) : o \in ToSet(catalog)})

\* The table of every object has a statement of its own.
CreatesEachTable(list, from, catalog) ==
    \A i \in DOMAIN catalog :
        /\ from + i \in DOMAIN list
        /\ list[from + i].op = "create_table"
        /\ list[from + i].name = ToAsciiLowercase(catalog[i].name)

LEMMA InitialPlan ==
    ASSUME NEW catalog, IsCatalog(catalog)
    PROVE  /\ IsList(InitialStatements(catalog))
           /\ ToSet(InitialStatements(catalog)) = InitialItems(catalog)
           /\ InitialStatements(catalog) # <<>>
           /\ CreatesEachTable(InitialStatements(catalog), 3, catalog)
<1> DEFINE target == InitialTarget(catalog)
<1>1. IsList(catalog) /\ \A o \in ToSet(catalog) : IsList(o.fields)
    BY DEF IsCatalog
<1>2. PICK ids : ids = [i \in DOMAIN catalog |-> i]
    OBVIOUS
<1>3. IsList(ids) /\ ToSet(ids) = DOMAIN catalog
  <2>1. ids = [i \in DOMAIN catalog |-> ids[i]]
    BY <1>2
  <2>2. IsList(ids) /\ ToSet(ids) = {ids[i] : i \in DOMAIN catalog}
    BY ONLY <1>1, <2>1, MappedList
  <2>3. QED
    BY <1>2, <2>2
<1>4. PICK b : b = [i \in DOMAIN catalog |-> ObjectTable(catalog[i].name, catalog[i].fields)]
    OBVIOUS
<1>5. IsList(b) /\ ToSet(b) = {ObjectTable(o.name, o.fields) : o \in ToSet(catalog)}
  <2>1. b = [i \in DOMAIN catalog |-> b[i]]
    BY <1>4
  <2>2. IsList(b) /\ ToSet(b) = {b[i] : i \in DOMAIN catalog}
    BY ONLY <1>1, <2>1, MappedList
  <2>3. ToSet(catalog) = {catalog[i] : i \in DOMAIN catalog}
    BY DEF ToSet
  <2>4. QED
    BY <1>4, <2>2, <2>3
<1>6. PICK relations : relations = [o \in ToSet(catalog) |-> RelationTables(o.name, o.fields)]
    OBVIOUS
<1>7. PICK c : c = FlattenSeq([i \in DOMAIN catalog |-> relations[catalog[i]]])
    OBVIOUS
<1>8. /\ IsList(c)
      /\ ToSet(c) = UNION {RelationTablesOf(o.name, ToSet(o.fields)) : o \in ToSet(catalog)}
  <2>1. /\ \A o \in ToSet(catalog) : IsList(relations[o])
        /\ \A o \in ToSet(catalog) :
              ToSet(relations[o]) = RelationTablesOf(o.name, ToSet(o.fields))
    BY <1>1, <1>6, RelationTablesItems
  <2>2. IsList(c) /\ ToSet(c) = UNION {ToSet(relations[o]) : o \in ToSet(catalog)}
    BY <1>1, <1>7, <2>1, FlatMappedItems
  <2>3. {ToSet(relations[o]) : o \in ToSet(catalog)} =
            {RelationTablesOf(o.name, ToSet(o.fields)) : o \in ToSet(catalog)}
    BY <2>1
  <2>4. QED
    BY <2>2, <2>3
<1>9. PICK d : d = [i \in DOMAIN ids |-> InsertObject(ObjectRow(ids[i], catalog[ids[i]].name))]
    OBVIOUS
<1>10. IsList(d) /\ ToSet(d) = {InsertObject(ObjectRow(i, catalog[i].name)) : i \in DOMAIN catalog}
  <2>1. d = [i \in DOMAIN ids |-> d[i]]
    BY <1>9
  <2>2. IsList(d) /\ ToSet(d) = {d[i] : i \in DOMAIN ids}
    BY ONLY <1>3, <2>1, MappedList
  <2>3. QED
    BY <1>2, <1>9, <2>2
<1>11. PICK rows : rows = [i \in DOMAIN catalog |-> ObjectFieldRows(i, catalog[i].fields, target)]
    OBVIOUS
<1>12. PICK e : e = FlattenSeq([i \in DOMAIN ids |-> rows[ids[i]]])
    OBVIOUS
<1>13. /\ IsList(e)
       /\ ToSet(e) = UNION {ObjectFieldRowsOf(i, catalog[i].fields, target) : i \in DOMAIN catalog}
  <2>1. \A i \in DOMAIN catalog : IsList(catalog[i].fields)
    BY <1>1 DEF ToSet
  <2>2. /\ \A i \in DOMAIN catalog : IsList(rows[i])
        /\ \A i \in DOMAIN catalog :
              ToSet(rows[i]) = ObjectFieldRowsOf(i, catalog[i].fields, target)
    BY <1>11, <2>1, ObjectFieldRowsItems
  <2>3. IsList(e) /\ ToSet(e) = UNION {ToSet(rows[i]) : i \in ToSet(ids)}
    BY <1>3, <1>12, <2>2, FlatMappedItems
  <2>4. {ToSet(rows[i]) : i \in ToSet(ids)} =
            {ObjectFieldRowsOf(i, catalog[i].fields, target) : i \in DOMAIN catalog}
    BY <1>3, <2>2
  <2>5. QED
    BY <2>3, <2>4
<1>14. PICK indexes : indexes = [o \in ToSet(catalog) |-> Indexes(o, o.fields)]
    OBVIOUS
<1>15. PICK f : f = FlattenSeq([i \in DOMAIN catalog |-> indexes[catalog[i]]])
    OBVIOUS
<1>16. /\ IsList(f)
       /\ ToSet(f) = UNION {IndexesOf(o.name, ToSet(o.fields)) : o \in ToSet(catalog)}
  <2>1. /\ \A o \in ToSet(catalog) : IsList(indexes[o])
        /\ \A o \in ToSet(catalog) : ToSet(indexes[o]) = IndexesOf(o.name, ToSet(o.fields))
    BY <1>1, <1>14, IndexesItems
  <2>2. IsList(f) /\ ToSet(f) = UNION {ToSet(indexes[o]) : o \in ToSet(catalog)}
    BY <1>1, <1>15, <2>1, FlatMappedItems
  <2>3. {ToSet(indexes[o]) : o \in ToSet(catalog)} =
            {IndexesOf(o.name, ToSet(o.fields)) : o \in ToSet(catalog)}
    BY <2>1
  <2>4. QED
    BY <2>2, <2>3
<1>17. PICK a : a = MetadataTablePlans
    OBVIOUS
<1>18. IsList(a) /\ ToSet(a) = MetadataTableStatements /\ Len(a) = 3
    BY <1>17, MetadataItems
<1>19. InitialStatements(catalog) = a \o b \o c \o d \o e \o f
  <2>1. c = FlattenSeq([i \in DOMAIN catalog |-> RelationTables(catalog[i].name, catalog[i].fields)])
    <3>1. [i \in DOMAIN catalog |-> relations[catalog[i]]] =
            [i \in DOMAIN catalog |-> RelationTables(catalog[i].name, catalog[i].fields)]
      BY <1>6 DEF ToSet
    <3>2. QED
      BY <1>7, <3>1
  <2>2. e = FlattenSeq([i \in DOMAIN ids |-> ObjectFieldRows(ids[i], catalog[ids[i]].fields, target)])
    <3>1. [i \in DOMAIN ids |-> rows[ids[i]]] =
            [i \in DOMAIN ids |-> ObjectFieldRows(ids[i], catalog[ids[i]].fields, target)]
      BY <1>2, <1>11
    <3>2. QED
      BY <1>12, <3>1
  <2>3. f = FlattenSeq([i \in DOMAIN catalog |-> Indexes(catalog[i], catalog[i].fields)])
    <3>1. [i \in DOMAIN catalog |-> indexes[catalog[i]]] =
            [i \in DOMAIN catalog |-> Indexes(catalog[i], catalog[i].fields)]
      BY <1>14 DEF ToSet
    <3>2. QED
      BY <1>15, <3>1
  <2>4. target = [type \in TypeNames(catalog) |-> TypeId(catalog, type)]
    BY DEF InitialTarget
  <2> HIDE DEF target
  <2>5. QED
    BY <1>2, <1>4, <1>9, <1>17, <2>1, <2>2, <2>3, <2>4 DEF InitialStatements, Map, FlatMap
<1> DEFINE g == a \o b
           h == g \o c
           k == h \o d
           l == k \o e
<1>20. IsList(g) /\ ToSet(g) = ToSet(a) \cup ToSet(b) /\ HasPlaces(g, 3, b)
    BY <1>5, <1>18, ConcatLists, ConcatPlaces
<1> HIDE DEF g
<1>21. IsList(h) /\ ToSet(h) = ToSet(g) \cup ToSet(c) /\ HasPlaces(h, 3, b)
    BY <1>8, <1>20, ConcatLists, ConcatPlaces
<1> HIDE DEF h
<1>22. IsList(k) /\ ToSet(k) = ToSet(h) \cup ToSet(d) /\ HasPlaces(k, 3, b)
    BY <1>10, <1>21, ConcatLists, ConcatPlaces
<1> HIDE DEF k
<1>23. IsList(l) /\ ToSet(l) = ToSet(k) \cup ToSet(e) /\ HasPlaces(l, 3, b)
    BY <1>13, <1>22, ConcatLists, ConcatPlaces
<1> HIDE DEF l
<1>24. IsList(l \o f) /\ ToSet(l \o f) = ToSet(l) \cup ToSet(f) /\ HasPlaces(l \o f, 3, b)
    BY <1>16, <1>23, ConcatLists, ConcatPlaces
<1>25. InitialStatements(catalog) = l \o f
    BY <1>19 DEF g, h, k, l
<1>26. IsList(InitialStatements(catalog)) /\ ToSet(InitialStatements(catalog)) = InitialItems(catalog)
    BY <1>5, <1>8, <1>10, <1>13, <1>16, <1>18, <1>20, <1>21, <1>22, <1>23, <1>24, <1>25
    DEF InitialItems
<1>27. ToSet(InitialStatements(catalog)) # {}
  <2>1. CreateTable(VersionsTable, <<>>) \in MetadataTableStatements
    BY DEF MetadataTableStatements, MetadataTables, ToSet
  <2>2. QED
    BY <1>26, <2>1 DEF InitialItems
<1>28. CreatesEachTable(InitialStatements(catalog), 3, catalog)
  <2>1. \A i \in DOMAIN catalog : IsList(catalog[i].fields)
    BY <1>1 DEF ToSet
  <2>2. \A i \in DOMAIN catalog :
            b[i].op = "create_table" /\ b[i].name = ToAsciiLowercase(catalog[i].name)
    BY <1>4, <2>1, ObjectTableColumns
  <2>3. DOMAIN b = DOMAIN catalog
    BY <1>4
  <2>4. QED
    BY <1>24, <1>25, <2>2, <2>3 DEF HasPlaces, CreatesEachTable
<1>29. QED
    BY <1>26, <1>27, <1>28, EmptyTuple

AddedColumnsOf(object, fields) ==
    {AddColumn(ToAsciiLowercase(object.name), StoredColumn(f)) : f \in {g \in fields : HasColumn(g)}}

LEMMA AddedColumnsItems ==
    ASSUME NEW current, NEW desired, IsCatalog(desired), NamesOrdered(desired),
           NEW o \in ToSet(desired)
    PROVE  /\ IsList(AddedColumns(current, o))
           /\ ToSet(AddedColumns(current, o)) = AddedColumnsOf(o, ToSet(AddedFields(current, o)))
<1>1. PICK added : added = AddedFields(current, o)
    OBVIOUS
<1>2. IsList(added)
    BY <1>1, AddedFieldsItems
<1>3. PICK stored : stored = Filter(added, HasColumn)
    OBVIOUS
<1>4. IsList(stored) /\ ToSet(stored) = {g \in ToSet(added) : HasColumn(g)}
    BY <1>2, <1>3, ColumnFields
<1>5. PICK list : list = [i \in DOMAIN stored |->
            AddColumn(ToAsciiLowercase(o.name), StoredColumn(stored[i]))]
    OBVIOUS
<1>6. list = [i \in DOMAIN stored |-> list[i]]
    BY <1>5
<1>7. IsList(list) /\ ToSet(list) = {list[i] : i \in DOMAIN stored}
    BY ONLY <1>4, <1>6, MappedList
<1>8. ToSet(list) = {AddColumn(ToAsciiLowercase(o.name), StoredColumn(f)) : f \in ToSet(stored)}
  <2>1. ToSet(stored) = {stored[i] : i \in DOMAIN stored}
    BY DEF ToSet
  <2>2. QED
    BY <1>5, <1>7, <2>1
<1>9. AddedColumns(current, o) = list
    BY <1>1, <1>3, <1>5 DEF AddedColumns, Map
<1>10. QED
    BY <1>1, <1>4, <1>7, <1>8, <1>9 DEF AddedColumnsOf

\* The rows of the fields added to an object, numbered on from the last one.
AddedFieldRowsOf(current, desired, object) ==
    {InsertField(DeclaredFieldRow(MigrationObjectId(current, desired, object.name),
                    Len(FindType(current, object.name).fields) + 1 + j,
                    AddedFields(current, object)[j],
                    MigrationObjectId(current, desired, AddedFields(current, object)[j].type))) :
        j \in DOMAIN AddedFields(current, object)}

LEMMA AddedFieldRowsItems ==
    ASSUME NEW current, NEW desired, IsCatalog(desired), NamesOrdered(desired),
           NEW o \in ToSet(desired)
    PROVE  /\ IsList(AddedFieldRows(current, desired, o))
           /\ ToSet(AddedFieldRows(current, desired, o)) = AddedFieldRowsOf(current, desired, o)
<1>1. PICK added : added = AddedFields(current, o)
    OBVIOUS
<1>2. IsList(added)
    BY <1>1, AddedFieldsItems
<1>3. PICK list : list = AddedFieldRows(current, desired, o)
    OBVIOUS
<1>4. list = [j \in DOMAIN added |->
            InsertField(DeclaredFieldRow(MigrationObjectId(current, desired, o.name),
                    Len(FindType(current, o.name).fields) + 1 + j, added[j],
                    MigrationObjectId(current, desired, added[j].type)))]
    BY <1>1, <1>3 DEF AddedFieldRows
<1>5. list = [i \in DOMAIN added |-> list[i]]
    BY <1>4
<1>6. IsList(list) /\ ToSet(list) = {list[i] : i \in DOMAIN added}
    BY ONLY <1>2, <1>5, MappedList
<1>7. QED
    BY <1>1, <1>3, <1>4, <1>6 DEF AddedFieldRowsOf

\* What plan_schema_migration plans for two catalogs.
MigrationTarget(current, desired) ==
    [type \in TypeNames(desired) |-> MigrationObjectId(current, desired, type)]

MigrationItems(current, desired) ==
    LET new == NewObjects(current, desired)
        kept == ToSet(KeptObjects(current, desired))
    IN  {ObjectTable(o.name, SortedFields(o)) : o \in ToSet(new)}
        \cup (UNION {RelationTablesOf(o.name, ToSet(o.fields)) : o \in ToSet(new)})
        \cup (UNION {RelationTablesOf(o.name, ToSet(AddedFields(current, o))) : o \in kept})
        \cup (UNION {AddedColumnsOf(o, ToSet(AddedFields(current, o))) : o \in kept})
        \cup (UNION {IndexesOf(o.name, ToSet(o.fields)) : o \in ToSet(new)})
        \cup (UNION {IndexesOf(o.name, ToSet(AddedFields(current, o))) : o \in kept})
        \cup {InsertObject(ObjectRow(Len(current) + i, new[i].name)) : i \in DOMAIN new}
        \cup (UNION {ObjectFieldRowsOf(Len(current) + i, SortedFields(new[i]),
                                       MigrationTarget(current, desired)) : i \in DOMAIN new})
        \cup (UNION {AddedFieldRowsOf(current, desired, o) : o \in kept})

LEMMA MigrationPlan ==
    ASSUME NEW current, NEW desired, IsCatalog(desired), NamesOrdered(desired)
    PROVE  /\ IsList(MigrationStatements(current, desired))
           /\ ToSet(MigrationStatements(current, desired)) = MigrationItems(current, desired)
           /\ CreatesEachTable(MigrationStatements(current, desired), 0, NewObjects(current, desired))
<1>1. PICK new, kept : new = NewObjects(current, desired) /\ kept = KeptObjects(current, desired)
    OBVIOUS
<1>2. /\ IsList(new) /\ IsList(kept)
      /\ ToSet(new) \subseteq ToSet(desired) /\ ToSet(kept) \subseteq ToSet(desired)
    BY <1>1, NewObjectsItems, KeptObjectsItems
<1>3. PICK target : target = MigrationTarget(current, desired)
    OBVIOUS
<1>4. \A o \in ToSet(desired) :
          IsList(SortedFields(o)) /\ ToSet(SortedFields(o)) = ToSet(o.fields)
    BY SortedFieldsItems
<1>5. \A o \in ToSet(desired) : IsList(AddedFields(current, o))
    BY AddedFieldsItems
<1>6. PICK ids : ids = [i \in DOMAIN new |-> i]
    OBVIOUS
<1>7. IsList(ids) /\ ToSet(ids) = DOMAIN new
  <2>1. ids = [i \in DOMAIN new |-> ids[i]]
    BY <1>6
  <2>2. IsList(ids) /\ ToSet(ids) = {ids[i] : i \in DOMAIN new}
    BY ONLY <1>2, <2>1, MappedList
  <2>3. QED
    BY <1>6, <2>2
<1>8. PICK a : a = [i \in DOMAIN new |-> ObjectTable(new[i].name, SortedFields(new[i]))]
    OBVIOUS
<1>9. IsList(a) /\ ToSet(a) = {ObjectTable(o.name, SortedFields(o)) : o \in ToSet(new)}
  <2>1. a = [i \in DOMAIN new |-> a[i]]
    BY <1>8
  <2>2. IsList(a) /\ ToSet(a) = {a[i] : i \in DOMAIN new}
    BY ONLY <1>2, <2>1, MappedList
  <2>3. ToSet(new) = {new[i] : i \in DOMAIN new}
    BY DEF ToSet
  <2>4. QED
    BY <1>8, <2>2, <2>3
<1>10. PICK bPart : bPart = [o \in ToSet(new) |-> RelationTables(o.name, SortedFields(o))]
    OBVIOUS
<1>11. PICK b : b = FlattenSeq([i \in DOMAIN new |-> bPart[new[i]]])
    OBVIOUS
<1>12. IsList(b) /\ ToSet(b) = UNION {RelationTablesOf(o.name, ToSet(o.fields)) : o \in ToSet(new)}
  <2>1. /\ \A o \in ToSet(new) : IsList(bPart[o])
        /\ \A o \in ToSet(new) : ToSet(bPart[o]) = RelationTablesOf(o.name, ToSet(o.fields))
    BY <1>2, <1>4, <1>5, <1>10, RelationTablesItems
  <2>2. IsList(b) /\ ToSet(b) = UNION {ToSet(bPart[o]) : o \in ToSet(new)}
    BY <1>2, <1>11, <2>1, FlatMappedItems
  <2>3. {ToSet(bPart[o]) : o \in ToSet(new)} = {RelationTablesOf(o.name, ToSet(o.fields)) : o \in ToSet(new)}
    BY <2>1
  <2>4. QED
    BY <2>2, <2>3
<1>13. b = FlattenSeq([i \in DOMAIN new |-> RelationTables(new[i].name, SortedFields(new[i]))])
  <2>1. [i \in DOMAIN new |-> bPart[new[i]]] =
          [i \in DOMAIN new |-> RelationTables(new[i].name, SortedFields(new[i]))]
    BY <1>10 DEF ToSet
  <2>2. QED
    BY <1>11, <2>1
<1>14. PICK cPart : cPart = [o \in ToSet(kept) |-> RelationTables(o.name, AddedFields(current, o))]
    OBVIOUS
<1>15. PICK c : c = FlattenSeq([i \in DOMAIN kept |-> cPart[kept[i]]])
    OBVIOUS
<1>16. IsList(c) /\ ToSet(c) = UNION {RelationTablesOf(o.name, ToSet(AddedFields(current, o))) : o \in ToSet(kept)}
  <2>1. /\ \A o \in ToSet(kept) : IsList(cPart[o])
        /\ \A o \in ToSet(kept) : ToSet(cPart[o]) = RelationTablesOf(o.name, ToSet(AddedFields(current, o)))
    BY <1>2, <1>4, <1>5, <1>14, RelationTablesItems
  <2>2. IsList(c) /\ ToSet(c) = UNION {ToSet(cPart[o]) : o \in ToSet(kept)}
    BY <1>2, <1>15, <2>1, FlatMappedItems
  <2>3. {ToSet(cPart[o]) : o \in ToSet(kept)} = {RelationTablesOf(o.name, ToSet(AddedFields(current, o))) : o \in ToSet(kept)}
    BY <2>1
  <2>4. QED
    BY <2>2, <2>3
<1>17. c = FlattenSeq([i \in DOMAIN kept |-> RelationTables(kept[i].name, AddedFields(current, kept[i]))])
  <2>1. [i \in DOMAIN kept |-> cPart[kept[i]]] =
          [i \in DOMAIN kept |-> RelationTables(kept[i].name, AddedFields(current, kept[i]))]
    BY <1>14 DEF ToSet
  <2>2. QED
    BY <1>15, <2>1
<1>18. PICK dPart : dPart = [o \in ToSet(kept) |-> AddedColumns(current, o)]
    OBVIOUS
<1>19. PICK d : d = FlattenSeq([i \in DOMAIN kept |-> dPart[kept[i]]])
    OBVIOUS
<1>20. IsList(d) /\ ToSet(d) = UNION {AddedColumnsOf(o, ToSet(AddedFields(current, o))) : o \in ToSet(kept)}
  <2>1. /\ \A o \in ToSet(kept) : IsList(dPart[o])
        /\ \A o \in ToSet(kept) : ToSet(dPart[o]) = AddedColumnsOf(o, ToSet(AddedFields(current, o)))
    BY <1>2, <1>4, <1>5, <1>18, AddedColumnsItems
  <2>2. IsList(d) /\ ToSet(d) = UNION {ToSet(dPart[o]) : o \in ToSet(kept)}
    BY <1>2, <1>19, <2>1, FlatMappedItems
  <2>3. {ToSet(dPart[o]) : o \in ToSet(kept)} = {AddedColumnsOf(o, ToSet(AddedFields(current, o))) : o \in ToSet(kept)}
    BY <2>1
  <2>4. QED
    BY <2>2, <2>3
<1>21. d = FlattenSeq([i \in DOMAIN kept |-> AddedColumns(current, kept[i])])
  <2>1. [i \in DOMAIN kept |-> dPart[kept[i]]] =
          [i \in DOMAIN kept |-> AddedColumns(current, kept[i])]
    BY <1>18 DEF ToSet
  <2>2. QED
    BY <1>19, <2>1
<1>22. PICK ePart : ePart = [o \in ToSet(new) |-> Indexes(o, SortedFields(o))]
    OBVIOUS
<1>23. PICK e : e = FlattenSeq([i \in DOMAIN new |-> ePart[new[i]]])
    OBVIOUS
<1>24. IsList(e) /\ ToSet(e) = UNION {IndexesOf(o.name, ToSet(o.fields)) : o \in ToSet(new)}
  <2>1. /\ \A o \in ToSet(new) : IsList(ePart[o])
        /\ \A o \in ToSet(new) : ToSet(ePart[o]) = IndexesOf(o.name, ToSet(o.fields))
    BY <1>2, <1>4, <1>5, <1>22, IndexesItems
  <2>2. IsList(e) /\ ToSet(e) = UNION {ToSet(ePart[o]) : o \in ToSet(new)}
    BY <1>2, <1>23, <2>1, FlatMappedItems
  <2>3. {ToSet(ePart[o]) : o \in ToSet(new)} = {IndexesOf(o.name, ToSet(o.fields)) : o \in ToSet(new)}
    BY <2>1
  <2>4. QED
    BY <2>2, <2>3
<1>25. e = FlattenSeq([i \in DOMAIN new |-> Indexes(new[i], SortedFields(new[i]))])
  <2>1. [i \in DOMAIN new |-> ePart[new[i]]] =
          [i \in DOMAIN new |-> Indexes(new[i], SortedFields(new[i]))]
    BY <1>22 DEF ToSet
  <2>2. QED
    BY <1>23, <2>1
<1>26. PICK fPart : fPart = [o \in ToSet(kept) |-> Indexes(o, AddedFields(current, o))]
    OBVIOUS
<1>27. PICK f : f = FlattenSeq([i \in DOMAIN kept |-> fPart[kept[i]]])
    OBVIOUS
<1>28. IsList(f) /\ ToSet(f) = UNION {IndexesOf(o.name, ToSet(AddedFields(current, o))) : o \in ToSet(kept)}
  <2>1. /\ \A o \in ToSet(kept) : IsList(fPart[o])
        /\ \A o \in ToSet(kept) : ToSet(fPart[o]) = IndexesOf(o.name, ToSet(AddedFields(current, o)))
    BY <1>2, <1>4, <1>5, <1>26, IndexesItems
  <2>2. IsList(f) /\ ToSet(f) = UNION {ToSet(fPart[o]) : o \in ToSet(kept)}
    BY <1>2, <1>27, <2>1, FlatMappedItems
  <2>3. {ToSet(fPart[o]) : o \in ToSet(kept)} = {IndexesOf(o.name, ToSet(AddedFields(current, o))) : o \in ToSet(kept)}
    BY <2>1
  <2>4. QED
    BY <2>2, <2>3
<1>29. f = FlattenSeq([i \in DOMAIN kept |-> Indexes(kept[i], AddedFields(current, kept[i]))])
  <2>1. [i \in DOMAIN kept |-> fPart[kept[i]]] =
          [i \in DOMAIN kept |-> Indexes(kept[i], AddedFields(current, kept[i]))]
    BY <1>26 DEF ToSet
  <2>2. QED
    BY <1>27, <2>1
<1>30. PICK pPart : pPart = [o \in ToSet(kept) |-> AddedFieldRows(current, desired, o)]
    OBVIOUS
<1>31. PICK p : p = FlattenSeq([i \in DOMAIN kept |-> pPart[kept[i]]])
    OBVIOUS
<1>32. IsList(p) /\ ToSet(p) = UNION {AddedFieldRowsOf(current, desired, o) : o \in ToSet(kept)}
  <2>1. /\ \A o \in ToSet(kept) : IsList(pPart[o])
        /\ \A o \in ToSet(kept) : ToSet(pPart[o]) = AddedFieldRowsOf(current, desired, o)
    BY <1>2, <1>4, <1>5, <1>30, AddedFieldRowsItems
  <2>2. IsList(p) /\ ToSet(p) = UNION {ToSet(pPart[o]) : o \in ToSet(kept)}
    BY <1>2, <1>31, <2>1, FlatMappedItems
  <2>3. {ToSet(pPart[o]) : o \in ToSet(kept)} = {AddedFieldRowsOf(current, desired, o) : o \in ToSet(kept)}
    BY <2>1
  <2>4. QED
    BY <2>2, <2>3
<1>33. p = FlattenSeq([i \in DOMAIN kept |-> AddedFieldRows(current, desired, kept[i])])
  <2>1. [i \in DOMAIN kept |-> pPart[kept[i]]] =
          [i \in DOMAIN kept |-> AddedFieldRows(current, desired, kept[i])]
    BY <1>30 DEF ToSet
  <2>2. QED
    BY <1>31, <2>1
<1>34. PICK g : g = [i \in DOMAIN ids |->
            InsertObject(ObjectRow(Len(current) + ids[i], new[ids[i]].name))]
    OBVIOUS
<1>35. /\ IsList(g)
      /\ ToSet(g) = {InsertObject(ObjectRow(Len(current) + i, new[i].name)) : i \in DOMAIN new}
  <2>1. g = [i \in DOMAIN ids |-> g[i]]
    BY <1>34
  <2>2. IsList(g) /\ ToSet(g) = {g[i] : i \in DOMAIN ids}
    BY ONLY <1>7, <2>1, MappedList
  <2>3. QED
    BY <1>6, <1>34, <2>2
<1>36. PICK rows : rows = [i \in DOMAIN new |->
            ObjectFieldRows(Len(current) + i, SortedFields(new[i]), target)]
    OBVIOUS
<1>37. PICK h : h = FlattenSeq([i \in DOMAIN ids |-> rows[ids[i]]])
    OBVIOUS
<1>38. /\ IsList(h)
      /\ ToSet(h) = UNION {ObjectFieldRowsOf(Len(current) + i, SortedFields(new[i]), target) :
                              i \in DOMAIN new}
  <2>1. \A i \in DOMAIN new : IsList(SortedFields(new[i]))
    BY <1>2, <1>4 DEF ToSet
  <2>2. /\ \A i \in DOMAIN new : IsList(rows[i])
        /\ \A i \in DOMAIN new :
              ToSet(rows[i]) = ObjectFieldRowsOf(Len(current) + i, SortedFields(new[i]), target)
    BY <1>36, <2>1, ObjectFieldRowsItems
  <2>3. IsList(h) /\ ToSet(h) = UNION {ToSet(rows[i]) : i \in ToSet(ids)}
    BY <1>7, <1>37, <2>2, FlatMappedItems
  <2>4. {ToSet(rows[i]) : i \in ToSet(ids)} =
            {ObjectFieldRowsOf(Len(current) + i, SortedFields(new[i]), target) : i \in DOMAIN new}
    BY <1>7, <2>2
  <2>5. QED
    BY <2>3, <2>4
<1>39. h = FlattenSeq([i \in DOMAIN ids |->
            ObjectFieldRows(Len(current) + ids[i], SortedFields(new[ids[i]]), target)])
  <2>1. [i \in DOMAIN ids |-> rows[ids[i]]] =
          [i \in DOMAIN ids |->
              ObjectFieldRows(Len(current) + ids[i], SortedFields(new[ids[i]]), target)]
    BY <1>6, <1>36
  <2>2. QED
    BY <1>37, <2>1
<1>40. MigrationStatements(current, desired) = a \o b \o c \o d \o e \o f \o g \o h \o p
    BY <1>1, <1>3, <1>6, <1>8, <1>13, <1>17, <1>21, <1>25, <1>29, <1>33, <1>34, <1>39
    DEF MigrationStatements, MigrationTarget, Map, FlatMap
<1> DEFINE ab == a \o b
           ac == ab \o c
           ad == ac \o d
           ae == ad \o e
           af == ae \o f
           ag == af \o g
           ah == ag \o h
<1>41. IsList(ab) /\ ToSet(ab) = ToSet(a) \cup ToSet(b) /\ HasPlaces(ab, 0, a)
    BY <1>12, <1>9, ConcatLists, ConcatPlaces
<1> HIDE DEF ab
<1>42. IsList(ac) /\ ToSet(ac) = ToSet(ab) \cup ToSet(c) /\ HasPlaces(ac, 0, a)
    BY <1>16, <1>41, ConcatLists, ConcatPlaces
<1> HIDE DEF ac
<1>43. IsList(ad) /\ ToSet(ad) = ToSet(ac) \cup ToSet(d) /\ HasPlaces(ad, 0, a)
    BY <1>20, <1>42, ConcatLists, ConcatPlaces
<1> HIDE DEF ad
<1>44. IsList(ae) /\ ToSet(ae) = ToSet(ad) \cup ToSet(e) /\ HasPlaces(ae, 0, a)
    BY <1>24, <1>43, ConcatLists, ConcatPlaces
<1> HIDE DEF ae
<1>45. IsList(af) /\ ToSet(af) = ToSet(ae) \cup ToSet(f) /\ HasPlaces(af, 0, a)
    BY <1>28, <1>44, ConcatLists, ConcatPlaces
<1> HIDE DEF af
<1>46. IsList(ag) /\ ToSet(ag) = ToSet(af) \cup ToSet(g) /\ HasPlaces(ag, 0, a)
    BY <1>35, <1>45, ConcatLists, ConcatPlaces
<1> HIDE DEF ag
<1>47. IsList(ah) /\ ToSet(ah) = ToSet(ag) \cup ToSet(h) /\ HasPlaces(ah, 0, a)
    BY <1>38, <1>46, ConcatLists, ConcatPlaces
<1> HIDE DEF ah
<1>48. IsList(ah \o p) /\ ToSet(ah \o p) = ToSet(ah) \cup ToSet(p) /\ HasPlaces(ah \o p, 0, a)
    BY <1>32, <1>47, ConcatLists, ConcatPlaces
<1>49. MigrationStatements(current, desired) = ah \o p
    BY <1>40 DEF ab, ac, ad, ae, af, ag, ah
<1>50. ToSet(ah \o p) = ToSet(a) \cup ToSet(b) \cup ToSet(c) \cup ToSet(d) \cup ToSet(e)
                            \cup ToSet(f) \cup ToSet(g) \cup ToSet(h) \cup ToSet(p)
    BY <1>41, <1>42, <1>43, <1>44, <1>45, <1>46, <1>47, <1>48
<1>51. CreatesEachTable(MigrationStatements(current, desired), 0, new)
  <2>1. \A i \in DOMAIN new : IsList(SortedFields(new[i]))
    BY <1>2, <1>4 DEF ToSet
  <2>2. \A i \in DOMAIN new :
            a[i].op = "create_table" /\ a[i].name = ToAsciiLowercase(new[i].name)
    BY <1>8, <2>1, ObjectTableColumns
  <2>3. DOMAIN a = DOMAIN new
    BY <1>8
  <2>4. QED
    BY <1>48, <1>49, <2>2, <2>3 DEF HasPlaces, CreatesEachTable
<1>52. QED
    BY <1>1, <1>3, <1>9, <1>12, <1>16, <1>20, <1>24, <1>28, <1>35, <1>38, <1>32, <1>48, <1>49, <1>50, <1>51
    DEF MigrationItems

-----------------------------------------------------------------------------
\* Rows that are added

\* The field of the object is not one of the old snapshot.
IsFresh(object, field, old) ==
    \A s \in old : s.name = object.name => field \notin s.fields

\* New rows on top of rows that describe an older snapshot: a row for every new
\* object and a row for every new field of an old or new object.
AddsWhatIsNew(objects, objects0, newFields, old, snapshot) ==
    /\ {o.name : o \in objects} = {s.name : s \in snapshot}
    /\ \A o \in objects \ objects0 : ImplicitIdRow(o.object_id) \in newFields
    /\ \A row \in newFields : row.is_implicit =>
          \E o \in objects : row = ImplicitIdRow(o.object_id)
    /\ \A row \in newFields : ~row.is_implicit =>
          \E o \in objects, s \in snapshot :
              s.name = o.name /\ \E f \in s.fields : IsRowOf(row, o, f, objects) /\ IsFresh(o, f, old)
    /\ \A o \in objects, s \in snapshot : s.name = o.name =>
          \A f \in s.fields : IsFresh(o, f, old) =>
              \E row \in newFields :
                  /\ IsRowOf(row, o, f, objects)
                  /\ \A other \in newFields : IsRowOf(other, o, f, objects) => other = row

\* Everything old is still there.
KeepsSnapshot(old, snapshot) ==
    \A before \in old : \E after \in snapshot :
        after.name = before.name /\ before.fields \subseteq after.fields

LEMMA MoreRows ==
    ASSUME NEW objects0, NEW fields0, NEW old, Describes(objects0, fields0, old),
           NEW catalog, Declarable(catalog), KeepsSnapshot(old, Snapshot(catalog)),
           NEW objects, objects0 \subseteq objects, NEW newFields,
           KeyedRows(objects, fields0 \cup newFields), DenseIds(objects),
           AddsWhatIsNew(objects, objects0, newFields, old, Snapshot(catalog))
    PROVE  Describes(objects, fields0 \cup newFields, Snapshot(catalog))
<1> DEFINE fields == fields0 \cup newFields
           snapshot == Snapshot(catalog)
<1>1. /\ \A s \in snapshot : s.fields \subseteq DeclaredField
      /\ \A s, t \in snapshot : t.name = s.name => t = s
    BY SnapshotObjects
<1>2. \A s \in old : \E t \in snapshot : t.name = s.name /\ s.fields \subseteq t.fields
    BY DEF KeepsSnapshot
<1>3. KeyedRows(objects, fields)
    OBVIOUS
<1>4. \A a, b \in objects : a.object_id = b.object_id => a = b
    BY DEF KeyedRows
<1>5. ASSUME NEW row, NEW o \in objects, NEW p \in objects,
             NEW f \in DeclaredField, NEW g \in DeclaredField,
             IsRowOf(row, o, f, objects), IsRowOf(row, p, g, objects)
      PROVE  o = p /\ f = g
  <2>1. FieldFromRow(row, objects) = f /\ row.object_id = o.object_id
    BY ONLY <1>3, <1>5, RowMakesField
  <2>2. FieldFromRow(row, objects) = g /\ row.object_id = p.object_id
    BY ONLY <1>3, <1>5, RowMakesField
  <2>3. QED
    BY <1>4, <2>1, <2>2
<1>6. \A row, o, f : IsRowOf(row, o, f, objects0) => IsRowOf(row, o, f, objects)
    BY DEF IsRowOf
<1>7. ASSUME NEW row \in fields0, ~row.is_implicit
      PROVE  \E p \in objects0, s \in old :
                 s.name = p.name /\ \E f \in s.fields : f \in DeclaredField /\ IsRowOf(row, p, f, objects0)
  <2>1. PICK p \in objects0, s \in old :
            s.name = p.name /\ \E f \in s.fields : IsRowOf(row, p, f, objects0)
    BY <1>7 DEF Describes
  <2>2. s.fields \subseteq DeclaredField
    BY <1>1, <1>2
  <2>3. QED
    BY <2>1, <2>2
<1>8. ASSUME NEW row, NEW o \in objects, NEW f, IsRowOf(row, o, f, objects)
      PROVE  ~row.is_implicit
  <2>1. PICK id, target : id = row.field_id /\ target = row.target_object_id
    OBVIOUS
  <2>2. row = DeclaredFieldRow(o.object_id, id, f, target)
    BY <1>8, <2>1 DEF IsRowOf
  <2>3. QED
    BY <2>2 DEF DeclaredFieldRow, FieldRow
<1>9. \A o \in objects : ImplicitIdRow(o.object_id) \in fields
    BY DEF Describes, AddsWhatIsNew
<1>10. \A row \in fields : row.is_implicit => \E o \in objects : row = ImplicitIdRow(o.object_id)
    BY DEF Describes, AddsWhatIsNew
<1>11. ASSUME NEW row \in fields, ~row.is_implicit
       PROVE  \E o \in objects, s \in snapshot :
                  s.name = o.name /\ \E f \in s.fields : IsRowOf(row, o, f, objects)
  <2>1. CASE row \in newFields
    BY <1>11, <2>1 DEF AddsWhatIsNew
  <2>2. CASE row \in fields0
    <3>1. PICK p \in objects0, s \in old :
              s.name = p.name /\ \E f \in s.fields : IsRowOf(row, p, f, objects0)
      BY <1>7, <1>11, <2>2
    <3>2. PICK t \in snapshot : t.name = s.name /\ s.fields \subseteq t.fields
      BY <1>2
    <3>3. QED
      BY <1>6, <3>1, <3>2
  <2>3. QED
    BY <2>1, <2>2
<1>12. ASSUME NEW o \in objects, NEW s \in snapshot, s.name = o.name, NEW f \in s.fields
       PROVE  \E row \in fields :
                  /\ IsRowOf(row, o, f, objects)
                  /\ \A other \in fields : IsRowOf(other, o, f, objects) => other = row
  <2>1. f \in DeclaredField
    BY <1>1, <1>12
  <2>2. ASSUME NEW other \in fields0, IsRowOf(other, o, f, objects)
        PROVE  \E s0 \in old : /\ s0.name = o.name /\ f \in s0.fields
                               /\ o \in objects0 /\ IsRowOf(other, o, f, objects0)
    <3>1. ~other.is_implicit
      BY <1>8, <2>2
    <3>2. PICK p \in objects0, s0 \in old : s0.name = p.name /\
              \E g \in s0.fields : g \in DeclaredField /\ IsRowOf(other, p, g, objects0)
      BY <1>7, <3>1
    <3>3. PICK g \in s0.fields : g \in DeclaredField /\ IsRowOf(other, p, g, objects0)
      BY <3>2
    <3>4. IsRowOf(other, p, g, objects) /\ p \in objects
      BY <1>6, <3>3
    <3>5. o = p /\ f = g
      BY <1>5, <2>1, <2>2, <3>3, <3>4
    <3>6. QED
      BY <3>2, <3>3, <3>5
  <2>3. ASSUME NEW other \in newFields, IsRowOf(other, o, f, objects)
        PROVE  IsFresh(o, f, old)
    <3>1. ~other.is_implicit
      BY <1>8, <2>3
    <3>2. PICK p \in objects, t \in snapshot :
              t.name = p.name /\ \E g \in t.fields : IsRowOf(other, p, g, objects) /\ IsFresh(p, g, old)
      BY <3>1 DEF AddsWhatIsNew
    <3>3. PICK g \in t.fields : IsRowOf(other, p, g, objects) /\ IsFresh(p, g, old)
      BY <3>2
    <3>4. g \in DeclaredField
      BY <1>1, <3>3
    <3>5. o = p /\ f = g
      BY <1>5, <2>1, <2>3, <3>3, <3>4
    <3>6. QED
      BY <3>3, <3>5
  <2>4. CASE IsFresh(o, f, old)
    <3>1. PICK row \in newFields :
              /\ IsRowOf(row, o, f, objects)
              /\ \A other \in newFields : IsRowOf(other, o, f, objects) => other = row
      BY <1>12, <2>4 DEF AddsWhatIsNew
    <3>2. \A other \in fields0 : ~IsRowOf(other, o, f, objects)
      BY <2>2, <2>4 DEF IsFresh
    <3>3. QED
      BY <3>1, <3>2
  <2>5. CASE ~IsFresh(o, f, old)
    <3>1. PICK s0 \in old : s0.name = o.name /\ f \in s0.fields
      BY <2>5 DEF IsFresh
    <3>2. o \in objects0
      <4>1. PICK p \in objects0 : p.name = s0.name
        BY <3>1 DEF Describes
      <4>2. p = o
        BY <3>1, <4>1 DEF KeyedRows
      <4>3. QED
        BY <4>2
    <3>3. PICK row \in fields0 :
              /\ IsRowOf(row, o, f, objects0)
              /\ \A other \in fields0 : IsRowOf(other, o, f, objects0) => other = row
      BY <3>1, <3>2 DEF Describes
    <3>4. \A other \in fields0 : IsRowOf(other, o, f, objects) => other = row
      BY <2>2, <3>3
    <3>5. \A other \in newFields : ~IsRowOf(other, o, f, objects)
      BY <2>3, <2>5
    <3>6. QED
      BY <1>6, <3>3, <3>4, <3>5
  <2>6. QED
    BY <2>4, <2>5
<1>13. DenseIds(objects) /\ {o.name : o \in objects} = {s.name : s \in snapshot}
    BY DEF AddsWhatIsNew
<1>14. QED
    BY <1>3, <1>9, <1>10, <1>11, <1>12, <1>13 DEF Describes

-----------------------------------------------------------------------------
\* The rows that a plan inserts

RowsOf(statements, op) == {s.row : s \in {t \in statements : t.op = op}}

InsertedObjects(statements) == RowsOf(statements, "insert_object")
InsertedFields(statements) == RowsOf(statements, "insert_field")

InsertsNoRow(statements) ==
    \A s \in statements : s.op # "insert_object" /\ s.op # "insert_field"

\* A plan that inserts these rows and otherwise changes tables and indexes.
LEMMA RowsOfPlan ==
    ASSUME NEW rest, InsertsNoRow(rest), NEW objects, NEW fields, NEW statements,
           statements = rest \cup {InsertObject(row) : row \in objects}
                             \cup {InsertField(row) : row \in fields}
    PROVE  InsertedObjects(statements) = objects /\ InsertedFields(statements) = fields
<1>1. /\ \A row : InsertObject(row).op = "insert_object" /\ InsertObject(row).row = row
      /\ \A row : InsertField(row).op = "insert_field" /\ InsertField(row).row = row
    BY DEF InsertObject, InsertField
<1>2. {t \in statements : t.op = "insert_object"} = {InsertObject(row) : row \in objects}
    BY <1>1 DEF InsertsNoRow
<1>3. {t \in statements : t.op = "insert_field"} = {InsertField(row) : row \in fields}
    BY <1>1 DEF InsertsNoRow
<1>4. /\ {s.row : s \in {InsertObject(row) : row \in objects}} = objects
      /\ {s.row : s \in {InsertField(row) : row \in fields}} = fields
    BY <1>1
<1>5. QED
    BY <1>2, <1>3, <1>4 DEF InsertedObjects, InsertedFields, RowsOf

LEMMA TableStatements ==
    /\ InsertsNoRow(MetadataTableStatements)
    /\ \A name, fields : InsertsNoRow({ObjectTable(name, fields)})
    /\ \A object, fields : InsertsNoRow(RelationTablesOf(object, fields))
    /\ \A object, fields : InsertsNoRow(AddedColumnsOf(object, fields))
    /\ \A object, fields : InsertsNoRow(IndexesOf(object, fields))
<1>1. /\ \A name, columns : CreateTable(name, columns).op = "create_table"
      /\ \A table, column : AddColumn(table, column).op = "add_column"
    BY DEF CreateTable, AddColumn
<1>2. InsertsNoRow(MetadataTableStatements)
    BY <1>1 DEF InsertsNoRow, MetadataTableStatements
<1>3. \A name, fields : InsertsNoRow({ObjectTable(name, fields)})
    BY <1>1 DEF InsertsNoRow, ObjectTable
<1>4. \A object, fields : InsertsNoRow(RelationTablesOf(object, fields))
    BY <1>1 DEF InsertsNoRow, RelationTablesOf, RelationTable
<1>5. \A object, fields : InsertsNoRow(AddedColumnsOf(object, fields))
    BY <1>1 DEF InsertsNoRow, AddedColumnsOf
<1>6. \A object, fields : InsertsNoRow(IndexesOf(object, fields))
    BY FieldIndexesItems DEF InsertsNoRow, IndexesOf
<1>7. QED
    BY <1>2, <1>3, <1>4, <1>5, <1>6

\* The rows of a new object.
NewFieldRows(id, fields, target) ==
    {ImplicitIdRow(id)} \cup
    {DeclaredFieldRow(id, j + 1, fields[j], target[fields[j].type]) : j \in DOMAIN fields}

LEMMA InsertedFieldRows ==
    \A id, fields, target :
        ObjectFieldRowsOf(id, fields, target) =
            {InsertField(row) : row \in NewFieldRows(id, fields, target)}
BY DEF ObjectFieldRowsOf, NewFieldRows

\* Rows of lists of rows.
LEMMA InsertedUnion ==
    ASSUME NEW S, NEW statements, NEW rows,
           \A x \in S : statements[x] = {InsertField(row) : row \in rows[x]}
    PROVE  UNION {statements[x] : x \in S} =
               {InsertField(row) : row \in UNION {rows[x] : x \in S}}
OBVIOUS

LEMMA InitialRows ==
    ASSUME NEW catalog, IsCatalog(catalog)
    PROVE  /\ InsertedObjects(ToSet(InitialStatements(catalog))) =
                  {ObjectRow(i, catalog[i].name) : i \in DOMAIN catalog}
           /\ InsertedFields(ToSet(InitialStatements(catalog))) =
                  UNION {NewFieldRows(i, catalog[i].fields, InitialTarget(catalog)) :
                             i \in DOMAIN catalog}
<1>1. PICK tables : tables = {ObjectTable(o.name, o.fields) : o \in ToSet(catalog)}
    OBVIOUS
<1>2. PICK relations :
          relations = UNION {RelationTablesOf(o.name, ToSet(o.fields)) : o \in ToSet(catalog)}
    OBVIOUS
<1>3. PICK indexes :
          indexes = UNION {IndexesOf(o.name, ToSet(o.fields)) : o \in ToSet(catalog)}
    OBVIOUS
<1>4. InsertsNoRow(MetadataTableStatements \cup tables \cup relations \cup indexes)
    BY <1>1, <1>2, <1>3, TableStatements DEF InsertsNoRow
<1>5. PICK objects : objects = {ObjectRow(i, catalog[i].name) : i \in DOMAIN catalog}
    OBVIOUS
<1>6. {InsertObject(ObjectRow(i, catalog[i].name)) : i \in DOMAIN catalog} =
          {InsertObject(row) : row \in objects}
    BY <1>5
<1>7. PICK rows : rows = [i \in DOMAIN catalog |->
            NewFieldRows(i, catalog[i].fields, InitialTarget(catalog))]
    OBVIOUS
<1>8. PICK inserts : inserts = [i \in DOMAIN catalog |->
            ObjectFieldRowsOf(i, catalog[i].fields, InitialTarget(catalog))]
    OBVIOUS
<1>9. PICK fields : fields = UNION {rows[i] : i \in DOMAIN catalog}
    OBVIOUS
<1>10. UNION {inserts[i] : i \in DOMAIN catalog} = {InsertField(row) : row \in fields}
  <2>1. \A i \in DOMAIN catalog : inserts[i] = {InsertField(row) : row \in rows[i]}
    BY <1>7, <1>8, InsertedFieldRows
  <2>2. QED
    BY ONLY <1>9, <2>1, InsertedUnion
<1>11. /\ {inserts[i] : i \in DOMAIN catalog} =
             {ObjectFieldRowsOf(i, catalog[i].fields, InitialTarget(catalog)) : i \in DOMAIN catalog}
       /\ {rows[i] : i \in DOMAIN catalog} =
             {NewFieldRows(i, catalog[i].fields, InitialTarget(catalog)) : i \in DOMAIN catalog}
    BY <1>7, <1>8
<1>12. ToSet(InitialStatements(catalog)) =
          (MetadataTableStatements \cup tables \cup relations \cup indexes)
          \cup {InsertObject(row) : row \in objects} \cup {InsertField(row) : row \in fields}
  <2>1. ToSet(InitialStatements(catalog)) =
            MetadataTableStatements \cup tables \cup relations
            \cup {InsertObject(row) : row \in objects}
            \cup {InsertField(row) : row \in fields} \cup indexes
    BY <1>1, <1>2, <1>3, <1>6, <1>10, <1>11, InitialPlan DEF InitialItems
  <2>2. QED
    BY <2>1
<1>13. /\ InsertedObjects(ToSet(InitialStatements(catalog))) = objects
       /\ InsertedFields(ToSet(InitialStatements(catalog))) = fields
  <2>1. PICK statements : statements = ToSet(InitialStatements(catalog))
    OBVIOUS
  <2>2. InsertedObjects(statements) = objects /\ InsertedFields(statements) = fields
    <3>1. statements = (MetadataTableStatements \cup tables \cup relations \cup indexes)
              \cup {InsertObject(row) : row \in objects} \cup {InsertField(row) : row \in fields}
      BY <1>12, <2>1
    <3>2. PICK rest : rest = MetadataTableStatements \cup tables \cup relations \cup indexes
      OBVIOUS
    <3>3. /\ InsertsNoRow(rest)
          /\ statements = rest \cup {InsertObject(row) : row \in objects}
                               \cup {InsertField(row) : row \in fields}
      BY <1>4, <3>1, <3>2
    <3>4. QED
      BY ONLY <3>3, RowsOfPlan
  <2>3. QED
    BY <2>1, <2>2
<1>14. QED
    BY <1>5, <1>9, <1>11, <1>13

\* The rows of the fields added to an object.
ExtraFieldRows(current, desired, object) ==
    {DeclaredFieldRow(MigrationObjectId(current, desired, object.name),
                      Len(FindType(current, object.name).fields) + 1 + j,
                      AddedFields(current, object)[j],
                      MigrationObjectId(current, desired, AddedFields(current, object)[j].type)) :
        j \in DOMAIN AddedFields(current, object)}

LEMMA MigrationRows ==
    ASSUME NEW current, NEW desired, IsCatalog(desired), NamesOrdered(desired),
           NEW new, new = NewObjects(current, desired),
           NEW kept, kept = ToSet(KeptObjects(current, desired))
    PROVE  /\ InsertedObjects(ToSet(MigrationStatements(current, desired))) =
                  {ObjectRow(Len(current) + i, new[i].name) : i \in DOMAIN new}
           /\ InsertedFields(ToSet(MigrationStatements(current, desired))) =
                  (UNION {NewFieldRows(Len(current) + i, SortedFields(new[i]),
                                       MigrationTarget(current, desired)) : i \in DOMAIN new})
                  \cup (UNION {ExtraFieldRows(current, desired, o) : o \in kept})
<1>1. PICK rest : rest =
          {ObjectTable(o.name, SortedFields(o)) : o \in ToSet(new)}
          \cup (UNION {RelationTablesOf(o.name, ToSet(o.fields)) : o \in ToSet(new)})
          \cup (UNION {RelationTablesOf(o.name, ToSet(AddedFields(current, o))) : o \in kept})
          \cup (UNION {AddedColumnsOf(o, ToSet(AddedFields(current, o))) : o \in kept})
          \cup (UNION {IndexesOf(o.name, ToSet(o.fields)) : o \in ToSet(new)})
          \cup (UNION {IndexesOf(o.name, ToSet(AddedFields(current, o))) : o \in kept})
    OBVIOUS
<1>2. InsertsNoRow(rest)
    BY <1>1, TableStatements DEF InsertsNoRow
<1>3. PICK objects : objects = {ObjectRow(Len(current) + i, new[i].name) : i \in DOMAIN new}
    OBVIOUS
<1>4. {InsertObject(ObjectRow(Len(current) + i, new[i].name)) : i \in DOMAIN new} =
          {InsertObject(row) : row \in objects}
    BY <1>3
<1>5. PICK rows : rows = [i \in DOMAIN new |->
            NewFieldRows(Len(current) + i, SortedFields(new[i]), MigrationTarget(current, desired))]
    OBVIOUS
<1>6. PICK inserts : inserts = [i \in DOMAIN new |->
            ObjectFieldRowsOf(Len(current) + i, SortedFields(new[i]),
                              MigrationTarget(current, desired))]
    OBVIOUS
<1>7. PICK extra : extra = [o \in kept |-> ExtraFieldRows(current, desired, o)]
    OBVIOUS
<1>8. PICK extraInserts : extraInserts = [o \in kept |-> AddedFieldRowsOf(current, desired, o)]
    OBVIOUS
<1>9. PICK fields1 : fields1 = UNION {rows[i] : i \in DOMAIN new}
    OBVIOUS
<1>10. PICK fields2 : fields2 = UNION {extra[o] : o \in kept}
    OBVIOUS
<1>11. UNION {inserts[i] : i \in DOMAIN new} = {InsertField(row) : row \in fields1}
  <2>1. \A i \in DOMAIN new : inserts[i] = {InsertField(row) : row \in rows[i]}
    BY <1>5, <1>6, InsertedFieldRows
  <2>2. QED
    BY ONLY <1>9, <2>1, InsertedUnion
<1>12. UNION {extraInserts[o] : o \in kept} = {InsertField(row) : row \in fields2}
  <2>1. \A o \in kept : AddedFieldRowsOf(current, desired, o) =
            {InsertField(row) : row \in ExtraFieldRows(current, desired, o)}
    BY DEF AddedFieldRowsOf, ExtraFieldRows
  <2>2. \A o \in kept : extraInserts[o] = {InsertField(row) : row \in extra[o]}
    BY <1>7, <1>8, <2>1
  <2>3. QED
    BY ONLY <1>10, <2>2, InsertedUnion
<1>13. /\ {inserts[i] : i \in DOMAIN new} =
             {ObjectFieldRowsOf(Len(current) + i, SortedFields(new[i]),
                                MigrationTarget(current, desired)) : i \in DOMAIN new}
       /\ {rows[i] : i \in DOMAIN new} =
             {NewFieldRows(Len(current) + i, SortedFields(new[i]),
                           MigrationTarget(current, desired)) : i \in DOMAIN new}
       /\ {extraInserts[o] : o \in kept} = {AddedFieldRowsOf(current, desired, o) : o \in kept}
       /\ {extra[o] : o \in kept} = {ExtraFieldRows(current, desired, o) : o \in kept}
    BY <1>5, <1>6, <1>7, <1>8
<1>14. PICK statements : statements = ToSet(MigrationStatements(current, desired))
    OBVIOUS
<1>15. PICK fields : fields = fields1 \cup fields2
    OBVIOUS
<1>16. InsertedObjects(statements) = objects /\ InsertedFields(statements) = fields
  <2>1. PICK a : a = {InsertObject(ObjectRow(Len(current) + i, new[i].name)) : i \in DOMAIN new}
    OBVIOUS
  <2>2. PICK b : b = UNION {ObjectFieldRowsOf(Len(current) + i, SortedFields(new[i]),
                                              MigrationTarget(current, desired)) : i \in DOMAIN new}
    OBVIOUS
  <2>3. PICK d : d = UNION {AddedFieldRowsOf(current, desired, o) : o \in kept}
    OBVIOUS
  <2>4. MigrationItems(current, desired) = rest \cup a \cup b \cup d
    BY <1>1, <2>1, <2>2, <2>3 DEF MigrationItems
  <2>5. statements = rest \cup a \cup b \cup d
    BY <1>14, <2>4, MigrationPlan
  <2>6. a = {InsertObject(row) : row \in objects}
    BY <1>4, <2>1
  <2>7. b = {InsertField(row) : row \in fields1}
    BY <1>11, <1>13, <2>2
  <2>8. d = {InsertField(row) : row \in fields2}
    BY <1>12, <1>13, <2>3
  <2>9. b \cup d = {InsertField(row) : row \in fields}
    BY <1>15, <2>7, <2>8
  <2>10. statements = rest \cup {InsertObject(row) : row \in objects}
                           \cup {InsertField(row) : row \in fields}
    BY <2>5, <2>6, <2>9
  <2>11. QED
    BY ONLY <1>2, <2>10, RowsOfPlan
<1>17. QED
    BY <1>3, <1>9, <1>10, <1>13, <1>14, <1>15, <1>16

LEMMA TypeIdFinds ==
    ASSUME NEW catalog, IsList(catalog), NEW name \in TypeNames(catalog)
    PROVE  TypeId(catalog, name) \in DOMAIN catalog /\ catalog[TypeId(catalog, name)].name = name
<1>1. Len(catalog) \in Nat /\ DOMAIN catalog = 1..Len(catalog)
    BY ListLength
<1>2. PICK places : places = {i \in 1..Len(catalog) : catalog[i].name = name}
    OBVIOUS
<1>3. places # {} /\ places \subseteq Nat
    BY <1>1, <1>2 DEF TypeNames, ToSet
<1>4. \E n \in places : \A m \in places : n <= m
    BY <1>3, LeastNatural
<1>5. Min(places) \in places
    BY <1>4 DEF Min
<1>6. TypeId(catalog, name) = Min(places)
    BY <1>2, <1>3 DEF TypeId, SelectInSeq
<1>7. QED
    BY <1>1, <1>2, <1>5, <1>6

\* Objects numbered 1 to n are n objects.
LEMMA DenseRows ==
    ASSUME NEW objects, IsFiniteSet(objects), NEW n \in Nat,
           \A a, b \in objects : a.object_id = b.object_id => a = b,
           {o.object_id : o \in objects} = 1..n
    PROVE  DenseIds(objects) /\ Cardinality(objects) = n
<1>1. PICK id : id = [o \in objects |-> o.object_id]
    OBVIOUS
<1>2. id \in Bijection(objects, 1..n)
    BY <1>1 DEF Bijection, Injection, Surjection, IsInjective
<1>3. IsFiniteSet(1..n) /\ Cardinality(1..n) = n
  <2>1. 1 \in Int /\ n \in Int
    OBVIOUS
  <2>2. QED
    BY <2>1, FS_Interval
<1>4. ExistsBijection(objects, 1..n)
    BY <1>2 DEF ExistsBijection
<1>5. Cardinality(objects) = Cardinality(1..n)
    BY <1>3, <1>4, FS_Bijection
<1>6. QED
    BY <1>3, <1>5 DEF DenseIds

RowsOfList(id, list, number, target) ==
    {DeclaredFieldRow(id, number[j], list[j], target[list[j].type]) : j \in DOMAIN list}

\* Every link of the list has its target among the object rows.
TargetsKnown(list, target, objects) ==
    \A f \in ToSet(list) : f.kind = "link" =>
        \E t \in objects : t.object_id = target[f.type] /\ t.name = f.type

\* A row for every field, and no other row.
RowsForFields(rows, o, added, objects) ==
    /\ \A row \in rows : ~row.is_implicit /\ row.object_id = o.object_id
                          /\ \E f \in added : IsRowOf(row, o, f, objects)
    /\ \A f \in added : \E row \in rows :
          /\ IsRowOf(row, o, f, objects)
          /\ \A other \in rows : IsRowOf(other, o, f, objects) => other = row

\* The rows of a list of fields of one object.
LEMMA FieldRowsOfList ==
    ASSUME NEW objects, NEW fields, KeyedRows(objects, fields), NEW o \in objects,
           NEW list, IsList(list), DistinctNames(list), ToSet(list) \subseteq DeclaredField,
           NEW target, NEW number, NEW rows, rows = RowsOfList(o.object_id, list, number, target),
           TargetsKnown(list, target, objects)
    PROVE  RowsForFields(rows, o, ToSet(list), objects)
<1>1. \A j \in DOMAIN list : list[j] \in ToSet(list) /\ list[j] \in DeclaredField
    BY DEF ToSet
<1>2. ASSUME NEW j \in DOMAIN list, NEW row,
             row = DeclaredFieldRow(o.object_id, number[j], list[j], target[list[j].type])
      PROVE  IsRowOf(row, o, list[j], objects)
  <2>1. PICK id, n, f, t : id = o.object_id /\ n = number[j] /\ f = list[j] /\ t = target[f.type]
    OBVIOUS
  <2>2. row = DeclaredFieldRow(id, n, f, t)
    BY <1>2, <2>1
  <2>3. row.field_id = n /\ row.target_object_id = IF f.kind = "link" THEN t ELSE None
    BY <2>2 DEF DeclaredFieldRow, FieldRow
  <2>4. row = DeclaredFieldRow(id, row.field_id, f, row.target_object_id)
    BY <2>2, <2>3 DEF DeclaredFieldRow
  <2>5. f.kind = "link" => \E x \in objects : x.object_id = row.target_object_id /\ x.name = f.type
    BY <1>1, <2>1, <2>3 DEF TargetsKnown
  <2>6. QED
    BY <2>1, <2>4, <2>5 DEF IsRowOf
<1>3. ASSUME NEW f \in DeclaredField, NEW row, IsRowOf(row, o, f, objects)
      PROVE  FieldFromRow(row, objects) = f /\ ~row.is_implicit /\ row.object_id = o.object_id
    BY <1>3, RowMakesField
<1>4. ASSUME NEW row \in rows
      PROVE  ~row.is_implicit /\ row.object_id = o.object_id
             /\ \E f \in ToSet(list) : IsRowOf(row, o, f, objects)
  <2>1. PICK j \in DOMAIN list :
            row = DeclaredFieldRow(o.object_id, number[j], list[j], target[list[j].type])
    BY DEF RowsOfList
  <2>2. IsRowOf(row, o, list[j], objects)
    BY <1>2, <2>1
  <2>3. QED
    BY <1>1, <1>3, <2>2
<1>5. ASSUME NEW f \in ToSet(list)
      PROVE  \E row \in rows :
                 /\ IsRowOf(row, o, f, objects)
                 /\ \A other \in rows : IsRowOf(other, o, f, objects) => other = row
  <2>1. PICK j \in DOMAIN list : list[j] = f
    BY DEF ToSet
  <2>2. PICK row : row = DeclaredFieldRow(o.object_id, number[j], list[j], target[list[j].type])
    OBVIOUS
  <2>3. row \in rows /\ IsRowOf(row, o, f, objects)
    BY <1>2, <2>1, <2>2 DEF RowsOfList
  <2>4. ASSUME NEW other \in rows, IsRowOf(other, o, f, objects) PROVE other = row
    <3>1. PICK k \in DOMAIN list :
              other = DeclaredFieldRow(o.object_id, number[k], list[k], target[list[k].type])
      BY DEF RowsOfList
    <3>2. IsRowOf(other, o, list[k], objects)
      BY <1>2, <3>1
    <3>3. FieldFromRow(other, objects) = list[k] /\ FieldFromRow(other, objects) = f
      BY <1>1, <1>3, <2>1, <2>4, <3>2
    <3>4. k = j
      BY <2>1, <3>3 DEF DistinctNames
    <3>5. QED
      BY <2>2, <3>1, <3>4
  <2>5. QED
    BY <2>3, <2>4
<1>6. QED
    BY <1>4, <1>5 DEF RowsForFields

\* New rows given object by object.
GivenByObject(objects, objects0, newFields, old, snapshot, rows, added) ==
    /\ \A a, b \in objects : a.object_id = b.object_id => a = b
    /\ {o.name : o \in objects} = {s.name : s \in snapshot}
    /\ newFields = {ImplicitIdRow(o.object_id) : o \in objects \ objects0}
                   \cup (UNION {rows[o] : o \in objects})
    /\ \A o \in objects : RowsForFields(rows[o], o, added[o], objects)
    /\ \A o \in objects, s \in snapshot :
          s.name = o.name => added[o] = {f \in s.fields : IsFresh(o, f, old)}

LEMMA RowsByObject ==
    ASSUME NEW objects, NEW objects0, NEW old, NEW snapshot, NEW rows, NEW added, NEW newFields,
           GivenByObject(objects, objects0, newFields, old, snapshot, rows, added)
    PROVE  AddsWhatIsNew(objects, objects0, newFields, old, snapshot)
<1> USE DEF GivenByObject, RowsForFields
<1>1. \A id : ImplicitIdRow(id).is_implicit /\ ImplicitIdRow(id).object_id = id
    BY DEF ImplicitIdRow, FieldRow
<1>2. ASSUME NEW row, NEW o, NEW f, IsRowOf(row, o, f, objects)
      PROVE  ~row.is_implicit /\ row.object_id = o.object_id
  <2>1. PICK id, target, object : id = row.field_id /\ target = row.target_object_id
                                  /\ object = o.object_id
    OBVIOUS
  <2>2. row = DeclaredFieldRow(object, id, f, target)
    BY <1>2, <2>1 DEF IsRowOf
  <2>3. QED
    BY <2>1, <2>2 DEF DeclaredFieldRow, FieldRow
<1>3. \A o \in objects \ objects0 : ImplicitIdRow(o.object_id) \in newFields
    OBVIOUS
<1>4. ASSUME NEW row \in newFields, row.is_implicit
      PROVE  \E o \in objects : row = ImplicitIdRow(o.object_id)
    BY <1>4
<1>5. ASSUME NEW row \in newFields, ~row.is_implicit
      PROVE  \E o \in objects, s \in snapshot :
                 s.name = o.name /\ \E f \in s.fields : IsRowOf(row, o, f, objects) /\ IsFresh(o, f, old)
  <2>1. PICK o \in objects : row \in rows[o]
    BY <1>1, <1>5
  <2>2. PICK f \in added[o] : IsRowOf(row, o, f, objects)
    BY <2>1
  <2>3. PICK s \in snapshot : s.name = o.name
    OBVIOUS
  <2>4. f \in s.fields /\ IsFresh(o, f, old)
    BY <2>2, <2>3
  <2>5. QED
    BY <2>2, <2>3, <2>4
<1>6. ASSUME NEW o \in objects, NEW s \in snapshot, s.name = o.name,
             NEW f \in s.fields, IsFresh(o, f, old)
      PROVE  \E row \in newFields :
                 /\ IsRowOf(row, o, f, objects)
                 /\ \A other \in newFields : IsRowOf(other, o, f, objects) => other = row
  <2>1. f \in added[o]
    BY <1>6
  <2>2. PICK row \in rows[o] :
            /\ IsRowOf(row, o, f, objects)
            /\ \A other \in rows[o] : IsRowOf(other, o, f, objects) => other = row
    BY <2>1
  <2>3. ASSUME NEW other \in newFields, IsRowOf(other, o, f, objects) PROVE other \in rows[o]
    <3>1. ~other.is_implicit /\ other.object_id = o.object_id
      BY <1>2, <2>3
    <3>2. PICK p \in objects : other \in rows[p]
      BY <1>1, <2>3, <3>1
    <3>3. p = o
      BY <3>1, <3>2
    <3>4. QED
      BY <3>2, <3>3
  <2>4. QED
    BY <2>2, <2>3
<1>7. QED
    BY <1>3, <1>4, <1>5, <1>6 DEF AddsWhatIsNew

LEMMA NothingDescribed == Describes({}, {}, {})
<1>1. IsFiniteSet({}) /\ Cardinality({}) = 0 /\ 1..0 = {}
    BY FS_EmptySet
<1>2. QED
    BY <1>1 DEF Describes, KeyedRows, DenseIds

LEMMA ObjectRowEntries ==
    \A id, name : ObjectRow(id, name).object_id = id /\ ObjectRow(id, name).name = name
BY DEF ObjectRow

\* The fields of a declared object, and their targets.
LEMMA DeclaredFields ==
    ASSUME NEW catalog, Declarable(catalog), NEW object \in ToSet(catalog)
    PROVE  /\ IsList(object.fields) /\ DistinctNames(object.fields)
           /\ ToSet(object.fields) \subseteq DeclaredField
           /\ \A f \in ToSet(object.fields) : f.kind = "link" => f.type \in TypeNames(catalog)
           /\ \A s \in Snapshot(catalog) : s.name = object.name => s.fields = ToSet(object.fields)
           /\ [name |-> object.name, fields |-> ToSet(object.fields)] \in Snapshot(catalog)
<1>1. IsCatalog(catalog)
    BY DeclaredCatalog DEF Declarable
<1>2. IsList(object.fields) /\ DistinctNames(object.fields)
    BY <1>1 DEF IsCatalog
<1>3. PICK s : s = [name |-> object.name, fields |-> ToSet(object.fields)]
    OBVIOUS
<1>4. s \in Snapshot(catalog) /\ s.name = object.name /\ s.fields = ToSet(object.fields)
    BY <1>3 DEF Snapshot
<1>5. s.fields \subseteq DeclaredField /\ \A t \in Snapshot(catalog) : t.name = s.name => t = s
    BY <1>4, SnapshotObjects
<1>6. \A f \in ToSet(object.fields) : f.kind = "link" => f.type \in TypeNames(catalog)
    BY DEF Declarable, ValidCatalog
<1>7. QED
    BY <1>2, <1>3, <1>4, <1>5, <1>6

LEMMA SnapshotNames ==
    ASSUME NEW catalog PROVE {s.name : s \in Snapshot(catalog)} = TypeNames(catalog)
<1>1. ASSUME NEW o \in ToSet(catalog) PROVE \E s \in Snapshot(catalog) : s.name = o.name
  <2>1. PICK s : s = [name |-> o.name, fields |-> ToSet(o.fields)]
    OBVIOUS
  <2>2. QED
    BY <2>1 DEF Snapshot
<1>2. ASSUME NEW s \in Snapshot(catalog) PROVE \E o \in ToSet(catalog) : s.name = o.name
    BY DEF Snapshot
<1>3. QED
    BY <1>1, <1>2 DEF TypeNames

\* The initial plan leaves rows that say what the catalog says.
LEMMA InitialDescribes ==
    ASSUME NEW catalog, Declarable(catalog),
           NEW objects, objects = {ObjectRow(i, catalog[i].name) : i \in DOMAIN catalog},
           NEW fields, fields = UNION {NewFieldRows(i, catalog[i].fields, InitialTarget(catalog)) :
                                          i \in DOMAIN catalog},
           KeyedRows(objects, fields)
    PROVE  Describes(objects, fields, Snapshot(catalog))
<1>1. IsCatalog(catalog) /\ IsList(catalog) /\ DistinctNames(catalog)
    BY DeclaredCatalog DEF Declarable, IsCatalog
<1>2. Len(catalog) \in Nat /\ DOMAIN catalog = 1..Len(catalog)
    BY <1>1, ListLength
<1>3. \A o \in objects : /\ o.object_id \in DOMAIN catalog /\ o.name = catalog[o.object_id].name
                         /\ catalog[o.object_id] \in ToSet(catalog)
    BY ObjectRowEntries DEF ToSet
<1>4. ASSUME NEW i \in DOMAIN catalog
      PROVE  \E o \in objects : o.object_id = i /\ o.name = catalog[i].name
  <2>1. PICK name : name = catalog[i].name
    OBVIOUS
  <2>2. PICK o : o = ObjectRow(i, name)
    OBVIOUS
  <2>3. o \in objects
    BY <2>1, <2>2
  <2>4. QED
    BY <2>1, <2>2, <2>3, ObjectRowEntries
<1>5. /\ IsFiniteSet(objects)
      /\ \A a, b \in objects : a.object_id = b.object_id => a = b
    BY DEF KeyedRows
<1>6. {o.object_id : o \in objects} = 1..Len(catalog)
    BY <1>2, <1>3, <1>4
<1>7. DenseIds(objects)
    BY <1>2, <1>5, <1>6, DenseRows
<1>8. {o.name : o \in objects} = TypeNames(catalog)
  <2>1. ASSUME NEW o \in objects PROVE o.name \in TypeNames(catalog)
    BY <1>3 DEF TypeNames
  <2>2. ASSUME NEW name \in TypeNames(catalog) PROVE \E o \in objects : o.name = name
    <3>1. PICK i \in DOMAIN catalog : catalog[i].name = name
      BY DEF TypeNames, ToSet
    <3>2. QED
      BY <1>4, <3>1
  <2>3. QED
    BY <2>1, <2>2
<1>9. PICK target : target = InitialTarget(catalog)
    OBVIOUS
<1>10. \A name \in TypeNames(catalog) : \E t \in objects : t.object_id = target[name] /\ t.name = name
  <2>1. TAKE name \in TypeNames(catalog)
  <2>2. TypeId(catalog, name) \in DOMAIN catalog /\ catalog[TypeId(catalog, name)].name = name
    BY <1>1, TypeIdFinds
  <2>3. target[name] = TypeId(catalog, name)
    BY <1>9 DEF InitialTarget
  <2>4. QED
    BY <1>4, <2>2, <2>3
<1>11. PICK rows : rows = [o \in objects |->
          {DeclaredFieldRow(o.object_id, j + 1, catalog[o.object_id].fields[j],
                            target[catalog[o.object_id].fields[j].type]) :
              j \in DOMAIN catalog[o.object_id].fields}]
    OBVIOUS
<1>12. PICK added : added = [o \in objects |-> ToSet(catalog[o.object_id].fields)]
    OBVIOUS
<1>13. fields = {ImplicitIdRow(o.object_id) : o \in objects \ {}} \cup (UNION {rows[o] : o \in objects})
  <2>1. ASSUME NEW o \in objects
        PROVE  NewFieldRows(o.object_id, catalog[o.object_id].fields, target) =
                   {ImplicitIdRow(o.object_id)} \cup rows[o]
    BY <1>11 DEF NewFieldRows
  <2>2. fields = UNION {NewFieldRows(o.object_id, catalog[o.object_id].fields, target) : o \in objects}
    <3>1. {NewFieldRows(i, catalog[i].fields, target) : i \in DOMAIN catalog} =
              {NewFieldRows(o.object_id, catalog[o.object_id].fields, target) : o \in objects}
      BY ONLY <1>3, <1>4
    <3>2. QED
      BY <1>9, <3>1
  <2>3. ASSUME NEW row
        PROVE  row \in fields <=> \E o \in objects : row = ImplicitIdRow(o.object_id) \/ row \in rows[o]
    <3>1. row \in fields <=>
              \E o \in objects : row \in NewFieldRows(o.object_id, catalog[o.object_id].fields, target)
      BY ONLY <2>2
    <3>2. QED
      BY ONLY <2>1, <3>1
  <2>4. QED
    BY ONLY <2>3
<1>14. ASSUME NEW o \in objects PROVE RowsForFields(rows[o], o, added[o], objects)
  <2>1. PICK object \in ToSet(catalog) : object = catalog[o.object_id]
    BY <1>3
  <2>2. PICK list : list = object.fields
    OBVIOUS
  <2>3. /\ IsList(list) /\ DistinctNames(list) /\ ToSet(list) \subseteq DeclaredField
        /\ \A f \in ToSet(list) : f.kind = "link" => f.type \in TypeNames(catalog)
    BY <2>2, DeclaredFields
  <2>4. PICK number : number = [j \in DOMAIN list |-> j + 1]
    OBVIOUS
  <2>5. PICK its : its = rows[o]
    OBVIOUS
  <2>6. its = RowsOfList(o.object_id, list, number, target)
    BY <1>11, <2>1, <2>2, <2>4, <2>5 DEF RowsOfList
  <2>7. TargetsKnown(list, target, objects)
    BY <1>10, <2>3 DEF TargetsKnown
  <2>8. RowsForFields(its, o, ToSet(list), objects)
    BY ONLY KeyedRows(objects, fields), o \in objects, <2>3, <2>6, <2>7, FieldRowsOfList
  <2>9. added[o] = ToSet(list)
    BY <1>12, <2>1, <2>2
  <2>10. QED
    BY <2>5, <2>8, <2>9
<1>15. ASSUME NEW o \in objects, NEW s \in Snapshot(catalog), s.name = o.name
       PROVE  added[o] = {f \in s.fields : IsFresh(o, f, {})}
  <2>1. PICK object \in ToSet(catalog) : object = catalog[o.object_id]
    BY <1>3
  <2>2. s.fields = ToSet(catalog[o.object_id].fields)
    <3>1. s.name = object.name
      BY <1>3, <1>15, <2>1
    <3>2. s.fields = ToSet(object.fields)
      BY ONLY Declarable(catalog), object \in ToSet(catalog), s \in Snapshot(catalog),
              <3>1, DeclaredFields
    <3>3. QED
      BY <2>1, <3>2
  <2>3. \A f : IsFresh(o, f, {})
    BY DEF IsFresh
  <2>4. QED
    BY <1>12, <2>2, <2>3
<1>16. PICK old : old = {}
    OBVIOUS
<1>17. PICK snapshot : snapshot = Snapshot(catalog)
    OBVIOUS
<1>18. {o.name : o \in objects} = {s.name : s \in snapshot}
    BY <1>8, <1>17, SnapshotNames
<1>19. AddsWhatIsNew(objects, {}, fields, old, snapshot)
  <2>1. \A o \in objects, s \in snapshot :
            s.name = o.name => added[o] = {f \in s.fields : IsFresh(o, f, old)}
    BY <1>15, <1>16, <1>17
  <2>2. PICK before : before = {}
    OBVIOUS
  <2>3. fields = {ImplicitIdRow(o.object_id) : o \in objects \ before}
                 \cup (UNION {rows[o] : o \in objects})
    BY <1>13, <2>2
  <2>4. GivenByObject(objects, before, fields, old, snapshot, rows, added)
    BY ONLY <1>5, <1>14, <1>18, <2>1, <2>3 DEF GivenByObject
  <2>5. AddsWhatIsNew(objects, before, fields, old, snapshot)
    BY ONLY <2>4, RowsByObject
  <2>6. QED
    BY <2>2, <2>5
<1>20. Describes(objects, {} \cup fields, Snapshot(catalog))
  <2>1. PICK before, rows0 : before = {} /\ rows0 = {}
    OBVIOUS
  <2>2. Describes(before, rows0, old)
    BY <1>16, <2>1, NothingDescribed
  <2>3. KeepsSnapshot(old, Snapshot(catalog))
    BY <1>16 DEF KeepsSnapshot
  <2>4. KeyedRows(objects, rows0 \cup fields)
    BY <2>1
  <2>5. AddsWhatIsNew(objects, before, fields, old, Snapshot(catalog))
    BY <1>17, <1>19, <2>1
  <2>6. before \subseteq objects
    BY <2>1
  <2>7. Describes(objects, rows0 \cup fields, Snapshot(catalog))
    BY ONLY Declarable(catalog), <1>7, <2>2, <2>3, <2>4, <2>5, <2>6, MoreRows
  <2>8. QED
    BY <2>1, <2>7
<1>21. {} \cup fields = fields
    OBVIOUS
<1>22. QED
    BY <1>20, <1>21

\* No name twice in the lists a plan is made from.
LEMMA SortedFieldsNames ==
    ASSUME NEW catalog, IsCatalog(catalog), NamesOrdered(catalog), NEW o \in ToSet(catalog)
    PROVE  DistinctNames(SortedFields(o))
<1>1. PICK seq : seq = SortedFields(o)
    OBVIOUS
<1>2. ToSet(seq) = ToSet(o.fields) /\ \A i, j \in DOMAIN seq : seq[i] = seq[j] => i = j
    BY <1>1, SortedFieldsItems
<1>3. \A i \in DOMAIN seq : seq[i] \in ToSet(o.fields)
    BY <1>2 DEF ToSet
<1>4. \A x, y \in ToSet(o.fields) : x.name = y.name => x = y
    BY NameDetermines DEF IsCatalog
<1>5. QED
    BY <1>1, <1>2, <1>3, <1>4 DEF DistinctNames

LEMMA NewObjectsNames ==
    ASSUME NEW current, NEW desired, IsCatalog(desired), NamesOrdered(desired)
    PROVE  DistinctNames(NewObjects(current, desired))
<1>1. PICK seq : seq = SortedObjects(desired)
    OBVIOUS
<1>2. /\ IsList(seq) /\ ToSet(seq) = ToSet(desired)
      /\ \A i, j \in DOMAIN seq : seq[i] = seq[j] => i = j
    BY <1>1, SortedObjectsItems
<1>3. PICK kept : kept = {i \in DOMAIN seq : seq[i].name \notin TypeNames(current)}
    OBVIOUS
<1>4. PICK order : order = SortedByKey(kept, [i \in kept |-> i])
    OBVIOUS
<1>5. PICK list : list = NewObjects(current, desired)
    OBVIOUS
<1>6. list = [n \in DOMAIN order |-> seq[order[n]]]
    BY <1>1, <1>3, <1>4, <1>5 DEF NewObjects, Filter
<1>7. kept \in SUBSET DOMAIN seq
    BY <1>3
<1>8. \A m, n \in DOMAIN list : list[m] = list[n] => m = n
    BY ONLY <1>2, <1>4, <1>6, <1>7, FilteredApart
<1>9. \A n \in DOMAIN list : list[n] \in ToSet(desired)
    BY <1>5, NewObjectsItems DEF ToSet
<1>10. \A x, y \in ToSet(desired) : x.name = y.name => x = y
    BY NameDetermines DEF IsCatalog
<1>11. QED
    BY <1>5, <1>8, <1>9, <1>10 DEF DistinctNames

LEMMA AddedFieldsNames ==
    ASSUME NEW current, NEW desired, IsCatalog(desired), NamesOrdered(desired),
           NEW o \in ToSet(desired)
    PROVE  DistinctNames(AddedFields(current, o))
<1>1. PICK seq : seq = SortedFields(o)
    OBVIOUS
<1>2. /\ IsList(seq) /\ ToSet(seq) = ToSet(o.fields)
      /\ \A i, j \in DOMAIN seq : seq[i] = seq[j] => i = j
    BY <1>1, SortedFieldsItems
<1>3. PICK kept : kept = {i \in DOMAIN seq : seq[i].name \notin FieldNames(FindType(current, o.name))}
    OBVIOUS
<1>4. PICK order : order = SortedByKey(kept, [i \in kept |-> i])
    OBVIOUS
<1>5. PICK list : list = AddedFields(current, o)
    OBVIOUS
<1>6. list = [n \in DOMAIN order |-> seq[order[n]]]
    BY <1>1, <1>3, <1>4, <1>5 DEF AddedFields, Filter
<1>7. kept \in SUBSET DOMAIN seq
    BY <1>3
<1>8. \A m, n \in DOMAIN list : list[m] = list[n] => m = n
    BY ONLY <1>2, <1>4, <1>6, <1>7, FilteredApart
<1>9. \A n \in DOMAIN list : list[n] \in ToSet(o.fields)
  <2>1. ToSet(list) = {f \in ToSet(o.fields) : f.name \notin FieldNames(FindType(current, o.name))}
    BY <1>5, AddedFieldsItems
  <2>2. \A n \in DOMAIN list : list[n] \in ToSet(list)
    BY DEF ToSet
  <2>3. QED
    BY <2>1, <2>2
<1>10. \A x, y \in ToSet(o.fields) : x.name = y.name => x = y
    BY NameDetermines DEF IsCatalog
<1>11. QED
    BY <1>5, <1>8, <1>9, <1>10 DEF DistinctNames

-----------------------------------------------------------------------------
\* The object rows after a migration

\* A migration, from the rows of a declared catalog.
Migrates(objects0, fields0, old, current, desired) ==
    /\ Declarable(old) /\ Describes(objects0, fields0, Snapshot(old))
    /\ current = CatalogFromRows(objects0, fields0)
    /\ Declarable(desired) /\ NamesOrdered(desired) /\ Supported(current, desired)

LEMMA MigrationBase ==
    ASSUME NEW objects0, NEW fields0, NEW old, NEW current, NEW desired,
           Migrates(objects0, fields0, old, current, desired),
           NEW new, new = NewObjects(current, desired)
    PROVE  /\ IsCatalog(current) /\ IsCatalog(desired) /\ Snapshot(current) = Snapshot(old)
           /\ Len(current) \in Nat /\ DOMAIN current = 1..Len(current)
           /\ \A o \in objects0 :
                 o.object_id \in DOMAIN current /\ current[o.object_id].name = o.name
           /\ \A i \in DOMAIN current :
                 \E o \in objects0 : o.object_id = i /\ o.name = current[i].name
           /\ TypeNames(current) \subseteq TypeNames(desired)
           /\ IsList(new) /\ DistinctNames(new) /\ Len(new) \in Nat /\ DOMAIN new = 1..Len(new)
           /\ ToSet(new) = {o \in ToSet(desired) : o.name \notin TypeNames(current)}
<1>1. /\ IsCatalog(current) /\ Snapshot(current) = Snapshot(old)
      /\ Len(current) = Cardinality(objects0)
      /\ \A o \in objects0 :
            o.object_id \in DOMAIN current /\ current[o.object_id].name = o.name
    BY DescribedLoads DEF Migrates
<1>2. IsCatalog(desired)
    BY DeclaredCatalog DEF Migrates, Declarable
<1>3. Len(current) \in Nat /\ DOMAIN current = 1..Len(current)
    BY <1>1, ListLength DEF IsCatalog
<1>4. {o.object_id : o \in objects0} = DOMAIN current
    BY <1>1, <1>3 DEF Migrates, Describes, DenseIds
<1>5. ASSUME NEW name \in TypeNames(current) PROVE name \in TypeNames(desired)
  <2>1. PICK object \in ToSet(current) : object.name = name
    BY DEF TypeNames
  <2>2. \E kept \in ToSet(desired) : kept.name = object.name
    BY <1>1, <1>2, SupportedKeepsFields DEF Migrates
  <2>3. QED
    BY <2>1, <2>2 DEF TypeNames
<1>6. /\ IsList(new) /\ DistinctNames(new)
      /\ ToSet(new) = {o \in ToSet(desired) : o.name \notin TypeNames(current)}
    BY <1>2, NewObjectsItems, NewObjectsNames DEF Migrates
<1>7. Len(new) \in Nat /\ DOMAIN new = 1..Len(new)
    BY <1>6, ListLength
<1>8. \A i \in DOMAIN current :
          \E o \in objects0 : o.object_id = i /\ o.name = current[i].name
    BY <1>1, <1>4
<1>9. QED
    BY <1>1, <1>2, <1>3, <1>5, <1>6, <1>7, <1>8

NewObjectRows(current, new) == {ObjectRow(Len(current) + i, new[i].name) : i \in DOMAIN new}

\* The new object rows continue the numbering, every declared name has a row,
\* and the target that a plan gives to a name is the id of that row.
LEMMA MigratedObjects ==
    ASSUME NEW objects0, NEW fields0, NEW old, NEW current, NEW desired,
           Migrates(objects0, fields0, old, current, desired),
           NEW new, new = NewObjects(current, desired),
           NEW objects, objects = objects0 \cup NewObjectRows(current, new),
           IsFiniteSet(objects), \A a, b \in objects : a.object_id = b.object_id => a = b
    PROVE  /\ DenseIds(objects) /\ {o.name : o \in objects} = TypeNames(desired)
           /\ \A name \in TypeNames(desired) : \E t \in objects :
                 t.object_id = MigrationObjectId(current, desired, name) /\ t.name = name
           /\ \A o \in objects \ objects0 : o.name \notin TypeNames(current)
           /\ \A i \in DOMAIN new : \E o \in objects \ objects0 :
                 o = ObjectRow(Len(current) + i, new[i].name)
           /\ \A o \in objects \ objects0 : \E i \in DOMAIN new :
                 o = ObjectRow(Len(current) + i, new[i].name)
<1>1. /\ IsCatalog(current) /\ IsCatalog(desired)
      /\ Len(current) \in Nat /\ DOMAIN current = 1..Len(current)
      /\ \A o \in objects0 :
            o.object_id \in DOMAIN current /\ current[o.object_id].name = o.name
      /\ \A i \in DOMAIN current :
            \E o \in objects0 : o.object_id = i /\ o.name = current[i].name
      /\ TypeNames(current) \subseteq TypeNames(desired)
      /\ IsList(new) /\ DistinctNames(new) /\ Len(new) \in Nat /\ DOMAIN new = 1..Len(new)
      /\ ToSet(new) = {o \in ToSet(desired) : o.name \notin TypeNames(current)}
    BY MigrationBase
<1>2. ASSUME NEW i \in DOMAIN new
      PROVE  \E o \in objects \ objects0 : /\ o = ObjectRow(Len(current) + i, new[i].name)
                                           /\ o.object_id = Len(current) + i /\ o.name = new[i].name
  <2>1. PICK id, name : id = Len(current) + i /\ name = new[i].name
    OBVIOUS
  <2>2. PICK o : o = ObjectRow(id, name)
    OBVIOUS
  <2>3. o.object_id = id /\ o.name = name
    BY <2>2, ObjectRowEntries
  <2>4. o \in objects
    BY <2>1, <2>2 DEF NewObjectRows
  <2>5. id \notin DOMAIN current
    BY <1>1, <2>1
  <2>6. o \notin objects0
    BY <1>1, <2>3, <2>5
  <2>7. QED
    BY <2>1, <2>2, <2>3, <2>4, <2>6
<1>3. ASSUME NEW o \in objects \ objects0
      PROVE  \E i \in DOMAIN new : /\ o = ObjectRow(Len(current) + i, new[i].name)
                                   /\ o.object_id = Len(current) + i /\ o.name = new[i].name
  <2>1. PICK i \in DOMAIN new : o = ObjectRow(Len(current) + i, new[i].name)
    BY DEF NewObjectRows
  <2>2. QED
    BY <2>1, ObjectRowEntries
<1>4. \A i \in DOMAIN new : new[i] \in ToSet(desired) /\ new[i].name \notin TypeNames(current)
    BY <1>1 DEF ToSet
<1>5. DenseIds(objects)
  <2>1. PICK n : n = Len(current) + Len(new)
    OBVIOUS
  <2>2. n \in Nat
    BY <1>1, <2>1
  <2>3. ASSUME NEW o \in objects PROVE o.object_id \in 1..n
    <3>1. CASE o \in objects0
      BY <1>1, <2>1, <3>1
    <3>2. CASE o \notin objects0
      BY <1>1, <1>3, <2>1, <3>2
    <3>3. QED
      BY <3>1, <3>2
  <2>4. ASSUME NEW k \in 1..n PROVE \E o \in objects : o.object_id = k
    <3>1. CASE k \in DOMAIN current
      BY <1>1, <3>1
    <3>2. CASE k \notin DOMAIN current
      <4>1. k - Len(current) \in DOMAIN new /\ k = Len(current) + (k - Len(current))
        BY <1>1, <2>1, <3>2
      <4>2. QED
        BY <1>2, <4>1
    <3>3. QED
      BY <3>1, <3>2
  <2>5. {o.object_id : o \in objects} = 1..n
    BY <2>3, <2>4
  <2>6. QED
    BY <2>2, <2>5, DenseRows
<1>6. {o.name : o \in objects} = TypeNames(desired)
  <2>1. ASSUME NEW o \in objects PROVE o.name \in TypeNames(desired)
    <3>1. CASE o \in objects0
      <4>1. current[o.object_id] \in ToSet(current) /\ current[o.object_id].name = o.name
        BY <1>1, <3>1 DEF ToSet
      <4>2. QED
        BY <1>1, <4>1 DEF TypeNames
    <3>2. CASE o \notin objects0
      BY <1>3, <1>4, <3>2 DEF TypeNames
    <3>3. QED
      BY <3>1, <3>2
  <2>2. ASSUME NEW name \in TypeNames(desired) PROVE \E o \in objects : o.name = name
    <3>1. CASE name \in TypeNames(current)
      <4>1. PICK i \in DOMAIN current : current[i].name = name
        BY <3>1 DEF TypeNames, ToSet
      <4>2. QED
        BY <1>1, <4>1
    <3>2. CASE name \notin TypeNames(current)
      <4>1. PICK object \in ToSet(desired) : object.name = name
        BY DEF TypeNames
      <4>2. object \in ToSet(new)
        BY <1>1, <3>2, <4>1
      <4>3. PICK i \in DOMAIN new : new[i] = object
        BY <4>2 DEF ToSet
      <4>4. QED
        BY <1>2, <4>1, <4>3
    <3>3. QED
      BY <3>1, <3>2
  <2>3. QED
    BY <2>1, <2>2
<1>7. ASSUME NEW name \in TypeNames(desired)
      PROVE  \E t \in objects :
                 t.object_id = MigrationObjectId(current, desired, name) /\ t.name = name
  <2>1. CASE name \in TypeNames(current)
    <3>1. TypeId(current, name) \in DOMAIN current /\ current[TypeId(current, name)].name = name
      BY <1>1, <2>1, TypeIdFinds DEF IsCatalog
    <3>2. MigrationObjectId(current, desired, name) = TypeId(current, name)
      BY <2>1 DEF MigrationObjectId
    <3>3. QED
      BY <1>1, <3>1, <3>2
  <2>2. CASE name \notin TypeNames(current)
    <3>1. PICK object \in ToSet(desired) : object.name = name
      BY DEF TypeNames
    <3>2. object \in ToSet(new)
      BY <1>1, <2>2, <3>1
    <3>3. name \in TypeNames(new)
      BY <3>1, <3>2 DEF TypeNames
    <3>4. TypeId(new, name) \in DOMAIN new /\ new[TypeId(new, name)].name = name
      BY <1>1, <3>3, TypeIdFinds
    <3>5. MigrationObjectId(current, desired, name) = Len(current) + TypeId(new, name)
      BY <2>2 DEF MigrationObjectId
    <3>6. QED
      BY <1>2, <3>4, <3>5
  <2>3. QED
    BY <2>1, <2>2
<1>8. \A o \in objects \ objects0 : o.name \notin TypeNames(current)
    BY <1>3, <1>4
<1>9. QED
    BY <1>2, <1>3, <1>5, <1>6, <1>7, <1>8

-----------------------------------------------------------------------------
\* The rows after a migration

\* The list of fields for which the row o gets rows.
FieldsAdded(current, desired, objects0, o) ==
    IF o \in objects0 THEN AddedFields(current, FindType(desired, o.name))
    ELSE SortedFields(FindType(desired, o.name))

\* The fields with rows are the new ones.
LEMMA AddedIsFresh ==
    ASSUME NEW objects0, NEW fields0, NEW old, NEW current, NEW desired,
           Migrates(objects0, fields0, old, current, desired),
           NEW o, o.name \in TypeNames(desired),
           o \notin objects0 => o.name \notin TypeNames(current),
           NEW s \in Snapshot(desired), s.name = o.name,
           NEW list, list = FieldsAdded(current, desired, objects0, o)
    PROVE  /\ IsList(list) /\ DistinctNames(list) /\ ToSet(list) \subseteq DeclaredField
           /\ \A f \in ToSet(list) : f.kind = "link" => f.type \in TypeNames(desired)
           /\ \A f : f \in ToSet(list) <=> f \in s.fields /\ IsFresh(o, f, Snapshot(old))
<1>1. /\ IsCatalog(current) /\ IsCatalog(desired) /\ Snapshot(current) = Snapshot(old)
      /\ \A p \in objects0 :
            p.object_id \in DOMAIN current /\ current[p.object_id].name = p.name
      /\ TypeNames(current) \subseteq TypeNames(desired)
    BY MigrationBase
<1>2. DistinctNames(desired) /\ DistinctNames(current) /\ NamesOrdered(desired) /\ Declarable(desired)
    BY <1>1 DEF Migrates, IsCatalog
<1>3. PICK object \in ToSet(desired) : object.name = o.name
    BY DEF TypeNames
<1>4. FindType(desired, o.name) = object
    BY <1>2, <1>3, FindTypeFinds
<1>5. /\ ToSet(object.fields) \subseteq DeclaredField
      /\ \A f \in ToSet(object.fields) : f.kind = "link" => f.type \in TypeNames(desired)
      /\ s.fields = ToSet(object.fields)
  <2>1. s.name = object.name
    BY <1>3
  <2>2. QED
    BY ONLY <1>2, object \in ToSet(desired), s \in Snapshot(desired), <2>1, DeclaredFields
<1>6. CASE o \in objects0
  <2>1. PICK before \in ToSet(current) : before.name = o.name
    BY <1>1, <1>6 DEF ToSet
  <2>2. FindType(current, object.name) = before
    BY <1>2, <1>3, <2>1, FindTypeFinds
  <2>3. list = AddedFields(current, object)
    BY <1>4, <1>6 DEF FieldsAdded
  <2>4. IsList(list) /\ DistinctNames(list)
        /\ ToSet(list) = {f \in ToSet(object.fields) : f.name \notin FieldNames(FindType(current, object.name))}
    BY <1>1, <1>2, <2>3, AddedFieldsItems, AddedFieldsNames
  <2>5. PICK kept \in ToSet(desired) :
            /\ kept.name = before.name
            /\ ToSet(before.fields) \subseteq ToSet(kept.fields)
            /\ \A f \in ToSet(kept.fields) \ ToSet(before.fields) :
                  f.name \notin FieldNames(before) /\ ValidFieldAddition(f)
    BY <1>1, SupportedKeepsFields DEF Migrates
  <2>6. kept = object
    BY <1>2, <1>3, <2>1, <2>5, NameDetermines
  <2>7. ASSUME NEW f \in ToSet(object.fields)
        PROVE  f.name \notin FieldNames(before) <=> f \notin ToSet(before.fields)
    BY <2>5, <2>6 DEF FieldNames
  <2>8. PICK was : was = [name |-> before.name, fields |-> ToSet(before.fields)]
    OBVIOUS
  <2>9. was \in Snapshot(old) /\ was.name = o.name /\ was.fields = ToSet(before.fields)
    BY <1>1, <2>1, <2>8 DEF Snapshot
  <2>10. \A t \in Snapshot(old) : t.name = o.name => t = was
    BY <2>9, SnapshotObjects DEF Migrates
  <2>11. \A f : IsFresh(o, f, Snapshot(old)) <=> f \notin ToSet(before.fields)
    BY <2>9, <2>10 DEF IsFresh
  <2>12. \A f : f \in ToSet(list) <=> f \in s.fields /\ IsFresh(o, f, Snapshot(old))
    BY <1>5, <2>2, <2>4, <2>7, <2>11
  <2>13. QED
    BY <1>5, <2>4, <2>12
<1>7. CASE o \notin objects0
  <2>1. list = SortedFields(object)
    BY <1>4, <1>7 DEF FieldsAdded
  <2>2. IsList(list) /\ DistinctNames(list) /\ ToSet(list) = ToSet(object.fields)
    BY <1>1, <1>2, <2>1, SortedFieldsItems, SortedFieldsNames
  <2>3. o.name \notin TypeNames(current)
    BY <1>7
  <2>4. {t.name : t \in Snapshot(old)} = TypeNames(current)
    BY <1>1, SnapshotNames
  <2>5. \A f : IsFresh(o, f, Snapshot(old))
    BY <2>3, <2>4 DEF IsFresh
  <2>6. QED
    BY <1>5, <2>2, <2>5
<1>8. QED
    BY <1>6, <1>7

\* The ids of the fields that row o gets rows for.
FieldNumbers(current, desired, objects0, o) ==
    IF o \in objects0
    THEN [j \in DOMAIN FieldsAdded(current, desired, objects0, o) |->
              Len(FindType(current, o.name).fields) + 1 + j]
    ELSE [j \in DOMAIN FieldsAdded(current, desired, objects0, o) |-> j + 1]

\* The rows that row o gets.
RowsAdded(current, desired, objects0, o) ==
    RowsOfList(o.object_id, FieldsAdded(current, desired, objects0, o),
               FieldNumbers(current, desired, objects0, o), MigrationTarget(current, desired))

\* A row of a scalar has no target.
LEMMA ScalarTarget ==
    ASSUME NEW id, NEW number, NEW f, f.kind # "link", NEW s, NEW t
    PROVE  DeclaredFieldRow(id, number, f, s) = DeclaredFieldRow(id, number, f, t)
BY DEF DeclaredFieldRow

LEMMA ExtraRowsAdded ==
    ASSUME NEW objects0, NEW fields0, NEW old, NEW current, NEW desired,
           Migrates(objects0, fields0, old, current, desired),
           NEW object \in ToSet(desired), NEW o \in objects0, o.name = object.name
    PROVE  ExtraFieldRows(current, desired, object) = RowsAdded(current, desired, objects0, o)
<1>1. /\ IsCatalog(current) /\ IsCatalog(desired)
      /\ DOMAIN current = 1..Len(current)
      /\ o.object_id \in DOMAIN current /\ current[o.object_id].name = o.name
    BY MigrationBase
<1>2. DistinctNames(desired) /\ DistinctNames(current) /\ IsList(current)
      /\ NamesOrdered(desired) /\ Declarable(desired)
    BY <1>1 DEF Migrates, IsCatalog
<1>3. FindType(desired, o.name) = object
    BY <1>2, FindTypeFinds
<1>4. PICK list : list = AddedFields(current, object)
    OBVIOUS
<1>5. list = FieldsAdded(current, desired, objects0, o)
    BY <1>3, <1>4 DEF FieldsAdded
<1>6. PICK number : number = FieldNumbers(current, desired, objects0, o)
    OBVIOUS
<1>7. number = [j \in DOMAIN list |-> Len(FindType(current, object.name).fields) + 1 + j]
    BY <1>5, <1>6 DEF FieldNumbers
<1>8. \A j \in DOMAIN list : list[j].kind = "link" => list[j].type \in TypeNames(desired)
  <2>1. ToSet(list) = {f \in ToSet(object.fields) : f.name \notin FieldNames(FindType(current, object.name))}
    BY <1>1, <1>2, <1>4, AddedFieldsItems
  <2>2. \A j \in DOMAIN list : list[j] \in ToSet(list)
    BY DEF ToSet
  <2>3. \A f \in ToSet(object.fields) : f.kind = "link" => f.type \in TypeNames(desired)
    BY <1>2, DeclaredFields
  <2>4. QED
    BY <2>1, <2>2, <2>3
<1>9. MigrationObjectId(current, desired, object.name) = o.object_id
  <2>1. current[o.object_id] \in ToSet(current)
    BY <1>1 DEF ToSet
  <2>2. object.name \in TypeNames(current)
    BY <1>1, <2>1 DEF TypeNames
  <2>3. TypeId(current, object.name) \in DOMAIN current
        /\ current[TypeId(current, object.name)].name = object.name
    BY <1>2, <2>2, TypeIdFinds
  <2>4. TypeId(current, object.name) = o.object_id
    BY <1>1, <1>2, <2>3 DEF DistinctNames
  <2>5. QED
    BY <2>2, <2>4 DEF MigrationObjectId
<1>10. PICK target : target = MigrationTarget(current, desired)
    OBVIOUS
<1>11. \A name \in TypeNames(desired) : target[name] = MigrationObjectId(current, desired, name)
    BY <1>10 DEF MigrationTarget
<1>12. ASSUME NEW j \in DOMAIN list
       PROVE  DeclaredFieldRow(o.object_id, number[j], list[j], target[list[j].type]) =
              DeclaredFieldRow(MigrationObjectId(current, desired, object.name),
                      Len(FindType(current, object.name).fields) + 1 + j, list[j],
                      MigrationObjectId(current, desired, list[j].type))
  <2>1. PICK n : n = number[j]
    OBVIOUS
  <2>2. n = Len(FindType(current, object.name).fields) + 1 + j
    BY <1>7, <2>1
  <2>3. PICK f, s, t : f = list[j] /\ s = target[f.type] /\ t = MigrationObjectId(current, desired, f.type)
    OBVIOUS
  <2>4. f.kind = "link" => s = t
    BY <1>8, <1>11, <2>3
  <2>5. DeclaredFieldRow(o.object_id, n, f, s) = DeclaredFieldRow(o.object_id, n, f, t)
    BY <2>4, ScalarTarget
  <2>6. QED
    BY ONLY <1>9, <2>1, <2>2, <2>3, <2>5
<1>13. RowsAdded(current, desired, objects0, o) =
          {DeclaredFieldRow(o.object_id, number[j], list[j], target[list[j].type]) : j \in DOMAIN list}
    BY <1>5, <1>6, <1>10 DEF RowsAdded, RowsOfList
<1>14. ExtraFieldRows(current, desired, object) =
          {DeclaredFieldRow(MigrationObjectId(current, desired, object.name),
                      Len(FindType(current, object.name).fields) + 1 + j, list[j],
                      MigrationObjectId(current, desired, list[j].type)) : j \in DOMAIN list}
    BY <1>4 DEF ExtraFieldRows
<1>15. QED
    BY ONLY <1>12, <1>13, <1>14

LEMMA NewRowsAdded ==
    ASSUME NEW objects0, NEW current, NEW desired, IsCatalog(desired),
           NEW object \in ToSet(desired), NEW o, o \notin objects0, o.name = object.name
    PROVE  NewFieldRows(o.object_id, SortedFields(object), MigrationTarget(current, desired)) =
               {ImplicitIdRow(o.object_id)} \cup RowsAdded(current, desired, objects0, o)
<1>1. FindType(desired, o.name) = object
    BY FindTypeFinds DEF IsCatalog
<1>2. PICK list : list = SortedFields(object)
    OBVIOUS
<1>3. list = FieldsAdded(current, desired, objects0, o)
    BY <1>1, <1>2 DEF FieldsAdded
<1>4. PICK number : number = FieldNumbers(current, desired, objects0, o)
    OBVIOUS
<1>5. number = [j \in DOMAIN list |-> j + 1]
    BY <1>3, <1>4 DEF FieldNumbers
<1>6. PICK target : target = MigrationTarget(current, desired)
    OBVIOUS
<1>7. RowsAdded(current, desired, objects0, o) =
          {DeclaredFieldRow(o.object_id, number[j], list[j], target[list[j].type]) : j \in DOMAIN list}
    BY <1>3, <1>4, <1>6 DEF RowsAdded, RowsOfList
<1>8. NewFieldRows(o.object_id, list, target) =
          {ImplicitIdRow(o.object_id)} \cup
          {DeclaredFieldRow(o.object_id, j + 1, list[j], target[list[j].type]) : j \in DOMAIN list}
    BY DEF NewFieldRows
<1>9. \A j \in DOMAIN list :
          DeclaredFieldRow(o.object_id, number[j], list[j], target[list[j].type]) =
          DeclaredFieldRow(o.object_id, j + 1, list[j], target[list[j].type])
    BY <1>5
<1>10. NewFieldRows(o.object_id, list, target) =
           {ImplicitIdRow(o.object_id)} \cup RowsAdded(current, desired, objects0, o)
    BY ONLY <1>7, <1>8, <1>9
<1>11. QED
    BY <1>2, <1>6, <1>10

MigratedFieldRows(current, desired, new, kept) ==
    (UNION {NewFieldRows(Len(current) + i, SortedFields(new[i]),
                         MigrationTarget(current, desired)) : i \in DOMAIN new})
    \cup (UNION {ExtraFieldRows(current, desired, object) : object \in kept})

\* A migration leaves rows that say what the desired catalog says.
LEMMA MigrationDescribes ==
    ASSUME NEW objects0, NEW fields0, NEW old, NEW current, NEW desired,
           Migrates(objects0, fields0, old, current, desired),
           NEW new, new = NewObjects(current, desired),
           NEW kept, kept = ToSet(KeptObjects(current, desired)),
           NEW objects, objects = objects0 \cup NewObjectRows(current, new),
           NEW newFields, newFields = MigratedFieldRows(current, desired, new, kept),
           KeyedRows(objects, fields0 \cup newFields)
    PROVE  Describes(objects, fields0 \cup newFields, Snapshot(desired))
<1>1. /\ IsCatalog(current) /\ IsCatalog(desired) /\ Snapshot(current) = Snapshot(old)
      /\ \A o \in objects0 :
            o.object_id \in DOMAIN current /\ current[o.object_id].name = o.name
      /\ \A i \in DOMAIN current :
            \E o \in objects0 : o.object_id = i /\ o.name = current[i].name
      /\ IsList(new) /\ DistinctNames(new)
      /\ ToSet(new) = {o \in ToSet(desired) : o.name \notin TypeNames(current)}
    BY MigrationBase
<1>2. DistinctNames(desired) /\ NamesOrdered(desired) /\ Declarable(desired)
    BY <1>1 DEF Migrates, IsCatalog
<1>3. /\ IsFiniteSet(objects) /\ \A a, b \in objects : a.object_id = b.object_id => a = b
    BY DEF KeyedRows
<1>4. /\ DenseIds(objects) /\ {o.name : o \in objects} = TypeNames(desired)
      /\ \A name \in TypeNames(desired) : \E t \in objects :
            t.object_id = MigrationObjectId(current, desired, name) /\ t.name = name
      /\ \A o \in objects \ objects0 : o.name \notin TypeNames(current)
      /\ \A i \in DOMAIN new : \E o \in objects \ objects0 :
            o = ObjectRow(Len(current) + i, new[i].name)
      /\ \A o \in objects \ objects0 : \E i \in DOMAIN new :
            o = ObjectRow(Len(current) + i, new[i].name)
    BY <1>3, MigratedObjects
<1>5. kept = {object \in ToSet(desired) : object.name \in TypeNames(current)}
    BY <1>1, <1>2, KeptObjectsItems
<1>6. PICK rows : rows = [o \in objects |-> RowsAdded(current, desired, objects0, o)]
    OBVIOUS
<1>7. PICK added : added = [o \in objects |-> ToSet(FieldsAdded(current, desired, objects0, o))]
    OBVIOUS
<1>8. PICK target : target = MigrationTarget(current, desired)
    OBVIOUS
<1>9. ASSUME NEW o \in objects
      PROVE  /\ RowsForFields(rows[o], o, added[o], objects)
             /\ \A s \in Snapshot(desired) : s.name = o.name =>
                   added[o] = {f \in s.fields : IsFresh(o, f, Snapshot(old))}
  <2>1. PICK list, number : /\ list = FieldsAdded(current, desired, objects0, o)
                            /\ number = FieldNumbers(current, desired, objects0, o)
    OBVIOUS
  <2>2. \E s \in Snapshot(desired) : s.name = o.name
    <3>1. o.name \in {p.name : p \in objects}
      OBVIOUS
    <3>2. o.name \in {s.name : s \in Snapshot(desired)}
      BY <1>4, <3>1, SnapshotNames
    <3>3. QED
      BY <3>2
  <2>3. ASSUME NEW s \in Snapshot(desired), s.name = o.name
        PROVE  /\ IsList(list) /\ DistinctNames(list) /\ ToSet(list) \subseteq DeclaredField
               /\ \A f \in ToSet(list) : f.kind = "link" => f.type \in TypeNames(desired)
               /\ \A f : f \in ToSet(list) <=> f \in s.fields /\ IsFresh(o, f, Snapshot(old))
    <3>1. o.name \in {p.name : p \in objects}
      OBVIOUS
    <3>2. o.name \in TypeNames(desired)
      BY <1>4, <3>1
    <3>3. o \notin objects0 => o.name \notin TypeNames(current)
      BY <1>4
    <3>4. QED
      BY ONLY <2>1, <2>3, <3>2, <3>3, Migrates(objects0, fields0, old, current, desired), AddedIsFresh
  <2>4. \A name \in TypeNames(desired) : target[name] = MigrationObjectId(current, desired, name)
    BY <1>8 DEF MigrationTarget
  <2>5. TargetsKnown(list, target, objects)
    BY <1>4, <2>2, <2>3, <2>4 DEF TargetsKnown
  <2>6. PICK its : its = rows[o]
    OBVIOUS
  <2>7. its = RowsOfList(o.object_id, list, number, target)
    BY <1>6, <1>8, <2>1, <2>6 DEF RowsAdded
  <2>8. IsList(list) /\ DistinctNames(list) /\ ToSet(list) \subseteq DeclaredField
    BY <2>2, <2>3
  <2>9. PICK all : all = fields0 \cup newFields
    OBVIOUS
  <2>10. KeyedRows(objects, all)
    BY <2>9
  <2>11. RowsForFields(its, o, ToSet(list), objects)
    BY ONLY o \in objects, <2>5, <2>7, <2>8, <2>10, FieldRowsOfList
  <2>12. added[o] = ToSet(list)
    BY <1>7, <2>1
  <2>13. QED
    BY <2>3, <2>6, <2>11, <2>12
<1>10. ASSUME NEW o \in objects \ objects0
       PROVE  \E i \in DOMAIN new :
                 /\ o = ObjectRow(Len(current) + i, new[i].name)
                 /\ NewFieldRows(Len(current) + i, SortedFields(new[i]), target) =
                        {ImplicitIdRow(o.object_id)} \cup rows[o]
  <2>1. PICK i \in DOMAIN new : o = ObjectRow(Len(current) + i, new[i].name)
    BY <1>4
  <2>2. PICK object : object = new[i]
    OBVIOUS
  <2>3. object \in ToSet(desired) /\ o.name = object.name /\ o.object_id = Len(current) + i
    BY <1>1, <2>1, <2>2, ObjectRowEntries DEF ToSet
  <2>4. NewFieldRows(o.object_id, SortedFields(object), MigrationTarget(current, desired)) =
            {ImplicitIdRow(o.object_id)} \cup RowsAdded(current, desired, objects0, o)
    BY <1>1, <2>3, NewRowsAdded
  <2>5. QED
    BY <1>6, <1>8, <2>1, <2>2, <2>3, <2>4
<1>11. ASSUME NEW i \in DOMAIN new
       PROVE  \E o \in objects \ objects0 :
                 NewFieldRows(Len(current) + i, SortedFields(new[i]), target) =
                     {ImplicitIdRow(o.object_id)} \cup rows[o]
  <2>1. PICK o \in objects \ objects0 : o = ObjectRow(Len(current) + i, new[i].name)
    BY <1>4
  <2>2. PICK j \in DOMAIN new :
                 /\ o = ObjectRow(Len(current) + j, new[j].name)
                 /\ NewFieldRows(Len(current) + j, SortedFields(new[j]), target) =
                        {ImplicitIdRow(o.object_id)} \cup rows[o]
    BY <1>10
  <2>3. new[i].name = new[j].name
    BY <2>1, <2>2, ObjectRowEntries
  <2>4. i = j
    BY <1>1, <2>3 DEF DistinctNames
  <2>5. QED
    BY <2>2, <2>4
<1>12. ASSUME NEW o \in objects0
       PROVE  \E object \in kept :
                 object.name = o.name /\ ExtraFieldRows(current, desired, object) = rows[o]
  <2>1. current[o.object_id] \in ToSet(current) /\ current[o.object_id].name = o.name
    BY <1>1 DEF ToSet
  <2>2. o.name \in TypeNames(current)
    BY <2>1 DEF TypeNames
  <2>3. o \in objects /\ o.name \in TypeNames(desired)
    BY <1>4
  <2>4. PICK object \in ToSet(desired) : object.name = o.name
    BY <2>3 DEF TypeNames
  <2>5. ExtraFieldRows(current, desired, object) = RowsAdded(current, desired, objects0, o)
    BY <2>4, ExtraRowsAdded
  <2>6. QED
    BY <1>5, <1>6, <2>2, <2>3, <2>4, <2>5
<1>13. ASSUME NEW object \in kept
       PROVE  \E o \in objects0 : ExtraFieldRows(current, desired, object) = rows[o]
  <2>1. PICK before \in ToSet(current) : before.name = object.name
    BY <1>5 DEF TypeNames
  <2>2. PICK o \in objects0 : o.name = object.name
    BY <1>1, <2>1 DEF ToSet
  <2>3. PICK same \in kept : same.name = o.name /\ ExtraFieldRows(current, desired, same) = rows[o]
    BY <1>12
  <2>4. same = object
    BY <1>2, <1>5, <2>2, <2>3, NameDetermines
  <2>5. QED
    BY <2>3, <2>4
<1>14. newFields = {ImplicitIdRow(o.object_id) : o \in objects \ objects0}
                   \cup (UNION {rows[o] : o \in objects})
  <2>1. ASSUME NEW row
        PROVE  row \in newFields <=>
                   \/ \E i \in DOMAIN new :
                         row \in NewFieldRows(Len(current) + i, SortedFields(new[i]), target)
                   \/ \E object \in kept : row \in ExtraFieldRows(current, desired, object)
    BY ONLY <1>8, newFields = MigratedFieldRows(current, desired, new, kept) DEF MigratedFieldRows
  <2>2. ASSUME NEW row
        PROVE  row \in newFields <=>
                   \/ \E o \in objects \ objects0 : row = ImplicitIdRow(o.object_id) \/ row \in rows[o]
                   \/ \E o \in objects0 : row \in rows[o]
    <3>1. (\E i \in DOMAIN new :
              row \in NewFieldRows(Len(current) + i, SortedFields(new[i]), target)) <=>
          \E o \in objects \ objects0 : row = ImplicitIdRow(o.object_id) \/ row \in rows[o]
      BY ONLY <1>10, <1>11
    <3>2. (\E object \in kept : row \in ExtraFieldRows(current, desired, object)) <=>
          \E o \in objects0 : row \in rows[o]
      BY ONLY <1>12, <1>13
    <3>3. QED
      BY ONLY <2>1, <3>1, <3>2
  <2>3. objects0 \subseteq objects
    OBVIOUS
  <2>4. QED
    BY ONLY <2>2, <2>3
<1>15. PICK before, snapshot : before = Snapshot(old) /\ snapshot = Snapshot(desired)
    OBVIOUS
<1>16. {o.name : o \in objects} = {s.name : s \in snapshot}
    BY <1>4, <1>15, SnapshotNames
<1>17. GivenByObject(objects, objects0, newFields, before, snapshot, rows, added)
  <2>1. \A o \in objects : RowsForFields(rows[o], o, added[o], objects)
    BY <1>9
  <2>2. \A o \in objects, s \in snapshot :
            s.name = o.name => added[o] = {f \in s.fields : IsFresh(o, f, before)}
    BY <1>9, <1>15
  <2>3. QED
    BY ONLY <1>3, <1>14, <1>16, <2>1, <2>2 DEF GivenByObject
<1>18. AddsWhatIsNew(objects, objects0, newFields, before, snapshot)
    BY ONLY <1>17, RowsByObject
<1>19. KeepsSnapshot(before, Snapshot(desired))
  <2> SUFFICES ASSUME NEW b \in Snapshot(old)
               PROVE  \E after \in Snapshot(desired) :
                         after.name = b.name /\ b.fields \subseteq after.fields
      BY <1>15 DEF KeepsSnapshot
  <2>1. PICK object \in ToSet(current) : b.name = object.name /\ b.fields = ToSet(object.fields)
    BY <1>1 DEF Snapshot
  <2>2. PICK keep \in ToSet(desired) :
            keep.name = object.name /\ ToSet(object.fields) \subseteq ToSet(keep.fields)
    BY <1>1, SupportedKeepsFields DEF Migrates
  <2>3. PICK after : after = [name |-> keep.name, fields |-> ToSet(keep.fields)]
    OBVIOUS
  <2>4. after \in Snapshot(desired) /\ after.name = keep.name /\ after.fields = ToSet(keep.fields)
    BY <2>3 DEF Snapshot
  <2>5. QED
    BY <2>1, <2>2, <2>4
<1>20. Describes(objects0, fields0, before)
    BY <1>15 DEF Migrates
<1>21. objects0 \subseteq objects
    OBVIOUS
<1>22. AddsWhatIsNew(objects, objects0, newFields, before, Snapshot(desired))
    BY <1>15, <1>18
<1>23. QED
    BY ONLY <1>2, <1>4, <1>19, <1>20, <1>21, <1>22, KeyedRows(objects, fields0 \cup newFields), MoreRows

-----------------------------------------------------------------------------
\* Migrations with nothing to do

\* A supported migration to another schema has statements.
LEMMA EmptyMigration ==
    ASSUME NEW current, NEW desired, IsCatalog(current), IsCatalog(desired), NamesOrdered(desired),
           Supported(current, desired), MigrationStatements(current, desired) = <<>>
    PROVE  Snapshot(current) = Snapshot(desired)
<1>1. MigrationItems(current, desired) = {}
    BY MigrationPlan, EmptyTuple
<1>2. PICK new, kept : new = NewObjects(current, desired) /\ kept = ToSet(KeptObjects(current, desired))
    OBVIOUS
<1>3. /\ {InsertObject(ObjectRow(Len(current) + i, new[i].name)) : i \in DOMAIN new} = {}
      /\ UNION {AddedFieldRowsOf(current, desired, o) : o \in kept} = {}
    BY <1>1, <1>2 DEF MigrationItems
<1>4. DOMAIN new = {}
    BY <1>3
<1>5. \A o \in ToSet(desired) : o.name \in TypeNames(current)
  <2>1. ToSet(new) = {o \in ToSet(desired) : o.name \notin TypeNames(current)}
    BY <1>2, NewObjectsItems
  <2>2. ToSet(new) = {}
    BY <1>4 DEF ToSet
  <2>3. QED
    BY <2>1, <2>2
<1>6. kept = ToSet(desired)
  <2>1. kept = {o \in ToSet(desired) : o.name \in TypeNames(current)}
    BY <1>2, KeptObjectsItems
  <2>2. QED
    BY <1>5, <2>1
<1>7. ASSUME NEW o \in ToSet(desired)
      PROVE  \A f \in ToSet(o.fields) : f.name \in FieldNames(FindType(current, o.name))
  <2>1. AddedFieldRowsOf(current, desired, o) = {}
    BY <1>3, <1>6
  <2>2. DOMAIN AddedFields(current, o) = {}
    BY <2>1 DEF AddedFieldRowsOf
  <2>3. ToSet(AddedFields(current, o)) = {}
    BY <2>2 DEF ToSet
  <2>4. ToSet(AddedFields(current, o)) =
            {f \in ToSet(o.fields) : f.name \notin FieldNames(FindType(current, o.name))}
    BY AddedFieldsItems
  <2>5. QED
    BY <2>3, <2>4
<1>8. ASSUME NEW object \in ToSet(current)
      PROVE  \E o \in ToSet(desired) : o.name = object.name /\ ToSet(o.fields) = ToSet(object.fields)
  <2>1. PICK o \in ToSet(desired) :
            /\ o.name = object.name
            /\ ToSet(object.fields) \subseteq ToSet(o.fields)
            /\ \A f \in ToSet(o.fields) \ ToSet(object.fields) :
                  f.name \notin FieldNames(object) /\ ValidFieldAddition(f)
    BY SupportedKeepsFields
  <2>2. FindType(current, o.name) = object
    BY <2>1, FindTypeFinds DEF IsCatalog
  <2>3. ToSet(o.fields) \subseteq ToSet(object.fields)
    BY <1>7, <2>1, <2>2
  <2>4. ToSet(o.fields) = ToSet(object.fields)
    BY <2>1, <2>3
  <2>5. QED
    BY <2>1, <2>4
<1>9. ASSUME NEW o \in ToSet(desired)
      PROVE  \E object \in ToSet(current) : o.name = object.name /\ ToSet(o.fields) = ToSet(object.fields)
  <2>1. PICK object \in ToSet(current) : object.name = o.name
    BY <1>5 DEF TypeNames
  <2>2. PICK p \in ToSet(desired) : p.name = object.name /\ ToSet(p.fields) = ToSet(object.fields)
    BY <1>8
  <2>3. p = o
    BY <2>1, <2>2, NameDetermines DEF IsCatalog
  <2>4. QED
    BY <2>1, <2>2, <2>3
<1>10. QED
    BY <1>8, <1>9 DEF Snapshot

\* A migration to the same schema has none.
LEMMA SameSchemaMigration ==
    ASSUME NEW current, NEW desired, IsCatalog(current), IsCatalog(desired), NamesOrdered(desired),
           Snapshot(current) = Snapshot(desired)
    PROVE  MigrationStatements(current, desired) = <<>>
<1>1. PICK new, kept : new = NewObjects(current, desired) /\ kept = ToSet(KeptObjects(current, desired))
    OBVIOUS
<1>2. TypeNames(current) = TypeNames(desired)
    BY SnapshotNames
<1>3. DOMAIN new = {} /\ ToSet(new) = {}
  <2>1. ToSet(new) = {o \in ToSet(desired) : o.name \notin TypeNames(current)}
    BY <1>1, NewObjectsItems
  <2>2. ToSet(new) = {}
    BY <1>2, <2>1 DEF TypeNames
  <2>3. QED
    BY <2>2 DEF ToSet
<1>4. kept \subseteq ToSet(desired)
    BY <1>1, KeptObjectsItems
<1>5. ASSUME NEW o \in kept
      PROVE  ToSet(AddedFields(current, o)) = {} /\ DOMAIN AddedFields(current, o) = {}
  <2>1. o \in ToSet(desired)
    BY <1>4
  <2>2. PICK s : s = [name |-> o.name, fields |-> ToSet(o.fields)]
    OBVIOUS
  <2>3. s \in Snapshot(current) /\ s.name = o.name /\ s.fields = ToSet(o.fields)
    BY <2>1, <2>2 DEF Snapshot
  <2>4. PICK object \in ToSet(current) : s.name = object.name /\ s.fields = ToSet(object.fields)
    BY <2>3 DEF Snapshot
  <2>5. FindType(current, o.name) = object
    BY <2>3, <2>4, FindTypeFinds DEF IsCatalog
  <2>6. ToSet(AddedFields(current, o)) =
            {f \in ToSet(o.fields) : f.name \notin FieldNames(FindType(current, o.name))}
    BY <2>1, AddedFieldsItems
  <2>7. ToSet(AddedFields(current, o)) = {}
    BY <2>3, <2>4, <2>5, <2>6 DEF FieldNames
  <2>8. QED
    BY <2>7 DEF ToSet
<1>6. MigrationItems(current, desired) = {}
  <2>1. /\ {ObjectTable(o.name, SortedFields(o)) : o \in ToSet(new)} = {}
        /\ UNION {RelationTablesOf(o.name, ToSet(o.fields)) : o \in ToSet(new)} = {}
        /\ UNION {IndexesOf(o.name, ToSet(o.fields)) : o \in ToSet(new)} = {}
        /\ {InsertObject(ObjectRow(Len(current) + i, new[i].name)) : i \in DOMAIN new} = {}
        /\ UNION {ObjectFieldRowsOf(Len(current) + i, SortedFields(new[i]),
                                    MigrationTarget(current, desired)) : i \in DOMAIN new} = {}
    BY <1>3
  <2>2. UNION {RelationTablesOf(o.name, ToSet(AddedFields(current, o))) : o \in kept} = {}
    BY <1>5 DEF RelationTablesOf
  <2>3. UNION {AddedColumnsOf(o, ToSet(AddedFields(current, o))) : o \in kept} = {}
    BY <1>5 DEF AddedColumnsOf
  <2>4. UNION {IndexesOf(o.name, ToSet(AddedFields(current, o))) : o \in kept} = {}
    BY <1>5 DEF IndexesOf
  <2>5. UNION {AddedFieldRowsOf(current, desired, o) : o \in kept} = {}
    BY <1>5 DEF AddedFieldRowsOf
  <2>6. QED
    BY <1>1, <2>1, <2>2, <2>3, <2>4, <2>5 DEF MigrationItems
<1>7. QED
    BY <1>6, MigrationPlan, EmptyList

-----------------------------------------------------------------------------
\* The keys of the rows of a plan are numbers.
KeysAreNumbers(statements) ==
    /\ \A row \in InsertedObjects(statements) : row.object_id \in Nat
    /\ \A row \in InsertedFields(statements) : row.field_id \in Nat

LEMMA NewRowKeys ==
    ASSUME NEW id, NEW fields, IsList(fields), NEW target
    PROVE  \A row \in NewFieldRows(id, fields, target) : row.field_id \in Nat
<1>1. DOMAIN fields \subseteq Nat
    BY ListLength
<1>2. \A j \in Nat : \A f, t : DeclaredFieldRow(id, j + 1, f, t).field_id \in Nat
    BY DEF DeclaredFieldRow, FieldRow
<1>3. ImplicitIdRow(id).field_id \in Nat
    BY DEF ImplicitIdRow, FieldRow
<1>4. QED
    BY <1>1, <1>2, <1>3 DEF NewFieldRows

LEMMA InitialKeys ==
    ASSUME NEW catalog, IsCatalog(catalog)
    PROVE  KeysAreNumbers(ToSet(InitialStatements(catalog)))
<1>1. IsList(catalog) /\ \A i \in DOMAIN catalog : IsList(catalog[i].fields)
    BY DEF IsCatalog, ToSet
<1>2. DOMAIN catalog \subseteq Nat
    BY <1>1, ListLength
<1>3. ASSUME NEW row \in InsertedObjects(ToSet(InitialStatements(catalog)))
      PROVE  row.object_id \in Nat
  <2>1. PICK i \in DOMAIN catalog : row = ObjectRow(i, catalog[i].name)
    BY InitialRows
  <2>2. QED
    BY <1>2, <2>1, ObjectRowEntries
<1>4. ASSUME NEW row \in InsertedFields(ToSet(InitialStatements(catalog)))
      PROVE  row.field_id \in Nat
  <2>1. PICK i \in DOMAIN catalog : row \in NewFieldRows(i, catalog[i].fields, InitialTarget(catalog))
    BY InitialRows
  <2>2. QED
    BY <1>1, <2>1, NewRowKeys
<1>5. QED
    BY <1>3, <1>4 DEF KeysAreNumbers

LEMMA MigrationKeys ==
    ASSUME NEW current, NEW desired, IsCatalog(current), IsCatalog(desired), NamesOrdered(desired)
    PROVE  KeysAreNumbers(ToSet(MigrationStatements(current, desired)))
<1>1. PICK new, kept : new = NewObjects(current, desired) /\ kept = ToSet(KeptObjects(current, desired))
    OBVIOUS
<1>2. Len(current) \in Nat
    BY ListLength DEF IsCatalog
<1>3. /\ IsList(new) /\ ToSet(new) \subseteq ToSet(desired)
      /\ kept = {o \in ToSet(desired) : o.name \in TypeNames(current)}
    BY <1>1, NewObjectsItems, KeptObjectsItems
<1>4. DOMAIN new \subseteq Nat /\ \A i \in DOMAIN new : new[i] \in ToSet(desired)
  <2>1. DOMAIN new = 1..Len(new)
    BY <1>3, ListLength
  <2>2. \A i \in DOMAIN new : new[i] \in ToSet(new)
    BY DEF ToSet
  <2>3. QED
    BY <1>3, <2>1, <2>2
<1>5. ASSUME NEW row \in InsertedObjects(ToSet(MigrationStatements(current, desired)))
      PROVE  row.object_id \in Nat
  <2>1. PICK i \in DOMAIN new : row = ObjectRow(Len(current) + i, new[i].name)
    BY <1>1, MigrationRows
  <2>2. QED
    BY <1>2, <1>4, <2>1, ObjectRowEntries
<1>6. ASSUME NEW row \in InsertedFields(ToSet(MigrationStatements(current, desired)))
      PROVE  row.field_id \in Nat
  <2>1. row \in (UNION {NewFieldRows(Len(current) + i, SortedFields(new[i]),
                                     MigrationTarget(current, desired)) : i \in DOMAIN new})
                \cup (UNION {ExtraFieldRows(current, desired, o) : o \in kept})
    BY <1>1, MigrationRows
  <2>2. CASE \E i \in DOMAIN new : row \in NewFieldRows(Len(current) + i, SortedFields(new[i]),
                                                        MigrationTarget(current, desired))
    <3>1. PICK i \in DOMAIN new : row \in NewFieldRows(Len(current) + i, SortedFields(new[i]),
                                                        MigrationTarget(current, desired))
      BY <2>2
    <3>2. IsList(SortedFields(new[i]))
      BY <1>4, SortedFieldsItems
    <3>3. QED
      BY <3>1, <3>2, NewRowKeys
  <2>3. CASE \E o \in kept : row \in ExtraFieldRows(current, desired, o)
    <3>1. PICK o \in kept : row \in ExtraFieldRows(current, desired, o)
      BY <2>3
    <3>2. PICK j \in DOMAIN AddedFields(current, o) :
              row = DeclaredFieldRow(MigrationObjectId(current, desired, o.name),
                      Len(FindType(current, o.name).fields) + 1 + j,
                      AddedFields(current, o)[j],
                      MigrationObjectId(current, desired, AddedFields(current, o)[j].type))
      BY <3>1 DEF ExtraFieldRows
    <3>3. IsList(AddedFields(current, o))
      BY <1>3, AddedFieldsItems
    <3>4. j \in Nat
      BY <3>3, ListLength
    <3>5. PICK object \in ToSet(current) : object.name = o.name
      BY <1>3 DEF TypeNames
    <3>6. FindType(current, o.name) = object
      BY <3>5, FindTypeFinds DEF IsCatalog
    <3>7. Len(FindType(current, o.name).fields) \in Nat
      BY <3>6, ListLength DEF IsCatalog
    <3>8. \A id, n, f, t : DeclaredFieldRow(id, n, f, t).field_id = n
      BY DEF DeclaredFieldRow, FieldRow
    <3>9. QED
      BY <3>2, <3>4, <3>7, <3>8
  <2>4. QED
    BY <2>1, <2>2, <2>3
<1>7. QED
    BY <1>5, <1>6 DEF KeysAreNumbers

-----------------------------------------------------------------------------
(***************************************************************************)
(* Tables and indexes.  What a catalog has of them depends on its snapshot *)
(* alone, and a plan, executed in any order SQLite accepts, adds to the    *)
(* tables of one snapshot what makes them those of the next.               *)
(***************************************************************************)

\* The tables of an object type, as SQLite lists them.
TableRecord(name, fields) ==
    [name |-> ToAsciiLowercase(name), columns |-> ObjectColumns(fields)]

RelationRecord(name, f) ==
    [name |-> RelationTable(name, f).name, columns |-> ToSet(RelationTable(name, f).columns)]

IsMetadataTable(t) == \E name \in ToSet(MetadataTables) : t = [name |-> name, columns |-> {}]

IsTableOf(t, snapshot) ==
    \/ IsMetadataTable(t)
    \/ \E s \in snapshot : t = TableRecord(s.name, s.fields)
    \/ \E s \in snapshot : \E f \in s.fields :
          HasRelationTable(f) /\ t = RelationRecord(s.name, f)

IsIndexOf(x, snapshot) ==
    \E s \in snapshot : \E f \in s.fields : x \in ToSet(FieldIndexes(s.name, f))

\* No table name is used twice, and no two types share a table.
NamesUnique(tables) == \A a, b \in tables : a.name = b.name => a = b

TypesApart(snapshot) ==
    \A a, b \in snapshot : ToAsciiLowercase(a.name) = ToAsciiLowercase(b.name) => a = b

\* What the statements executed so far have made.
CreatedTables(statements) ==
    {[name |-> s.name, columns |-> ToSet(s.columns)] :
        s \in {t \in statements : t.op = "create_table"}}

CreatedIndexes(statements) == {s \in statements : s.op = "create_index"}

ColumnsFor(statements, name) ==
    {s.column : s \in {t \in statements : t.op = "add_column" /\ t.table = name}}

GrownTable(t, statements) ==
    [name |-> t.name, columns |-> t.columns \cup ColumnsFor(statements, t.name)]

GrownTables(tables, statements) == {GrownTable(t, statements) : t \in tables}

IsTable(t) == t = [name |-> t.name, columns |-> t.columns]

\* The content of a database after some statements, from the tables before them.
TablesAfter(db, tables0, indexes0, statements) ==
    /\ db.tables = GrownTables(tables0 \cup CreatedTables(statements), statements)
    /\ db.indexes = indexes0 \cup CreatedIndexes(statements)
    /\ NamesUnique(db.tables)
    /\ \A s \in statements : s.op = "add_column" => s.table \in TableNames(db)

LEMMA NoStatements ==
    ASSUME NEW db, \A t \in db.tables : IsTable(t), NamesUnique(db.tables)
    PROVE  TablesAfter(db, db.tables, db.indexes, {})
<1>1. CreatedTables({}) = {} /\ CreatedIndexes({}) = {}
    BY DEF CreatedTables, CreatedIndexes
<1>2. \A name : ColumnsFor({}, name) = {}
    BY DEF ColumnsFor
<1>3. \A t \in db.tables : GrownTable(t, {}) = t
    BY <1>2 DEF GrownTable, IsTable
<1>4. GrownTables(db.tables, {}) = db.tables
    BY <1>3 DEF GrownTables
<1>5. QED
    BY <1>1, <1>4 DEF TablesAfter

\* The names of the tables after some statements.
LEMMA GrownNames ==
    ASSUME NEW db, NEW tables0, NEW indexes0, NEW statements,
           TablesAfter(db, tables0, indexes0, statements)
    PROVE  /\ \A t \in tables0 : t.name \in TableNames(db)
           /\ \A s \in statements : s.op = "create_table" => s.name \in TableNames(db)
           /\ \A name \in TableNames(db) :
                 \/ \E t \in tables0 : t.name = name
                 \/ \E s \in statements : s.op = "create_table" /\ s.name = name
<1>1. \A t : GrownTable(t, statements).name = t.name
    BY DEF GrownTable
<1>2. ASSUME NEW t \in tables0 \cup CreatedTables(statements) PROVE t.name \in TableNames(db)
  <2>1. GrownTable(t, statements) \in db.tables
    BY <1>2 DEF TablesAfter, GrownTables
  <2>2. QED
    BY <1>1, <2>1 DEF TableNames
<1>3. ASSUME NEW s \in statements, s.op = "create_table" PROVE s.name \in TableNames(db)
  <2>1. PICK t : t = [name |-> s.name, columns |-> ToSet(s.columns)]
    OBVIOUS
  <2>2. t \in CreatedTables(statements)
    BY <1>3, <2>1 DEF CreatedTables
  <2>3. QED
    BY <1>2, <2>1, <2>2
<1>4. ASSUME NEW name \in TableNames(db)
      PROVE  \/ \E t \in tables0 : t.name = name
             \/ \E s \in statements : s.op = "create_table" /\ s.name = name
  <2>1. PICK g \in db.tables : g.name = name
    BY DEF TableNames
  <2>2. PICK t \in tables0 \cup CreatedTables(statements) : g = GrownTable(t, statements)
    BY <2>1 DEF TablesAfter, GrownTables
  <2>3. t.name = name
    BY <1>1, <2>1, <2>2
  <2>4. QED
    BY <2>2, <2>3 DEF CreatedTables
<1>5. QED
    BY <1>2, <1>3, <1>4

LEMMA ExecuteGrows ==
    ASSUME NEW db, NEW s, IsDatabase(db), Accepts(db, s),
           NEW tables0, NEW indexes0, NEW statements,
           TablesAfter(db, tables0, indexes0, statements)
    PROVE  TablesAfter(Execute(db, s), tables0, indexes0, statements \cup {s})
<1>1. PICK after, all : after = Execute(db, s) /\ all = statements \cup {s}
    OBVIOUS
<1>2. /\ CreatedTables(all) = CreatedTables(statements) \cup CreatedTables({s})
      /\ CreatedIndexes(all) = CreatedIndexes(statements) \cup CreatedIndexes({s})
    BY <1>1 DEF CreatedTables, CreatedIndexes
<1>3. \A name : ColumnsFor(all, name) = ColumnsFor(statements, name) \cup ColumnsFor({s}, name)
    BY <1>1 DEF ColumnsFor
<1>4. PICK tables : tables = tables0 \cup CreatedTables(statements)
    OBVIOUS
<1>5. /\ db.tables = GrownTables(tables, statements)
      /\ db.indexes = indexes0 \cup CreatedIndexes(statements)
      /\ NamesUnique(db.tables)
      /\ \A a \in statements : a.op = "add_column" => a.table \in TableNames(db)
    BY <1>4 DEF TablesAfter
<1>6. CASE s.op = "create_table"
  <2>1. PICK new : new = [name |-> s.name, columns |-> ToSet(s.columns)]
    OBVIOUS
  <2>2. /\ CreatedTables({s}) = {new} /\ CreatedIndexes({s}) = {}
        /\ \A name : ColumnsFor({s}, name) = {}
    BY <1>6, <2>1 DEF CreatedTables, CreatedIndexes, ColumnsFor
  <2>3. s.name \notin TableNames(db)
    BY <1>6 DEF Accepts, AcceptsCreateTable, NameTaken, TableExists
  <2>4. ColumnsFor(statements, s.name) = {}
    BY <1>5, <2>3 DEF ColumnsFor
  <2>5. after.tables = db.tables \cup {new} /\ after.indexes = db.indexes
    BY <1>1, <1>6, <2>1 DEF IsDatabase, Execute
  <2>6. \A t : GrownTable(t, all) = GrownTable(t, statements)
    BY <1>3, <2>2 DEF GrownTable
  <2>7. GrownTable(new, statements) = new
    BY <2>1, <2>4 DEF GrownTable
  <2>8. GrownTables(tables \cup {new}, all) = db.tables \cup {new}
    BY <1>5, <2>6, <2>7 DEF GrownTables
  <2>9. tables \cup {new} = tables0 \cup CreatedTables(all)
    BY <1>2, <1>4, <2>2
  <2>10. NamesUnique(after.tables)
    <3>1. \A t \in db.tables : t.name # new.name
      BY <2>1, <2>3 DEF TableNames
    <3>2. QED
      BY <1>5, <2>5, <3>1 DEF NamesUnique
  <2>11. \A a \in all : a.op = "add_column" => a.table \in TableNames(after)
    BY <1>1, <1>5, <1>6, <2>5 DEF TableNames
  <2>12. QED
    BY <1>1, <1>2, <1>5, <2>2, <2>5, <2>8, <2>9, <2>10, <2>11 DEF TablesAfter
<1>7. CASE s.op = "add_column"
  <2>1. CreatedTables({s}) = {} /\ CreatedIndexes({s}) = {}
    BY <1>7 DEF CreatedTables, CreatedIndexes
  <2>2. \A name : ColumnsFor({s}, name) = IF name = s.table THEN {s.column} ELSE {}
    BY <1>7 DEF ColumnsFor
  <2>3. /\ after.tables = {IF t.name = s.table THEN WithColumn(t, s.column) ELSE t : t \in db.tables}
        /\ after.indexes = db.indexes
    BY <1>1, <1>7 DEF IsDatabase, Execute
  <2>4. ASSUME NEW t
        PROVE  GrownTable(t, all) =
                   IF t.name = s.table THEN WithColumn(GrownTable(t, statements), s.column)
                   ELSE GrownTable(t, statements)
    BY <1>3, <2>2 DEF GrownTable, WithColumn
  <2>5. \A t : GrownTable(t, statements).name = t.name
    BY DEF GrownTable
  <2>6. after.tables = GrownTables(tables, all)
    BY <1>5, <2>3, <2>4, <2>5 DEF GrownTables
  <2>7. \A t : (IF t.name = s.table THEN WithColumn(GrownTable(t, statements), s.column)
                ELSE GrownTable(t, statements)).name = t.name
    BY <2>5 DEF GrownTable, WithColumn
  <2>8. NamesUnique(after.tables)
    <3> SUFFICES ASSUME NEW a \in after.tables, NEW b \in after.tables, a.name = b.name
                 PROVE  a = b
        BY DEF NamesUnique
    <3>1. PICK x \in tables, y \in tables : a = GrownTable(x, all) /\ b = GrownTable(y, all)
      BY <2>6 DEF GrownTables
    <3>2. x.name = y.name
      BY <3>1 DEF GrownTable
    <3>3. GrownTable(x, statements) = GrownTable(y, statements)
      BY <1>5, <2>5, <3>2 DEF NamesUnique, GrownTables
    <3>4. QED
      BY <2>4, <3>1, <3>2, <3>3
  <2>9. \A name \in TableNames(db) : name \in TableNames(after)
    <3> SUFFICES ASSUME NEW t \in tables PROVE GrownTable(t, statements).name \in TableNames(after)
        BY <1>5 DEF TableNames, GrownTables
    <3>1. GrownTable(t, all) \in after.tables
      BY <2>6 DEF GrownTables
    <3>2. GrownTable(t, all).name = GrownTable(t, statements).name
      BY DEF GrownTable
    <3>3. QED
      BY <3>1, <3>2 DEF TableNames
  <2>10. s.table \in TableNames(db)
    BY <1>7 DEF Accepts, AcceptsAddColumn, TableNames
  <2>11. \A a \in all : a.op = "add_column" => a.table \in TableNames(after)
    BY <1>1, <1>5, <2>9, <2>10
  <2>12. QED
    BY <1>1, <1>2, <1>4, <1>5, <2>1, <2>3, <2>6, <2>8, <2>11 DEF TablesAfter
<1>8. CASE s.op \in {"create_index", "insert_object", "insert_field"}
  <2>1. CreatedTables({s}) = {} /\ \A name : ColumnsFor({s}, name) = {}
    BY <1>8 DEF CreatedTables, ColumnsFor
  <2>2. CreatedIndexes({s}) = IF s.op = "create_index" THEN {s} ELSE {}
    BY DEF CreatedIndexes
  <2>3. /\ after.tables = db.tables
        /\ after.indexes = db.indexes \cup CreatedIndexes({s})
    BY <1>1, <1>8, <2>2 DEF IsDatabase, Execute
  <2>4. \A t : GrownTable(t, all) = GrownTable(t, statements)
    BY <1>3, <2>1 DEF GrownTable
  <2>5. GrownTables(tables, all) = GrownTables(tables, statements)
    BY <2>4 DEF GrownTables
  <2>6. \A a \in all : a.op = "add_column" => a.table \in TableNames(after)
    BY <1>1, <1>5, <1>8, <2>3 DEF TableNames
  <2>7. QED
    BY <1>1, <1>2, <1>4, <1>5, <2>1, <2>3, <2>5, <2>6 DEF TablesAfter
<1>9. QED
    BY <1>6, <1>7, <1>8 DEF Accepts

\* A snapshot's tables, said of the catalog.
LEMMA TablesOfCatalog ==
    ASSUME NEW catalog
    PROVE  /\ \A t : IsTableOf(t, Snapshot(catalog)) <=>
                 \/ IsMetadataTable(t)
                 \/ \E o \in ToSet(catalog) : t = TableRecord(o.name, ToSet(o.fields))
                 \/ \E o \in ToSet(catalog) : \E f \in ToSet(o.fields) :
                       HasRelationTable(f) /\ t = RelationRecord(o.name, f)
           /\ \A x : IsIndexOf(x, Snapshot(catalog)) <=>
                 \E o \in ToSet(catalog) : x \in IndexesOf(o.name, ToSet(o.fields))
<1>1. PICK record : record = [o \in ToSet(catalog) |-> [name |-> o.name, fields |-> ToSet(o.fields)]]
    OBVIOUS
<1>2. \A s : s \in Snapshot(catalog) <=> \E o \in ToSet(catalog) : s = record[o]
    BY <1>1 DEF Snapshot
<1>3. \A o \in ToSet(catalog) : record[o].name = o.name /\ record[o].fields = ToSet(o.fields)
    BY <1>1
<1>4. ASSUME NEW t
      PROVE  /\ (\E s \in Snapshot(catalog) : t = TableRecord(s.name, s.fields)) <=>
                    \E o \in ToSet(catalog) : t = TableRecord(o.name, ToSet(o.fields))
             /\ (\E s \in Snapshot(catalog) : \E f \in s.fields :
                    HasRelationTable(f) /\ t = RelationRecord(s.name, f)) <=>
                    \E o \in ToSet(catalog) : \E f \in ToSet(o.fields) :
                        HasRelationTable(f) /\ t = RelationRecord(o.name, f)
             /\ (\E s \in Snapshot(catalog) : \E f \in s.fields : t \in ToSet(FieldIndexes(s.name, f))) <=>
                    \E o \in ToSet(catalog) : \E f \in ToSet(o.fields) :
                        t \in ToSet(FieldIndexes(o.name, f))
    BY <1>2, <1>3
<1>5. \A object, fields, x : x \in IndexesOf(object, fields) <=>
          \E f \in fields : x \in ToSet(FieldIndexes(object, f))
    BY DEF IndexesOf
<1>6. ASSUME NEW t
      PROVE  IsTableOf(t, Snapshot(catalog)) <=>
                 \/ IsMetadataTable(t)
                 \/ \E s \in Snapshot(catalog) : t = TableRecord(s.name, s.fields)
                 \/ \E s \in Snapshot(catalog) : \E f \in s.fields :
                       HasRelationTable(f) /\ t = RelationRecord(s.name, f)
    BY DEF IsTableOf
<1>7. ASSUME NEW t
      PROVE  IsTableOf(t, Snapshot(catalog)) <=>
                 \/ IsMetadataTable(t)
                 \/ \E o \in ToSet(catalog) : t = TableRecord(o.name, ToSet(o.fields))
                 \/ \E o \in ToSet(catalog) : \E f \in ToSet(o.fields) :
                       HasRelationTable(f) /\ t = RelationRecord(o.name, f)
    BY ONLY <1>4, <1>6
<1>8. ASSUME NEW x
      PROVE  IsIndexOf(x, Snapshot(catalog)) <=>
                 \E o \in ToSet(catalog) : \E f \in ToSet(o.fields) :
                     x \in ToSet(FieldIndexes(o.name, f))
  <2>1. IsIndexOf(x, Snapshot(catalog)) <=>
            \E s \in Snapshot(catalog) : \E f \in s.fields : x \in ToSet(FieldIndexes(s.name, f))
    BY DEF IsIndexOf
  <2>2. QED
    BY ONLY <1>4, <2>1
<1>9. ASSUME NEW x
      PROVE  IsIndexOf(x, Snapshot(catalog)) <=>
                 \E o \in ToSet(catalog) : x \in IndexesOf(o.name, ToSet(o.fields))
    BY ONLY <1>5, <1>8
<1>10. QED
    BY ONLY <1>7, <1>9

\* What kind of statement each group of a plan is made of.
LEMMA StatementKinds ==
    /\ \A s \in MetadataTableStatements : s.op = "create_table"
    /\ \A name, fields : ObjectTable(name, fields).op = "create_table"
    /\ \A object, fields : \A s \in RelationTablesOf(object, fields) : s.op = "create_table"
    /\ \A object, fields : \A s \in AddedColumnsOf(object, fields) : s.op = "add_column"
    /\ \A object, fields : \A s \in IndexesOf(object, fields) : s.op = "create_index"
    /\ \A row : InsertObject(row).op = "insert_object"
    /\ \A row : InsertField(row).op = "insert_field"
<1>1. /\ \A name, columns : CreateTable(name, columns).op = "create_table"
      /\ \A table, column : AddColumn(table, column).op = "add_column"
      /\ \A row : InsertObject(row).op = "insert_object"
      /\ \A row : InsertField(row).op = "insert_field"
    BY DEF CreateTable, AddColumn, InsertObject, InsertField
<1>2. \A object, fields : \A s \in IndexesOf(object, fields) : s.op = "create_index"
    BY FieldIndexesItems DEF IndexesOf
<1>3. QED
    BY <1>1, <1>2
    DEF MetadataTableStatements, ObjectTable, RelationTablesOf, RelationTable, AddedColumnsOf

Creation(s) == [name |-> s.name, columns |-> ToSet(s.columns)]

\* The tables that the statements of a plan create.
LEMMA StatementTables ==
    /\ \A t : (\E s \in MetadataTableStatements : t = Creation(s)) <=> IsMetadataTable(t)
    /\ \A name, fields : IsList(fields) =>
          Creation(ObjectTable(name, fields)) = TableRecord(name, ToSet(fields))
<1>1. ToSet(<<>>) = {}
    BY EmptyTuple
<1>2. ASSUME NEW name
      PROVE  Creation(CreateTable(name, <<>>)) = [name |-> name, columns |-> {}]
    BY <1>1 DEF Creation, CreateTable
<1>3. \A t : (\E s \in MetadataTableStatements : t = Creation(s)) <=> IsMetadataTable(t)
    BY <1>2 DEF MetadataTableStatements, IsMetadataTable
<1>4. ASSUME NEW name, NEW fields, IsList(fields)
      PROVE  Creation(ObjectTable(name, fields)) = TableRecord(name, ToSet(fields))
    BY <1>4, ObjectTableColumns DEF Creation, TableRecord
<1>5. QED
    BY <1>3, <1>4

LEMMA RelationCreation ==
    ASSUME NEW object, NEW f
    PROVE  Creation(RelationTable(object, f)) = RelationRecord(object, f)
BY DEF Creation, RelationRecord

LEMMA CreatedByStatement ==
    ASSUME NEW statements
    PROVE  /\ \A t : t \in CreatedTables(statements) <=>
                 \E s \in statements : s.op = "create_table" /\ t = Creation(s)
           /\ \A name, column : column \in ColumnsFor(statements, name) <=>
                 \E s \in statements : s.op = "add_column" /\ s.table = name /\ column = s.column
BY DEF CreatedTables, Creation, ColumnsFor

\* The initial plan of a catalog creates the tables and indexes of its snapshot.
LEMMA InitialTables ==
    ASSUME NEW catalog, IsCatalog(catalog),
           NEW statements, statements = ToSet(InitialStatements(catalog))
    PROVE  /\ \A t : t \in CreatedTables(statements) <=> IsTableOf(t, Snapshot(catalog))
           /\ \A x : x \in CreatedIndexes(statements) <=> IsIndexOf(x, Snapshot(catalog))
           /\ \A name : ColumnsFor(statements, name) = {}
<1>1. \A s : s \in statements <=>
          \/ s \in MetadataTableStatements
          \/ \E o \in ToSet(catalog) : s = ObjectTable(o.name, o.fields)
          \/ \E o \in ToSet(catalog) : s \in RelationTablesOf(o.name, ToSet(o.fields))
          \/ \E i \in DOMAIN catalog : s = InsertObject(ObjectRow(i, catalog[i].name))
          \/ \E i \in DOMAIN catalog :
                s \in ObjectFieldRowsOf(i, catalog[i].fields, InitialTarget(catalog))
          \/ \E o \in ToSet(catalog) : s \in IndexesOf(o.name, ToSet(o.fields))
    BY InitialPlan DEF InitialItems
<1>2. \A id, fields, target : \A s \in ObjectFieldRowsOf(id, fields, target) : s.op = "insert_field"
    BY StatementKinds, InsertedFieldRows
<1>3. \A s : s \in statements /\ s.op = "create_table" <=>
          \/ s \in MetadataTableStatements
          \/ \E o \in ToSet(catalog) : s = ObjectTable(o.name, o.fields)
          \/ \E o \in ToSet(catalog) : s \in RelationTablesOf(o.name, ToSet(o.fields))
    BY <1>1, <1>2, StatementKinds
<1>4. \A s : s \in statements /\ s.op = "create_index" <=>
          \E o \in ToSet(catalog) : s \in IndexesOf(o.name, ToSet(o.fields))
    BY <1>1, <1>2, StatementKinds
<1>5. \A s \in statements : s.op # "add_column"
    BY <1>1, <1>2, StatementKinds
<1>6. \A o \in ToSet(catalog) : IsList(o.fields)
    BY DEF IsCatalog
<1>7. ASSUME NEW t PROVE t \in CreatedTables(statements) <=> IsTableOf(t, Snapshot(catalog))
  <2>1. t \in CreatedTables(statements) <=>
            \/ \E s \in MetadataTableStatements : t = Creation(s)
            \/ \E o \in ToSet(catalog) : t = Creation(ObjectTable(o.name, o.fields))
            \/ \E o \in ToSet(catalog) : \E s \in RelationTablesOf(o.name, ToSet(o.fields)) : t = Creation(s)
    BY <1>3, CreatedByStatement
  <2>2. t \in CreatedTables(statements) <=>
            \/ IsMetadataTable(t)
            \/ \E o \in ToSet(catalog) : t = TableRecord(o.name, ToSet(o.fields))
            \/ \E o \in ToSet(catalog) : \E f \in ToSet(o.fields) :
                  HasRelationTable(f) /\ t = RelationRecord(o.name, f)
    <3>1. (\E s \in MetadataTableStatements : t = Creation(s)) <=> IsMetadataTable(t)
      BY StatementTables
    <3>2. \A o \in ToSet(catalog) :
              Creation(ObjectTable(o.name, o.fields)) = TableRecord(o.name, ToSet(o.fields))
      BY <1>6, StatementTables
    <3>3. ASSUME NEW object, NEW fields
          PROVE  (\E s \in RelationTablesOf(object, fields) : t = Creation(s)) <=>
                     \E f \in fields : HasRelationTable(f) /\ t = RelationRecord(object, f)
      BY RelationCreation DEF RelationTablesOf
    <3>4. QED
      BY ONLY <2>1, <3>1, <3>2, <3>3
  <2>3. QED
    BY <2>2, TablesOfCatalog
<1>8. \A x : x \in CreatedIndexes(statements) <=> IsIndexOf(x, Snapshot(catalog))
    BY <1>4, TablesOfCatalog DEF CreatedIndexes
<1>9. \A name : ColumnsFor(statements, name) = {}
    BY <1>5 DEF ColumnsFor
<1>10. QED
    BY <1>7, <1>8, <1>9

LEMMA PlannedOf ==
    ASSUME NEW catalog, IsCatalog(catalog)
    PROVE  /\ \A t : t \in PlannedTables(catalog) <=> IsTableOf(t, Snapshot(catalog))
           /\ \A x : x \in PlannedIndexes(catalog) <=> IsIndexOf(x, Snapshot(catalog))
<1>1. PICK statements : statements = ToSet(InitialStatements(catalog))
    OBVIOUS
<1>2. PlannedTables(catalog) = CreatedTables(statements) /\ PlannedIndexes(catalog) = CreatedIndexes(statements)
    BY <1>1 DEF PlannedTables, PlannedIndexes, CreatedTables, CreatedIndexes
<1>3. QED
    BY <1>1, <1>2, InitialTables

\* What a migration creates and adds.
LEMMA MigrationTables ==
    ASSUME NEW current, NEW desired, IsCatalog(desired), NamesOrdered(desired),
           NEW statements, statements = ToSet(MigrationStatements(current, desired)),
           NEW added, added = [o \in ToSet(desired) |-> ToSet(AddedFields(current, o))]
    PROVE  /\ \A t : t \in CreatedTables(statements) <=>
                 \/ \E o \in ToSet(desired) :
                       /\ o.name \notin TypeNames(current)
                       /\ t = TableRecord(o.name, ToSet(o.fields))
                 \/ \E o \in ToSet(desired) : \E f \in ToSet(o.fields) :
                       /\ o.name \notin TypeNames(current)
                       /\ HasRelationTable(f) /\ t = RelationRecord(o.name, f)
                 \/ \E o \in ToSet(desired) : \E f \in added[o] :
                       /\ o.name \in TypeNames(current)
                       /\ HasRelationTable(f) /\ t = RelationRecord(o.name, f)
           /\ \A x : x \in CreatedIndexes(statements) <=>
                 \/ \E o \in ToSet(desired) :
                       o.name \notin TypeNames(current) /\ x \in IndexesOf(o.name, ToSet(o.fields))
                 \/ \E o \in ToSet(desired) :
                       o.name \in TypeNames(current) /\ x \in IndexesOf(o.name, added[o])
           /\ \A name, column : column \in ColumnsFor(statements, name) <=>
                 \E o \in ToSet(desired) : \E f \in added[o] :
                     /\ o.name \in TypeNames(current) /\ HasColumn(f)
                     /\ name = ToAsciiLowercase(o.name) /\ column = StoredColumn(f)
<1>1. PICK new, kept : new = NewObjects(current, desired) /\ kept = ToSet(KeptObjects(current, desired))
    OBVIOUS
<1>2. /\ \A o : o \in ToSet(new) <=> o \in ToSet(desired) /\ o.name \notin TypeNames(current)
      /\ \A o : o \in kept <=> o \in ToSet(desired) /\ o.name \in TypeNames(current)
    BY <1>1, NewObjectsItems, KeptObjectsItems
<1>3. \A s : s \in statements <=>
          \/ \E o \in ToSet(new) : s = ObjectTable(o.name, SortedFields(o))
          \/ \E o \in ToSet(new) : s \in RelationTablesOf(o.name, ToSet(o.fields))
          \/ \E o \in kept : s \in RelationTablesOf(o.name, ToSet(AddedFields(current, o)))
          \/ \E o \in kept : s \in AddedColumnsOf(o, ToSet(AddedFields(current, o)))
          \/ \E o \in ToSet(new) : s \in IndexesOf(o.name, ToSet(o.fields))
          \/ \E o \in kept : s \in IndexesOf(o.name, ToSet(AddedFields(current, o)))
          \/ \E i \in DOMAIN new : s = InsertObject(ObjectRow(Len(current) + i, new[i].name))
          \/ \E i \in DOMAIN new :
                s \in ObjectFieldRowsOf(Len(current) + i, SortedFields(new[i]),
                                        MigrationTarget(current, desired))
          \/ \E o \in kept : s \in AddedFieldRowsOf(current, desired, o)
  <2>1. statements = MigrationItems(current, desired)
    BY MigrationPlan
  <2>2. QED
    BY <1>1, <2>1 DEF MigrationItems
<1>4. /\ \A id, fields, target : \A s \in ObjectFieldRowsOf(id, fields, target) : s.op = "insert_field"
      /\ \A o : \A s \in AddedFieldRowsOf(current, desired, o) : s.op = "insert_field"
    BY StatementKinds, InsertedFieldRows DEF AddedFieldRowsOf
<1>5. \A s : s \in statements /\ s.op = "create_table" <=>
          \/ \E o \in ToSet(new) : s = ObjectTable(o.name, SortedFields(o))
          \/ \E o \in ToSet(new) : s \in RelationTablesOf(o.name, ToSet(o.fields))
          \/ \E o \in kept : s \in RelationTablesOf(o.name, ToSet(AddedFields(current, o)))
    BY <1>3, <1>4, StatementKinds
<1>6. \A s : s \in statements /\ s.op = "create_index" <=>
          \/ \E o \in ToSet(new) : s \in IndexesOf(o.name, ToSet(o.fields))
          \/ \E o \in kept : s \in IndexesOf(o.name, ToSet(AddedFields(current, o)))
    BY <1>3, <1>4, StatementKinds
<1>7. \A s : s \in statements /\ s.op = "add_column" <=>
          \E o \in kept : s \in AddedColumnsOf(o, ToSet(AddedFields(current, o)))
    BY <1>3, <1>4, StatementKinds
<1>8. \A o \in ToSet(desired) : /\ IsList(SortedFields(o)) /\ ToSet(SortedFields(o)) = ToSet(o.fields)
                                /\ ToSet(AddedFields(current, o)) = added[o]
    BY SortedFieldsItems
<1>9. ASSUME NEW t
      PROVE  t \in CreatedTables(statements) <=>
                 \/ \E o \in ToSet(new) : t = TableRecord(o.name, ToSet(o.fields))
                 \/ \E o \in ToSet(new) : \E f \in ToSet(o.fields) :
                       HasRelationTable(f) /\ t = RelationRecord(o.name, f)
                 \/ \E o \in kept : \E f \in added[o] :
                       HasRelationTable(f) /\ t = RelationRecord(o.name, f)
  <2>1. t \in CreatedTables(statements) <=>
            \/ \E o \in ToSet(new) : t = Creation(ObjectTable(o.name, SortedFields(o)))
            \/ \E o \in ToSet(new) : \E s \in RelationTablesOf(o.name, ToSet(o.fields)) : t = Creation(s)
            \/ \E o \in kept : \E s \in RelationTablesOf(o.name, ToSet(AddedFields(current, o))) : t = Creation(s)
    BY <1>5, CreatedByStatement
  <2>2. \A o \in ToSet(new) :
            Creation(ObjectTable(o.name, SortedFields(o))) = TableRecord(o.name, ToSet(o.fields))
    BY <1>2, <1>8, StatementTables
  <2>3. ASSUME NEW object, NEW fields
        PROVE  (\E s \in RelationTablesOf(object, fields) : t = Creation(s)) <=>
                   \E f \in fields : HasRelationTable(f) /\ t = RelationRecord(object, f)
    BY RelationCreation DEF RelationTablesOf
  <2>4. \A o \in kept : ToSet(AddedFields(current, o)) = added[o]
    BY <1>2, <1>8
  <2>5. QED
    BY ONLY <2>1, <2>2, <2>3, <2>4
<1>10. ASSUME NEW name, NEW column
       PROVE  column \in ColumnsFor(statements, name) <=>
                  \E o \in kept : \E f \in added[o] :
                      /\ HasColumn(f)
                      /\ name = ToAsciiLowercase(o.name) /\ column = StoredColumn(f)
  <2>1. column \in ColumnsFor(statements, name) <=>
            \E o \in kept : \E s \in AddedColumnsOf(o, added[o]) : s.table = name /\ s.column = column
    <3>1. \A o \in kept : ToSet(AddedFields(current, o)) = added[o]
      BY <1>2, <1>8
    <3>2. column \in ColumnsFor(statements, name) <=>
              \E s \in statements : s.op = "add_column" /\ s.table = name /\ column = s.column
      BY CreatedByStatement
    <3>3. QED
      BY ONLY <1>7, <3>1, <3>2
  <2>2. \A table, c : AddColumn(table, c).table = table /\ AddColumn(table, c).column = c
    BY DEF AddColumn
  <2>3. \A o : \A s : s \in AddedColumnsOf(o, added[o]) <=>
            \E f \in added[o] : HasColumn(f) /\ s = AddColumn(ToAsciiLowercase(o.name), StoredColumn(f))
    BY DEF AddedColumnsOf
  <2>4. ASSUME NEW o \in kept
        PROVE  (\E s \in AddedColumnsOf(o, added[o]) : s.table = name /\ s.column = column) <=>
                   \E f \in added[o] :
                       HasColumn(f) /\ name = ToAsciiLowercase(o.name) /\ column = StoredColumn(f)
    <3>1. PICK columns, fs, table :
              columns = AddedColumnsOf(o, fs) /\ fs = added[o] /\ table = ToAsciiLowercase(o.name)
      OBVIOUS
    <3>2. \A s : s \in columns <=> \E f \in fs : HasColumn(f) /\ s = AddColumn(table, StoredColumn(f))
      BY ONLY <2>3, <3>1
    <3>3. (\E s \in columns : s.table = name /\ s.column = column) <=>
              \E f \in fs : HasColumn(f) /\ name = table /\ column = StoredColumn(f)
      BY ONLY <2>2, <3>2
    <3>4. QED
      BY ONLY <3>1, <3>3
  <2>5. QED
    BY ONLY <2>1, <2>4
<1>11. \A x : x \in CreatedIndexes(statements) <=>
           \/ \E o \in ToSet(new) : x \in IndexesOf(o.name, ToSet(o.fields))
           \/ \E o \in kept : x \in IndexesOf(o.name, added[o])
  <2>1. \A o \in kept : ToSet(AddedFields(current, o)) = added[o]
    BY <1>2, <1>8
  <2>2. QED
    BY <1>6, <2>1 DEF CreatedIndexes
<1>12. QED
    BY ONLY <1>2, <1>9, <1>10, <1>11

AreTablesOf(tables, snapshot) == \A t : t \in tables <=> IsTableOf(t, snapshot)
AreIndexesOf(indexes, snapshot) == \A x : x \in indexes <=> IsIndexOf(x, snapshot)

\* The object tables are the ones with an id column.
LEMMA IdColumns ==
    /\ \A name, fields : IdColumn \in TableRecord(name, fields).columns
    /\ \A t : IsMetadataTable(t) => IdColumn \notin t.columns
    /\ \A object, f : IdColumn \notin RelationRecord(object, f).columns
<1>1. \A name, fields : IdColumn \in TableRecord(name, fields).columns
    BY DEF TableRecord, ObjectColumns
<1>2. \A t : IsMetadataTable(t) => IdColumn \notin t.columns
    BY DEF IsMetadataTable
<1>3. ASSUME NEW object, NEW f PROVE IdColumn \notin RelationRecord(object, f).columns
  <2>1. PICK a, b, c : /\ a = Column("source_id", "TEXT", FALSE, FALSE, ToAsciiLowercase(object))
                       /\ b = Column("target_id", "TEXT", FALSE, FALSE, ToAsciiLowercase(f.type))
                       /\ c = Column("position", "INTEGER", TRUE, FALSE, None)
    OBVIOUS
  <2>2. RelationRecord(object, f).columns = ToSet(<<a, b, c>>)
    BY <2>1 DEF RelationRecord, RelationTable, CreateTable
  <2>3. ToSet(<<a, b, c>>) = {a, b, c}
    BY DEF ToSet
  <2>4. IdColumn.name = "id" /\ a.name = "source_id" /\ b.name = "target_id" /\ c.name = "position"
    BY <2>1 DEF IdColumn, Column
  <2>5. QED
    BY ONLY <2>2, <2>3, <2>4
<1>4. QED
    BY <1>1, <1>2, <1>3

\* An object that stays: the table it has, with the columns added to it, is the
\* table the new catalog gives it; the other old tables get no column.
LEMMA GrownObjectTables ==
    ASSUME NEW current, NEW desired, IsCatalog(current), IsCatalog(desired), NamesOrdered(desired),
           Supported(current, desired),
           NEW statements, statements = ToSet(MigrationStatements(current, desired)),
           NEW tables0, AreTablesOf(tables0, Snapshot(current)), NamesUnique(tables0),
           TypesApart(Snapshot(current)),
           NEW object \in ToSet(current), NEW kept \in ToSet(desired), kept.name = object.name
    PROVE  GrownTable(TableRecord(object.name, ToSet(object.fields)), statements) =
               TableRecord(kept.name, ToSet(kept.fields))
<1>1. PICK added : added = [o \in ToSet(desired) |-> ToSet(AddedFields(current, o))]
    OBVIOUS
<1>2. PICK name : name = ToAsciiLowercase(object.name)
    OBVIOUS
<1>3. \A column : column \in ColumnsFor(statements, name) <=>
          \E o \in ToSet(desired) : \E f \in added[o] :
              /\ o.name \in TypeNames(current) /\ HasColumn(f)
              /\ name = ToAsciiLowercase(o.name) /\ column = StoredColumn(f)
    BY <1>1, MigrationTables
<1>4. ASSUME NEW o \in ToSet(desired), o.name \in TypeNames(current), name = ToAsciiLowercase(o.name)
      PROVE  o = kept
  <2>1. PICK before \in ToSet(current) : before.name = o.name
    BY <1>4 DEF TypeNames
  <2>2. PICK a, b : /\ a = [name |-> before.name, fields |-> ToSet(before.fields)]
                    /\ b = [name |-> object.name, fields |-> ToSet(object.fields)]
    OBVIOUS
  <2>3. a \in Snapshot(current) /\ b \in Snapshot(current)
    BY <2>2 DEF Snapshot
  <2>4. a = b
    BY <1>2, <1>4, <2>1, <2>2, <2>3 DEF TypesApart
  <2>5. o.name = kept.name
    BY <2>1, <2>2, <2>4
  <2>6. QED
    BY <2>5, NameDetermines DEF IsCatalog
<1>5. \A column : column \in ColumnsFor(statements, name) <=>
          \E f \in added[kept] : HasColumn(f) /\ column = StoredColumn(f)
  <2>1. kept.name \in TypeNames(current) /\ name = ToAsciiLowercase(kept.name)
    BY <1>2 DEF TypeNames
  <2>2. QED
    BY <1>3, <1>4, <2>1
<1>6. ToSet(kept.fields) = ToSet(object.fields) \cup added[kept]
  <2>1. FindType(current, kept.name) = object
    BY FindTypeFinds DEF IsCatalog
  <2>2. added[kept] = {f \in ToSet(kept.fields) : f.name \notin FieldNames(object)}
    BY <1>1, <2>1, AddedFieldsItems
  <2>3. PICK after \in ToSet(desired) :
            /\ after.name = object.name
            /\ ToSet(object.fields) \subseteq ToSet(after.fields)
            /\ \A f \in ToSet(after.fields) \ ToSet(object.fields) :
                  f.name \notin FieldNames(object) /\ ValidFieldAddition(f)
    BY SupportedKeepsFields
  <2>4. after = kept
    BY <2>3, NameDetermines DEF IsCatalog
  <2>5. QED
    BY <2>2, <2>3, <2>4
<1>7. \A fields, column : column \in ObjectColumns(fields) <=>
          \/ column = IdColumn
          \/ \E f \in fields : HasColumn(f) /\ column = StoredColumn(f)
    BY DEF ObjectColumns
<1>8. ObjectColumns(ToSet(kept.fields)) = ObjectColumns(ToSet(object.fields)) \cup ColumnsFor(statements, name)
  <2>1. PICK x, y, z, w : /\ x = ObjectColumns(ToSet(kept.fields))
                          /\ y = ObjectColumns(ToSet(object.fields))
                          /\ z = ColumnsFor(statements, name)
                          /\ w = added[kept]
    OBVIOUS
  <2>2. ASSUME NEW column PROVE column \in x <=> column \in y \/ column \in z
    BY ONLY <1>5, <1>6, <1>7, <2>1
  <2>3. QED
    BY <2>1, <2>2
<1>9. QED
    BY <1>2, <1>8 DEF GrownTable, TableRecord

LEMMA GrownOtherTables ==
    ASSUME NEW current, NEW desired, IsCatalog(current), IsCatalog(desired), NamesOrdered(desired),
           NEW statements, statements = ToSet(MigrationStatements(current, desired)),
           NEW tables0, AreTablesOf(tables0, Snapshot(current)), NamesUnique(tables0),
           NEW t, IsTable(t),
           \/ t \in tables0 /\ IdColumn \notin t.columns
           \/ \A other \in tables0 : other.name # t.name
    PROVE  GrownTable(t, statements) = t
<1>1. PICK added : added = [o \in ToSet(desired) |-> ToSet(AddedFields(current, o))]
    OBVIOUS
<1>2. \A column : column \in ColumnsFor(statements, t.name) <=>
          \E o \in ToSet(desired) : \E f \in added[o] :
              /\ o.name \in TypeNames(current) /\ HasColumn(f)
              /\ t.name = ToAsciiLowercase(o.name) /\ column = StoredColumn(f)
    BY <1>1, MigrationTables
<1>3. ASSUME NEW o \in ToSet(desired), o.name \in TypeNames(current), t.name = ToAsciiLowercase(o.name)
      PROVE  FALSE
  <2>1. PICK before \in ToSet(current) : before.name = o.name
    BY <1>3 DEF TypeNames
  <2>2. PICK own : own = TableRecord(before.name, ToSet(before.fields))
    OBVIOUS
  <2>3. own \in tables0
    BY <2>2, TablesOfCatalog DEF AreTablesOf
  <2>4. own.name = t.name /\ IdColumn \in own.columns
    BY <1>3, <2>1, <2>2, IdColumns DEF TableRecord
  <2>5. QED
    BY <2>3, <2>4 DEF NamesUnique
<1>4. ColumnsFor(statements, t.name) = {}
    BY <1>2, <1>3
<1>5. QED
    BY <1>4 DEF GrownTable, IsTable

LEMMA RecordTables ==
    /\ \A t : IsMetadataTable(t) => IsTable(t)
    /\ \A name, fields : IsTable(TableRecord(name, fields))
    /\ \A object, f : IsTable(RelationRecord(object, f))
    /\ \A t, snapshot : IsTableOf(t, snapshot) => IsTable(t)
<1>1. /\ \A t : IsMetadataTable(t) => IsTable(t)
      /\ \A name, fields : IsTable(TableRecord(name, fields))
      /\ \A object, f : IsTable(RelationRecord(object, f))
    BY DEF IsMetadataTable, TableRecord, RelationRecord, IsTable
<1>2. QED
    BY <1>1 DEF IsTableOf

\* The tables after a migration are those of the new catalog.
LEMMA MigratedTables ==
    ASSUME NEW current, NEW desired, IsCatalog(current), IsCatalog(desired), NamesOrdered(desired),
           Supported(current, desired),
           NEW statements, statements = ToSet(MigrationStatements(current, desired)),
           NEW tables0, AreTablesOf(tables0, Snapshot(current)), NamesUnique(tables0),
           TypesApart(Snapshot(current)),
           \A s \in statements : s.op = "create_table" => \A t \in tables0 : t.name # s.name
    PROVE  AreTablesOf(GrownTables(tables0 \cup CreatedTables(statements), statements),
                       Snapshot(desired))
<1>1. PICK added : added = [o \in ToSet(desired) |-> ToSet(AddedFields(current, o))]
    OBVIOUS
<1>2. PICK grown, created : /\ grown = GrownTables(tables0 \cup CreatedTables(statements), statements)
                            /\ created = CreatedTables(statements)
    OBVIOUS
<1>3. \A t : t \in grown <=> \/ \E u \in tables0 : t = GrownTable(u, statements)
                             \/ \E u \in created : t = GrownTable(u, statements)
    BY <1>2 DEF GrownTables
<1>4. ASSUME NEW t
      PROVE  t \in tables0 <=>
                 \/ IsMetadataTable(t)
                 \/ \E o \in ToSet(current) : t = TableRecord(o.name, ToSet(o.fields))
                 \/ \E o \in ToSet(current) : \E f \in ToSet(o.fields) :
                       HasRelationTable(f) /\ t = RelationRecord(o.name, f)
    BY TablesOfCatalog DEF AreTablesOf
<1>5. ASSUME NEW t
      PROVE  t \in created <=>
                 \/ \E o \in ToSet(desired) :
                       /\ o.name \notin TypeNames(current)
                       /\ t = TableRecord(o.name, ToSet(o.fields))
                 \/ \E o \in ToSet(desired) : \E f \in ToSet(o.fields) :
                       /\ o.name \notin TypeNames(current)
                       /\ HasRelationTable(f) /\ t = RelationRecord(o.name, f)
                 \/ \E o \in ToSet(desired) : \E f \in added[o] :
                       /\ o.name \in TypeNames(current)
                       /\ HasRelationTable(f) /\ t = RelationRecord(o.name, f)
    BY <1>1, <1>2, MigrationTables
<1>6. ASSUME NEW t \in created PROVE GrownTable(t, statements) = t
  <2>1. \A other \in tables0 : other.name # t.name
    <3>1. PICK s \in statements : s.op = "create_table" /\ t = Creation(s)
      BY <1>2, <1>6, CreatedByStatement
    <3>2. QED
      BY <3>1 DEF Creation
  <2>2. IsTable(t)
    BY <1>5, RecordTables
  <2>3. QED
    BY <2>1, <2>2, GrownOtherTables
<1>7. ASSUME NEW t, IsMetadataTable(t) PROVE t \in tables0 /\ GrownTable(t, statements) = t
  <2>1. t \in tables0 /\ IsTable(t) /\ IdColumn \notin t.columns
    BY <1>4, <1>7, RecordTables, IdColumns
  <2>2. QED
    BY <2>1, GrownOtherTables
<1>8. ASSUME NEW o \in ToSet(current), NEW f \in ToSet(o.fields), HasRelationTable(f),
             NEW t, t = RelationRecord(o.name, f)
      PROVE  t \in tables0 /\ GrownTable(t, statements) = t
  <2>1. t \in tables0 /\ IsTable(t) /\ IdColumn \notin t.columns
    BY <1>4, <1>8, RecordTables, IdColumns
  <2>2. QED
    BY <2>1, GrownOtherTables
<1>9. ASSUME NEW o \in ToSet(current), NEW kept \in ToSet(desired), kept.name = o.name
      PROVE  /\ GrownTable(TableRecord(o.name, ToSet(o.fields)), statements) =
                    TableRecord(kept.name, ToSet(kept.fields))
             /\ \A f \in ToSet(kept.fields) : f \in ToSet(o.fields) \/ f \in added[kept]
             /\ ToSet(o.fields) \subseteq ToSet(kept.fields)
             /\ added[kept] \subseteq ToSet(kept.fields)
  <2>1. FindType(current, kept.name) = o
    BY <1>9, FindTypeFinds DEF IsCatalog
  <2>2. added[kept] = {f \in ToSet(kept.fields) : f.name \notin FieldNames(o)}
    BY <1>1, <2>1, AddedFieldsItems
  <2>3. PICK after \in ToSet(desired) :
            /\ after.name = o.name
            /\ ToSet(o.fields) \subseteq ToSet(after.fields)
            /\ \A f \in ToSet(after.fields) \ ToSet(o.fields) :
                  f.name \notin FieldNames(o) /\ ValidFieldAddition(f)
    BY SupportedKeepsFields
  <2>4. after = kept
    BY <1>9, <2>3, NameDetermines DEF IsCatalog
  <2>5. GrownTable(TableRecord(o.name, ToSet(o.fields)), statements) =
            TableRecord(kept.name, ToSet(kept.fields))
    BY <1>9, GrownObjectTables
  <2>6. QED
    BY <2>2, <2>3, <2>4, <2>5
<1>10. \A o \in ToSet(current) : \E kept \in ToSet(desired) : kept.name = o.name
    BY SupportedKeepsFields
<1>11. \A o \in ToSet(desired) :
           o.name \in TypeNames(current) <=> \E before \in ToSet(current) : before.name = o.name
    BY DEF TypeNames
<1>12. ASSUME NEW t
       PROVE  IsTableOf(t, Snapshot(desired)) <=>
                 \/ IsMetadataTable(t)
                 \/ \E o \in ToSet(desired) : t = TableRecord(o.name, ToSet(o.fields))
                 \/ \E o \in ToSet(desired) : \E f \in ToSet(o.fields) :
                       HasRelationTable(f) /\ t = RelationRecord(o.name, f)
    BY TablesOfCatalog
<1>13. ASSUME NEW t \in grown PROVE IsTableOf(t, Snapshot(desired))
  <2>1. CASE \E u \in tables0 : t = GrownTable(u, statements)
    <3>1. PICK u \in tables0 : t = GrownTable(u, statements)
      BY <2>1
    <3>2. CASE IsMetadataTable(u)
      BY <1>7, <1>12, <3>1, <3>2
    <3>3. CASE \E o \in ToSet(current) : u = TableRecord(o.name, ToSet(o.fields))
      BY <1>9, <1>10, <1>12, <3>1, <3>3
    <3>4. CASE \E o \in ToSet(current) : \E f \in ToSet(o.fields) :
                   HasRelationTable(f) /\ u = RelationRecord(o.name, f)
      <4>1. PICK o \in ToSet(current) :
                \E f \in ToSet(o.fields) : HasRelationTable(f) /\ u = RelationRecord(o.name, f)
        BY <3>4
      <4>2. PICK f \in ToSet(o.fields) : HasRelationTable(f) /\ u = RelationRecord(o.name, f)
        BY <4>1
      <4>3. t = u
        BY <1>8, <3>1, <4>2
      <4>4. PICK kept \in ToSet(desired) : kept.name = o.name
        BY <1>10
      <4>5. f \in ToSet(kept.fields) /\ t = RelationRecord(kept.name, f)
        BY <1>9, <4>2, <4>3, <4>4
      <4>6. QED
        BY <1>12, <4>2, <4>5
    <3>5. QED
      BY <1>4, <3>2, <3>3, <3>4
  <2>2. CASE \E u \in created : t = GrownTable(u, statements)
    <3>1. t \in created
      BY <1>6, <2>2
    <3>2. \A o \in ToSet(desired) : o.name \in TypeNames(current) => added[o] \subseteq ToSet(o.fields)
      BY <1>9, <1>11
    <3>3. QED
      BY <1>5, <1>12, <3>1, <3>2
  <2>3. QED
    BY <1>3, <1>13, <2>1, <2>2
<1>14. ASSUME NEW t, IsTableOf(t, Snapshot(desired)) PROVE t \in grown
  <2>1. \A u \in created : u \in grown
    BY <1>3, <1>6
  <2>2. CASE IsMetadataTable(t)
    BY <1>3, <1>7, <2>2
  <2>3. CASE \E o \in ToSet(desired) : t = TableRecord(o.name, ToSet(o.fields))
    <3>1. PICK o \in ToSet(desired) : t = TableRecord(o.name, ToSet(o.fields))
      BY <2>3
    <3>2. CASE o.name \notin TypeNames(current)
      BY <1>5, <2>1, <3>1, <3>2
    <3>3. CASE o.name \in TypeNames(current)
      <4>1. PICK before \in ToSet(current) : before.name = o.name
        BY <1>11, <3>3
      <4>2. PICK u : u = TableRecord(before.name, ToSet(before.fields))
        OBVIOUS
      <4>3. u \in tables0
        BY <1>4, <4>2
      <4>4. t = GrownTable(u, statements)
        BY <1>9, <3>1, <4>1, <4>2
      <4>5. QED
        BY <1>3, <4>3, <4>4
    <3>4. QED
      BY <3>2, <3>3
  <2>4. CASE \E o \in ToSet(desired) : \E f \in ToSet(o.fields) :
                 HasRelationTable(f) /\ t = RelationRecord(o.name, f)
    <3>1. PICK o \in ToSet(desired) :
              \E f \in ToSet(o.fields) : HasRelationTable(f) /\ t = RelationRecord(o.name, f)
      BY <2>4
    <3>2. PICK f \in ToSet(o.fields) : HasRelationTable(f) /\ t = RelationRecord(o.name, f)
      BY <3>1
    <3>3. CASE o.name \notin TypeNames(current)
      BY <1>5, <2>1, <3>2, <3>3
    <3>4. CASE o.name \in TypeNames(current)
      <4>1. PICK before \in ToSet(current) : before.name = o.name
        BY <1>11, <3>4
      <4>2. f \in ToSet(before.fields) \/ f \in added[o]
        BY <1>9, <4>1
      <4>3. CASE f \in added[o]
        BY <1>5, <2>1, <3>2, <3>4, <4>3
      <4>4. CASE f \in ToSet(before.fields)
        <5>1. t = RelationRecord(before.name, f)
          BY <3>2, <4>1
        <5>2. t \in tables0 /\ GrownTable(t, statements) = t
          BY <1>8, <3>2, <4>4, <5>1
        <5>3. QED
          BY <1>3, <5>2
      <4>5. QED
        BY <4>2, <4>3, <4>4
    <3>5. QED
      BY <3>3, <3>4
  <2>5. QED
    BY <1>12, <1>14, <2>2, <2>3, <2>4
<1>15. QED
    BY <1>2, <1>13, <1>14 DEF AreTablesOf

\* The indexes after a migration are those of the new catalog.
LEMMA MigratedIndexes ==
    ASSUME NEW current, NEW desired, IsCatalog(current), IsCatalog(desired), NamesOrdered(desired),
           Supported(current, desired),
           NEW statements, statements = ToSet(MigrationStatements(current, desired)),
           NEW indexes0, AreIndexesOf(indexes0, Snapshot(current))
    PROVE  AreIndexesOf(indexes0 \cup CreatedIndexes(statements), Snapshot(desired))
<1>1. PICK added : added = [o \in ToSet(desired) |-> ToSet(AddedFields(current, o))]
    OBVIOUS
<1>2. \A o, fields, x : x \in IndexesOf(o.name, fields) <=>
          \E f \in fields : x \in ToSet(FieldIndexes(o.name, f))
    BY DEF IndexesOf
<1>3. ASSUME NEW x
      PROVE  x \in CreatedIndexes(statements) <=>
                 \/ \E o \in ToSet(desired) :
                       o.name \notin TypeNames(current) /\ x \in IndexesOf(o.name, ToSet(o.fields))
                 \/ \E o \in ToSet(desired) :
                       o.name \in TypeNames(current) /\ x \in IndexesOf(o.name, added[o])
    BY <1>1, MigrationTables
<1>4. ASSUME NEW x
      PROVE  x \in indexes0 <=>
                 \E o \in ToSet(current) : x \in IndexesOf(o.name, ToSet(o.fields))
    BY TablesOfCatalog DEF AreIndexesOf
<1>5. ASSUME NEW x
      PROVE  IsIndexOf(x, Snapshot(desired)) <=>
                 \E o \in ToSet(desired) : x \in IndexesOf(o.name, ToSet(o.fields))
    BY TablesOfCatalog
<1>6. ASSUME NEW o \in ToSet(current), NEW kept \in ToSet(desired), kept.name = o.name
      PROVE  ToSet(kept.fields) = ToSet(o.fields) \cup added[kept]
  <2>1. FindType(current, kept.name) = o
    BY <1>6, FindTypeFinds DEF IsCatalog
  <2>2. added[kept] = {f \in ToSet(kept.fields) : f.name \notin FieldNames(o)}
    BY <1>1, <2>1, AddedFieldsItems
  <2>3. PICK after \in ToSet(desired) :
            /\ after.name = o.name
            /\ ToSet(o.fields) \subseteq ToSet(after.fields)
            /\ \A f \in ToSet(after.fields) \ ToSet(o.fields) :
                  f.name \notin FieldNames(o) /\ ValidFieldAddition(f)
    BY SupportedKeepsFields
  <2>4. after = kept
    BY <1>6, <2>3, NameDetermines DEF IsCatalog
  <2>5. QED
    BY <2>2, <2>3, <2>4
<1>7. \A o \in ToSet(current) : \E kept \in ToSet(desired) : kept.name = o.name
    BY SupportedKeepsFields
<1>8. \A o \in ToSet(desired) :
          o.name \in TypeNames(current) <=> \E before \in ToSet(current) : before.name = o.name
    BY DEF TypeNames
<1>9. ASSUME NEW x
      PROVE  (x \in indexes0 \/ x \in CreatedIndexes(statements)) <=> IsIndexOf(x, Snapshot(desired))
  <2>1. ASSUME NEW o \in ToSet(current), x \in IndexesOf(o.name, ToSet(o.fields))
        PROVE  \E kept \in ToSet(desired) : x \in IndexesOf(kept.name, ToSet(kept.fields))
    <3>1. PICK kept \in ToSet(desired) : kept.name = o.name
      BY <1>7
    <3>2. ToSet(o.fields) \subseteq ToSet(kept.fields)
      BY <1>6, <3>1
    <3>3. x \in IndexesOf(kept.name, ToSet(kept.fields))
      BY <2>1, <3>1, <3>2 DEF IndexesOf
    <3>4. QED
      BY <3>3
  <2>2. ASSUME NEW o \in ToSet(desired), o.name \in TypeNames(current), x \in IndexesOf(o.name, added[o])
        PROVE  x \in IndexesOf(o.name, ToSet(o.fields))
    <3>1. added[o] \subseteq ToSet(o.fields)
      BY <1>6, <1>8, <2>2
    <3>2. QED
      BY <2>2, <3>1 DEF IndexesOf
  <2>3. ASSUME NEW o \in ToSet(desired), o.name \in TypeNames(current),
               x \in IndexesOf(o.name, ToSet(o.fields))
        PROVE  \/ \E before \in ToSet(current) : x \in IndexesOf(before.name, ToSet(before.fields))
               \/ x \in IndexesOf(o.name, added[o])
    <3>1. PICK before \in ToSet(current) : before.name = o.name
      BY <1>8, <2>3
    <3>2. ToSet(o.fields) = ToSet(before.fields) \cup added[o]
      BY <1>6, <3>1
    <3>3. \/ x \in IndexesOf(before.name, ToSet(before.fields))
          \/ x \in IndexesOf(o.name, added[o])
      BY <2>3, <3>1, <3>2 DEF IndexesOf
    <3>4. QED
      BY <3>3
  <2>4. QED
    BY <1>3, <1>4, <1>5, <2>1, <2>2, <2>3
<1>10. QED
    BY <1>9 DEF AreIndexesOf

-----------------------------------------------------------------------------
\* A plan that runs to its end

\* The first n statements of a plan create tables that are not there, each once.
CreatesOnce(list, n, tables) ==
    \A i \in 1..n : list[i].op = "create_table" =>
        /\ \A t \in tables : t.name # list[i].name
        /\ \A j \in 1..n : list[j].op = "create_table" /\ list[j].name = list[i].name => j = i

LEMMA CreatesOnceMore ==
    ASSUME NEW list, NEW n \in Nat, NEW statements, statements = {list[i] : i \in 1..n},
           NEW db, NEW tables0, NEW indexes0, TablesAfter(db, tables0, indexes0, statements),
           CreatesOnce(list, n, tables0), Accepts(db, list[n + 1])
    PROVE  CreatesOnce(list, n + 1, tables0)
<1>1. /\ \A t \in tables0 : t.name \in TableNames(db)
      /\ \A i \in 1..n : list[i].op = "create_table" => list[i].name \in TableNames(db)
    BY GrownNames
<1>2. list[n + 1].op = "create_table" => list[n + 1].name \notin TableNames(db)
    BY DEF Accepts, AcceptsCreateTable, NameTaken, TableExists
<1>3. \A i \in 1..(n + 1) : i \in 1..n \/ i = n + 1
    OBVIOUS
<1>4. QED
    BY <1>1, <1>2, <1>3 DEF CreatesOnce

\* A snapshot has one entry for every object of its catalog.
LEMMA CatalogTypesApart ==
    ASSUME NEW catalog,
           \A a, b \in ToSet(catalog) :
               ToAsciiLowercase(a.name) = ToAsciiLowercase(b.name) => a = b
    PROVE  TypesApart(Snapshot(catalog))
BY DEF TypesApart, Snapshot

LEMMA InitialTypesApart ==
    ASSUME NEW catalog, IsCatalog(catalog),
           CreatesOnce(InitialStatements(catalog), Len(InitialStatements(catalog)), {})
    PROVE  TypesApart(Snapshot(catalog))
<1> SUFFICES ASSUME NEW a \in ToSet(catalog), NEW b \in ToSet(catalog),
                    ToAsciiLowercase(a.name) = ToAsciiLowercase(b.name)
             PROVE  a = b
    BY CatalogTypesApart
<1>1. PICK list : list = InitialStatements(catalog)
    OBVIOUS
<1>2. /\ CreatesEachTable(list, 3, catalog) /\ DOMAIN list = 1..Len(list)
      /\ DOMAIN catalog = 1..Len(catalog) /\ Len(catalog) \in Nat
    BY <1>1, InitialPlan, ListLength DEF IsCatalog
<1>3. PICK i \in DOMAIN catalog, j \in DOMAIN catalog : a = catalog[i] /\ b = catalog[j]
    BY DEF ToSet
<1>4. /\ 3 + i \in 1..Len(list) /\ 3 + j \in 1..Len(list)
      /\ list[3 + i].op = "create_table" /\ list[3 + j].op = "create_table"
      /\ list[3 + i].name = list[3 + j].name
    BY <1>2, <1>3 DEF CreatesEachTable
<1>5. 3 + i = 3 + j
    BY <1>1, <1>4 DEF CreatesOnce
<1>6. QED
    BY <1>2, <1>3, <1>5

LEMMA MigratedTypesApart ==
    ASSUME NEW current, NEW desired, IsCatalog(current), IsCatalog(desired), NamesOrdered(desired),
           NEW list, list = MigrationStatements(current, desired),
           NEW tables0, AreTablesOf(tables0, Snapshot(current)), TypesApart(Snapshot(current)),
           CreatesOnce(list, Len(list), tables0)
    PROVE  TypesApart(Snapshot(desired))
<1>1. PICK new : new = NewObjects(current, desired)
    OBVIOUS
<1>2. /\ CreatesEachTable(list, 0, new) /\ DOMAIN list = 1..Len(list)
      /\ IsList(new) /\ DOMAIN new = 1..Len(new) /\ Len(new) \in Nat
      /\ ToSet(new) = {o \in ToSet(desired) : o.name \notin TypeNames(current)}
    BY <1>1, MigrationPlan, NewObjectsItems, ListLength
<1>3. ASSUME NEW i \in DOMAIN new
      PROVE  /\ i \in 1..Len(list) /\ list[i].op = "create_table"
             /\ list[i].name = ToAsciiLowercase(new[i].name)
  <2>1. 0 + i = i
    BY <1>2
  <2>2. QED
    BY <1>2, <2>1 DEF CreatesEachTable
<1>4. ASSUME NEW o \in ToSet(desired), o.name \notin TypeNames(current)
      PROVE  \E i \in DOMAIN new : o = new[i]
    BY <1>2, <1>4 DEF ToSet
<1>5. ASSUME NEW o \in ToSet(desired), o.name \in TypeNames(current)
      PROVE  \E before \in ToSet(current) : before.name = o.name
    BY <1>5 DEF TypeNames
<1>6. ASSUME NEW before \in ToSet(current)
      PROVE  \E t \in tables0 : t.name = ToAsciiLowercase(before.name)
  <2>1. PICK t : t = TableRecord(before.name, ToSet(before.fields))
    OBVIOUS
  <2>2. t \in tables0
    BY <2>1, TablesOfCatalog DEF AreTablesOf
  <2>3. QED
    BY <2>1, <2>2 DEF TableRecord
<1>7. ASSUME NEW a \in ToSet(desired), NEW b \in ToSet(desired),
             ToAsciiLowercase(a.name) = ToAsciiLowercase(b.name),
             a.name \notin TypeNames(current)
      PROVE  a = b
  <2>1. PICK i \in DOMAIN new : a = new[i]
    BY <1>4, <1>7
  <2>2. CASE b.name \notin TypeNames(current)
    <3>1. PICK j \in DOMAIN new : b = new[j]
      BY <1>4, <2>2
    <3>2. i = j
      BY <1>3, <1>7, <2>1, <3>1 DEF CreatesOnce
    <3>3. QED
      BY <2>1, <3>1, <3>2
  <2>3. CASE b.name \in TypeNames(current)
    <3>1. PICK before \in ToSet(current) : before.name = b.name
      BY <1>5, <2>3
    <3>2. PICK t \in tables0 : t.name = ToAsciiLowercase(before.name)
      BY <1>6
    <3>3. t.name = list[i].name
      BY <1>3, <1>7, <2>1, <3>1, <3>2
    <3>4. QED
      BY <1>3, <3>2, <3>3 DEF CreatesOnce
  <2>4. QED
    BY <2>2, <2>3
<1>8. ASSUME NEW a \in ToSet(desired), NEW b \in ToSet(desired),
             ToAsciiLowercase(a.name) = ToAsciiLowercase(b.name),
             a.name \in TypeNames(current), b.name \in TypeNames(current)
      PROVE  a = b
  <2>1. PICK x \in ToSet(current), y \in ToSet(current) : x.name = a.name /\ y.name = b.name
    BY <1>5, <1>8
  <2>2. PICK p, q : /\ p = [name |-> x.name, fields |-> ToSet(x.fields)]
                    /\ q = [name |-> y.name, fields |-> ToSet(y.fields)]
    OBVIOUS
  <2>3. p \in Snapshot(current) /\ q \in Snapshot(current)
    BY <2>2 DEF Snapshot
  <2>4. p = q
    BY <1>8, <2>1, <2>2, <2>3 DEF TypesApart
  <2>5. a.name = b.name
    BY <2>1, <2>2, <2>4
  <2>6. QED
    BY <2>5, NameDetermines DEF IsCatalog
<1>9. \A a, b \in ToSet(desired) : ToAsciiLowercase(a.name) = ToAsciiLowercase(b.name) => a = b
    BY <1>7, <1>8
<1>10. QED
    BY <1>9, CatalogTypesApart

-----------------------------------------------------------------------------
\* What an older snapshot has is still there in a newer one

GrowsTo(old, new) ==
    \A before \in old :
        \E after \in new :
            /\ after.name = before.name
            /\ before.fields \subseteq after.fields
            /\ \A field \in after.fields \ before.fields : ValidFieldAddition(field)

LEMMA GrowsOn ==
    ASSUME NEW a, NEW b, NEW c, GrowsTo(a, b), GrowsTo(b, c)
    PROVE  GrowsTo(a, c)
<1> SUFFICES ASSUME NEW x \in a
             PROVE  \E z \in c : /\ z.name = x.name /\ x.fields \subseteq z.fields
                                 /\ \A field \in z.fields \ x.fields : ValidFieldAddition(field)
    BY DEF GrowsTo
<1>1. PICK y \in b : /\ y.name = x.name /\ x.fields \subseteq y.fields
                     /\ \A field \in y.fields \ x.fields : ValidFieldAddition(field)
    BY DEF GrowsTo
<1>2. PICK z \in c : /\ z.name = y.name /\ y.fields \subseteq z.fields
                     /\ \A field \in z.fields \ y.fields : ValidFieldAddition(field)
    BY DEF GrowsTo
<1>3. QED
    BY <1>1, <1>2

LEMMA GrowsToItself ==
    ASSUME NEW snapshot PROVE GrowsTo(snapshot, snapshot)
BY DEF GrowsTo

LEMMA SupportedGrows ==
    ASSUME NEW current, NEW desired, IsCatalog(current), IsCatalog(desired),
           Supported(current, desired)
    PROVE  GrowsTo(Snapshot(current), Snapshot(desired))
<1> SUFFICES ASSUME NEW before \in Snapshot(current)
             PROVE  \E after \in Snapshot(desired) :
                        /\ after.name = before.name
                        /\ before.fields \subseteq after.fields
                        /\ \A field \in after.fields \ before.fields : ValidFieldAddition(field)
    BY DEF GrowsTo
<1>1. PICK object \in ToSet(current) :
          before = [name |-> object.name, fields |-> ToSet(object.fields)]
    BY DEF Snapshot
<1>2. PICK kept \in ToSet(desired) :
          /\ kept.name = object.name
          /\ ToSet(object.fields) \subseteq ToSet(kept.fields)
          /\ \A f \in ToSet(kept.fields) \ ToSet(object.fields) : ValidFieldAddition(f)
    BY SupportedKeepsFields
<1>3. PICK after : after = [name |-> kept.name, fields |-> ToSet(kept.fields)]
    OBVIOUS
<1>4. after \in Snapshot(desired)
    BY <1>3 DEF Snapshot
<1>5. QED
    BY <1>1, <1>2, <1>3, <1>4

\* Its tables keep their columns; the columns added accept a missing value.
LEMMA GrownTablesUsable ==
    ASSUME NEW old, NEW new, GrowsTo(old, new), NEW known, IsTableOf(known, old)
    PROVE  \E table : /\ IsTableOf(table, new) /\ table.name = known.name
                      /\ known.columns \subseteq table.columns
                      /\ \A column \in table.columns \ known.columns : column.nullable
<1>1. CASE IsMetadataTable(known)
  <2>1. IsTableOf(known, new)
    BY <1>1 DEF IsTableOf
  <2>2. QED
    BY <2>1
<1>2. CASE \E s \in old : known = TableRecord(s.name, s.fields)
  <2>1. PICK s \in old : known = TableRecord(s.name, s.fields)
    BY <1>2
  <2>2. PICK after \in new : /\ after.name = s.name /\ s.fields \subseteq after.fields
                             /\ \A f \in after.fields \ s.fields : ValidFieldAddition(f)
    BY DEF GrowsTo
  <2>3. PICK table : table = TableRecord(after.name, after.fields)
    OBVIOUS
  <2>4. IsTableOf(table, new)
    BY <2>3 DEF IsTableOf
  <2>5. table.name = known.name /\ known.columns \subseteq table.columns
    BY <2>1, <2>2, <2>3 DEF TableRecord, ObjectColumns
  <2>6. ASSUME NEW column \in table.columns \ known.columns PROVE column.nullable
    <3>1. column \in ObjectColumns(after.fields) /\ column \notin ObjectColumns(s.fields)
      BY <2>1, <2>3 DEF TableRecord
    <3>2. PICK f \in after.fields : HasColumn(f) /\ column = StoredColumn(f)
      BY <3>1 DEF ObjectColumns
    <3>3. f \notin s.fields
      BY <3>1, <3>2 DEF ObjectColumns
    <3>4. f.cardinality # "required"
      BY <2>2, <3>3 DEF ValidFieldAddition
    <3>5. QED
      BY <3>2, <3>4 DEF StoredColumn, Column
  <2>7. QED
    BY <2>4, <2>5, <2>6
<1>3. CASE \E s \in old : \E f \in s.fields : HasRelationTable(f) /\ known = RelationRecord(s.name, f)
  <2>1. PICK s \in old : \E f \in s.fields : HasRelationTable(f) /\ known = RelationRecord(s.name, f)
    BY <1>3
  <2>2. PICK after \in new : after.name = s.name /\ s.fields \subseteq after.fields
    BY DEF GrowsTo
  <2>3. IsTableOf(known, new)
    BY <2>1, <2>2 DEF IsTableOf
  <2>4. QED
    BY <2>3
<1>4. QED
    BY <1>1, <1>2, <1>3 DEF IsTableOf

-----------------------------------------------------------------------------
\* The tables of a file whose latest version has this snapshot, and of which an
\* older version had that one.
TablesStored(db) ==
    /\ AreTablesOf(db.tables, LatestVersion(db).snapshot)
    /\ AreIndexesOf(db.indexes, LatestVersion(db).snapshot)
    /\ NamesUnique(db.tables)
    /\ TypesApart(LatestVersion(db).snapshot)
    /\ \A row \in db.versions : GrowsTo(row.snapshot, LatestVersion(db).snapshot)

LEMMA StoredTablesAfterNothing ==
    ASSUME NEW db, db = EmptyDatabase \/ TablesStored(db)
    PROVE  TablesAfter(db, db.tables, db.indexes, {})
<1>1. CASE db = EmptyDatabase
  <2>1. db.tables = {}
    BY <1>1 DEF EmptyDatabase
  <2>2. (\A t \in db.tables : IsTable(t)) /\ NamesUnique(db.tables)
    BY <2>1 DEF NamesUnique
  <2>3. QED
    BY <2>2, NoStatements
<1>2. CASE TablesStored(db)
  <2>1. (\A t \in db.tables : IsTable(t)) /\ NamesUnique(db.tables)
    BY <1>2, RecordTables DEF TablesStored, AreTablesOf
  <2>2. QED
    BY <2>1, NoStatements
<1>3. QED
    BY <1>1, <1>2

\* A complete plan leaves the tables of the wanted catalog.
LEMMA InitialTablesStored ==
    ASSUME NEW catalog, IsCatalog(catalog), NEW db, NEW list, list = InitialStatements(catalog),
           TablesAfter(db, {}, {}, ToSet(list)), CreatesOnce(list, Len(list), {})
    PROVE  /\ AreTablesOf(db.tables, Snapshot(catalog)) /\ AreIndexesOf(db.indexes, Snapshot(catalog))
           /\ NamesUnique(db.tables) /\ TypesApart(Snapshot(catalog))
<1>1. PICK statements : statements = ToSet(list)
    OBVIOUS
<1>2. /\ \A t : t \in CreatedTables(statements) <=> IsTableOf(t, Snapshot(catalog))
      /\ \A x : x \in CreatedIndexes(statements) <=> IsIndexOf(x, Snapshot(catalog))
      /\ \A name : ColumnsFor(statements, name) = {}
    BY <1>1, InitialTables
<1>3. /\ db.tables = GrownTables({} \cup CreatedTables(statements), statements)
      /\ db.indexes = {} \cup CreatedIndexes(statements)
      /\ NamesUnique(db.tables)
    BY <1>1 DEF TablesAfter
<1>4. \A t \in CreatedTables(statements) : GrownTable(t, statements) = t
    BY <1>2, RecordTables DEF GrownTable, IsTable
<1>5. db.tables = CreatedTables(statements)
    BY <1>3, <1>4 DEF GrownTables
<1>6. TypesApart(Snapshot(catalog))
    BY InitialTypesApart
<1>7. QED
    BY <1>2, <1>3, <1>5, <1>6 DEF AreTablesOf, AreIndexesOf

LEMMA MigratedTablesStored ==
    ASSUME NEW current, NEW desired, IsCatalog(current), IsCatalog(desired), NamesOrdered(desired),
           Supported(current, desired),
           NEW list, list = MigrationStatements(current, desired),
           NEW tables0, NEW indexes0, AreTablesOf(tables0, Snapshot(current)),
           AreIndexesOf(indexes0, Snapshot(current)), NamesUnique(tables0),
           TypesApart(Snapshot(current)),
           NEW db, TablesAfter(db, tables0, indexes0, ToSet(list)),
           CreatesOnce(list, Len(list), tables0)
    PROVE  /\ AreTablesOf(db.tables, Snapshot(desired)) /\ AreIndexesOf(db.indexes, Snapshot(desired))
           /\ NamesUnique(db.tables) /\ TypesApart(Snapshot(desired))
<1>1. PICK statements : statements = ToSet(list)
    OBVIOUS
<1>2. /\ db.tables = GrownTables(tables0 \cup CreatedTables(statements), statements)
      /\ db.indexes = indexes0 \cup CreatedIndexes(statements)
      /\ NamesUnique(db.tables)
    BY <1>1 DEF TablesAfter
<1>3. \A s \in statements : s.op = "create_table" => \A t \in tables0 : t.name # s.name
  <2>1. DOMAIN list = 1..Len(list)
    BY MigrationPlan, ListLength
  <2>2. QED
    BY <1>1, <2>1 DEF ToSet, CreatesOnce
<1>4. AreTablesOf(GrownTables(tables0 \cup CreatedTables(statements), statements), Snapshot(desired))
    BY <1>1, <1>3, MigratedTables
<1>5. AreIndexesOf(indexes0 \cup CreatedIndexes(statements), Snapshot(desired))
    BY <1>1, MigratedIndexes
<1>6. TypesApart(Snapshot(desired))
    BY MigratedTypesApart
<1>7. QED
    BY <1>2, <1>4, <1>5, <1>6

=============================================================================
