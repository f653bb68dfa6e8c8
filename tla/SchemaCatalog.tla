--------------------------- MODULE SchemaCatalog ---------------------------
(***************************************************************************)
(* The logical schema of schema-model, its canonical snapshot, and the     *)
(* reconstruction of it from the catalog rows of a database.               *)
(*                                                                         *)
(* A catalog is a sequence of object types in declaration order, an object *)
(* type a name and a sequence of declared fields.  Positions are           *)
(* identities: object i has id i, and since the implicit `id` is field 1   *)
(* of every object, declared field j has id j + 1.                         *)
(***************************************************************************)
EXTENDS Lists

CONSTANT None    \* an absent optional value

ScalarTypes == {"str", "int64", "float64", "bool", "uuid", "datetime"}

ScalarField(name, type, cardinality, unique) ==
    [kind |-> "scalar", name |-> name, type |-> type,
     cardinality |-> cardinality, unique |-> unique, inverse |-> None]

\* A stored link; its type is the name of the object type it targets.
LinkField(name, target, cardinality, unique) ==
    [kind |-> "link", name |-> name, type |-> target,
     cardinality |-> cardinality, unique |-> unique, inverse |-> None]

\* A computed link: the objects whose stored link `source` names this one.
InverseField(name, target, source) ==
    [kind |-> "link", name |-> name, type |-> target,
     cardinality |-> "many", unique |-> FALSE, inverse |-> source]

ObjectType(name, fields) == [name |-> name, fields |-> fields]

\* What the declarations of a schema can be: a scalar has one value or none, a
\* link leads to one object, to one or none, or to any number.
DeclaredField ==
    [kind : {"scalar"}, name : STRING, type : ScalarTypes,
     cardinality : {"required", "optional"}, unique : BOOLEAN, inverse : {None}]
    \cup [kind : {"link"}, name : STRING, type : STRING,
          cardinality : {"required", "optional", "many"}, unique : BOOLEAN,
          inverse : STRING \cup {None}]
DeclaredObject == [name : STRING, fields : Seq(DeclaredField)]
Catalogs == Seq(DeclaredObject)

-----------------------------------------------------------------------------
\* Lookups

TypeNames(catalog) == {object.name : object \in ToSet(catalog)}
FieldNames(object) == {field.name : field \in ToSet(object.fields)}

\* The id of a type: the position of the first object with that name.
TypeId(catalog, name) == SelectInSeq(catalog, LAMBDA object : object.name = name)

FindType(catalog, name) ==
    CHOOSE object \in ToSet(catalog) : object.name = name

-----------------------------------------------------------------------------
\* SchemaCatalog::try_new: what a catalog may contain.

DistinctNames(seq) ==
    \A i, j \in DOMAIN seq : seq[i].name = seq[j].name => i = j

\* An inverse link reads an ordinary link of the target type that points back.
ValidInverse(catalog, object, field) ==
    field.inverse # None =>
        /\ field.cardinality = "many"
        /\ \E target \in ToSet(catalog) :
              /\ target.name = field.type
              /\ \E source \in ToSet(target.fields) :
                    /\ source.name = field.inverse
                    /\ source.kind = "link"
                    /\ source.inverse = None
                    /\ source.type = object.name

ValidCatalog(catalog) ==
    /\ DistinctNames(catalog)
    /\ TypeNames(catalog) \cap ScalarTypes = {}
    /\ \A object \in ToSet(catalog) :
          /\ DistinctNames(object.fields)
          /\ "id" \notin FieldNames(object)
          /\ \A field \in ToSet(object.fields) :
                field.kind = "link" =>
                    /\ field.type \in TypeNames(catalog)
                    /\ ~(field.cardinality = "many" /\ field.unique)
                    /\ ValidInverse(catalog, object, field)

-----------------------------------------------------------------------------
\* The canonical snapshot lists objects and fields by name, so two catalogs
\* have the same snapshot exactly when they declare the same things in any
\* order.  The implicit id fields are the same in every snapshot.
Snapshot(catalog) ==
    {[name |-> object.name, fields |-> ToSet(object.fields)] :
        object \in ToSet(catalog)}

-----------------------------------------------------------------------------
\* Catalog rows, as the engine writes and reads them.

ObjectRow(id, name) == [object_id |-> id, name |-> name]

\* The columns of a field row in the order of the engine's SELECT.
FieldRow(object, id, name, kind, cardinality, scalar, target, implicit, unique, inverse) ==
    [object_id |-> object, field_id |-> id, name |-> name, kind |-> kind,
     cardinality |-> cardinality, scalar_type |-> scalar, target_object_id |-> target,
     is_implicit |-> implicit, is_unique |-> unique, inverse |-> inverse]

ImplicitIdRow(object) ==
    FieldRow(object, 1, "id", "scalar", "required", "uuid", None, TRUE, FALSE, None)

\* The row of a declared field; target gives the object id of a link's target.
DeclaredFieldRow(object, id, field, target) ==
    FieldRow(object, id, field.name, field.kind, field.cardinality,
             IF field.kind = "scalar" THEN field.type ELSE None,
             IF field.kind = "link" THEN target ELSE None,
             FALSE, field.unique, field.inverse)

\* Mutant of OwnerKnown: orphan field rows are not looked for.
AnyOwner(objects, row) == TRUE

\* load_schema_catalog rejects rows no catalog could have produced.
OwnerKnown(objects, row) == \E o \in objects : o.object_id = row.object_id

InverseMetadataOk(row) ==
    row.inverse # None => row.kind = "link" /\ ~row.is_implicit /\ ~row.is_unique

KindMetadataOk(row) ==
    /\ row.kind = "scalar" => row.target_object_id = None
    /\ row.kind = "link" => row.scalar_type = None

HasOneImplicitId(object, fields) ==
    LET implicit == {row \in fields : row.object_id = object.object_id /\ row.is_implicit}
    IN  \E row \in implicit :
            /\ implicit = {row}
            /\ [row EXCEPT !.field_id = 1] = ImplicitIdRow(object.object_id)

\* field_from_catalog_row: the columns a field of this kind must have.
FieldRowReadable(row, objects) ==
    \/ /\ row.kind = "scalar"
       /\ row.scalar_type \in ScalarTypes
       /\ row.cardinality \in {"required", "optional"}
    \/ /\ row.kind = "link"
       /\ \E o \in objects : o.object_id = row.target_object_id

FieldFromRow(row, objects) ==
    [kind |-> row.kind, name |-> row.name,
     type |-> IF row.kind = "scalar" THEN row.scalar_type
              ELSE (CHOOSE o \in objects : o.object_id = row.target_object_id).name,
     cardinality |-> row.cardinality, unique |-> row.is_unique,
     inverse |-> row.inverse]

DeclaredRows(object, fields) ==
    LET declared == {row \in fields : row.object_id = object.object_id /\ ~row.is_implicit}
    IN  SortedByKey(declared, [row \in declared |-> row.field_id])

\* Objects in id order, each with its declared fields in id order.
CatalogFromRows(objects, fields) ==
    LET rows == SortedByKey(objects, [row \in objects |-> row.object_id])
    IN  [i \in DOMAIN rows |->
            LET declared == DeclaredRows(rows[i], fields)
            IN  ObjectType(rows[i].name,
                    [j \in DOMAIN declared |-> FieldFromRow(declared[j], objects)])]

Loadable(objects, fields) ==
    /\ \A row \in fields : OwnerKnown(objects, row)
    /\ \A row \in fields : InverseMetadataOk(row) /\ KindMetadataOk(row)
    /\ \A object \in objects : HasOneImplicitId(object, fields)
    /\ \A row \in fields : ~row.is_implicit => FieldRowReadable(row, objects)
    /\ ValidCatalog(CatalogFromRows(objects, fields))

=============================================================================
