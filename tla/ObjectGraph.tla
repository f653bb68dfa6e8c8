----------------------------- MODULE ObjectGraph -----------------------------
(***************************************************************************)
(* Graphs of objects, with no tables, columns, joins or aliases in them.   *)
(*                                                                         *)
(* A graph gives every id of an object its type and the values of its      *)
(* stored fields: a scalar or None, the id a single link leads to or None, *)
(* the set of ids a multi link leads to.                                   *)
(***************************************************************************)
EXTENDS SchemaCatalog

CONSTANT Catalog    \* the catalog of the graph

FieldNamed(type, name) == CHOOSE f \in ToSet(FindType(Catalog, type).fields) : f.name = name

StoredFields(type) == {f \in ToSet(FindType(Catalog, type).fields) : f.inverse = None}

IsManyLink(field) == field.kind = "link" /\ field.cardinality = "many"

Objects(graph, type) == {x \in DOMAIN graph : graph[x].type = type}

StoredTargets(graph, x, field) ==
    IF field.cardinality = "many" THEN graph[x].fields[field.name]
    ELSE {graph[x].fields[field.name]} \ {None}

-----------------------------------------------------------------------------
\* Required fields are present, unique values differ, links lead to objects of
\* their type.
LegalObject(g, x, field) ==
    LET value == g[x].fields[field.name]
    IN  /\ field.cardinality = "required" => value # None
        /\ field.unique /\ value # None =>
              \A y \in Objects(g, g[x].type) : g[y].fields[field.name] = value => y = x
        /\ field.kind = "link" => StoredTargets(g, x, field) \subseteq Objects(g, field.type)

Legal(g) == \A x \in DOMAIN g : \A field \in StoredFields(g[x].type) : LegalObject(g, x, field)

=============================================================================
