--------------------------- MODULE MCSchemaApply ---------------------------
(***************************************************************************)
(* A small blog schema and what its authors may apply next, for TLC.       *)
(***************************************************************************)
EXTENDS SchemaApply

CONSTANTS p1, p2     \* two processes

MCNameOrder == <<"Post", "Tag", "User", "age", "author", "author_id", "label", "marks",
                 "name", "nick", "post", "posts", "readers", "title">>
MCLowercase == [n \in {"Post", "Tag", "User"} |->
                    CASE n = "Post" -> "post" [] n = "Tag" -> "tag" [] n = "User" -> "user"]

Name   == ScalarField("name", "str", "required", FALSE)
Title  == ScalarField("title", "str", "required", FALSE)
Author == LinkField("author", "User", "optional", FALSE)
Posts  == InverseField("posts", "Post", "author")
Marks  == LinkField("marks", "Post", "many", FALSE)
Nick   == ScalarField("nick", "str", "optional", FALSE)
Label  == ScalarField("label", "str", "required", TRUE)
AuthorId == ScalarField("author_id", "str", "optional", FALSE)

\* Declared in an order that is not the name order, so that ids given in
\* declaration order and ids given in name order differ.
Blog    == <<ObjectType("User", <<Name>>), ObjectType("Post", <<Title>>)>>
Authors == <<ObjectType("User", <<Name>>), ObjectType("Post", <<Title, Author>>)>>
Tagged  == <<ObjectType("Tag", <<Marks, Label>>), ObjectType("User", <<Posts, Name>>),
             ObjectType("Post", <<Author, Title>>)>>
\* Touches another object than Authors does: nothing but the version number
\* keeps the two from being applied on top of each other.
Nicked  == <<ObjectType("User", <<Name, Nick>>), ObjectType("Post", <<Title>>)>>
\* A scalar with the column name of the link: extends Blog, excludes Authors.
Named   == <<ObjectType("User", <<Name>>), ObjectType("Post", <<Title, AuthorId>>)>>
Collide == <<ObjectType("User", <<Name>>), ObjectType("Post", <<Title, AuthorId, Author>>)>>
\* Two types whose tables have one name.
Twins   == <<ObjectType("Post", <<Title>>), ObjectType("post", <<Title>>)>>

\* Changes no migration supports.
Retyped  == <<ObjectType("User", <<Name>>),
              ObjectType("Post", <<ScalarField("title", "int64", "required", FALSE)>>)>>
Stricter == <<ObjectType("User", <<Name, ScalarField("age", "int64", "required", FALSE)>>),
              ObjectType("Post", <<Title>>)>>

MCSchemas == {Blog, Authors, Nicked, Tagged, Stricter}
\* Two versions with as few statements as there can be.
MCTwoSteps == {<<>>, <<ObjectType("User", <<>>)>>}
MCOneStep == {Blog}

\* Every user type with these fields, every post type with those, in an order
\* that is not the name order; whatever try_new accepts of their combinations.
InDeclaredOrder(order, names) == SelectSeq(order, LAMBDA f : f \in names)
Readers == LinkField("readers", "User", "many", FALSE)
UserTypes ==
    {ObjectType("User", InDeclaredOrder(<<Posts, Name>>, fields)) : fields \in SUBSET {Posts, Name}}
PostTypes ==
    {ObjectType("Post", InDeclaredOrder(<<Readers, AuthorId, Author>>, fields)) :
        fields \in SUBSET {Readers, AuthorId, Author}}

Combined == {catalog \in
    {<<>>} \cup {<<user>> : user \in UserTypes} \cup {<<post>> : post \in PostTypes}
           \cup {<<user, post>> : user \in UserTypes, post \in PostTypes} :
    ValidCatalog(catalog)}

MCEvolution == Combined \cup {Twins, Blog, Named, Collide, Retyped, Stricter, Tagged}
=============================================================================
