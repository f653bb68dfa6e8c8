----------------------------- MODULE MCFollowUps -----------------------------
(***************************************************************************)
(* Follow-up fetches for TLC.                                              *)
(***************************************************************************)
EXTENDS FollowUps

CONSTANTS reader, writer, own, shared, below, wide

\* A select of two multi links: one of the row itself, with another multi link
\* below it, and one behind an optional single link that rows may share, with a
\* multi link of a nested single link below it, whose projection leaves no room.
MCRootFetches == <<own, shared>>
MCSubFetches == own :> <<below>> @@ shared :> <<wide>> @@ below :> <<>> @@ wide :> <<>>
MCFixedBinds == own :> 1 @@ shared :> 2 @@ below :> 1 @@ wide :> 3

MCIds == 1..5

Themselves == [id \in MCIds |-> id]
OnlyThird == [id \in MCIds |-> IF id = 3 THEN 3 ELSE NoId]

Content(rows, sharedOwner, ownLinks, sharedLinks, belowLinks) ==
    [rows |-> rows,
     owner |-> own :> Themselves @@ below :> Themselves @@ wide :> OnlyThird @@ shared :> sharedOwner,
     links |-> own :> ownLinks @@ shared :> sharedLinks @@ below :> belowLinks @@ wide :> {}]

\* Rows 1 and 3 share an owner, row 2 has none; in the second content 1 and 5
\* share an owner with two children and 3 has another; in the third one there is
\* a child that leads to the fetch without room.
MCDatabases == {
    Content({1, 2, 3}, <<4, NoId, 4, NoId, NoId>>,
            {<<1, 4>>, <<1, 5>>, <<3, 4>>}, {}, {<<4, 1>>, <<4, 2>>, <<5, 3>>}),
    Content({1, 3, 5}, <<4, NoId, 5, NoId, 4>>,
            {<<1, 4>>, <<2, 5>>, <<5, 4>>}, {<<4, 1>>, <<4, 2>>, <<5, 1>>}, {<<4, 3>>}),
    Content({2}, <<NoId, NoId, NoId, NoId, NoId>>,
            {<<2, 1>>, <<2, 3>>, <<2, 4>>}, {<<4, 3>>}, {<<1, 1>>, <<3, 1>>})}
=============================================================================
