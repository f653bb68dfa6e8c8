------------------------------ MODULE MCScripts ------------------------------
(***************************************************************************)
(* Scripts for TLC.                                                        *)
(***************************************************************************)
EXTENDS ScriptExecution

CONSTANTS p1, p2

\* Nested, left open, ended before or twice, not compiled, empty.
Refused ==
    {<<"start", "start", "write", "commit">>, <<"start", "write">>, <<"commit">>,
     <<"start", "write", "commit", "rollback">>, <<"write", "invalid">>, <<>>}

\* For two processes: blocks that read, write twice, are rolled back, follow
\* autocommit statements or another block.
MCRaces ==
    {<<"write", "write">>, <<"select", "select">>,
     <<"start", "select", "write", "select", "commit">>,
     <<"start", "write", "write", "commit", "select">>,
     <<"write", "start", "write", "rollback", "select">>,
     <<"start", "select", "select", "commit">>,
     <<"start", "write", "commit", "start", "write", "write", "commit">>}
    \cup Refused
=============================================================================
