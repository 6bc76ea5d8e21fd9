----------------------------- MODULE MCSession ------------------------------
EXTENDS Session

CONSTANTS a, b

MCNodes == {a, b}

\* Version 1, version 2 that still accepts 1, and version 2 that does not.
MCVersions ==
    {[v |-> 1, req |-> {1}], [v |-> 2, req |-> {1, 2}], [v |-> 2, req |-> {2}]}

=============================================================================
