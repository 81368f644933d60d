------------------------------- MODULE MCPaging -------------------------------
EXTENDS MCSession, SessionPaging

Unfiltered == [identity |-> Any, dest |-> Any, status |-> Any, node |-> Any]

MCQueries == {[Unfiltered EXCEPT !.status = "active"]}
=============================================================================
