------------------------------- MODULE MCOAuth -------------------------------
\* Instances of OAuth for TLC: two authorizations of one server, two requests with
\* a code, a deletion of its tokens.
EXTENDS OAuth

CONSTANTS s1, f1, f2, c1, c2

OwnerOfFlows == [f \in Flows |-> s1]
=============================================================================
