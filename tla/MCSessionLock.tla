--------------------------- MODULE MCSessionLock ---------------------------
\* Three session ids and three callers that each ask, again and again, for a
\* pair of them or for one: pairs that overlap all round are what could close
\* a circle of three.
EXTENDS SessionLock

CONSTANTS c1, c2, c3, m1, m2, m3, m4

MCCallers == {c1, c2, c3}

\* One mutex more than ids: the lookup has room to go wrong.
MCMutexes == {m1, m2, m3, m4}

MCRequests == {{1, 2}, {2, 3}, {1, 3}}

=============================================================================
