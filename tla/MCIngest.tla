------------------------------ MODULE MCIngest ------------------------------
\* Two pages that mention the same contact: a name that changes concerns both,
\* and a page can be queued for itself and for its contact at once.
EXTENDS Ingest, TLC

CONSTANTS p1, p2, c1, k1, k2

MCPages == {p1, p2}
MCContacts == {c1}
MCContactOf == [p \in MCPages |-> c1]
MCConnectors == {k1, k2}

\* Both write the first page; the second page and the names come from one each.
MCSourcesOf == (k1 :> {p1, p2}) @@ (k2 :> {p1, c1})

\* One connector brings what is new, the other a history.
MCTimeOf == (k1 :> 2) @@ (k2 :> 1)

=============================================================================
