---------------------------- MODULE SourceQueue ----------------------------
(***************************************************************************)
(* The durable queue of internal/sourcequeue as operators on its state     *)
(* file: a record of                                                       *)
(*                                                                         *)
(*   pending     source -> the PendingAt it waits with                     *)
(*   processing  source -> the reservation: the PendingAt it was taken     *)
(*               with, and whether the reservation has become older than   *)
(*               StaleAfter (30 minutes)                                   *)
(*                                                                         *)
(* Every operation of the code runs under a mutex and a lock file, loads   *)
(* the file, changes it and renames a new one over it: one atomic change.  *)
(* The modules of its users apply these operators to their copy of the     *)
(* queue.  What else a source carries (provider, kind, key, replay scopes) *)
(* is a function of its path here, so of shouldReplace only the order of   *)
(* PendingAt remains.                                                      *)
(***************************************************************************)
EXTENDS Naturals, FiniteSets, Functions

\* The file that does not exist yet.
EmptyQueue == [pending |-> << >>, processing |-> << >>]

\* What is in the queue, waiting or handed out.
Queued(q) == DOMAIN q.pending \cup DOMAIN q.processing

\* Puts sources into pending: one that waits already is replaced only by a
\* younger PendingAt.
Merge(pending, more) ==
    [s \in DOMAIN pending \cup DOMAIN more |->
        IF s \notin DOMAIN more THEN pending[s]
        ELSE IF s \in DOMAIN pending /\ pending[s] >= more[s] THEN pending[s]
        ELSE more[s]]

\* A mark.  A reservation of the same source is left alone: what its holder
\* read may be older than what this mark announces.
MarkPendingSource(q, s, at) == [q EXCEPT !.pending = Merge(@, [t \in {s} |-> at])]

\* A reservation is never taken back.
KeepStale(q) == q

\* Reservations nobody settled in time go back to pending.
RecoverStale(q) ==
    LET stale == {s \in DOMAIN q.processing : q.processing[s].old}
    IN  [pending    |-> Merge(q.pending, [s \in stale |-> q.processing[s].at]),
         processing |-> Restrict(q.processing, DOMAIN q.processing \ stale)]

\* The batches Reserve may hand out: the oldest sources, as many as the limit
\* allows.  The code breaks ties by path.
Batches(q, limit) ==
    LET p == RecoverStale(q).pending
        n == IF Cardinality(DOMAIN p) < limit THEN Cardinality(DOMAIN p) ELSE limit
    IN  {B \in SUBSET DOMAIN p :
            /\ Cardinality(B) = n
            /\ \A s \in B, t \in DOMAIN p \ B : p[s] <= p[t]}

\* What the caller of Reserve gets, and what it leaves in the file.
Reserved(q, B) == Restrict(RecoverStale(q).pending, B)

Reserve(q, B) ==
    LET r == RecoverStale(q)
    IN  [pending    |-> Restrict(r.pending, DOMAIN r.pending \ B),
         processing |-> [s \in DOMAIN r.processing \cup B |->
                            IF s \in B THEN [at |-> r.pending[s], old |-> FALSE]
                            ELSE r.processing[s]]]

\* Completing a source also forgets that it was marked again meanwhile.
CompleteAll(q, done) ==
    [pending    |-> Restrict(q.pending, DOMAIN q.pending \ DOMAIN done),
     processing |-> Restrict(q.processing, DOMAIN q.processing \ DOMAIN done)]

\* Ends the reservations of sources, given with the PendingAt they were reserved
\* with.  One taken since with another PendingAt belongs to somebody else.
Complete(q, done) ==
    [q EXCEPT !.processing =
        Restrict(@, {s \in DOMAIN @ : ~(s \in DOMAIN done /\ done[s] = @[s].at)})]

\* Gives sources back: with the PendingAt of the reservation that stands, or,
\* when there is none, with the one the caller reserved.
Release(q, failed) ==
    LET back == [s \in DOMAIN failed |->
                    IF s \in DOMAIN q.processing THEN q.processing[s].at ELSE failed[s]]
    IN  [pending    |-> Merge(q.pending, back),
         processing |-> Restrict(q.processing, DOMAIN q.processing \ DOMAIN failed)]

Settle(q, done, failed) == Release(Complete(q, done), failed)

\* Thirty minutes pass: every reservation in the file becomes stale.
Age(q) == [q EXCEPT !.processing = [s \in DOMAIN @ |-> [@[s] EXCEPT !.old = TRUE]]]

=============================================================================
