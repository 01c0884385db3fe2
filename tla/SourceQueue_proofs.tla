------------------------- MODULE SourceQueue_proofs -------------------------
(***************************************************************************)
(* What the operations of the source queue do to its state file, for any   *)
(* set of sources and any marks: the lemmas the proofs about its users     *)
(* rest on.                                                                *)
(***************************************************************************)
EXTENDS SourceQueue, TLAPS

Reservation == [at : Nat, old : BOOLEAN]

\* Functions from a part of S to T, and the state files for the sources S.
Partial(S, T) == UNION {[U -> T] : U \in SUBSET S}
QueueOn(S) == [pending : Partial(S, Nat), processing : Partial(S, Reservation)]

LEMMA InPartial ==
    ASSUME NEW S, NEW T, NEW f, f = [x \in DOMAIN f |-> f[x]],
           DOMAIN f \subseteq S, \A x \in DOMAIN f : f[x] \in T
    PROVE  f \in Partial(S, T)
<1>1. f \in [DOMAIN f -> T]
    OBVIOUS
<1>2. QED
    BY <1>1 DEF Partial

LEMMA OfPartial ==
    ASSUME NEW S, NEW T, NEW f \in Partial(S, T)
    PROVE  /\ f = [x \in DOMAIN f |-> f[x]]
           /\ DOMAIN f \subseteq S
           /\ \A x \in DOMAIN f : f[x] \in T
<1>1. PICK U \in SUBSET S : f \in [U -> T]
    BY DEF Partial
<1>2. QED
    BY <1>1

LEMMA EmptyPartial ==
    ASSUME NEW S, NEW T
    PROVE  << >> \in Partial(S, T)
<1>1. << >> \in [{} -> T]
    OBVIOUS
<1>2. QED
    BY <1>1 DEF Partial

LEMMA RestrictPartial ==
    ASSUME NEW S, NEW T, NEW f \in Partial(S, T), NEW U, U \subseteq DOMAIN f
    PROVE  /\ Restrict(f, U) \in Partial(S, T)
           /\ DOMAIN Restrict(f, U) = U
           /\ \A x \in U : Restrict(f, U)[x] = f[x]
<1> DEFINE r == Restrict(f, U)
<1>1. r = [x \in U |-> f[x]]
    BY DEF Restrict
<1> HIDE DEF r
<1>2. DOMAIN r = U /\ \A x \in U : r[x] = f[x]
    BY <1>1
<1>3. r = [x \in DOMAIN r |-> r[x]]
    BY <1>1
<1>4. \A x \in DOMAIN r : r[x] \in T
    BY <1>2, OfPartial
<1>5. DOMAIN r \subseteq S
    BY <1>2, OfPartial
<1>6. QED
    BY <1>2, <1>3, <1>4, <1>5, InPartial DEF r

LEMMA QueueFields ==
    ASSUME NEW S, NEW q \in QueueOn(S)
    PROVE  /\ q = [pending |-> q.pending, processing |-> q.processing]
           /\ q.pending \in Partial(S, Nat)
           /\ q.processing \in Partial(S, Reservation)
           /\ \A s \in DOMAIN q.pending : s \in S /\ q.pending[s] \in Nat
           /\ \A s \in DOMAIN q.processing :
                 s \in S /\ q.processing[s].at \in Nat /\ q.processing[s].old \in BOOLEAN
<1>1. /\ q = [pending |-> q.pending, processing |-> q.processing]
      /\ q.pending \in Partial(S, Nat)
      /\ q.processing \in Partial(S, Reservation)
    BY DEF QueueOn
<1>2. \A s \in DOMAIN q.pending : s \in S /\ q.pending[s] \in Nat
    BY <1>1, OfPartial
<1>3. \A s \in DOMAIN q.processing : s \in S /\ q.processing[s] \in Reservation
    BY <1>1, OfPartial
<1>4. QED
    BY <1>1, <1>2, <1>3 DEF Reservation

\* A merge keeps what waits, and of two times the later one.
LEMMA MergeProperties ==
    ASSUME NEW S, NEW f \in Partial(S, Nat), NEW g \in Partial(S, Nat)
    PROVE  /\ Merge(f, g) \in Partial(S, Nat)
           /\ DOMAIN Merge(f, g) = DOMAIN f \cup DOMAIN g
           /\ \A t \in DOMAIN f : Merge(f, g)[t] >= f[t]
           /\ \A t \in DOMAIN g : Merge(f, g)[t] >= g[t]
<1> DEFINE m == Merge(f, g)
           value(s) == IF s \notin DOMAIN g THEN f[s]
                       ELSE IF s \in DOMAIN f /\ f[s] >= g[s] THEN f[s] ELSE g[s]
<1>1. m = [s \in DOMAIN f \cup DOMAIN g |-> value(s)]
    BY DEF Merge
<1> HIDE DEF m
<1>2. /\ \A s \in DOMAIN f : f[s] \in Nat
      /\ \A s \in DOMAIN g : g[s] \in Nat
      /\ DOMAIN f \subseteq S /\ DOMAIN g \subseteq S
    BY OfPartial
<1>3. DOMAIN m = DOMAIN f \cup DOMAIN g /\ m = [s \in DOMAIN m |-> m[s]]
    BY <1>1
<1>4. ASSUME NEW s \in DOMAIN f \cup DOMAIN g
      PROVE  /\ m[s] \in Nat
             /\ s \in DOMAIN f => m[s] >= f[s]
             /\ s \in DOMAIN g => m[s] >= g[s]
             /\ (s \in DOMAIN f /\ m[s] = f[s]) \/ (s \in DOMAIN g /\ m[s] = g[s])
    <2>1. m[s] = value(s)
        BY <1>1
    <2>2. QED
        BY <1>2, <2>1
<1>5. m \in Partial(S, Nat)
    BY <1>2, <1>3, <1>4, InPartial
<1>6. QED
    BY <1>3, <1>4, <1>5 DEF m

\* It makes up no time.
LEMMA MergeChoice ==
    ASSUME NEW f, NEW g, NEW t \in DOMAIN Merge(f, g)
    PROVE  \/ t \in DOMAIN f /\ Merge(f, g)[t] = f[t]
           \/ t \in DOMAIN g /\ Merge(f, g)[t] = g[t]
BY DEF Merge

\* A mark puts its source into pending with its time or a later one and changes no other.
LEMMA MarkProperties ==
    ASSUME NEW S, NEW q \in QueueOn(S), NEW s \in S, NEW at \in Nat,
           NEW r, r = MarkPendingSource(q, s, at)
    PROVE  /\ r \in QueueOn(S)
           /\ r.processing = q.processing
           /\ DOMAIN r.pending = DOMAIN q.pending \cup {s}
           /\ r.pending[s] >= at
           /\ \A t \in DOMAIN q.pending : r.pending[t] >= q.pending[t]
           /\ \A t \in DOMAIN r.pending :
                 \/ t \in DOMAIN q.pending /\ r.pending[t] = q.pending[t]
                 \/ t = s /\ r.pending[t] = at
<1> DEFINE g == [t \in {s} |-> at]
<1>1. DOMAIN g = {s} /\ g[s] = at
    OBVIOUS
<1>2. g \in Partial(S, Nat)
    <2>1. g \in [{s} -> Nat]
        OBVIOUS
    <2>2. QED
        BY <2>1 DEF Partial
<1>3. r = [pending |-> Merge(q.pending, g), processing |-> q.processing]
    BY QueueFields DEF MarkPendingSource
<1>4. r.pending = Merge(q.pending, g) /\ r.processing = q.processing
    BY <1>3
<1> HIDE DEF g
<1>5. /\ r.pending \in Partial(S, Nat)
      /\ DOMAIN r.pending = DOMAIN q.pending \cup {s}
      /\ \A t \in DOMAIN q.pending : r.pending[t] >= q.pending[t]
      /\ r.pending[s] >= at
      /\ \A t \in DOMAIN r.pending :
            \/ t \in DOMAIN q.pending /\ r.pending[t] = q.pending[t]
            \/ t = s /\ r.pending[t] = at
    <2> DEFINE f == q.pending
    <2>1. f \in Partial(S, Nat) /\ r.pending = Merge(f, g)
        BY <1>4, QueueFields
    <2> HIDE DEF f
    <2>2. /\ Merge(f, g) \in Partial(S, Nat)
          /\ DOMAIN Merge(f, g) = DOMAIN f \cup DOMAIN g
          /\ \A t \in DOMAIN f : Merge(f, g)[t] >= f[t]
          /\ \A t \in DOMAIN g : Merge(f, g)[t] >= g[t]
        BY <1>2, <2>1, MergeProperties
    <2>3. \A t \in DOMAIN Merge(f, g) : \/ t \in DOMAIN f /\ Merge(f, g)[t] = f[t]
                                        \/ t \in DOMAIN g /\ Merge(f, g)[t] = g[t]
        BY MergeChoice
    <2>4. QED
        BY <1>1, <2>1, <2>2, <2>3 DEF f
<1>6. r \in QueueOn(S)
    BY <1>3, <1>4, <1>5, QueueFields DEF QueueOn
<1>7. QED
    BY <1>4, <1>5, <1>6

\* Recovery loses nothing: what was reserved too long waits again, not earlier than it
\* was reserved with, and the other reservations stand.
LEMMA RecoverProperties ==
    ASSUME NEW S, NEW q \in QueueOn(S), NEW r, r = RecoverStale(q)
    PROVE  /\ r \in QueueOn(S)
           /\ DOMAIN q.pending \subseteq DOMAIN r.pending
           /\ DOMAIN r.pending \subseteq Queued(q)
           /\ \A s \in DOMAIN q.pending : r.pending[s] >= q.pending[s]
           /\ \A s \in DOMAIN q.processing :
                 \/ s \in DOMAIN r.processing
                 \/ s \in DOMAIN r.pending /\ r.pending[s] >= q.processing[s].at
           /\ \A s \in DOMAIN r.pending :
                 \/ s \in DOMAIN q.pending /\ r.pending[s] = q.pending[s]
                 \/ s \in DOMAIN q.processing /\ r.pending[s] = q.processing[s].at
           /\ \A s \in DOMAIN r.processing :
                 s \in DOMAIN q.processing /\ r.processing[s] = q.processing[s]
<1> DEFINE stale == {s \in DOMAIN q.processing : q.processing[s].old}
           g == [s \in stale |-> q.processing[s].at]
<1>1. r = [pending    |-> Merge(q.pending, g),
           processing |-> Restrict(q.processing, DOMAIN q.processing \ stale)]
    BY DEF RecoverStale
<1>2. /\ r.pending = Merge(q.pending, g)
      /\ r.processing = Restrict(q.processing, DOMAIN q.processing \ stale)
    BY <1>1
<1>3. DOMAIN g = stale /\ g = [s \in DOMAIN g |-> g[s]]
      /\ \A s \in stale : g[s] = q.processing[s].at
    OBVIOUS
<1>4. stale \subseteq DOMAIN q.processing
    OBVIOUS
<1> HIDE DEF g, stale
<1>5. g \in Partial(S, Nat)
    <2>1. \A s \in DOMAIN g : s \in S /\ g[s] \in Nat
        BY <1>3, <1>4, QueueFields
    <2>2. QED
        BY <1>3, <2>1, InPartial
<1>6. /\ r.pending \in Partial(S, Nat)
      /\ DOMAIN r.pending = DOMAIN q.pending \cup stale
      /\ \A s \in DOMAIN q.pending : r.pending[s] >= q.pending[s]
      /\ \A s \in stale : r.pending[s] >= q.processing[s].at
      /\ \A s \in DOMAIN r.pending :
            \/ s \in DOMAIN q.pending /\ r.pending[s] = q.pending[s]
            \/ s \in stale /\ r.pending[s] = q.processing[s].at
    <2> DEFINE f == q.pending
    <2>1. f \in Partial(S, Nat) /\ r.pending = Merge(f, g)
        BY <1>2, QueueFields
    <2> HIDE DEF f
    <2>2. /\ Merge(f, g) \in Partial(S, Nat)
          /\ DOMAIN Merge(f, g) = DOMAIN f \cup DOMAIN g
          /\ \A t \in DOMAIN f : Merge(f, g)[t] >= f[t]
          /\ \A t \in DOMAIN g : Merge(f, g)[t] >= g[t]
        BY <1>5, <2>1, MergeProperties
    <2>3. \A t \in DOMAIN Merge(f, g) : \/ t \in DOMAIN f /\ Merge(f, g)[t] = f[t]
                                        \/ t \in DOMAIN g /\ Merge(f, g)[t] = g[t]
        BY MergeChoice
    <2>4. QED
        BY <1>3, <2>1, <2>2, <2>3 DEF f
<1>7. /\ r.processing \in Partial(S, Reservation)
      /\ DOMAIN r.processing = DOMAIN q.processing \ stale
      /\ \A s \in DOMAIN r.processing : r.processing[s] = q.processing[s]
    BY <1>2, QueueFields, RestrictPartial
<1>8. r \in QueueOn(S)
    BY <1>1, <1>2, <1>6, <1>7 DEF QueueOn
<1>9. QED
    BY <1>4, <1>6, <1>7, <1>8 DEF Queued

\* A reservation takes what was asked for out of pending and files it with its time.
LEMMA ReserveProperties ==
    ASSUME NEW S, NEW q \in QueueOn(S), NEW B, B \subseteq DOMAIN RecoverStale(q).pending,
           NEW w, w = RecoverStale(q), NEW r, r = Reserve(q, B)
    PROVE  /\ r \in QueueOn(S)
           /\ Queued(r) = Queued(q)
           /\ DOMAIN r.pending = DOMAIN w.pending \ B
           /\ \A s \in DOMAIN r.pending : r.pending[s] = w.pending[s]
           /\ DOMAIN r.processing = DOMAIN w.processing \cup B
           /\ \A s \in B : r.processing[s].at = w.pending[s]
           /\ \A s \in DOMAIN w.processing \ B : r.processing[s] = w.processing[s]
           /\ Reserved(q, B) \in Partial(S, Nat)
           /\ DOMAIN Reserved(q, B) = B
           /\ \A s \in B : Reserved(q, B)[s] = w.pending[s]
<1> DEFINE taken(s) == IF s \in B THEN [at |-> w.pending[s], old |-> FALSE]
                       ELSE w.processing[s]
<1>1. r = [pending    |-> Restrict(w.pending, DOMAIN w.pending \ B),
           processing |-> [s \in DOMAIN w.processing \cup B |-> taken(s)]]
    BY DEF Reserve
<1>2. /\ r.pending = Restrict(w.pending, DOMAIN w.pending \ B)
      /\ r.processing = [s \in DOMAIN w.processing \cup B |-> taken(s)]
    BY <1>1
<1>3. w \in QueueOn(S) /\ B \subseteq DOMAIN w.pending
    BY RecoverProperties
<1>4. /\ w.pending \in Partial(S, Nat)
      /\ \A s \in DOMAIN w.pending : s \in S /\ w.pending[s] \in Nat
      /\ \A s \in DOMAIN w.processing : s \in S /\ w.processing[s] \in Reservation
    BY <1>3, QueueFields, OfPartial
<1>5. /\ r.pending \in Partial(S, Nat)
      /\ DOMAIN r.pending = DOMAIN w.pending \ B
      /\ \A s \in DOMAIN r.pending : r.pending[s] = w.pending[s]
    BY <1>2, <1>4, RestrictPartial
<1>6. /\ DOMAIN r.processing = DOMAIN w.processing \cup B
      /\ r.processing = [s \in DOMAIN r.processing |-> r.processing[s]]
      /\ \A s \in DOMAIN r.processing : r.processing[s] = taken(s)
    BY <1>2
<1>7. /\ \A s \in B : r.processing[s] = [at |-> w.pending[s], old |-> FALSE]
      /\ \A s \in DOMAIN w.processing \ B : r.processing[s] = w.processing[s]
    BY <1>6
<1>8. \A s \in DOMAIN r.processing : s \in S /\ r.processing[s] \in Reservation
    <2>1. \A s \in B : s \in S /\ r.processing[s] \in Reservation
        <3> SUFFICES ASSUME NEW s \in B
                     PROVE  s \in S /\ r.processing[s] \in Reservation
            OBVIOUS
        <3>1. s \in S /\ w.pending[s] \in Nat
            BY <1>3, <1>4
        <3>2. [at |-> w.pending[s], old |-> FALSE] \in Reservation
            BY <3>1 DEF Reservation
        <3>3. QED
            BY <1>7, <3>1, <3>2
    <2>2. QED
        BY <1>4, <1>6, <1>7, <2>1
<1>9. r.processing \in Partial(S, Reservation)
    BY <1>6, <1>8, InPartial
<1>10. r \in QueueOn(S)
    BY <1>1, <1>2, <1>5, <1>9 DEF QueueOn
<1>11. Queued(r) = DOMAIN w.pending \cup DOMAIN w.processing
    BY <1>3, <1>5, <1>6 DEF Queued
<1>12. DOMAIN w.pending \cup DOMAIN w.processing = Queued(q)
    BY RecoverProperties DEF Queued
<1>13. /\ Reserved(q, B) \in Partial(S, Nat)
       /\ DOMAIN Reserved(q, B) = B
       /\ \A s \in B : Reserved(q, B)[s] = w.pending[s]
    BY <1>3, <1>4, RestrictPartial DEF Reserved
<1>14. \A s \in B : r.processing[s].at = w.pending[s]
    <2> SUFFICES ASSUME NEW s \in B
                 PROVE  r.processing[s].at = w.pending[s]
        OBVIOUS
    <2>1. r.processing[s] = [at |-> w.pending[s], old |-> FALSE]
        BY <1>7
    <2>2. QED
        BY <2>1
<1> HIDE DEF taken
<1>15. QED
    BY <1>5, <1>6, <1>7, <1>10, <1>11, <1>12, <1>13, <1>14

\* Completing ends the reservations that still have the time they were made with.
LEMMA CompleteProperties ==
    ASSUME NEW S, NEW q \in QueueOn(S), NEW done, NEW r, r = Complete(q, done)
    PROVE  /\ r \in QueueOn(S)
           /\ r.pending = q.pending
           /\ \A s \in DOMAIN q.processing :
                 \/ s \in DOMAIN r.processing
                 \/ s \in DOMAIN done /\ done[s] = q.processing[s].at
           /\ \A s \in DOMAIN r.processing :
                 s \in DOMAIN q.processing /\ r.processing[s] = q.processing[s]
<1> DEFINE stands == {s \in DOMAIN q.processing :
                         ~(s \in DOMAIN done /\ done[s] = q.processing[s].at)}
<1>1. r = [pending |-> q.pending, processing |-> Restrict(q.processing, stands)]
    BY QueueFields DEF Complete
<1>2. r.pending = q.pending /\ r.processing = Restrict(q.processing, stands)
    BY <1>1
<1>3. /\ stands \subseteq DOMAIN q.processing
      /\ \A s \in DOMAIN q.processing :
            s \in stands \/ (s \in DOMAIN done /\ done[s] = q.processing[s].at)
    OBVIOUS
<1> HIDE DEF stands
<1>4. /\ r.processing \in Partial(S, Reservation)
      /\ DOMAIN r.processing = stands
      /\ \A s \in stands : r.processing[s] = q.processing[s]
    BY <1>2, <1>3, QueueFields, RestrictPartial
<1>5. r \in QueueOn(S)
    BY <1>1, <1>2, <1>4, QueueFields DEF QueueOn
<1>6. QED
    BY <1>2, <1>3, <1>4, <1>5

\* What ending reservations does: those of done that have the time they were made with
\* are gone, those of failed wait again, and what waited or is reserved by others stays.
Ends(q, r, done, failed) ==
    /\ DOMAIN q.pending \cup DOMAIN failed \subseteq DOMAIN r.pending
    /\ \A s \in DOMAIN q.pending : r.pending[s] >= q.pending[s]
    /\ \A s \in DOMAIN q.processing :
          \/ s \in DOMAIN r.processing
          \/ s \in DOMAIN done /\ done[s] = q.processing[s].at
          \/ s \in DOMAIN r.pending /\ r.pending[s] >= q.processing[s].at
    /\ \A s \in DOMAIN r.pending :
          \/ s \in DOMAIN q.pending /\ r.pending[s] = q.pending[s]
          \/ s \in DOMAIN q.processing /\ r.pending[s] = q.processing[s].at
          \/ s \in DOMAIN failed /\ r.pending[s] = failed[s]
    /\ \A s \in DOMAIN r.processing :
          s \in DOMAIN q.processing \ DOMAIN failed /\ r.processing[s] = q.processing[s]

LEMMA ReleaseProperties ==
    ASSUME NEW S, NEW q \in QueueOn(S), NEW failed \in Partial(S, Nat),
           NEW r, r = Release(q, failed)
    PROVE  r \in QueueOn(S) /\ Ends(q, r, << >>, failed)
<1> DEFINE f == q.pending
           g == [s \in DOMAIN failed |->
                    IF s \in DOMAIN q.processing THEN q.processing[s].at ELSE failed[s]]
<1>1. r = [pending    |-> Merge(f, g),
           processing |-> Restrict(q.processing, DOMAIN q.processing \ DOMAIN failed)]
    BY DEF Release
<1>2. /\ r.pending = Merge(f, g)
      /\ r.processing = Restrict(q.processing, DOMAIN q.processing \ DOMAIN failed)
    BY <1>1
<1>3. DOMAIN g = DOMAIN failed /\ g = [s \in DOMAIN g |-> g[s]]
    OBVIOUS
<1>4. /\ \A s \in DOMAIN g :
            \/ s \in DOMAIN q.processing /\ g[s] = q.processing[s].at
            \/ s \in DOMAIN failed /\ g[s] = failed[s]
      /\ \A s \in DOMAIN failed \cap DOMAIN q.processing : g[s] = q.processing[s].at
    OBVIOUS
<1> HIDE DEF g
<1>5. g \in Partial(S, Nat)
    <2>1. \A s \in DOMAIN g : s \in S /\ g[s] \in Nat
        BY <1>3, <1>4, QueueFields, OfPartial
    <2>2. QED
        BY <1>3, <2>1, InPartial
<1>6. f \in Partial(S, Nat)
    BY QueueFields
<1> HIDE DEF f
<1>7. /\ Merge(f, g) \in Partial(S, Nat)
      /\ DOMAIN Merge(f, g) = DOMAIN f \cup DOMAIN g
      /\ \A t \in DOMAIN f : Merge(f, g)[t] >= f[t]
      /\ \A t \in DOMAIN g : Merge(f, g)[t] >= g[t]
    BY <1>5, <1>6, MergeProperties
<1>8. \A t \in DOMAIN Merge(f, g) : \/ t \in DOMAIN f /\ Merge(f, g)[t] = f[t]
                                    \/ t \in DOMAIN g /\ Merge(f, g)[t] = g[t]
    BY MergeChoice
<1>9. /\ r.processing \in Partial(S, Reservation)
      /\ DOMAIN r.processing = DOMAIN q.processing \ DOMAIN failed
      /\ \A s \in DOMAIN r.processing : r.processing[s] = q.processing[s]
    BY <1>2, QueueFields, RestrictPartial
<1>10. r \in QueueOn(S)
    BY <1>1, <1>2, <1>7, <1>9 DEF QueueOn
<1>11. /\ DOMAIN f \cup DOMAIN failed \subseteq DOMAIN r.pending
       /\ \A s \in DOMAIN f : r.pending[s] >= f[s]
    BY <1>2, <1>3, <1>7
<1>12. \A s \in DOMAIN q.processing :
          \/ s \in DOMAIN r.processing
          \/ s \in DOMAIN r.pending /\ r.pending[s] >= q.processing[s].at
    BY <1>2, <1>3, <1>4, <1>7, <1>9
<1>13. \A s \in DOMAIN r.pending :
          \/ s \in DOMAIN f /\ r.pending[s] = f[s]
          \/ s \in DOMAIN q.processing /\ r.pending[s] = q.processing[s].at
          \/ s \in DOMAIN failed /\ r.pending[s] = failed[s]
    BY <1>2, <1>4, <1>8
<1>14. Ends(q, r, << >>, failed)
    BY <1>9, <1>11, <1>12, <1>13 DEF Ends, f
<1>15. QED
    BY <1>10, <1>14

LEMMA SettleProperties ==
    ASSUME NEW S, NEW q \in QueueOn(S), NEW done, NEW failed \in Partial(S, Nat),
           NEW r, r = Settle(q, done, failed)
    PROVE  r \in QueueOn(S) /\ Ends(q, r, done, failed)
<1> DEFINE c == Complete(q, done)
<1>1. /\ c \in QueueOn(S)
      /\ c.pending = q.pending
      /\ \A s \in DOMAIN q.processing :
            \/ s \in DOMAIN c.processing
            \/ s \in DOMAIN done /\ done[s] = q.processing[s].at
      /\ \A s \in DOMAIN c.processing :
            s \in DOMAIN q.processing /\ c.processing[s] = q.processing[s]
    BY CompleteProperties
<1>2. r = Release(c, failed)
    BY DEF Settle
<1> HIDE DEF c
<1>3. r \in QueueOn(S) /\ Ends(c, r, << >>, failed)
    BY <1>1, <1>2, ReleaseProperties
<1>4. DOMAIN << >> = {}
    OBVIOUS
<1>5. QED
    BY <1>1, <1>3, <1>4 DEF Ends

\* Time passes: nothing changes but the age of the reservations.
LEMMA AgeProperties ==
    ASSUME NEW S, NEW q \in QueueOn(S), NEW r, r = Age(q)
    PROVE  /\ r \in QueueOn(S)
           /\ r.pending = q.pending
           /\ DOMAIN r.processing = DOMAIN q.processing
           /\ \A s \in DOMAIN q.processing : r.processing[s].at = q.processing[s].at
<1> DEFINE g == [s \in DOMAIN q.processing |-> [q.processing[s] EXCEPT !.old = TRUE]]
<1>1. r = [pending |-> q.pending, processing |-> g]
    <2>1. r = [q EXCEPT !.processing = g]
        BY DEF Age
    <2> HIDE DEF g
    <2>2. QED
        BY <2>1, QueueFields
<1>2. r.pending = q.pending /\ r.processing = g
    BY <1>1
<1>3. /\ DOMAIN g = DOMAIN q.processing /\ g = [s \in DOMAIN g |-> g[s]]
      /\ \A s \in DOMAIN g : g[s] = [q.processing[s] EXCEPT !.old = TRUE]
    OBVIOUS
<1> HIDE DEF g
<1>4. ASSUME NEW s \in DOMAIN q.processing
      PROVE  s \in S /\ g[s] \in Reservation /\ g[s].at = q.processing[s].at
    <2>1. s \in S /\ q.processing[s] \in Reservation
        BY QueueFields, OfPartial
    <2>2. g[s] = [q.processing[s] EXCEPT !.old = TRUE]
        BY <1>3
    <2>3. QED
        BY <2>1, <2>2 DEF Reservation
<1>5. g \in Partial(S, Reservation)
    BY <1>3, <1>4, InPartial
<1>6. r \in QueueOn(S)
    BY <1>1, <1>5, QueueFields DEF QueueOn
<1>7. QED
    BY <1>2, <1>3, <1>4, <1>6

=============================================================================
