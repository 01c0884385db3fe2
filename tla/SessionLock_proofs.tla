------------------------- MODULE SessionLock_proofs -------------------------
(***************************************************************************)
(* Theorems about SessionLock, for any number of sessions and callers and  *)
(* any sets of ids asked for.                                              *)
(***************************************************************************)
EXTENDS SessionLock, TLAPS, WellFoundedInduction

LEMMA GreatestElement ==
    ASSUME NEW n \in Nat, NEW T \in SUBSET (1..n), T # {}
    PROVE  \E x \in T : \A y \in T : y <= x
<1> DEFINE D == {k \in 0..n : n - k \in T}
<1>1. D \subseteq Nat
    OBVIOUS
<1>2. D # {}
    <2>1. PICK x \in T : TRUE
        OBVIOUS
    <2>2. x \in 1..n /\ n - x \in 0..n /\ n - (n - x) = x
        OBVIOUS
    <2>3. n - x \in D
        BY <2>1, <2>2
    <2>4. QED
        BY <2>3
<1>3. PICK d \in D : \A e \in D : ~ (<<e, d>> \in OpToRel(<, Nat))
    BY <1>1, <1>2, NatLessThanWellFounded, WFMin
<1>4. \A e \in D : ~ (e < d)
    BY <1>1, <1>3 DEF OpToRel
<1>5. ASSUME NEW y \in T
      PROVE  y <= n - d
    <2>1. n - y \in D
        <3>1. y \in 1..n /\ n - y \in 0..n /\ n - (n - y) = y
            OBVIOUS
        <3>2. QED
            BY <3>1
    <2>2. ~ (n - y < d) /\ d \in Nat /\ y \in Nat
        BY <1>1, <1>4, <2>1
    <2>3. QED
        BY <2>2
<1>6. QED
    BY <1>5

-----------------------------------------------------------------------------
\* Type correctness. The ids of a call are forgotten when it ends, so none of them
\* may be left to lock then.

NothingTodo ==
    \A c \in Callers : pc[c] \in {"out", "inside", "release"} => todo[c] = {}

LEMMA InitTyped == Init => TypeOK /\ NothingTodo
BY DEF Init, TypeOK, Labels, NothingTodo

LEMMA NextTyped == TypeOK /\ NothingTodo /\ [Next]_vars => TypeOK' /\ NothingTodo'
<1> SUFFICES ASSUME TypeOK, NothingTodo, [Next]_vars
             PROVE  TypeOK' /\ NothingTodo'
    OBVIOUS
<1> USE DEF TypeOK, NothingTodo, Labels
<1>1. ASSUME NEW c \in Callers, NEW S \in Requests, Call(c, S)
      PROVE  TypeOK' /\ NothingTodo'
    BY <1>1, LockAssumption DEF Call
<1>2. ASSUME NEW c \in Callers, Find(c)
      PROVE  TypeOK' /\ NothingTodo'
    BY <1>2 DEF Find
<1>3. ASSUME NEW c \in Callers, Acquire(c)
      PROVE  TypeOK' /\ NothingTodo'
    BY <1>3 DEF Acquire
<1>4. ASSUME NEW c \in Callers, Unlock(c)
      PROVE  TypeOK' /\ NothingTodo'
    BY <1>4 DEF Unlock
<1>5. ASSUME NEW c \in Callers, Release(c)
      PROVE  TypeOK' /\ NothingTodo'
    <2>1. CASE \E m \in held[c] :
                 /\ owner' = [owner EXCEPT ![m] = Nobody]
                 /\ held' = [held EXCEPT ![c] = @ \ {m}]
                 /\ UNCHANGED <<pc, ids>>
        <3>1. held' \in [Callers -> SUBSET Mutexes]
            BY <2>1
        <3>2. owner' \in [Mutexes -> Callers \cup {Nobody}]
            BY <2>1
        <3>3. QED
            BY <1>5, <2>1, <3>1, <3>2 DEF Release
    <2>2. CASE /\ pc' = [pc EXCEPT ![c] = "out"]
               /\ ids' = [ids EXCEPT ![c] = {}]
               /\ UNCHANGED <<owner, held>>
        <3>1. UNCHANGED <<table, todo, lock>> /\ pc[c] = "release"
            BY <1>5 DEF Release
        <3>2. QED
            BY <2>2, <3>1
    <2>3. QED
        BY <1>5, <2>1, <2>2 DEF Release
<1>6. CASE UNCHANGED vars
    BY <1>6 DEF vars
<1>7. QED
    BY <1>1, <1>2, <1>3, <1>4, <1>5, <1>6 DEF Next

\* The table, the mutexes and the callers keep their types; a caller about to
\* lock has found a mutex, so locks.go never calls Lock on a nil pointer.
THEOREM TypeCorrect == Spec => []TypeOK
<1>1. QED
    BY InitTyped, NextTyped, PTL DEF Spec

-----------------------------------------------------------------------------
\* The inductive invariant. Every session has a mutex of its own, a caller has
\* locked the mutexes of exactly the ids it has done with, and these ids are
\* smaller than the ones it still has to lock.

Locking == {"find", "acquire", "inside"}

OwnMutex ==
    \A i, j \in Ids : table[i] = table[j] /\ table[i] # NoMutex => i = j

HeldIsOwned ==
    \A c \in Callers, m \in Mutexes : m \in held[c] <=> owner[m] = c

DoneIsHeld ==
    \A c \in Callers : pc[c] \in Locking =>
        \A i \in ids[c] \ todo[c] : table[i] \in held[c]

HeldIsDone ==
    \A c \in Callers : pc[c] \in Locking =>
        \A m \in held[c] : \E i \in ids[c] \ todo[c] : m = table[i]

InOrder ==
    \A c \in Callers : pc[c] \in Locking =>
        \A i \in ids[c] \ todo[c], j \in todo[c] : i < j

Waiting ==
    \A c \in Callers :
        /\ pc[c] = "acquire" => \E i \in Ids : IsNext(c, i) /\ lock[c] = table[i]
        /\ pc[c] = "out" => held[c] = {}

LInv ==
    /\ TypeOK
    /\ NothingTodo
    /\ OwnMutex
    /\ HeldIsOwned
    /\ DoneIsHeld
    /\ HeldIsDone
    /\ InOrder
    /\ Waiting

LEMMA InitLocked == Init => LInv
BY InitTyped, LockAssumption
    DEF Init, LInv, OwnMutex, HeldIsOwned, DoneIsHeld, HeldIsDone, InOrder, Waiting, Locking

\* An id is next for a caller whatever the mutexes are, and only one is.
LEMMA NextIsUnique ==
    ASSUME TypeOK, NEW c \in Callers, NEW i, IsNext(c, i), NEW j, IsNext(c, j)
    PROVE  i = j /\ i \in Ids
BY LockAssumption DEF TypeOK, IsNext, Ids

LEMMA CallKeeps ==
    ASSUME LInv, NEW c \in Callers, NEW S \in Requests, Call(c, S)
    PROVE  LInv'
<1>1. TypeOK' /\ NothingTodo'
    BY NextTyped DEF LInv, Next
<1>2. OwnMutex' /\ HeldIsOwned'
    BY DEF LInv, Call, OwnMutex, HeldIsOwned
<1>3. /\ pc' = [pc EXCEPT ![c] = "find"] /\ pc[c] = "out"
      /\ ids'[c] = todo'[c] /\ held[c] = {} /\ held' = held /\ table' = table
      /\ \A d \in Callers : d # c => ids'[d] = ids[d] /\ todo'[d] = todo[d] /\ pc'[d] = pc[d]
    BY DEF Call, LInv, TypeOK, Waiting
<1>4. DoneIsHeld' /\ HeldIsDone' /\ InOrder'
    BY <1>3 DEF LInv, DoneIsHeld, HeldIsDone, InOrder
<1>5. Waiting'
    BY <1>3 DEF LInv, TypeOK, Waiting, Call, IsNext
<1>6. QED
    BY <1>1, <1>2, <1>4, <1>5 DEF LInv

LEMMA FindKeeps ==
    ASSUME LInv, NEW c \in Callers, Find(c)
    PROVE  LInv'
<1>1. TypeOK' /\ NothingTodo'
    BY NextTyped DEF LInv, Next
<1>2. PICK i \in Ids, m \in Mutexes :
        /\ IsNext(c, i)
        /\ Entry(i, m)
        /\ table' = [table EXCEPT ![i] = m]
        /\ lock' = [lock EXCEPT ![c] = m]
    BY DEF Find
<1>3. /\ pc' = [pc EXCEPT ![c] = "acquire"] /\ pc[c] = "find"
      /\ owner' = owner /\ ids' = ids /\ todo' = todo /\ held' = held
    BY DEF Find
<1>4. /\ table'[i] = m /\ lock'[c] = m
      /\ \A j \in Ids : j # i => table'[j] = table[j]
      /\ \A j \in Ids : table[j] # NoMutex => table'[j] = table[j]
    BY <1>2 DEF LInv, TypeOK, Entry
<1>5. OwnMutex'
    <2>1. \A j \in Ids : j # i => table[j] # m
        BY <1>2, LockAssumption DEF Entry, IsNew, LInv, OwnMutex
    <2>2. QED
        BY <1>4, <2>1 DEF LInv, OwnMutex
<1>6. HeldIsOwned'
    BY <1>3 DEF LInv, HeldIsOwned
<1>7. \A d \in Callers : pc[d] \in Locking =>
        \A j \in ids[d] \ todo[d] : table'[j] = table[j] /\ table[j] \in Mutexes
    BY <1>4, LockAssumption DEF LInv, DoneIsHeld, TypeOK
<1>8. \A d \in Callers : pc'[d] \in Locking <=> pc[d] \in Locking
    BY <1>3 DEF LInv, TypeOK, Locking
<1>9. DoneIsHeld' /\ HeldIsDone' /\ InOrder'
    BY <1>3, <1>7, <1>8 DEF LInv, DoneIsHeld, HeldIsDone, InOrder
<1>10. Waiting'
    <2>1. \A d \in Callers, j \in Ids : IsNext(d, j)' <=> IsNext(d, j)
        BY <1>3 DEF IsNext
    <2>2. ASSUME NEW d \in Callers, d # c, pc'[d] = "acquire"
          PROVE  \E j \in Ids : IsNext(d, j)' /\ lock'[d] = table'[j]
        <3>1. pc[d] = "acquire" /\ lock'[d] = lock[d] /\ lock[d] \in Mutexes
            BY <1>2, <1>3, <2>2 DEF LInv, TypeOK
        <3>2. PICK j \in Ids : IsNext(d, j) /\ lock[d] = table[j]
            BY <3>1 DEF LInv, Waiting
        <3>3. table'[j] = table[j]
            BY <1>4, <3>1, <3>2, LockAssumption
        <3>4. QED
            BY <2>1, <3>1, <3>2, <3>3
    <2>3. \E j \in Ids : IsNext(c, j)' /\ lock'[c] = table'[j]
        BY <1>2, <1>4, <2>1
    <2>4. \A d \in Callers : d # c => pc'[d] = pc[d]
        BY <1>3 DEF LInv, TypeOK
    <2>5. pc'[c] = "acquire"
        BY <1>3 DEF LInv, TypeOK
    <2>6. QED
        BY <1>3, <2>2, <2>3, <2>4, <2>5 DEF LInv, Waiting
<1>11. QED
    BY <1>1, <1>5, <1>6, <1>9, <1>10 DEF LInv

LEMMA AcquireKeeps ==
    ASSUME LInv, NEW c \in Callers, Acquire(c)
    PROVE  LInv'
<1>1. TypeOK' /\ NothingTodo'
    BY NextTyped DEF LInv, Next
<1>2. PICK i \in Ids : IsNext(c, i) /\ lock[c] = table[i]
    BY DEF LInv, Waiting, Acquire
<1>3. /\ table' = table /\ ids' = ids
      /\ pc[c] = "acquire" /\ owner[lock[c]] = Nobody /\ lock[c] \in Mutexes
      /\ owner' = [owner EXCEPT ![lock[c]] = c]
      /\ held'[c] = held[c] \cup {lock[c]}
      /\ \A d \in Callers : d # c => held'[d] = held[d]
    BY DEF Acquire, LInv, TypeOK
<1>4. /\ todo'[c] = todo[c] \ {i}
      /\ \A d \in Callers : d # c => todo'[d] = todo[d] /\ pc'[d] = pc[d] /\ lock'[d] = lock[d]
    <2>1. todo'[c] = {j \in todo[c] : ~ IsNext(c, j)}
        BY DEF Acquire, LInv, TypeOK
    <2>2. \A j \in todo[c] : IsNext(c, j) <=> j = i
        BY <1>2, NextIsUnique DEF LInv
    <2>3. todo'[c] = todo[c] \ {i}
        BY <2>1, <2>2
    <2>4. QED
        BY <2>3 DEF Acquire, LInv, TypeOK
<1>5. pc'[c] = IF todo'[c] = {} THEN "inside" ELSE "find"
    <2>1. pc'[c] = IF \A j \in todo[c] : IsNext(c, j) THEN "inside" ELSE "find"
        BY DEF Acquire, LInv, TypeOK
    <2>2. (\A j \in todo[c] : IsNext(c, j)) <=> todo'[c] = {}
        BY <1>2, <1>4, NextIsUnique DEF LInv
    <2>3. QED
        BY <2>1, <2>2
<1>6. OwnMutex'
    BY <1>3 DEF LInv, OwnMutex
<1>7. HeldIsOwned'
    BY <1>3, LockAssumption DEF LInv, TypeOK, HeldIsOwned
<1>8. i \in todo[c] /\ \A j \in todo[c] : i <= j
    BY <1>2 DEF IsNext
<1>9. todo[c] \subseteq Ids /\ ids[c] \subseteq Ids /\ todo[c] \subseteq ids[c]
    BY DEF LInv, TypeOK
<1>10. ids[c] \ todo'[c] = (ids[c] \ todo[c]) \cup {i}
    BY <1>4, <1>8, <1>9
<1>11. DoneIsHeld'
    BY <1>2, <1>3, <1>4, <1>10 DEF LInv, DoneIsHeld, Locking
<1>12. HeldIsDone'
    BY <1>2, <1>3, <1>4, <1>10 DEF LInv, HeldIsDone, Locking
<1>13. InOrder'
    <2>1. \A k \in todo'[c] : i < k
        BY <1>4, <1>8, <1>9, LockAssumption DEF Ids
    <2>2. \A j \in ids[c] \ todo'[c], k \in todo'[c] : j < k
        BY <1>3, <1>4, <1>10, <2>1 DEF LInv, InOrder, Locking
    <2>3. QED
        BY <1>3, <1>4, <2>2 DEF LInv, InOrder
<1>14. Waiting'
    <2>1. \A d \in Callers, j \in Ids : d # c => (IsNext(d, j)' <=> IsNext(d, j))
        BY <1>4 DEF IsNext
    <2>2. pc'[c] # "acquire" /\ pc'[c] # "out"
        BY <1>5
    <2>3. QED
        BY <1>3, <1>4, <2>1, <2>2 DEF LInv, Waiting
<1>15. QED
    BY <1>1, <1>6, <1>7, <1>11, <1>12, <1>13, <1>14 DEF LInv

LEMMA UnlockKeeps ==
    ASSUME LInv, NEW c \in Callers, Unlock(c)
    PROVE  LInv'
<1>1. TypeOK' /\ NothingTodo'
    BY NextTyped DEF LInv, Next
<1>2. \A d \in Callers : pc'[d] = pc[d] \/ pc'[d] = "release"
    BY DEF Unlock, LInv, TypeOK
<1>3. OwnMutex' /\ HeldIsOwned'
    BY DEF LInv, Unlock, OwnMutex, HeldIsOwned
<1>4. DoneIsHeld' /\ HeldIsDone' /\ InOrder'
    BY <1>2 DEF LInv, Unlock, DoneIsHeld, HeldIsDone, InOrder, Locking
<1>5. Waiting'
    BY <1>2 DEF LInv, Unlock, Waiting, IsNext
<1>6. QED
    BY <1>1, <1>3, <1>4, <1>5 DEF LInv

LEMMA ReleaseKeeps ==
    ASSUME LInv, NEW c \in Callers, Release(c)
    PROVE  LInv'
<1>1. TypeOK' /\ NothingTodo'
    BY NextTyped DEF LInv, Next
<1>2. pc[c] = "release" /\ table' = table /\ todo' = todo /\ lock' = lock
    BY DEF Release
<1>3. CASE \E m \in held[c] :
             /\ owner' = [owner EXCEPT ![m] = Nobody]
             /\ held' = [held EXCEPT ![c] = @ \ {m}]
             /\ UNCHANGED <<pc, ids>>
    <2>1. PICK m \in held[c] :
             /\ owner' = [owner EXCEPT ![m] = Nobody]
             /\ held' = [held EXCEPT ![c] = @ \ {m}]
        BY <1>3
    <2>2. m \in Mutexes /\ owner[m] = c
        BY <2>1 DEF LInv, TypeOK, HeldIsOwned
    <2>3. HeldIsOwned'
        BY <2>1, <2>2, LockAssumption DEF LInv, TypeOK, HeldIsOwned
    <2>4. \A d \in Callers : pc[d] \in Locking => held'[d] = held[d]
        BY <1>2, <2>1 DEF LInv, TypeOK, Locking
    <2>5. DoneIsHeld' /\ HeldIsDone' /\ InOrder' /\ OwnMutex'
        BY <1>2, <1>3, <2>4 DEF LInv, DoneIsHeld, HeldIsDone, InOrder, OwnMutex
    <2>6. Waiting'
        BY <1>2, <1>3, <2>1 DEF LInv, TypeOK, Waiting, IsNext
    <2>7. QED
        BY <1>1, <2>3, <2>5, <2>6 DEF LInv
<1>4. CASE /\ held[c] = {}
           /\ pc' = [pc EXCEPT ![c] = "out"]
           /\ ids' = [ids EXCEPT ![c] = {}]
           /\ UNCHANGED <<owner, held>>
    <2>1. pc'[c] = "out" /\ \A d \in Callers : d # c => pc'[d] = pc[d] /\ ids'[d] = ids[d]
        BY <1>4 DEF LInv, TypeOK
    <2>2. HeldIsOwned' /\ OwnMutex'
        BY <1>2, <1>4 DEF LInv, HeldIsOwned, OwnMutex
    <2>3. DoneIsHeld' /\ HeldIsDone' /\ InOrder'
        BY <1>2, <1>4, <2>1 DEF LInv, DoneIsHeld, HeldIsDone, InOrder, Locking
    <2>4. Waiting'
        BY <1>2, <1>4, <2>1 DEF LInv, Waiting, IsNext
    <2>5. QED
        BY <1>1, <2>2, <2>3, <2>4 DEF LInv
<1>5. QED
    BY <1>3, <1>4 DEF Release

LEMMA LInvInvariant == Spec => []LInv
<1>1. LInv /\ [Next]_vars => LInv'
    <2>1. CASE UNCHANGED vars
        BY <2>1 DEF vars, LInv, TypeOK, NothingTodo, OwnMutex, HeldIsOwned, DoneIsHeld, HeldIsDone,
            InOrder, Waiting, IsNext
    <2>2. QED
        BY <2>1, CallKeeps, FindKeeps, AcquireKeeps, UnlockKeeps, ReleaseKeeps DEF Next
<1>2. QED
    BY <1>1, InitLocked, PTL DEF Spec

-----------------------------------------------------------------------------

\* Two calls of Lock that name the same session are never both between Lock's
\* return and the start of their unlock.
THEOREM Exclusion == Spec => []MutualExclusion
<1>1. LInv => MutualExclusion
    <2> SUFFICES ASSUME LInv, NEW c \in Callers, NEW d \in Callers,
                        pc[c] = "inside", pc[d] = "inside", ids[c] \cap ids[d] # {}
                 PROVE  c = d
        BY DEF MutualExclusion
    <2>1. PICK i \in ids[c] \cap ids[d] : TRUE
        OBVIOUS
    <2>2. todo[c] = {} /\ todo[d] = {}
        BY DEF LInv, NothingTodo
    <2>3. table[i] \in held[c] /\ table[i] \in held[d]
        BY <2>1, <2>2 DEF LInv, DoneIsHeld, Locking
    <2>4. table[i] \in Mutexes
        BY <2>3 DEF LInv, TypeOK
    <2>5. QED
        BY <2>3, <2>4 DEF LInv, HeldIsOwned
<1>2. QED
    BY <1>1, LInvInvariant, PTL

\* A caller that waits for another waiting one waits for a smaller id ...
LEMMA WaitsForGreater ==
    ASSUME LInv, NEW c \in Callers, NEW d \in Callers, WaitsFor(c, d),
           NEW i, IsNext(c, i), NEW j, IsNext(d, j), pc[d] = "acquire"
    PROVE  i < j
<1>1. lock[c] = table[i] /\ lock[c] \in Mutexes /\ i \in Ids
    BY NextIsUnique DEF WaitsFor, LInv, Waiting, TypeOK
<1>2. table[i] \in held[d]
    BY <1>1 DEF WaitsFor, LInv, HeldIsOwned
<1>3. PICK k \in ids[d] \ todo[d] : table[i] = table[k]
    BY <1>2 DEF LInv, HeldIsDone, Locking
<1>4. k \in Ids
    BY DEF LInv, TypeOK
<1>5. k = i
    BY <1>1, <1>3, <1>4, LockAssumption DEF LInv, OwnMutex
<1>6. j \in todo[d]
    BY DEF IsNext
<1>7. QED
    BY <1>3, <1>5, <1>6 DEF LInv, InOrder, Locking

\* ... so no goroutines wait for one another in a circle: in a set of waiting
\* callers the one that waits for the greatest id waits for nobody of the set.
THEOREM NoDeadlock == Spec => []NoCircularWait
<1>1. LInv => NoCircularWait
    <2> SUFFICES ASSUME LInv, NEW S \in SUBSET Callers, S # {}
                 PROVE  \E c \in S : \A d \in S : ~ WaitsFor(c, d)
        BY DEF NoCircularWait
    <2>1. CASE \E c \in S : pc[c] # "acquire"
        BY <2>1 DEF WaitsFor
    <2>2. CASE \A c \in S : pc[c] = "acquire"
        <3> DEFINE T == {i \in Ids : \E c \in S : IsNext(c, i)}
        <3>1. \A c \in S : \E i \in Ids : IsNext(c, i)
            BY <2>2 DEF LInv, Waiting
        <3>2. T # {}
            BY <3>1
        <3>3. PICK x \in T : \A y \in T : y <= x
            BY <3>2, GreatestElement, LockAssumption DEF Ids
        <3>4. PICK c \in S : IsNext(c, x)
            BY <3>3
        <3>5. ASSUME NEW d \in S, WaitsFor(c, d)
              PROVE  FALSE
            <4>1. PICK y \in Ids : IsNext(d, y)
                BY <3>1
            <4>2. x < y
                BY <2>2, <3>4, <3>5, <4>1, WaitsForGreater
            <4>3. y <= x
                BY <3>3, <4>1
            <4>4. QED
                BY <3>3, <4>2, <4>3, LockAssumption DEF Ids
        <3>6. QED
            BY <3>5
    <2>3. QED
        BY <2>1, <2>2
<1>2. QED
    BY <1>1, LInvInvariant, PTL

=============================================================================
