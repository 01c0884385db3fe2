---------------------------- MODULE SessionLock ----------------------------
(***************************************************************************)
(* The per-session locks of internal/sessionlock: a table of mutexes made  *)
(* on demand and a Lock call that takes the mutexes of several sessions.   *)
(* A goroutine that finishes a child's turn locks the child, its parent    *)
(* and the session it must answer, so calls with overlapping sets of ids   *)
(* meet all the time.                                                      *)
(*                                                                         *)
(* A session id is a number: only the order of ids matters to Lock, which  *)
(* sorts them.                                                             *)
(***************************************************************************)
EXTENDS Naturals

CONSTANTS
    N,           \* session ids are 1..N
    Requests,    \* the sets of ids a call may ask for
    Callers,     \* goroutines that call Lock
    Mutexes,     \* the mutex objects that may be allocated
    Nobody,      \* the owner of a free mutex
    NoMutex      \* a table entry that does not exist yet

Ids == 1..N

ASSUME LockAssumption ==
    /\ N \in Nat
    /\ Requests \subseteq SUBSET Ids
    /\ Nobody \notin Callers
    /\ NoMutex \notin Mutexes

VARIABLES
    table,    \* Locks.locks: id -> its mutex
    owner,    \* mutex -> the goroutine that holds it
    pc,       \* goroutine -> where it is in Lock or in its critical section
    ids,      \* goroutine -> the ids its call asked for
    todo,     \* goroutine -> the ids whose mutex it has not locked yet
    lock,     \* goroutine -> the mutex it found and is about to lock
    held      \* goroutine -> the mutexes its unlock function will release

vars == <<table, owner, pc, ids, todo, lock, held>>

Labels == {"out", "find", "acquire", "inside", "release"}

\* Besides the types: a caller about to lock a mutex has one (locks.go would
\* dereference a nil *sync.Mutex otherwise), and the ids it still has to lock are
\* ids it asked for.
TypeOK ==
    /\ table \in [Ids -> Mutexes \cup {NoMutex}]
    /\ owner \in [Mutexes -> Callers \cup {Nobody}]
    /\ pc \in [Callers -> Labels]
    /\ ids \in [Callers -> SUBSET Ids]
    /\ todo \in [Callers -> SUBSET Ids]
    /\ lock \in [Callers -> Mutexes \cup {NoMutex}]
    /\ held \in [Callers -> SUBSET Mutexes]
    /\ \A c \in Callers : todo[c] \subseteq ids[c]
    /\ \A c \in Callers : pc[c] = "acquire" => lock[c] \in Mutexes

Init ==
    /\ table = [i \in Ids |-> NoMutex]
    /\ owner = [m \in Mutexes |-> Nobody]
    /\ pc = [c \in Callers |-> "out"]
    /\ ids = [c \in Callers |-> {}]
    /\ todo = [c \in Callers |-> {}]
    /\ lock = [c \in Callers |-> NoMutex]
    /\ held = [c \in Callers |-> {}]

-----------------------------------------------------------------------------

\* A call of Lock: the ids are cloned, sorted and compacted into a set.
Call(c, S) ==
    /\ pc[c] = "out"
    /\ S # {}
    /\ pc' = [pc EXCEPT ![c] = "find"]
    /\ ids' = [ids EXCEPT ![c] = S]
    /\ todo' = [todo EXCEPT ![c] = S]
    /\ UNCHANGED <<table, owner, lock, held>>

\* The ids are locked in the order of the arguments: any order.
IsNextUnsorted(c, i) ==
    /\ i \in todo[c]
    /\ \A j \in todo[c] : IF c = CHOOSE d \in Callers : TRUE THEN i <= j ELSE i >= j

\* The next id in sorted order.
IsNext(c, i) == i \in todo[c] /\ \A j \in todo[c] : i <= j

\* A mutex object no table entry points to.
IsNew(m) == \A i \in Ids : table[i] # m

\* The table lookup forgets an entry that is already there.
EntryAlwaysNew(i, m) == m \in Mutexes /\ IsNew(m)

\* The mutex of an id, found or put in the table under Locks.mu.
Entry(i, m) ==
    IF table[i] # NoMutex
    THEN m = table[i]
    ELSE IsNew(m) /\ m = CHOOSE x \in Mutexes : IsNew(x)

\* The lookup makes the missing mutex but still returns what it read before.
FindReturnsOld(c) ==
    /\ pc[c] = "find"
    /\ \E i \in Ids, m \in Mutexes :
          /\ IsNext(c, i)
          /\ Entry(i, m)
          /\ table' = [table EXCEPT ![i] = m]
          /\ lock' = [lock EXCEPT ![c] = table[i]]
    /\ pc' = [pc EXCEPT ![c] = "acquire"]
    /\ UNCHANGED <<owner, ids, todo, held>>

\* Locks.mu covers the lookup and the insertion of one id.
Find(c) ==
    /\ pc[c] = "find"
    /\ \E i \in Ids, m \in Mutexes :
          /\ IsNext(c, i)
          /\ Entry(i, m)
          /\ table' = [table EXCEPT ![i] = m]
          /\ lock' = [lock EXCEPT ![c] = m]
    /\ pc' = [pc EXCEPT ![c] = "acquire"]
    /\ UNCHANGED <<owner, ids, todo, held>>

\* sync.Mutex.Lock: blocks until the mutex is free.
Acquire(c) ==
    /\ pc[c] = "acquire"
    /\ owner[lock[c]] = Nobody
    /\ owner' = [owner EXCEPT ![lock[c]] = c]
    /\ held' = [held EXCEPT ![c] = @ \cup {lock[c]}]
    /\ todo' = [todo EXCEPT ![c] = {i \in @ : ~ IsNext(c, i)}]
    /\ lock' = [lock EXCEPT ![c] = NoMutex]
    /\ pc' = [pc EXCEPT ![c] = IF \A i \in todo[c] : IsNext(c, i) THEN "inside" ELSE "find"]
    /\ UNCHANGED <<table, ids>>

\* The caller is done and calls the function Lock returned.
Unlock(c) ==
    /\ pc[c] = "inside"
    /\ pc' = [pc EXCEPT ![c] = "release"]
    /\ UNCHANGED <<table, owner, ids, todo, lock, held>>

\* The unlock function releases only one of the mutexes it locked.
ReleaseOne(c) ==
    /\ pc[c] = "release"
    /\ \E m \in held[c] : owner' = [owner EXCEPT ![m] = Nobody]
    /\ held' = [held EXCEPT ![c] = {}]
    /\ pc' = [pc EXCEPT ![c] = "out"]
    /\ ids' = [ids EXCEPT ![c] = {}]
    /\ UNCHANGED <<table, todo, lock>>

\* The unlock function releases the mutexes one by one.
Release(c) ==
    /\ pc[c] = "release"
    /\ \/ \E m \in held[c] :
             /\ owner' = [owner EXCEPT ![m] = Nobody]
             /\ held' = [held EXCEPT ![c] = @ \ {m}]
             /\ UNCHANGED <<pc, ids>>
       \/ /\ held[c] = {}
          /\ pc' = [pc EXCEPT ![c] = "out"]
          /\ ids' = [ids EXCEPT ![c] = {}]
          /\ UNCHANGED <<owner, held>>
    /\ UNCHANGED <<table, todo, lock>>

Next ==
    \E c \in Callers :
        \/ \E S \in Requests : Call(c, S)
        \/ Find(c)
        \/ Acquire(c)
        \/ Unlock(c)
        \/ Release(c)

Spec == Init /\ [][Next]_vars

\* A critical section ends, and a Go mutex in starvation mode is handed to the
\* goroutine that has waited longest, so a waiter is not passed over for ever.
Fairness ==
    \A c \in Callers :
        /\ WF_vars(Find(c))
        /\ SF_vars(Acquire(c))
        /\ WF_vars(Unlock(c))
        /\ WF_vars(Release(c))

FairSpec == Spec /\ Fairness

-----------------------------------------------------------------------------

\* Two goroutines whose calls name the same session are never both between
\* Lock's return and the start of their unlock: the load-change-save sequences
\* of the session handlers exclude each other.
MutualExclusion ==
    \A c, d \in Callers :
        /\ pc[c] = "inside"
        /\ pc[d] = "inside"
        /\ ids[c] \cap ids[d] # {}
        => c = d

\* A goroutine waits for a mutex another one holds.
WaitsFor(c, d) == pc[c] = "acquire" /\ owner[lock[c]] = d

\* No goroutines wait for one another in a circle: in every set of callers
\* someone waits for nobody of the set. Taking the ids in sorted order is what
\* makes this true when a child, its parent and a third session are locked at
\* once by several finishing turns.
NoCircularWait ==
    \A S \in SUBSET Callers :
        S # {} => \E c \in S : \A d \in S : ~ WaitsFor(c, d)

\* A caller gets all its locks in the end.
EveryCallerEnters ==
    \A c \in Callers : pc[c] = "find" ~> pc[c] = "inside"

=============================================================================
