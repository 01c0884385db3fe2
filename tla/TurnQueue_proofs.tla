-------------------------- MODULE TurnQueue_proofs --------------------------
(***************************************************************************)
(* Theorems about TurnQueue, for any prompts, goroutines, restarts and any *)
(* set of things that may happen: the session's lock and the copies made   *)
(* under it, the turn in memory and the status that is its lock, and the   *)
(* free thread that runs its queue.                                        *)
(***************************************************************************)
EXTENDS TurnQueue, TLAPS, SequenceTheorems

-----------------------------------------------------------------------------
\* The helpers of the model keep a row a row.

LEMMA SavedIsRow ==
    ASSUME row \in Rows, NEW r \in Rows
    PROVE  Saved(r) \in Rows
BY DEF Saved, Rows

LEMMA WithStatusIsRow ==
    ASSUME row \in Rows, NEW s \in Statuses
    PROVE  WithStatus(s) \in Rows
BY DEF WithStatus, Rows

LEMMA RemoveAtIsSeq ==
    ASSUME NEW S, NEW s \in Seq(S), NEW i \in 1..Len(s)
    PROVE  RemoveAt(s, i) \in Seq(S)
<1>1. SubSeq(s, 1, i - 1) \in Seq(S)
    BY SubSeqProperties
<1>2. SubSeq(s, i + 1, Len(s)) \in Seq(S)
    BY SubSeqProperties
<1>3. QED
    BY <1>1, <1>2, ConcatProperties DEF RemoveAt

LEMMA InsertIsSeq ==
    ASSUME NEW S, NEW s \in Seq(S), NEW i \in Nat, NEW p \in S
    PROVE  Insert(s, i, p) \in Seq(S)
<1>1. CASE i > Len(s)
    BY <1>1, AppendProperties DEF Insert
<1>2. CASE ~ (i > Len(s))
    <2>1. SubSeq(s, 1, (i + 1) - 1) \in Seq(S)
        BY <1>2, SubSeqProperties
    <2>2. SubSeq(s, i + 1, Len(s)) \in Seq(S)
        BY <1>2, SubSeqProperties
    <2>3. <<p>> \in Seq(S)
        OBVIOUS
    <2>4. QED
        BY <1>2, <2>1, <2>2, <2>3, ConcatProperties DEF Insert, InsertAt
<1>3. QED
    BY <1>1, <1>2

LEMMA PermutedIsSeq ==
    ASSUME NEW S, NEW s \in Seq(S), NEW q \in Permuted(s)
    PROVE  q \in Seq(S)
<1>1. PICK f \in [DOMAIN s -> DOMAIN s] : q = [i \in DOMAIN s |-> s[f[i]]]
    BY DEF Permuted
<1>2. DOMAIN s = 1..Len(s) /\ Len(s) \in Nat
    OBVIOUS
<1>3. q \in [1..Len(s) -> S]
    BY <1>1, <1>2, ElementOfSeq
<1>4. QED
    BY <1>2, <1>3, SeqDef

LEMMA NextPromptIsPrompt ==
    ASSUME NEW r \in Rows, QueueOf(r) # <<>>
    PROVE  NextPrompt(r) \in Prompts /\ WithoutNext(r) \in Rows
<1>1. r.pub \in Seq(Prompts) /\ r.int \in Seq(Prompts)
    BY DEF Rows
<1>2. r.pub # <<>> \/ r.int # <<>>
    BY <1>1 DEF QueueOf
<1>3. CASE r.pub # <<>>
    <2>1. Head(r.pub) \in Prompts /\ Tail(r.pub) \in Seq(Prompts)
        BY <1>1, <1>3, HeadTailProperties
    <2>2. QED
        BY <1>3, <2>1 DEF NextPrompt, WithoutNext, TakesPublic, Rows
<1>4. CASE r.pub = <<>>
    <2>1. Head(r.int) \in Prompts /\ Tail(r.int) \in Seq(Prompts)
        BY <1>1, <1>2, <1>4, HeadTailProperties
    <2>2. QED
        BY <1>4, <2>1 DEF NextPrompt, WithoutNext, TakesPublic, Rows
<1>5. QED
    BY <1>3, <1>4

-----------------------------------------------------------------------------
\* Type correctness. A prompt that goes into a sequence of the row comes from
\* the task of a goroutine, so the invariant says at which labels a task has one.

TasksOK ==
    \A g \in Procs :
        /\ at[g] \in {"append", "enqueue", "begin", "busy", "requeue"} => task[g].p \in Prompts
        /\ task[g].kind \in {"claim", "steer"} => task[g].p \in Prompts
        /\ at[g] = "restore" => task[g].kind \in {"claim", "steer"}

\* The stored row and the goroutines ...
WorkOK ==
    /\ row \in Rows
    /\ lock \in Procs \cup {None}
    /\ at \in [Procs -> Labels]
    /\ task \in [Procs -> Tasks]
    /\ copy \in [Procs -> Rows \cup {None}]
    /\ \A g \in Procs : at[g] \in Saving \cup {"stale", "resume"} => copy[g] \in Rows
    /\ TasksOK

\* ... and the rest.
RestOK ==
    /\ job \in JobStates
    /\ sender \in Procs \cup {None}
    /\ accepted \subseteq Prompts
    /\ deleted \subseteq Prompts
    /\ starts \in [Prompts -> Nat]
    /\ cut \in [Actions -> 0..crashes]
    /\ crashes \in 0..MaxCrashes

TInv == WorkOK /\ RestOK

LEMMA TInvTypes == TInv => TypeOK
BY DEF TInv, WorkOK, RestOK, TypeOK

LEMMA InitTyped == Init => TInv
BY QueueAssumption DEF Init, TInv, WorkOK, RestOK, TasksOK, Rows, Statuses, JobStates,
    Labels, Saving, Handing, Tasks, Kinds, NoTask, Task

\* Labels at which a goroutine needs neither a loaded row nor a prompt.
Plain == Labels \ (Saving \cup {"stale", "resume", "busy", "requeue"})

\* The ways a goroutine moves on, each keeping WorkOK.

LEMMA GotoTyped ==
    ASSUME WorkOK, NEW g \in Procs, NEW l \in Plain, Goto(g, l),
           row' \in Rows, lock' \in Procs \cup {None}, copy' = copy
    PROVE  WorkOK'
BY QueueAssumption DEF WorkOK, TasksOK, Goto, Plain, Labels, Saving, Handing, NoTask, Task,
    Tasks, Kinds

LEMMA UnlockTyped ==
    ASSUME WorkOK, NEW g \in Procs, NEW l \in Plain, Goto(g, l), Unlock(g), row' \in Rows
    PROVE  WorkOK'
BY QueueAssumption DEF WorkOK, TasksOK, Goto, Unlock, Plain, Labels, Saving, Handing, NoTask,
    Task, Tasks, Kinds

LEMMA SaveTyped ==
    ASSUME WorkOK, NEW g \in Procs, NEW l \in Plain, NEW r \in Rows, Save(g, r, l)
    PROVE  WorkOK'
<1>1. row' \in Rows
    BY SavedIsRow DEF Save, WorkOK
<1>2. QED
    BY <1>1, UnlockTyped DEF Save

LEMMA LoadTyped ==
    ASSUME WorkOK, NEW g \in Procs, NEW l \in Saving, Load(g, l), row' = row,
           task' \in [Procs -> Tasks],
           \A h \in Procs : h # g => task'[h] = task[h],
           l \in {"append", "enqueue", "begin"} => task'[g].p \in Prompts,
           task'[g].kind \in {"claim", "steer"} => task'[g].p \in Prompts,
           l = "restore" => task'[g].kind \in {"claim", "steer"}
    PROVE  WorkOK'
BY DEF WorkOK, TasksOK, Load, Labels, Saving, Handing

LEMMA CountTyped ==
    ASSUME starts \in [Prompts -> Nat], NEW p
    PROVE  [starts EXCEPT ![p] = @ + 1] \in [Prompts -> Nat]
<1>1. CASE p \in Prompts
    BY <1>1
<1>2. CASE p \notin Prompts
    BY <1>2
<1>3. QED
    BY <1>1, <1>2

LEMMA RequestTyped ==
    ASSUME TInv, NEW g \in Procs, NEW k \in {"queue", "steer", "direct"},
           NEW op \in {"append", "delete", "reorder", "enqueue", "begin", "steer"},
           NEW p \in Prompts \cup {None}, p = None => op = "reorder" /\ k = "queue",
           Request(g, op, k, p)
    PROVE  TInv'
<1>1. task' = [task EXCEPT ![g] = Task(k, p, 0)] /\ Task(k, p, 0) \in Tasks
    BY DEF Request, Task, Tasks, Kinds
<1>2. task' \in [Procs -> Tasks] /\ task'[g].p = p /\ task'[g].kind = k
    BY <1>1, QueueAssumption DEF TInv, WorkOK, Task
<1>3. \A h \in Procs : h # g => task'[h] = task[h]
    BY <1>1 DEF TInv, WorkOK
<1>4. Load(g, op) /\ row' = row /\ op \in Saving
    BY DEF Request, Saving
<1>5. WorkOK'
    BY <1>2, <1>3, <1>4, LoadTyped DEF TInv
<1>6. RestOK'
    BY DEF TInv, RestOK, Request, ledger
<1>7. QED
    BY <1>5, <1>6 DEF TInv

LEMMA RunTurnTyped ==
    ASSUME WorkOK, NEW g \in Procs, NEW k \in {"claim", "goal"}, NEW p \in Prompts \cup {None},
           k = "claim" => p \in Prompts,
           RunTurn(g, k, p), Unlock(g), row' \in Rows
    PROVE  WorkOK'
<1>1. PICK r \in Procs :
        /\ at' = [at EXCEPT ![g] = AfterDrain(g), ![r] = IF p \in Actions THEN "act" ELSE "send"]
        /\ task' = [task EXCEPT ![r] = Task(k, p, 0)]
    BY DEF RunTurn
<1>2. Task(k, p, 0) \in Tasks /\ Task(k, p, 0).p = p /\ Task(k, p, 0).kind = k
    BY DEF Task, Tasks, Kinds
<1>3. AfterDrain(g) \in {"close", "out"}
    BY DEF AfterDrain
<1>4. QED
    BY <1>1, <1>2, <1>3 DEF WorkOK, TasksOK, Unlock, Labels, Saving, Handing

LEMMA RequestsTyped ==
    ASSUME TInv, NEW g \in Procs, Requests(g)
    PROVE  TInv'
<1>1. ASSUME NEW p \in Public, RequestAppend(g, p) PROVE TInv'
    <2>1. Request(g, "append", "queue", p)
        BY <1>1 DEF RequestAppend
    <2>2. p \in Prompts /\ p # None
        BY QueueAssumption DEF Prompts
    <2>3. QED
        BY <2>1, <2>2, RequestTyped
<1>2. ASSUME NEW p \in Public, RequestDelete(g, p) PROVE TInv'
    <2>1. Request(g, "delete", "queue", p)
        BY <1>2 DEF RequestDelete
    <2>2. p \in Prompts /\ p # None
        BY QueueAssumption DEF Prompts
    <2>3. QED
        BY <2>1, <2>2, RequestTyped
<1>3. ASSUME NEW p \in Public, RequestSteer(g, p) PROVE TInv'
    <2>1. Request(g, "steer", "steer", p)
        BY <1>3 DEF RequestSteer
    <2>2. p \in Prompts /\ p # None
        BY QueueAssumption DEF Prompts
    <2>3. QED
        BY <2>1, <2>2, RequestTyped
<1>4. ASSUME NEW p \in Public, RequestBegin(g, p) PROVE TInv'
    <2>1. Request(g, "begin", "direct", p)
        BY <1>4 DEF RequestBegin
    <2>2. p \in Prompts /\ p # None
        BY QueueAssumption DEF Prompts
    <2>3. QED
        BY <2>1, <2>2, RequestTyped
<1>5. ASSUME NEW p \in Public, SendExternal(g, p) PROVE TInv'
    <2>1. Task("ext", p, 0) \in Tasks
        BY <1>5 DEF Task, Tasks, Kinds, Prompts
    <2>2. WorkOK'
        BY <1>5, <2>1 DEF SendExternal, TInv, WorkOK, TasksOK, Task, Labels, Saving, Handing
    <2>3. RestOK'
        BY <1>5 DEF SendExternal, TInv, RestOK, ledger
    <2>4. QED
        BY <2>2, <2>3 DEF TInv
<1>6. ASSUME NEW p \in Internal, RequestEnqueue(g, p) PROVE TInv'
    <2>1. Request(g, "enqueue", "queue", p)
        BY <1>6 DEF RequestEnqueue
    <2>2. p \in Prompts /\ p # None
        BY QueueAssumption DEF Prompts
    <2>3. QED
        BY <2>1, <2>2, RequestTyped
<1>7. CASE RequestReorder(g)
    BY <1>7, RequestTyped DEF RequestReorder
<1>8. CASE CancelStored(g)
    <2>1. WorkOK'
        BY <1>8 DEF CancelStored, Goto, TInv, WorkOK, TasksOK, Labels, Saving, Handing
    <2>2. RestOK'
        BY <1>8 DEF CancelStored, TInv, RestOK, ledger
    <2>3. QED
        BY <2>1, <2>2 DEF TInv
<1>9. QED
    BY <1>1, <1>2, <1>3, <1>4, <1>5, <1>6, <1>7, <1>8 DEF Requests

LEMMA QueueHandlersTyped ==
    ASSUME TInv, NEW g \in Procs,
           AppendPrompt(g) \/ DeletePrompt(g) \/ ReorderPrompts(g) \/ EnqueueInternalTurn(g)
    PROVE  TInv'
<1>1. CASE AppendPrompt(g)
    <2>1. task[g].p \in Prompts
        BY <1>1 DEF AppendPrompt, TInv, WorkOK, TasksOK
    <2>2. copy[g] \in Rows
        BY <1>1 DEF AppendPrompt, TInv, WorkOK, Saving
    <2>3. [copy[g] EXCEPT !.pub = Append(@, task[g].p)] \in Rows
        BY <2>1, <2>2, AppendProperties DEF Rows
    <2>4. WorkOK'
        BY <1>1, <2>3, SaveTyped DEF AppendPrompt, TInv, AfterMutation, Plain, Labels,
            Saving, Handing
    <2>5. RestOK'
        BY <1>1, <2>1 DEF AppendPrompt, TInv, RestOK, ledger
    <2>6. QED
        BY <2>4, <2>5 DEF TInv
<1>2. CASE DeletePrompt(g)
    <2>1. copy[g] \in Rows
        BY <1>2 DEF DeletePrompt, TInv, WorkOK, Saving
    <2>2. copy[g].pub \in Seq(Prompts)
        BY <2>1 DEF Rows
    <2>3. PICK i \in DOMAIN copy[g].pub : copy[g].pub[i] = task[g].p /\ Save(g, [copy[g]
        EXCEPT !.pub = RemoveAt(@, i)], AfterMutation([copy[g] EXCEPT !.pub = RemoveAt(@,
        i)]))
        BY <1>2 DEF DeletePrompt
    <2>4. [copy[g] EXCEPT !.pub = RemoveAt(@, i)] \in Rows
        BY <2>1, <2>2, <2>3, RemoveAtIsSeq DEF Rows
    <2>5. task[g].p \in Prompts
        BY <2>2, <2>3, ElementOfSeq
    <2>6. WorkOK'
        BY <2>3, <2>4, SaveTyped DEF TInv, AfterMutation, Plain, Labels, Saving, Handing
    <2>7. RestOK'
        BY <1>2, <2>5 DEF DeletePrompt, TInv, RestOK, ledger
    <2>8. QED
        BY <2>6, <2>7 DEF TInv
<1>3. CASE ReorderPrompts(g)
    <2>1. copy[g] \in Rows
        BY <1>3 DEF ReorderPrompts, TInv, WorkOK, Saving
    <2>2. PICK q \in Permuted(copy[g].pub) : Save(g, [copy[g] EXCEPT !.pub = q],
        AfterMutation([copy[g] EXCEPT !.pub = q]))
        BY <1>3 DEF ReorderPrompts
    <2>3. [copy[g] EXCEPT !.pub = q] \in Rows
        BY <2>1, PermutedIsSeq DEF Rows
    <2>4. WorkOK'
        BY <2>2, <2>3, SaveTyped DEF TInv, AfterMutation, Plain, Labels, Saving, Handing
    <2>5. RestOK'
        BY <1>3 DEF ReorderPrompts, TInv, RestOK, ledger
    <2>6. QED
        BY <2>4, <2>5 DEF TInv
<1>4. CASE EnqueueInternalTurn(g)
    <2>1. task[g].p \in Prompts
        BY <1>4 DEF EnqueueInternalTurn, TInv, WorkOK, TasksOK
    <2>2. copy[g] \in Rows
        BY <1>4 DEF EnqueueInternalTurn, TInv, WorkOK, Saving
    <2>3. [copy[g] EXCEPT !.int = Append(@, task[g].p)] \in Rows
        BY <2>1, <2>2, AppendProperties DEF Rows
    <2>4. WorkOK'
        BY <1>4, <2>3, SaveTyped DEF EnqueueInternalTurn, TInv, Plain, Labels, Saving,
            Handing
    <2>5. RestOK'
        BY <1>4, <2>1 DEF EnqueueInternalTurn, TInv, RestOK, ledger
    <2>6. QED
        BY <2>4, <2>5 DEF TInv
<1>5. QED
    BY <1>1, <1>2, <1>3, <1>4

LEMMA ClaimsTyped ==
    ASSUME TInv, NEW g \in Procs, 
           Drain(g) \/ ClaimPrompt(g) \/ ClaimGoal(g) \/ ClaimNothing(g)
    PROVE  TInv'
<1>1. CASE Drain(g)
    <2>1. CASE Load(g, "claim")
        <3>1. WorkOK'
            BY <1>1, <2>1, LoadTyped DEF Drain, TInv, WorkOK, TasksOK, Saving
        <3>2. QED
            BY <1>1, <3>1 DEF Drain, TInv, RestOK, ledger
    <2>2. CASE at' = [at EXCEPT ![g] = "out"] /\ UNCHANGED <<lock, copy>>
        <3>1. WorkOK'
            BY <1>1, <2>2 DEF Drain, TInv, WorkOK, TasksOK, Labels, Saving, Handing
        <3>2. QED
            BY <1>1, <3>1 DEF Drain, TInv, RestOK, ledger
    <2>3. QED
        BY <1>1, <2>1, <2>2 DEF Drain
<1>2. CASE ClaimPrompt(g)
    <2>1. copy[g] \in Rows
        BY <1>2 DEF ClaimPrompt, TInv, WorkOK, Saving
    <2>2. NextPrompt(copy[g]) \in Prompts /\ WithoutNext(copy[g]) \in Rows
        BY <1>2, <2>1, NextPromptIsPrompt DEF ClaimPrompt
    <2>3. row' \in Rows
        BY <1>2, <2>2 DEF ClaimPrompt, TInv, WorkOK, Rows, Statuses
    <2>4. WorkOK'
        BY <1>2, <2>2, <2>3, RunTurnTyped DEF ClaimPrompt, TInv
    <2>5. RestOK'
        BY <1>2 DEF ClaimPrompt, TInv, RestOK, ledger
    <2>6. QED
        BY <2>4, <2>5 DEF TInv
<1>3. CASE ClaimGoal(g)
    <2>1. copy[g] \in Rows
        BY <1>3 DEF ClaimGoal, TInv, WorkOK, Saving
    <2>2. [copy[g] EXCEPT !.status = "running"] \in Rows
        BY <2>1 DEF Rows, Statuses
    <2>3. row' \in Rows
        BY <1>3, <2>2, SavedIsRow DEF ClaimGoal, TInv, WorkOK
    <2>4. WorkOK'
        BY <1>3, <2>3, RunTurnTyped DEF ClaimGoal, TInv
    <2>5. RestOK'
        BY <1>3 DEF ClaimGoal, TInv, RestOK, ledger
    <2>6. QED
        BY <2>4, <2>5 DEF TInv
<1>4. CASE ClaimNothing(g)
    <2>1. WorkOK'
        BY <1>4 DEF ClaimNothing, AfterDrain, Unlock, TInv, WorkOK, TasksOK, Labels, Saving,
            Handing
    <2>2. RestOK'
        BY <1>4 DEF ClaimNothing, TInv, RestOK, ledger
    <2>3. QED
        BY <2>1, <2>2 DEF TInv
<1>5. QED
    BY <1>1, <1>2, <1>3, <1>4

LEMMA OutcomesTyped ==
    ASSUME TInv, NEW g \in Procs, 
           \/ RunAction(g) \/ FinishAction(g) \/ FailTurn(g)
           \/ LoadRestore(g) \/ RestorePrompt(g)
    PROVE  TInv'
<1>1. CASE FinishAction(g)
    <2>1. row' \in Rows
        BY <1>1, WithStatusIsRow DEF FinishAction, TInv, WorkOK, Statuses
    <2>2. WorkOK'
        BY <1>1, <2>1, GotoTyped DEF FinishAction, TInv, WorkOK, Plain, Labels, Saving,
            Handing
    <2>3. RestOK'
        BY <1>1 DEF FinishAction, TInv, RestOK, ledger
    <2>4. QED
        BY <2>2, <2>3 DEF TInv
<1>2. CASE FailTurn(g)
    <2>1. WorkOK'
        BY <1>2, GotoTyped DEF FailTurn, TInv, WorkOK, Plain, Labels, Saving, Handing
    <2>2. RestOK'
        BY <1>2, QueueAssumption DEF FailTurn, TInv, RestOK, ledger
    <2>3. QED
        BY <2>1, <2>2 DEF TInv
<1>3. CASE LoadRestore(g)
    <2>1. WorkOK'
        BY <1>3, LoadTyped DEF LoadRestore, TInv, WorkOK, TasksOK, Saving
    <2>2. RestOK'
        BY <1>3 DEF LoadRestore, TInv, RestOK, ledger
    <2>3. QED
        BY <2>1, <2>2 DEF TInv
<1>4. CASE RestorePrompt(g)
    <2>1. copy[g] \in Rows /\ task[g].p \in Prompts /\ task[g].idx \in Nat
        BY <1>4 DEF RestorePrompt, TInv, WorkOK, TasksOK, Tasks, Saving
    <2>2. \A s \in Seq(Prompts) : Insert(s, task[g].idx, task[g].p) \in Seq(Prompts)
        BY <2>1, InsertIsSeq
    <2>3. PICK r \in Rows : Save(g, [r EXCEPT !.steer = None, !.status = "error"], "out")
        BY <1>4, <2>1, <2>2 DEF RestorePrompt, Rows
    <2>4. [r EXCEPT !.steer = None, !.status = "error"] \in Rows
        BY <2>3 DEF Rows, Statuses
    <2>5. WorkOK'
        BY <2>3, <2>4, SaveTyped DEF TInv, Plain, Labels, Saving, Handing
    <2>6. RestOK'
        BY <1>4 DEF RestorePrompt, TInv, RestOK, ledger
    <2>7. QED
        BY <2>5, <2>6 DEF TInv
<1>5. CASE RunAction(g)
    <2>1. WorkOK'
        BY <1>5, GotoTyped DEF RunAction, TInv, WorkOK, Plain, Labels, Saving, Handing
    <2>2. starts' \in [Prompts -> Nat]
        BY <1>5, CountTyped DEF RunAction, TInv, RestOK
    <2>3. RestOK'
        BY <1>5, <2>2 DEF RunAction, TInv, RestOK
    <2>4. QED
        BY <2>1, <2>3 DEF TInv
<1>6. QED
    BY <1>1, <1>2, <1>3, <1>4, <1>5

LEMMA SteersTyped ==
    ASSUME TInv, NEW g \in Procs, 
           \/ ClaimSteered(g) \/ SteerTaken(g) \/ SteerRefused(g) \/ SteerUnsupported(g)
           \/ SteerCancel(g) \/ SteerCancelGivesUp(g) \/ SteerAfterCancel(g)
           \/ LoadClear(g) \/ ClearSteer(g)
    PROVE  TInv'
<1>1. CASE ClaimSteered(g)
    <2>1. copy[g] \in Rows
        BY <1>1 DEF ClaimSteered, TInv, WorkOK, Saving
    <2>2. copy[g].pub \in Seq(Prompts)
        BY <2>1 DEF Rows
    <2>3. PICK i \in DOMAIN copy[g].pub : copy[g].pub[i] = task[g].p /\ row' =
        Saved([copy[g] EXCEPT !.pub = RemoveAt(@, i), !.steer = task[g].p, !.status = IF
        RuntimeRunning THEN @ ELSE "running"]) /\ task' = [task EXCEPT ![g].idx = i - 1]
        BY <1>1 DEF ClaimSteered
    <2>4. i \in 1..Len(copy[g].pub) /\ i - 1 \in Nat
        BY <2>2, <2>3
    <2>5. task[g].p \in Prompts
        BY <2>2, <2>3, <2>4, ElementOfSeq
    <2>6. RemoveAt(copy[g].pub, i) \in Seq(Prompts)
        BY <2>2, <2>4, RemoveAtIsSeq
    <2>7. [copy[g] EXCEPT !.pub = RemoveAt(@, i), !.steer = task[g].p, !.status = IF
        RuntimeRunning THEN @ ELSE "running"] \in Rows
        BY <2>1, <2>5, <2>6 DEF Rows, Statuses
    <2>8. row' \in Rows
        BY <2>3, <2>7, SavedIsRow DEF TInv, WorkOK
    <2>9. task' \in [Procs -> Tasks] /\ \A h \in Procs : task'[h].p = task[h].p /\
        task'[h].kind = task[h].kind
        BY <2>3, <2>4 DEF TInv, WorkOK, Tasks
    <2>10. WorkOK'
        BY <1>1, <2>8, <2>9 DEF ClaimSteered, Unlock, TInv, WorkOK, TasksOK, Labels, Saving,
            Handing
    <2>11. RestOK'
        BY <1>1 DEF ClaimSteered, TInv, RestOK, ledger
    <2>12. QED
        BY <2>10, <2>11 DEF TInv
<1>2. CASE SteerTaken(g)
    <2>1. WorkOK'
        BY <1>2, GotoTyped DEF SteerTaken, TInv, WorkOK, Plain, Labels, Saving, Handing
    <2>2. starts' \in [Prompts -> Nat]
        BY <1>2, CountTyped DEF SteerTaken, TInv, RestOK
    <2>3. RestOK'
        BY <1>2, <2>2 DEF SteerTaken, TInv, RestOK, ledger
    <2>4. QED
        BY <2>1, <2>3 DEF TInv
<1>3. CASE SteerRefused(g)
    <2>1. WorkOK'
        BY <1>3, GotoTyped DEF SteerRefused, TInv, WorkOK, Plain, Labels, Saving, Handing
    <2>2. RestOK'
        BY <1>3, QueueAssumption DEF SteerRefused, TInv, RestOK, ledger
    <2>3. QED
        BY <2>1, <2>2 DEF TInv
<1>4. CASE SteerUnsupported(g)
    <2>1. WorkOK'
        BY <1>4, GotoTyped DEF SteerUnsupported, TInv, WorkOK, Plain, Labels, Saving,
            Handing
    <2>2. RestOK'
        BY <1>4, QueueAssumption DEF SteerUnsupported, TInv, RestOK, ledger
    <2>3. QED
        BY <2>1, <2>2 DEF TInv
<1>5. CASE SteerCancel(g)
    <2>1. WorkOK'
        BY <1>5, GotoTyped DEF SteerCancel, TInv, WorkOK, Plain, Labels, Saving, Handing
    <2>2. RestOK'
        BY <1>5 DEF SteerCancel, JobStates, TInv, RestOK, ledger
    <2>3. QED
        BY <2>1, <2>2 DEF TInv
<1>6. CASE SteerAfterCancel(g)
    <2>1. row' \in Rows
        BY <1>6, WithStatusIsRow DEF SteerAfterCancel, TInv, WorkOK, Statuses
    <2>2. WorkOK'
        BY <1>6, <2>1, GotoTyped DEF SteerAfterCancel, TInv, WorkOK, Plain, Labels, Saving,
            Handing
    <2>3. RestOK'
        BY <1>6 DEF SteerAfterCancel, TInv, RestOK, ledger
    <2>4. QED
        BY <2>2, <2>3 DEF TInv
<1>7. CASE LoadClear(g)
    <2>1. WorkOK'
        BY <1>7, LoadTyped DEF LoadClear, TInv, WorkOK, TasksOK, Saving
    <2>2. RestOK'
        BY <1>7 DEF LoadClear, TInv, RestOK, ledger
    <2>3. QED
        BY <2>1, <2>2 DEF TInv
<1>8. CASE ClearSteer(g)
    <2>1. copy[g] \in Rows
        BY <1>8 DEF ClearSteer, TInv, WorkOK, Saving
    <2>2. [copy[g] EXCEPT !.steer = None] \in Rows
        BY <2>1 DEF Rows
    <2>3. WorkOK'
        BY <1>8, <2>2, SaveTyped, UnlockTyped DEF ClearSteer, TInv, WorkOK, Plain, Labels,
            Saving, Handing
    <2>4. RestOK'
        BY <1>8 DEF ClearSteer, TInv, RestOK, ledger
    <2>5. QED
        BY <2>3, <2>4 DEF TInv
<1>9. CASE SteerCancelGivesUp(g)
    <2>1. WorkOK'
        BY <1>9, GotoTyped DEF SteerCancelGivesUp, TInv, WorkOK, Plain, Labels, Saving,
            Handing
    <2>2. RestOK'
        BY <1>9 DEF SteerCancelGivesUp, TInv, RestOK, ledger
    <2>3. QED
        BY <2>1, <2>2 DEF TInv
<1>10. QED
    BY <1>1, <1>2, <1>3, <1>4, <1>5, <1>6, <1>7, <1>8, <1>9

LEMMA DirectTyped ==
    ASSUME TInv, NEW g \in Procs, 
           \/ Begin(g) \/ BeginFails(g) \/ BusySteers(g) \/ BusyRejects(g) \/ BusyQueues(g)
           \/ LoadRequeue(g) \/ CancelStoredSave(g)
    PROVE  TInv'
<1>1. CASE Begin(g)
    <2>1. copy[g] \in Rows
        BY <1>1 DEF Begin, TInv, WorkOK, Saving
    <2>2. [copy[g] EXCEPT !.status = "running"] \in Rows
        BY <2>1 DEF Rows, Statuses
    <2>3. CASE copy[g].status = "running" \/ RuntimeRunning
        BY <1>1, <2>3 DEF Begin, Unlock, Goto, TInv, WorkOK, RestOK, TasksOK, Labels, Saving,
            Handing, ledger
    <2>4. CASE ~ (copy[g].status = "running" \/ RuntimeRunning)
        <3>1. WorkOK'
            BY <1>1, <2>2, <2>4, SaveTyped DEF Begin, TInv, Plain, Labels, Saving, Handing
        <3>2. QED
            BY <1>1, <3>1 DEF Begin, TInv, RestOK, ledger
    <2>5. QED
        BY <2>3, <2>4
<1>2. CASE BeginFails(g)
    <2>1. WorkOK'
        BY <1>2, UnlockTyped DEF BeginFails, TInv, WorkOK, Plain, Labels, Saving, Handing
    <2>2. RestOK'
        BY <1>2 DEF BeginFails, TInv, RestOK, ledger
    <2>3. QED
        BY <2>1, <2>2 DEF TInv
<1>3. CASE BusySteers(g)
    <2>1. WorkOK'
        BY <1>3, GotoTyped DEF BusySteers, TInv, WorkOK, Plain, Labels, Saving, Handing
    <2>2. starts' \in [Prompts -> Nat]
        BY <1>3, CountTyped DEF BusySteers, TInv, RestOK
    <2>3. RestOK'
        BY <1>3, <2>2 DEF BusySteers, TInv, RestOK, ledger
    <2>4. QED
        BY <2>1, <2>3 DEF TInv
<1>4. CASE BusyRejects(g)
    <2>1. WorkOK'
        BY <1>4, GotoTyped DEF BusyRejects, TInv, WorkOK, Plain, Labels, Saving, Handing
    <2>2. RestOK'
        BY <1>4, QueueAssumption DEF BusyRejects, TInv, RestOK, ledger
    <2>3. QED
        BY <2>1, <2>2 DEF TInv
<1>5. CASE BusyQueues(g)
    <2>1. WorkOK'
        BY <1>5 DEF BusyQueues, Goto, TInv, WorkOK, TasksOK, Labels, Saving, Handing
    <2>2. RestOK'
        BY <1>5 DEF BusyQueues, TInv, RestOK, ledger
    <2>3. QED
        BY <2>1, <2>2 DEF TInv
<1>6. CASE LoadRequeue(g)
    <2>1. WorkOK'
        BY <1>6, LoadTyped DEF LoadRequeue, TInv, WorkOK, TasksOK, Saving
    <2>2. RestOK'
        BY <1>6 DEF LoadRequeue, TInv, RestOK, ledger
    <2>3. QED
        BY <2>1, <2>2 DEF TInv
<1>7. CASE CancelStoredSave(g)
    <2>1. copy[g] \in Rows
        BY <1>7 DEF CancelStoredSave, TInv, WorkOK
    <2>2. [copy[g] EXCEPT !.status = "idle"] \in Rows
        BY <2>1 DEF Rows, Statuses
    <2>3. row' \in Rows
        BY <1>7, <2>2, SavedIsRow DEF CancelStoredSave, TInv, WorkOK
    <2>4. WorkOK'
        BY <1>7, <2>3, QueueAssumption DEF CancelStoredSave, Goto, NoTask, Task, Tasks,
            Kinds, TInv, WorkOK, TasksOK, Labels, Saving, Handing
    <2>5. RestOK'
        BY <1>7 DEF CancelStoredSave, TInv, RestOK, ledger
    <2>6. QED
        BY <2>4, <2>5 DEF TInv
<1>8. QED
    BY <1>1, <1>2, <1>3, <1>4, <1>5, <1>6, <1>7

LEMMA SendingTyped ==
    ASSUME TInv, NEW g \in Procs, Sending(g)
    PROVE  TInv'
<1>1. CASE SendResume(g)
    <2>1. WorkOK'
        BY <1>1 DEF SendResume, Goto, TInv, WorkOK, TasksOK, Labels, Saving, Handing
    <2>2. RestOK'
        BY <1>1 DEF SendResume, TInv, RestOK, ledger
    <2>3. QED
        BY <2>1, <2>2 DEF TInv
<1>2. CASE SendResumed(g)
    <2>1. copy[g] \in Rows
        BY <1>2 DEF SendResumed, TInv, WorkOK
    <2>2. row' \in Rows
        BY <1>2, <2>1, SavedIsRow DEF SendResumed, TInv, WorkOK
    <2>3. WorkOK'
        BY <1>2, <2>2 DEF SendResumed, Goto, TInv, WorkOK, TasksOK, Labels, Saving, Handing
    <2>4. RestOK'
        BY <1>2 DEF SendResumed, JobStates, TInv, RestOK, ledger
    <2>5. QED
        BY <2>3, <2>4 DEF TInv
<1>3. CASE SendConflict(g)
    <2>1. WorkOK'
        BY <1>3, GotoTyped DEF SendConflict, TInv, WorkOK, Plain, Labels, Saving, Handing
    <2>2. RestOK'
        BY <1>3, QueueAssumption DEF SendConflict, TInv, RestOK, ledger
    <2>3. QED
        BY <2>1, <2>2 DEF TInv
<1>4. CASE SendWait(g)
    <2>1. WorkOK'
        BY <1>4, GotoTyped DEF SendWait, TInv, WorkOK, Plain, Labels, Saving, Handing
    <2>2. RestOK'
        BY <1>4, QueueAssumption DEF SendWait, TInv, RestOK, ledger
    <2>3. QED
        BY <2>1, <2>2 DEF TInv
<1>5. CASE SendMark(g)
    <2>1. row' \in Rows
        BY <1>5 DEF SendMark, MarkRunning, TInv, WorkOK, Rows, Statuses
    <2>2. WorkOK'
        BY <1>5, <2>1, GotoTyped DEF SendMark, TInv, WorkOK, Plain, Labels, Saving, Handing
    <2>3. RestOK'
        BY <1>5 DEF SendMark, TInv, RestOK, ledger
    <2>4. QED
        BY <2>2, <2>3 DEF TInv
<1>6. CASE SendGoalGone(g)
    <2>1. WorkOK'
        BY <1>6, GotoTyped DEF SendGoalGone, TInv, WorkOK, Plain, Labels, Saving, Handing
    <2>2. RestOK'
        BY <1>6, QueueAssumption DEF SendGoalGone, TInv, RestOK, ledger
    <2>3. QED
        BY <2>1, <2>2 DEF TInv
<1>7. CASE SendAppendFails(g)
    <2>1. row' \in Rows
        BY <1>7, WithStatusIsRow DEF SendAppendFails, TInv, WorkOK, Statuses
    <2>2. WorkOK'
        BY <1>7, <2>1, GotoTyped DEF SendAppendFails, TInv, WorkOK, Plain, Labels, Saving,
            Handing
    <2>3. RestOK'
        BY <1>7 DEF SendAppendFails, TInv, RestOK, ledger
    <2>4. QED
        BY <2>2, <2>3 DEF TInv
<1>8. CASE SendStart(g)
    <2>1. AfterSend(task[g].kind) \in Plain
        BY DEF AfterSend, Plain, Labels, Saving, Handing
    <2>2. lock' \in Procs \cup {None}
        BY <1>8 DEF SendStart, UnlockIfRecovering, TInv, WorkOK
    <2>3. WorkOK'
        BY <1>8, <2>1, <2>2, GotoTyped DEF SendStart, TInv, WorkOK
    <2>4. starts' \in [Prompts -> Nat]
        BY <1>8, CountTyped DEF SendStart, CountStart, TInv, RestOK
    <2>5. RestOK'
        BY <1>8, <2>4 DEF SendStart, JobStates, TInv, RestOK, ledger
    <2>6. QED
        BY <2>3, <2>5 DEF TInv
<1>9. CASE SendFailed(g)
    <2>1. AfterSend(task[g].kind) \in Plain
        BY DEF AfterSend, Plain, Labels, Saving, Handing
    <2>2. lock' \in Procs \cup {None}
        BY <1>9 DEF SendFailed, UnlockIfRecovering, TInv, WorkOK
    <2>3. row' \in Rows
        BY <1>9, WithStatusIsRow DEF SendFailed, TInv, WorkOK, Statuses
    <2>4. WorkOK'
        BY <1>9, <2>1, <2>2, <2>3, GotoTyped DEF SendFailed, TInv, WorkOK
    <2>5. RestOK'
        BY <1>9 DEF SendFailed, TInv, RestOK, ledger
    <2>6. QED
        BY <2>4, <2>5 DEF TInv
<1>10. QED
    BY <1>1, <1>2, <1>3, <1>4, <1>5, <1>6, <1>7, <1>8, <1>9 DEF Sending

LEMMA TurnEndTyped ==
    ASSUME TInv, TurnEnd
    PROVE  TInv'
<1>1. CASE EndTurn
    <2>1. WorkOK'
        BY <1>1 DEF EndTurn, TInv, WorkOK, TasksOK, Labels, Saving, Handing, Procs
    <2>2. RestOK'
        BY <1>1 DEF EndTurn, Outcomes, JobStates, TInv, RestOK, ledger
    <2>3. QED
        BY <2>1, <2>2 DEF TInv
<1>2. CASE LoadFinish
    <2>1. Finisher \in Procs /\ "finish" \in Saving
        BY DEF Procs, Saving
    <2>2. WorkOK'
        BY <1>2, <2>1, LoadTyped DEF LoadFinish, TInv, WorkOK, TasksOK
    <2>3. RestOK'
        BY <1>2 DEF LoadFinish, TInv, RestOK, ledger
    <2>4. QED
        BY <2>2, <2>3 DEF TInv
<1>3. CASE Finish
    <2>1. row' \in Rows
        BY <1>3, WithStatusIsRow DEF Finish, TInv, WorkOK, Statuses
    <2>2. WorkOK'
        BY <1>3, <2>1 DEF Finish, AfterFinish, Unlock, TInv, WorkOK, TasksOK, Labels,
            Saving, Handing, Procs
    <2>3. RestOK'
        BY <1>3 DEF Finish, TInv, RestOK, ledger
    <2>4. QED
        BY <2>2, <2>3 DEF TInv
<1>4. CASE CloseTurn
    <2>1. at' \in [Procs -> Labels] /\ \A h \in Procs : at'[h] = at[h] \/ at'[h] \in {"out",
        "send", "cancelDone"}
        BY <1>4 DEF CloseTurn, Wake, TInv, WorkOK, TasksOK, Labels, Saving, Handing, Procs
    <2>2. WorkOK'
        BY <1>4, <2>1 DEF CloseTurn, TInv, WorkOK, TasksOK, Saving
    <2>3. RestOK'
        BY <1>4 DEF CloseTurn, JobStates, TInv, RestOK, ledger
    <2>4. QED
        BY <2>2, <2>3 DEF TInv
<1>5. QED
    BY <1>1, <1>2, <1>3, <1>4 DEF TurnEnd

LEMMA RestartTyped ==
    ASSUME TInv, UserCancel \/ ChangeGoal \/ Crash \/ Restart \/ AtRest
    PROVE  TInv'
<1>1. CASE UserCancel
    <2>1. WorkOK'
        BY <1>1 DEF UserCancel, TInv, WorkOK, TasksOK
    <2>2. RestOK'
        BY <1>1 DEF UserCancel, JobStates, TInv, RestOK, ledger
    <2>3. QED
        BY <2>1, <2>2 DEF TInv
<1>2. CASE ChangeGoal
    <2>1. WorkOK'
        BY <1>2 DEF ChangeGoal, TInv, WorkOK, TasksOK, Rows
    <2>2. RestOK'
        BY <1>2 DEF ChangeGoal, TInv, RestOK, ledger
    <2>3. QED
        BY <2>1, <2>2 DEF TInv
<1>3. CASE Crash
    <2>1. row' \in Rows
        BY <1>3 DEF Crash, TInv, WorkOK, Rows, Statuses
    <2>2. WorkOK'
        BY <1>3, <2>1, QueueAssumption DEF Crash, NoTask, Task, Tasks, Kinds, TInv, WorkOK,
            TasksOK, Labels, Saving, Handing
    <2>3. crashes' \in 0..MaxCrashes /\ crashes \in Nat /\ crashes' = crashes + 1
        BY <1>3, QueueAssumption DEF Crash, TInv, RestOK
    <2>4. cut' \in [Actions -> 0..crashes']
        BY <1>3, <2>3 DEF Crash, TInv, RestOK
    <2>5. RestOK'
        BY <1>3, <2>3, <2>4 DEF Crash, JobStates, TInv, RestOK
    <2>6. QED
        BY <2>2, <2>5 DEF TInv
<1>4. CASE RecoverNothing
    <2>1. Recovery \in Procs
        BY DEF Procs
    <2>2. WorkOK'
        BY <1>4, <2>1, GotoTyped DEF RecoverNothing, TInv, WorkOK, Plain, Labels, Saving,
            Handing
    <2>3. RestOK'
        BY <1>4 DEF RecoverNothing, TInv, RestOK, ledger
    <2>4. QED
        BY <2>2, <2>3 DEF TInv
<1>5. CASE RecoverTurn
    <2>1. Task("recover", IF row.turn \in Prompts THEN row.turn ELSE None, 0) \in Tasks
        BY DEF Task, Tasks, Kinds
    <2>2. WorkOK'
        BY <1>5, <2>1 DEF RecoverTurn, Task, TInv, WorkOK, TasksOK, Labels, Saving, Handing,
            Procs
    <2>3. RestOK'
        BY <1>5 DEF RecoverTurn, TInv, RestOK, ledger
    <2>4. QED
        BY <2>2, <2>3 DEF TInv
<1>6. CASE RecoverAction
    <2>1. PICK r \in Runners : at' = [at EXCEPT ![Recovery] = "drain", ![r] = "act"] /\
        task' = [task EXCEPT ![r] = Task("claim", row.turn, 0)]
        BY <1>6 DEF RecoverAction
    <2>2. row.turn \in Prompts
        BY <1>6, QueueAssumption DEF RecoverAction, Prompts
    <2>3. Task("claim", row.turn, 0) \in Tasks
        BY <2>2 DEF Task, Tasks, Kinds
    <2>4. WorkOK'
        BY <1>6, <2>1, <2>2, <2>3 DEF RecoverAction, Task, TInv, WorkOK, TasksOK, Labels,
            Saving, Handing, Procs
    <2>5. RestOK'
        BY <1>6 DEF RecoverAction, TInv, RestOK, ledger
    <2>6. QED
        BY <2>4, <2>5 DEF TInv
<1>7. CASE AtRest
    <2>1. WorkOK'
        BY <1>7 DEF AtRest, vars, TInv, WorkOK, TasksOK
    <2>2. RestOK'
        BY <1>7 DEF AtRest, vars, TInv, RestOK, ledger
    <2>3. QED
        BY <2>1, <2>2 DEF TInv
<1>8. QED
    BY <1>1, <1>2, <1>3, <1>4, <1>5, <1>6, <1>7 DEF Restart

LEMMA NextTyped == TInv /\ [Next]_vars => TInv'
<1> SUFFICES ASSUME TInv, [Next]_vars
             PROVE  TInv'
    OBVIOUS
<1>1. ASSUME NEW g \in Goroutines, Requests(g) PROVE TInv'
    BY <1>1, RequestsTyped DEF Procs
<1>2. ASSUME NEW g \in Procs, Handlers(g) PROVE TInv'
    BY <1>2, QueueHandlersTyped, ClaimsTyped, OutcomesTyped, SteersTyped, DirectTyped
        DEF Handlers
<1>3. ASSUME NEW g \in Procs, Sending(g) PROVE TInv'
    BY <1>3, SendingTyped
<1>4. CASE TurnEnd
    BY <1>4, TurnEndTyped
<1>5. CASE UserCancel \/ ChangeGoal \/ Crash \/ Restart \/ AtRest
    BY <1>5, RestartTyped
<1>6. CASE UNCHANGED vars
    BY <1>6 DEF vars, TInv, WorkOK, RestOK, TasksOK
<1>7. QED
    BY <1>1, <1>2, <1>3, <1>4, <1>5, <1>6 DEF Next

LEMMA TInvInvariant == Spec => []TInv
<1>1. QED
    BY InitTyped, NextTyped, PTL DEF Spec

\* The stored session, the agent's turn and the goroutines keep their types, and
\* whoever is about to save a session has loaded one: no handler of server/queue.go
\* saves a session it has not loaded, whatever is interleaved with it.
THEOREM TypeCorrect == Spec => []TypeOK
<1>1. QED
    BY TInvInvariant, TInvTypes, PTL

-----------------------------------------------------------------------------
\* The session's lock. Its holder is the goroutine that has loaded the row and
\* will save it, or the recovery goroutine while it hands the interrupted turn to
\* the agent. Nobody else writes the queue, as long as no row is saved without
\* the lock.

NoUnlockedSaves == Ops \cap {"cancelStored", "resumeSave"} = {}

Locking ==
    \A g \in Procs :
        /\ at[g] \in Saving => lock = g
        /\ task[g].kind = "recover" => lock = g /\ at[g] \in Handing

FreshCopies ==
    NoUnlockedSaves =>
        \A g \in Procs :
            /\ at[g] # "stale"
            /\ at[g] \in Saving =>
                  /\ copy[g].pub = row.pub
                  /\ copy[g].int = row.int
                  /\ copy[g].steer = row.steer

LInv == Locking /\ FreshCopies

SameQueue ==
    /\ row'.pub = row.pub
    /\ row'.int = row.int
    /\ row'.steer = row.steer

LEMMA WithStatusKeepsQueue ==
    ASSUME row \in Rows, NEW s
    PROVE  /\ WithStatus(s).pub = row.pub
           /\ WithStatus(s).int = row.int
           /\ WithStatus(s).steer = row.steer
BY DEF WithStatus, Rows

\* A step outside the lock moves some goroutine on and leaves the queue alone.
LEMMA OutsideKeeps ==
    ASSUME TInv, LInv, lock' = lock, NoUnlockedSaves => SameQueue,
           \A h \in Procs : at'[h] \in Saving => at[h] \in Saving /\ copy'[h] = copy[h],
           NoUnlockedSaves => \A h \in Procs : at'[h] # "stale",
           \A h \in Procs : task'[h].kind = "recover" =>
                task[h].kind = "recover" /\ at'[h] \in Handing
    PROVE  LInv'
<1>1. Locking'
    BY DEF LInv, Locking
<1>2. FreshCopies'
    BY DEF LInv, FreshCopies, SameQueue, NoUnlockedSaves
<1>3. QED
    BY <1>1, <1>2 DEF LInv

LEMMA GotoKeeps ==
    ASSUME TInv, LInv, NEW g \in Procs, at[g] \notin Saving,
           NEW l \in Labels \ (Saving \cup {"stale"}), Goto(g, l),
           task[g].kind = "recover" => l \in Handing \cup {"out", "drain"},
           \A h \in Procs : h # g => copy'[h] = copy[h],
           lock' = lock, NoUnlockedSaves => SameQueue
    PROVE  LInv'
<1>1. at' = [at EXCEPT ![g] = l]
    BY DEF Goto
<1>2. \A h \in Procs : at'[h] \in Saving => at[h] \in Saving /\ copy'[h] = copy[h]
    BY <1>1 DEF TInv, WorkOK
<1>3. \A h \in Procs : task'[h].kind = "recover" =>
            task[h].kind = "recover" /\ at'[h] \in Handing
    BY <1>1 DEF Goto, TInv, WorkOK, LInv, Locking, NoTask, Task, Handing
<1>4. NoUnlockedSaves => \A h \in Procs : at'[h] # "stale"
    BY <1>1 DEF TInv, WorkOK, LInv, FreshCopies
<1>5. QED
    BY <1>2, <1>3, <1>4, OutsideKeeps

\* The holder of the lock saves, and nobody else can be about to save.
LEMMA UnlockKeeps ==
    ASSUME TInv, LInv, NEW g \in Procs, lock = g, lock' = None,
           at'[g] \notin Saving \cup {"stale"}, task'[g].kind # "recover",
           \A h \in Procs : h # g => at'[h] = at[h] \/ at'[h] \in {"act", "send"},
           \A h \in Procs : h # g => task'[h] = task[h] \/ task'[h].kind \in {"claim", "goal"}
    PROVE  LInv'
<1>1. \A h \in Procs : h # g => at[h] \notin Saving /\ task[h].kind # "recover"
    BY DEF LInv, Locking
<1>2. \A h \in Procs : at'[h] \notin Saving /\ task'[h].kind # "recover"
    BY <1>1 DEF Saving
<1>3. NoUnlockedSaves => \A h \in Procs : at'[h] # "stale"
    BY DEF LInv, FreshCopies
<1>4. QED
    BY <1>2, <1>3 DEF LInv, Locking, FreshCopies, NoUnlockedSaves

LEMMA SaveKeeps ==
    ASSUME TInv, LInv, NEW g \in Procs, at[g] \in Saving,
           NEW l \in Labels \ (Saving \cup {"stale"}), Goto(g, l), Unlock(g)
    PROVE  LInv'
<1>1. lock = g /\ lock' = None /\ task[g].kind # "recover"
    BY DEF LInv, Locking, Unlock, Saving, Handing
<1>2. at'[g] = l /\ \A h \in Procs : h # g => at'[h] = at[h]
    BY DEF Goto, TInv, WorkOK
<1>3. task'[g].kind # "recover" /\ \A h \in Procs : h # g => task'[h] = task[h]
    BY <1>1 DEF Goto, TInv, WorkOK, NoTask, Task
<1>4. QED
    BY <1>1, <1>2, <1>3, UnlockKeeps

\* The lock is free: nobody is about to save, and the copy is the stored row.
LEMMA LoadKeeps ==
    ASSUME TInv, LInv, NEW g \in Procs, NEW l \in Saving, Load(g, l), row' = row,
           task'[g].kind # "recover",
           \A h \in Procs : h # g => task'[h] = task[h]
    PROVE  LInv'
<1>1. \A h \in Procs : at[h] \notin Saving /\ task[h].kind # "recover"
    BY QueueAssumption DEF Load, LInv, Locking
<1>2. /\ lock' = g
      /\ at'[g] = l
      /\ copy'[g] = row
      /\ \A h \in Procs : h # g => at'[h] = at[h]
    BY DEF Load, TInv, WorkOK
<1>3. Locking'
    BY <1>1, <1>2 DEF Locking
<1>4. FreshCopies'
    BY <1>1, <1>2 DEF FreshCopies, LInv, NoUnlockedSaves, Saving
<1>5. QED
    BY <1>3, <1>4 DEF LInv

LEMMA RunTurnKeeps ==
    ASSUME TInv, LInv, NEW g \in Procs, at[g] \in Saving, NEW k \in {"claim", "goal"},
           NEW p \in Prompts \cup {None}, RunTurn(g, k, p), Unlock(g)
    PROVE  LInv'
<1>1. lock = g /\ lock' = None /\ task[g].kind # "recover"
    BY DEF LInv, Locking, Unlock, Saving, Handing
<1>2. PICK r \in Procs :
        /\ at' = [at EXCEPT ![g] = AfterDrain(g), ![r] = IF p \in Actions THEN "act" ELSE "send"]
        /\ task' = [task EXCEPT ![r] = Task(k, p, 0)]
    BY DEF RunTurn
<1>3. at'[g] \in {"close", "out", "act", "send"}
    BY <1>2 DEF AfterDrain, TInv, WorkOK
<1>4. task'[g].kind # "recover"
    BY <1>1, <1>2 DEF TInv, WorkOK, Task
<1>5. \A h \in Procs : h # g => at'[h] = at[h] \/ at'[h] \in {"act", "send"}
    BY <1>2 DEF TInv, WorkOK
<1>6. \A h \in Procs : h # g => task'[h] = task[h] \/ task'[h].kind \in {"claim", "goal"}
    BY <1>2 DEF TInv, WorkOK, Task
<1>7. QED
    BY <1>1, <1>3, <1>4, <1>5, <1>6, UnlockKeeps DEF Saving

LEMMA RequestsKeep ==
    ASSUME TInv, LInv, NEW g \in Procs, 
           Requests(g)
    PROVE  LInv'
<1>1. ASSUME NEW p \in Public, RequestAppend(g, p) PROVE LInv'
    <2>1. Load(g, "append") /\ row' = row
        BY <1>1 DEF RequestAppend, Request
    <2>2. task' = [task EXCEPT ![g] = Task("queue", p, 0)]
        BY <1>1 DEF RequestAppend, Request
    <2>3. task'[g].kind # "recover" /\ \A h \in Procs : h # g => task'[h] = task[h]
        BY <2>2 DEF TInv, WorkOK, Task
    <2>4. QED
        BY <2>1, <2>3, LoadKeeps DEF Saving
<1>2. ASSUME NEW p \in Public, RequestDelete(g, p) PROVE LInv'
    <2>1. Load(g, "delete") /\ row' = row
        BY <1>2 DEF RequestDelete, Request
    <2>2. task' = [task EXCEPT ![g] = Task("queue", p, 0)]
        BY <1>2 DEF RequestDelete, Request
    <2>3. task'[g].kind # "recover" /\ \A h \in Procs : h # g => task'[h] = task[h]
        BY <2>2 DEF TInv, WorkOK, Task
    <2>4. QED
        BY <2>1, <2>3, LoadKeeps DEF Saving
<1>3. ASSUME NEW p \in Public, RequestSteer(g, p) PROVE LInv'
    <2>1. Load(g, "steer") /\ row' = row
        BY <1>3 DEF RequestSteer, Request
    <2>2. task' = [task EXCEPT ![g] = Task("steer", p, 0)]
        BY <1>3 DEF RequestSteer, Request
    <2>3. task'[g].kind # "recover" /\ \A h \in Procs : h # g => task'[h] = task[h]
        BY <2>2 DEF TInv, WorkOK, Task
    <2>4. QED
        BY <2>1, <2>3, LoadKeeps DEF Saving
<1>4. ASSUME NEW p \in Public, RequestBegin(g, p) PROVE LInv'
    <2>1. Load(g, "begin") /\ row' = row
        BY <1>4 DEF RequestBegin, Request
    <2>2. task' = [task EXCEPT ![g] = Task("direct", p, 0)]
        BY <1>4 DEF RequestBegin, Request
    <2>3. task'[g].kind # "recover" /\ \A h \in Procs : h # g => task'[h] = task[h]
        BY <2>2 DEF TInv, WorkOK, Task
    <2>4. QED
        BY <2>1, <2>3, LoadKeeps DEF Saving
<1>5. ASSUME NEW p \in Public, SendExternal(g, p) PROVE LInv'
    <2>1. at'= [at EXCEPT ![g] = "send"] /\ task' = [task EXCEPT ![g] = Task("ext", p, 0)]
        BY <1>5 DEF SendExternal
    <2>2. \A h \in Procs : task'[h].kind = "recover" => task[h].kind = "recover" /\ at'[h]
        \in Handing
        BY <2>1 DEF TInv, WorkOK, LInv, Locking, Task, Handing
    <2>3. \A h \in Procs : at'[h] \in Saving \cup {"stale"} => at'[h] = at[h]
        BY <2>1 DEF TInv, WorkOK, Saving
    <2>4. QED
        BY <1>5, <2>2, <2>3, OutsideKeeps DEF SendExternal, SameQueue, LInv, FreshCopies,
            Saving
<1>6. ASSUME NEW p \in Internal, RequestEnqueue(g, p) PROVE LInv'
    <2>1. Load(g, "enqueue") /\ row' = row
        BY <1>6 DEF RequestEnqueue, Request
    <2>2. task' = [task EXCEPT ![g] = Task("queue", p, 0)]
        BY <1>6 DEF RequestEnqueue, Request
    <2>3. task'[g].kind # "recover" /\ \A h \in Procs : h # g => task'[h] = task[h]
        BY <2>2 DEF TInv, WorkOK, Task
    <2>4. QED
        BY <2>1, <2>3, LoadKeeps DEF Saving
<1>7. CASE RequestReorder(g)
    <2>1. Load(g, "reorder") /\ row' = row
        BY <1>7 DEF RequestReorder, Request
    <2>2. task' = [task EXCEPT ![g] = Task("queue", None, 0)]
        BY <1>7 DEF RequestReorder, Request
    <2>3. task'[g].kind # "recover" /\ \A h \in Procs : h # g => task'[h] = task[h]
        BY <2>2 DEF TInv, WorkOK, Task
    <2>4. QED
        BY <2>1, <2>3, LoadKeeps DEF Saving
<1>8. CASE CancelStored(g)
    <2>1. ~ NoUnlockedSaves
        BY <1>8 DEF CancelStored, NoUnlockedSaves
    <2>2. at'= [at EXCEPT ![g] = "stale"] /\ task' = task /\ at[g] = "out"
        BY <1>8 DEF CancelStored, Goto
    <2>3. \A h \in Procs : task'[h].kind = "recover" => task[h].kind = "recover" /\ at'[h]
        \in Handing
        BY <2>2 DEF TInv, WorkOK, LInv, Locking, Handing
    <2>4. \A h \in Procs : at'[h] \in Saving => at[h] \in Saving /\ copy'[h] = copy[h]
        BY <1>8, <2>2 DEF CancelStored, TInv, WorkOK, Saving
    <2>5. QED
        BY <1>8, <2>1, <2>3, <2>4, OutsideKeeps DEF CancelStored
<1>9. QED
    BY <1>1, <1>2, <1>3, <1>4, <1>5, <1>6, <1>7, <1>8 DEF Requests

LEMMA QueueHandlersKeep ==
    ASSUME TInv, LInv, NEW g \in Procs, 
           \/ AppendPrompt(g) \/ DeletePrompt(g) \/ ReorderPrompts(g) \/ EnqueueInternalTurn(g)
           \/ Drain(g) \/ ClaimPrompt(g) \/ ClaimGoal(g) \/ ClaimNothing(g)
    PROVE  LInv'
<1>1. CASE AppendPrompt(g)
    BY <1>1, SaveKeeps DEF AppendPrompt, Save, AfterMutation, Labels, Saving, Handing
<1>2. CASE DeletePrompt(g)
    <2>1. PICK i \in DOMAIN copy[g].pub : Save(g, [copy[g] EXCEPT !.pub = RemoveAt(@, i)],
        AfterMutation([copy[g] EXCEPT !.pub = RemoveAt(@, i)]))
        BY <1>2 DEF DeletePrompt
    <2>2. QED
        BY <1>2, <2>1, SaveKeeps DEF DeletePrompt, Save, AfterMutation, Labels, Saving,
            Handing
<1>3. CASE ReorderPrompts(g)
    <2>1. PICK q \in Permuted(copy[g].pub) : Save(g, [copy[g] EXCEPT !.pub = q],
        AfterMutation([copy[g] EXCEPT !.pub = q]))
        BY <1>3 DEF ReorderPrompts
    <2>2. QED
        BY <1>3, <2>1, SaveKeeps DEF ReorderPrompts, Save, AfterMutation, Labels, Saving,
            Handing
<1>4. CASE EnqueueInternalTurn(g)
    BY <1>4, SaveKeeps DEF EnqueueInternalTurn, Save, Labels, Saving, Handing
<1>5. CASE Drain(g)
    <2>1. task[g].kind # "recover"
        BY <1>5 DEF Drain, LInv, Locking, Handing
    <2>2. CASE Load(g, "claim")
        BY <1>5, <2>1, <2>2, LoadKeeps DEF Drain, Saving
    <2>3. CASE at' = [at EXCEPT ![g] = "out"] /\ UNCHANGED <<lock, copy>>
        <3>1. \A h \in Procs : at'[h] \in Saving \cup {"stale"} => at'[h] = at[h]
            BY <2>3 DEF TInv, WorkOK, Saving
        <3>2. \A h \in Procs : task'[h].kind = "recover" =>
                    task[h].kind = "recover" /\ at'[h] \in Handing
            BY <1>5, <2>1, <2>3 DEF Drain, TInv, WorkOK, LInv, Locking, Handing
        <3>3. QED
            BY <1>5, <2>3, <3>1, <3>2, OutsideKeeps
                DEF Drain, SameQueue, LInv, FreshCopies, Saving
    <2>4. QED
        BY <1>5, <2>2, <2>3 DEF Drain
<1>6. CASE ClaimPrompt(g)
    <2>1. copy[g] \in Rows
        BY <1>6 DEF ClaimPrompt, TInv, WorkOK, Saving
    <2>2. NextPrompt(copy[g]) \in Prompts
        BY <1>6, <2>1, NextPromptIsPrompt DEF ClaimPrompt
    <2>3. QED
        BY <1>6, <2>2, RunTurnKeeps DEF ClaimPrompt, Saving
<1>7. CASE ClaimGoal(g)
    BY <1>7, RunTurnKeeps DEF ClaimGoal, Saving
<1>8. CASE ClaimNothing(g)
    <2>1. lock = g /\ task[g].kind # "recover"
        BY <1>8 DEF ClaimNothing, LInv, Locking, Saving, Handing
    <2>2. at'[g] \notin Saving \cup {"stale"}
        BY <1>8 DEF ClaimNothing, AfterDrain, TInv, WorkOK, Saving
    <2>3. QED
        BY <1>8, <2>1, <2>2, UnlockKeeps DEF ClaimNothing, Unlock, TInv, WorkOK
<1>9. QED
    BY <1>1, <1>2, <1>3, <1>4, <1>5, <1>6, <1>7, <1>8

LEMMA TurnHandlersKeep ==
    ASSUME TInv, LInv, NEW g \in Procs, 
           \/ RunAction(g) \/ FinishAction(g) \/ FailTurn(g)
           \/ LoadRestore(g) \/ RestorePrompt(g)
           \/ ClaimSteered(g) \/ SteerTaken(g) \/ SteerRefused(g) \/ SteerUnsupported(g)
           \/ SteerCancel(g) \/ SteerCancelGivesUp(g) \/ SteerAfterCancel(g)
           \/ LoadClear(g) \/ ClearSteer(g)
    PROVE  LInv'
<1>1. CASE FinishAction(g)
    <2>1. SameQueue
        BY <1>1, WithStatusKeepsQueue DEF FinishAction, SameQueue, TInv, WorkOK
    <2>2. QED
        BY <1>1, <2>1, GotoKeeps DEF FinishAction, ledger, Labels, Saving, Handing
<1>2. CASE FailTurn(g)
    BY <1>2, GotoKeeps DEF FailTurn, SameQueue, ledger, Labels, Saving, Handing
<1>3. CASE LoadRestore(g)
    <2>1. task[g].kind # "recover"
        BY <1>3 DEF LoadRestore, LInv, Locking, Handing
    <2>2. QED
        BY <1>3, <2>1, LoadKeeps DEF LoadRestore, Saving
<1>4. CASE RestorePrompt(g)
    BY <1>4, SaveKeeps DEF RestorePrompt, Save, Labels, Saving, Handing
<1>5. CASE ClaimSteered(g)
    <2>1. lock = g /\ task[g].kind # "recover"
        BY <1>5 DEF ClaimSteered, LInv, Locking, Saving, Handing
    <2>2. PICK i \in DOMAIN copy[g].pub : task' = [task EXCEPT ![g].idx = i - 1]
        BY <1>5 DEF ClaimSteered
    <2>3. task'[g].kind # "recover" /\ \A h \in Procs : h # g => task'[h] = task[h]
        BY <2>1, <2>2 DEF TInv, WorkOK, Tasks
    <2>4. at'[g] \notin Saving \cup {"stale"} /\ \A h \in Procs : h # g => at'[h] = at[h]
        BY <1>5 DEF ClaimSteered, TInv, WorkOK, Saving
    <2>5. QED
        BY <1>5, <2>1, <2>3, <2>4, UnlockKeeps DEF ClaimSteered, Unlock
<1>6. CASE SteerTaken(g)
    BY <1>6, GotoKeeps DEF SteerTaken, SameQueue, LInv, Locking, Labels, Saving, Handing
<1>7. CASE SteerRefused(g)
    BY <1>7, GotoKeeps DEF SteerRefused, SameQueue, ledger, Labels, Saving, Handing
<1>8. CASE SteerUnsupported(g)
    BY <1>8, GotoKeeps DEF SteerUnsupported, SameQueue, ledger, LInv, Locking, Labels,
        Saving, Handing
<1>9. CASE SteerCancel(g)
    BY <1>9, GotoKeeps DEF SteerCancel, SameQueue, ledger, LInv, Locking, Labels, Saving,
        Handing
<1>10. CASE SteerAfterCancel(g)
    <2>1. SameQueue
        BY <1>10, WithStatusKeepsQueue DEF SteerAfterCancel, SameQueue, TInv, WorkOK
    <2>2. QED
        BY <1>10, <2>1, GotoKeeps DEF SteerAfterCancel, ledger, Labels, Saving, Handing
<1>11. CASE LoadClear(g)
    <2>1. task[g].kind # "recover"
        BY <1>11 DEF LoadClear, LInv, Locking, Handing
    <2>2. QED
        BY <1>11, <2>1, LoadKeeps DEF LoadClear, Saving
<1>12. CASE ClearSteer(g)
    BY <1>12, SaveKeeps DEF ClearSteer, Save, Labels, Saving, Handing
<1>13. CASE RunAction(g)
    BY <1>13, GotoKeeps DEF RunAction, SameQueue, LInv, Locking, Labels, Saving, Handing
<1>14. CASE SteerCancelGivesUp(g)
    BY <1>14, GotoKeeps DEF SteerCancelGivesUp, SameQueue, ledger, LInv, Locking, Labels,
        Saving, Handing
<1>15. QED
    BY <1>1, <1>2, <1>3, <1>4, <1>5, <1>6, <1>7, <1>8, <1>9, <1>10, <1>11, <1>12, <1>13,
        <1>14

LEMMA DirectKeeps ==
    ASSUME TInv, LInv, NEW g \in Procs, 
           \/ Begin(g) \/ BeginFails(g) \/ BusySteers(g) \/ BusyRejects(g) \/ BusyQueues(g)
           \/ LoadRequeue(g) \/ CancelStoredSave(g)
    PROVE  LInv'
<1>1. CASE Begin(g)
    BY <1>1, SaveKeeps DEF Begin, Save, Labels, Saving, Handing
<1>2. CASE BeginFails(g)
    BY <1>2, SaveKeeps DEF BeginFails, Save, Labels, Saving, Handing
<1>3. CASE BusySteers(g)
    BY <1>3, GotoKeeps DEF BusySteers, SameQueue, ledger, Labels, Saving, Handing
<1>4. CASE BusyRejects(g)
    BY <1>4, GotoKeeps DEF BusyRejects, SameQueue, ledger, Labels, Saving, Handing
<1>5. CASE BusyQueues(g)
    BY <1>5, GotoKeeps DEF BusyQueues, SameQueue, ledger, LInv, Locking, Labels, Saving,
        Handing
<1>6. CASE LoadRequeue(g)
    <2>1. task[g].kind # "recover"
        BY <1>6 DEF LoadRequeue, LInv, Locking, Handing
    <2>2. QED
        BY <1>6, <2>1, LoadKeeps DEF LoadRequeue, Saving
<1>7. CASE CancelStoredSave(g)
    <2>1. ~ NoUnlockedSaves
        BY <1>7 DEF CancelStoredSave, LInv, FreshCopies
    <2>2. QED
        BY <1>7, <2>1, GotoKeeps DEF CancelStoredSave, Labels, Saving, Handing
<1>8. QED
    BY <1>1, <1>2, <1>3, <1>4, <1>5, <1>6, <1>7

\* The recovery goroutine has handed the interrupted turn to the agent.
LEMMA SentUnlocks ==
    ASSUME TInv, LInv, NEW g \in Procs, task[g].kind = "recover", Goto(g, "drain"),
           lock' = None
    PROVE  LInv'
<1>1. lock = g
    BY DEF LInv, Locking
<1>2. at'[g] = "drain" /\ \A h \in Procs : h # g => at'[h] = at[h]
    BY DEF Goto, TInv, WorkOK
<1>3. task'[g] = NoTask /\ \A h \in Procs : h # g => task'[h] = task[h]
    BY DEF Goto, TInv, WorkOK
<1>4. task'[g].kind # "recover"
    BY <1>3 DEF NoTask, Task
<1>5. QED
    BY <1>1, <1>2, <1>3, <1>4, UnlockKeeps DEF Saving

LEMMA SendingKeeps ==
    ASSUME TInv, LInv, NEW g \in Procs, 
           Sending(g)
    PROVE  LInv'
<1>1. CASE SendResume(g)
    BY <1>1, GotoKeeps DEF SendResume, SameQueue, ledger, Labels, Saving, Handing
<1>2. CASE SendResumed(g)
    <2>1. NoUnlockedSaves => SameQueue
        BY <1>2 DEF SendResumed, NoUnlockedSaves, SameQueue
    <2>2. QED
        BY <1>2, <2>1, GotoKeeps DEF SendResumed, Labels, Saving, Handing
<1>3. CASE SendConflict(g)
    BY <1>3, GotoKeeps DEF SendConflict, SameQueue, ledger, Labels, Saving, Handing
<1>4. CASE SendWait(g)
    BY <1>4, GotoKeeps DEF SendWait, SameQueue, ledger, Labels, Saving, Handing
<1>5. CASE SendMark(g)
    <2>1. SameQueue
        BY <1>5 DEF SendMark, MarkRunning, SameQueue, TInv, WorkOK, Rows
    <2>2. QED
        BY <1>5, <2>1, GotoKeeps DEF SendMark, Labels, Saving, Handing
<1>6. CASE SendGoalGone(g)
    BY <1>6, GotoKeeps DEF SendGoalGone, SameQueue, ledger, Labels, Saving, Handing
<1>7. CASE SendAppendFails(g)
    <2>1. SameQueue
        BY <1>7, WithStatusKeepsQueue DEF SendAppendFails, SameQueue, TInv, WorkOK
    <2>2. QED
        BY <1>7, <2>1, GotoKeeps DEF SendAppendFails, ledger, Labels, Saving, Handing
<1>8. CASE SendStart(g)
    <2>1. SameQueue
        BY <1>8 DEF SendStart, SameQueue
    <2>2. QED
        <3>1. CASE task[g].kind = "recover"
            BY <1>8, <2>1, <3>1, SentUnlocks DEF SendStart, UnlockIfRecovering, AfterSend
        <3>2. CASE task[g].kind # "recover"
            BY <1>8, <2>1, <3>2, GotoKeeps
                DEF SendStart, UnlockIfRecovering, AfterSend, Labels, Saving, Handing
        <3>3. QED
            BY <3>1, <3>2
<1>9. CASE SendFailed(g)
    <2>1. SameQueue
        BY <1>9, WithStatusKeepsQueue DEF SendFailed, SameQueue, TInv, WorkOK
    <2>2. QED
        <3>1. CASE task[g].kind = "recover"
            BY <1>9, <2>1, <3>1, SentUnlocks DEF SendFailed, UnlockIfRecovering, AfterSend
        <3>2. CASE task[g].kind # "recover"
            BY <1>9, <2>1, <3>2, GotoKeeps
                DEF SendFailed, UnlockIfRecovering, AfterSend, Labels, Saving, Handing
        <3>3. QED
            BY <3>1, <3>2
<1>10. QED
    BY <1>1, <1>2, <1>3, <1>4, <1>5, <1>6, <1>7, <1>8, <1>9 DEF Sending

LEMMA TurnEndKeeps ==
    ASSUME TInv, LInv, 
           TurnEnd
    PROVE  LInv'
<1>1. CASE EndTurn
    <2>1. at' = [at EXCEPT ![Finisher] = "toFinish"] /\ Finisher \in Procs
        BY <1>1 DEF EndTurn, Procs
    <2>2. \A h \in Procs : at'[h] \in Saving \cup {"stale"} => at'[h] = at[h]
        BY <2>1 DEF TInv, WorkOK, Saving
    <2>3. \A h \in Procs : task'[h].kind = "recover" => task[h].kind = "recover" /\ at'[h]
        \in Handing
        BY <1>1, <2>1 DEF EndTurn, TInv, WorkOK, LInv, Locking, Handing
    <2>4. QED
        BY <1>1, <2>2, <2>3, OutsideKeeps DEF EndTurn, SameQueue, ledger, LInv, FreshCopies,
            Saving
<1>2. CASE LoadFinish
    <2>1. Finisher \in Procs
        BY DEF Procs
    <2>2. task[Finisher].kind # "recover"
        BY <1>2, <2>1 DEF LoadFinish, LInv, Locking, Handing
    <2>3. QED
        BY <1>2, <2>1, <2>2, LoadKeeps DEF LoadFinish, Saving
<1>3. CASE Finish
    <2>1. Finisher \in Procs
        BY DEF Procs
    <2>2. lock = Finisher /\ task[Finisher].kind # "recover"
        BY <1>3, <2>1 DEF Finish, LInv, Locking, Saving, Handing
    <2>3. at'[Finisher] \notin Saving \cup {"stale"}
        BY <1>3, <2>1 DEF Finish, AfterFinish, TInv, WorkOK, Saving
    <2>4. QED
        BY <1>3, <2>1, <2>2, <2>3, UnlockKeeps DEF Finish, Unlock, TInv, WorkOK
<1>4. CASE CloseTurn
    <2>1. \A h \in Procs : at'[h] \in Saving \cup {"stale"} => at'[h] = at[h]
        BY <1>4 DEF CloseTurn, Wake, TInv, WorkOK, Saving
    <2>2. \A h \in Procs : task[h].kind = "recover" => at'[h] \in Handing
        BY <1>4 DEF CloseTurn, Wake, LInv, Locking, Handing
    <2>3. QED
        BY <1>4, <2>1, <2>2, OutsideKeeps DEF CloseTurn, SameQueue, ledger, LInv,
            FreshCopies, Saving
<1>5. QED
    BY <1>1, <1>2, <1>3, <1>4 DEF TurnEnd

LEMMA RestartKeeps ==
    ASSUME TInv, LInv, 
           UserCancel \/ ChangeGoal \/ Crash \/ Restart \/ AtRest
    PROVE  LInv'
<1>1. CASE UserCancel
    BY <1>1, OutsideKeeps DEF UserCancel, SameQueue, LInv, Locking, FreshCopies
<1>2. CASE ChangeGoal
    <2>1. SameQueue
        BY <1>2 DEF ChangeGoal, SameQueue, TInv, WorkOK, Rows
    <2>2. QED
        BY <1>2, <2>1, OutsideKeeps DEF ChangeGoal, LInv, Locking, FreshCopies
<1>3. CASE Crash
    BY <1>3 DEF Crash, LInv, Locking, FreshCopies, NoUnlockedSaves, NoTask, Task, Saving
<1>4. CASE RecoverNothing
    <2>1. Recovery \in Procs
        BY DEF Procs
    <2>2. QED
        BY <1>4, <2>1, GotoKeeps DEF RecoverNothing, SameQueue, ledger, Labels, Saving,
            Handing
<1>5. CASE RecoverTurn
    <2>1. \A h \in Procs : at[h] \notin Saving /\ task[h].kind # "recover"
        BY <1>5, QueueAssumption DEF RecoverTurn, LInv, Locking
    <2>2. at' = [at EXCEPT ![Recovery] = "send"] /\ \A h \in Procs : h # Recovery =>
        task'[h] = task[h]
        BY <1>5 DEF RecoverTurn, TInv, WorkOK
    <2>3. Locking'
        BY <1>5, <2>1, <2>2 DEF RecoverTurn, Locking, TInv, WorkOK, Saving, Handing
    <2>4. FreshCopies'
        BY <1>5, <2>1, <2>2 DEF RecoverTurn, FreshCopies, LInv, NoUnlockedSaves, TInv,
            WorkOK, Saving
    <2>5. QED
        BY <2>3, <2>4 DEF LInv
<1>6. CASE RecoverAction
    <2>1. PICK r \in Runners : at' = [at EXCEPT ![Recovery] = "drain", ![r] = "act"] /\
        task' = [task EXCEPT ![r] = Task("claim", row.turn, 0)]
        BY <1>6 DEF RecoverAction
    <2>2. \A h \in Procs : at'[h] \in Saving \cup {"stale"} => at'[h] = at[h]
        BY <2>1 DEF TInv, WorkOK, Saving
    <2>3. \A h \in Procs : task[h].kind # "recover"
        BY <1>6, QueueAssumption DEF RecoverAction, LInv, Locking
    <2>4. \A h \in Procs : task'[h].kind # "recover"
        BY <2>1, <2>3 DEF TInv, WorkOK, Task
    <2>5. QED
        BY <1>6, <2>2, <2>4, OutsideKeeps DEF RecoverAction, SameQueue, ledger, LInv,
            FreshCopies, Saving
<1>7. CASE AtRest
    BY <1>7 DEF AtRest, vars, LInv, Locking, FreshCopies, NoUnlockedSaves
<1>8. QED
    BY <1>1, <1>2, <1>3, <1>4, <1>5, <1>6, <1>7 DEF Restart

LEMMA InitLocked == Init => LInv
BY DEF Init, LInv, Locking, FreshCopies, NoTask, Task, Saving

LEMMA NextKeepsLocks == TInv /\ LInv /\ [Next]_vars => LInv'
<1> SUFFICES ASSUME TInv, LInv, [Next]_vars
             PROVE  LInv'
    OBVIOUS
<1>1. ASSUME NEW g \in Goroutines, Requests(g) PROVE LInv'
    BY <1>1, RequestsKeep DEF Procs
<1>2. ASSUME NEW g \in Procs, Handlers(g) PROVE LInv'
    BY <1>2, QueueHandlersKeep, TurnHandlersKeep, DirectKeeps DEF Handlers
<1>3. ASSUME NEW g \in Procs, Sending(g) PROVE LInv'
    BY <1>3, SendingKeeps
<1>4. CASE TurnEnd
    BY <1>4, TurnEndKeeps
<1>5. CASE UserCancel \/ ChangeGoal \/ Crash \/ Restart \/ AtRest
    BY <1>5, RestartKeeps
<1>6. CASE UNCHANGED vars
    BY <1>6 DEF vars, LInv, Locking, FreshCopies, NoUnlockedSaves
<1>7. QED
    BY <1>1, <1>2, <1>3, <1>4, <1>5, <1>6 DEF Next

LEMMA LInvInvariant == Spec => []LInv
<1>1. QED
    BY InitLocked, NextKeepsLocks, TInvInvariant, PTL DEF Spec

\* At most one goroutine is between loading and saving the session (lockSession
\* in server/queue.go, turn_completion.go and acp_stream.go), restarts included,
\* and none is while the recovery goroutine hands a turn to the agent.
OneWriter ==
    \A g, h \in Procs :
        /\ at[g] \in Saving
        /\ at[h] \in Saving \/ task[h].kind = "recover"
        => g = h

THEOREM WritersExclude == Spec => []OneWriter
<1>1. LInv => OneWriter
    BY DEF LInv, Locking, OneWriter
<1>2. QED
    BY <1>1, LInvInvariant, PTL

\* As long as no row is saved without the session's lock, what a handler is about
\* to save is up to date: it overwrites no prompt and no pending steer that was
\* stored after it loaded the row.
THEOREM CopiesStayFresh ==
    ASSUME NoUnlockedSaves
    PROVE  Spec => []CopyFresh
<1>1. LInv => CopyFresh
    BY NoUnlockedSaves DEF LInv, Locking, FreshCopies, CopyFresh
<1>2. QED
    BY <1>1, LInvInvariant, PTL

-----------------------------------------------------------------------------
\* The agent's turn in memory. One goroutine at a time hands a prompt to the agent
\* (Job.sendMu), one resumes the agent (Manager.resumeMu), and the finisher is at work
\* only while the turn is finishing.

FinisherAt == {"out", "toFinish", "finish", "drain", "claim", "close"}

JobInv ==
    /\ at[Finisher] \in FinisherAt
    /\ at[Finisher] # "out" => Finishing
    /\ \A g \in Procs : at[g] = "resume" =>
          job = "absent" /\ \A h \in Procs : at[h] = "resume" => h = g
    /\ \A g \in Procs : at[g] = "mark" => job = "idle" /\ sender = g

LEMMA FinisherIsProc == Finisher \in Procs
BY DEF Procs

\* A goroutine moves on and does not touch the turn.
LEMMA MoveKeepsJob ==
    ASSUME TInv, JobInv, NEW g \in Procs, NEW l, at' = [at EXCEPT ![g] = l],
           l \notin {"resume", "mark"}, job' = job,
           at[g] = "mark" \/ sender' = sender,
           g = Finisher => at[g] # "out" /\ l \in FinisherAt \ {"out"}
    PROVE  JobInv'
<1>1. at'[g] = l /\ \A h \in Procs : h # g => at'[h] = at[h]
    BY DEF TInv, WorkOK
<1>2. at'[Finisher] \in FinisherAt
    BY <1>1, FinisherIsProc DEF JobInv
<1>3. at'[Finisher] # "out" => Finishing'
    BY <1>1, FinisherIsProc DEF JobInv, Finishing
<1>4. \A h \in Procs : at'[h] \in {"resume", "mark"} => h # g /\ at[h] = at'[h]
    BY <1>1
<1>5. ASSUME NEW h \in Procs, at'[h] = "mark" PROVE job' = "idle" /\ sender' = h
    <2>1. at[h] = "mark" /\ h # g
        BY <1>4, <1>5
    <2>2. at[g] # "mark"
        BY <2>1 DEF JobInv
    <2>3. QED
        BY <2>1, <2>2 DEF JobInv
<1>6. \A h \in Procs : at'[h] = "resume" =>
            job' = "absent" /\ \A k \in Procs : at'[k] = "resume" => k = h
    BY <1>4 DEF JobInv
<1>7. QED
    BY <1>2, <1>3, <1>5, <1>6 DEF JobInv

LEMMA GotoKeepsJob ==
    ASSUME TInv, JobInv, NEW g \in Procs, at[g] \notin FinisherAt, NEW l, Goto(g, l),
           l \notin {"resume", "mark"}, job' = job, at[g] = "mark" \/ sender' = sender
    PROVE  JobInv'
<1>1. g # Finisher
    BY DEF JobInv
<1>2. QED
    BY <1>1, MoveKeepsJob DEF Goto

\* A prompt is claimed; the runner is not the finisher.
LEMMA RunTurnKeepsJob ==
    ASSUME TInv, JobInv, NEW g \in Procs, at[g] = "claim", NEW k, NEW p, RunTurn(g, k, p),
           job' = job, sender' = sender
    PROVE  JobInv'
<1>1. PICK r \in Procs :
        /\ Runs(g, r)
        /\ at' = [at EXCEPT ![g] = AfterDrain(g), ![r] = IF p \in Actions THEN "act" ELSE "send"]
    BY DEF RunTurn
<1>2. r # Finisher
    BY <1>1, QueueAssumption DEF Runs
<1>3. /\ at'[r] \in {"act", "send"}
      /\ g # r => at'[g] \in {"close", "out"}
      /\ g = Finisher => at'[g] = "close"
      /\ \A h \in Procs : h \notin {g, r} => at'[h] = at[h]
    BY <1>1, <1>2 DEF AfterDrain, TInv, WorkOK
<1>4. at'[Finisher] = at[Finisher] \/ (at[Finisher] = "claim" /\ at'[Finisher] = "close")
    BY <1>2, <1>3, FinisherIsProc
<1>5. at'[Finisher] \in FinisherAt /\ (at'[Finisher] # "out" => Finishing')
    BY <1>4 DEF JobInv, Finishing, FinisherAt
<1>6. \A h \in Procs : at'[h] \in {"resume", "mark"} => at[h] = at'[h]
    BY <1>3
<1>7. QED
    BY <1>5, <1>6 DEF JobInv

LEMMA RequestsKeepJob ==
    ASSUME TInv, JobInv, NEW g \in Goroutines, Requests(g)
    PROVE  JobInv'
<1>1. g \in Procs /\ g # Finisher
    BY QueueAssumption DEF Procs
<1>2. PICK l \in {"append", "delete", "reorder", "enqueue", "begin", "steer", "send", "stale"} :
        at' = [at EXCEPT ![g] = l]
    BY DEF Requests, RequestAppend, RequestDelete, RequestSteer, RequestBegin, SendExternal,
        RequestEnqueue, RequestReorder, Request, Load, CancelStored, Goto
<1>3. job' = job /\ sender' = sender
    BY DEF Requests, RequestAppend, RequestDelete, RequestSteer, RequestBegin, SendExternal,
        RequestEnqueue, RequestReorder, Request, CancelStored
<1>4. QED
    BY <1>1, <1>2, <1>3, MoveKeepsJob

LEMMA HandlersKeepJob ==
    ASSUME TInv, JobInv, NEW g \in Procs, Handlers(g)
    PROVE  JobInv'
<1>1. CASE Drain(g)
    <2>1. /\ at[g] = "drain" /\ job' = job /\ sender' = sender
          /\ at' = [at EXCEPT ![g] = "claim"] \/ (at' = [at EXCEPT ![g] = "out"] /\ g = Recovery)
        BY <1>1 DEF Drain, Load
    <2>2. Recovery # Finisher
        BY QueueAssumption
    <2>3. QED
        BY <2>1, <2>2, MoveKeepsJob DEF FinisherAt
<1>2. CASE ClaimPrompt(g) \/ ClaimGoal(g)
    BY <1>2, RunTurnKeepsJob DEF ClaimPrompt, ClaimGoal
<1>3. CASE ClaimNothing(g)
    <2>1. /\ at[g] = "claim" /\ job' = job /\ sender' = sender
          /\ at' = [at EXCEPT ![g] = AfterDrain(g)]
        BY <1>3 DEF ClaimNothing
    <2>2. AfterDrain(g) \in {"close", "out"} /\ (g = Finisher => AfterDrain(g) = "close")
        BY DEF AfterDrain
    <2>3. QED
        BY <2>1, <2>2, MoveKeepsJob DEF FinisherAt
<1>4. CASE LoadRestore(g) \/ LoadClear(g) \/ LoadRequeue(g)
    <2>1. PICK l \in {"restore", "clear", "append"} : at' = [at EXCEPT ![g] = l]
        BY <1>4 DEF LoadRestore, LoadClear, LoadRequeue, Load
    <2>2. at[g] \in {"failed", "toClear", "requeue"} /\ job' = job /\ sender' = sender
        BY <1>4 DEF LoadRestore, LoadClear, LoadRequeue
    <2>3. g # Finisher
        BY <2>2 DEF JobInv, FinisherAt
    <2>4. QED
        BY <2>1, <2>2, <2>3, MoveKeepsJob
<1>5. CASE ClaimSteered(g)
    <2>1. PICK l \in {"steering", "send"} : at' = [at EXCEPT ![g] = l]
        BY <1>5 DEF ClaimSteered
    <2>2. at[g] = "steer" /\ job' = job /\ sender' = sender
        BY <1>5 DEF ClaimSteered
    <2>3. g # Finisher
        BY <2>2 DEF JobInv, FinisherAt
    <2>4. QED
        BY <2>1, <2>2, <2>3, MoveKeepsJob
<1>6. CASE SteerCancel(g)
    <2>1. PICK l \in {"cancelWait", "cancelDone"} : Goto(g, l)
        BY <1>6 DEF SteerCancel
    <2>2. at[g] = "cancel" /\ sender' = sender
        BY <1>6 DEF SteerCancel
    <2>3. CASE job' = job
        BY <2>1, <2>2, <2>3, GotoKeepsJob DEF FinisherAt
    <2>4. CASE job' # job
        <3>1. RuntimeRunning
            BY <1>6, <2>4 DEF SteerCancel
        <3>2. /\ at[Finisher] = "out"
              /\ \A h \in Procs : at[h] \notin {"resume", "mark"}
            BY <3>1 DEF JobInv, RuntimeRunning, Finishing
        <3>3. at'[g] = l /\ \A h \in Procs : h # g => at'[h] = at[h]
            BY <2>1 DEF Goto, TInv, WorkOK
        <3>4. g # Finisher
            BY <2>2, <3>2
        <3>5. at'[Finisher] = "out" /\ \A h \in Procs : at'[h] \notin {"resume", "mark"}
            BY <3>2, <3>3, <3>4, FinisherIsProc
        <3>6. QED
            BY <3>5 DEF JobInv, FinisherAt
    <2>5. QED
        BY <2>3, <2>4
<1>7. CASE \/ AppendPrompt(g) \/ DeletePrompt(g) \/ ReorderPrompts(g)
           \/ EnqueueInternalTurn(g) \/ RestorePrompt(g)
    <2>1. PICK l \in {"out", "drain"} : Goto(g, l)
        BY <1>7 DEF AppendPrompt, DeletePrompt, ReorderPrompts, EnqueueInternalTurn,
            RestorePrompt, Save, AfterMutation
    <2>2. /\ at[g] \in {"append", "delete", "reorder", "enqueue", "restore"}
          /\ job' = job /\ sender' = sender
        BY <1>7 DEF AppendPrompt, DeletePrompt, ReorderPrompts, EnqueueInternalTurn,
            RestorePrompt
    <2>3. QED
        BY <2>1, <2>2, GotoKeepsJob DEF FinisherAt
<1>8. CASE \/ RunAction(g) \/ FinishAction(g) \/ FailTurn(g) \/ SteerTaken(g)
           \/ SteerRefused(g) \/ SteerUnsupported(g) \/ SteerCancelGivesUp(g)
           \/ SteerAfterCancel(g) \/ ClearSteer(g)
    <2>1. PICK l \in {"acted", "drain", "failed", "toClear", "cancel", "cancelDone", "send",
                     "out"} : Goto(g, l)
        BY <1>8 DEF RunAction, FinishAction, FailTurn, SteerTaken, SteerRefused,
            SteerUnsupported, SteerCancelGivesUp, SteerAfterCancel, ClearSteer, Save
    <2>2. /\ at[g] \in {"act", "acted", "send", "wait", "steering", "cancelWait",
                       "cancelDone", "clear"}
          /\ job' = job /\ sender' = sender
        BY <1>8 DEF RunAction, FinishAction, FailTurn, SteerTaken, SteerRefused,
            SteerUnsupported, SteerCancelGivesUp, SteerAfterCancel, ClearSteer
    <2>3. QED
        BY <2>1, <2>2, GotoKeepsJob DEF FinisherAt
<1>9. CASE \/ Begin(g) \/ BeginFails(g) \/ BusySteers(g) \/ BusyRejects(g)
           \/ BusyQueues(g) \/ CancelStoredSave(g)
    <2>1. PICK l \in {"busy", "send", "out", "requeue"} : Goto(g, l)
        BY <1>9 DEF Begin, BeginFails, BusySteers, BusyRejects, BusyQueues, CancelStoredSave,
            Save
    <2>2. at[g] \in {"begin", "busy", "stale"} /\ job' = job /\ sender' = sender
        BY <1>9 DEF Begin, BeginFails, BusySteers, BusyRejects, BusyQueues, CancelStoredSave
    <2>3. QED
        BY <2>1, <2>2, GotoKeepsJob DEF FinisherAt
<1>10. QED
    BY <1>1, <1>2, <1>3, <1>4, <1>5, <1>6, <1>7, <1>8, <1>9 DEF Handlers

LEMMA SendingKeepsJob ==
    ASSUME TInv, JobInv, NEW g \in Procs, Sending(g)
    PROVE  JobInv'
<1>1. at[g] \in Handing
    BY DEF Sending, SendResume, SendResumed, SendConflict, SendWait, SendMark, SendGoalGone,
        SendAppendFails, SendStart, SendFailed, Handing
<1>2. at[g] \notin FinisherAt /\ g # Finisher
    BY <1>1 DEF JobInv, FinisherAt, Handing
<1>3. CASE SendResume(g)
    <2>1. job = "absent" /\ job' = job /\ sender' = sender
          /\ \A h \in Procs : at[h] # "resume"
        BY <1>3 DEF SendResume
    <2>2. at'[g] = "resume" /\ \A h \in Procs : h # g => at'[h] = at[h]
        BY <1>3 DEF SendResume, Goto, TInv, WorkOK
    <2>3. at'[Finisher] = at[Finisher]
        BY <1>2, <2>2, FinisherIsProc
    <2>4. \A h \in Procs : at'[h] # "mark"
        BY <2>1, <2>2 DEF JobInv
    <2>5. \A h \in Procs : at'[h] = "resume" => h = g
        BY <2>1, <2>2
    <2>6. QED
        BY <2>1, <2>3, <2>4, <2>5 DEF JobInv, Finishing
<1>4. CASE SendResumed(g)
    <2>1. at[g] = "resume" /\ job = "absent" /\ \A h \in Procs : at[h] = "resume" => h = g
        BY <1>4 DEF SendResumed, JobInv
    <2>2. at'[g] = "send" /\ \A h \in Procs : h # g => at'[h] = at[h]
        BY <1>4 DEF SendResumed, Goto, TInv, WorkOK
    <2>3. at[Finisher] = "out" /\ \A h \in Procs : at[h] # "mark"
        BY <2>1 DEF JobInv, Finishing
    <2>4. at'[Finisher] = "out" /\ \A h \in Procs : at'[h] \notin {"resume", "mark"}
        BY <1>2, <2>1, <2>2, <2>3, FinisherIsProc
    <2>5. QED
        BY <2>4 DEF JobInv, FinisherAt
<1>5. CASE SendMark(g)
    <2>1. job = "idle" /\ job' = job /\ sender = None /\ sender' = g
        BY <1>5 DEF SendMark
    <2>2. at'[g] = "mark" /\ \A h \in Procs : h # g => at'[h] = at[h]
        BY <1>5 DEF SendMark, Goto, TInv, WorkOK
    <2>3. /\ at[Finisher] = "out"
          /\ \A h \in Procs : at[h] \notin {"resume", "mark"}
        BY <2>1, QueueAssumption DEF JobInv, Finishing
    <2>4. at'[Finisher] = "out" /\ \A h \in Procs : at'[h] # "resume"
        BY <1>2, <2>2, <2>3, FinisherIsProc
    <2>5. \A h \in Procs : at'[h] = "mark" => h = g
        BY <2>2, <2>3
    <2>6. QED
        BY <2>1, <2>4, <2>5 DEF JobInv, FinisherAt
<1>6. CASE SendStart(g)
    <2>1. at[g] = "mark" /\ job = "idle" /\ \A h \in Procs : at[h] = "mark" => h = g
        BY <1>6 DEF SendStart, JobInv
    <2>2. PICK l \in {"out", "drain", "toClear"} : Goto(g, l)
        BY <1>6 DEF SendStart, AfterSend
    <2>3. at'[g] = l /\ \A h \in Procs : h # g => at'[h] = at[h]
        BY <2>2 DEF Goto, TInv, WorkOK
    <2>4. at[Finisher] = "out" /\ \A h \in Procs : at[h] # "resume"
        BY <2>1 DEF JobInv, Finishing
    <2>5. at'[Finisher] = "out" /\ \A h \in Procs : at'[h] \notin {"resume", "mark"}
        BY <1>2, <2>1, <2>3, <2>4, FinisherIsProc
    <2>6. QED
        BY <2>5 DEF JobInv, FinisherAt
<1>7. CASE SendConflict(g) \/ SendWait(g) \/ SendGoalGone(g) \/ SendAppendFails(g)
    <2>1. PICK l \in {"failed", "wait"} : Goto(g, l)
        BY <1>7 DEF SendConflict, SendWait, SendGoalGone, SendAppendFails
    <2>2. job' = job /\ (at[g] = "mark" \/ sender' = sender)
        BY <1>7 DEF SendConflict, SendWait, SendGoalGone, SendAppendFails
    <2>3. QED
        BY <1>2, <2>1, <2>2, GotoKeepsJob
<1>8. CASE SendFailed(g)
    <2>1. PICK l \in {"out", "drain", "toClear"} : Goto(g, l)
        BY <1>8 DEF SendFailed, AfterSend
    <2>2. job' = job /\ sender' = sender
        BY <1>8 DEF SendFailed
    <2>3. QED
        BY <1>2, <2>1, <2>2, GotoKeepsJob
<1>9. QED
    BY <1>3, <1>4, <1>5, <1>6, <1>7, <1>8 DEF Sending

LEMMA OthersKeepJob ==
    ASSUME TInv, JobInv,
           TurnEnd \/ UserCancel \/ ChangeGoal \/ Crash \/ Restart \/ AtRest \/ UNCHANGED vars
    PROVE  JobInv'
<1>1. CASE EndTurn
    <2>1. RuntimeRunning /\ at' = [at EXCEPT ![Finisher] = "toFinish"]
          /\ job' \in {"ended", "failed", "cancelled"}
        BY <1>1 DEF EndTurn, Outcomes
    <2>2. \A h \in Procs : at[h] \notin {"resume", "mark"}
        BY <2>1 DEF JobInv, RuntimeRunning
    <2>3. at'[Finisher] = "toFinish" /\ \A h \in Procs : h # Finisher => at'[h] = at[h]
        BY <2>1, FinisherIsProc DEF TInv, WorkOK
    <2>4. \A h \in Procs : at'[h] \notin {"resume", "mark"}
        BY <2>2, <2>3
    <2>5. QED
        BY <2>1, <2>3, <2>4 DEF JobInv, FinisherAt, Finishing
<1>2. CASE LoadFinish \/ Finish
    <2>1. PICK l \in {"finish", "drain", "close"} : at' = [at EXCEPT ![Finisher] = l]
        BY <1>2 DEF LoadFinish, Load, Finish, AfterFinish
    <2>2. at[Finisher] # "out" /\ job' = job /\ sender' = sender
        BY <1>2 DEF LoadFinish, Finish
    <2>3. QED
        BY <2>1, <2>2, FinisherIsProc, MoveKeepsJob DEF FinisherAt
<1>3. CASE CloseTurn
    <2>1. /\ at[Finisher] = "close" /\ at'[Finisher] = "out"
          /\ \A h \in Procs : at'[h] \in {"resume", "mark"} => at[h] = at'[h]
        BY <1>3, FinisherIsProc DEF CloseTurn, Wake
    <2>2. \A h \in Procs : at[h] \notin {"resume", "mark"}
        BY <2>1 DEF JobInv, Finishing
    <2>3. QED
        BY <2>1, <2>2 DEF JobInv, FinisherAt
<1>4. CASE UserCancel
    <2>1. job = "running" /\ at' = at
        BY <1>4 DEF UserCancel
    <2>2. at[Finisher] = "out" /\ \A h \in Procs : at[h] \notin {"resume", "mark"}
        BY <2>1 DEF JobInv, Finishing
    <2>3. QED
        BY <2>1, <2>2 DEF JobInv, FinisherAt
<1>5. CASE Crash
    <2>1. \A h \in Procs : at'[h] = IF h = Recovery THEN "recover" ELSE "out"
        BY <1>5 DEF Crash
    <2>2. at'[Finisher] = "out" /\ \A h \in Procs : at'[h] \notin {"resume", "mark"}
        BY <2>1, FinisherIsProc, QueueAssumption
    <2>3. QED
        BY <2>2 DEF JobInv, FinisherAt
<1>6. CASE RecoverNothing \/ RecoverTurn
    <2>1. PICK l \in {"drain", "send"} : at' = [at EXCEPT ![Recovery] = l]
        BY <1>6 DEF RecoverNothing, RecoverTurn, Goto
    <2>2. job' = job /\ sender' = sender /\ Recovery \in Procs /\ Recovery # Finisher
        BY <1>6, QueueAssumption DEF RecoverNothing, RecoverTurn, Procs
    <2>3. QED
        BY <2>1, <2>2, MoveKeepsJob
<1>7. CASE RecoverAction
    <2>1. PICK r \in Runners : at' = [at EXCEPT ![Recovery] = "drain", ![r] = "act"]
        BY <1>7 DEF RecoverAction
    <2>2. job' = job /\ sender' = sender
        BY <1>7 DEF RecoverAction
    <2>3. Finisher \notin {Recovery, r}
        BY QueueAssumption
    <2>4. at'[Finisher] = at[Finisher]
          /\ \A h \in Procs : at'[h] \in {"resume", "mark"} => at[h] = at'[h]
        BY <2>1, <2>3, FinisherIsProc DEF TInv, WorkOK
    <2>5. QED
        BY <2>2, <2>4 DEF JobInv, Finishing
<1>8. CASE ChangeGoal \/ AtRest \/ UNCHANGED vars
    BY <1>8 DEF ChangeGoal, AtRest, vars, JobInv, Finishing
<1>9. QED
    BY <1>1, <1>2, <1>3, <1>4, <1>5, <1>6, <1>7, <1>8 DEF TurnEnd, Restart

LEMMA JobInvariant == Spec => []JobInv
<1>1. Init => JobInv
    BY FinisherIsProc DEF Init, JobInv, FinisherAt
<1>2. TInv /\ JobInv /\ [Next]_vars => JobInv'
    BY RequestsKeepJob, HandlersKeepJob, SendingKeepsJob, OthersKeepJob DEF Next
<1>3. QED
    BY <1>1, <1>2, TInvInvariant, PTL DEF Spec

-----------------------------------------------------------------------------
\* One turn at a time. As long as every turn is claimed or begun under the session's
\* lock, the stored status is the lock of the turn: it is running from then until the
\* turn is finished, so nobody can claim or begin another one. A sender that asks
\* nobody ("ext"), a steer that finds the turn over or marks an idle session running
\* without a look at its status ("steer"), a transcript that fails after the row was
\* marked ("appendFail") and a cancel that saves the row without the lock
\* ("cancelStored") break this, and so does an action that is run again after a restart:
\* the row stays interrupted meanwhile, and a turn can begin beside it.

OneAtATime == Ops \cap {"ext", "steer", "appendFail", "cancelStored"} = {}

NoActionResumed == Actions = {} \/ MaxCrashes = 0

\* What none of them reaches.
Tame ==
    \A g \in Procs :
        /\ at[g] \notin {"steer", "steering", "cancel", "cancelWait", "cancelDone",
                         "toClear", "clear", "stale"}
        /\ task[g].kind \notin {"steer", "ext"}

\* A goroutine has the turn and the agent has not; the agent has it, or its end has
\* not been stored.
Taking == Handing \cup {"act", "acted", "restore"}
Takes(g) == at[g] \in Taking
Live == RuntimeRunning \/ at[Finisher] \in {"toFinish", "finish"}
Occupied == Live \/ \E g \in Procs : Takes(g)

\* The recovery has the turn of an interrupted session, and the lock with it.
Resumes(g) ==
    /\ g = Recovery /\ lock = g /\ row.status = "interrupted"
    /\ at[g] \in {"send", "resume", "wait", "failed"}

Alone ==
    /\ \A g, h \in Procs : Takes(g) /\ Takes(h) => g = h
    /\ \A g \in Procs : Takes(g) => ~ Live

Marked ==
    /\ \A g \in Procs : Takes(g) => row.status = "running" \/ Resumes(g)
    /\ \A g \in Procs : at[g] = "mark" => row.status = "running" /\ row.turn = Sent
    /\ \A g \in Procs : at[g] = "resume" => copy[g].status = row.status
    /\ Live => row.status = "running" /\ row.turn = Sent

\* Whoever loaded the row meanwhile will save a running one.
CopiesMarked ==
    Occupied => \A g \in Procs : at[g] \in Saving => copy[g].status = "running"

Restarted == at[Recovery] = "recover" => crashes > 0

TurnInv == Tame /\ Alone /\ Marked /\ CopiesMarked /\ Restarted

\* Nobody has a turn after the step.
LEMMA NobodyKeepsTurn ==
    ASSUME Tame', Restarted', \A g \in Procs : ~ Takes(g)', ~ Live'
    PROVE  TurnInv'
<1>1. Alone' /\ CopiesMarked'
    BY DEF Alone, CopiesMarked, Occupied
<1>2. Marked'
    BY DEF Marked, Takes, Taking, Handing
<1>3. QED
    BY <1>1, <1>2 DEF TurnInv

\* Who had the turn has it still: the row says so, and copies were loaded from it.
LEMMA TurnStays ==
    ASSUME TurnInv, Tame', Restarted',
           \A g \in Procs : Takes(g)' => Takes(g),
           \A g \in Procs : at'[g] = "mark" => at[g] = "mark",
           \A g \in Procs : at'[g] = "resume" => copy'[g].status = row'.status,
           \A g \in Procs : Resumes(g) /\ Takes(g)' => Resumes(g)' \/ row'.status = "running",
           Live' => Live,
           Occupied => /\ row'.status = row.status
                       /\ row.turn = Sent => row'.turn = Sent,
           \A g \in Procs : at'[g] \in Saving =>
               \/ at[g] \in Saving /\ copy'[g] = copy[g]
               \/ lock = None /\ copy'[g].status = row.status
    PROVE  TurnInv'
<1>1. Occupied' => Occupied
    BY DEF Occupied
<1>2. Alone'
    BY DEF TurnInv, Alone
<1>3. Marked'
    <2>1. ASSUME NEW g \in Procs, Takes(g)'
          PROVE  row'.status = "running" \/ Resumes(g)'
        <3>1. Takes(g) /\ Occupied
            BY <2>1 DEF Occupied
        <3>2. row.status = "running" \/ Resumes(g)
            BY <3>1 DEF TurnInv, Marked
        <3>3. QED
            BY <2>1, <3>1, <3>2
    <2>2. ASSUME NEW g \in Procs, at'[g] = "mark"
          PROVE  row'.status = "running" /\ row'.turn = Sent
        <3>1. at[g] = "mark"
            BY <2>2
        <3>2. Occupied
            BY <3>1 DEF Occupied, Takes, Taking, Handing
        <3>3. QED
            BY <3>1, <3>2 DEF TurnInv, Marked
    <2>3. ASSUME Live'
          PROVE  row'.status = "running" /\ row'.turn = Sent
        <3>1. Live /\ Occupied
            BY <2>3 DEF Occupied
        <3>2. QED
            BY <3>1 DEF TurnInv, Marked
    <2>4. QED
        BY <2>1, <2>2, <2>3 DEF Marked
<1>4. CopiesMarked'
    <2>1. ASSUME Occupied', NEW g \in Procs, at'[g] \in Saving
          PROVE  copy'[g].status = "running"
        <3>1. Occupied
            BY <1>1, <2>1
        <3>2. CASE at[g] \in Saving /\ copy'[g] = copy[g]
            BY <3>1, <3>2 DEF TurnInv, CopiesMarked
        <3>3. CASE lock = None /\ copy'[g].status = row.status
            <4>1. Recovery # None
                BY QueueAssumption DEF Procs
            <4>2. \A h \in Procs : ~ Resumes(h)
                BY <3>3, <4>1 DEF Resumes
            <4>3. row.status = "running"
                BY <3>1, <4>2 DEF TurnInv, Marked, Occupied
            <4>4. QED
                BY <3>3, <4>3
        <3>4. QED
            BY <2>1, <3>2, <3>3
    <2>2. QED
        BY <2>1 DEF CopiesMarked
<1>5. QED
    BY <1>2, <1>3, <1>4 DEF TurnInv

\* Somebody takes a turn nobody has.
LEMMA TurnTaken ==
    ASSUME Tame', Restarted', NEW r \in Procs,
           ~ Occupied,
           \A g \in Procs : g # r => (Takes(g)' => Takes(g)),
           at'[r] \in {"send", "act"},
           row'.status = "running" \/ Resumes(r)',
           Live' => Live,
           \A g \in Procs : at'[g] \notin Saving
    PROVE  TurnInv'
<1>1. \A g \in Procs : Takes(g)' => g = r
    BY DEF Occupied
<1>2. ~ Live'
    BY DEF Occupied
<1>3. Alone'
    BY <1>1, <1>2 DEF Alone
<1>4. \A g \in Procs : at'[g] \notin {"mark", "resume"}
    BY <1>1 DEF Takes, Taking, Handing
<1>5. Marked'
    BY <1>1, <1>2, <1>4 DEF Marked
<1>6. CopiesMarked'
    BY DEF CopiesMarked
<1>7. QED
    BY <1>3, <1>5, <1>6 DEF TurnInv

\* How a goroutine moves.
LEMMA OneMovesTame ==
    ASSUME TInv, TurnInv, NEW g \in Procs, NEW l, at' = [at EXCEPT ![g] = l],
           l \notin {"steer", "steering", "cancel", "cancelWait", "cancelDone",
                     "toClear", "clear", "stale", "recover"},
           \A h \in Procs : task'[h].kind = task[h].kind
                            \/ task'[h].kind \notin {"steer", "ext"},
           crashes' = crashes
    PROVE  /\ Tame' /\ Restarted'
           /\ at'[g] = l /\ \A h \in Procs : h # g => at'[h] = at[h]
<1>1. at'[g] = l /\ \A h \in Procs : h # g => at'[h] = at[h]
    BY DEF TInv, WorkOK
<1>2. Tame'
    BY <1>1 DEF TurnInv, Tame
<1>3. Restarted'
    BY <1>1, QueueAssumption DEF TurnInv, Restarted, Procs
<1>4. QED
    BY <1>1, <1>2, <1>3

\* A task that is kept or forgotten stays tame.
LEMMA GotoTask ==
    ASSUME TInv, NEW g \in Procs, NEW l, Goto(g, l)
    PROVE  /\ at' = [at EXCEPT ![g] = l]
           /\ \A h \in Procs : task'[h].kind = task[h].kind
                               \/ task'[h].kind \notin {"steer", "ext"}
<1>1. \A h \in Procs : task'[h] = task[h] \/ task'[h] = NoTask
    BY DEF Goto, TInv, WorkOK
<1>2. NoTask.kind = "none"
    BY DEF NoTask, Task
<1>3. QED
    BY <1>1, <1>2 DEF Goto

LEMMA GotoTame ==
    ASSUME TInv, TurnInv, NEW g \in Procs, NEW l, Goto(g, l),
           l \notin {"steer", "steering", "cancel", "cancelWait", "cancelDone",
                     "toClear", "clear", "stale", "recover"},
           crashes' = crashes
    PROVE  /\ Tame' /\ Restarted'
           /\ at'[g] = l /\ \A h \in Procs : h # g => at'[h] = at[h]
<1>1. /\ at' = [at EXCEPT ![g] = l]
      /\ \A h \in Procs : task'[h].kind = task[h].kind
                          \/ task'[h].kind \notin {"steer", "ext"}
    BY GotoTask
<1>2. QED
    BY <1>1, OneMovesTame

\* The lock that the recovery holds stays with it while others move.
LEMMA OthersKeepLock ==
    ASSUME LInv, NEW g \in Procs, NEW k \in Procs, Resumes(k), g # k,
           \/ lock' = lock \/ lock = None
           \/ at[g] \in Saving
           \/ task[g].kind = "recover"
    PROVE  lock' = k
<1>1. lock = k /\ k # None
    BY QueueAssumption DEF Resumes, Procs
<1>2. lock # g
    BY <1>1
<1>3. at[g] \notin Saving /\ task[g].kind # "recover"
    BY <1>2 DEF LInv, Locking
<1>4. QED
    BY <1>1, <1>3

\* A goroutine moves on, without a turn or with the one it has.
LEMMA MoveKeepsTurn ==
    ASSUME TInv, LInv, TurnInv, NEW g \in Procs, NEW l,
           at' = [at EXCEPT ![g] = l],
           l \notin {"steer", "steering", "cancel", "cancelWait", "cancelDone",
                     "toClear", "clear", "stale", "recover", "mark", "act"},
           \A h \in Procs : task'[h].kind = task[h].kind
                            \/ task'[h].kind \notin {"steer", "ext"},
           crashes' = crashes, job' = job \/ job' = "idle",
           l \in Taking => at[g] \in Taking, l = "acted" => at[g] = "act",
           g = Finisher /\ l \in {"toFinish", "finish"} => at[g] \in {"toFinish", "finish"},
           Occupied => /\ row'.status = row.status
                       /\ row.turn = Sent => row'.turn = Sent,
           \A h \in Procs : h # g => copy'[h] = copy[h],
           l \in Saving => lock = None /\ copy'[g].status = row.status,
           l = "resume" => copy'[g].status = row'.status,
           l \in Taking \ Saving => lock' = lock,
           \/ lock' = lock \/ lock = None
           \/ at[g] \in Saving
           \/ task[g].kind = "recover"
    PROVE  TurnInv'
<1>1. /\ Tame' /\ Restarted'
      /\ at'[g] = l /\ \A h \in Procs : h # g => at'[h] = at[h]
    BY OneMovesTame
<1>2. \A h \in Procs : Takes(h)' => Takes(h)
    BY <1>1 DEF Takes
<1>3. \A h \in Procs : at'[h] = "mark" => at[h] = "mark"
    BY <1>1
<1>4. ASSUME NEW h \in Procs, at'[h] = "resume" PROVE copy'[h].status = row'.status
    <2>1. CASE h = g
        BY <1>1, <1>4, <2>1
    <2>2. CASE h # g
        <3>1. at[h] = "resume" /\ copy'[h] = copy[h]
            BY <1>1, <1>4, <2>2
        <3>2. Occupied
            BY <3>1 DEF Occupied, Takes, Taking, Handing
        <3>3. QED
            BY <3>1, <3>2 DEF TurnInv, Marked
    <2>3. QED
        BY <2>1, <2>2
<1>5. ASSUME NEW h \in Procs, Resumes(h), Takes(h)' PROVE Resumes(h)'
    <2>1. Occupied /\ lock # None
        BY <1>2, <1>5, QueueAssumption DEF Occupied, Resumes, Procs
    <2>2. row'.status = "interrupted"
        BY <1>5, <2>1 DEF Resumes
    <2>3. CASE h = g
        <3>1. l \in Taking /\ l \notin Saving
            BY <1>1, <1>5, <2>1, <2>3 DEF Takes
        <3>2. l # "acted" /\ l \notin {"act", "mark"}
            BY <1>5, <2>3 DEF Resumes
        <3>3. lock' = lock /\ l \in {"send", "resume", "wait", "failed"}
            BY <3>1, <3>2 DEF Taking, Handing, Saving
        <3>4. QED
            BY <1>1, <1>5, <2>2, <2>3, <3>3 DEF Resumes
    <2>4. CASE h # g
        <3>1. lock' = h
            BY <1>5, <2>4, OthersKeepLock
        <3>2. QED
            BY <1>1, <1>5, <2>2, <2>4, <3>1 DEF Resumes
    <2>5. QED
        BY <2>3, <2>4
<1>6. Live' => Live
    BY <1>1, FinisherIsProc DEF Live, RuntimeRunning
<1>7. ASSUME NEW h \in Procs, at'[h] \in Saving
      PROVE  \/ at[h] \in Saving /\ copy'[h] = copy[h]
             \/ lock = None /\ copy'[h].status = row.status
    BY <1>1, <1>7
<1>8. QED
    BY <1>1, <1>2, <1>3, <1>4, <1>5, <1>6, <1>7, TurnStays

LEMMA RequestsKeepTurn ==
    ASSUME OneAtATime, TInv, LInv, TurnInv, NEW g \in Goroutines, Requests(g)
    PROVE  TurnInv'
<1>1. g \in Procs /\ g # Finisher
    BY QueueAssumption DEF Procs
<1>2. PICK l \in {"append", "delete", "reorder", "enqueue", "begin"},
           k \in {"queue", "direct"}, p \in Prompts \cup {None} : Request(g, l, k, p)
    <2>1. Ops \cap {"steer", "ext", "cancelStored"} = {}
        BY OneAtATime DEF OneAtATime
    <2>2. \A p : ~ RequestSteer(g, p) /\ ~ SendExternal(g, p)
        BY <2>1 DEF RequestSteer, Request, SendExternal
    <2>3. ~ CancelStored(g)
        BY <2>1 DEF CancelStored
    <2>4. QED
        BY <2>2, <2>3 DEF Requests, RequestAppend, RequestDelete, RequestReorder,
            RequestEnqueue, RequestBegin, Prompts
<1>3. /\ at' = [at EXCEPT ![g] = l] /\ lock = None
      /\ copy' = [copy EXCEPT ![g] = row] /\ task' = [task EXCEPT ![g] = Task(k, p, 0)]
      /\ row' = row /\ job' = job /\ crashes' = crashes
    BY <1>2 DEF Request, Load
<1>4. \A h \in Procs : task'[h].kind = task[h].kind \/ task'[h].kind \notin {"steer", "ext"}
    BY <1>1, <1>2, <1>3 DEF TInv, WorkOK, Task
<1>5. copy'[g] = row /\ \A h \in Procs : h # g => copy'[h] = copy[h]
    BY <1>1, <1>3 DEF TInv, WorkOK
<1>6. l \notin Taking
    BY <1>2 DEF Taking, Handing
<1>7. QED
    BY <1>1, <1>2, <1>3, <1>4, <1>5, <1>6, MoveKeepsTurn

\* A goroutine that keeps the row in its hands is at none of the labels of a steer.
LEMMA NoSteering ==
    ASSUME TurnInv, NEW g \in Procs
    PROVE  /\ ~ ClaimSteered(g) /\ ~ SteerTaken(g) /\ ~ SteerRefused(g)
           /\ ~ SteerUnsupported(g) /\ ~ SteerCancel(g) /\ ~ SteerCancelGivesUp(g)
           /\ ~ SteerAfterCancel(g) /\ ~ LoadClear(g) /\ ~ ClearSteer(g)
           /\ ~ CancelStoredSave(g)
BY DEF TurnInv, Tame, ClaimSteered, SteerTaken, SteerRefused, SteerUnsupported,
    SteerCancel, SteerCancelGivesUp, SteerAfterCancel, LoadClear, ClearSteer,
    CancelStoredSave

\* While somebody has the turn, whoever is about to save loaded a running row, and saves
\* a running one.
LEMMA SaveKeepsTurn ==
    ASSUME TInv, LInv, TurnInv, NEW g \in Procs, at[g] \in Saving \ {"restore"},
           NEW r \in Rows, r.status = copy[g].status, NEW l \in {"out", "drain"},
           Save(g, r, l), job' = job, crashes' = crashes
    PROVE  TurnInv'
<1>1. /\ at' = [at EXCEPT ![g] = l] /\ row' = Saved(r)
      /\ copy' = [copy EXCEPT ![g] = None]
      /\ \A h \in Procs : task'[h].kind = task[h].kind
                          \/ task'[h].kind \notin {"steer", "ext"}
    BY GotoTask DEF Save, Unlock
<1>2. \A h \in Procs : h # g => copy'[h] = copy[h]
    BY <1>1 DEF TInv, WorkOK
<1>3. ASSUME Occupied
      PROVE  row'.status = row.status /\ (row.turn = Sent => row'.turn = Sent)
    <2>1. copy[g].status = "running"
        BY <1>3 DEF TurnInv, CopiesMarked
    <2>2. lock = g
        BY DEF LInv, Locking
    <2>3. \A h \in Procs : ~ Resumes(h)
        BY <2>2 DEF Resumes, Saving
    <2>4. row.status = "running"
        BY <1>3, <2>3 DEF TurnInv, Marked, Occupied
    <2>5. QED
        BY <1>1, <2>1, <2>4 DEF Saved, Rows, TInv, WorkOK
<1>4. l \notin Taking /\ l \notin Saving /\ l \notin {"toFinish", "finish"}
    BY DEF Taking, Handing, Saving
<1>5. l \notin {"steer", "steering", "cancel", "cancelWait", "cancelDone",
                "toClear", "clear", "stale", "recover", "mark", "act", "resume"}
    OBVIOUS
<1>6. QED
    BY <1>1, <1>2, <1>3, <1>4, <1>5, MoveKeepsTurn

\* The goroutine that has the turn gives it up before the agent got it.
LEMMA TurnGivenUp ==
    ASSUME TInv, TurnInv, NEW g \in Procs, Takes(g), NEW l \in {"out", "drain"},
           Goto(g, l), job' = job, crashes' = crashes
    PROVE  TurnInv'
<1>1. /\ Tame' /\ Restarted'
      /\ at'[g] = l /\ \A h \in Procs : h # g => at'[h] = at[h]
    BY GotoTame
<1>2. \A h \in Procs : h # g => ~ Takes(h)
    BY DEF TurnInv, Alone
<1>3. \A h \in Procs : ~ Takes(h)'
    BY <1>1, <1>2 DEF Takes, Taking, Handing
<1>4. ~ Live'
    BY <1>1, FinisherIsProc DEF TurnInv, Alone, Live, RuntimeRunning
<1>5. QED
    BY <1>1, <1>3, <1>4, NobodyKeepsTurn

\* A claim: nobody has the turn, or the claimer would have loaded a running row.
LEMMA RunTurnKeepsTurn ==
    ASSUME TInv, LInv, JobInv, TurnInv, NEW g \in Procs, at[g] = "claim", MayClaim(g),
           NEW k \in {"claim", "goal"}, NEW p, RunTurn(g, k, p), Unlock(g),
           row'.status = "running", job' = job, crashes' = crashes
    PROVE  TurnInv'
<1>1. PICK r \in Procs :
        /\ Runs(g, r)
        /\ at' = [at EXCEPT ![g] = AfterDrain(g), ![r] = IF p \in Actions THEN "act" ELSE "send"]
        /\ task' = [task EXCEPT ![r] = Task(k, p, 0)]
    BY DEF RunTurn
<1>2. r = g \/ (r # Finisher /\ g = Finisher)
    BY <1>1, QueueAssumption DEF Runs
<1>3. AfterDrain(g) \in {"close", "out"}
    BY DEF AfterDrain
<1>4. /\ at'[r] \in {"send", "act"}
      /\ g # r => at'[g] \in {"close", "out"}
      /\ \A h \in Procs : h \notin {g, r} => at'[h] = at[h]
    BY <1>1, <1>3 DEF TInv, WorkOK
<1>5. ~ Occupied
    <2>1. at[g] \in Saving /\ copy[g].status # "running"
        BY DEF Saving, MayClaim
    <2>2. QED
        BY <2>1 DEF TurnInv, CopiesMarked
<1>6. \A h \in Procs : at'[h] \notin Saving
    <2>1. \A h \in Procs : h # g => at[h] \notin Saving
        BY DEF LInv, Locking, Saving
    <2>2. \A h \in {g, r} : at'[h] \in {"send", "act", "close", "out"}
        BY <1>4
    <2>3. QED
        BY <1>4, <2>1, <2>2 DEF Saving
<1>7. Tame'
    <2>1. \A h \in Procs : at'[h] = at[h] \/ at'[h] \in {"send", "act", "close", "out"}
        BY <1>4
    <2>2. \A h \in Procs : task'[h] = task[h] \/ task'[h].kind = k
        BY <1>1 DEF TInv, WorkOK, Task
    <2>3. QED
        BY <2>1, <2>2 DEF TurnInv, Tame
<1>8. Restarted'
    BY <1>4, QueueAssumption DEF TurnInv, Restarted, Procs
<1>9. ~ Live'
    <2>1. at'[Finisher] \notin {"toFinish", "finish"}
        <3>1. at[Finisher] \notin {"toFinish", "finish"}
            BY <1>5 DEF Occupied, Live
        <3>2. QED
            BY <1>4, <3>1, FinisherIsProc
    <2>2. ~ RuntimeRunning
        BY DEF MayClaim
    <2>3. QED
        BY <2>1, <2>2 DEF Live, RuntimeRunning
<1>10. \A h \in Procs : h # r => (Takes(h)' => Takes(h))
    BY <1>4 DEF Takes, Taking, Handing
<1>11. QED
    BY <1>4, <1>5, <1>6, <1>7, <1>8, <1>9, <1>10, TurnTaken

\* The queue's handlers save the row they loaded with another queue, and drain one that
\* could start now.
LEMMA QueueSaves ==
    ASSUME TInv, NEW g \in Procs,
           AppendPrompt(g) \/ DeletePrompt(g) \/ ReorderPrompts(g) \/ EnqueueInternalTurn(g)
    PROVE  \E r \in Rows, l \in {"out", "drain"} :
              /\ r.status = copy[g].status /\ Save(g, r, l)
              /\ r.status = "idle" /\ QueueOf(r) # <<>> /\ ~ RuntimeRunning => l = "drain"
<1>1. copy[g] \in Rows
    <2>1. at[g] \in Saving
        BY DEF AppendPrompt, DeletePrompt, ReorderPrompts, EnqueueInternalTurn, Saving
    <2>2. QED
        BY <2>1 DEF TInv, WorkOK
<1>2. task[g].p \in Prompts \/ at[g] \notin {"append", "enqueue", "begin", "busy", "requeue"}
    BY DEF TInv, WorkOK, TasksOK
<1>3. \A r : /\ AfterMutation(r) \in {"out", "drain"}
             /\ r.status = "idle" /\ QueueOf(r) # <<>> => AfterMutation(r) = "drain"
    BY DEF AfterMutation
<1>4. CASE AppendPrompt(g)
    <2>1. PICK r : r = [copy[g] EXCEPT !.pub = Append(@, task[g].p)]
        OBVIOUS
    <2>2. Append(copy[g].pub, task[g].p) \in Seq(Prompts)
        BY <1>1, <1>2, <1>4, AppendProperties DEF AppendPrompt, Rows
    <2>3. r \in Rows /\ r.status = copy[g].status
        BY <1>1, <2>1, <2>2 DEF Rows
    <2>4. Save(g, r, AfterMutation(r))
        BY <1>4, <2>1 DEF AppendPrompt
    <2>5. QED
        BY <1>3, <2>3, <2>4
<1>5. CASE DeletePrompt(g)
    <2>1. PICK i \in DOMAIN copy[g].pub :
            LET s == [copy[g] EXCEPT !.pub = RemoveAt(@, i)]
            IN  Save(g, s, AfterMutation(s))
        BY <1>5 DEF DeletePrompt
    <2>2. PICK r : r = [copy[g] EXCEPT !.pub = RemoveAt(@, i)]
        OBVIOUS
    <2>3. RemoveAt(copy[g].pub, i) \in Seq(Prompts)
        BY <1>1, RemoveAtIsSeq DEF Rows
    <2>4. r \in Rows /\ r.status = copy[g].status
        BY <1>1, <2>2, <2>3 DEF Rows
    <2>5. Save(g, r, AfterMutation(r))
        BY <2>1, <2>2
    <2>6. QED
        BY <1>3, <2>4, <2>5
<1>6. CASE ReorderPrompts(g)
    <2>1. PICK q \in Permuted(copy[g].pub) :
            LET s == [copy[g] EXCEPT !.pub = q]
            IN  Save(g, s, AfterMutation(s))
        BY <1>6 DEF ReorderPrompts
    <2>2. PICK r : r = [copy[g] EXCEPT !.pub = q]
        OBVIOUS
    <2>3. q \in Seq(Prompts)
        BY <1>1, PermutedIsSeq DEF Rows
    <2>4. r \in Rows /\ r.status = copy[g].status
        BY <1>1, <2>2, <2>3 DEF Rows
    <2>5. Save(g, r, AfterMutation(r))
        BY <2>1, <2>2
    <2>6. QED
        BY <1>3, <2>4, <2>5
<1>7. CASE EnqueueInternalTurn(g)
    <2>1. PICK r : r = [copy[g] EXCEPT !.int = Append(@, task[g].p)]
        OBVIOUS
    <2>2. Append(copy[g].int, task[g].p) \in Seq(Prompts)
        BY <1>1, <1>2, <1>7, AppendProperties DEF EnqueueInternalTurn, Rows
    <2>3. r \in Rows /\ r.status = copy[g].status
        BY <1>1, <2>1, <2>2 DEF Rows
    <2>4. PICK l : l = IF copy[g].status = "idle" /\ ~ RuntimeRunning THEN "drain" ELSE "out"
        OBVIOUS
    <2>5. Save(g, r, l)
        BY <1>7, <2>1, <2>4 DEF EnqueueInternalTurn
    <2>6. l \in {"out", "drain"} /\ (copy[g].status = "idle" /\ ~ RuntimeRunning => l = "drain")
        BY <2>4
    <2>7. QED
        BY <2>3, <2>5, <2>6
<1>8. QED
    BY <1>4, <1>5, <1>6, <1>7

\* What is saved is what is stored, but for the turn and the goal.
LEMMA SavedShows ==
    ASSUME row \in Rows, NEW r \in Rows
    PROVE  /\ Saved(r).status = r.status /\ Saved(r).goal = row.goal
           /\ QueueOf(Saved(r)) = QueueOf(r)
BY DEF Saved, Rows, QueueOf

LEMMA HandlersKeepTurn ==
    ASSUME TInv, LInv, JobInv, TurnInv, NEW g \in Procs, Handlers(g)
    PROVE  TurnInv'
<1>1. CASE Drain(g)
    <2>1. CASE at' = [at EXCEPT ![g] = "out"] /\ UNCHANGED <<lock, copy>>
        <3>1. task' = task /\ row' = row /\ job' = job /\ crashes' = crashes
            BY <1>1 DEF Drain
        <3>2. QED
            BY <2>1, <3>1, MoveKeepsTurn DEF Taking, Handing, Saving
    <2>2. CASE Load(g, "claim")
        <3>1. task' = task /\ row' = row /\ job' = job /\ crashes' = crashes
            BY <1>1 DEF Drain
        <3>2. /\ lock = None /\ at' = [at EXCEPT ![g] = "claim"]
              /\ copy'[g] = row /\ \A h \in Procs : h # g => copy'[h] = copy[h]
            BY <2>2 DEF Load, TInv, WorkOK
        <3>3. "claim" \notin Taking
            BY DEF Taking, Handing
        <3>4. QED
            BY <3>1, <3>2, <3>3, MoveKeepsTurn
    <2>3. QED
        BY <1>1, <2>1, <2>2 DEF Drain
<1>2. CASE ClaimPrompt(g)
    <2>1. PICK p : p = NextPrompt(copy[g])
        OBVIOUS
    <2>2. /\ at[g] = "claim" /\ MayClaim(g) /\ RunTurn(g, "claim", p) /\ Unlock(g)
          /\ job' = job /\ crashes' = crashes
        BY <1>2, <2>1 DEF ClaimPrompt
    <2>3. row'.status = "running"
        BY <1>2 DEF ClaimPrompt, TInv, WorkOK, Rows
    <2>4. QED
        BY <2>2, <2>3, RunTurnKeepsTurn
<1>3. CASE ClaimGoal(g)
    <2>1. /\ at[g] = "claim" /\ MayClaim(g) /\ RunTurn(g, "goal", None) /\ Unlock(g)
          /\ job' = job /\ crashes' = crashes
        BY <1>3 DEF ClaimGoal
    <2>2. copy[g] \in Rows
        BY <2>1 DEF TInv, WorkOK, Saving
    <2>3. row'.status = "running"
        BY <1>3, <2>2 DEF ClaimGoal, Saved, Rows
    <2>4. QED
        BY <2>1, <2>3, RunTurnKeepsTurn
<1>4. CASE ClaimNothing(g)
    <2>1. /\ at[g] = "claim" /\ at' = [at EXCEPT ![g] = AfterDrain(g)]
          /\ row' = row /\ task' = task /\ job' = job /\ crashes' = crashes
          /\ copy' = [copy EXCEPT ![g] = None]
        BY <1>4 DEF ClaimNothing, Unlock
    <2>2. AfterDrain(g) \in {"close", "out"}
        BY DEF AfterDrain
    <2>3. \A h \in Procs : h # g => copy'[h] = copy[h]
        BY <2>1 DEF TInv, WorkOK
    <2>4. AfterDrain(g) \notin Taking /\ AfterDrain(g) \notin Saving /\ at[g] \in Saving
        BY <2>1, <2>2 DEF Taking, Handing, Saving
    <2>5. QED
        BY <2>1, <2>2, <2>3, <2>4, MoveKeepsTurn
<1>5. CASE LoadRestore(g) \/ LoadRequeue(g)
    <2>1. PICK l \in {"restore", "append"} :
              /\ Load(g, l) /\ (l = "restore" => at[g] = "failed")
        BY <1>5 DEF LoadRestore, LoadRequeue
    <2>2. /\ lock = None /\ at' = [at EXCEPT ![g] = l]
          /\ copy'[g] = row /\ \A h \in Procs : h # g => copy'[h] = copy[h]
        BY <2>1 DEF Load, TInv, WorkOK
    <2>3. task' = task /\ row' = row /\ job' = job /\ crashes' = crashes
        BY <1>5 DEF LoadRestore, LoadRequeue
    <2>4. (l \in Taking => at[g] \in Taking) /\ l \in Saving
        BY <2>1 DEF Taking, Handing, Saving
    <2>5. QED
        BY <2>1, <2>2, <2>3, <2>4, MoveKeepsTurn
<1>6. CASE AppendPrompt(g) \/ DeletePrompt(g) \/ ReorderPrompts(g) \/ EnqueueInternalTurn(g)
    <2>1. /\ at[g] \in Saving \ {"restore"} /\ job' = job /\ crashes' = crashes
        BY <1>6 DEF AppendPrompt, DeletePrompt, ReorderPrompts, EnqueueInternalTurn, Saving
    <2>2. PICK r \in Rows, l \in {"out", "drain"} :
              r.status = copy[g].status /\ Save(g, r, l)
        BY <1>6, QueueSaves
    <2>3. QED
        BY <2>1, <2>2, SaveKeepsTurn
<1>7. CASE RestorePrompt(g) \/ FinishAction(g)
    <2>1. PICK l \in {"out", "drain"} : Goto(g, l)
        BY <1>7 DEF RestorePrompt, FinishAction, Save
    <2>2. Takes(g) /\ job' = job /\ crashes' = crashes
        BY <1>7 DEF RestorePrompt, FinishAction, Takes, Taking
    <2>3. QED
        BY <2>1, <2>2, TurnGivenUp
<1>8. CASE RunAction(g) \/ FailTurn(g)
    <2>1. PICK l \in {"acted", "failed"} : Goto(g, l) /\ (l = "acted" => at[g] = "act")
        BY <1>8 DEF RunAction, FailTurn
    <2>2. at[g] \in Taking /\ UNCHANGED <<row, job, lock, copy, crashes>>
        BY <1>8 DEF RunAction, FailTurn, Taking, Handing
    <2>3. l \notin Saving /\ l \notin {"toFinish", "finish", "resume"}
        BY <2>1 DEF Saving
    <2>4. l \notin {"steer", "steering", "cancel", "cancelWait", "cancelDone",
                    "toClear", "clear", "stale", "recover", "mark", "act"}
        BY <2>1
    <2>5. /\ at' = [at EXCEPT ![g] = l]
          /\ \A h \in Procs : task'[h].kind = task[h].kind
                              \/ task'[h].kind \notin {"steer", "ext"}
        BY <2>1, GotoTask
    <2>6. QED
        BY <2>1, <2>2, <2>3, <2>4, <2>5, MoveKeepsTurn
<1>9. CASE Begin(g)
    <2>1. at[g] = "begin" /\ job' = job /\ crashes' = crashes
        BY <1>9 DEF Begin
    <2>2. CASE copy[g].status = "running" \/ RuntimeRunning
        <3>1. /\ Goto(g, "busy") /\ row' = row /\ copy' = [copy EXCEPT ![g] = None]
            BY <1>9, <2>2 DEF Begin, Unlock
        <3>2. \A h \in Procs : h # g => copy'[h] = copy[h]
            BY <3>1 DEF TInv, WorkOK
        <3>3. "busy" \notin Taking /\ "busy" \notin Saving /\ at[g] \in Saving
            BY <2>1 DEF Taking, Handing, Saving
        <3>4. QED
            BY <2>1, <3>1, <3>2, <3>3, GotoTask, MoveKeepsTurn
    <2>3. CASE ~ (copy[g].status = "running" \/ RuntimeRunning)
        <3>1. /\ Goto(g, "send") /\ row' = Saved([copy[g] EXCEPT !.status = "running"])
              /\ lock' = None
            BY <1>9, <2>3 DEF Begin, Save, Unlock
        <3>2. copy[g] \in Rows /\ at[g] \in Saving
            BY <2>1 DEF TInv, WorkOK, Saving
        <3>3. row'.status = "running"
            BY <3>1, <3>2 DEF Saved, Rows
        <3>4. ~ Occupied
            BY <2>3, <3>2 DEF TurnInv, CopiesMarked
        <3>5. /\ Tame' /\ Restarted'
              /\ at'[g] = "send" /\ \A h \in Procs : h # g => at'[h] = at[h]
            BY <2>1, <3>1, GotoTame
        <3>6. \A h \in Procs : at'[h] \notin Saving
            BY <3>2, <3>5 DEF LInv, Locking, Saving
        <3>7. Live' => Live
            BY <2>1, <3>5, FinisherIsProc DEF Live, RuntimeRunning
        <3>8. \A h \in Procs : h # g => (Takes(h)' => Takes(h))
            BY <3>5 DEF Takes
        <3>9. QED
            BY <3>3, <3>4, <3>5, <3>6, <3>7, <3>8, TurnTaken
    <2>4. QED
        BY <2>2, <2>3
<1>10. CASE BeginFails(g) \/ BusySteers(g) \/ BusyRejects(g) \/ BusyQueues(g)
    <2>1. PICK l \in {"out", "requeue"} : Goto(g, l)
        BY <1>10 DEF BeginFails, BusySteers, BusyRejects, BusyQueues
    <2>2. /\ row' = row /\ job' = job /\ crashes' = crashes
          /\ \/ lock' = lock
             \/ at[g] \in Saving
          /\ \/ copy' = copy
             \/ copy' = [copy EXCEPT ![g] = None]
        BY <1>10 DEF BeginFails, BusySteers, BusyRejects, BusyQueues, Unlock, Saving
    <2>3. \A h \in Procs : h # g => copy'[h] = copy[h]
        BY <2>2 DEF TInv, WorkOK
    <2>4. l \notin Taking /\ l \notin Saving
        BY DEF Taking, Handing, Saving
    <2>5. QED
        BY <2>1, <2>2, <2>3, <2>4, GotoTask, MoveKeepsTurn
<1>11. QED
    BY <1>1, <1>2, <1>3, <1>4, <1>5, <1>6, <1>7, <1>8, <1>9, <1>10, NoSteering DEF Handlers

LEMMA SendingKeepsTurn ==
    ASSUME OneAtATime, TInv, LInv, JobInv, TurnInv, NEW g \in Procs, Sending(g)
    PROVE  TurnInv'
<1>1. at[g] \in Handing /\ Takes(g) /\ Occupied /\ ~ Live
    <2>1. at[g] \in Handing
        BY DEF Sending, SendResume, SendResumed, SendConflict, SendWait, SendMark,
            SendGoalGone, SendAppendFails, SendStart, SendFailed, Handing
    <2>2. Takes(g)
        BY <2>1 DEF Takes, Taking
    <2>3. QED
        BY <2>1, <2>2 DEF Occupied, TurnInv, Alone
<1>2. g # Finisher
    BY <1>1 DEF JobInv, FinisherAt, Handing
<1>3. row.status = "running" \/ Resumes(g)
    BY <1>1 DEF TurnInv, Marked
<1>4. \A h \in Procs : h # g => ~ Takes(h)
    BY <1>1 DEF TurnInv, Alone
<1>5. {"resume", "send", "wait", "failed"} \cap Saving = {}
    BY DEF Saving
<1>6. CASE SendResume(g)
    <2>1. /\ Goto(g, "resume") /\ UNCHANGED <<row, job, lock, crashes>>
          /\ copy'[g] = row /\ \A h \in Procs : h # g => copy'[h] = copy[h]
        BY <1>6 DEF SendResume, TInv, WorkOK
    <2>2. QED
        BY <1>1, <1>5, <2>1, GotoTask, MoveKeepsTurn DEF Takes
<1>7. CASE SendResumed(g)
    <2>1. /\ at[g] = "resume" /\ Goto(g, "send") /\ UNCHANGED <<lock, crashes>>
          /\ job' = "idle" /\ (row' = row \/ row' = Saved(copy[g]))
          /\ \A h \in Procs : h # g => copy'[h] = copy[h]
        BY <1>7 DEF SendResumed, TInv, WorkOK
    <2>2. copy[g].status = row.status /\ copy[g] \in Rows /\ row \in Rows
        BY <2>1 DEF TurnInv, Marked, TInv, WorkOK
    <2>3. row.status \in {"running", "interrupted"}
        BY <1>3 DEF Resumes
    <2>4. row'.status = row.status /\ row'.turn = row.turn
        BY <2>1, <2>2, <2>3 DEF Saved, Rows
    <2>5. QED
        BY <1>1, <1>5, <2>1, <2>4, GotoTask, MoveKeepsTurn DEF Takes
<1>8. CASE SendWait(g)
    <2>1. Goto(g, "wait") /\ UNCHANGED <<row, job, lock, copy, crashes>>
        BY <1>8 DEF SendWait
    <2>2. QED
        BY <1>1, <1>5, <2>1, GotoTask, MoveKeepsTurn DEF Takes
<1>9. CASE SendGoalGone(g)
    <2>1. Goto(g, "failed") /\ UNCHANGED <<row, job, lock, copy, crashes>>
        BY <1>9 DEF SendGoalGone
    <2>2. QED
        BY <1>1, <1>5, <2>1, GotoTask, MoveKeepsTurn DEF Takes
<1>10. CASE SendMark(g)
    <2>1. /\ Goto(g, "mark") /\ row' = MarkRunning /\ UNCHANGED <<job, copy, crashes>>
        BY <1>10 DEF SendMark
    <2>2. row'.status = "running" /\ row'.turn = Sent
        BY <2>1 DEF MarkRunning, TInv, WorkOK, Rows
    <2>3. /\ Tame' /\ Restarted'
          /\ at'[g] = "mark" /\ \A h \in Procs : h # g => at'[h] = at[h]
        BY <2>1, GotoTame
    <2>4. \A h \in Procs : Takes(h)' => h = g
        BY <1>4, <2>3 DEF Takes
    <2>5. ~ Live'
        BY <1>1, <1>2, <2>1, <2>3, FinisherIsProc DEF Live, RuntimeRunning
    <2>6. Alone'
        BY <2>4, <2>5 DEF Alone
    <2>7. \A h \in Procs : at'[h] # "resume"
        BY <1>4, <2>3 DEF Takes, Taking, Handing
    <2>8. Marked'
        BY <2>2, <2>5, <2>7 DEF Marked
    <2>9. \A h \in Procs : at'[h] \in Saving => at[h] \in Saving /\ copy'[h] = copy[h]
        BY <2>1, <2>3 DEF Saving
    <2>10. CopiesMarked'
        BY <1>1, <2>9 DEF TurnInv, CopiesMarked
    <2>11. QED
        BY <2>3, <2>6, <2>8, <2>10 DEF TurnInv
<1>11. CASE SendStart(g)
    <2>1. /\ at[g] = "mark" /\ Goto(g, AfterSend(task[g].kind))
          /\ UNCHANGED <<row, copy, crashes>>
        BY <1>11 DEF SendStart
    <2>2. AfterSend(task[g].kind) \in {"out", "drain"}
        BY DEF AfterSend, TurnInv, Tame
    <2>3. /\ Tame' /\ Restarted'
          /\ at'[g] = AfterSend(task[g].kind) /\ \A h \in Procs : h # g => at'[h] = at[h]
        BY <2>1, <2>2, GotoTame
    <2>4. \A h \in Procs : ~ Takes(h)'
        BY <1>4, <2>2, <2>3 DEF Takes, Taking, Handing
    <2>5. row'.status = "running" /\ row'.turn = Sent
        BY <2>1 DEF TurnInv, Marked
    <2>6. Alone'
        BY <2>4 DEF Alone
    <2>7. Marked'
        BY <2>4, <2>5 DEF Marked, Takes, Taking, Handing
    <2>8. \A h \in Procs : at'[h] \in Saving => at[h] \in Saving /\ copy'[h] = copy[h]
        BY <2>1, <2>2, <2>3 DEF Saving
    <2>9. CopiesMarked'
        BY <1>1, <2>8 DEF TurnInv, CopiesMarked
    <2>10. QED
        BY <2>3, <2>6, <2>7, <2>9 DEF TurnInv
<1>12. CASE SendFailed(g)
    <2>1. Goto(g, AfterSend(task[g].kind)) /\ job' = job /\ crashes' = crashes
        BY <1>12 DEF SendFailed
    <2>2. AfterSend(task[g].kind) \in {"out", "drain"}
        BY DEF AfterSend, TurnInv, Tame
    <2>3. QED
        BY <1>1, <2>1, <2>2, TurnGivenUp
<1>13. ~ SendConflict(g)
    BY <1>1 DEF SendConflict, Live
<1>14. ~ SendAppendFails(g)
    BY OneAtATime DEF OneAtATime, SendAppendFails
<1>15. QED
    BY <1>6, <1>7, <1>8, <1>9, <1>10, <1>11, <1>12, <1>13, <1>14 DEF Sending

LEMMA TurnEndKeepsTurn ==
    ASSUME TInv, LInv, JobInv, TurnInv, TurnEnd \/ UserCancel \/ ChangeGoal
    PROVE  TurnInv'
<1>1. CASE EndTurn
    <2>1. /\ RuntimeRunning /\ at' = [at EXCEPT ![Finisher] = "toFinish"]
          /\ UNCHANGED <<row, lock, task, copy, crashes>>
        BY <1>1 DEF EndTurn
    <2>2. /\ Tame' /\ Restarted'
          /\ at'[Finisher] = "toFinish" /\ \A h \in Procs : h # Finisher => at'[h] = at[h]
        BY <2>1, FinisherIsProc, OneMovesTame
    <2>3. Live
        BY <2>1 DEF Live
    <2>4. \A h \in Procs : ~ Takes(h)
        BY <2>3 DEF TurnInv, Alone
    <2>5. \A h \in Procs : ~ Takes(h)'
        BY <2>2, <2>4 DEF Takes, Taking, Handing
    <2>6. \A h \in Procs : at'[h] \notin {"mark", "resume"}
        BY <2>5 DEF Takes, Taking, Handing
    <2>7. \A h \in Procs : at'[h] \in Saving => at[h] \in Saving /\ copy'[h] = copy[h]
        BY <2>1, <2>2 DEF Saving
    <2>8. QED
        BY <2>1, <2>2, <2>3, <2>5, <2>6, <2>7, TurnStays
<1>2. CASE LoadFinish
    <2>1. /\ at[Finisher] = "toFinish" /\ Load(Finisher, "finish")
          /\ UNCHANGED <<row, job, task, crashes>>
        BY <1>2 DEF LoadFinish
    <2>2. /\ lock = None /\ at' = [at EXCEPT ![Finisher] = "finish"]
          /\ copy'[Finisher] = row /\ \A h \in Procs : h # Finisher => copy'[h] = copy[h]
        BY <2>1, FinisherIsProc DEF Load, TInv, WorkOK
    <2>3. "finish" \notin Taking
        BY DEF Taking, Handing
    <2>4. QED
        BY <2>1, <2>2, <2>3, FinisherIsProc, MoveKeepsTurn
<1>3. CASE Finish
    <2>1. /\ at[Finisher] = "finish" /\ at' = [at EXCEPT ![Finisher] = AfterFinish]
          /\ UNCHANGED <<job, task, crashes>>
        BY <1>3 DEF Finish
    <2>2. AfterFinish \in {"drain", "close"}
        BY DEF AfterFinish
    <2>3. /\ Tame' /\ Restarted'
          /\ at'[Finisher] = AfterFinish /\ \A h \in Procs : h # Finisher => at'[h] = at[h]
        BY <2>1, <2>2, FinisherIsProc, OneMovesTame
    <2>4. Live /\ ~ RuntimeRunning
        BY <2>1 DEF Live, JobInv, Finishing, RuntimeRunning
    <2>5. \A h \in Procs : ~ Takes(h)
        BY <2>4 DEF TurnInv, Alone
    <2>6. \A h \in Procs : ~ Takes(h)'
        BY <2>2, <2>3, <2>5 DEF Takes, Taking, Handing
    <2>7. ~ Live'
        BY <2>1, <2>2, <2>3, <2>4 DEF Live, RuntimeRunning
    <2>8. QED
        BY <2>3, <2>6, <2>7, NobodyKeepsTurn
<1>4. CASE CloseTurn
    <2>1. /\ at[Finisher] = "close" /\ job' = "idle"
          /\ at' = [g \in Procs |-> IF g = Finisher THEN "out" ELSE Wake(at[g])]
          /\ UNCHANGED <<row, lock, task, copy, crashes>>
        BY <1>4 DEF CloseTurn
    <2>2. at'[Finisher] = "out"
        BY <2>1, FinisherIsProc
    <2>3. \A g \in Procs : \/ at'[g] = at[g] \/ g = Finisher
                           \/ at[g] = "wait" /\ at'[g] = "send"
        BY <2>1 DEF Wake, TurnInv, Tame
    <2>4. Tame'
        BY <2>1, <2>2, <2>3 DEF TurnInv, Tame
    <2>5. Restarted'
        BY <2>1, <2>3, QueueAssumption DEF TurnInv, Restarted, Procs
    <2>6. \A g \in Procs : Takes(g)' => Takes(g)
        BY <2>2, <2>3 DEF Takes, Taking, Handing
    <2>7. \A g \in Procs : at'[g] \in {"mark", "resume"} => at'[g] = at[g] /\ Takes(g)
        BY <2>2, <2>3 DEF Takes, Taking, Handing
    <2>8. \A g \in Procs : at'[g] = "resume" => copy'[g].status = row'.status
        BY <2>1, <2>7 DEF TurnInv, Marked
    <2>9. \A g \in Procs : Resumes(g) => Resumes(g)'
        BY <2>1, <2>3, QueueAssumption DEF Resumes
    <2>10. ~ Live'
        BY <2>1, <2>2 DEF Live, RuntimeRunning
    <2>11. \A g \in Procs : at'[g] \in Saving => at[g] \in Saving /\ copy'[g] = copy[g]
        BY <2>1, <2>2, <2>3 DEF Saving
    <2>12. QED
        BY <2>1, <2>4, <2>5, <2>6, <2>7, <2>8, <2>9, <2>10, <2>11, TurnStays
<1>5. CASE UserCancel \/ ChangeGoal
    <2>1. /\ UNCHANGED <<lock, at, task, copy, crashes>>
          /\ row'.status = row.status /\ row'.turn = row.turn
        BY <1>5 DEF UserCancel, ChangeGoal, TInv, WorkOK, Rows
    <2>2. Live' => Live
        BY <1>5 DEF UserCancel, ChangeGoal, Live, RuntimeRunning
    <2>3. Tame' /\ Restarted'
        BY <2>1 DEF TurnInv, Tame, Restarted
    <2>4. \A g \in Procs : (Takes(g)' => Takes(g)) /\ (Resumes(g) => Resumes(g)')
        BY <2>1 DEF Takes, Resumes
    <2>5. \A g \in Procs : at'[g] = "resume" => copy'[g].status = row'.status
        BY <2>1 DEF TurnInv, Marked
    <2>6. QED
        BY <2>1, <2>2, <2>3, <2>4, <2>5, TurnStays
<1>6. QED
    BY <1>1, <1>2, <1>3, <1>4, <1>5 DEF TurnEnd

LEMMA RestartKeepsTurn ==
    ASSUME NoActionResumed, TInv, LInv, JobInv, TurnInv, Crash \/ Restart
    PROVE  TurnInv'
<1>1. Recovery \in Procs /\ Recovery # Finisher /\ Recovery # None
    BY QueueAssumption DEF Procs
<1>2. crashes \in Nat /\ crashes <= MaxCrashes
    BY QueueAssumption DEF TInv, RestOK
<1>3. CASE Crash
    <2>1. /\ crashes' = crashes + 1 /\ job' = "absent"
          /\ at' = [g \in Procs |-> IF g = Recovery THEN "recover" ELSE "out"]
          /\ task' = [g \in Procs |-> NoTask]
        BY <1>3 DEF Crash
    <2>2. \A g \in Procs : at'[g] \in {"recover", "out"} /\ task'[g].kind = "none"
        BY <2>1 DEF NoTask, Task
    <2>3. Tame' /\ \A g \in Procs : ~ Takes(g)'
        BY <2>2 DEF Tame, Takes, Taking, Handing
    <2>4. Restarted'
        BY <1>2, <2>1 DEF Restarted
    <2>5. ~ Live'
        BY <2>1, <2>2, FinisherIsProc DEF Live, RuntimeRunning
    <2>6. QED
        BY <2>3, <2>4, <2>5, NobodyKeepsTurn
<1>4. CASE RecoverNothing
    <2>1. /\ Goto(Recovery, "drain") /\ UNCHANGED <<row, job, lock, copy, crashes>>
        BY <1>4 DEF RecoverNothing
    <2>2. "drain" \notin Taking /\ "drain" \notin Saving
        BY DEF Taking, Handing, Saving
    <2>3. QED
        BY <1>1, <2>1, <2>2, GotoTask, MoveKeepsTurn
<1>5. CASE RecoverTurn
    <2>1. /\ lock = None /\ row.status = "interrupted" /\ lock' = Recovery
          /\ at' = [at EXCEPT ![Recovery] = "send"]
          /\ UNCHANGED <<row, job, copy, crashes>>
        BY <1>5 DEF RecoverTurn
    <2>2. \A h \in Procs : task'[h].kind = task[h].kind \/ task'[h].kind = "recover"
        BY <1>5, <1>1 DEF RecoverTurn, TInv, WorkOK, Task
    <2>3. /\ Tame' /\ Restarted'
          /\ at'[Recovery] = "send" /\ \A h \in Procs : h # Recovery => at'[h] = at[h]
        BY <1>1, <2>1, <2>2, OneMovesTame
    <2>4. \A h \in Procs : ~ Resumes(h)
        BY <1>1, <2>1 DEF Resumes
    <2>5. ~ Occupied
        BY <2>1, <2>4 DEF TurnInv, Marked, Occupied
    <2>6. Resumes(Recovery)'
        BY <2>1, <2>3 DEF Resumes
    <2>7. \A h \in Procs : at[h] \notin Saving
        BY <2>1, QueueAssumption DEF LInv, Locking, Procs
    <2>8. \A h \in Procs : at'[h] \notin Saving
        BY <2>3, <2>7 DEF Saving
    <2>9. Live' => Live
        BY <1>1, <2>1, <2>3, FinisherIsProc DEF Live, RuntimeRunning
    <2>10. \A h \in Procs : h # Recovery => (Takes(h)' => Takes(h))
        BY <2>3 DEF Takes
    <2>11. QED
        BY <1>1, <2>3, <2>5, <2>6, <2>8, <2>9, <2>10, TurnTaken
<1>6. ~ RecoverAction
    <2>1. Actions = {} => ~ RecoverAction
        BY DEF RecoverAction
    <2>2. MaxCrashes = 0 => at[Recovery] # "recover"
        BY <1>2 DEF TurnInv, Restarted
    <2>3. MaxCrashes = 0 => ~ RecoverAction
        BY <2>2 DEF RecoverAction
    <2>4. QED
        BY <2>1, <2>3, NoActionResumed DEF NoActionResumed
<1>7. QED
    BY <1>3, <1>4, <1>5, <1>6 DEF Restart

LEMMA TurnInvariant ==
    ASSUME OneAtATime, NoActionResumed
    PROVE  Spec => []TurnInv
<1>1. ASSUME Init PROVE TurnInv
    <2>1. \A g \in Procs : at[g] = "out" /\ task[g].kind = "none"
        BY <1>1 DEF Init, NoTask, Task
    <2>2. ~ Live /\ \A g \in Procs : ~ Takes(g)
        BY <1>1, <2>1, FinisherIsProc DEF Init, Live, RuntimeRunning, Takes, Taking, Handing
    <2>3. Tame /\ Alone /\ CopiesMarked
        BY <2>1, <2>2 DEF Tame, Alone, CopiesMarked, Occupied
    <2>4. Marked /\ Restarted
        BY <2>1, <2>2, QueueAssumption DEF Marked, Restarted, Procs
    <2>5. QED
        BY <2>3, <2>4 DEF TurnInv
<1>2. ASSUME TInv, LInv, JobInv, TurnInv, [Next]_vars PROVE TurnInv'
    <2>1. CASE AtRest \/ UNCHANGED vars
        <3>1. UNCHANGED vars
            BY <2>1 DEF AtRest
        <3>2. UNCHANGED <<row, job, lock, at, task, copy, crashes>>
            BY <3>1 DEF vars
        <3>3. QED
            BY <1>2, <3>2 DEF TurnInv, Tame, Alone, Marked, CopiesMarked, Restarted, Takes,
                Live, Occupied, Resumes, RuntimeRunning
    <2>2. QED
        BY <1>2, <2>1, OneAtATime, NoActionResumed, RequestsKeepTurn, HandlersKeepTurn,
            SendingKeepsTurn, TurnEndKeepsTurn, RestartKeepsTurn DEF Next
<1>3. Init => TurnInv
    BY <1>1
<1>4. TInv /\ LInv /\ JobInv /\ TurnInv /\ [Next]_vars => TurnInv'
    BY <1>2
<1>5. QED
    BY <1>3, <1>4, TInvInvariant, LInvInvariant, JobInvariant, PTL DEF Spec

\* A turn that was claimed or begun is the only one until it has ended: nobody else
\* hands a prompt to the agent meanwhile (claimNextTurn and beginACPTurn believe the
\* stored status; the agent's own check is the second line of defence).
THEOREM OneTurnAtATime ==
    ASSUME OneAtATime, NoActionResumed
    PROVE  Spec => []OneTurn
<1>1. ASSUME TurnInv PROVE OneTurn
    <2>1. \A g \in Procs : at[g] \in {"send", "resume", "wait", "mark"} => Takes(g)
        BY DEF Takes, Taking, Handing
    <2>2. QED
        BY <1>1, <2>1 DEF TurnInv, Alone, OneTurn, Live
<1>2. TurnInv => OneTurn
    BY <1>1
<1>3. QED
    BY <1>2, OneAtATime, NoActionResumed, TurnInvariant, PTL

\* While the agent works the stored session is running and has the turn's record,
\* whatever the others save meanwhile (StartSessionTurn writes it without the lock).
THEOREM LiveTurnsMarked ==
    ASSUME OneAtATime, NoActionResumed
    PROVE  Spec => []LiveTurnMarkedRunning
<1>1. TurnInv => LiveTurnMarkedRunning
    BY DEF TurnInv, Marked, LiveTurnMarkedRunning, Live
<1>2. QED
    BY <1>1, OneAtATime, NoActionResumed, TurnInvariant, PTL

-----------------------------------------------------------------------------
\* No forgotten queue. If, besides, no goal is followed, no turn is cancelled, nothing
\* but a claimed prompt fails before it reaches the agent and no action is queued, then
\* until the first restart the stored status tells the truth: running means that
\* somebody has the turn, and idle with prompts means that somebody is about to claim.
\* (A failed goal continuation, a cancelled turn and a failed direct send leave the
\* queue alone on purpose; an action that ends writes a status the lock does not
\* protect.)

TurnsRunOn ==
    /\ Actions = {}
    /\ Ops \cap {"goal", "cancel", "sendFail"} = {}

\* What is not met then.
Calm ==
    /\ job \notin {"cancelling", "cancelled"}
    /\ ~ row.goal
    /\ \A g \in Procs :
          /\ at[g] \notin {"act", "acted"} /\ task[g].kind # "goal"
          /\ at[g] = "failed" => task[g].kind = "claim"
          /\ at[g] \in Saving => ~ copy[g].goal

StatusFresh == \A g \in Procs : at[g] \in Saving => copy[g].status = row.status

Settled ==
    /\ row.status # "interrupted"
    /\ row.status = "running" => Occupied

Claimers == {"drain", "claim"}

QueueAttended ==
    row.status = "idle" /\ QueueOf(row) # <<>> => \E g \in Procs : at[g] \in Claimers

Steady == Calm /\ StatusFresh /\ Settled /\ QueueAttended

SteadyInv == crashes = 0 => Steady

\* Labels and tasks after a step.
LEMMA StaysCalm ==
    ASSUME Calm, Actions = {},
           job' \in {job, "idle", "running", "ended", "failed"},
           row'.goal = row.goal,
           \A h \in Procs : at'[h] \in {"act", "acted"} => at[h] = at'[h],
           \A h \in Procs : task'[h].kind # "goal",
           \A h \in Procs : at'[h] = "failed" => task'[h].kind = "claim",
           \A h \in Procs : at'[h] \in Saving =>
               (at[h] \in Saving /\ copy'[h] = copy[h]) \/ copy'[h] = row
    PROVE  Calm'
BY DEF Calm

\* A goroutine moves on, and the status stays.
LEMMA MoveStaysSteady ==
    ASSUME TInv, Steady, Actions = {}, NEW g \in Procs, NEW l,
           at' = [at EXCEPT ![g] = l],
           job' \in {job, "idle", "running", "ended", "failed"},
           row'.goal = row.goal, row'.status = row.status,
           \A h \in Procs : h # g => task'[h] = task[h] /\ copy'[h] = copy[h],
           task'[g].kind # "goal", l = "failed" => task'[g].kind = "claim",
           l \notin {"act", "acted"},
           l \in Saving => copy'[g] = row,
           Occupied => Occupied',
           row.status = "idle" /\ QueueOf(row') # <<>> =>
               l \in Claimers \/ (QueueOf(row) # <<>> /\ at[g] \notin Claimers)
    PROVE  Steady'
<1>1. at'[g] = l /\ \A h \in Procs : h # g => at'[h] = at[h]
    BY DEF TInv, WorkOK
<1>2. \A h \in Procs : at'[h] \in Saving =>
          (at[h] \in Saving /\ copy'[h] = copy[h]) \/ copy'[h] = row
    BY <1>1
<1>3. Calm'
    <2>1. \A h \in Procs : at'[h] \in {"act", "acted"} => at[h] = at'[h]
        BY <1>1
    <2>2. \A h \in Procs : task'[h].kind # "goal"
        BY DEF Steady, Calm
    <2>3. \A h \in Procs : at'[h] = "failed" => task'[h].kind = "claim"
        BY <1>1 DEF Steady, Calm
    <2>4. QED
        BY <1>2, <2>1, <2>2, <2>3, StaysCalm DEF Steady
<1>4. StatusFresh'
    BY <1>2 DEF Steady, StatusFresh
<1>5. Settled'
    BY DEF Steady, Settled
<1>6. QueueAttended'
    <2>1. SUFFICES ASSUME row.status = "idle", QueueOf(row') # <<>>
                   PROVE  \E h \in Procs : at'[h] \in Claimers
        BY DEF QueueAttended, QueueOf
    <2>2. CASE l \in Claimers
        BY <1>1, <2>2
    <2>3. CASE QueueOf(row) # <<>> /\ at[g] \notin Claimers
        <3>1. PICK h \in Procs : at[h] \in Claimers
            BY <2>1, <2>3 DEF Steady, QueueAttended
        <3>2. QED
            BY <1>1, <2>3, <3>1
    <2>4. QED
        BY <2>1, <2>2, <2>3
<1>7. QED
    BY <1>3, <1>4, <1>5, <1>6 DEF Steady

\* ... and so does the row.
LEMMA GotoStaysSteady ==
    ASSUME TInv, Steady, Actions = {}, NEW g \in Procs, NEW l,
           at' = [at EXCEPT ![g] = l],
           \A h \in Procs : h # g => task'[h] = task[h] /\ copy'[h] = copy[h],
           task'[g].kind # "goal", l = "failed" => task'[g].kind = "claim",
           l \notin {"act", "acted"},
           row' = row, job' = job,
           l \in Saving => copy'[g] = row,
           Takes(g) => l \in Taking,
           g = Finisher /\ at[g] \in {"toFinish", "finish"} => l \in {"toFinish", "finish"},
           at[g] \in Claimers => l \in Claimers \/ row.status # "idle" \/ QueueOf(row) = <<>>
    PROVE  Steady'
<1>1. at'[g] = l /\ \A h \in Procs : h # g => at'[h] = at[h]
    BY DEF TInv, WorkOK
<1>2. Occupied => Occupied'
    <2>1. Live => Live'
        BY <1>1, FinisherIsProc DEF Live, RuntimeRunning
    <2>2. \A h \in Procs : Takes(h) => Takes(h)'
        BY <1>1 DEF Takes
    <2>3. QED
        BY <2>1, <2>2 DEF Occupied
<1>3. QED
    BY <1>2, MoveStaysSteady

\* What Goto does to the tasks.
LEMMA GotoKeepsTasks ==
    ASSUME TInv, Calm, NEW g \in Procs, NEW l, Goto(g, l)
    PROVE  /\ at' = [at EXCEPT ![g] = l]
           /\ \A h \in Procs : h # g => task'[h] = task[h]
           /\ task'[g].kind # "goal"
           /\ l \notin {"out", "drain"} => task'[g] = task[g]
<1>1. /\ at' = [at EXCEPT ![g] = l]
      /\ \A h \in Procs : h # g => task'[h] = task[h]
      /\ task'[g] = IF l \in {"out", "drain"} THEN NoTask ELSE task[g]
    BY DEF Goto, TInv, WorkOK
<1>2. NoTask.kind = "none"
    BY DEF NoTask, Task
<1>3. QED
    BY <1>1, <1>2 DEF Calm

\* Who holds the lock and saves is the only one to: a status it writes disturbs no copy.
LEMMA OnlySaver ==
    ASSUME LInv, NEW g \in Procs, at[g] \in Saving, NEW h \in Procs, h # g
    PROVE  at[h] \notin Saving
BY DEF LInv, Locking

\* A turn is taken, and the row says so.
LEMMA TakingStaysSteady ==
    ASSUME LInv, Steady, Actions = {}, NEW g \in Procs, at[g] \in Saving,
           NEW r \in Procs, at'[r] = "send", task'[r].kind # "goal",
           at'[g] \in {"out", "close", "send"},
           \A h \in Procs : h \notin {g, r} => at'[h] = at[h],
           \A h \in Procs : h # r => task'[h] = task[h],
           row'.status = "running", row'.goal = row.goal, job' = job
    PROVE  Steady'
<1>1. \A h \in Procs : at'[h] \notin Saving
    <2>1. \A h \in {g, r} : at'[h] \in {"out", "close", "send"}
        OBVIOUS
    <2>2. \A h \in Procs : h \notin {g, r} => at'[h] \notin Saving
        BY OnlySaver
    <2>3. QED
        BY <2>1, <2>2 DEF Saving
<1>2. \A h \in Procs : at'[h] \in {"act", "acted", "failed"} =>
          at'[h] = at[h] /\ task'[h] = task[h]
    <2>1. \A h \in {g, r} : at'[h] \notin {"act", "acted", "failed"}
        OBVIOUS
    <2>2. QED
        BY <2>1
<1>3. Calm'
    BY <1>1, <1>2 DEF Steady, Calm
<1>4. Occupied'
    BY DEF Occupied, Takes, Taking, Handing
<1>5. QED
    BY <1>1, <1>3, <1>4 DEF Steady, StatusFresh, Settled, QueueAttended

LEMMA RequestsStaySteady ==
    ASSUME OneAtATime, TurnsRunOn, TInv, LInv, TurnInv, Steady, NEW g \in Goroutines, Requests(g)
    PROVE  Steady'
<1>1. g \in Procs /\ g # Finisher
    BY QueueAssumption DEF Procs
<1>2. PICK l \in {"append", "delete", "reorder", "enqueue", "begin"},
           k \in {"queue", "direct"}, p \in Prompts \cup {None} : Request(g, l, k, p)
    <2>1. Ops \cap {"steer", "ext", "cancelStored"} = {}
        BY OneAtATime DEF OneAtATime
    <2>2. \A p : ~ RequestSteer(g, p) /\ ~ SendExternal(g, p)
        BY <2>1 DEF RequestSteer, Request, SendExternal
    <2>3. ~ CancelStored(g)
        BY <2>1 DEF CancelStored
    <2>4. QED
        BY <2>2, <2>3 DEF Requests, RequestAppend, RequestDelete, RequestReorder,
            RequestEnqueue, RequestBegin, Prompts
<1>3. /\ at[g] = "out" /\ at' = [at EXCEPT ![g] = l]
      /\ copy' = [copy EXCEPT ![g] = row] /\ task' = [task EXCEPT ![g] = Task(k, p, 0)]
      /\ row' = row /\ job' = job
    BY <1>2 DEF Request, Load
<1>4. /\ \A h \in Procs : h # g => task'[h] = task[h] /\ copy'[h] = copy[h]
      /\ copy'[g] = row /\ task'[g].kind = k
    BY <1>1, <1>3 DEF TInv, WorkOK, Task
<1>5. ~ Takes(g) /\ at[g] \notin Claimers
    BY <1>3 DEF Takes, Taking, Handing, Claimers
<1>6. QED
    BY <1>1, <1>2, <1>3, <1>4, <1>5, GotoStaysSteady DEF TurnsRunOn

LEMMA HandlersStaySteady ==
    ASSUME OneAtATime, TurnsRunOn, NoUnlockedSaves, TInv, LInv, JobInv, TurnInv,
           Steady, NEW g \in Procs, Handlers(g)
    PROVE  Steady'
<1>1. Actions = {}
    BY TurnsRunOn DEF TurnsRunOn
<1>2. Calm
    BY DEF Steady
<1>3. CASE Drain(g)
    <2>1. at[g] = "drain" /\ task' = task /\ row' = row /\ job' = job
        BY <1>3 DEF Drain
    <2>2. ~ Takes(g)
        BY <2>1 DEF Takes, Taking, Handing
    <2>3. CASE /\ ~ (row.status = "idle" /\ QueueOf(row) # <<>>)
               /\ at' = [at EXCEPT ![g] = "out"] /\ copy' = copy
        <3>1. "out" \notin Saving /\ at[g] \notin {"toFinish", "finish"}
            BY <2>1 DEF Saving
        <3>2. task'[g].kind # "goal"
            BY <1>2, <2>1 DEF Calm
        <3>3. row.status # "idle" \/ QueueOf(row) = <<>>
            BY <2>3
        <3>4. \A h \in Procs : h # g => task'[h] = task[h] /\ copy'[h] = copy[h]
            BY <2>1, <2>3
        <3>5. PICK l : l = "out"
            OBVIOUS
        <3>6. /\ at' = [at EXCEPT ![g] = l]
              /\ l \notin {"act", "acted"} /\ l # "failed" /\ l \notin Saving
            BY <2>3, <3>1, <3>5
        <3>7. QED
            BY <1>1, <2>1, <2>2, <3>1, <3>2, <3>3, <3>4, <3>6, GotoStaysSteady
    <2>4. CASE Load(g, "claim")
        <3>1. /\ at' = [at EXCEPT ![g] = "claim"]
              /\ copy'[g] = row /\ \A h \in Procs : h # g => copy'[h] = copy[h]
            BY <2>4 DEF Load, TInv, WorkOK
        <3>2. "claim" \in Claimers
            BY DEF Claimers
        <3>3. QED
            BY <1>1, <1>2, <2>1, <2>2, <3>1, <3>2, GotoStaysSteady DEF Calm
    <2>5. QED
        BY <1>3, <2>3, <2>4 DEF Drain
<1>4. CASE ClaimPrompt(g)
    <2>1. PICK p : p = NextPrompt(copy[g])
        OBVIOUS
    <2>2. /\ at[g] = "claim" /\ RunTurn(g, "claim", p) /\ job' = job
        BY <1>4, <2>1 DEF ClaimPrompt
    <2>3. row'.status = "running" /\ row'.goal = row.goal
        BY <1>4 DEF ClaimPrompt, TInv, WorkOK, Rows
    <2>4. PICK r \in Procs :
            /\ at' = [at EXCEPT ![g] = AfterDrain(g), ![r] = "send"]
            /\ task' = [task EXCEPT ![r] = Task("claim", p, 0)]
            /\ Runs(g, r)
        BY <1>1, <2>2 DEF RunTurn
    <2>5. AfterDrain(g) \in {"out", "close"}
        BY DEF AfterDrain
    <2>6. /\ at'[r] = "send" /\ at'[g] \in {"out", "close", "send"}
          /\ \A h \in Procs : h \notin {g, r} => at'[h] = at[h]
          /\ task'[r].kind = "claim"
          /\ \A h \in Procs : h # r => task'[h] = task[h]
        BY <2>4, <2>5 DEF TInv, WorkOK, Task
    <2>7. at[g] \in Saving
        BY <2>2 DEF Saving
    <2>8. QED
        BY <1>1, <2>2, <2>3, <2>6, <2>7, TakingStaysSteady
<1>5. ~ ClaimGoal(g)
    BY <1>2 DEF ClaimGoal, Calm, Saving
<1>6. CASE ClaimNothing(g)
    <2>1. /\ at[g] = "claim" /\ at' = [at EXCEPT ![g] = AfterDrain(g)]
          /\ row' = row /\ task' = task /\ job' = job
          /\ copy' = [copy EXCEPT ![g] = None]
          /\ MayClaim(g) => QueueOf(copy[g]) = <<>>
        BY <1>6 DEF ClaimNothing, Unlock
    <2>2. AfterDrain(g) \in {"close", "out"}
        BY DEF AfterDrain
    <2>3. \A h \in Procs : h # g => copy'[h] = copy[h]
        BY <2>1 DEF TInv, WorkOK
    <2>4. AfterDrain(g) \notin Saving /\ at[g] \in Saving /\ ~ Takes(g)
        BY <2>1, <2>2 DEF Takes, Taking, Handing, Saving
    <2>5. row.status # "idle" \/ QueueOf(row) = <<>>
        <3>1. SUFFICES ASSUME row.status = "idle" PROVE QueueOf(row) = <<>>
            OBVIOUS
        <3>2. copy[g].status = "idle"
            BY <2>4, <3>1 DEF Steady, StatusFresh
        <3>3. ~ RuntimeRunning
            BY <3>1 DEF TurnInv, Marked, Live
        <3>4. QueueOf(copy[g]) = <<>>
            BY <2>1, <3>2, <3>3 DEF MayClaim
        <3>5. copy[g].pub = row.pub /\ copy[g].int = row.int
            BY <2>4, NoUnlockedSaves DEF LInv, FreshCopies
        <3>6. QED
            BY <3>4, <3>5 DEF QueueOf
    <2>6. QED
        BY <1>1, <1>2, <2>1, <2>2, <2>3, <2>4, <2>5, GotoStaysSteady DEF Calm
<1>7. CASE LoadRestore(g) \/ LoadRequeue(g)
    <2>1. PICK l \in {"restore", "append"} :
              /\ Load(g, l) /\ (at[g] = "failed" => l = "restore")
              /\ at[g] \in {"failed", "requeue"}
        BY <1>7 DEF LoadRestore, LoadRequeue
    <2>2. /\ at' = [at EXCEPT ![g] = l]
          /\ copy'[g] = row /\ \A h \in Procs : h # g => copy'[h] = copy[h]
        BY <2>1 DEF Load, TInv, WorkOK
    <2>3. task' = task /\ row' = row /\ job' = job
        BY <1>7 DEF LoadRestore, LoadRequeue
    <2>4. Takes(g) => l \in Taking
        BY <2>1 DEF Takes, Taking, Handing
    <2>5. at[g] \notin Claimers /\ at[g] \notin {"toFinish", "finish"}
        BY <2>1 DEF Claimers
    <2>6. QED
        BY <1>1, <1>2, <2>1, <2>2, <2>3, <2>4, <2>5, GotoStaysSteady DEF Calm
<1>8. CASE AppendPrompt(g) \/ DeletePrompt(g) \/ ReorderPrompts(g) \/ EnqueueInternalTurn(g)
    <2>1. /\ at[g] \in {"append", "delete", "reorder", "enqueue"} /\ job' = job
        BY <1>8 DEF AppendPrompt, DeletePrompt, ReorderPrompts, EnqueueInternalTurn
    <2>2. at[g] \in Saving
        BY <2>1 DEF Saving
    <2>3. copy[g].status = row.status
        BY <2>2 DEF Steady, StatusFresh
    <2>4. PICK r \in Rows, l \in {"out", "drain"} :
              /\ r.status = copy[g].status /\ Save(g, r, l)
              /\ r.status = "idle" /\ QueueOf(r) # <<>> /\ ~ RuntimeRunning => l = "drain"
        BY <1>8, QueueSaves
    <2>5. /\ row'.status = row.status /\ row'.goal = row.goal /\ QueueOf(row') = QueueOf(r)
        BY <2>3, <2>4, SavedShows DEF Save, TInv, WorkOK
    <2>6. row.status = "idle" => ~ RuntimeRunning
        BY DEF TurnInv, Marked, Live
    <2>7. /\ at' = [at EXCEPT ![g] = l] /\ task'[g].kind # "goal"
          /\ \A h \in Procs : h # g => task'[h] = task[h] /\ copy'[h] = copy[h]
        BY <1>2, <2>4, GotoKeepsTasks DEF Save, Unlock, TInv, WorkOK
    <2>8. row.status = "idle" /\ QueueOf(row') # <<>> => l \in Claimers
        BY <2>3, <2>4, <2>5, <2>6 DEF Claimers
    <2>9. Occupied => Occupied'
        <3>1. at'[g] = l /\ \A h \in Procs : h # g => at'[h] = at[h]
            BY <2>7 DEF TInv, WorkOK
        <3>2. g # Finisher /\ ~ Takes(g) /\ at[g] \notin {"toFinish", "finish"}
            BY <2>1 DEF Takes, Taking, Handing, JobInv, FinisherAt
        <3>3. Live => Live'
            BY <2>1, <3>1, <3>2, FinisherIsProc DEF Live, RuntimeRunning
        <3>4. \A h \in Procs : Takes(h) => Takes(h)'
            BY <3>1, <3>2 DEF Takes
        <3>5. QED
            BY <3>3, <3>4 DEF Occupied
    <2>10. l \notin Saving
        BY DEF Saving
    <2>11. QED
        BY <1>1, <2>1, <2>5, <2>7, <2>8, <2>9, <2>10, MoveStaysSteady
<1>9. CASE RestorePrompt(g)
    <2>1. at[g] = "restore" /\ at[g] \in Saving /\ Goto(g, "out") /\ job' = job
        BY <1>9 DEF RestorePrompt, Save, Saving
    <2>2. task[g].p \in Prompts /\ copy[g] \in Rows
        BY <2>1 DEF TInv, WorkOK, TasksOK
    <2>3. row'.status = "error" /\ row'.goal = row.goal
        BY <1>9, <2>2 DEF RestorePrompt, Save, Saved, Rows
    <2>4. /\ at'[g] = "out" /\ \A h \in Procs : h # g => at'[h] = at[h]
          /\ task'[g].kind # "goal" /\ \A h \in Procs : h # g => task'[h] = task[h]
        BY <1>2, <2>1, GotoKeepsTasks DEF TInv, WorkOK
    <2>5. \A h \in Procs : at'[h] \notin Saving
        BY <2>1, <2>4, OnlySaver DEF Saving
    <2>6. Calm'
        BY <1>2, <2>1, <2>3, <2>4, <2>5 DEF Calm
    <2>7. QED
        BY <2>3, <2>5, <2>6 DEF Steady, StatusFresh, Settled, QueueAttended
<1>10. ~ RunAction(g) /\ ~ FinishAction(g)
    BY <1>2 DEF RunAction, FinishAction, Calm
<1>11. CASE FailTurn(g)
    <2>1. /\ Goto(g, "failed") /\ row' = row /\ job' = job /\ copy' = copy
          /\ at[g] \in {"act", "send", "wait"}
          /\ task[g].kind \in {"claim", "steer"} \/ "sendFail" \in Ops
        BY <1>11 DEF FailTurn
    <2>2. task[g].kind = "claim"
        BY <2>1, TurnsRunOn DEF TurnsRunOn, TurnInv, Tame
    <2>3. "failed" \in Taking /\ "failed" \notin Saving /\ at[g] \notin Claimers
        BY <2>1 DEF Taking, Handing, Saving, Claimers
    <2>4. QED
        BY <1>1, <1>2, <2>1, <2>2, <2>3, GotoKeepsTasks, GotoStaysSteady
<1>12. CASE Begin(g)
    <2>1. at[g] = "begin" /\ at[g] \in Saving /\ job' = job
        BY <1>12 DEF Begin, Saving
    <2>2. CASE copy[g].status = "running" \/ RuntimeRunning
        <3>1. /\ Goto(g, "busy") /\ row' = row /\ copy' = [copy EXCEPT ![g] = None]
            BY <1>12, <2>2 DEF Begin, Unlock
        <3>2. \A h \in Procs : h # g => copy'[h] = copy[h]
            BY <3>1 DEF TInv, WorkOK
        <3>3. "busy" \notin Saving /\ ~ Takes(g) /\ at[g] \notin Claimers
            BY <2>1 DEF Takes, Taking, Handing, Saving, Claimers
        <3>4. QED
            BY <1>1, <1>2, <2>1, <3>1, <3>2, <3>3, GotoKeepsTasks, GotoStaysSteady
    <2>3. CASE ~ (copy[g].status = "running" \/ RuntimeRunning)
        <3>1. /\ Goto(g, "send") /\ row' = Saved([copy[g] EXCEPT !.status = "running"])
            BY <1>12, <2>3 DEF Begin, Save
        <3>2. copy[g] \in Rows
            BY <2>1 DEF TInv, WorkOK
        <3>3. row'.status = "running" /\ row'.goal = row.goal
            BY <3>1, <3>2 DEF Saved, Rows
        <3>4. /\ at'[g] = "send" /\ \A h \in Procs : h # g => at'[h] = at[h]
              /\ task'[g].kind # "goal" /\ \A h \in Procs : h # g => task'[h] = task[h]
            BY <1>2, <3>1, GotoKeepsTasks DEF TInv, WorkOK
        <3>5. QED
            BY <1>1, <2>1, <3>3, <3>4, TakingStaysSteady
    <2>4. QED
        BY <2>2, <2>3
<1>13. CASE BeginFails(g) \/ BusySteers(g) \/ BusyRejects(g) \/ BusyQueues(g)
    <2>1. PICK l \in {"out", "requeue"} : Goto(g, l)
        BY <1>13 DEF BeginFails, BusySteers, BusyRejects, BusyQueues
    <2>2. /\ row' = row /\ job' = job /\ at[g] \in {"begin", "busy"}
          /\ copy' = copy \/ copy' = [copy EXCEPT ![g] = None]
        BY <1>13 DEF BeginFails, BusySteers, BusyRejects, BusyQueues, Unlock
    <2>3. \A h \in Procs : h # g => copy'[h] = copy[h]
        BY <2>2 DEF TInv, WorkOK
    <2>4. l \notin Saving /\ ~ Takes(g) /\ at[g] \notin Claimers
        BY <2>2 DEF Takes, Taking, Handing, Saving, Claimers
    <2>5. QED
        BY <1>1, <1>2, <2>1, <2>2, <2>3, <2>4, GotoKeepsTasks, GotoStaysSteady
<1>14. QED
    BY <1>3, <1>4, <1>5, <1>6, <1>7, <1>8, <1>9, <1>10, <1>11, <1>12, <1>13, NoSteering
        DEF Handlers

LEMMA SendingStaysSteady ==
    ASSUME OneAtATime, TurnsRunOn, NoUnlockedSaves, TInv, LInv, JobInv, TurnInv, Steady,
           NEW g \in Procs, Sending(g)
    PROVE  Steady'
<1>1. Actions = {} /\ Calm
    BY TurnsRunOn DEF TurnsRunOn, Steady
<1>2. at[g] \in Handing /\ Takes(g) /\ ~ Live
    <2>1. at[g] \in Handing
        BY DEF Sending, SendResume, SendResumed, SendConflict, SendWait, SendMark,
            SendGoalGone, SendAppendFails, SendStart, SendFailed, Handing
    <2>2. Takes(g)
        BY <2>1 DEF Takes, Taking
    <2>3. QED
        BY <2>1, <2>2 DEF TurnInv, Alone
<1>3. g # Finisher /\ at[g] \notin Claimers /\ at[g] \notin {"toFinish", "finish"}
    BY <1>2 DEF JobInv, FinisherAt, Handing, Claimers
<1>4. CASE SendResume(g) \/ SendWait(g)
    <2>1. PICK l \in {"resume", "wait"} : Goto(g, l)
        BY <1>4 DEF SendResume, SendWait
    <2>2. /\ row' = row /\ job' = job
          /\ copy' = copy \/ copy' = [copy EXCEPT ![g] = row]
        BY <1>4 DEF SendResume, SendWait
    <2>3. \A h \in Procs : h # g => copy'[h] = copy[h]
        BY <2>2 DEF TInv, WorkOK
    <2>4. l \in Taking /\ l \notin Saving
        BY DEF Taking, Handing, Saving
    <2>5. QED
        BY <1>1, <1>3, <2>1, <2>2, <2>3, <2>4, GotoKeepsTasks, GotoStaysSteady
<1>5. CASE SendResumed(g) \/ SendMark(g)
    <2>1. PICK l \in {"send", "mark"} : Goto(g, l)
        BY <1>5 DEF SendResumed, SendMark
    <2>2. job' \in {job, "idle"} /\ (copy' = copy \/ copy' = [copy EXCEPT ![g] = None])
        BY <1>5 DEF SendResumed, SendMark
    <2>3. \A h \in Procs : h # g => copy'[h] = copy[h]
        BY <2>2 DEF TInv, WorkOK
    <2>4. row'.status = row.status /\ row'.goal = row.goal
        <3>1. CASE SendResumed(g)
            BY <3>1, NoUnlockedSaves DEF SendResumed, NoUnlockedSaves
        <3>2. CASE SendMark(g)
            <4>1. row.status = "running"
                BY <1>2 DEF TurnInv, Marked, Resumes, Steady, Settled
            <4>2. QED
                BY <3>2, <4>1 DEF SendMark, MarkRunning, TInv, WorkOK, Rows
        <3>3. QED
            BY <1>5, <3>1, <3>2
    <2>5. row.status = "running"
        BY <1>2 DEF TurnInv, Marked, Resumes, Steady, Settled
    <2>6. Occupied'
        <3>1. at'[g] = l
            BY <2>1 DEF Goto, TInv, WorkOK
        <3>2. QED
            BY <3>1 DEF Occupied, Takes, Taking, Handing
    <2>7. l \notin Saving
        BY DEF Saving
    <2>8. QED
        BY <1>1, <2>1, <2>2, <2>3, <2>4, <2>5, <2>6, <2>7, GotoKeepsTasks, MoveStaysSteady
<1>6. CASE SendStart(g)
    <2>1. /\ Goto(g, AfterSend(task[g].kind)) /\ row' = row /\ job' = "running"
          /\ copy' = copy /\ at[g] = "mark"
        BY <1>6 DEF SendStart
    <2>2. AfterSend(task[g].kind) \in {"out", "drain"}
        BY DEF AfterSend, TurnInv, Tame
    <2>3. Occupied'
        BY <2>1 DEF Occupied, Live, RuntimeRunning
    <2>4. row.status = "running"
        BY <2>1 DEF TurnInv, Marked
    <2>5. AfterSend(task[g].kind) \notin Saving
        BY <2>2 DEF Saving
    <2>6. QED
        BY <1>1, <2>1, <2>2, <2>3, <2>4, <2>5, GotoKeepsTasks, MoveStaysSteady
<1>7. ~ SendConflict(g)
    BY <1>2 DEF SendConflict, Live
<1>8. ~ SendGoalGone(g)
    BY <1>1 DEF SendGoalGone, Calm
<1>9. ~ SendAppendFails(g)
    BY OneAtATime DEF OneAtATime, SendAppendFails
<1>10. ~ SendFailed(g)
    BY <1>1 DEF SendFailed, Calm
<1>11. QED
    BY <1>4, <1>5, <1>6, <1>7, <1>8, <1>9, <1>10 DEF Sending

LEMMA TurnEndStaysSteady ==
    ASSUME TurnsRunOn, TInv, LInv, JobInv, TurnInv, Steady,
           TurnEnd \/ UserCancel \/ ChangeGoal
    PROVE  Steady'
<1>1. Actions = {} /\ Calm
    BY TurnsRunOn DEF TurnsRunOn, Steady
<1>2. CASE EndTurn
    <2>1. /\ at' = [at EXCEPT ![Finisher] = "toFinish"] /\ at[Finisher] = "out"
          /\ UNCHANGED <<row, task, copy>>
        BY <1>2 DEF EndTurn
    <2>2. job' \in {"ended", "failed"}
        BY <1>1, <1>2 DEF EndTurn, Outcomes, RuntimeRunning, Calm
    <2>3. Occupied'
        BY <2>1, FinisherIsProc DEF Occupied, Live, TInv, WorkOK
    <2>4. task'[Finisher].kind # "goal"
        BY <1>1, <2>1, FinisherIsProc DEF Calm
    <2>5. at[Finisher] \notin Claimers /\ "toFinish" \notin Saving
        BY <2>1 DEF Claimers, Saving
    <2>6. /\ row'.goal = row.goal /\ row'.status = row.status /\ QueueOf(row') = QueueOf(row)
          /\ \A h \in Procs : h # Finisher => task'[h] = task[h] /\ copy'[h] = copy[h]
          /\ job' \in {job, "idle", "running", "ended", "failed"}
        BY <2>1, <2>2
    <2>7. "toFinish" # "failed" /\ "toFinish" \notin {"act", "acted"}
        OBVIOUS
    <2> DEFINE l == "toFinish"
    <2>8. /\ at' = [at EXCEPT ![Finisher] = l]
          /\ l # "failed" /\ l \notin {"act", "acted"} /\ l \notin Saving
        BY <2>1, <2>5, <2>7
    <2> HIDE DEF l
    <2>9. QED
        BY <1>1, <2>3, <2>4, <2>5, <2>6, <2>8, FinisherIsProc, MoveStaysSteady
<1>3. CASE LoadFinish
    <2>1. /\ at[Finisher] = "toFinish" /\ Load(Finisher, "finish")
          /\ UNCHANGED <<row, job, task>>
        BY <1>3 DEF LoadFinish
    <2>2. /\ at' = [at EXCEPT ![Finisher] = "finish"]
          /\ copy'[Finisher] = row /\ \A h \in Procs : h # Finisher => copy'[h] = copy[h]
        BY <2>1, FinisherIsProc DEF Load, TInv, WorkOK
    <2>3. ~ Takes(Finisher) /\ at[Finisher] \notin Claimers
        BY <2>1 DEF Takes, Taking, Handing, Claimers
    <2>4. task'[Finisher].kind # "goal"
        BY <1>1, <2>1, FinisherIsProc DEF Calm
    <2> DEFINE l == "finish"
    <2>5. /\ at' = [at EXCEPT ![Finisher] = l] /\ copy'[Finisher] = row
          /\ l # "failed" /\ l \notin {"act", "acted"} /\ l \in {"toFinish", "finish"}
        BY <2>2
    <2> HIDE DEF l
    <2>6. /\ row' = row /\ job' = job
          /\ \A h \in Procs : h # Finisher => task'[h] = task[h] /\ copy'[h] = copy[h]
        BY <2>1, <2>2
    <2>7. QED
        BY <1>1, <2>3, <2>4, <2>5, <2>6, FinisherIsProc, GotoStaysSteady
<1>4. CASE Finish
    <2>1. /\ at[Finisher] = "finish" /\ at' = [at EXCEPT ![Finisher] = AfterFinish]
          /\ UNCHANGED <<job, task>> /\ at[Finisher] \in Saving
        BY <1>4 DEF Finish, Saving
    <2>2. row.turn # None
        BY <2>1, QueueAssumption DEF TurnInv, Marked, Live
    <2>3. row' = WithStatus(IF job = "failed" THEN "error" ELSE "idle")
        BY <1>4, <2>2 DEF Finish
    <2>4. /\ row'.status = IF job = "failed" THEN "error" ELSE "idle"
          /\ row'.goal = row.goal
        BY <2>3 DEF WithStatus, TInv, WorkOK, Rows
    <2>5. job \in {"ended", "failed"}
        BY <1>1, <2>1 DEF JobInv, Finishing, Calm
    <2>6. AfterFinish = IF job = "ended" THEN "drain" ELSE "close"
        BY DEF AfterFinish
    <2>7. at'[Finisher] = AfterFinish /\ \A h \in Procs : h # Finisher => at'[h] = at[h]
        BY <2>1, FinisherIsProc DEF TInv, WorkOK
    <2>8. \A h \in Procs : at'[h] \notin Saving
        <3>1. AfterFinish \notin Saving
            BY <2>6 DEF Saving
        <3>2. QED
            BY <2>1, <2>7, <3>1, FinisherIsProc, OnlySaver
    <2>9. Calm'
        <3>1. \A h \in Procs : at'[h] \in {"act", "acted", "failed"} => at'[h] = at[h]
            BY <2>6, <2>7
        <3>2. QED
            BY <1>1, <2>1, <2>4, <2>8, <3>1 DEF Calm
    <2>10. QueueAttended'
        <3>1. CASE job = "failed"
            BY <2>4, <3>1 DEF QueueAttended
        <3>2. CASE job = "ended"
            BY <2>6, <2>7, <3>2, FinisherIsProc DEF QueueAttended, Claimers
        <3>3. QED
            BY <2>5, <3>1, <3>2
    <2>11. QED
        BY <2>4, <2>8, <2>9, <2>10 DEF Steady, StatusFresh, Settled
<1>5. CASE CloseTurn
    <2>1. /\ at[Finisher] = "close" /\ job' = "idle"
          /\ at' = [g \in Procs |-> IF g = Finisher THEN "out" ELSE Wake(at[g])]
          /\ UNCHANGED <<row, task, copy>>
        BY <1>5 DEF CloseTurn
    <2>2. at'[Finisher] = "out"
        BY <2>1, FinisherIsProc
    <2>3. \A g \in Procs : \/ at'[g] = at[g] \/ (g = Finisher /\ at'[g] = "out")
                           \/ at[g] = "wait" /\ at'[g] = "send"
        BY <2>1 DEF Wake, TurnInv, Tame
    <2>4. ~ Live
        BY <2>1 DEF Live, JobInv, Finishing, RuntimeRunning
    <2>5. Occupied => Occupied'
        <3>1. \A g \in Procs : Takes(g) => Takes(g)'
            BY <2>1, <2>3 DEF Takes, Taking, Handing
        <3>2. QED
            BY <2>4, <3>1 DEF Occupied
    <2>6. \A g \in Procs : at'[g] \in {"act", "acted", "failed"} \cup Saving =>
                              at'[g] = at[g]
        BY <2>3 DEF Saving
    <2>7. Calm'
        BY <1>1, <2>1, <2>6 DEF Calm
    <2>8. StatusFresh'
        BY <2>1, <2>6 DEF Steady, StatusFresh
    <2>9. \A g \in Procs : at[g] \in Claimers => at'[g] = at[g]
        BY <2>1, <2>3 DEF Claimers
    <2>10. QueueAttended'
        BY <2>1, <2>9 DEF Steady, QueueAttended, QueueOf
    <2>11. Settled'
        BY <2>1, <2>5 DEF Steady, Settled
    <2>12. QED
        BY <2>7, <2>8, <2>10, <2>11 DEF Steady
<1>6. ~ UserCancel /\ ~ ChangeGoal
    BY TurnsRunOn DEF TurnsRunOn, UserCancel, ChangeGoal
<1>7. QED
    BY <1>2, <1>3, <1>4, <1>5, <1>6 DEF TurnEnd

\* Only a crash is one.
LEMMA CrashesCounted ==
    ASSUME [Next]_vars, ~ Crash
    PROVE  crashes' = crashes
<1>1. ASSUME NEW g \in Goroutines, Requests(g) PROVE crashes' = crashes
    BY <1>1 DEF Requests, RequestAppend, RequestDelete, RequestSteer, RequestBegin,
        SendExternal, RequestEnqueue, RequestReorder, Request, CancelStored
<1>2. ASSUME NEW g \in Procs, Handlers(g) PROVE crashes' = crashes
    BY <1>2 DEF Handlers, AppendPrompt, DeletePrompt, ReorderPrompts, EnqueueInternalTurn,
        Drain, ClaimPrompt, ClaimGoal, ClaimNothing, RunAction, FinishAction, FailTurn,
        LoadRestore, RestorePrompt, ClaimSteered, SteerTaken, SteerRefused, SteerUnsupported,
        SteerCancel, SteerCancelGivesUp, SteerAfterCancel, LoadClear, ClearSteer, Begin, BeginFails,
        BusySteers, BusyRejects, BusyQueues, LoadRequeue, CancelStoredSave
<1>3. ASSUME NEW g \in Procs, Sending(g) PROVE crashes' = crashes
    BY <1>3 DEF Sending, SendResume, SendResumed, SendConflict, SendWait, SendMark,
        SendGoalGone, SendAppendFails, SendStart, SendFailed
<1>4. CASE TurnEnd \/ UserCancel \/ ChangeGoal
    BY <1>4 DEF TurnEnd, EndTurn, LoadFinish, Finish, CloseTurn, UserCancel, ChangeGoal
<1>5. CASE Restart \/ AtRest \/ UNCHANGED vars
    BY <1>5 DEF Restart, RecoverNothing, RecoverTurn, RecoverAction, AtRest, vars
<1>6. QED
    BY <1>1, <1>2, <1>3, <1>4, <1>5 DEF Next

LEMMA SteadyInvariant ==
    ASSUME OneAtATime, TurnsRunOn, NoUnlockedSaves
    PROVE  Spec => [](TurnInv /\ SteadyInv)
<1>1. NoActionResumed
    BY TurnsRunOn DEF TurnsRunOn, NoActionResumed
<1>2. ASSUME Init PROVE SteadyInv
    <2>1. \A g \in Procs : at[g] = "out" /\ task[g].kind = "none"
        BY <1>2 DEF Init, NoTask, Task
    <2>2. row.status = "idle" /\ ~ row.goal /\ QueueOf(row) = <<>> /\ job = "absent"
        BY <1>2 DEF Init, QueueOf
    <2>3. QED
        BY <2>1, <2>2 DEF SteadyInv, Steady, Calm, StatusFresh, Settled, QueueAttended, Saving
<1>3. ASSUME TInv, LInv, JobInv, TurnInv, SteadyInv, [Next]_vars PROVE SteadyInv'
    <2>1. CASE Crash
        <3>1. crashes \in Nat /\ crashes' = crashes + 1
            BY <1>3, <2>1, QueueAssumption DEF Crash, TInv, RestOK
        <3>2. crashes' # 0
            BY <3>1
        <3>3. QED
            BY <3>2 DEF SteadyInv
    <2>2. CASE Restart
        <3>1. at[Recovery] = "recover" /\ crashes' = crashes
            BY <2>2 DEF Restart, RecoverNothing, RecoverTurn, RecoverAction
        <3>2. crashes' # 0
            BY <1>3, <3>1, QueueAssumption DEF TurnInv, Restarted, TInv, RestOK
        <3>3. QED
            BY <3>2 DEF SteadyInv
    <2>3. CASE AtRest \/ UNCHANGED vars
        <3>1. UNCHANGED <<row, job, lock, at, task, copy, crashes>>
            BY <2>3 DEF AtRest, vars
        <3>2. QED
            BY <1>3, <3>1 DEF SteadyInv, Steady, Calm, StatusFresh, Settled, QueueAttended,
                Occupied, Live, Takes, RuntimeRunning, QueueOf
    <2>4. ASSUME ~ Crash, ~ Restart, ~ AtRest, ~ UNCHANGED vars, crashes' = 0
          PROVE  Steady'
        <3>1. crashes' = crashes
            BY <1>3, <2>4, CrashesCounted
        <3>2. Steady
            BY <1>3, <2>4, <3>1 DEF SteadyInv
        <3>3. QED
            BY <1>3, <2>4, <3>2, OneAtATime, TurnsRunOn, NoUnlockedSaves, RequestsStaySteady,
                HandlersStaySteady, SendingStaysSteady, TurnEndStaysSteady DEF Next
    <2>5. QED
        BY <2>1, <2>2, <2>3, <2>4 DEF SteadyInv
<1>4. Init => SteadyInv
    BY <1>2
<1>5. TInv /\ LInv /\ JobInv /\ TurnInv /\ SteadyInv /\ [Next]_vars => SteadyInv'
    BY <1>3
<1>6. Spec => []TurnInv
    BY <1>1, OneAtATime, TurnInvariant
<1>7. QED
    BY <1>4, <1>5, <1>6, TInvInvariant, LInvInvariant, JobInvariant, PTL DEF Spec

\* A free thread runs its queue: prompts that wait in a session without a turn have a
\* goroutine that is about to claim one of them, or to put a failed one back and show
\* the error, until the first restart.
THEOREM FreeThreadRunsItsQueue ==
    ASSUME OneAtATime, TurnsRunOn, NoUnlockedSaves
    PROVE  Spec => [](crashes = 0 => NoForgottenQueue)
<1>1. ASSUME JobInv, Steady, ThreadFree, QueueOf(row) # <<>>
      PROVE  \E g \in Procs :
                 at[g] \in Handing \cup
                     {"drain", "claim", "act", "acted", "restore", "cancelDone"}
    <2>1. CASE row.status = "idle"
        BY <1>1, <2>1 DEF Steady, QueueAttended, Claimers
    <2>2. CASE row.status = "running"
        <3>1. ~ Live
            BY <1>1 DEF Live, ThreadFree, JobInv
        <3>2. PICK g \in Procs : Takes(g)
            BY <1>1, <2>2, <3>1 DEF Steady, Settled, Occupied
        <3>3. QED
            BY <3>2 DEF Takes, Taking
    <2>3. QED
        BY <1>1, <2>1, <2>2 DEF ThreadFree
<1>2. JobInv /\ SteadyInv => (crashes = 0 => NoForgottenQueue)
    BY <1>1 DEF SteadyInv, NoForgottenQueue
<1>3. QED
    BY <1>2, OneAtATime, TurnsRunOn, NoUnlockedSaves, SteadyInvariant, JobInvariant, PTL

=============================================================================
