----------------------------- MODULE TurnQueue -----------------------------
(***************************************************************************)
(* One session (a chat thread) of the server: its stored row with the      *)
(* queue of prompts, the goroutines that change the queue or start a turn, *)
(* the agent's turn in memory, and what a restart does with them.          *)
(*                                                                         *)
(* A handler of internal/server locks the session, loads its row, and      *)
(* saves the row it changed: two steps here, because others write the row  *)
(* without the lock (StartSessionTurn, UpdateSessionStatus, and the        *)
(* SaveSession calls of internal/acp). Everything a goroutine does outside *)
(* the lock is a step of its own.                                          *)
(*                                                                         *)
(* The stored list of prompts is kept as two sequences, public and         *)
(* internal: the code splits the list before it looks for a position in    *)
(* it, so how the two are interleaved never matters.                       *)
(***************************************************************************)
EXTENDS Naturals, Sequences, SequencesExt

CONSTANTS
    Public,          \* prompts the user queues or sends
    Internal,        \* prompts the server queues (deliveries, reminders)
    Actions,         \* public prompts that are synchronous queued actions
    Goroutines,      \* request handlers, and what they start
    Runners,         \* goroutines the finisher and the recovery start
    Finisher,        \* the goroutine that ends the agent's turn
    Recovery,        \* the goroutine that resumes chats after a restart
    None,            \* no prompt, no row, no turn, nobody
    Sent,            \* the stored turn after StartSessionTurn
    Ops,             \* what may happen: see the guards "..." \in Ops
    MaxCrashes       \* bound on restarts

Prompts == Public \cup Internal
Procs == Goroutines \cup Runners \cup {Finisher, Recovery}

ASSUME QueueAssumption ==
    /\ Public \cap Internal = {}
    /\ Actions \subseteq Public
    /\ Goroutines \cap Runners = {}
    /\ Finisher \notin Goroutines \cup Runners
    /\ Recovery \notin Goroutines \cup Runners \cup {Finisher}
    /\ None \notin Prompts \cup Procs \cup {Sent}
    /\ Sent \notin Prompts
    /\ MaxCrashes \in Nat

VARIABLES
    row,        \* the stored session
    job,        \* the agent's turn in memory (jobState)
    lock,       \* holder of the session's lock, or None
    sender,     \* holder of job.sendMu, or None
    at,         \* goroutine -> where it is
    task,       \* goroutine -> what it is doing, for which prompt
    copy,       \* goroutine -> the row it has loaded and may save
    accepted,   \* prompts a queue operation has acknowledged
    deleted,    \* prompts the user took out of the queue
    starts,     \* prompt -> how often the agent got it, or the action ran
    cut,        \* action -> how many restarts found it as the stored turn
    crashes     \* restarts so far

vars == <<row, job, lock, sender, at, task, copy, accepted, deleted, starts, cut, crashes>>
ledger == <<accepted, deleted, starts, cut>>

Statuses == {"idle", "running", "interrupted", "error"}

Rows == [status : Statuses,
         pub : Seq(Prompts),
         int : Seq(Prompts),
         turn : Prompts \cup {None, Sent},
         steer : Prompts \cup {None},
         goal : BOOLEAN]

\* "absent": no jobState in memory. "cancelling": running, cancel requested.
\* The last three are the finishing turn with the state it ends in.
JobStates == {"absent", "idle", "running", "cancelling", "ended", "failed", "cancelled"}

\* A goroutine at one of these labels holds the lock and will save its copy.
Saving == {"append", "delete", "reorder", "enqueue", "begin", "steer",
           "claim", "restore", "clear", "finish"}

\* A goroutine at one of these labels is handing a prompt to the agent.
Handing == {"send", "resume", "wait", "mark", "failed"}

Labels == Saving \cup Handing \cup
    {"out", "drain", "act", "acted", "busy", "requeue", "steering", "cancel", "cancelWait",
     "cancelDone", "toClear", "stale", "toFinish", "close", "recover"}

Kinds == {"none", "queue", "claim", "goal", "steer", "direct", "ext", "recover"}
Tasks == [kind : Kinds, p : Prompts \cup {None}, idx : Nat]
Task(k, p, i) == [kind |-> k, p |-> p, idx |-> i]
NoTask == Task("none", None, 0)

TypeOK ==
    /\ row \in Rows
    /\ job \in JobStates
    /\ lock \in Procs \cup {None}
    /\ sender \in Procs \cup {None}
    /\ at \in [Procs -> Labels]
    /\ task \in [Procs -> Tasks]
    /\ copy \in [Procs -> Rows \cup {None}]
    /\ \A g \in Procs : at[g] \in Saving \cup {"stale", "resume"} => copy[g] \in Rows
    /\ accepted \subseteq Prompts
    /\ deleted \subseteq Prompts
    /\ starts \in [Prompts -> Nat]
    /\ cut \in [Actions -> 0..crashes]
    /\ crashes \in 0..MaxCrashes

Init ==
    /\ row = [status |-> "idle", pub |-> <<>>, int |-> <<>>,
              turn |-> None, steer |-> None, goal |-> FALSE]
    /\ job = "absent"
    /\ lock = None
    /\ sender = None
    /\ at = [g \in Procs |-> "out"]
    /\ task = [g \in Procs |-> NoTask]
    /\ copy = [g \in Procs |-> None]
    /\ accepted = {}
    /\ deleted = {}
    /\ starts = [p \in Prompts |-> 0]
    /\ cut = [p \in Actions |-> 0]
    /\ crashes = 0

-----------------------------------------------------------------------------
\* The stored row.

\* sessionRuntimeRunning: the job in memory decides, not the row.
RuntimeRunning == job \in {"running", "cancelling"}
Finishing == job \in {"ended", "failed", "cancelled"}

QueueOf(r) == r.pub \o r.int
Queued(p) == Contains(QueueOf(row), p)

\* The loaded turn is written back with the row.
SavedWithTurn(r) ==
    [r EXCEPT !.turn = IF r.status \in {"running", "interrupted"} THEN @ ELSE None,
              !.goal = row.goal]

\* SaveSession writes every column it loaded but the turn and the goal: the
\* stored turn survives only a running or interrupted status, the goal always.
Saved(r) ==
    [r EXCEPT !.turn = IF r.status \in {"running", "interrupted"} THEN row.turn ELSE None,
              !.goal = row.goal]

\* UpdateSessionStatus, FinishSessionTurn and CompleteSession touch no queue.
WithStatus(s) ==
    [row EXCEPT !.status = s, !.turn = IF s \in {"idle", "error"} THEN None ELSE @]

\* Steps of a goroutine. A goroutine that is done or drains forgets its task.
Goto(g, l) ==
    /\ at' = [at EXCEPT ![g] = l]
    /\ task' = IF l \in {"out", "drain"} THEN [task EXCEPT ![g] = NoTask] ELSE task

\* The row is loaded before the lock is taken.
LoadUnlocked(g, l) ==
    /\ lock' = g
    /\ copy' = [copy EXCEPT ![g] = row]
    /\ at' = [at EXCEPT ![g] = l]

\* lockSession, then LoadSession.
Load(g, l) ==
    /\ lock = None
    /\ lock' = g
    /\ copy' = [copy EXCEPT ![g] = row]
    /\ at' = [at EXCEPT ![g] = l]

Unlock(g) ==
    /\ lock' = None
    /\ copy' = [copy EXCEPT ![g] = None]

\* SaveSession, then the deferred unlock.
Save(g, r, l) ==
    /\ row' = Saved(r)
    /\ Unlock(g)
    /\ Goto(g, l)

-----------------------------------------------------------------------------
\* Requests that change the queue (handleQueueAction, QueueInternalTurn) or
\* send a prompt (streamACPSession). A request naming a prompt that is not in
\* the queue changes nothing and is left out.

Fresh(p) ==
    /\ p \notin accepted
    /\ starts[p] = 0
    /\ \A g \in Procs : task[g].p # p

Request(g, op, k, p) ==
    /\ at[g] = "out"
    /\ op \in Ops
    /\ Load(g, op)
    /\ task' = [task EXCEPT ![g] = Task(k, p, 0)]
    /\ UNCHANGED <<row, job, sender, ledger, crashes>>

RequestAppend(g, p) == Fresh(p) /\ Request(g, "append", "queue", p)
RequestDelete(g, p) == Contains(row.pub, p) /\ Request(g, "delete", "queue", p)
RequestReorder(g) == row.pub # <<>> /\ Request(g, "reorder", "queue", None)
RequestEnqueue(g, p) == Fresh(p) /\ Request(g, "enqueue", "queue", p)
RequestBegin(g, p) == Fresh(p) /\ Request(g, "begin", "direct", p)

\* updateSessionQueue drains when the queue it stored could start now.
AfterMutation(r) == IF r.status = "idle" /\ QueueOf(r) # <<>> THEN "drain" ELSE "out"

\* The row is saved from a fresh default instead of the loaded one.
AppendPromptUnloaded(g) ==
    /\ at[g] = "append"
    /\ LET r == [copy[g] EXCEPT !.pub = <<task[g].p>>]
       IN  Save(g, r, AfterMutation(r))
    /\ accepted' = accepted \cup {task[g].p}
    /\ UNCHANGED <<job, sender, deleted, starts, cut, crashes>>

AppendPrompt(g) ==
    /\ at[g] = "append"
    /\ LET r == [copy[g] EXCEPT !.pub = Append(@, task[g].p)]
       IN  Save(g, r, AfterMutation(r))
    /\ accepted' = accepted \cup {task[g].p}
    /\ UNCHANGED <<job, sender, deleted, starts, cut, crashes>>

DeletePrompt(g) ==
    /\ at[g] = "delete"
    /\ \E i \in DOMAIN copy[g].pub :
          /\ copy[g].pub[i] = task[g].p
          /\ LET r == [copy[g] EXCEPT !.pub = RemoveAt(@, i)]
             IN  Save(g, r, AfterMutation(r))
    /\ deleted' = deleted \cup {task[g].p}
    /\ UNCHANGED <<job, sender, accepted, starts, cut, crashes>>

\* reorderQueuedPrompts: the ids must name every public prompt once. An edit of a
\* prompt's text is a save that keeps the order.
Permuted(s) ==
    {[i \in DOMAIN s |-> s[f[i]]] : f \in {h \in [DOMAIN s -> DOMAIN s] : IsInjective(h)}}

ReorderPrompts(g) ==
    /\ at[g] = "reorder"
    /\ \E q \in Permuted(copy[g].pub) :
          LET r == [copy[g] EXCEPT !.pub = q]
          IN  Save(g, r, AfterMutation(r))
    /\ UNCHANGED <<job, sender, ledger, crashes>>

\* enqueueInternalTurn: the caller drains only an idle session.
EnqueueInternalTurn(g) ==
    /\ at[g] = "enqueue"
    /\ Save(g, [copy[g] EXCEPT !.int = Append(@, task[g].p)],
            IF copy[g].status = "idle" /\ ~ RuntimeRunning THEN "drain" ELSE "out")
    /\ accepted' = accepted \cup {task[g].p}
    /\ UNCHANGED <<job, sender, deleted, starts, cut, crashes>>

-----------------------------------------------------------------------------
\* claimNextTurn and runClaimedTurn.

\* drainQueueSoon. After a restart ResumeQueuedTurns looks at the row first.
\* The bound on goroutines is met here, before the lock is taken.
FreeRunner == \E r \in Runners : at[r] = "out"

Drain(g) ==
    /\ at[g] = "drain"
    /\ g = Finisher => FreeRunner
    /\ IF g = Recovery /\ ~ (row.status = "idle" /\ QueueOf(row) # <<>>)
       THEN at' = [at EXCEPT ![g] = "out"] /\ UNCHANGED <<lock, copy>>
       ELSE Load(g, "claim")
    /\ UNCHANGED <<row, job, sender, task, ledger, crashes>>

\* The server's own prompts go first.
TakesPublicLast(r) == r.int = <<>>

\* nextQueuedPromptIndex: the oldest public prompt, else the oldest internal.
TakesPublic(r) == r.pub # <<>>

NextPrompt(r) == IF TakesPublic(r) THEN Head(r.pub) ELSE Head(r.int)

\* The claimed prompt stays in the queue.
WithoutNextKept(r) == r

WithoutNext(r) ==
    IF TakesPublic(r) THEN [r EXCEPT !.pub = Tail(@)] ELSE [r EXCEPT !.int = Tail(@)]

\* Where the goroutine that drained goes on, and who runs the claimed turn
\* (`go s.runClaimedTurn`): the finisher has a turn to close, so another one
\* runs it; any other has nothing left to do.
AfterDrain(g) == IF g = Finisher THEN "close" ELSE "out"
Runs(g, r) == IF g = Finisher THEN r \in Runners /\ at[r] = "out" ELSE r = g

RunTurn(g, k, p) ==
    \E r \in Procs :
        /\ Runs(g, r)
        /\ at' = [at EXCEPT ![g] = AfterDrain(g), ![r] = IF p \in Actions THEN "act" ELSE "send"]
        /\ task' = [task EXCEPT ![r] = Task(k, p, 0)]

\* Only the agent in memory is asked, not the stored status.
MayClaimStored(g) == ~ RuntimeRunning

MayClaim(g) == copy[g].status = "idle" /\ ~ RuntimeRunning

\* ClaimQueuedTurn forgets which prompt it took.
ClaimPromptUnrecorded(g) ==
    /\ at[g] = "claim"
    /\ MayClaim(g)
    /\ QueueOf(copy[g]) # <<>>
    /\ LET rest == WithoutNext(copy[g])
       IN  row' = [row EXCEPT !.pub = rest.pub, !.int = rest.int]
    /\ RunTurn(g, "claim", NextPrompt(copy[g]))
    /\ Unlock(g)
    /\ UNCHANGED <<job, sender, ledger, crashes>>

\* ClaimQueuedTurn writes the queue, the status and the turn, nothing else.
ClaimPrompt(g) ==
    /\ at[g] = "claim"
    /\ MayClaim(g)
    /\ QueueOf(copy[g]) # <<>>
    /\ LET p == NextPrompt(copy[g])
           rest == WithoutNext(copy[g])
       IN  /\ row' = [row EXCEPT !.status = "running", !.turn = p,
                                 !.pub = rest.pub, !.int = rest.int]
           /\ RunTurn(g, "claim", p)
    /\ Unlock(g)
    /\ UNCHANGED <<job, sender, ledger, crashes>>

\* An empty queue and a live goal: the turn continues the goal.
ClaimGoal(g) ==
    /\ at[g] = "claim"
    /\ MayClaim(g)
    /\ QueueOf(copy[g]) = <<>>
    /\ copy[g].goal
    /\ row' = Saved([copy[g] EXCEPT !.status = "running"])
    /\ RunTurn(g, "goal", None)
    /\ Unlock(g)
    /\ UNCHANGED <<job, sender, ledger, crashes>>

ClaimNothing(g) ==
    /\ at[g] = "claim"
    /\ MayClaim(g) => QueueOf(copy[g]) = <<>> /\ ~ copy[g].goal
    /\ Unlock(g)
    /\ at' = [at EXCEPT ![g] = AfterDrain(g)]
    /\ UNCHANGED <<row, job, sender, task, ledger, crashes>>

\* A synchronous queued action has run. The stored turn still names it: after a
\* crash here the recovery runs it again.
RunAction(g) ==
    /\ at[g] = "act"
    /\ starts' = [starts EXCEPT ![task[g].p] = @ + 1]
    /\ Goto(g, "acted")
    /\ UNCHANGED <<row, job, lock, sender, copy, accepted, deleted, cut, crashes>>

\* finishQueuedAction: the idle status takes the turn out of the row.
FinishAction(g) ==
    /\ at[g] = "acted"
    /\ row' = WithStatus("idle")
    /\ Goto(g, "drain")
    /\ UNCHANGED <<job, lock, sender, copy, ledger, crashes>>

\* It failed, or a check before the send did (worktree, attachments, agent
\* start): nothing has reached the agent. A claimed or steered prompt goes back
\* to the queue then, any other send reports the error ("sendFail").
FailTurn(g) ==
    /\ at[g] \in {"act", "send", "wait"}
    /\ IF task[g].kind \in {"claim", "steer"} THEN "fail" \in Ops ELSE "sendFail" \in Ops
    /\ Goto(g, "failed")
    /\ UNCHANGED <<row, job, lock, sender, copy, ledger, crashes>>

\* restoreQueuedPrompt: back to its place (idx is counted from zero), or to the
\* end of a queue that has become shorter; the session shows the error.
LoadRestore(g) ==
    /\ at[g] = "failed"
    /\ task[g].kind \in {"claim", "steer"}
    /\ Load(g, "restore")
    /\ UNCHANGED <<row, job, sender, task, ledger, crashes>>

\* The restored prompt takes the place of the one that moved up.
InsertOver(s, i, p) == IF i >= Len(s) THEN Append(s, p) ELSE [s EXCEPT ![i + 1] = p]

Insert(s, i, p) == IF i > Len(s) THEN Append(s, p) ELSE InsertAt(s, i + 1, p)

RestorePrompt(g) ==
    /\ at[g] = "restore"
    /\ LET p == task[g].p
           r == IF p \in Internal
                THEN [copy[g] EXCEPT !.int = Insert(@, task[g].idx, p)]
                ELSE [copy[g] EXCEPT !.pub = Insert(@, task[g].idx, p)]
       IN  Save(g, [r EXCEPT !.steer = None, !.status = "error"], "out")
    /\ UNCHANGED <<job, sender, ledger, crashes>>

-----------------------------------------------------------------------------
\* steerQueuedPrompt: a queued prompt goes into the running turn.

RequestSteer(g, p) ==
    Contains(row.pub, p) /\ p \notin Actions /\ Request(g, "steer", "steer", p)

\* claimSteeredQueuedPrompt: an idle session is marked running instead.
ClaimSteered(g) ==
    /\ at[g] = "steer"
    /\ \E i \in DOMAIN copy[g].pub :
          /\ copy[g].pub[i] = task[g].p
          /\ row' = Saved([copy[g] EXCEPT
                        !.pub = RemoveAt(@, i),
                        !.steer = task[g].p,
                        !.status = IF RuntimeRunning THEN @ ELSE "running"])
          /\ task' = [task EXCEPT ![g].idx = i - 1]
    /\ at' = [at EXCEPT ![g] = IF RuntimeRunning THEN "steering" ELSE "send"]
    /\ Unlock(g)
    /\ UNCHANGED <<job, sender, ledger, crashes>>

\* The agent takes prompts into a running turn, or it does not: the agent of a
\* session can be switched between turns, a run may allow both.
Steerable == "steerable" \in Ops
Unsteerable == "unsteerable" \in Ops

\* reserveSteer, under job.mu: the stored turn must still be there.
CanReserve == RuntimeRunning /\ row.status = "running" /\ row.turn # None

\* Manager.Steer takes the prompt into the running turn.
SteerTaken(g) ==
    /\ at[g] = "steering"
    /\ Steerable
    /\ CanReserve
    /\ starts' = [starts EXCEPT ![task[g].p] = @ + 1]
    /\ Goto(g, "toClear")
    /\ UNCHANGED <<row, job, lock, sender, copy, accepted, deleted, cut, crashes>>

\* The stored record of the turn is gone, or a check before the steer fails.
SteerRefused(g) ==
    /\ at[g] = "steering"
    /\ (RuntimeRunning /\ Steerable /\ ~ CanReserve) \/ "fail" \in Ops
    /\ Goto(g, "failed")
    /\ UNCHANGED <<row, job, lock, sender, copy, ledger, crashes>>

\* ErrSteeringUnsupported: the agent cannot be steered, or the turn is over
\* (errTurnEnded wraps it).
SteerImpossible == RuntimeRunning => Unsteerable

SteerUnsupported(g) ==
    /\ at[g] = "steering"
    /\ SteerImpossible
    /\ Goto(g, "cancel")
    /\ UNCHANGED <<row, job, lock, sender, copy, ledger, crashes>>

\* Manager.Cancel waits for the turn it cancelled; there may be none any more.
SteerCancel(g) ==
    /\ at[g] = "cancel"
    /\ IF RuntimeRunning
       THEN job' = "cancelling" /\ Goto(g, "cancelWait")
       ELSE UNCHANGED job /\ Goto(g, "cancelDone")
    /\ UNCHANGED <<row, lock, sender, copy, ledger, crashes>>

\* Five seconds after the request the agent is torn down, which ends the turn, and
\* nobody waits for the finisher.
SteerCancelGivesUp(g) ==
    /\ at[g] = "cancelWait"
    /\ Finishing
    /\ Goto(g, "cancelDone")
    /\ UNCHANGED <<row, job, lock, sender, copy, ledger, crashes>>

\* setSessionStatus(running), without the lock, before the prompt is sent.
SteerAfterCancel(g) ==
    /\ at[g] = "cancelDone"
    /\ row' = WithStatus("running")
    /\ Goto(g, "send")
    /\ UNCHANGED <<job, lock, sender, copy, ledger, crashes>>

\* clearPendingSteerMessage.
LoadClear(g) ==
    /\ at[g] = "toClear"
    /\ Load(g, "clear")
    /\ UNCHANGED <<row, job, sender, task, ledger, crashes>>

\* The message is not cleared when the prompt has been taken.
ClearSkipped(g) ==
    /\ at[g] = "clear"
    /\ Unlock(g)
    /\ Goto(g, "out")
    /\ UNCHANGED <<row, job, sender, ledger, crashes>>

ClearSteer(g) ==
    /\ at[g] = "clear"
    /\ IF copy[g].steer = None
       THEN Unlock(g) /\ Goto(g, "out") /\ UNCHANGED row
       ELSE Save(g, [copy[g] EXCEPT !.steer = None], "out")
    /\ UNCHANGED <<job, sender, ledger, crashes>>

-----------------------------------------------------------------------------
\* streamACPSession: the user sends a prompt now.

\* beginACPTurn marks the session running or finds that it is.
Begin(g) ==
    /\ at[g] = "begin"
    /\ IF copy[g].status = "running" \/ RuntimeRunning
       THEN Unlock(g) /\ Goto(g, "busy") /\ UNCHANGED row
       ELSE Save(g, [copy[g] EXCEPT !.status = "running"], "send")
    /\ UNCHANGED <<job, sender, ledger, crashes>>

\* The worktree cannot be made: the user gets the error, nothing is saved.
BeginFails(g) ==
    /\ at[g] = "begin"
    /\ "fail" \in Ops
    /\ Unlock(g)
    /\ Goto(g, "out")
    /\ UNCHANGED <<row, job, sender, ledger, crashes>>

\* The prompt for a busy session goes into the running turn.
BusySteers(g) ==
    /\ at[g] = "busy"
    /\ Steerable
    /\ CanReserve
    /\ starts' = [starts EXCEPT ![task[g].p] = @ + 1]
    /\ Goto(g, "out")
    /\ UNCHANGED <<row, job, lock, sender, copy, accepted, deleted, cut, crashes>>

\* The steer fails: the user gets the error and keeps the prompt.
BusyRejects(g) ==
    /\ at[g] = "busy"
    /\ (RuntimeRunning /\ Steerable /\ ~ CanReserve) \/ "sendFail" \in Ops
    /\ Goto(g, "out")
    /\ UNCHANGED <<row, job, lock, sender, copy, ledger, crashes>>

\* The agent cannot be steered, the turn is over, or a plan is asked for in a
\* turn that makes none: queueACPStreamTurn.
BusyQueues(g) ==
    /\ at[g] = "busy"
    /\ SteerImpossible \/ "plan" \in Ops
    /\ Goto(g, "requeue")
    /\ UNCHANGED <<row, job, lock, sender, copy, ledger, crashes>>

LoadRequeue(g) ==
    /\ at[g] = "requeue"
    /\ Load(g, "append")
    /\ UNCHANGED <<row, job, sender, task, ledger, crashes>>

\* A send that holds no lock and marks nothing before it: Manager.Send called
\* by the coordinator's and the parent agent's tools.
SendExternal(g, p) ==
    /\ at[g] = "out"
    /\ "ext" \in Ops
    /\ Fresh(p)
    /\ at' = [at EXCEPT ![g] = "send"]
    /\ task' = [task EXCEPT ![g] = Task("ext", p, 0)]
    /\ UNCHANGED <<row, job, lock, sender, copy, ledger, crashes>>

-----------------------------------------------------------------------------
\* Manager.send: the same steps for every kind of task.

\* No job in memory: resumeLocked loads the row, without the session's lock,
\* and starts the agent under resumeMu.
SendResume(g) ==
    /\ at[g] = "send"
    /\ job = "absent"
    /\ \A h \in Procs : at[h] # "resume"
    /\ copy' = [copy EXCEPT ![g] = row]
    /\ Goto(g, "resume")
    /\ UNCHANGED <<row, job, lock, sender, ledger, crashes>>

\* The resumed session is saved as a new one.
SendResumedNew(g) ==
    /\ at[g] = "resume"
    /\ row' = Saved([copy[g] EXCEPT !.pub = <<>>, !.int = <<>>])
    /\ job' = "idle"
    /\ copy' = [copy EXCEPT ![g] = None]
    /\ Goto(g, "send")
    /\ UNCHANGED <<lock, sender, ledger, crashes>>

\* It saves the row it loaded if the agent gave the session something new to
\* remember (its native session id on the first turn).
SendResumed(g) ==
    /\ at[g] = "resume"
    /\ \/ UNCHANGED row
       \/ "resumeSave" \in Ops /\ row' = Saved(copy[g])
    /\ job' = "idle"
    /\ copy' = [copy EXCEPT ![g] = None]
    /\ Goto(g, "send")
    /\ UNCHANGED <<lock, sender, ledger, crashes>>

\* sendConflict: a turn is running ...
SendConflict(g) ==
    /\ at[g] = "send"
    /\ sender = None
    /\ RuntimeRunning
    /\ Goto(g, "failed")
    /\ UNCHANGED <<row, job, lock, sender, copy, ledger, crashes>>

\* ... or finishing: the send waits for it and tries again.
SendWait(g) ==
    /\ at[g] = "send"
    /\ sender = None
    /\ Finishing
    /\ Goto(g, "wait")
    /\ UNCHANGED <<row, job, lock, sender, copy, ledger, crashes>>

\* StartSessionTurn, under sendMu, without the session's lock.
MarkRunning == [row EXCEPT !.status = "running", !.turn = Sent]

SendMark(g) ==
    /\ at[g] = "send"
    /\ sender = None
    /\ job = "idle"
    /\ task[g].kind = "goal" => row.goal
    /\ row' = MarkRunning
    /\ sender' = g
    /\ Goto(g, "mark")
    /\ UNCHANGED <<job, lock, copy, ledger, crashes>>

\* requireActiveGoal: ErrNoActiveGoal.
SendGoalGone(g) ==
    /\ at[g] = "send"
    /\ sender = None
    /\ job = "idle"
    /\ task[g].kind = "goal" /\ ~ row.goal
    /\ Goto(g, "failed")
    /\ UNCHANGED <<row, job, lock, sender, copy, ledger, crashes>>

\* The message could not be appended to the transcript: back to idle.
SendAppendFails(g) ==
    /\ at[g] = "mark"
    /\ "appendFail" \in Ops
    /\ task[g].p \in Public
    /\ row' = WithStatus("idle")
    /\ sender' = None
    /\ Goto(g, "failed")
    /\ UNCHANGED <<job, lock, copy, ledger, crashes>>

AfterSend(k) ==
    CASE k = "steer" -> "toClear"
      [] k = "recover" -> "drain"
      [] OTHER -> "out"

\* The recovery goroutine holds the session's lock while it sends.
UnlockIfRecovering(g) ==
    lock' = IF task[g].kind = "recover" THEN None ELSE lock

CountStart(p) ==
    starts' = IF p = None THEN starts ELSE [starts EXCEPT ![p] = @ + 1]

\* AppendUserMessage, then startTurn: the agent has the prompt.
SendStart(g) ==
    /\ at[g] = "mark"
    /\ job' = "running"
    /\ sender' = None
    /\ CountStart(task[g].p)
    /\ UnlockIfRecovering(g)
    /\ Goto(g, AfterSend(task[g].kind))
    /\ UNCHANGED <<row, copy, accepted, deleted, cut, crashes>>

\* What the caller of send does with an error; claimed and steered prompts are
\* restored (LoadRestore). No one drains after a failed goal continuation.
SendFailed(g) ==
    /\ at[g] = "failed"
    /\ task[g].kind \in {"goal", "direct", "ext", "recover"}
    /\ row' = CASE task[g].kind = "ext" -> row
                [] task[g].kind = "goal" -> WithStatus("idle")
                [] OTHER -> WithStatus("error")
    /\ UnlockIfRecovering(g)
    /\ Goto(g, AfterSend(task[g].kind))
    /\ UNCHANGED <<job, sender, copy, ledger, crashes>>

-----------------------------------------------------------------------------
\* The turn in memory and its end.

\* The cancel button, for a live job.
UserCancel ==
    /\ "cancel" \in Ops
    /\ job = "running"
    /\ job' = "cancelling"
    /\ UNCHANGED <<row, lock, sender, at, task, copy, ledger, crashes>>

\* The cancel button without a job in memory: cancelStored loads and saves the
\* whole row without the session's lock.
CancelStored(g) ==
    /\ "cancelStored" \in Ops
    /\ job = "absent"
    /\ at[g] = "out"
    /\ copy' = [copy EXCEPT ![g] = row]
    /\ Goto(g, "stale")
    /\ UNCHANGED <<row, job, lock, sender, ledger, crashes>>

CancelStoredSave(g) ==
    /\ at[g] = "stale"
    /\ row' = Saved([copy[g] EXCEPT !.status = "idle"])
    /\ copy' = [copy EXCEPT ![g] = None]
    /\ Goto(g, "out")
    /\ UNCHANGED <<job, lock, sender, ledger, crashes>>

\* The last prompt call returns (completePromptCall, failPromptCall): finishTurn.
\* A cancel may come just after the call has looked for one.
Outcomes ==
    {"ended"} \cup (IF "turnFail" \in Ops THEN {"failed"} ELSE {})
              \cup (IF job = "cancelling" THEN {"cancelled"} ELSE {})

EndTurn ==
    /\ RuntimeRunning
    /\ at[Finisher] = "out"
    /\ job' \in Outcomes
    /\ at' = [at EXCEPT ![Finisher] = "toFinish"]
    /\ UNCHANGED <<row, lock, sender, task, copy, ledger, crashes>>

\* HandleACPTurnFinished.
LoadFinish ==
    /\ at[Finisher] = "toFinish"
    /\ Load(Finisher, "finish")
    /\ UNCHANGED <<row, job, sender, task, ledger, crashes>>

\* A turn that ended by itself is the only one that drains the queue.
AfterFinish == IF job = "ended" THEN "drain" ELSE "close"

\* The status of the finished turn, and no drain.
FinishWithoutDrain ==
    /\ at[Finisher] = "finish"
    /\ row' = WithStatus(IF job = "failed" THEN "error" ELSE "idle")
    /\ Unlock(Finisher)
    /\ at' = [at EXCEPT ![Finisher] = "close"]
    /\ UNCHANGED <<job, sender, task, ledger, crashes>>

\* The state of the agent's turn is stored as the status of the session.
FinishRawState ==
    /\ at[Finisher] = "finish"
    /\ row' = WithStatus(job)
    /\ Unlock(Finisher)
    /\ at' = [at EXCEPT ![Finisher] = AfterFinish]
    /\ UNCHANGED <<job, sender, task, ledger, crashes>>

\* FinishSessionTurn updates a row that still has a turn, CompleteSession and
\* UpdateSessionStatus any row: the copy says which is called.
Finish ==
    /\ at[Finisher] = "finish"
    /\ row' = IF copy[Finisher].turn # None /\ row.turn = None
              THEN row
              ELSE WithStatus(IF job = "failed" THEN "error" ELSE "idle")
    /\ Unlock(Finisher)
    /\ at' = [at EXCEPT ![Finisher] = AfterFinish]
    /\ UNCHANGED <<job, sender, task, ledger, crashes>>

\* close(done) lets everybody go on who waits for this turn.
Wake(l) == CASE l = "wait" -> "send" [] l = "cancelWait" -> "cancelDone" [] OTHER -> l

CloseTurn ==
    /\ at[Finisher] = "close"
    /\ job' = "idle"
    /\ at' = [g \in Procs |-> IF g = Finisher THEN "out" ELSE Wake(at[g])]
    /\ UNCHANGED <<row, lock, sender, task, copy, ledger, crashes>>

\* The goal is set, cleared or completed (UpdateGoal writes only that column).
ChangeGoal ==
    /\ "goal" \in Ops
    /\ row' = [row EXCEPT !.goal = ~ @]
    /\ UNCHANGED <<job, lock, sender, at, task, copy, ledger, crashes>>

-----------------------------------------------------------------------------
\* Restart: resetStaleRunningThreads, then sessionrecovery.Resume and
\* ResumeQueuedTurns in one goroutine.

Crash ==
    /\ crashes < MaxCrashes
    /\ crashes' = crashes + 1
    /\ row' = [row EXCEPT !.status = IF @ = "running" THEN "interrupted" ELSE @]
    /\ job' = "absent"
    /\ lock' = None
    /\ sender' = None
    /\ at' = [g \in Procs |-> IF g = Recovery THEN "recover" ELSE "out"]
    /\ task' = [g \in Procs |-> NoTask]
    /\ copy' = [g \in Procs |-> None]
    /\ cut' = IF row.turn \in Actions THEN [cut EXCEPT ![row.turn] = @ + 1] ELSE cut
    /\ UNCHANGED <<accepted, deleted, starts>>

RecoverNothing ==
    /\ at[Recovery] = "recover"
    /\ lock = None
    /\ row.status # "interrupted"
    /\ Goto(Recovery, "drain")
    /\ UNCHANGED <<row, job, lock, sender, copy, ledger, crashes>>

\* ResumeInterruptedTurn: a claimed prompt is sent again, with the lock held;
\* without one the agent is asked to continue.
ResumeContinues ==
    /\ at[Recovery] = "recover"
    /\ lock = None
    /\ row.status = "interrupted"
    /\ lock' = Recovery
    /\ at' = [at EXCEPT ![Recovery] = "send"]
    /\ task' = [task EXCEPT ![Recovery] = Task("recover", None, 0)]
    /\ UNCHANGED <<row, job, sender, copy, ledger, crashes>>

RecoverTurn ==
    /\ at[Recovery] = "recover"
    /\ lock = None
    /\ row.status = "interrupted"
    /\ row.turn \notin Actions
    /\ lock' = Recovery
    /\ at' = [at EXCEPT ![Recovery] = "send"]
    /\ task' = [task EXCEPT ![Recovery] =
                    Task("recover", IF row.turn \in Prompts THEN row.turn ELSE None, 0)]
    /\ UNCHANGED <<row, job, sender, copy, ledger, crashes>>

\* A claimed action runs in a goroutine of its own.
RecoverAction ==
    /\ at[Recovery] = "recover"
    /\ lock = None
    /\ row.status = "interrupted"
    /\ row.turn \in Actions
    /\ \E r \in Runners :
          /\ at[r] = "out"
          /\ at' = [at EXCEPT ![Recovery] = "drain", ![r] = "act"]
          /\ task' = [task EXCEPT ![r] = Task("claim", row.turn, 0)]
    /\ UNCHANGED <<row, job, lock, sender, copy, ledger, crashes>>

-----------------------------------------------------------------------------

Requests(g) ==
    \/ \E p \in Public :
          \/ RequestAppend(g, p)
          \/ RequestDelete(g, p)
          \/ RequestSteer(g, p)
          \/ p \notin Actions /\ (RequestBegin(g, p) \/ SendExternal(g, p))
    \/ \E p \in Internal : RequestEnqueue(g, p)
    \/ RequestReorder(g)
    \/ CancelStored(g)

Handlers(g) ==
    \/ AppendPrompt(g) \/ DeletePrompt(g) \/ ReorderPrompts(g) \/ EnqueueInternalTurn(g)
    \/ Drain(g) \/ ClaimPrompt(g) \/ ClaimGoal(g) \/ ClaimNothing(g)
    \/ RunAction(g) \/ FinishAction(g) \/ FailTurn(g) \/ LoadRestore(g) \/ RestorePrompt(g)
    \/ ClaimSteered(g) \/ SteerTaken(g) \/ SteerRefused(g) \/ SteerUnsupported(g)
    \/ SteerCancel(g) \/ SteerCancelGivesUp(g) \/ SteerAfterCancel(g)
    \/ LoadClear(g) \/ ClearSteer(g)
    \/ Begin(g) \/ BeginFails(g) \/ BusySteers(g) \/ BusyRejects(g) \/ BusyQueues(g)
    \/ LoadRequeue(g) \/ CancelStoredSave(g)

Sending(g) ==
    \/ SendResume(g) \/ SendResumed(g) \/ SendConflict(g) \/ SendWait(g)
    \/ SendMark(g) \/ SendGoalGone(g) \/ SendAppendFails(g) \/ SendStart(g)
    \/ SendFailed(g)

TurnEnd == EndTurn \/ LoadFinish \/ Finish \/ CloseTurn
Restart == RecoverNothing \/ RecoverTurn \/ RecoverAction

\* Nothing runs: a step that changes nothing, so that being at rest is not
\* mistaken for being stuck.
AtRest ==
    /\ \A g \in Procs : at[g] = "out"
    /\ ~ RuntimeRunning
    /\ UNCHANGED vars

Next ==
    \/ \E g \in Goroutines : Requests(g)
    \/ \E g \in Procs : Handlers(g) \/ Sending(g)
    \/ TurnEnd
    \/ UserCancel
    \/ ChangeGoal
    \/ Crash
    \/ Restart
    \/ AtRest

Spec == Init /\ [][Next]_vars

\* Goroutines run, the agent's turns end, and a Go mutex in starvation mode goes
\* to the goroutine that has waited longest. Requests, cancels and crashes are
\* never owed.
Fairness ==
    /\ \A g \in Procs : SF_vars(Handlers(g) \/ Sending(g))
    /\ SF_vars(TurnEnd)
    /\ SF_vars(Restart)

FairSpec == Spec /\ Fairness

-----------------------------------------------------------------------------

\* Whoever is about to save the session holds its lock, and the queue it loaded
\* is still the stored one: no handler overwrites a prompt it never saw. Every
\* write outside the lock must leave the queue alone for this to hold.
CopyFresh ==
    \A g \in Procs : at[g] \in Saving =>
        /\ lock = g
        /\ copy[g].pub = row.pub
        /\ copy[g].int = row.int
        /\ copy[g].steer = row.steer

\* A goroutine is on its way to give p to the agent, or back to the queue.
Carries(g, p) ==
    /\ task[g].p = p
    /\ at[g] \in Handing \cup {"act", "steering", "cancel", "cancelWait", "cancelDone", "restore"}

\* A prompt the server has acknowledged is in the stored queue, is the claimed
\* turn of the stored row, is carried by a goroutine, has reached the agent, or
\* was deleted by the user.
NoPromptLost ==
    \A p \in accepted :
        \/ p \in deleted
        \/ starts[p] > 0
        \/ Queued(p)
        \/ row.turn = p
        \/ \E g \in Procs : Carries(g, p)

\* The agent gets a prompt at most once, and what it got is queued no longer. An
\* action is run again only for a restart that found it as the stored turn (a crash
\* may have met it between its effect and the write that forgets it), and not more
\* than once for each.
MostStarts(p) == IF p \in Actions THEN 1 + cut[p] ELSE 1

StartedOnce ==
    \A p \in Prompts :
        /\ starts[p] <= MostStarts(p)
        /\ Queued(p) \/ p \in deleted => starts[p] < MostStarts(p)

\* Between claims, direct sends and turn ends there is one turn at a time: at
\* most one goroutine is past claiming or beginning, none while a turn runs.
OneTurn ==
    \A g, h \in Procs :
        at[g] \in {"send", "resume", "wait", "mark"} =>
            /\ ~ RuntimeRunning
            /\ at[h] \in {"send", "resume", "wait", "mark"} => g = h

\* While the agent works the stored session says so, with the turn's record:
\* a restart finds what to resume, and the finished turn whom to tell.
LiveTurnMarkedRunning ==
    RuntimeRunning => row.status = "running" /\ row.turn = Sent

\* When the thread is free, prompts waiting in it have a goroutine that will
\* look at the queue or give the agent a turn: a free thread runs its queue and
\* nobody has to touch the chat to wake it.
ThreadFree == ~ RuntimeRunning /\ ~ Finishing /\ row.status \in {"idle", "running"}

NoForgottenQueue ==
    ThreadFree /\ QueueOf(row) # <<>> =>
        \E g \in Procs :
            at[g] \in Handing \cup
                {"drain", "claim", "act", "acted", "restore", "cancelDone"}

\* A prompt shown as being steered has a goroutine that will take it off.
PendingSteerAttended ==
    row.steer # None => \E g \in Procs : task[g].kind = "steer" /\ at[g] # "steer"

\* A claim takes the oldest public prompt of the stored queue, and an internal
\* one only if no public prompt waits.
OldestFirst ==
    [][\A p \in Prompts :
          row.turn # p /\ row'.turn = p =>
              p = IF row.pub # <<>> THEN Head(row.pub) ELSE Head(row.int)]_vars

\* A prompt leaves the stored queue only by being deleted, or into the stored
\* turn, or into the stored pending steer.
QueuedPromptKept ==
    [][\A p \in Prompts :
          Queued(p) /\ ~ Queued(p)' =>
              p \in deleted' \/ row'.turn = p \/ row'.steer = p]_vars

\* An acknowledged prompt reaches the agent in the end, unless it is deleted or
\* the session stops at an error the user is shown.
EveryPromptStarts ==
    \A p \in Prompts :
        p \in accepted ~> (starts[p] > 0 \/ p \in deleted \/ row.status = "error")

\* A prompt that was claimed when the server stopped is handed to the agent after
\* the restart; an action is run again, also one that had run.
Interrupted(p) == at[Recovery] = "recover" /\ row.status = "interrupted" /\ row.turn = p

ClaimedPromptResumes ==
    \A p \in Prompts : \A n \in 0..MaxCrashes :
        Interrupted(p) /\ starts[p] = n ~> starts[p] > n

\* The thread as its users see it.  What waits is looked for where the code keeps it:
\* a prompt the code has let slip waits no longer, and one the agent got twice does not
\* count as given.
Waits(p) ==
    /\ p \in accepted \ deleted
    /\ starts[p] = 0
    /\ Queued(p) \/ row.turn = p \/ \E g \in Procs : Carries(g, p)

Thread == INSTANCE ThreadQueue WITH
    Immediate <- Actions,
    waiting <- {p \in Prompts : Waits(p)},
    given <- {p \in Prompts : starts[p] = 1},
    withdrawn <- deleted,
    busy <- RuntimeRunning

\* The queue, the turns and the steering implement ThreadQueue: whatever its handlers
\* do in between, to a user each prompt takes one step from waiting to the agent.
KeepsPromises == Thread!ThreadSpec

=============================================================================
