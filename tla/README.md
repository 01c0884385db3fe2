# Verification of the Jaz server

Jaz runs coding agents in chat threads. The Go server keeps one row per thread
(a *session*) in SQLite, a queue of prompts in that row, and at most one running
agent turn per thread in memory. Requests, the end of a turn, sub-agents and
restarts all change these three at once. Around the threads, routines start
turns on their own, bots post to each other's groups, and what connectors
observe is written to pages a memory agent reads. This directory models these
four parts, and what goes on inside a turn, in TLA+, checks them with TLC and
proves part of them with TLAPS.
Paths below are relative to `src/backend/internal/` unless they start with
`docs/` or `cmd/` (`src/backend/cmd/`).

| file | what it is |
| --- | --- |
| `SessionLock.tla` | `sessionlock/locks.go`: locks on several sessions at once |
| `TurnQueue.tla` | one session: the queue, the claims, the sends, the turn, the restart |
| `ThreadQueue.tla` | the abstract specification `TurnQueue` implements |
| `AgentTurn.tla` | inside a turn: prompts, steers, questions, the turn's end, cancel |
| `Rooms.tla` | `bots/rooms.go`: a group of bots, its posts and their deliveries |
| `Routines.tla` | `loops`: routines, their runs, triggers and the scheduler |
| `SourceQueue.tla` | `sourcequeue/queue.go` as operators on its state file |
| `Ingest.tla` | connector, projection runner and dreams around two such queues |
| `*_proofs.tla` | the theorems about each |
| `MC*.tla`, `MC*.cfg` | the constants of the runs, one `.cfg` file per run |
| `PROJECT.json` | components, runs, mutants, the code each definition stands for, findings, hazards, theorems |

## 1. Inventory

### Components of the core

**Session locks** (`sessionlock/locks.go`). State: a table of mutexes under a
mutex. Operation: `Lock(ids...)`, which sorts the ids and locks them one by one.
Used by every handler that loads and saves a row, by recovery and by the end of a
turn, which locks the thread, its parent and the thread it answers. Correct when
callers that share an id exclude each other, no circle of waiters forms and a
caller is not passed over for ever.

**Thread queue** (`server/queue.go`, `server/queued_actions.go`). State: the
queued messages of the row (public and internal ones), its status, its pending
steer. Operations: append, delete, edit, reorder, steer, the internal enqueue,
the drain, the claim of the next turn, the restore of a prompt that could not be
sent. Correct when an acknowledged prompt is never lost, never started twice, is
started in order, and no prompt waits in a free thread.

**Direct sends** (`server/acp_stream.go`). The user's message starts a turn, is
steered into the running one, or is queued. Shares the row and the agent with the
queue.

**Agent turns** (`acp/send.go`, `acp/turns.go`, `acp/job.go`, `acp/cancel.go`,
`acp/resume.go`). State: `jobState` per live session with the active turn, the
finishing turn and `sendMu`. Operations: send (resume the agent, mark the row,
append the message, start the turn), steer, cancel, end of turn. Writes the row
without the session's lock, by single columns or, when it resumes an agent, as a
whole.

**Turn completion** (`server/turn_completion.go`). Called once per turn: stores
the final status, delivers the result to a parent and to the bot that asked, in
one transaction, and drains.

**Stored row** (`storage/sqlite`). `SaveSession` writes all columns except the
goal, and keeps the turn's record only for a running or interrupted status. The
other statements write few columns; one SQL statement is atomic.

**Restart recovery** (`sessionrecovery`, `app/session_recovery.go`). Running rows
become interrupted; one goroutine resumes each interrupted thread under its lock
and then drains the queues of the idle ones.

**Source queue** (`sourcequeue/queue.go`). A file with pending and reserved
sources under a lock file. Operations: mark, reserve a batch (which first takes
back reservations older than thirty minutes), complete, release, settle. There
are two: the projection queue and the memory queue. Correct when a mark made
while a source is reserved survives the settlement of that reservation, and a
source somebody reserved comes back whatever becomes of its holder.

**Ingestion** (`integrationingest`, `app/source_projection.go`, the connectors).
State: raw files, an index of the pages that show a contact's name, the pages,
both queues, the connectors' cursors. A connector stores records, marks the
pages they concern and moves its cursor; one runner rebuilds marked pages from
the raw files and marks them for the dreams. Correct when everything stored
reaches its page.

**Memory dreams** (`memorydream`). A dream reserves all of the memory queue,
lets an agent read the pages and settles what the agent's receipt names. It may
take longer than its reservation lasts. Correct when everything on the pages is
read by some dream.

**Group messages** (`bots/rooms.go`). Posts to a group are delivered to each
member's own thread, by steering a running turn or by queueing one, and then the
member's seen position is saved. Uses the thread queue (`QueueInternalTurn`) and
`Steer`. Correct when a member is shown each admitted post for it, once.

**Routines** (`loops`, `server/loop_executor.go`). State: a routine's row with its
schedule, next time and last run; the rows of its runs; in memory the messages
that fired it. A run is started by the scheduler, by a request or by a message,
executed by a goroutine in a thread of its own or in its bot's thread, and closed
by the end of the turn, by the goroutine, or by the next start of the server.
Correct when a routine has one run at a time, every run ends, an outcome stays,
and a message fires once.

**Pending questions** (`acp/pending_permission.go`, `acp/events.go`). State: the
table `pendingPermission` under a mutex, the list in the job the user is shown, a
channel per question. A request of the agent waits for the user's answer, for a
steer, for the end of the turn, or for the end of its own context; whoever deletes
it from the table answers it. Correct when exactly one of them does, and no question
of a turn outlives it.

`PROJECT.json` lists the remaining components (MCP, widgets, terminals, browser control, device pairing, frontend and so on) with the
reason each is not modelled: mostly I/O, or a record written by one transaction.

### What is hard

* Handlers load a row, change it and save all of it. The lock serialises
  handlers, but `internal/acp` writes the same row without it.
* A prompt moves from the queue to the row's turn, to a goroutine, to the
  transcript and the agent. Each move can fail, be overtaken or be cut by a crash.
* Whether a thread is busy is decided by the job in memory, by the status of the
  row, or by both, depending on who asks.
* The queue is only looked at when somebody drains it; whoever makes a thread
  free must drain, or know that someone else will.
* The end of a turn locks several threads at once.
* Work taken from a durable queue is handed out again when its holder is slow,
  and the first holder settles late.
* The service serialises every change of a routine's row, but what a run's
  goroutine does happens between these changes, and nothing stops it when the
  run was closed by somebody else.
* Inside a turn several prompts, the questions of the agent, a cancel and the end of
  the turn meet in one `jobState`, with a channel or a lock for each pair.
* A message is shown in one step and recorded as shown in another; posts, other
  deliveries and failures come in between.

## 2. SessionLock

A caller is in one of five places: `out`, `find` (look up or make the mutex of
the next id, under `Locks.mu`), `acquire` (wait for it), `inside` and `release`
(unlock one by one). Ids are numbers, because only their order matters.
`Requests` is the set of id sets a caller may ask for.

*Run `session_lock`*: three ids, three callers, the three pairs. Pairs that
overlap all round are the smallest setting in which three callers can wait in a
circle; a fourth mutex leaves room for a lookup that makes one too many.
Fairness: a Go mutex that a goroutine has waited for longer than a millisecond
is handed over in order of arrival, hence strong fairness of `Acquire`; weak
fairness of the rest says that a goroutine that can run does, and that a critical
section ends.

## 3. TurnQueue

### State

`row` is the stored session: `status`, the prompts as two sequences `pub` and
`int` (the code splits the list before it looks for a position in it), `turn`
(`None`, a claimed prompt, or `Sent`: the record after `StartSessionTurn`), the
pending `steer`, and whether a `goal` is live. `job` is `jobState`: absent, idle,
running, cancelling, or one of three ways of finishing. `lock` is the session's
lock, `sender` is `sendMu`. Each goroutine has a place (`at`), a `task` (what it
does for which prompt) and, between its load and its save, the `copy` of the row
it loaded. `accepted`, `deleted` and `starts` record what the queue acknowledged,
what the user took out, and how often the agent got each prompt; `cut` counts the
restarts that found an action as the stored turn. Nothing reads them but the
properties, and `Fresh`, which hands out each prompt name once.

Goroutines are the request handlers, the runners started by `go`, the finisher
of the agent's turn and the recovery. The number of runners is a bound:
`FreeRunner` makes the finisher wait for one.

### Actions

| code | actions |
| --- | --- |
| `handleQueueAction`, `mutateSessionQueue`, `updateSessionQueue` | `Request*`, `AppendPrompt`, `DeletePrompt`, `ReorderPrompts` |
| `QueueInternalTurn`, `enqueueInternalTurn` | `RequestEnqueue`, `EnqueueInternalTurn` |
| `drainQueueSoon`, `claimNextTurn` | `Drain`, `ClaimPrompt`, `ClaimGoal`, `ClaimNothing` |
| `runClaimedTurn`, `startQueuedAction`, `finishQueuedAction` | `RunTurn`, `RunAction`, `FinishAction`, `FailTurn` |
| `restoreQueuedPrompt` | `LoadRestore`, `RestorePrompt` |
| `steerQueuedPrompt` and its parts | `RequestSteer`, `ClaimSteered`, `Steer*`, `LoadClear`, `ClearSteer` |
| `streamACPSession`, `beginACPTurn`, `queueACPStreamTurn` | `RequestBegin`, `Begin`, `BeginFails`, `Busy*`, `LoadRequeue` |
| `Manager.send`, `sendOnce` | `SendExternal`, `SendResume`, `SendResumed`, `SendConflict`, `SendWait`, `SendMark`, `SendGoalGone`, `SendAppendFails`, `SendStart`, `SendFailed` |
| `Manager.Cancel`, `cancelStored` | `UserCancel`, `SteerCancel`, `SteerCancelGivesUp`, `CancelStored`, `CancelStoredSave` |
| `completePromptCall`, `failPromptCall`, `finishTurn`, `HandleACPTurnFinished` | `EndTurn`, `LoadFinish`, `Finish`, `CloseTurn` |
| `resetStaleRunningThreads`, `Resume`, `ResumeInterruptedTurn`, `ResumeQueuedTurns` | `Crash`, `RecoverNothing`, `RecoverTurn`, `RecoverAction`, `Drain` |
| goal tools | `ChangeGoal` |

A handler that locks, loads, decides and saves is two steps: the load (`Load`)
and the save with the unlock. That is where the writers without the lock come in
between. `Saved` is the upsert: the stored turn and goal stay or go whatever was
loaded. `Ops` names what may happen in a run (which requests, which failures,
whether the agent can be steered); the actions that need it have a guard
`"..." \in Ops`. Nothing else in a run is switched off.

### Abstractions

* Prompts are model values. Ids, titles, attachments, contexts and archiving are
  left out, and so are requests that are rejected before anything is stored.
  An edit of a queued prompt's text is a `ReorderPrompts` that keeps the order.
* Every queued prompt validates, and the runtime is configured
  (`canStartQueuedPrompt` holds).
* The agent either takes a steered prompt or cannot be steered; what becomes of it
  inside the turn is `AgentTurn` (section 4).
* There is no clock. A cancel that waited five seconds tears the agent down and the
  steer goes on to start its prompt (`SteerCancelGivesUp`: once the turn has ended, the
  goroutine need not wait for its finisher). A send that waited too long for a finishing
  turn fails and its prompt is restored (`FailTurn` at `wait`).
* The drain after a restart reads the row and takes the lock in one step.
* The turn's result for other sessions is left out (see section 9).

### Properties

* `CopyFresh`: a goroutine about to save holds the lock, and the queue and the
  pending steer it loaded are still the stored ones.
* `NoPromptLost`: an acknowledged prompt is queued, claimed, carried by a
  goroutine, started, or was deleted.
* `StartedOnce`: no prompt reaches the agent twice, or after it was deleted, or
  while it is still queued. For actions this is not so in the code, and the property
  says what is: the effect of an action (`server/queued_actions.go:119`) and the status
  that forgets it (`:142`) are two steps, a crash between them leaves the action as the
  stored turn, and the recovery runs it again. An action is run at most once more for
  each restart that found it there (`MostStarts`), and never otherwise.
* `OneTurn`: without steering and unlocked sends, at most one goroutine is past
  claiming or beginning, and none while a turn runs.
* `LiveTurnMarkedRunning`: while the agent works the row says so and has the
  turn's record.
* `NoForgottenQueue`: a free thread with prompts has a goroutine that will look
  at the queue or start a turn.
* `PendingSteerAttended`: a pending steer has a goroutine that will take it off.
* `OldestFirst`, `QueuedPromptKept`: action properties on what a step may take
  out of the queue, and where it puts it.
* `EveryPromptStarts`: liveness of a queued prompt.
* `ClaimedPromptResumes`: liveness; a prompt that is the stored turn of an interrupted
  session when recovery looks at it is given to the agent once more than before.
* `KeepsPromises`: refinement, see below.

### The thread as its users see it

`ThreadQueue` is what a thread promises: a prompt is accepted, waits, and is given
to the agent or withdrawn, one of the two and once; it is given by starting a turn
when none runs or by being steered into the one that does. `TurnQueue` maps
`waiting` to the acknowledged prompts that it still has somewhere (in the stored
queue, in the row's turn, or with a goroutine that carries them), `given` to the
prompts the agent got exactly once, `withdrawn` to `deleted` and `busy` to
`sessionRuntimeRunning`. A prompt that slips out of all those places, one that is
given twice, or one that is started while a turn runs, is then a step
`ThreadQueue` does not have. The runs `queue` and `alone` check
`KeepsPromises`; with crashes and unlocked saves it fails, by findings 1 and 2.

### Runs

| run | bounds | what it shows |
| --- | --- | --- |
| `queue` | two public prompts, one internal, two handlers, one runner | one turn at a time, oldest first, none forgotten, with failing turns and sends; liveness; and the refinement, from which no loss and no second start follow |
| `faults` | two public prompts, two handlers, one runner | steering, unlocked sends, cancels, goals and every failure: nothing lost or started twice |
| `restart` | a prompt, an action and an internal prompt, two handlers, two runners, one crash | what was claimed at the crash is started afterwards; a prompt once in all, an action at most twice |
| `alone` | two public prompts, one internal, one handler | the unlocked whole-row saves lose nothing when no other request runs beside them: the refinement with resumed agents |
| `restart_loses_sent` | one prompt, one crash | finding, see below |
| `status_write_lost` | one prompt, one action | finding |
| `resume_overwrites_queue` | two prompts | finding |

Two public prompts show order, a place to restore to, and one prompt overtaking
another; a third would add no new relation. Two handlers are enough to have one
between the other's load and save, and the finisher, the runner and the recovery
come on top. One crash reaches every state a crash can reach, and all of recovery
after it. Each property of a run is also checked to fail for a plausible bug in
the code: `PROJECT.json` names the definition and its faulty variant, which
stands just before it in the module.

The runs do not check every property under every fault, because some do not hold
there, by the code's design or by a finding. Section 8 has the theorems with the
conditions each of them needs; in short:

* `OneTurn` and `LiveTurnMarkedRunning` need every turn to be claimed or begun under
  the session's lock. A sender that takes no lock, a steer that marks an idle session
  running whatever its status, a transcript that cannot be written after the row was
  marked, and the cancel of a stored turn break them. So does an action that a restart
  runs again: `RecoverAction` leaves the row interrupted while the action runs, a
  direct message can begin a turn beside it (`server/acp_stream.go:159`), and the end of
  the action sets the row idle while the agent works.
* `NoForgottenQueue` is not stated for cancelled turns, which leave the queue alone
  (`server/turn_completion.go:66`), nor with goals or failing direct sends.

*Fairness* (`queue`, `restart`): strong fairness for each goroutine's handlers
and sends, for the end of the turn and for the recovery. Strong, because waiting
for the session's lock is waiting for a Go mutex, which is handed over in order
under contention, and because a turn's agent is assumed to end its turn. Requests,
cancels and crashes are never owed. `AtRest` is a stuttering step of an idle
system, so that TLC's deadlock check reports only a goroutine that is stuck.

### Findings

All three contradict `docs/requests-bot-group-threads.md:22`, which describes
"the server's durable per-thread queue, which already runs queued turns when a
thread is free and survives restarts".

1. `acp/resume.go:136`: a resumed session is saved as it was loaded before the
   agent's handshake, without the session's lock. A prompt queued meanwhile is
   overwritten.
2. `acp/send.go:189`: `StartSessionTurn` replaces the record with the claimed
   prompt before the prompt is in the transcript or with the agent. After a crash
   in between, recovery asks the agent to continue and the prompt is gone.
3. `server/queued_actions.go:142`: the status is set to idle without the lock,
   and a queue request that loaded the row earlier saves running over it. The
   thread then looks busy until the server restarts.
A goal continuation that cannot start (`server/queue.go:329`) also sets the thread
idle and does not drain, so that a prompt queued meanwhile waits: `NoForgottenQueue`
is therefore checked without goals.

## 4. AgentTurn

### State and actions

`job` is `jobState` with the turn it has and the one it is finishing; a turn is a
number and stands for its channel `done`. `at` and `task` are the goroutines that
carry prompts, `pending` is the table of questions, `listed` what the job shows,
`stage` where each request of the agent is.

| code | actions |
| --- | --- |
| `sendOnce`, `startTurnWithOperation` | `StartTurn` |
| `runPrompt`, `runPromptCall`, `runSteerCallAfterHandoff` | `RunPrompt`, `SendPrompt` |
| the agent's answer to a prompt | `AgentEnds`, `AgentFails` |
| `completePromptCall`, `failPromptCall`, `failTurn` | `Complete` (`HandOff`, `EndCalls`), `Fail`, `FailTurn` |
| `finishTurn`, `discardTurnResult` | `FinishTurn`, `ClearQuestions`, `Callback`, `Release`, `Discard` |
| `Steer`, `reserveSteer`, `cancelPendingPermissionsForSteer` | `CheckSteer`, `Reserve`, `TakeForSteer`, `WaitForHandoff`, `QuestionsTaken` |
| `awaitPermissionAnswer` | `Register`, `Publish`, `Withdraw` |
| `AnswerInteractive`, `cancelPendingPermissionList` | `Answer`, `CloseQuestion` |
| `Cancel`, `teardown` | `RequestCancel`, `CancelReturns`, `CancelLeaves`, `Teardown`, `MarkCancelled` |

### Abstractions

One `jobState`: after a teardown the next message makes a new one, which is not
followed. Whether a turn ended idle, cancelled or failed is `TurnQueue`'s matter;
here `running` says that the job has not ended yet. A question that was taken from
the table is nobody else's: a user's answer and a withdrawal are one step from the
deletion to the request's return. The wait of a send for the end of a turn is a send
that starts later. Local agents and Grok's interjections are left out.

### Properties

* `TurnCanEnd`: a running turn has a prompt that can end it, not only steers that
  wait for a hand-over.
* `EndsInOrder`: when a turn's `done` is closed, and before the next turn starts,
  `TurnFinished` was called for it, once.
* `QuestionsFollowTurn`: a question of the running turn that waits is shown; when
  the turn is over it cannot be answered any more.
* `OneResponse`: one response event after the request event, and one answer.
* `CancelledTurnEnds`: liveness; the teardown makes a silent agent's calls fail.

What `TurnCanEnd` and `CancelledTurnEnds` except is real. A steer that takes a
question waits until a prompt of the turn hands over. If the prompt that asked was
already answered (the agent left the question open), or belongs to a turn that was
over, there may be nobody left to hand over: the turn waits for the steer and the
steer for the turn, and the teardown does not help, because the steer waits for
neither the agent nor a deadline. `orphan` marks such hand-overs. Two more things the
model shows and no property states: a steer checked in one turn may reserve in the
next, before that one's first prompt was sent, and end it, whereupon `runPrompt`
starts a turn of its own; and a question taken after a teardown gets no response
event, because the job is no longer in the table (`OneResponse` demands one only of a
job that is).

*Run `agent_turn`*: three prompts, up to three turns, one question, one cancel, both
ways to steer. Three prompts are a turn with two steers, or a steer that meets the
next turn; a third turn is the one `runPrompt` starts itself. Four prompts with two
questions and two turns, without a cancel, were explored as well, without a violation.
No deadlock check: it stops when everything was sent. Fairness: weak, of goroutines
that can run, and of calls to an agent that was torn down; the agent itself owes
nothing.

## 5. Rooms

### State and actions

A post is its place in the group's log: who posted it and whom it is for. Each
member has a `seen` position, the deliveries that wait for its lock (`coming`)
and the one that holds it (`giving`).

| code | actions |
| --- | --- |
| `post` up to `appendEvent` | `StorePost` |
| `admit` and the `go s.deliver` after it | `Admit` |
| `deliverLocked`: `LoadMembership`, `join`, `unseen` | `Begin` (`Unseen`) |
| `SteerInternal`, `QueueInternalTurn` | `HandOver` |
| `SaveMembership` | `SaveSeen` |
| an error of any of them, `announce` | `Unreachable`, in each of the three |
| restart | `Crash`: nothing takes up deliveries, `followUps` starts anew |

`admitted`, `shown`, `again`, `unsaved`, `failed` and `passed` are history: which
posts were admitted, shown, shown again, shown by a delivery that did not store it,
reported as not delivered, and left out.

### Abstractions

The text and the turns of the member's thread are left out: a message counts as
shown once the thread accepted it (`TurnQueue` says what then becomes of it).
Steering and queueing are one outcome of `HandOver`: an error of `SteerInternal`
means that the turn did not accept the message, so falling back to the queue does
not double it. The membership's row, the hidden thread it names and its creation
are one step of `Begin`. The list of members does not change. Replies of one bot to
another outside a group (`Service.Message`) are not modelled.

### Properties

* `NothingSkipped`: what is below a member's seen position was shown to it, also
  posts that were kept back or meant for others.
* `ShownOnce`: shown again only when the delivery that showed it could not store
  that it did (the crash and the failed write of `SaveMembership`).
* `PostAttended`: an admitted post that has not arrived has a delivery.
* `EveryPostArrives`: in the end each has arrived, or its delivery failed and the
  group was told, or the server crashed on the way.

What the properties except is real: a member that was shown nothing yet gets only
the posts after its own last one (`unseen` with `after` zero). When the member posts
from one of its other threads before its first delivery has read the log, or after a
first delivery that was not stored, an admitted post for it is passed over
(`passed`), nobody is told, and its seen position moves beyond it.

*Run `rooms`*: two members and the user, three posts, one follow-up (the code
allows twelve; one is enough to have posts kept back between admitted ones), one
crash. Two posts can be on their way to one member while a third is kept back. No
deadlock check: the system stops when all posts are delivered. Fairness: weak, of
goroutines that were started.

## 6. Routines

### State and actions

`loop` is the routine's row, `runs` the rows of its runs in the order they were
made, `exec` where each run's goroutine is. Times are abstracted to what is asked
of `NextRunAt`: not set, later, passed.

| code | actions |
| --- | --- |
| `Create`, `Update`, `Delete` | `Create`, `Update`, `Delete` |
| the clock | `TimePasses` |
| `StartDue`, `claimDueRunLocked`, `skipRunLocked` | `StartDue` |
| `RunNow`, `RunTriggered`, `startManualRunLocked` | `RunNow`, `Trigger` (`StartManual`) |
| `HandleIncoming`, `firstSighting` | `HandleIncoming`, `FirstSighting` |
| `startACPLoopRun`, `startBotTurn` | `SpawnThread`, `MarkRunning`, `SendPrompt`, `Finish` |
| `MarkRunning`, `Finish`, `FinishThread`, `loopUpdateForRunLocked` | the same names, `SaveRun`, `FollowRun` |
| `finishLoopFromACP` at the end of any turn in the run's thread | `FinishThread` (in `RunStep` for the run's own turn, in `UsersTurn` for any other) |
| restart, the listener, `AdvanceMissed` | `Crash`, `Serve`, `AdvanceMissed` |

Every operation of the service holds its mutex and writes in one transaction, so it
is one action. `StartDue` of the model is one look through the due routines: those
that are busy are skipped until one can be started.

### Abstractions

`cancelled` is treated like `error`. Writes do not fail. Memory paths, prompts, the
adoption of routines without a bot and the memory of 10000 fired messages (it is
emptied beyond that; `RoutineAssumption` keeps the model below) are left out. The
messages given to a run are remembered with its goroutine.

### Properties

* `OneActiveRun`: at most one run is starting or running.
* `LastRunAgrees`: the routine's row names its newest run, and its status.
* `FinishedStaysFinished`: a run that has ended never becomes active again, and no
  later turn, late goroutine or restart rewrites its outcome. One step does
  (`SendFails`): `Finish` does not look at the status, so when a user's turn in the
  run's thread ends between `MarkRunning` and the send, it closes the run, and a send
  that fails then makes the run an error (`server/loop_executor.go:89`).
* `FiredOnce`: a message fires a routine once between two starts of the server,
  whichever connectors deliver it.
* `EveryRunEnds`: liveness; after a crash it is `AdvanceMissed` that closes runs.

`OneActiveRun` and `FinishedStaysFinished` except runs in `reset`, and that
exception is real. The HTTP listener is open before the scheduler's goroutine calls
`AdvanceMissed`, which resets every run that is starting or running as "Server
restarted…" (`loops/service.go:530`). A run a user started in between is reset
although its goroutine is at work; `MarkRunning` then revives it, and a second run
may have been started. Other things the model shows or leaves out on purpose: a
message is remembered as fired before the run is started, so one that meets an
active run is dropped; an error of `AdvanceMissed` ends the scheduler
(`service.go:606`); one schedule that does not parse makes every claim fail
(`service.go:417`).

*Run `routines`*: one routine, one message, two connector goroutines, two runs, two
edits, one crash. Runs of different routines only share the order of `StartDue`;
that several are due at once is covered by the theorems, not by this run. No
deadlock check: everything may be deleted. Fairness: weak, of a run's own steps
(the turn of a run's own thread ends because agents end their turns; only a routine in
its bot's thread has a limit, six hours), of `Serve` and `AdvanceMissed` (the program
is started again).

## 7. SourceQueue and Ingest

### State and actions

`SourceQueue` has operators, because the code has one atomic change of a file per
operation; `Ingest` applies them to two files. A source is a page or a contact (its
`.dep` source); a page's content is how many records it was built from.

| code | actions |
| --- | --- |
| a connector's loop (`GmailSyncer.syncConnection`) | `Observe`, `SaveCursor` |
| `MaterializingWriter.WriteRecords` | `StoreRaw`, `PlanRecords` or `PlanFails`, `MarkProjection` or `MarkFails` |
| `SourceProjectionRunner.RunOnce` | `ReserveBatch`, `FailSource`, `SettleBatch` |
| `SourceProjector.ProjectSource`, `contactDependencySources` | `ProjectSource` (`PagesOf`, `InRaw`) |
| `SourceWriter.writeArtifact` | `WriteArtifact`, `MarkMemory` |
| `Runner.RunDream` | `StartDream`, `FinishDream`, `FailDream` |
| thirty minutes, restart | `HalfAnHourPasses`, `Crash` |

### Abstractions

One contact per page. The tie-breaks of `shouldReplace` between marks of equal time
and the order inside a batch are arbitrary. A record that is delivered again after a
crash is dropped by its id when the raw file is read. An agent reads a page at the
reservation: the oldest content it can have seen. Connectors that poll; those that
are pushed to (`chatproviders/whatsapp/events.go:104`,
`chatproviders/telegram/sync.go:322`) do not deliver again after a crash between the
raw write and the mark, and `slack_sync.go` moves its position before it writes.
A torn line in a raw file is not modelled.

`WriteRecords` only warns when it cannot plan or mark a source, and the connector's
cursor moves on. `warned` has the sources that were left out this way, until a later
record of theirs is marked (and, for a page, the page is recorded under its contact).
The properties except them and nothing else: a page that is not in `warned` must not
be forgotten because another one was.

### Properties

* `PageAttended`: a page older than the raw files has a source in the projection
  queue, or a connector that has yet to mark it, or the log tells of its failed mark.
* `DreamAttended`: a page newer than what dreams have read is in the memory queue,
  or the source that wrote it is not settled.
* `EverythingIsRead`: in the end each page was read with all its messages and the
  newest name, unless the log tells that a mark is missing.

*Run `ingest`*: two pages of one contact, two connectors (one new, one delivering a
history with older times), batches of two, one dream, two records, one fault (a failed
plan, mark or projection, or a crash), any number of half hours. Two records make a mark meet the
reservation of the same source; the contact makes one source write two pages. With
one dream no second holder takes over a stale reservation: a second dream makes the
run ten times larger, and `DreamAttended` is proved for any number of them instead.
No deadlock check: it stops when all is read. Fairness: weak for the loops and
the clock; strong that a dream reports each page it is given again and again, because
an agent that never does would be right to read nothing.

## 8. Proofs

TLC checks the properties on the instances above; the theorems hold for any
number of sessions, callers, prompts, goroutines and restarts.

`SessionLock_proofs` proves `TypeOK`, `MutualExclusion` and `NoCircularWait`.
None is inductive. The invariant `LInv` adds: a mutex belongs to one id
(`OwnMutex`); a held mutex is owned, and is the mutex of an id the caller has
done (`HeldIsOwned`, `HeldIsDone`, `DoneIsHeld`); and the ids done are smaller
than those still to do (`InOrder`). A waiter then waits for an id greater than
all it holds, so in a set of callers the one whose awaited id is the greatest
waits for nobody of the set. That a finite set of ids has a greatest element
is the lemma `GreatestElement`, by well-founded induction on the numbers.
Assumption: `LockAssumption`, nothing but that the constants are distinct.

`TurnQueue_proofs` proves six theorems, in three groups.

*The row and its lock.*

* `TypeCorrect`: `TypeOK`. Its strengthening `TInv` says which task a goroutine
  at each place has (a goroutine that saves a public prompt has one, and so on);
  the types of the row follow from these.
* `WritersExclude`: at most one goroutine is between its load and its save. The
  invariant is that whoever is there is the holder of the lock, and that the
  recovery, which sends while it holds the lock, is at one of the places of a
  send.
* `CopiesStayFresh`: under `NoUnlockedSaves` (the operations `cancelStored` and
  `resumeSave` do not happen), `CopyFresh` holds. The proof goes through every
  action: each one that changes the queue holds the lock, and all the writes
  without the lock leave the queue and the pending steer alone. The assumption is
  exactly what the finding on `acp/resume.go:136` says is not so in the code.

*One turn.* `OneTurnAtATime` and `LiveTurnsMarked` prove `OneTurn` and
`LiveTurnMarkedRunning`, with any number of restarts and also with cancels, goals,
resumed agents that are saved, and sends that fail. The idea: the stored status is the
lock of the turn, although half of its writes are made without the session's lock.
`JobInv` is about the turn in memory: one goroutine hands over (`sendMu`), one resumes
the agent, and the finisher is at work only while the turn is finishing. `TurnInv` says
that at most one goroutine has the turn (`Alone`), none while the agent has it or its
end is not stored (`Live`); that meanwhile the row is running, or interrupted with the
recovery holding the lock (`Marked`); and that whoever loaded the row meanwhile loaded a
running one (`CopiesMarked`). The last part is what makes it inductive: a handler that
saves the whole row writes back the status it loaded, and a claimer decides by it.
The assumptions are `OneAtATime` (no `ext`, `steer`, `appendFail`, `cancelStored`) and
`NoActionResumed` (no actions, or no restarts); without any one of them TLC finds a
behaviour that breaks one of the two properties.

*The free thread.* `FreeThreadRunsItsQueue` proves `NoForgottenQueue` until the first
restart. `Steady` adds to `TurnInv` that a loaded status is the stored one
(`StatusFresh`), that running means somebody has the turn (`Settled`), and that idle with
prompts means somebody drains or claims (`QueueAttended`). It needs, besides
`OneAtATime` and `NoUnlockedSaves`, `TurnsRunOn`: no actions, goals, cancels or
failing direct sends. Each of these writes a status without the lock, or ends a turn
without a look at the queue; finding 3 and the hazards at `server/queue.go:329` and
`server/turn_completion.go:66` are the behaviours.

`TurnQueueLedger_proofs` proves what becomes of every prompt, and that `TurnQueue`
implements `ThreadQueue`, all under `NoUnlockedSaves`.

* The invariant `PromptsInv` says where each prompt is. It is in the stored queue
  or one goroutine has it, never both (`Owners`), never two goroutines (`Apart`); a
  goroutine has it on its way into the queue, when it is not acknowledged yet, or on
  its way to the agent. What reached the agent or was deleted is in neither (`Ledger`).
  The prompt of the stored turn may still be given to the agent (`Due`: it has fewer
  starts than `MostStarts` allows), and recovery resumes it only if nobody else has it
  (`Turns`, `Resumable`): without this a restart would be a second start. An action
  that has run stays the stored turn until `FinishAction`; a crash there adds one to
  `cut`, which makes it due again. Until the first restart an acknowledged prompt that was neither started
  nor deleted is somewhere (`Kept`).
* `NeverStartedTwice` (`StartedOnce`) holds with any number of restarts: one start for
  a prompt, one more for an action for each restart that found it claimed. `NoneIsLost`
  (`NoPromptLost`) and `NoSteerForgotten` (`PendingSteerAttended`) hold until the first
  restart: finding 2 loses a prompt at a restart, and nobody takes a pending steer off
  after one (`server/queue.go:464`). They need no assumption on who sends, steers,
  cancels or fails.
* `ClaimsTakeTheOldest` (`OldestFirst`) and `QueueKeepsPrompts` (`QueuedPromptKept`)
  follow step by step: only three actions take a prompt out of the queue (`QueueSteps`),
  each from a copy that is the stored queue.
* `ThreadPromisesKept` (`KeepsPromises`) is the refinement, for `MaxCrashes = 0`. By
  `Kept` and `Ledger`, what waits is decided by what was acknowledged, deleted and
  started alone (`WaitingInvariant`). So only the steps that change these matter
  (`LedgerSteps`); the rest starts or ends a turn, or is a stutter. That a prompt
  starts a turn only when none runs is `JobInv`.

The lemmas at the head of that module say what the operators on the lists do to the
prompts in them (`RemoveSet`, `InsertSet`, `PermutedSet` and others).

`AgentTurn_proofs` proves `TypeOK`, `EndsInOrder`, `QuestionsFollowTurn`,
`OneResponse` and `TurnCanEnd` for any number of turns, prompts, questions and cancels
and for both ways to steer. The invariant has four parts.

* `Typed` adds to `TypeOK` that a question in a goroutine's hands is still open.
* `TurnInv`: the turn that runs or is being finished is the newest one, and never
  both (`TurnNumbers`); a goroutine works for a turn that was started (`Carried`);
  at most one is between taking the turn off the job and closing `done`
  (`OneFinisher`), and it knows whether `TurnFinished` was called (`Finishing`).
  Without the last two, a second finisher could record the turn again or close `done`
  before the first has recorded it.
* `QuestionInv`: a question in the table belongs to the turn that runs, or to the one
  being finished while its questions are still to be taken (`Asked`); the transcript
  and the answers of a question follow its stage (`Lived`).
* `EndInv`: each call the job counts is carried by a goroutine of the turn
  (`CallsCarried`, by cardinality, since a hand-over only says that another call is
  left); once no call is left, a goroutine is ending the turn (`EndUnderWay`); only a
  hand-over that is due holds a steer, and nobody who has been sent is held (`Held`);
  while one is due and not nobody's, a prompt of the turn that owes it is past its hold
  (`HandoffDue`). The step that needs the last is `TakeForSteer`: the steer that takes
  the questions may be the only goroutine that was not held.

The steps that need all of the first three are `FinishTurn`, where the questions of a turn pass to
its finisher, and `Release`, where no second finisher can still owe them.

`Rooms_proofs` proves the three safety properties and `TypeOK` for any number of
members, posts, follow-ups and crashes, from the one invariant `DeliveryInv`. For
each member it says: what a delivery is handing over is unseen, and is all there is
up to its mark (`Handed`); what was shown beyond the seen position is either under
way, about to be stored, or was shown by a delivery that could not store it
(`KnownShown`, `SeenShown`); everything up to the position is covered (`Covered`); and
the two history properties themselves. The step that needs it most is `SaveSeen`: the
position jumps over posts this delivery did not carry, and `Covered` says that those
had been shown or passed before.

`Routines_proofs` proves five. `RunInv` adds to `TypeOK` that a run whose goroutine
has not recorded a thread of the run's own (`Threadless`) has none and is active unless
it was reset under it (`Tracked`: no user can have a turn in a thread that does not
exist yet), that goroutines of reset
runs exist only once the scheduler runs (`ResetIsOver`: a crash ends them, and it is
`AdvanceMissed` that resets), and the two properties (`Alone`, `RowAgrees`).
`OutcomesStay` is an action property and follows from `RunInv` action by action: only
`MarkRunning`, `Finish` and `FinishThread` write a status. `MarkRunning` and the
`Finish` of a bot's turn belong to a goroutine without a thread, whose run is active by
`Tracked`; `FinishThread` asks first; and a `Finish` after a failed send, which may meet
a run that a user's turn has closed, is what the property excepts.
`FireInv` says that messages of runs and of handlers are in `fired` (`Remembered`)
and that a message in a handler's hand is in no run's and no other handler's
(`Intended`); two connectors exclude each other through `fired` alone.

`Ingest_proofs` proves `TypeOK`, `PageAttended` and `DreamAttended` for any pages,
contacts and connectors, batches of any size and any number of dreams, records, failures
and crashes. `SourceQueue_proofs` has the lemmas about the queue they both use: what
`Mark`, `Reserve`, `Settle` and `Recover` do to a source that waits and to one that is
reserved. `PageInv` follows a page that is not what the raw files hold: it waits
(its source, or its contact's, is pending, owed by a connector or in `warned`) or
belongs to a source that is reserved and not handled (`Kept`); a page with messages is in
the index of its contact, or will be, or is in `warned` (`Planned`); nobody but the runner takes
its reservations away (`BatchHeld`), and what it is about to write is current or will
be built again (`Rebuilt`). `MemInv` does the same for the dreams. Marks carry the time of
the write (`Clock`), so a reservation made before a write is never the one that is settled
after it: a page is read, or queued, or its projection will be done again (`Watched`).

What stays with TLC. Liveness under fairness (`EveryCallerEnters`,
`EveryPromptStarts`, `ClaimedPromptResumes`, `CancelledTurnEnds`, `EveryPostArrives`,
`EveryRunEnds`, `EverythingIsRead`) is out of the provers' reach. Every other property of a passing
run is stated by a theorem, some under the conditions on the constants named above. No module has a recursive operator.

## 9. Not modelled

* `TurnDelivery` (`server/turn_completion.go`, `storage/sqlite/turns.go`): the
  delivery of a turn's result to the parent and to the bot that asked, in one
  transaction under several locks. Its hazards are listed without a property.
* A cancelled turn does not drain (`server/turn_completion.go:66`): prompts behind it
  wait for the next request. Nothing in the repository says what should happen, so
  no property is stated.
* Bots and their groups (`bots/service.go`): deleting or editing a bot reads a
  group's members, changes them and writes them back without a lock of its own.
* Everything else in `PROJECT.json` that is not modelled is I/O, rendering, wiring or
  records written by one transaction. It is most of the repository's lines: the
  HTTP routes, the generated database code, providers, desktop and browser control.
