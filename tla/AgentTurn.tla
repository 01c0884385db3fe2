----------------------------- MODULE AgentTurn -----------------------------
(***************************************************************************)
(* What goes on inside a turn of one live session (internal/acp): the      *)
(* calls that carry prompts to the agent, messages steered into the turn,  *)
(* the questions the agent asks on the way, cancels and the end.           *)
(*                                                                         *)
(* TurnQueue sees a turn only as running, cancelling and finishing, and    *)
(* says what that means for the stored row.  Here the row is left out, and *)
(* the goroutines that meet in jobState and in the table of pending        *)
(* questions are taken apart.                                              *)
(*                                                                         *)
(* A turn is a number; it stands for its channel done, which is closed     *)
(* when the job has neither as its turn nor as the turn it finishes.       *)
(***************************************************************************)
EXTENDS Naturals, Sequences

CONSTANTS
    Methods,       \* how the agent may be steered: "queueing", "native"
    Cancellers,    \* callers of Cancel, one call each
    MaxTurns,      \* bound: turns
    MaxPrompts,    \* bound: prompts sent or steered
    MaxQuestions,  \* bound: questions asked
    None           \* nobody holds turnMu

Turns == 1..MaxTurns
Prompts == 1..MaxPrompts
Questions == 1..MaxQuestions

ASSUME AgentTurnAssumption ==
    /\ Methods \subseteq {"queueing", "native"}
    /\ MaxTurns \in Nat /\ MaxPrompts \in Nat /\ MaxQuestions \in Nat
    /\ None \notin Prompts

VARIABLES
    method,    \* jobState.steerMethod
    job,       \* jobState: state, turn with its fields, finishing
    turnMu,    \* the prompt whose goroutine holds jobState.turnMu
    at,        \* prompt -> where its goroutine is
    task,      \* prompt -> what the goroutine works with
    pending,   \* Manager.pendingPermission: the questions somebody may take
    listed,    \* jobState.Permissions: the questions shown
    stage,     \* question -> where the goroutine of the agent's request is
    asked,     \* question -> the prompt it was asked in, and the turn then running
    answers,   \* question -> answers put into its channel
    log,       \* question -> its events in the transcript
    agent,     \* up or gone (torn down)
    cancel,    \* caller of Cancel -> where it is, and the turn it waits for
    recorded   \* turn -> how often TurnFinished was called for it

vars == <<method, job, turnMu, at, task, pending, listed, stage, asked,
          answers, log, agent, cancel, recorded>>

promptVars == <<turnMu, at, task>>
questionVars == <<pending, listed, stage, asked, answers, log>>

Places == {"unused", "queued", "ready", "agent", "complete", "failed", "failing",
           "finish", "clear", "clearing", "release", "discard",
           "checked", "reserved", "taking", "over"}

Task == [of : 0..MaxTurns, kind : {"first", "user", "hidden"}, hold : BOOLEAN,
         saw : BOOLEAN, taken : SUBSET Questions]

Open == {"registered", "waiting"}

\* Besides the shapes: a question that can be taken is open, and it is taken by one
\* goroutine only.
TypeOK ==
    /\ method \in Methods
    /\ job \in [turn : 0..MaxTurns, finishing : 0..MaxTurns, made : 0..MaxTurns,
                running : BOOLEAN, calls : Nat,
                cancelled : BOOLEAN, handoff : BOOLEAN, orphan : BOOLEAN,
                sent : BOOLEAN]
    /\ turnMu \in Prompts \cup {None}
    /\ at \in [Prompts -> Places]
    /\ task \in [Prompts -> Task]
    /\ pending \subseteq Questions
    /\ listed \subseteq Questions
    /\ stage \in [Questions -> {"none", "refused", "closed"} \cup Open]
    /\ asked \in [Questions -> [by : 0..MaxPrompts, turn : 0..MaxTurns]]
    /\ answers \in [Questions -> Nat]
    /\ log \in [Questions -> Seq({"request", "response"})]
    /\ agent \in {"up", "gone"}
    /\ cancel \in [Cancellers ->
           [at : {"new", "waiting", "marking", "back", "left"},
            turn : 0..MaxTurns]]
    /\ recorded \in [Turns -> Nat]
    /\ \A q \in pending : stage[q] \in Open
    /\ \A p \in Prompts : task[p].taken \cap pending = {}
    /\ \A p, r \in Prompts : p # r => task[p].taken \cap task[r].taken = {}

NoTask == [of |-> 0, kind |-> "first", hold |-> FALSE, saw |-> FALSE, taken |-> {}]
NoQuestion == [by |-> 0, turn |-> 0]

Init ==
    /\ method \in Methods
    /\ job = [turn |-> 0, finishing |-> 0, made |-> 0, running |-> FALSE, calls |-> 0,
              cancelled |-> FALSE, handoff |-> FALSE, orphan |-> FALSE, sent |-> FALSE]
    /\ turnMu = None
    /\ at = [p \in Prompts |-> "unused"]
    /\ task = [p \in Prompts |-> NoTask]
    /\ pending = {}
    /\ listed = {}
    /\ stage = [q \in Questions |-> "none"]
    /\ asked = [q \in Questions |-> NoQuestion]
    /\ answers = [q \in Questions |-> 0]
    /\ log = [q \in Questions |-> <<>>]
    /\ agent = "up"
    /\ cancel = [c \in Cancellers |-> [at |-> "new", turn |-> 0]]
    /\ recorded = [t \in Turns |-> 0]

\* The channel done of a turn is closed.
Ended(t) == t # job.turn /\ t # job.finishing

\* jobState.turnDone: the turn that is running or being finished, or none.
TurnDone == IF job.turn # 0 THEN job.turn ELSE job.finishing

\* Goroutines and requests are named in the order they come.
NextPrompt(p) == at[p] = "unused" /\ \A r \in Prompts : r < p => at[r] # "unused"
NextQuestion(q) == stage[q] = "none" /\ \A r \in Questions : r < q => stage[r] # "none"

Go(p, place) == at' = [at EXCEPT ![p] = place]

\* The goroutine of a prompt returns; runPrompt unlocks turnMu as it does.
Unlock(p) == turnMu' = IF turnMu = p THEN None ELSE turnMu

Return(p) ==
    /\ Go(p, "over")
    /\ Unlock(p)
    /\ task' = [task EXCEPT ![p] = NoTask]

----------------------------------------------------------------------------
\* A send (Manager.sendOnce, startTurnWithOperation, runPrompt).

Begun(t) == [job EXCEPT !.turn = t, !.made = t, !.running = TRUE, !.calls = 1,
                        !.cancelled = FALSE, !.handoff = FALSE, !.orphan = FALSE,
                        !.sent = FALSE]

\* The sender has seen, under sendMu, neither a turn nor one being finished, and an agent
\* that was alive (acquireSessionProcess).  A turn whose first
\* event cannot be stored fails at once.
StartTurn(p) ==
    /\ NextPrompt(p) /\ agent # "gone"
    /\ job.turn = 0 /\ job.finishing = 0 /\ job.made < MaxTurns
    /\ job' = Begun(job.made + 1)
    /\ listed' = {}
    /\ task' = [task EXCEPT ![p].of = job.made + 1]
    /\ \E place \in {"queued", "failed"} : Go(p, place)
    /\ UNCHANGED <<method, turnMu, pending, stage, asked, answers, log,
                   agent, cancel, recorded>>

\* runPrompt works for the turn it finds, which need not be the one it was started for,
\* and starts one when there is none.
RunPrompt(p) ==
    /\ at[p] = "queued" /\ turnMu = None
    /\ turnMu' = p
    /\ Go(p, IF agent = "gone" THEN "failing" ELSE "ready")
    /\ \/ /\ TurnDone # 0
          /\ task' = [task EXCEPT ![p].of = TurnDone]
          /\ UNCHANGED <<job, listed>>
       \/ /\ TurnDone = 0 /\ job.made < MaxTurns
          /\ task' = [task EXCEPT ![p].of = job.made + 1]
          /\ job' = Begun(job.made + 1)
          /\ listed' = {}
    /\ UNCHANGED <<method, pending, stage, asked, answers, log, agent,
                   cancel, recorded>>

\* runPromptCall or runNativeSteerCall, after the wait of runSteerCallAfterHandoff when it
\* is a steer.  A session/prompt call marks the first prompt of the turn as sent.
SendPrompt(p) ==
    /\ at[p] = "ready"
    /\ task[p].hold => Ended(task[p].of)
    /\ IF task[p].kind # "first" /\ Ended(task[p].of)
       THEN Return(p) /\ UNCHANGED job
       ELSE /\ Go(p, IF agent = "gone" THEN "failed" ELSE "agent")
            /\ LET marks == agent # "gone" /\ job.turn # 0
                            /\ (task[p].kind = "first" \/ method = "queueing")
               IN  job' = [job EXCEPT !.sent = @ \/ marks]
            /\ UNCHANGED <<turnMu, task>>
    /\ UNCHANGED <<method, questionVars, agent, cancel, recorded>>

----------------------------------------------------------------------------
\* The agent.

Mine(p) == job.turn = task[p].of /\ job.calls > 0

\* The agent answers its prompts in any order; it may leave a question open that it asked
\* there.  completePromptCall reads the cancel before it locks the job.
AgentEnds(p) ==
    /\ at[p] = "agent" /\ agent = "up"
    /\ Go(p, "complete")
    /\ task' = [task EXCEPT ![p].saw = Mine(p) /\ job.cancelled]
    /\ UNCHANGED <<method, job, turnMu, questionVars, agent, cancel, recorded>>

\* The call fails, as every call does when the connection ends.
AgentFails(p) ==
    /\ at[p] = "agent"
    /\ Go(p, "failed")
    /\ UNCHANGED <<method, job, turnMu, task, questionVars, agent, cancel, recorded>>

----------------------------------------------------------------------------
\* The end of a prompt and of the turn (completePromptCall, failPromptCall, finishTurn).

\* Mutant: the hand-over is forgotten, not made.
HandOffForgotten(p) ==
    /\ job' = [job EXCEPT !.calls = @ - 1, !.handoff = FALSE, !.orphan = FALSE]
    /\ Return(p)

\* Another prompt of the turn goes on: steers waiting for the hand-over are let go.
HandOff(p) ==
    /\ job' = [job EXCEPT !.calls = @ - 1, !.handoff = FALSE, !.orphan = FALSE]
    /\ task' = [r \in Prompts |->
           CASE r = p -> NoTask
             [] r # p /\ task[r].of = job.turn -> [task[r] EXCEPT !.hold = FALSE]
             [] OTHER -> task[r]]
    /\ Go(p, "over")
    /\ Unlock(p)

\* Idle, cancelled or failed: here it only matters that the job runs no longer.
EndCalls(p) ==
    /\ job' = [job EXCEPT !.calls = 0, !.running = FALSE]
    /\ Go(p, "finish")
    /\ UNCHANGED <<turnMu, task>>

Complete(p) ==
    /\ at[p] = "complete"
    /\ \/ ~Mine(p) /\ Return(p) /\ UNCHANGED job
       \/ Mine(p) /\ job.calls > 1 /\ ~task[p].saw /\ HandOff(p)
       \/ Mine(p) /\ (job.calls = 1 \/ task[p].saw) /\ EndCalls(p)
    /\ UNCHANGED <<method, questionVars, agent, cancel, recorded>>

Fail(p) ==
    /\ at[p] = "failed"
    /\ \/ ~Mine(p) /\ Return(p) /\ UNCHANGED job
       \/ /\ Mine(p) /\ Go(p, "failing") /\ UNCHANGED <<turnMu, task>>
          /\ job' = [job EXCEPT !.calls = 0]
    /\ UNCHANGED <<method, questionVars, agent, cancel, recorded>>

FailTurn(p) ==
    /\ at[p] = "failing"
    /\ job' = [job EXCEPT !.running = FALSE]
    /\ Go(p, "finish")
    /\ UNCHANGED <<method, turnMu, task, questionVars, agent, cancel, recorded>>

\* Mutant: the turn that is being finished is not kept.
FinishTurnAtOnce(p) ==
    /\ at[p] = "finish"
    /\ IF job.turn # task[p].of
       THEN Return(p) /\ UNCHANGED job
       ELSE /\ job' = [job EXCEPT !.turn = 0, !.calls = 0, !.cancelled = FALSE,
                                  !.handoff = FALSE, !.orphan = FALSE, !.sent = FALSE]
            /\ Go(p, "clear") /\ UNCHANGED <<turnMu, task>>
    /\ UNCHANGED <<method, questionVars, agent, cancel, recorded>>

FinishTurn(p) ==
    /\ at[p] = "finish"
    /\ IF job.turn # task[p].of
       THEN Return(p) /\ UNCHANGED job
       ELSE /\ job' = [job EXCEPT !.finishing = job.turn, !.turn = 0, !.calls = 0,
                                  !.cancelled = FALSE, !.handoff = FALSE, !.orphan = FALSE,
                                  !.sent = FALSE]
            /\ Go(p, "clear") /\ UNCHANGED <<turnMu, task>>
    /\ UNCHANGED <<method, questionVars, agent, cancel, recorded>>

\* takePendingPermissionsLocked.
ClearQuestions(p) ==
    /\ at[p] = "clear"
    /\ task' = [task EXCEPT ![p].taken = pending]
    /\ pending' = {}
    /\ Go(p, "clearing")
    /\ UNCHANGED <<method, job, turnMu, listed, stage, asked, answers, log,
                   agent, cancel, recorded>>

\* TurnFinished stores the result and wakes the queue.
Callback(p) ==
    /\ at[p] = "clearing" /\ task[p].taken = {}
    /\ recorded' = [recorded EXCEPT ![task[p].of] = @ + 1]
    /\ Go(p, "release")
    /\ UNCHANGED <<method, job, turnMu, task, questionVars, agent, cancel>>

Release(p) ==
    /\ at[p] = "release"
    /\ job' = [job EXCEPT !.finishing = 0]
    /\ Go(p, "discard")
    /\ UNCHANGED <<method, turnMu, task, questionVars, agent, cancel, recorded>>

\* Mutant: without looking for a new turn.
DiscardAlways(p) ==
    /\ at[p] = "discard"
    /\ listed' = {}
    /\ Return(p)
    /\ UNCHANGED <<method, job, pending, stage, asked, answers, log, agent, cancel,
                   recorded>>

\* discardTurnResult: a new turn may have started.
Discard(p) ==
    /\ at[p] = "discard"
    /\ listed' = IF job.turn = 0 /\ ~job.running THEN {} ELSE listed
    /\ Return(p)
    /\ UNCHANGED <<method, job, pending, stage, asked, answers, log,
                   agent, cancel, recorded>>

----------------------------------------------------------------------------
\* A steer (Manager.Steer, reserveSteer, cancelPendingPermissionsForSteer).

\* A hidden message is not to supersede a question.
CheckSteer(p) ==
    /\ NextPrompt(p) /\ agent # "gone"
    /\ job.turn # 0 /\ job.running
    /\ \E kind \in {"user", "hidden"} :
           /\ kind = "hidden" => listed = {}
           /\ task' = [task EXCEPT ![p].of = job.turn, ![p].kind = kind]
    /\ Go(p, "checked")
    /\ UNCHANGED <<method, job, turnMu, questionVars, agent, cancel, recorded>>

\* After waitFirstPromptSent.  The turn that is reserved is the one running now.
Reserve(p) ==
    /\ at[p] = "checked"
    /\ job.turn # task[p].of \/ job.sent
    /\ \/ Return(p) /\ UNCHANGED job
       \/ /\ job.turn # 0 /\ job.calls > 0 /\ job.running /\ agent # "gone"
          /\ job' = [job EXCEPT !.calls = @ + 1]
          /\ task' = [task EXCEPT ![p].of = job.turn]
          /\ Go(p, "reserved") /\ UNCHANGED turnMu
    /\ UNCHANGED <<method, questionVars, agent, cancel, recorded>>

\* A user's steer takes the open questions and waits for the prompt that asked them to hand
\* over.  That prompt may have been answered already, or belong to a turn that ended: the
\* job remembers that the hand-over may be nobody's (orphan, not in the code).
TakeForSteer(p) ==
    /\ at[p] = "reserved" /\ task[p].kind = "user"
    /\ LET current == job.turn = task[p].of
           hold == current /\ (job.handoff \/ pending # {})
           late(q) == at[asked[q].by] # "agent" \/ task[asked[q].by].of # job.turn
       IN  /\ job' = IF current
                     THEN [job EXCEPT !.handoff = hold,
                                      !.orphan = @ \/ \E q \in pending : late(q)]
                     ELSE job
           /\ task' = [task EXCEPT ![p].taken = pending, ![p].hold = hold]
    /\ pending' = {}
    /\ Go(p, IF pending = {} THEN "ready" ELSE "taking")
    /\ UNCHANGED <<method, turnMu, listed, stage, asked, answers, log,
                   agent, cancel, recorded>>

\* A hidden one only waits for a hand-over others wait for (currentPromptHandoff).
WaitForHandoff(p) ==
    /\ at[p] = "reserved" /\ task[p].kind = "hidden"
    /\ task' = [task EXCEPT ![p].hold = job.turn = task[p].of /\ job.handoff]
    /\ Go(p, "ready")
    /\ UNCHANGED <<method, job, turnMu, questionVars, agent, cancel, recorded>>

QuestionsTaken(p) ==
    /\ at[p] = "taking" /\ task[p].taken = {}
    /\ Go(p, "ready")
    /\ UNCHANGED <<method, job, turnMu, task, questionVars, agent, cancel, recorded>>

----------------------------------------------------------------------------
\* A question (awaitPermissionAnswer, AnswerInteractive, cancelPendingPermissionList).

\* hasQueuedPromptSuccessor: a steered prompt waits behind the one that asks.
HasSuccessor == method = "queueing" /\ job.turn # 0 /\ job.calls > 1

Register(q, p) ==
    /\ NextQuestion(q) /\ at[p] = "agent"
    /\ \/ /\ HasSuccessor
          /\ stage' = [stage EXCEPT ![q] = "refused"]
          /\ UNCHANGED <<asked, pending>>
       \/ /\ ~HasSuccessor
          /\ asked' = [asked EXCEPT ![q] = [by |-> p, turn |-> job.turn]]
          /\ stage' = [stage EXCEPT ![q] = "registered"]
          /\ pending' = pending \cup {q}
    /\ UNCHANGED <<method, job, promptVars, listed, answers, log, agent,
                   cancel, recorded>>

Show(q) == listed' = listed \cup {q} /\ log' = [log EXCEPT ![q] = Append(@, "request")]

Hide(q) == listed' = listed \ {q} /\ log' = [log EXCEPT ![q] = Append(@, "response")]

\* The request returns to the agent.
Close(q) ==
    /\ stage' = [stage EXCEPT ![q] = "closed"]
    /\ asked' = [asked EXCEPT ![q] = NoQuestion]

Publish(q) ==
    /\ stage[q] = "registered"
    /\ Show(q)
    /\ stage' = [stage EXCEPT ![q] = "waiting"]
    /\ UNCHANGED <<method, job, promptVars, pending, asked, answers, agent, cancel,
                   recorded>>

\* Mutant: a question that is gone from the table is withdrawn as well.
WithdrawTaken(q) ==
    /\ stage[q] = "waiting"
    /\ pending' = pending \ {q}
    /\ Hide(q) /\ Close(q)
    /\ UNCHANGED <<method, job, promptVars, answers, agent, cancel, recorded>>

\* Mutant: a withdrawn question stays in the table.
WithdrawKept(q) ==
    /\ stage[q] = "waiting" /\ q \in pending
    /\ Hide(q) /\ Close(q)
    /\ UNCHANGED <<method, job, promptVars, pending, answers, agent, cancel, recorded>>

\* The request's context ends: it takes the question itself.  One that somebody else has
\* taken is owed an answer and waits for it.
Withdraw(q) ==
    /\ stage[q] = "waiting" /\ q \in pending
    /\ pending' = pending \ {q}
    /\ Hide(q) /\ Close(q)
    /\ UNCHANGED <<method, job, promptVars, answers, agent, cancel, recorded>>

Put(q) == answers' = [answers EXCEPT ![q] = @ + 1]

\* AnswerInteractive; a question nobody was shown has no id to answer by.
Answer(q) ==
    /\ stage[q] = "waiting" /\ q \in pending /\ agent # "gone"
    /\ pending' = pending \ {q}
    /\ Hide(q) /\ Put(q) /\ Close(q)
    /\ UNCHANGED <<method, job, promptVars, agent, cancel, recorded>>

\* Waits until the question was published; without a job nothing is shown any more.
CloseQuestion(p, q) ==
    /\ q \in task[p].taken /\ stage[q] # "registered"
    /\ IF agent = "gone" THEN UNCHANGED <<listed, log>> ELSE Hide(q)
    /\ Put(q) /\ Close(q)
    /\ task' = [task EXCEPT ![p].taken = @ \ {q}]
    /\ UNCHANGED <<method, job, turnMu, at, pending, agent, cancel, recorded>>

----------------------------------------------------------------------------
\* Manager.Cancel.

RequestCancel(c) ==
    /\ cancel[c].at = "new" /\ agent # "gone"
    /\ job.running /\ TurnDone # 0
    /\ job' = [job EXCEPT !.cancelled = job.turn # 0]
    /\ cancel' = [cancel EXCEPT ![c] = [at |-> "waiting", turn |-> TurnDone]]
    /\ UNCHANGED <<method, promptVars, questionVars, agent, recorded>>

CancelGoes(c, from, to) ==
    /\ cancel[c].at = from
    /\ cancel' = [cancel EXCEPT ![c] = [at |-> to, turn |-> IF to = "left" THEN 0 ELSE @.turn]]

CancelReturns(c) ==
    /\ CancelGoes(c, "waiting", "back") /\ Ended(cancel[c].turn)
    /\ UNCHANGED <<method, job, promptVars, questionVars, agent, recorded>>

\* The caller's context ends.
CancelLeaves(c) ==
    /\ CancelGoes(c, "waiting", "left")
    /\ UNCHANGED <<method, job, promptVars, questionVars, agent, recorded>>

\* Mutant: the process goes on.
TeardownNothing(c) ==
    /\ CancelGoes(c, "waiting", "marking")
    /\ UNCHANGED <<method, job, promptVars, questionVars, agent, recorded>>

\* Five seconds are over: the process is torn down.
Teardown(c) ==
    /\ CancelGoes(c, "waiting", "marking")
    /\ agent' = "gone"
    /\ UNCHANGED <<method, job, promptVars, questionVars, recorded>>

MarkCancelled(c) ==
    /\ CancelGoes(c, "marking", "back")
    /\ job' = [job EXCEPT !.running = FALSE]
    /\ UNCHANGED <<method, promptVars, questionVars, agent, recorded>>

----------------------------------------------------------------------------
\* What the goroutine of a prompt does on its own.
PromptStep(p) ==
    \/ RunPrompt(p) \/ SendPrompt(p) \/ Complete(p) \/ Fail(p) \/ FailTurn(p) \/ FinishTurn(p)
    \/ ClearQuestions(p) \/ Callback(p) \/ Release(p) \/ Discard(p)
    \/ TakeForSteer(p) \/ WaitForHandoff(p) \/ QuestionsTaken(p)
    \/ \E q \in Questions : CloseQuestion(p, q)

CancelStep(c) == CancelReturns(c) \/ Teardown(c) \/ MarkCancelled(c)

Next ==
    \/ \E p \in Prompts :
          \/ StartTurn(p) \/ PromptStep(p)
          \/ AgentEnds(p) \/ AgentFails(p) \/ CheckSteer(p) \/ Reserve(p)
          \/ \E q \in Questions : Register(q, p)
    \/ \E q \in Questions :
          \/ Publish(q) \/ Withdraw(q) \/ Answer(q)
    \/ \E c \in Cancellers : RequestCancel(c) \/ CancelLeaves(c) \/ CancelStep(c)

\* The goroutines run, calls to an agent that is gone return, and the timer of a cancel
\* fires.  An agent that is up owes nothing.
Fairness ==
    /\ \A p \in Prompts : WF_vars(PromptStep(p) \/ (agent = "gone" /\ AgentFails(p)))
    /\ \A q \in Questions : WF_vars(Publish(q))
    /\ \A c \in Cancellers : WF_vars(CancelStep(c))

Spec == Init /\ [][Next]_vars /\ Fairness

----------------------------------------------------------------------------
\* A turn that runs has a prompt that can end it: one on its way to the agent or back, not
\* only steers that wait for a hand-over; except one that is nobody's (orphan).
TurnCanEnd ==
    job.turn # 0 /\ ~job.orphan =>
        \E p \in Prompts :
            \/ at[p] = "queued"
            \/ task[p].of = job.turn /\ at[p] # "checked" /\ ~task[p].hold

\* Turns end in order: done is closed, and the next turn starts, only after TurnFinished
\* was called for the turn, once.
EndsInOrder ==
    \A t \in Turns :
        /\ recorded[t] <= 1
        /\ t <= job.made /\ Ended(t) => recorded[t] = 1

\* A question that waits for the user follows its turn: it is shown while the turn runs,
\* and it can no longer be answered once the turn's done is closed.
QuestionsFollowTurn ==
    \A q \in pending :
        LET turn == asked[q].turn
        IN  turn # 0 =>
               /\ ~Ended(turn)
               /\ stage[q] = "waiting" /\ turn = job.turn => q \in listed

\* Whatever closes a question first, a user, a steer, the end of the turn or its own
\* context: the transcript gets one response after the request, the agent one answer.
OneResponse ==
    \A q \in Questions :
        /\ log[q] \in {<<>>, <<"request">>, <<"request", "response">>}
        /\ answers[q] <= 1
        /\ stage[q] = "closed" /\ agent = "up" =>
               q \notin listed /\ log[q] = <<"request", "response">>

\* A cancelled turn ends, whatever the agent does, unless the caller gives up waiting or
\* a steer waits for a hand-over that is nobody's.
CancelledTurnEnds ==
    \A c \in Cancellers :
        cancel[c].at = "waiting" ~>
            Ended(cancel[c].turn) \/ cancel[c].at = "left" \/ job.orphan
=============================================================================
