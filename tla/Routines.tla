------------------------------ MODULE Routines ------------------------------
(***************************************************************************)
(* Routines ("loops"): prompts that run on a schedule, on request or when  *)
(* a message arrives (internal/loops, the executor in server/              *)
(* loop_executor.go and the start order of cmd/jaz/serve.go).              *)
(*                                                                         *)
(* Every operation of the service holds its mutex and writes the loop and  *)
(* the run in one transaction, so it is one action.  What is not one       *)
(* action is a run's life: the service stores it as starting, a goroutine  *)
(* of the executor spawns a thread, marks it running and sends the prompt, *)
(* and the end of the agent's turn finishes it.  A routine that lives in a *)
(* bot's thread runs there and is finished by the goroutine itself.        *)
(*                                                                         *)
(* Times are abstracted to what the code asks of NextRunAt: it is not set, *)
(* it is later than now, or it has passed.                                 *)
(***************************************************************************)
EXTENDS Naturals, Sequences, FiniteSets

CONSTANTS
    Loops,       \* the routines that may exist
    Messages,    \* incoming messages a trigger may match
    Handlers,    \* connector goroutines that call HandleIncoming
    Nothing,     \* a handler fires no routine
    MaxRuns,     \* bound: runs of all routines
    MaxEdits,    \* bound: updates and deletions
    MaxCrashes   \* bound: crashes of the server

\* The memory of fired triggers is emptied beyond 10000 entries; the model stays
\* below.
ASSUME RoutineAssumption ==
    /\ Nothing \notin Loops
    /\ MaxRuns \in Nat /\ MaxEdits \in Nat /\ MaxCrashes \in Nat
    /\ Cardinality(Loops) * Cardinality(Messages) <= 10000

VARIABLES
    loop,     \* routine -> its row
    runs,     \* routine -> the rows of its runs, oldest first
    exec,     \* routine -> for each run, where its executor goroutine is, and the
              \* messages the goroutine was given
    server,   \* down, serving (HTTP only) or scheduling
    fired,    \* Service.fired: routine and message pairs
    hear,     \* connector goroutine -> its call of HandleIncoming
    \* Not in the program:
    reset,    \* runs AdvanceMissed closed while their executor was at work
    edits,
    crashes

vars == <<loop, runs, exec, server, fired, hear, reset, edits, crashes>>

runVars == <<runs, exec>>
historyVars == <<reset, edits, crashes>>

Active(run) == run.status \in {"starting", "running"}
HasActiveRun(l) == \E n \in DOMAIN runs[l] : Active(runs[l][n])
Ended == {"ok", "error"}   \* "cancelled" is treated like them
Up == server # "down"

NoLoop == [status |-> "none", event |-> FALSE, next |-> "none",
           lastRun |-> 0, lastStatus |-> "none"]
Quiet == [batch |-> {}, todo |-> {}, loop |-> Nothing, events |-> {}]

RunStatus == {"starting", "running", "skipped"} \cup Ended
Row == [status : {"none", "active", "paused", "deleted"}, event : BOOLEAN,
        next : {"none", "later", "due"}, lastRun : Nat,
        lastStatus : RunStatus \cup {"none"}]
RunRow == [status : RunStatus, thread : BOOLEAN]
Goroutine == [at : {"spawn", "mark", "send", "turn", "ask", "bot", "fail", "gone"},
              events : SUBSET Messages]
Hearing == [batch : SUBSET Messages, todo : SUBSET Loops,
            loop : Loops \cup {Nothing}, events : SUBSET Messages]

\* The runs of all routines.
AllRuns == UNION {{l} \X DOMAIN runs[l] : l \in Loops}

\* Besides the shapes: every run has its entry in exec, the last run a routine's row
\* names exists, a routine that does not exist has none, and one that was deleted or
\* waits for events has no next run.
TypeOK ==
    /\ loop \in [Loops -> Row]
    /\ runs \in [Loops -> Seq(RunRow)]
    /\ exec \in [Loops -> Seq(Goroutine)]
    /\ \A l \in Loops :
         /\ Len(exec[l]) = Len(runs[l])
         /\ loop[l].lastRun <= Len(runs[l])
         /\ loop[l].status = "none" => runs[l] = << >>
         /\ loop[l].status \in {"none", "deleted"} \/ loop[l].event => loop[l].next = "none"
    /\ server \in {"down", "serving", "scheduling"}
    /\ fired \subseteq Loops \X Messages
    /\ hear \in [Handlers -> Hearing]
    /\ reset \subseteq AllRuns
    /\ edits \in 0..MaxEdits
    /\ crashes \in 0..MaxCrashes

Init ==
    /\ loop = [l \in Loops |-> NoLoop]
    /\ runs = [l \in Loops |-> << >>]
    /\ exec = [l \in Loops |-> << >>]
    /\ server = "serving"
    /\ fired = {}
    /\ hear = [h \in Handlers |-> Quiet]
    /\ reset = {}
    /\ edits = 0
    /\ crashes = 0

-----------------------------------------------------------------------------
\* The routine's row

\* NextRun: a cron schedule's next time lies ahead, an event schedule has none.
NextRun(event) == IF event THEN "none" ELSE "later"

Create(l, status, event) ==
    /\ Up
    /\ loop[l].status = "none"
    /\ loop' = [loop EXCEPT ![l] = [NoLoop EXCEPT !.status = status, !.event = event,
                                                  !.next = NextRun(event)]]
    /\ UNCHANGED <<runVars, server, fired, hear, historyVars>>

Edit == edits < MaxEdits /\ edits' = edits + 1

\* An update may change the status, or give another schedule.  The next run is set
\* anew with a schedule, when a paused routine becomes active, and when an active
\* one has none.
Update(l, status, newSchedule, event) ==
    /\ Up
    /\ loop[l].status \in {"active", "paused"}
    /\ newSchedule \/ event = loop[l].event
    /\ LET reschedule == \/ newSchedule
                         \/ loop[l].status = "paused" /\ status = "active"
                         \/ status = "active" /\ loop[l].next = "none"
       IN  loop' = [loop EXCEPT ![l].status = status, ![l].event = event,
                        ![l].next = IF reschedule THEN NextRun(event) ELSE @]
    /\ Edit
    /\ UNCHANGED <<runVars, server, fired, hear, reset, crashes>>

\* A deletion that only sets the status.
DeleteKeepingNext(l) ==
    /\ Up
    /\ loop[l].status \in {"active", "paused"}
    /\ loop' = [loop EXCEPT ![l].status = "deleted"]
    /\ Edit
    /\ UNCHANGED <<runVars, server, fired, hear, reset, crashes>>

Delete(l) ==
    /\ Up
    /\ loop[l].status \in {"active", "paused"}
    /\ loop' = [loop EXCEPT ![l].status = "deleted", ![l].next = "none"]
    /\ Edit
    /\ UNCHANGED <<runVars, server, fired, hear, reset, crashes>>

\* The bound on runs leaves room for the runs that are due.
Room == Cardinality(AllRuns) + Cardinality({l \in Loops : loop[l].next = "due"}) < MaxRuns

\* The time a routine is scheduled for passes, whether the server is up or not.
TimePasses(l) ==
    /\ loop[l].next = "later"
    /\ Room
    /\ loop' = [loop EXCEPT ![l].next = "due"]
    /\ UNCHANGED <<runVars, server, fired, hear, historyVars>>

-----------------------------------------------------------------------------
\* Starting runs

NewRun == [status |-> "starting", thread |-> FALSE]
SkippedRun == [status |-> "skipped", thread |-> FALSE]

\* The executor goroutine of a new run: it spawns a thread for the run, or asks for a
\* turn in the thread of the routine's bot.  And the goroutine that is no more.
Goroutines(events) == [at : {"spawn", "ask"}, events : {events}]
NoGoroutine == [at |-> "gone", events |-> {}]

\* A run is stored without a look at the ones that exist.
StartBesides(l, events) ==
    /\ loop[l].status \in {"active", "paused"}
    /\ runs' = [runs EXCEPT ![l] = Append(@, NewRun)]
    /\ \E g \in Goroutines(events) : exec' = [exec EXCEPT ![l] = Append(@, g)]
    /\ loop' = [loop EXCEPT ![l].lastRun = Len(runs[l]) + 1, ![l].lastStatus = "starting"]

\* startManualRunLocked stores the run and names it in the routine's row; start
\* hands it to a goroutine.
StartManual(l, events) ==
    /\ loop[l].status \in {"active", "paused"}
    /\ ~HasActiveRun(l)
    /\ runs' = [runs EXCEPT ![l] = Append(@, NewRun)]
    /\ \E g \in Goroutines(events) : exec' = [exec EXCEPT ![l] = Append(@, g)]
    /\ loop' = [loop EXCEPT ![l].lastRun = Len(runs[l]) + 1, ![l].lastStatus = "starting"]

\* A user runs the routine now, or its webhook is called.
RunNow(l) ==
    /\ Up /\ Room
    /\ StartManual(l, {})
    /\ UNCHANGED <<server, fired, hear, historyVars>>

Due == {l \in Loops : loop[l].status = "active" /\ loop[l].next = "due"}

\* StartDue looks through the due routines, oldest first.  One whose last run is
\* still active gets a skipped run and waits for its next time; the first other one
\* is started and ends the look.
StartDue ==
    /\ server = "scheduling"
    /\ Due # {}
    /\ LET busy == {l \in Due : HasActiveRun(l)} IN
       \E skipped \in SUBSET busy, started \in SUBSET (Due \ busy), g \in Goroutines({}) :
         /\ Cardinality(started) = IF Due = busy THEN 0 ELSE 1
         /\ started = {} => skipped = busy
         /\ runs' = [l \in Loops |->
                IF l \in skipped THEN Append(runs[l], SkippedRun)
                ELSE IF l \in started THEN Append(runs[l], NewRun)
                ELSE runs[l]]
         /\ exec' = [l \in Loops |->
                IF l \in skipped THEN Append(exec[l], NoGoroutine)
                ELSE IF l \in started THEN Append(exec[l], g)
                ELSE exec[l]]
         /\ loop' = [l \in Loops |->
                IF l \in skipped \cup started
                THEN [loop[l] EXCEPT !.next = "later", !.lastRun = Len(runs[l]) + 1,
                        !.lastStatus = IF l \in skipped THEN "skipped" ELSE "starting"]
                ELSE loop[l]]
    /\ UNCHANGED <<server, fired, hear, historyVars>>

-----------------------------------------------------------------------------
\* Triggers

\* HandleIncoming is called with a batch of recent messages and lists the active
\* routines that wait for events; without one it has nothing to do.
HandleIncoming(h, batch) ==
    LET listening == {l \in Loops : loop[l].status = "active" /\ loop[l].event} IN
    /\ Up
    /\ hear[h] = Quiet
    /\ batch # {} /\ listening # {}
    /\ hear' = [hear EXCEPT ![h] = [Quiet EXCEPT !.batch = batch, !.todo = listening]]
    /\ UNCHANGED <<loop, runVars, server, fired, historyVars>>

\* The handler after it dealt with routine l.
Heard(h, l) ==
    IF hear[h].todo = {l} THEN Quiet
    ELSE [hear[h] EXCEPT !.todo = @ \ {l}, !.loop = Nothing, !.events = {}]

\* The messages of a batch fire a routine whether it heard of them or not.
SightAgain(h, l) ==
    /\ hear[h].loop = Nothing
    /\ l \in hear[h].todo
    /\ hear' = [hear EXCEPT ![h].loop = l, ![h].events = hear[h].batch]
    /\ UNCHANGED <<loop, runVars, server, fired, historyVars>>

\* firstSighting, for the messages of the batch: those the routine has not fired for
\* are remembered as fired.  (The lock is taken for each message: two handlers can
\* divide a batch between them, as if each had been called with its part.)
FirstSighting(h, l) ==
    /\ hear[h].loop = Nothing
    /\ l \in hear[h].todo
    /\ LET new == {m \in hear[h].batch : <<l, m>> \notin fired}
       IN  /\ hear' = [hear EXCEPT ![h] =
                IF new = {} THEN Heard(h, l) ELSE [@ EXCEPT !.loop = l, !.events = new]]
           /\ fired' = fired \cup ({l} \X new)
    /\ UNCHANGED <<loop, runVars, server, historyVars>>

\* RunTriggered.  A routine that was deleted meanwhile or has an active run is not
\* started; its messages stay remembered.
Trigger(h) ==
    LET l == hear[h].loop IN
    /\ l # Nothing
    /\ \/ Room /\ StartManual(l, hear[h].events)
       \/ /\ ~(Room /\ loop[l].status \in {"active", "paused"} /\ ~HasActiveRun(l))
          /\ UNCHANGED <<loop, runVars>>
    /\ hear' = [hear EXCEPT ![h] = Heard(h, l)]
    /\ UNCHANGED <<server, fired, historyVars>>

-----------------------------------------------------------------------------
\* A run's life

\* The routine's row follows the run that changes, whichever run that is.
FollowAnyRun(l, n, status) ==
    IF loop[l].status = "none" THEN loop ELSE [loop EXCEPT ![l].lastStatus = status]

\* loopUpdateForRunLocked: the row follows the run it names as its last.
FollowRun(l, n, status) ==
    IF loop[l].lastRun # n THEN loop ELSE [loop EXCEPT ![l].lastStatus = status]

\* saveRunAndLoopUpdateLocked after the run's status was set.
SaveRun(l, n, status) ==
    /\ runs' = [runs EXCEPT ![l][n].status = status]
    /\ loop' = FollowRun(l, n, status)

\* Spawn gives the run a thread of its own, or fails.
SpawnThread(l, n) ==
    /\ n \in DOMAIN exec[l] /\ exec[l][n].at = "spawn"
    /\ \E step \in {"mark", "fail"} : exec' = [exec EXCEPT ![l][n].at = step]
    /\ UNCHANGED <<loop, runs, server, fired, hear, historyVars>>

\* MarkRunning does not look at the status the run has.  A run in the bot's thread is
\* marked without a thread of its own.
MarkRunning(l, n) ==
    /\ n \in DOMAIN exec[l] /\ exec[l][n].at \in {"mark", "ask"}
    /\ LET own == exec[l][n].at = "mark"
       IN  /\ runs' = [runs EXCEPT ![l][n].status = "running", ![l][n].thread = own]
           /\ exec' = [exec EXCEPT ![l][n].at = IF own THEN "send" ELSE "bot"]
    /\ loop' = FollowRun(l, n, "running")
    /\ UNCHANGED <<server, fired, hear, historyVars>>

\* The prompt is sent: the turn runs, or the send fails.
SendPrompt(l, n) ==
    /\ n \in DOMAIN exec[l] /\ exec[l][n].at = "send"
    /\ \E step \in {"turn", "fail"} : exec' = [exec EXCEPT ![l][n].at = step]
    /\ UNCHANGED <<loop, runs, server, fired, hear, historyVars>>

\* Finish, called by the executor: after a failure, or when the turn in the bot's
\* thread has ended.  It does not look at the status the run has either.
Finish(l, n, status) ==
    /\ n \in DOMAIN exec[l]
    /\ \/ exec[l][n].at = "fail" /\ status = "error"
       \/ exec[l][n].at = "bot"
    /\ SaveRun(l, n, status)
    /\ exec' = [exec EXCEPT ![l][n].at = "gone"]
    /\ UNCHANGED <<server, fired, hear, historyVars>>

\* After the run's turn its goroutine has nothing left to do; a user's turn in the
\* thread leaves the goroutine where it is.
AfterTurn(l, n) == [exec EXCEPT ![l][n].at = IF @ = "turn" THEN "gone" ELSE @]

\* A turn of the run's own thread closes the run whatever its status.
FinishThreadAgain(l, n, status) ==
    /\ Up
    /\ n \in DOMAIN runs[l] /\ runs[l][n].thread
    /\ exec' = AfterTurn(l, n)
    /\ SaveRun(l, n, status)
    /\ UNCHANGED <<server, fired, hear, historyVars>>

\* TurnFinished of the run's own thread: the turn of the run, or one a user started
\* there, before the executor has sent the prompt or later.  Only a run that is still
\* active is closed.
FinishThread(l, n, status) ==
    /\ Up
    /\ n \in DOMAIN runs[l] /\ runs[l][n].thread
    /\ exec' = AfterTurn(l, n)
    /\ IF Active(runs[l][n]) THEN SaveRun(l, n, status) ELSE UNCHANGED <<loop, runs>>
    /\ UNCHANGED <<server, fired, hear, historyVars>>

-----------------------------------------------------------------------------
\* Restarts

Crash ==
    /\ Up
    /\ crashes < MaxCrashes
    /\ crashes' = crashes + 1
    /\ server' = "down"
    /\ exec' = [l \in Loops |-> [n \in DOMAIN exec[l] |-> NoGoroutine]]
    /\ hear' = [h \in Handlers |-> Quiet]
    /\ fired' = {}
    /\ UNCHANGED <<loop, runs, reset, edits>>

\* The listener is open before the scheduler runs.
Serve ==
    /\ server = "down"
    /\ server' = "serving"
    /\ UNCHANGED <<loop, runVars, fired, hear, historyVars>>

\* The routines that were due move on to their next time.
Advanced(l) == IF l \in Due THEN [loop[l] EXCEPT !.next = "later"] ELSE loop[l]

\* AdvanceMissed without the reset of the runs.
AdvanceDueOnly ==
    /\ server = "serving"
    /\ server' = "scheduling"
    /\ loop' = [l \in Loops |-> Advanced(l)]
    /\ UNCHANGED <<runVars, fired, hear, historyVars>>

\* AdvanceMissed: every run that is active, also one that was started since the
\* server listens, becomes an error, and what was due is not caught up on.
AdvanceMissed ==
    /\ server = "serving"
    /\ server' = "scheduling"
    /\ runs' = [l \in Loops |-> [n \in DOMAIN runs[l] |->
            IF Active(runs[l][n]) THEN [runs[l][n] EXCEPT !.status = "error"]
            ELSE runs[l][n]]]
    /\ loop' = [l \in Loops |->
            LET n == loop[l].lastRun
            IN  IF n # 0 /\ Active(runs[l][n])
                THEN [Advanced(l) EXCEPT !.lastStatus = "error"] ELSE Advanced(l)]
    /\ reset' = {r \in AllRuns :
            Active(runs[r[1]][r[2]]) /\ exec[r[1]][r[2]].at # "gone"}
    /\ UNCHANGED <<exec, fired, hear, edits, crashes>>

-----------------------------------------------------------------------------
\* The executor's and the agent's next step for run n of l.
RunStep(l, n) ==
    \/ SpawnThread(l, n) \/ MarkRunning(l, n) \/ SendPrompt(l, n)
    \/ \E status \in Ended : Finish(l, n, status)
    \/ \E status \in Ended : FinishThread(l, n, status) /\ exec[l][n].at = "turn"

\* A user's turn in the thread of run n ends.
UsersTurn(l, n) ==
    \E status \in Ended : FinishThread(l, n, status) /\ exec[l][n].at # "turn"

Next ==
    \/ \E l \in Loops :
         \/ \E status \in {"active", "paused"}, event \in BOOLEAN :
              \/ Create(l, status, event)
              \/ \E new \in BOOLEAN : Update(l, status, new, event)
         \/ Delete(l) \/ TimePasses(l) \/ RunNow(l)
         \/ \E n \in 1..MaxRuns : RunStep(l, n) \/ UsersTurn(l, n)
    \/ StartDue
    \/ \E h \in Handlers :
         \/ \E batch \in SUBSET Messages : HandleIncoming(h, batch)
         \/ \E l \in Loops : FirstSighting(h, l)
         \/ Trigger(h)
    \/ Crash \/ Serve \/ AdvanceMissed

Spec == Init /\ [][Next]_vars

\* Fairness: goroutines go on; turns end (a routine in its bot's thread gives up after
\* six hours, the turn of a run's own thread ends because agents end their turns); a
\* server that is down is started again, and the scheduler's goroutine runs.
FairSpec ==
    /\ Spec
    /\ \A l \in Loops, n \in 1..MaxRuns : WF_vars(RunStep(l, n))
    /\ WF_vars(Serve)
    /\ WF_vars(AdvanceMissed)

-----------------------------------------------------------------------------
\* A routine never has two active runs, whoever starts them: the scheduler, a
\* user, triggers of several connectors.  Excepted is a run AdvanceMissed closed
\* while it was being started (the server listens before the scheduler runs): its
\* executor marks it running again.
OneActiveRun ==
    \A l \in Loops :
        Cardinality({n \in DOMAIN runs[l] : Active(runs[l][n]) /\ <<l, n>> \notin reset}) <= 1

\* What the routine's row says of its last run is what the newest run's row says:
\* runs end after newer ones were recorded (a skipped one), edits load and save the
\* row in between, and a restart rewrites both.
LastRunAgrees ==
    \A l \in Loops : runs[l] # << >> =>
        /\ loop[l].lastRun = Len(runs[l])
        /\ loop[l].lastStatus = runs[l][Len(runs[l])].status

\* The executor could not send the prompt, and closes its run as an error.
SendFails(l, n) ==
    /\ exec[l][n].at = "fail" /\ exec'[l][n].at = "gone"
    /\ runs'[l][n].status = "error"

\* A run that has ended never becomes active again, and no turn in its thread, no
\* late goroutine and no restart rewrites its outcome.  One thing does, once: a user's
\* turn in the run's thread may have closed the run before the executor's send failed;
\* the failure then makes it an error.  (Also excepted is the run of OneActiveRun.)
FinishedStaysFinished ==
    [][\A l \in Loops : \A n \in DOMAIN runs[l] :
        ~Active(runs[l][n]) /\ <<l, n>> \notin reset
            => runs'[l][n].status = runs[l][n].status \/ SendFails(l, n)]_vars

\* However often connectors deliver a message, and whichever of them does, it starts
\* a routine at most once between two starts of the server.
FiredOnce ==
    \A l \in Loops, m \in Messages :
        Cardinality({n \in DOMAIN exec[l] : m \in exec[l][n].events}) <= 1

\* A run that was started ends, with an outcome or as a victim of a restart: no run
\* stays active for ever and blocks its routine.
EveryRunEnds ==
    \A l \in Loops : \A n \in 1..MaxRuns :
        (n \in DOMAIN runs[l] /\ Active(runs[l][n]))
            ~> (n \in DOMAIN runs[l] /\ ~Active(runs[l][n]))

=============================================================================
