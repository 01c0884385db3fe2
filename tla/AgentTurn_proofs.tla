-------------------------- MODULE AgentTurn_proofs --------------------------
(***************************************************************************)
(* Theorems about AgentTurn, for any number of turns, prompts, questions   *)
(* and cancels and for both ways to steer an agent.                        *)
(***************************************************************************)
EXTENDS AgentTurn, SequenceTheorems, FiniteSetTheorems, TLAPS

\* A question in the hands of a goroutine is open.
TakenOpen == \A p \in Prompts : \A q \in task[p].taken : stage[q] \in Open

Typed == TypeOK /\ TakenOpen

Job == [turn : 0..MaxTurns, finishing : 0..MaxTurns, made : 0..MaxTurns,
        running : BOOLEAN, calls : Nat, cancelled : BOOLEAN, handoff : BOOLEAN,
        orphan : BOOLEAN, sent : BOOLEAN]

-----------------------------------------------------------------------------
\* Type correctness.

LEMMA InitTyped == Init => Typed
BY AgentTurnAssumption, EmptySeq
DEF Init, Typed, TypeOK, TakenOpen, Task, NoTask, NoQuestion, Places, Turns, Prompts, Questions

\* A step of a prompt's goroutine that takes no question.
LEMMA PromptTyped ==
    ASSUME Typed, job' \in Job, turnMu' \in Prompts \cup {None},
           at' \in [Prompts -> Places], task' \in [Prompts -> Task],
           \A p \in Prompts : task'[p].taken \subseteq task[p].taken,
           listed' \subseteq Questions, recorded' \in [Turns -> Nat],
           UNCHANGED <<method, pending, stage, asked, answers, log, agent, cancel>>
    PROVE  Typed'
<1>1. TypeOK'
    BY DEF Typed, TypeOK, Job
<1>2. TakenOpen'
    BY DEF Typed, TakenOpen
<1>3. QED
    BY <1>1, <1>2 DEF Typed

LEMMA ReturnTyped ==
    ASSUME Typed, NEW p \in Prompts, Return(p)
    PROVE  /\ turnMu' \in Prompts \cup {None} /\ at' \in [Prompts -> Places]
           /\ task' \in [Prompts -> Task]
           /\ \A r \in Prompts : task'[r].taken \subseteq task[r].taken
BY AgentTurnAssumption
DEF Typed, TypeOK, Return, Go, Unlock, Places, Task, NoTask

\* The record of one goroutine changes; what it took does not.
LEMMA OneTaskTyped ==
    ASSUME task \in [Prompts -> Task], NEW p \in Prompts, NEW t \in Task,
           t.taken = task[p].taken, task' = [task EXCEPT ![p] = t]
    PROVE  /\ task' \in [Prompts -> Task]
           /\ \A r \in Prompts : task'[r].taken = task[r].taken
<1>1. ASSUME NEW r \in Prompts
      PROVE  task'[r] = IF r = p THEN t ELSE task[r]
    OBVIOUS
<1>2. task' \in [Prompts -> Task]
    OBVIOUS
<1>3. QED
    BY <1>1, <1>2

LEMMA StartTyped ==
    ASSUME Typed, NEW p \in Prompts, StartTurn(p)
    PROVE  Typed'
<1>1. job \in Job /\ at \in [Prompts -> Places] /\ task \in [Prompts -> Task]
    BY DEF Typed, TypeOK, Job
<1>2. job.made + 1 \in 0..MaxTurns
    BY <1>1, AgentTurnAssumption DEF StartTurn, Job
<1>3. job' \in Job
    BY <1>1, <1>2 DEF StartTurn, Begun, Job
<1>4. at' \in [Prompts -> Places]
    BY <1>1 DEF StartTurn, Go, Places
<1>5. task' \in [Prompts -> Task] /\ \A r \in Prompts : task'[r].taken = task[r].taken
    BY <1>1, <1>2 DEF StartTurn, Task
<1>6. QED
    BY <1>3, <1>4, <1>5, PromptTyped DEF StartTurn, Typed, TypeOK

LEMMA RunTyped ==
    ASSUME Typed, NEW p \in Prompts, RunPrompt(p)
    PROVE  Typed'
<1>1. job \in Job /\ at \in [Prompts -> Places] /\ task \in [Prompts -> Task]
    BY DEF Typed, TypeOK, Job
<1>2. at' \in [Prompts -> Places]
    BY <1>1 DEF RunPrompt, Go, Places
<1>3. CASE TurnDone # 0 /\ task' = [task EXCEPT ![p].of = TurnDone] /\ UNCHANGED <<job, listed>>
    <2>1. TurnDone \in 0..MaxTurns
        BY <1>1 DEF TurnDone, Job
    <2>2. task' \in [Prompts -> Task] /\ \A r \in Prompts : task'[r].taken = task[r].taken
        BY <1>1, <1>3, <2>1 DEF Task
    <2>3. QED
        BY <1>1, <1>2, <1>3, <2>2, PromptTyped DEF RunPrompt, Typed, TypeOK
<1>4. CASE /\ job.made < MaxTurns
           /\ task' = [task EXCEPT ![p].of = job.made + 1]
           /\ job' = Begun(job.made + 1) /\ listed' = {}
    <2>1. job.made + 1 \in 0..MaxTurns
        BY <1>1, <1>4, AgentTurnAssumption DEF Job
    <2>2. task' \in [Prompts -> Task] /\ \A r \in Prompts : task'[r].taken = task[r].taken
        BY <1>1, <1>4, <2>1 DEF Task
    <2>3. job' \in Job
        BY <1>1, <1>4, <2>1 DEF Begun, Job
    <2>4. QED
        BY <1>2, <1>4, <2>2, <2>3, PromptTyped DEF RunPrompt, Typed, TypeOK
<1>5. QED
    BY <1>3, <1>4 DEF RunPrompt

LEMMA SendTyped ==
    ASSUME Typed, NEW p \in Prompts, SendPrompt(p)
    PROVE  Typed'
<1>1. job \in Job /\ at \in [Prompts -> Places] /\ task \in [Prompts -> Task]
    BY DEF Typed, TypeOK, Job
<1>2. UNCHANGED <<method, questionVars, agent, cancel, recorded>>
    BY DEF SendPrompt
<1>3. CASE Return(p) /\ UNCHANGED job
    BY <1>1, <1>2, <1>3, ReturnTyped, PromptTyped DEF questionVars, Typed, TypeOK
<1>4. CASE ~(Return(p) /\ UNCHANGED job)
    <2>1. /\ Go(p, IF agent = "gone" THEN "failed" ELSE "agent")
          /\ UNCHANGED <<turnMu, task>>
          /\ \E b \in BOOLEAN : job' = [job EXCEPT !.sent = b]
        <3> DEFINE b == job.sent \/ (agent # "gone" /\ job.turn # 0
                            /\ (task[p].kind = "first" \/ method = "queueing"))
        <3>1. b \in BOOLEAN
            OBVIOUS
        <3>2. job' = [job EXCEPT !.sent = b]
            BY <1>4 DEF SendPrompt
        <3>3. QED
            BY <1>4, <3>1, <3>2 DEF SendPrompt
    <2>2. job' \in Job
        BY <1>1, <2>1 DEF Job
    <2>3. at' \in [Prompts -> Places]
        BY <1>1, <2>1 DEF Go, Places
    <2>4. QED
        BY <1>1, <1>2, <2>1, <2>2, <2>3, PromptTyped DEF questionVars, Typed, TypeOK
<1>5. QED
    BY <1>3, <1>4

LEMMA AgentTyped ==
    ASSUME Typed, NEW p \in Prompts, AgentEnds(p) \/ AgentFails(p)
    PROVE  Typed'
<1>1. job \in Job /\ at \in [Prompts -> Places] /\ task \in [Prompts -> Task]
    BY DEF Typed, TypeOK, Job
<1>2. at' \in [Prompts -> Places]
    BY <1>1 DEF AgentEnds, AgentFails, Go, Places
<1>3. task' \in [Prompts -> Task] /\ \A r \in Prompts : task'[r].taken = task[r].taken
    <2>1. CASE AgentFails(p)
        BY <1>1, <2>1 DEF AgentFails
    <2>2. CASE AgentEnds(p)
        <3> DEFINE b == Mine(p) /\ job.cancelled
                   t == [task[p] EXCEPT !.saw = b]
        <3>1. b \in BOOLEAN
            OBVIOUS
        <3>2. task' = [task EXCEPT ![p].saw = b]
            BY <2>2 DEF AgentEnds
        <3> HIDE DEF b
        <3>3. task' = [task EXCEPT ![p] = t]
            BY <3>2
        <3>4. t \in Task /\ t.taken = task[p].taken
            BY <1>1, <3>1 DEF Task
        <3> HIDE DEF t
        <3>5. QED
            BY <1>1, <3>3, <3>4, OneTaskTyped
    <2>3. QED
        BY <2>1, <2>2
<1>4. QED
    BY <1>1, <1>2, <1>3, PromptTyped DEF AgentEnds, AgentFails, questionVars, Typed, TypeOK

LEMMA HandOffTyped ==
    ASSUME Typed, NEW p \in Prompts, HandOff(p), job.calls > 1
    PROVE  /\ job' \in Job
           /\ turnMu' \in Prompts \cup {None} /\ at' \in [Prompts -> Places]
           /\ task' \in [Prompts -> Task]
           /\ \A r \in Prompts : task'[r].taken \subseteq task[r].taken
<1>1. job \in Job /\ at \in [Prompts -> Places] /\ task \in [Prompts -> Task]
    BY DEF Typed, TypeOK, Job
<1>2. job' \in Job
    <2>1. job.calls - 1 \in Nat
        BY <1>1 DEF Job
    <2>2. QED
        BY <1>1, <2>1 DEF HandOff, Job
<1>3. turnMu' \in Prompts \cup {None} /\ at' \in [Prompts -> Places]
    BY <1>1 DEF HandOff, Go, Unlock, Typed, TypeOK, Places
<1>4. ASSUME NEW r \in Prompts
      PROVE  task'[r] \in Task /\ task'[r].taken \subseteq task[r].taken
    <2>1. \/ task'[r] = NoTask
          \/ task'[r] = task[r]
          \/ task'[r] = [task[r] EXCEPT !.hold = FALSE]
        BY DEF HandOff
    <2>2. task[r] \in Task
        BY <1>1
    <2>3. QED
        <3>1. NoTask \in Task /\ NoTask.taken = {}
            BY AgentTurnAssumption DEF NoTask, Task
        <3>2. /\ [task[r] EXCEPT !.hold = FALSE] \in Task
              /\ [task[r] EXCEPT !.hold = FALSE].taken = task[r].taken
            BY <2>2 DEF Task
        <3>3. QED
            BY <2>1, <2>2, <3>1, <3>2
<1>5. DOMAIN task' = Prompts /\ task' = [r \in Prompts |-> task'[r]]
    BY DEF HandOff
<1>6. QED
    BY <1>2, <1>3, <1>4, <1>5

LEMMA CompleteTyped ==
    ASSUME Typed, NEW p \in Prompts, Complete(p)
    PROVE  Typed'
<1>1. job \in Job /\ at \in [Prompts -> Places] /\ task \in [Prompts -> Task]
    BY DEF Typed, TypeOK, Job
<1>2. CASE Return(p) /\ UNCHANGED job
    BY <1>1, <1>2, ReturnTyped, PromptTyped DEF Complete, questionVars, Typed, TypeOK
<1>3. CASE job.calls > 1 /\ HandOff(p)
    BY <1>1, <1>3, HandOffTyped, PromptTyped DEF Complete, questionVars, Typed, TypeOK
<1>4. CASE EndCalls(p)
    <2>1. job' \in Job
        BY <1>1, <1>4 DEF EndCalls, Job
    <2>2. at' \in [Prompts -> Places]
        BY <1>1, <1>4 DEF EndCalls, Go, Places
    <2>3. QED
        BY <1>1, <1>4, <2>1, <2>2, PromptTyped DEF Complete, EndCalls, questionVars, Typed, TypeOK
<1>5. QED
    BY <1>2, <1>3, <1>4 DEF Complete

LEMMA EndTyped ==
    ASSUME Typed, NEW p \in Prompts,
           Fail(p) \/ FailTurn(p) \/ FinishTurn(p) \/ Release(p) \/ Discard(p)
    PROVE  Typed'
<1>1. job \in Job /\ at \in [Prompts -> Places] /\ task \in [Prompts -> Task]
    BY DEF Typed, TypeOK, Job
<1>2. UNCHANGED <<method, pending, stage, asked, answers, log, agent, cancel, recorded>>
      /\ listed' \subseteq Questions
    BY DEF Fail, FailTurn, FinishTurn, Release, Discard, questionVars, Typed, TypeOK
<1>3. CASE Return(p) /\ UNCHANGED job
    BY <1>1, <1>2, <1>3, ReturnTyped, PromptTyped DEF Typed, TypeOK
<1>4. CASE ~(Return(p) /\ UNCHANGED job)
    <2>1. job' \in Job
        <3>1. job.turn \in 0..MaxTurns /\ 0 \in 0..MaxTurns
            BY <1>1, AgentTurnAssumption DEF Job
        <3>2. Fail(p) => job' \in Job
            BY <1>1, <3>1 DEF Fail, Job
        <3>3. FailTurn(p) \/ Release(p) \/ Discard(p) => job' \in Job
            BY <1>1, <3>1 DEF FailTurn, Release, Discard, Job
        <3>4. FinishTurn(p) => job' \in Job
            <4> DEFINE after == [job EXCEPT !.finishing = job.turn, !.turn = 0, !.calls = 0,
                                     !.cancelled = FALSE, !.handoff = FALSE,
                                     !.orphan = FALSE, !.sent = FALSE]
            <4>1. FinishTurn(p) => job' = job \/ job' = after
                BY DEF FinishTurn
            <4>2. after \in Job
                BY <1>1, <3>1 DEF Job
            <4>3. QED
                BY <1>1, <4>1, <4>2
        <3>5. QED
            BY <3>2, <3>3, <3>4
    <2>2. CASE Discard(p)
        BY <1>1, <1>2, <2>2, ReturnTyped, PromptTyped DEF Discard, Typed, TypeOK
    <2>3. CASE ~Discard(p)
        <3>1. UNCHANGED <<turnMu, task>>
            BY <1>4, <2>3 DEF Fail, FailTurn, FinishTurn, Release
        <3>2. at' \in [Prompts -> Places]
            BY <1>1, <1>4, <2>3 DEF Fail, FailTurn, FinishTurn, Release, Go, Places
        <3>3. QED
            BY <1>1, <1>2, <2>1, <3>1, <3>2, PromptTyped DEF Typed, TypeOK
    <2>4. QED
        BY <2>2, <2>3
<1>5. QED
    BY <1>3, <1>4

LEMMA CallbackTyped ==
    ASSUME Typed, NEW p \in Prompts, Callback(p)
    PROVE  Typed'
<1>1. job \in Job /\ at \in [Prompts -> Places] /\ task \in [Prompts -> Task]
      /\ recorded \in [Turns -> Nat]
    BY DEF Typed, TypeOK, Job
<1>2. at' \in [Prompts -> Places]
    BY <1>1 DEF Callback, Go, Places
<1>3. recorded' \in [Turns -> Nat]
    <2>1. recorded' = [recorded EXCEPT ![task[p].of] = @ + 1]
        BY DEF Callback
    <2>2. \A t \in Turns : recorded'[t] \in Nat
        BY <1>1, <2>1
    <2>3. QED
        BY <1>1, <2>1, <2>2
<1>4. QED
    BY <1>1, <1>2, <1>3, PromptTyped DEF Callback, questionVars, Typed, TypeOK

LEMMA SteerTyped ==
    ASSUME Typed, NEW p \in Prompts,
           CheckSteer(p) \/ WaitForHandoff(p) \/ QuestionsTaken(p)
    PROVE  Typed'
<1>1. job \in Job /\ at \in [Prompts -> Places] /\ task \in [Prompts -> Task]
    BY DEF Typed, TypeOK, Job
<1>2. at' \in [Prompts -> Places]
    BY <1>1 DEF CheckSteer, WaitForHandoff, QuestionsTaken, Go, Places
<1>3. task' \in [Prompts -> Task] /\ \A r \in Prompts : task'[r].taken = task[r].taken
    <2>1. CASE CheckSteer(p)
        <3>1. PICK kind \in {"user", "hidden"} :
                  task' = [task EXCEPT ![p].of = job.turn, ![p].kind = kind]
            BY <2>1 DEF CheckSteer
        <3>2. job.turn \in 0..MaxTurns
            BY <1>1 DEF Job
        <3> DEFINE t == [task[p] EXCEPT !.of = job.turn, !.kind = kind]
        <3>3. task' = [task EXCEPT ![p] = t]
            BY <1>1, <3>1
        <3>4. t \in Task /\ t.taken = task[p].taken
            BY <1>1, <3>2 DEF Task
        <3> HIDE DEF t
        <3>5. QED
            BY <1>1, <3>3, <3>4, OneTaskTyped
    <2>2. CASE WaitForHandoff(p)
        <3> DEFINE b == job.turn = task[p].of /\ job.handoff
                   t == [task[p] EXCEPT !.hold = b]
        <3>1. b \in BOOLEAN
            OBVIOUS
        <3>2. task' = [task EXCEPT ![p].hold = b]
            BY <2>2 DEF WaitForHandoff
        <3> HIDE DEF b
        <3>3. task' = [task EXCEPT ![p] = t]
            BY <3>2
        <3>4. t \in Task /\ t.taken = task[p].taken
            BY <1>1, <3>1 DEF Task
        <3> HIDE DEF t
        <3>5. QED
            BY <1>1, <3>3, <3>4, OneTaskTyped
    <2>3. CASE QuestionsTaken(p)
        BY <1>1, <2>3 DEF QuestionsTaken
    <2>4. QED
        BY <2>1, <2>2, <2>3
<1>4. QED
    BY <1>1, <1>2, <1>3, PromptTyped
    DEF CheckSteer, WaitForHandoff, QuestionsTaken, questionVars, Typed, TypeOK

LEMMA ReserveTyped ==
    ASSUME Typed, NEW p \in Prompts, Reserve(p)
    PROVE  Typed'
<1>1. job \in Job /\ at \in [Prompts -> Places] /\ task \in [Prompts -> Task]
    BY DEF Typed, TypeOK, Job
<1>2. CASE Return(p) /\ UNCHANGED job
    BY <1>1, <1>2, ReturnTyped, PromptTyped DEF Reserve, questionVars, Typed, TypeOK
<1>3. CASE /\ job' = [job EXCEPT !.calls = @ + 1]
           /\ task' = [task EXCEPT ![p].of = job.turn]
           /\ Go(p, "reserved") /\ UNCHANGED turnMu
    <2>1. job' \in Job /\ job.turn \in 0..MaxTurns
        BY <1>1, <1>3 DEF Job
    <2>2. at' \in [Prompts -> Places]
        BY <1>1, <1>3 DEF Go, Places
    <2>3. task' \in [Prompts -> Task] /\ \A r \in Prompts : task'[r].taken = task[r].taken
        BY <1>1, <1>3, <2>1 DEF Task
    <2>4. QED
        BY <1>1, <1>3, <2>1, <2>2, <2>3, PromptTyped DEF Reserve, questionVars, Typed, TypeOK
<1>4. QED
    BY <1>2, <1>3 DEF Reserve

\* The end of a turn or a user's steer takes all questions there are.
LEMMA TakeTyped ==
    ASSUME Typed, NEW p \in Prompts, pending' = {}, job' \in Job,
           at' \in [Prompts -> Places], task' \in [Prompts -> Task],
           task'[p].taken = pending,
           \A r \in Prompts \ {p} : task'[r].taken = task[r].taken,
           UNCHANGED <<method, turnMu, listed, stage, asked, answers, log, agent, cancel,
                       recorded>>
    PROVE  Typed'
<1>1. TypeOK'
    <2>1. /\ \A q \in pending' : stage'[q] \in Open
          /\ \A r \in Prompts : task'[r].taken \cap pending' = {}
        OBVIOUS
    <2>2. \A r, s \in Prompts : r # s => task'[r].taken \cap task'[s].taken = {}
        BY DEF Typed, TypeOK
    <2>3. QED
        BY <2>1, <2>2 DEF Typed, TypeOK, Job
<1>2. TakenOpen'
    BY DEF Typed, TypeOK, TakenOpen
<1>3. QED
    BY <1>1, <1>2 DEF Typed

LEMMA ClearTyped ==
    ASSUME Typed, NEW p \in Prompts, ClearQuestions(p)
    PROVE  Typed'
<1>1. job \in Job /\ at \in [Prompts -> Places] /\ task \in [Prompts -> Task]
      /\ pending \subseteq Questions
    BY DEF Typed, TypeOK, Job
<1>2. at' \in [Prompts -> Places]
    BY <1>1 DEF ClearQuestions, Go, Places
<1>3. /\ task' \in [Prompts -> Task] /\ task'[p].taken = pending
      /\ \A r \in Prompts \ {p} : task'[r].taken = task[r].taken
    BY <1>1 DEF ClearQuestions, Task
<1>4. QED
    BY <1>1, <1>2, <1>3, TakeTyped DEF ClearQuestions

LEMMA TakeForSteerTyped ==
    ASSUME Typed, NEW p \in Prompts, TakeForSteer(p)
    PROVE  Typed'
<1> DEFINE hold == job.turn = task[p].of /\ (job.handoff \/ pending # {})
           late(q) == at[asked[q].by] # "agent" \/ task[asked[q].by].of # job.turn
           orphan == job.orphan \/ \E q \in pending : late(q)
<1>1. job \in Job /\ at \in [Prompts -> Places] /\ task \in [Prompts -> Task]
      /\ pending \subseteq Questions
    BY DEF Typed, TypeOK, Job
<1>2. hold \in BOOLEAN /\ orphan \in BOOLEAN
    OBVIOUS
<1>3. /\ job' = job \/ job' = [job EXCEPT !.handoff = hold, !.orphan = orphan]
      /\ task' = [task EXCEPT ![p].taken = pending, ![p].hold = hold]
    BY DEF TakeForSteer
<1> HIDE DEF hold, orphan
<1>4. job' \in Job
    BY <1>1, <1>2, <1>3 DEF Job
<1>5. at' \in [Prompts -> Places]
    BY <1>1 DEF TakeForSteer, Go, Places
<1>6. /\ task' \in [Prompts -> Task] /\ task'[p].taken = pending
      /\ \A r \in Prompts \ {p} : task'[r].taken = task[r].taken
    <2> DEFINE t == [task[p] EXCEPT !.taken = pending, !.hold = hold]
    <2>1. t \in Task /\ t.taken = pending
        BY <1>1, <1>2 DEF Task
    <2>2. task' = [task EXCEPT ![p] = t]
        BY <1>1, <1>3
    <2> HIDE DEF t
    <2>3. \A r \in Prompts : task'[r] = IF r = p THEN t ELSE task[r]
        BY <1>1, <2>2
    <2>4. task' \in [Prompts -> Task]
        BY <1>1, <2>1, <2>2
    <2>5. QED
        BY <2>1, <2>3, <2>4
<1>7. QED
    BY <1>4, <1>5, <1>6, TakeTyped DEF TakeForSteer

\* The life of a question.
LEMMA RegisterTyped ==
    ASSUME Typed, NEW p \in Prompts, NEW q \in Questions, Register(q, p)
    PROVE  Typed'
<1>1. stage[q] = "none" /\ q \notin pending /\ \A r \in Prompts : q \notin task[r].taken
    BY DEF Typed, TypeOK, TakenOpen, Register, NextQuestion, Open
<1>2. /\ stage' \in [Questions -> {"none", "refused", "closed"} \cup Open]
      /\ \A r \in Questions \ {q} : stage'[r] = stage[r]
    <2>1. stage \in [Questions -> {"none", "refused", "closed"} \cup Open]
        BY DEF Typed, TypeOK
    <2>2. stage' = [stage EXCEPT ![q] = "refused"] \/ stage' = [stage EXCEPT ![q] = "registered"]
        BY DEF Register
    <2>3. QED
        BY <2>1, <2>2 DEF Open
<1>3. asked' \in [Questions -> [by : 0..MaxPrompts, turn : 0..MaxTurns]]
    <2>1. p \in 0..MaxPrompts /\ job.turn \in 0..MaxTurns
        BY AgentTurnAssumption DEF Prompts, Typed, TypeOK
    <2>2. asked \in [Questions -> [by : 0..MaxPrompts, turn : 0..MaxTurns]]
        BY DEF Typed, TypeOK
    <2>3. asked' = asked \/ asked' = [asked EXCEPT ![q] = [by |-> p, turn |-> job.turn]]
        BY DEF Register
    <2>4. QED
        BY <2>1, <2>2, <2>3
<1>4. pending' \subseteq Questions /\ \A r \in pending' : stage'[r] \in Open
    <2>1. pending \subseteq Questions \ {q} /\ \A r \in pending : stage[r] \in Open
        BY <1>1 DEF Typed, TypeOK
    <2>2. \/ pending' = pending
          \/ pending' = pending \cup {q} /\ stage'[q] = "registered"
        <3>1. DOMAIN stage = Questions
            BY DEF Typed, TypeOK
        <3>2. CASE pending' = pending
            BY <3>2
        <3>3. CASE stage' = [stage EXCEPT ![q] = "registered"] /\ pending' = pending \cup {q}
            BY <3>1, <3>3
        <3>4. QED
            BY <3>2, <3>3 DEF Register
    <2>3. QED
        BY <1>2, <2>1, <2>2 DEF Open
<1>5. \A r \in Prompts : task'[r].taken \cap pending' = {}
    BY <1>1 DEF Typed, TypeOK, Register, promptVars
<1>6. TakenOpen'
    <2>1. \A r \in Prompts : task[r].taken \subseteq Questions
        BY DEF Typed, TypeOK, Task
    <2>2. QED
        BY <1>1, <1>2, <2>1 DEF Typed, TakenOpen, Register, promptVars
<1>7. QED
    BY <1>2, <1>3, <1>4, <1>5, <1>6 DEF Typed, TypeOK, Register, promptVars

LEMMA PublishTyped ==
    ASSUME Typed, NEW q \in Questions, Publish(q)
    PROVE  Typed'
<1>1. stage' \in [Questions -> {"none", "refused", "closed"} \cup Open]
      /\ \A r \in Questions : stage[r] \in Open => stage'[r] \in Open
    BY DEF Typed, TypeOK, Publish, Open
<1>2. listed' \subseteq Questions
    BY DEF Typed, TypeOK, Publish, Show
<1>3. log' \in [Questions -> Seq({"request", "response"})]
    <2>1. log \in [Questions -> Seq({"request", "response"})]
        BY DEF Typed, TypeOK
    <2>2. Append(log[q], "request") \in Seq({"request", "response"})
        BY <2>1, AppendProperties
    <2>3. log' = [log EXCEPT ![q] = Append(log[q], "request")]
        BY DEF Publish, Show
    <2>4. QED
        BY <2>1, <2>2, <2>3
<1>4. TakenOpen'
    BY <1>1 DEF Typed, TypeOK, TakenOpen, Publish, promptVars, Task
<1>5. QED
    BY <1>1, <1>2, <1>3, <1>4 DEF Typed, TypeOK, Publish, promptVars

LEMMA HideTyped ==
    ASSUME Typed, NEW q \in Questions, Hide(q)
    PROVE  /\ listed' \subseteq Questions
           /\ log' \in [Questions -> Seq({"request", "response"})]
<1>1. log \in [Questions -> Seq({"request", "response"})]
    BY DEF Typed, TypeOK
<1>2. Append(log[q], "response") \in Seq({"request", "response"})
    BY <1>1, AppendProperties
<1>3. log' = [log EXCEPT ![q] = Append(log[q], "response")]
    BY DEF Hide
<1>4. QED
    BY <1>1, <1>2, <1>3 DEF Typed, TypeOK, Hide

LEMMA CloseTyped ==
    ASSUME Typed, NEW q \in Questions, Close(q)
    PROVE  /\ stage' \in [Questions -> {"none", "refused", "closed"} \cup Open]
           /\ asked' \in [Questions -> [by : 0..MaxPrompts, turn : 0..MaxTurns]]
           /\ \A r \in Questions \ {q} : stage'[r] = stage[r]
BY AgentTurnAssumption DEF Typed, TypeOK, Close, NoQuestion

LEMMA WithdrawTyped ==
    ASSUME Typed, NEW q \in Questions, Withdraw(q) \/ Answer(q)
    PROVE  Typed'
<1>1. Hide(q) /\ Close(q) /\ q \in pending /\ pending' = pending \ {q}
    BY DEF Withdraw, Answer
<1>2. UNCHANGED <<method, job, promptVars, agent, cancel, recorded>>
    BY DEF Withdraw, Answer
<1>3. answers' \in [Questions -> Nat]
    <2>1. answers' = answers \/ answers' = [answers EXCEPT ![q] = @ + 1]
        BY DEF Withdraw, Answer, Put
    <2>2. answers \in [Questions -> Nat] /\ answers[q] + 1 \in Nat
        BY DEF Typed, TypeOK
    <2>3. QED
        BY <2>1, <2>2
<1>4. \A r \in pending' : stage'[r] \in Open
    BY <1>1, CloseTyped DEF Typed, TypeOK
<1>5. TakenOpen'
    <2>1. \A r \in Prompts : task[r].taken \subseteq Questions \ {q}
        BY <1>1 DEF Typed, TypeOK, Task
    <2>2. QED
        BY <1>1, <1>2, <2>1, CloseTyped DEF Typed, TakenOpen, promptVars
<1>6. QED
    BY <1>1, <1>2, <1>3, <1>4, <1>5, CloseTyped, HideTyped DEF Typed, TypeOK, promptVars

LEMMA CloseQuestionTyped ==
    ASSUME Typed, NEW p \in Prompts, NEW q \in Questions, CloseQuestion(p, q)
    PROVE  Typed'
<1>1. Close(q) /\ q \in task[p].taken /\ q \notin pending
    BY DEF Typed, TypeOK, CloseQuestion
<1>2. listed' \subseteq Questions /\ log' \in [Questions -> Seq({"request", "response"})]
    BY HideTyped DEF CloseQuestion, Typed, TypeOK
<1>3. answers' \in [Questions -> Nat]
    BY DEF Typed, TypeOK, CloseQuestion, Put
<1>4. task' \in [Prompts -> Task] /\ task'[p].taken = task[p].taken \ {q}
      /\ \A r \in Prompts \ {p} : task'[r] = task[r]
    <2>1. task \in [Prompts -> Task] /\ task' = [task EXCEPT ![p].taken = @ \ {q}]
        BY DEF Typed, TypeOK, CloseQuestion
    <2>2. task[p] \in Task /\ task[p].taken \ {q} \in SUBSET Questions
        BY <2>1 DEF Task
    <2>3. /\ [task[p] EXCEPT !.taken = @ \ {q}] \in Task
          /\ [task[p] EXCEPT !.taken = @ \ {q}].taken = task[p].taken \ {q}
        BY <2>2 DEF Task
    <2>4. task' = [task EXCEPT ![p] = [task[p] EXCEPT !.taken = @ \ {q}]]
        BY <2>1
    <2>5. QED
        BY <2>1, <2>3, <2>4
<1>5. /\ \A r \in pending' : stage'[r] \in Open
      /\ \A r \in Prompts : task'[r].taken \cap pending' = {}
      /\ \A r, s \in Prompts : r # s => task'[r].taken \cap task'[s].taken = {}
    <2>1. \A r \in pending' : stage'[r] \in Open
        <3>1. pending' = pending /\ pending \subseteq Questions
              /\ \A r \in pending : stage[r] \in Open
            BY DEF CloseQuestion, Typed, TypeOK
        <3>2. stage' = [stage EXCEPT ![q] = "closed"] /\ DOMAIN stage = Questions
            BY <1>1 DEF Close, Typed, TypeOK
        <3>3. \A r \in Questions \ {q} : stage'[r] = stage[r]
            BY <3>2
        <3>4. QED
            BY <1>1, <3>1, <3>3
    <2>2. pending' = pending /\ \A r \in Prompts : task'[r].taken \subseteq task[r].taken
        BY <1>4 DEF CloseQuestion
    <2>3. \A r \in Prompts : task'[r].taken \cap pending' = {}
        BY <2>2 DEF Typed, TypeOK
    <2>4. \A r, s \in Prompts : r # s => task[r].taken \cap task[s].taken = {}
        BY DEF Typed, TypeOK
    <2>5. \A r, s \in Prompts : r # s => task'[r].taken \cap task'[s].taken = {}
        BY <2>2, <2>4
    <2>6. QED
        BY <2>1, <2>3, <2>5
<1>6. TakenOpen'
    <2>1. \A r \in Prompts : task'[r].taken \subseteq task[r].taken \ {q}
        BY <1>1, <1>4 DEF Typed, TypeOK
    <2>2. \A r \in Prompts : task[r].taken \subseteq Questions
        BY DEF Typed, TypeOK, Task
    <2>3. QED
        BY <1>1, <2>1, <2>2, CloseTyped DEF Typed, TakenOpen
<1>7. QED
    BY <1>1, <1>2, <1>3, <1>4, <1>5, <1>6, CloseTyped DEF Typed, TypeOK, CloseQuestion

LEMMA CancelTyped ==
    ASSUME Typed, NEW c \in Cancellers, RequestCancel(c) \/ CancelLeaves(c) \/ CancelStep(c)
    PROVE  Typed'
<1>1. job \in Job
      /\ cancel \in [Cancellers -> [at : {"new", "waiting", "marking", "back", "left"},
                                    turn : 0..MaxTurns]]
    BY DEF Typed, TypeOK, Job
<1>2. UNCHANGED <<method, promptVars, questionVars, recorded>> /\ agent' \in {"up", "gone"}
    BY DEF RequestCancel, CancelLeaves, CancelStep, CancelReturns, Teardown, MarkCancelled,
           Typed, TypeOK
<1>3. job' \in Job
    <2>1. (job.turn # 0) \in BOOLEAN
        OBVIOUS
    <2>2. \/ job' = job \/ job' = [job EXCEPT !.cancelled = job.turn # 0]
          \/ job' = [job EXCEPT !.running = FALSE]
        BY DEF RequestCancel, CancelLeaves, CancelStep, CancelReturns, Teardown, MarkCancelled
    <2>3. QED
        BY <1>1, <2>1, <2>2 DEF Job
<1>4. cancel' \in [Cancellers -> [at : {"new", "waiting", "marking", "back", "left"},
                                  turn : 0..MaxTurns]]
    <2>1. TurnDone \in 0..MaxTurns /\ 0 \in 0..MaxTurns
        BY <1>1, AgentTurnAssumption DEF TurnDone, Job
    <2>2. CASE RequestCancel(c)
        BY <1>1, <2>1, <2>2 DEF RequestCancel
    <2>3. CASE CancelLeaves(c) \/ CancelStep(c)
        BY <1>1, <2>1, <2>3
        DEF CancelLeaves, CancelStep, CancelReturns, Teardown, MarkCancelled, CancelGoes
    <2>4. QED
        BY <2>2, <2>3
<1>5. QED
    BY <1>2, <1>3, <1>4 DEF Typed, TypeOK, TakenOpen, Job, promptVars, questionVars

LEMMA NextTyped == Typed /\ [Next]_vars => Typed'
<1> SUFFICES ASSUME Typed, [Next]_vars PROVE Typed'
    OBVIOUS
<1>1. CASE UNCHANGED vars
    BY <1>1 DEF Typed, TypeOK, TakenOpen, vars
<1>2. ASSUME NEW p \in Prompts, PromptStep(p)
      PROVE  Typed'
    BY <1>2, RunTyped, SendTyped, CompleteTyped, EndTyped, ClearTyped, CallbackTyped,
       TakeForSteerTyped, SteerTyped, CloseQuestionTyped DEF PromptStep
<1>3. ASSUME NEW p \in Prompts,
             StartTurn(p) \/ AgentEnds(p) \/ AgentFails(p) \/ CheckSteer(p) \/ Reserve(p)
      PROVE  Typed'
    BY <1>3, StartTyped, AgentTyped, SteerTyped, ReserveTyped
<1>4. QED
    BY <1>1, <1>2, <1>3, RegisterTyped, PublishTyped, WithdrawTyped, CancelTyped DEF Next

\* The job, the goroutines of its prompts and the questions keep their types, and a
\* question is in the table or in the hands of one goroutine, never both (job.go:
\* jobState; pending_permission.go: takePendingPermissionsLocked).
THEOREM TypeCorrect == Spec => []TypeOK
<1>1. Typed => TypeOK
    BY DEF Typed
<1>2. QED
    BY <1>1, InitTyped, NextTyped, PTL DEF Spec

-----------------------------------------------------------------------------
\* Turns.  There is one turn at a time, the newest; it runs, or one goroutine finishes
\* it, and that one knows whether the turn has been recorded.

Finisher(p) == at[p] \in {"clear", "clearing", "release"}

TurnNumbers ==
    /\ job.turn # 0 => job.turn = job.made /\ job.finishing = 0
    /\ job.finishing # 0 => job.finishing = job.made

Carried(p) == at[p] \notin {"unused", "over"} => task[p].of \in 1..job.made

Finishing(p) ==
    Finisher(p) =>
        /\ task[p].of = job.finishing
        /\ recorded[job.finishing] = IF at[p] = "release" THEN 1 ELSE 0

OneFinisher == \A p, r \in Prompts : Finisher(p) /\ Finisher(r) => p = r

Recorded ==
    \A t \in Turns :
        /\ recorded[t] <= 1
        /\ t > job.made \/ t = job.turn => recorded[t] = 0
        /\ t <= job.made /\ Ended(t) => recorded[t] = 1

TurnInv ==
    /\ TurnNumbers /\ OneFinisher /\ Recorded
    /\ \A p \in Prompts : Carried(p) /\ Finishing(p)

LEMMA InitTurn == Init => TurnInv
BY AgentTurnAssumption
DEF Init, TurnInv, TurnNumbers, OneFinisher, Recorded, Carried, Finishing, Finisher, Turns

\* The numbers of the turns, and where the other prompts are, stay.
LEMMA TurnMoves ==
    ASSUME TurnInv, NEW p \in Prompts, ~Finisher(p), ~Finisher(p)', Carried(p)',
           \A r \in Prompts \ {p} : at'[r] = at[r] /\ task'[r].of = task[r].of,
           job'.turn = job.turn, job'.finishing = job.finishing, job'.made = job.made,
           recorded' = recorded
    PROVE  TurnInv'
<1>1. TurnNumbers' /\ Recorded' /\ OneFinisher'
    BY DEF TurnInv, TurnNumbers, Recorded, OneFinisher, Finisher, Ended
<1>2. ASSUME NEW r \in Prompts
      PROVE  Carried(r)' /\ Finishing(r)'
    BY DEF TurnInv, Carried, Finishing, Finisher
<1>3. QED
    BY <1>1, <1>2 DEF TurnInv

LEMMA TurnStays ==
    ASSUME TurnInv, at' = at, \A r \in Prompts : task'[r].of = task[r].of,
           job'.turn = job.turn, job'.finishing = job.finishing, job'.made = job.made,
           recorded' = recorded
    PROVE  TurnInv'
<1>1. TurnNumbers' /\ Recorded' /\ OneFinisher'
    BY DEF TurnInv, TurnNumbers, Recorded, OneFinisher, Finisher, Ended
<1>2. ASSUME NEW r \in Prompts
      PROVE  Carried(r)' /\ Finishing(r)'
    BY <1>1 DEF TurnInv, Carried, Finishing, Finisher
<1>3. QED
    BY <1>1, <1>2 DEF TurnInv

\* A turn begins only where there is none.
LEMMA TurnBegins ==
    ASSUME Typed, TurnInv, NEW p \in Prompts, ~Finisher(p), ~Finisher(p)',
           job.turn = 0, job.finishing = 0, job.made < MaxTurns,
           job' = Begun(job.made + 1), task' = [task EXCEPT ![p].of = job.made + 1],
           \A r \in Prompts \ {p} : at'[r] = at[r],
           recorded' = recorded
    PROVE  TurnInv'
<1>1. /\ job \in Job /\ job.made \in Nat /\ task \in [Prompts -> Task]
      /\ \A t \in Turns : t \in Nat /\ t # 0
    BY DEF Typed, TypeOK, Job, Turns
<1>2. job'.turn = job.made + 1 /\ job'.finishing = 0 /\ job'.made = job.made + 1
    BY <1>1 DEF Begun, Job
<1>3. task'[p].of = job.made + 1 /\ \A r \in Prompts \ {p} : task'[r].of = task[r].of
    BY <1>1 DEF Task
<1>4. TurnNumbers' /\ OneFinisher'
    BY <1>2 DEF TurnInv, TurnNumbers, OneFinisher, Finisher
<1>5. Recorded'
    BY <1>1, <1>2 DEF TurnInv, Recorded, Ended
<1>6. ASSUME NEW r \in Prompts
      PROVE  Carried(r)' /\ Finishing(r)'
    <2>1. CASE r = p
        BY <1>1, <1>2, <1>3, <2>1 DEF Carried, Finishing
    <2>2. CASE r # p
        <3>1. Carried(r)'
            BY <1>1, <1>2, <1>3, <2>2 DEF TurnInv, Carried
        <3>2. ~Finisher(r)
            BY <1>1 DEF TurnInv, Finishing, Carried, Finisher
        <3>3. QED
            BY <2>2, <3>1, <3>2 DEF Finishing, Finisher
    <2>3. QED
        BY <2>1, <2>2
<1>7. QED
    BY <1>4, <1>5, <1>6 DEF TurnInv

LEMMA StartTurnInv ==
    ASSUME Typed, TurnInv, NEW p \in Prompts, StartTurn(p)
    PROVE  TurnInv'
<1>1. at \in [Prompts -> Places] /\ at[p] = "unused"
    BY DEF Typed, TypeOK, StartTurn, NextPrompt
<1>2. PICK place \in {"queued", "failed"} : at' = [at EXCEPT ![p] = place]
    BY DEF StartTurn, Go
<1>3. ~Finisher(p) /\ ~Finisher(p)'
    BY <1>1, <1>2 DEF Finisher
<1>4. QED
    BY <1>1, <1>2, <1>3, TurnBegins DEF StartTurn

LEMMA RunTurnInv ==
    ASSUME Typed, TurnInv, NEW p \in Prompts, RunPrompt(p)
    PROVE  TurnInv'
<1>1. /\ at \in [Prompts -> Places] /\ at[p] = "queued"
      /\ at' = [at EXCEPT ![p] = IF agent = "gone" THEN "failing" ELSE "ready"]
    BY DEF Typed, TypeOK, RunPrompt, Go
<1>2. ~Finisher(p) /\ ~Finisher(p)' /\ \A r \in Prompts \ {p} : at'[r] = at[r]
      /\ at'[p] \notin {"unused", "over"}
    BY <1>1 DEF Finisher
<1>3. job \in Job /\ task \in [Prompts -> Task] /\ recorded' = recorded
    BY DEF Typed, TypeOK, Job, RunPrompt
<1>4. CASE TurnDone # 0 /\ task' = [task EXCEPT ![p].of = TurnDone] /\ UNCHANGED job
    <2>1. TurnDone \in 1..job.made
        BY <1>3, <1>4 DEF TurnDone, Job, TurnInv, TurnNumbers
    <2>2. task'[p].of = TurnDone /\ \A r \in Prompts \ {p} : task'[r].of = task[r].of
        BY <1>3, <1>4 DEF Task
    <2>3. Carried(p)'
        BY <1>4, <2>1, <2>2 DEF Carried
    <2>4. QED
        BY <1>2, <1>3, <1>4, <2>2, <2>3, TurnMoves
<1>5. CASE /\ TurnDone = 0 /\ job.made < MaxTurns
           /\ task' = [task EXCEPT ![p].of = job.made + 1]
           /\ job' = Begun(job.made + 1)
    <2>1. job.turn = 0 /\ job.finishing = 0
        BY <1>5 DEF TurnDone
    <2>2. QED
        BY <1>2, <1>3, <1>5, <2>1, TurnBegins
<1>6. QED
    BY <1>4, <1>5 DEF RunPrompt

\* A goroutine that is no finisher returns.
LEMMA ReturnTurnInv ==
    ASSUME Typed, TurnInv, NEW p \in Prompts, ~Finisher(p), Return(p),
           job'.turn = job.turn, job'.finishing = job.finishing, job'.made = job.made,
           recorded' = recorded
    PROVE  TurnInv'
<1>1. /\ at' = [at EXCEPT ![p] = "over"] /\ task' = [task EXCEPT ![p] = NoTask]
      /\ at \in [Prompts -> Places] /\ task \in [Prompts -> Task]
    BY DEF Typed, TypeOK, Return, Go
<1>2. /\ ~Finisher(p)' /\ Carried(p)'
      /\ \A r \in Prompts \ {p} : at'[r] = at[r] /\ task'[r].of = task[r].of
    BY <1>1 DEF Finisher, Carried
<1>3. QED
    BY <1>2, TurnMoves

\* A goroutine that is no finisher goes on with its turn.
LEMMA GoTurnInv ==
    ASSUME Typed, TurnInv, NEW p \in Prompts, ~Finisher(p), at[p] \notin {"unused", "over"},
           NEW place \in Places \ {"clear", "clearing", "release"}, Go(p, place),
           \A r \in Prompts : task'[r].of = task[r].of,
           job'.turn = job.turn, job'.finishing = job.finishing, job'.made = job.made,
           recorded' = recorded
    PROVE  TurnInv'
<1>1. at' = [at EXCEPT ![p] = place] /\ at \in [Prompts -> Places]
    BY DEF Typed, TypeOK, Go
<1>2. /\ ~Finisher(p)' /\ \A r \in Prompts \ {p} : at'[r] = at[r]
    BY <1>1 DEF Finisher
<1>3. Carried(p)'
    BY DEF TurnInv, Carried
<1>4. QED
    BY <1>2, <1>3, TurnMoves

LEMMA CallTurnInv ==
    ASSUME Typed, TurnInv, NEW p \in Prompts,
           SendPrompt(p) \/ AgentEnds(p) \/ AgentFails(p) \/ Complete(p) \/ Fail(p) \/ FailTurn(p)
    PROVE  TurnInv'
<1>1. job \in Job /\ task \in [Prompts -> Task] /\ recorded' = recorded
    BY DEF Typed, TypeOK, Job, SendPrompt, AgentEnds, AgentFails, Complete, Fail, FailTurn
<1>2. ~Finisher(p) /\ at[p] \notin {"unused", "over"}
    BY DEF SendPrompt, AgentEnds, AgentFails, Complete, Fail, FailTurn, Finisher
<1>3. job'.turn = job.turn /\ job'.finishing = job.finishing /\ job'.made = job.made
    <2>1. SendPrompt(p) \/ AgentEnds(p) \/ AgentFails(p) => \E b : job' \in {job, [job EXCEPT !.sent = b]}
        BY DEF SendPrompt, AgentEnds, AgentFails
    <2>2. Fail(p) \/ FailTurn(p) =>
              job' \in {job, [job EXCEPT !.calls = 0], [job EXCEPT !.running = FALSE]}
        BY DEF Fail, FailTurn
    <2>3. Complete(p) =>
              \/ job' = job
              \/ job' = [job EXCEPT !.calls = 0, !.running = FALSE]
              \/ job' = [job EXCEPT !.calls = @ - 1, !.handoff = FALSE, !.orphan = FALSE]
        BY DEF Complete, HandOff, EndCalls
    <2>4. QED
        BY <1>1, <2>1, <2>2, <2>3 DEF Job
<1>4. CASE Return(p)
    BY <1>1, <1>2, <1>3, <1>4, ReturnTurnInv
<1>5. CASE HandOff(p)
    <2>1. task'[p] = NoTask /\ \A r \in Prompts \ {p} : task'[r].of = task[r].of
        BY <1>1, <1>5 DEF HandOff, Task
    <2>2. at' = [at EXCEPT ![p] = "over"] /\ at \in [Prompts -> Places]
        BY <1>5 DEF HandOff, Go, Typed, TypeOK
    <2>3. ~Finisher(p)' /\ Carried(p)' /\ \A r \in Prompts \ {p} : at'[r] = at[r]
        BY <2>2 DEF Finisher, Carried
    <2>4. QED
        BY <1>1, <1>2, <1>3, <2>1, <2>3, TurnMoves
<1>6. CASE ~Return(p) /\ ~HandOff(p)
    <2>1. \E place \in {"failed", "agent", "complete", "failing", "finish"} : Go(p, place)
        BY <1>6 DEF SendPrompt, AgentEnds, AgentFails, Complete, EndCalls, Fail, FailTurn
    <2>2. \A r \in Prompts : task'[r].of = task[r].of
        <3>1. task' = task \/ \E b : task' = [task EXCEPT ![p].saw = b]
            BY <1>6 DEF SendPrompt, AgentEnds, AgentFails, Complete, EndCalls, Fail, FailTurn
        <3>2. QED
            BY <1>1, <3>1 DEF Task
    <2>3. PICK place \in Places \ {"clear", "clearing", "release"} : Go(p, place)
        BY <2>1 DEF Places
    <2>4. QED
        BY <1>1, <1>2, <1>3, <2>2, <2>3, GoTurnInv
<1>7. QED
    BY <1>4, <1>5, <1>6

LEMMA FinishTurnInv ==
    ASSUME Typed, TurnInv, NEW p \in Prompts, FinishTurn(p)
    PROVE  TurnInv'
<1>1. /\ job \in Job /\ at \in [Prompts -> Places] /\ at[p] = "finish"
      /\ UNCHANGED recorded /\ ~Finisher(p)
    BY DEF Typed, TypeOK, Job, FinishTurn, Finisher
<1>2. CASE Return(p) /\ UNCHANGED job
    BY <1>1, <1>2, ReturnTurnInv
<1>3. CASE ~(Return(p) /\ UNCHANGED job)
    <2>1. /\ job.turn = task[p].of /\ UNCHANGED task
          /\ job' = [job EXCEPT !.finishing = job.turn, !.turn = 0, !.calls = 0,
                                !.cancelled = FALSE, !.handoff = FALSE, !.orphan = FALSE,
                                !.sent = FALSE]
          /\ at' = [at EXCEPT ![p] = "clear"]
        BY <1>3 DEF FinishTurn, Go
    <2>2. job'.turn = 0 /\ job'.finishing = job.turn /\ job'.made = job.made
        BY <1>1, <2>1 DEF Job
    <2>3. /\ job.turn \in 1..job.made /\ job.turn = job.made /\ job.finishing = 0
          /\ job.made \in Nat /\ job.made \in Turns
        BY <1>1, <2>1 DEF TurnInv, Carried, TurnNumbers, Job, Turns
    <2>4. \A r \in Prompts : ~Finisher(r)
        BY <2>3 DEF TurnInv, Finishing, Carried, Finisher
    <2>5. \A r \in Prompts \ {p} : at'[r] = at[r]
        BY <1>1, <2>1
    <2>6. at'[p] = "clear"
        BY <1>1, <2>1
    <2>7. recorded[job.turn] = 0
        BY <2>3 DEF TurnInv, Recorded
    <2>8. TurnNumbers' /\ OneFinisher'
        BY <2>2, <2>3, <2>4, <2>5 DEF TurnNumbers, OneFinisher, Finisher
    <2>9. Recorded'
        BY <1>1, <2>2, <2>3, <2>7 DEF TurnInv, Recorded, Ended, Turns
    <2>10. ASSUME NEW r \in Prompts
           PROVE  Carried(r)' /\ Finishing(r)'
        <3>1. CASE r = p
            BY <1>1, <2>1, <2>2, <2>3, <2>6, <2>7, <3>1 DEF Carried, Finishing
        <3>2. CASE r # p
            BY <2>1, <2>2, <2>4, <2>5, <3>2 DEF TurnInv, Carried, Finishing, Finisher
        <3>3. QED
            BY <3>1, <3>2
    <2>11. QED
        BY <2>8, <2>9, <2>10 DEF TurnInv
<1>4. QED
    BY <1>2, <1>3

LEMMA ClearTurnInv ==
    ASSUME Typed, TurnInv, NEW p \in Prompts, ClearQuestions(p)
    PROVE  TurnInv'
<1>1. /\ at \in [Prompts -> Places] /\ at[p] = "clear" /\ at' = [at EXCEPT ![p] = "clearing"]
      /\ UNCHANGED <<job, recorded>>
    BY DEF Typed, TypeOK, ClearQuestions, Go
<1>2. \A r \in Prompts : task'[r].of = task[r].of
    BY DEF Typed, TypeOK, Task, ClearQuestions
<1>3. \A r \in Prompts : (Finisher(r)' <=> Finisher(r)) /\ (at'[r] = "release" <=> at[r] = "release")
    BY <1>1 DEF Finisher
<1>4. TurnNumbers' /\ Recorded' /\ OneFinisher'
    BY <1>1, <1>3 DEF TurnInv, TurnNumbers, Recorded, OneFinisher, Ended
<1>5. ASSUME NEW r \in Prompts
      PROVE  Carried(r)' /\ Finishing(r)'
    BY <1>1, <1>2, <1>3 DEF TurnInv, Carried, Finishing
<1>6. QED
    BY <1>4, <1>5 DEF TurnInv

LEMMA CallbackTurnInv ==
    ASSUME Typed, TurnInv, NEW p \in Prompts, Callback(p)
    PROVE  TurnInv'
<1>1. /\ at \in [Prompts -> Places] /\ at[p] = "clearing" /\ at' = [at EXCEPT ![p] = "release"]
      /\ UNCHANGED <<job, task>> /\ job \in Job
      /\ recorded \in [Turns -> Nat] /\ recorded' = [recorded EXCEPT ![task[p].of] = @ + 1]
    BY DEF Typed, TypeOK, Job, Callback, Go
<1>2. /\ task[p].of = job.finishing /\ recorded[job.finishing] = 0
      /\ job.finishing \in Turns /\ job.finishing = job.made /\ job.turn = 0
    BY <1>1 DEF TurnInv, TurnNumbers, Carried, Finishing, Finisher, Job, Turns
<1>3. recorded'[job.finishing] = 1 /\ \A t \in Turns \ {job.finishing} : recorded'[t] = recorded[t]
    BY <1>1, <1>2
<1>4. \A r \in Prompts : r # p => at'[r] = at[r] /\ ~Finisher(r)
    BY <1>1 DEF TurnInv, OneFinisher, Finisher
<1>5. TurnNumbers' /\ OneFinisher'
    BY <1>1, <1>4 DEF TurnInv, TurnNumbers, OneFinisher, Finisher
<1>6. Recorded'
    <2>1. ASSUME NEW t \in Turns
          PROVE  /\ recorded'[t] <= 1
                 /\ t > job.made \/ t = job.turn => recorded'[t] = 0
                 /\ t <= job.made /\ Ended(t) => recorded'[t] = 1
        <3>1. t \in Nat /\ t # 0 /\ job.made \in Nat
            BY <1>1 DEF Turns, Job
        <3>2. QED
            BY <1>2, <1>3, <3>1 DEF TurnInv, Recorded, Ended
    <2>2. QED
        BY <1>1, <2>1 DEF Recorded, Ended
<1>7. ASSUME NEW r \in Prompts
      PROVE  Carried(r)' /\ Finishing(r)'
    <2>1. CASE r = p
        BY <1>1, <1>2, <1>3, <2>1 DEF TurnInv, Carried, Finishing
    <2>2. CASE r # p
        BY <1>1, <1>4, <2>2 DEF TurnInv, Carried, Finishing, Finisher
    <2>3. QED
        BY <2>1, <2>2
<1>8. QED
    BY <1>5, <1>6, <1>7 DEF TurnInv

LEMMA ReleaseTurnInv ==
    ASSUME Typed, TurnInv, NEW p \in Prompts, Release(p)
    PROVE  TurnInv'
<1>1. /\ at \in [Prompts -> Places] /\ at[p] = "release" /\ at' = [at EXCEPT ![p] = "discard"]
      /\ UNCHANGED <<task, recorded>> /\ job \in Job /\ job' = [job EXCEPT !.finishing = 0]
    BY DEF Typed, TypeOK, Job, Release, Go
<1>2. /\ task[p].of = job.finishing /\ recorded[job.finishing] = 1
      /\ job.finishing \in Turns /\ job.finishing = job.made /\ job.turn = 0
    BY <1>1 DEF TurnInv, TurnNumbers, Carried, Finishing, Finisher, Job, Turns
<1>3. job'.turn = 0 /\ job'.finishing = 0 /\ job'.made = job.made
    BY <1>1, <1>2 DEF Job
<1>4. \A r \in Prompts : ~Finisher(r)' /\ (r # p => at'[r] = at[r])
    BY <1>1 DEF TurnInv, OneFinisher, Finisher
<1>5. TurnNumbers' /\ OneFinisher'
    BY <1>3, <1>4 DEF TurnNumbers, OneFinisher
<1>6. Recorded'
    BY <1>1, <1>2, <1>3 DEF TurnInv, Recorded, Ended, Turns
<1>7. ASSUME NEW r \in Prompts
      PROVE  Carried(r)' /\ Finishing(r)'
    <2>1. at[r] \in {"unused", "over"} \/ task[r].of \in 1..job.made
        BY DEF TurnInv, Carried
    <2>2. QED
        BY <1>1, <1>3, <1>4, <2>1 DEF Carried, Finishing
<1>8. QED
    BY <1>5, <1>6, <1>7 DEF TurnInv

LEMMA DiscardTurnInv ==
    ASSUME Typed, TurnInv, NEW p \in Prompts, Discard(p)
    PROVE  TurnInv'
BY ReturnTurnInv DEF Discard, Finisher

LEMMA SteerTurnInv ==
    ASSUME Typed, TurnInv, NEW p \in Prompts,
           CheckSteer(p) \/ Reserve(p) \/ TakeForSteer(p) \/ WaitForHandoff(p)
           \/ QuestionsTaken(p)
    PROVE  TurnInv'
<1>1. /\ job \in Job /\ task \in [Prompts -> Task] /\ at \in [Prompts -> Places]
      /\ recorded' = recorded
    BY DEF Typed, TypeOK, Job, CheckSteer, Reserve, TakeForSteer, WaitForHandoff, QuestionsTaken
<1>2. ~Finisher(p)
    BY DEF CheckSteer, NextPrompt, Reserve, TakeForSteer, WaitForHandoff, QuestionsTaken, Finisher
<1>3. job'.turn = job.turn /\ job'.finishing = job.finishing /\ job'.made = job.made
    <2>1. \/ job' = job
          \/ job' = [job EXCEPT !.calls = @ + 1]
          \/ \E h, o : job' = [job EXCEPT !.handoff = h, !.orphan = o]
        <3>1. CASE CheckSteer(p)
            BY <3>1 DEF CheckSteer
        <3>2. CASE Reserve(p)
            BY <3>2 DEF Reserve
        <3>3. CASE TakeForSteer(p)
            BY <3>3 DEF TakeForSteer
        <3>4. CASE WaitForHandoff(p)
            BY <3>4 DEF WaitForHandoff
        <3>5. CASE QuestionsTaken(p)
            BY <3>5 DEF QuestionsTaken
        <3>6. QED
            BY <3>1, <3>2, <3>3, <3>4, <3>5
    <2>2. QED
        BY <1>1, <2>1 DEF Job
<1>4. CASE Return(p)
    BY <1>1, <1>2, <1>3, <1>4, ReturnTurnInv
<1>5. CASE ~Return(p)
    <2>1. PICK place \in {"checked", "reserved", "taking", "ready"} :
              at' = [at EXCEPT ![p] = place]
        BY <1>5 DEF CheckSteer, Reserve, TakeForSteer, WaitForHandoff, QuestionsTaken, Go
    <2>2. ~Finisher(p)' /\ \A r \in Prompts \ {p} : at'[r] = at[r]
        BY <1>1, <2>1 DEF Finisher
    <2>3. \A r \in Prompts \ {p} : task'[r].of = task[r].of
        BY <1>1 DEF Task, CheckSteer, Reserve, TakeForSteer, WaitForHandoff, QuestionsTaken,
                    Return
    <2>4. task'[p].of \in 1..job.made
        <3>1. CASE CheckSteer(p) \/ Reserve(p)
            <4>1. job.turn # 0
                BY <1>5, <3>1 DEF CheckSteer, Reserve
            <4>2. task'[p].of = job.turn
                BY <1>1, <1>5, <3>1 DEF CheckSteer, Reserve, Task
            <4>3. QED
                BY <1>1, <4>1, <4>2 DEF TurnInv, TurnNumbers, Job
        <3>2. CASE TakeForSteer(p) \/ WaitForHandoff(p) \/ QuestionsTaken(p)
            <4>1. task[p].of \in 1..job.made
                BY <3>2 DEF TurnInv, Carried, TakeForSteer, WaitForHandoff, QuestionsTaken
            <4>2. task'[p].of = task[p].of
                BY <1>1, <3>2 DEF Task, TakeForSteer, WaitForHandoff, QuestionsTaken
            <4>3. QED
                BY <4>1, <4>2
        <3>3. QED
            BY <3>1, <3>2
    <2>5. Carried(p)'
        BY <1>3, <2>4 DEF Carried
    <2>6. QED
        BY <1>1, <1>2, <1>3, <2>2, <2>3, <2>5, TurnMoves
<1>6. QED
    BY <1>4, <1>5

LEMMA QuestionTurnInv ==
    ASSUME Typed, TurnInv, NEW q \in Questions,
           \/ \E p \in Prompts : Register(q, p) \/ CloseQuestion(p, q)
           \/ Publish(q) \/ Withdraw(q) \/ Answer(q)
    PROVE  TurnInv'
<1>1. UNCHANGED <<at, job, recorded>>
    BY DEF Register, CloseQuestion, Publish, Withdraw, Answer, promptVars
<1>2. \A r \in Prompts : task'[r].of = task[r].of
    <2>1. task' = task \/ \E p \in Prompts : task' = [task EXCEPT ![p].taken = @ \ {q}]
        BY DEF Register, CloseQuestion, Publish, Withdraw, Answer, promptVars
    <2>2. QED
        <3>1. task \in [Prompts -> Task]
            BY DEF Typed, TypeOK
        <3>2. ASSUME NEW p \in Prompts, task' = [task EXCEPT ![p].taken = @ \ {q}]
              PROVE  \A r \in Prompts : task'[r].of = task[r].of
            BY <3>1, <3>2 DEF Task
        <3>3. QED
            BY <2>1, <3>2
<1>3. QED
    BY <1>1, <1>2, TurnStays

LEMMA CancelTurnInv ==
    ASSUME Typed, TurnInv, NEW c \in Cancellers,
           RequestCancel(c) \/ CancelLeaves(c) \/ CancelStep(c)
    PROVE  TurnInv'
<1>1. /\ UNCHANGED <<at, task, recorded>>
      /\ \/ job' = job
         \/ \E b : job' = [job EXCEPT !.cancelled = b]
         \/ job' = [job EXCEPT !.running = FALSE]
    BY DEF RequestCancel, CancelLeaves, CancelStep, CancelReturns, Teardown, MarkCancelled,
           promptVars
<1>2. job'.turn = job.turn /\ job'.finishing = job.finishing /\ job'.made = job.made
    BY <1>1 DEF Typed, TypeOK
<1>3. QED
    BY <1>1, <1>2, TurnStays

LEMMA NextTurn == Typed /\ TurnInv /\ [Next]_vars => TurnInv'
<1> SUFFICES ASSUME Typed, TurnInv, [Next]_vars PROVE TurnInv'
    OBVIOUS
<1>1. CASE UNCHANGED vars
    BY <1>1, TurnStays DEF vars
<1>2. ASSUME NEW p \in Prompts, PromptStep(p)
      PROVE  TurnInv'
    BY <1>2, RunTurnInv, CallTurnInv, FinishTurnInv, ClearTurnInv, CallbackTurnInv,
       ReleaseTurnInv, DiscardTurnInv, SteerTurnInv, QuestionTurnInv DEF PromptStep
<1>3. ASSUME NEW p \in Prompts,
             StartTurn(p) \/ AgentEnds(p) \/ AgentFails(p) \/ CheckSteer(p) \/ Reserve(p)
      PROVE  TurnInv'
    BY <1>3, StartTurnInv, CallTurnInv, SteerTurnInv
<1>4. QED
    BY <1>1, <1>2, <1>3, QuestionTurnInv, CancelTurnInv DEF Next

\* Turns end in order, and each is recorded once before the next may start (turns.go:
\* finishTurn; job.go: turnDone), whatever steers, cancels and questions do.
THEOREM TurnsEndInOrder == Spec => []EndsInOrder
<1>1. Init => Typed /\ TurnInv
    BY InitTyped, InitTurn
<1>2. Typed /\ TurnInv /\ [Next]_vars => (Typed /\ TurnInv)'
    BY NextTyped, NextTurn
<1>3. TurnInv => EndsInOrder
    BY DEF TurnInv, Recorded, EndsInOrder
<1>4. QED
    BY <1>1, <1>2, <1>3, PTL DEF Spec

-----------------------------------------------------------------------------
\* Questions.  One in the table belongs to the turn that runs or to the one whose questions
\* are about to be taken; the events and the answer of a question follow its stage.

Asked(q) ==
    /\ asked[q].turn # 0 =>
          \/ asked[q].turn = job.turn
          \/ asked[q].turn = job.finishing /\ \E p \in Prompts : at[p] = "clear"
    /\ stage[q] = "waiting" /\ asked[q].turn # 0 /\ asked[q].turn = job.turn => q \in listed

Lived(q) ==
    /\ stage[q] \in {"none", "refused", "registered"} =>
           log[q] = <<>> /\ answers[q] = 0 /\ q \notin listed
    /\ stage[q] = "waiting" => log[q] = <<"request">> /\ answers[q] = 0
    /\ stage[q] = "closed" =>
           /\ log[q] \in {<<"request">>, <<"request", "response">>} /\ answers[q] <= 1
           /\ agent = "up" => q \notin listed /\ log[q] = <<"request", "response">>

QuestionInv == (\A q \in pending : Asked(q)) /\ \A q \in Questions : Lived(q)

TurnsAndQuestions == Typed /\ TurnInv /\ QuestionInv

LEMMA InitQuestion == Init => QuestionInv
BY DEF Init, QuestionInv, Lived

\* A step that leaves the questions alone and lets no turn begin, end or be finished.
LEMMA QuestionsStay ==
    ASSUME QuestionInv, UNCHANGED <<pending, stage, asked, answers, log>>,
           listed' = listed \/ (job.turn = 0 /\ listed' = {}),
           agent' = agent \/ agent' = "gone",
           job'.turn = job.turn, job'.finishing = job.finishing,
           \A p \in Prompts : at[p] = "clear" => at'[p] = "clear"
    PROVE  QuestionInv'
<1>1. ASSUME NEW q \in pending
      PROVE  Asked(q)'
    BY DEF QuestionInv, Asked
<1>2. ASSUME NEW q \in Questions
      PROVE  Lived(q)'
    BY DEF QuestionInv, Lived
<1>3. QED
    BY <1>1, <1>2 DEF QuestionInv

\* A turn begins: no question in the table belongs to one.
LEMMA QuestionsBegin ==
    ASSUME TurnsAndQuestions, job.turn = 0, job.finishing = 0, listed' = {},
           UNCHANGED <<pending, stage, asked, answers, log, agent>>
    PROVE  QuestionInv'
<1>1. ASSUME NEW q \in pending
      PROVE  Asked(q)'
    BY DEF TurnsAndQuestions, QuestionInv, Asked
<1>2. ASSUME NEW q \in Questions
      PROVE  Lived(q)'
    BY DEF TurnsAndQuestions, QuestionInv, Lived
<1>3. QED
    BY <1>1, <1>2 DEF QuestionInv

\* All questions are taken.
LEMMA QuestionsTakenInv ==
    ASSUME QuestionInv, pending' = {}, UNCHANGED <<listed, stage, asked, answers, log, agent>>
    PROVE  QuestionInv'
BY DEF QuestionInv, Lived

LEMMA AppendSecond ==
    ASSUME NEW S, NEW x \in S, NEW y \in S
    PROVE  Append(<<x>>, y) = <<x, y>>
<1> DEFINE s == <<x>>
           t == <<x, y>>
           a == Append(s, y)
<1>1. s \in Seq(S)
    OBVIOUS
<1>2. Len(s) = 1
    OBVIOUS
<1>3. s[1] = x
    OBVIOUS
<1>4. t \in Seq(S)
    OBVIOUS
<1>5. Len(t) = 2
    OBVIOUS
<1>6. t[1] = x /\ t[2] = y
    OBVIOUS
<1> HIDE DEF s, t
<1>7. a \in Seq(S)
    BY <1>1
<1>8. Len(a) = Len(s) + 1 /\ a[Len(s) + 1] = y /\ \A i \in 1..Len(s) : a[i] = s[i]
    BY <1>1, AppendProperties
<1> HIDE DEF a
<1>9. Len(a) = 2
    BY <1>2, <1>8
<1>10. a[1] = x /\ a[2] = y
    BY <1>2, <1>3, <1>8
<1>11. \A i \in 1..2 : a[i] = t[i]
    BY <1>6, <1>10
<1>12. a = t
    BY <1>4, <1>5, <1>7, <1>9, <1>11, SeqEqual
<1>13. QED
    BY <1>12 DEF s, t, a

\* A question that waits is closed.
LEMMA ClosedInv ==
    ASSUME Typed, QuestionInv, NEW q \in Questions, stage[q] = "waiting", Close(q),
           pending' = pending \ {q},
           Hide(q) \/ (agent = "gone" /\ UNCHANGED <<listed, log>>),
           UNCHANGED answers \/ Put(q),
           UNCHANGED <<job, at, agent>>
    PROVE  QuestionInv'
<1>1. /\ stage'[q] = "closed"
      /\ \A r \in Questions \ {q} :
            /\ stage'[r] = stage[r] /\ asked'[r] = asked[r] /\ log'[r] = log[r]
            /\ answers'[r] = answers[r] /\ (r \in listed' <=> r \in listed)
    <2>1. stage'[q] = "closed"
          /\ \A r \in Questions \ {q} : stage'[r] = stage[r] /\ asked'[r] = asked[r]
        BY DEF Typed, TypeOK, Close
    <2>2. \A r \in Questions \ {q} : log'[r] = log[r] /\ (r \in listed' <=> r \in listed)
        BY DEF Typed, TypeOK, Hide
    <2>3. \A r \in Questions \ {q} : answers'[r] = answers[r]
        BY DEF Typed, TypeOK, Put
    <2>4. QED
        BY <2>1, <2>2, <2>3
<1>2. log[q] = <<"request">> /\ answers[q] = 0
    BY DEF QuestionInv, Lived
<1>3. answers'[q] <= 1
    BY <1>2 DEF Typed, TypeOK, Put
<1>4. \/ log'[q] = <<"request", "response">> /\ q \notin listed'
      \/ agent' = "gone" /\ log'[q] = <<"request">>
    <2>1. CASE Hide(q)
        <3>1. log'[q] = Append(<<"request">>, "response") /\ q \notin listed'
            BY <1>2, <2>1 DEF Hide, Typed, TypeOK
        <3>2. Append(<<"request">>, "response") = <<"request", "response">>
            <4>1. /\ "request" \in {"request", "response"}
                  /\ "response" \in {"request", "response"}
                OBVIOUS
            <4>2. QED
                BY <4>1, AppendSecond
        <3>3. QED
            BY <3>1, <3>2
    <2>2. CASE agent = "gone" /\ UNCHANGED <<listed, log>>
        BY <1>2, <2>2
    <2>3. QED
        BY <2>1, <2>2
<1>5. ASSUME NEW r \in pending'
      PROVE  Asked(r)'
    <2>1. r \in pending /\ r # q /\ r \in Questions
        BY DEF Typed, TypeOK
    <2>2. Asked(r)
        BY <2>1 DEF QuestionInv
    <2>3. asked'[r] = asked[r] /\ stage'[r] = stage[r] /\ (r \in listed' <=> r \in listed)
        BY <1>1, <2>1
    <2>4. QED
        BY <2>2, <2>3 DEF Asked
<1>6. ASSUME NEW r \in Questions
      PROVE  Lived(r)'
    <2>1. CASE r = q
        BY <1>1, <1>3, <1>4, <2>1 DEF Lived
    <2>2. CASE r # q
        BY <1>1, <2>2 DEF QuestionInv, Lived
    <2>3. QED
        BY <2>1, <2>2
<1>7. QED
    BY <1>5, <1>6 DEF QuestionInv

LEMMA RegisterQuestionInv ==
    ASSUME Typed, TurnInv, QuestionInv, NEW p \in Prompts, NEW q \in Questions, Register(q, p)
    PROVE  QuestionInv'
<1>1. /\ stage[q] = "none" /\ q \notin pending
      /\ UNCHANGED <<job, at, listed, log, answers, agent>>
    BY DEF Typed, TypeOK, Register, NextQuestion, promptVars, Open
<1>2. stage' = [stage EXCEPT ![q] = "refused"] \/ stage' = [stage EXCEPT ![q] = "registered"]
    BY DEF Register
<1>3. /\ stage'[q] \in {"refused", "registered"}
      /\ \A r \in Questions \ {q} : stage'[r] = stage[r]
    BY <1>2 DEF Typed, TypeOK
<1>4. ASSUME NEW r \in pending'
      PROVE  Asked(r)'
    <2>1. CASE pending' = pending /\ asked' = asked
        <3>1. Asked(r) /\ stage'[r] = stage[r]
            BY <1>1, <1>3, <2>1 DEF QuestionInv, Typed, TypeOK
        <3>2. QED
            BY <1>1, <2>1, <3>1 DEF Asked
    <2>2. CASE /\ pending' = pending \cup {q}
               /\ asked' = [asked EXCEPT ![q] = [by |-> p, turn |-> job.turn]]
        <3>1. CASE r = q
            <4>1. asked'[q].turn = job.turn
                BY <2>2 DEF Typed, TypeOK
            <4>2. QED
                BY <1>1, <1>3, <3>1, <4>1 DEF Asked
        <3>2. CASE r # q
            <4>1. r \in pending /\ Asked(r)
                BY <2>2, <3>2 DEF QuestionInv
            <4>2. asked'[r] = asked[r] /\ stage'[r] = stage[r]
                BY <1>3, <2>2, <3>2, <4>1 DEF Typed, TypeOK
            <4>3. QED
                BY <1>1, <4>1, <4>2 DEF Asked
        <3>3. QED
            BY <3>1, <3>2
    <2>3. QED
        BY <2>1, <2>2 DEF Register
<1>5. ASSUME NEW r \in Questions
      PROVE  Lived(r)'
    <2>1. Lived(r)
        BY DEF QuestionInv
    <2>2. CASE r = q
        BY <1>1, <1>3, <2>1, <2>2 DEF Lived
    <2>3. CASE r # q
        BY <1>1, <1>3, <2>1, <2>3 DEF Lived
    <2>4. QED
        BY <2>2, <2>3
<1>6. QED
    BY <1>4, <1>5 DEF QuestionInv

LEMMA PublishQuestionInv ==
    ASSUME Typed, QuestionInv, NEW q \in Questions, Publish(q)
    PROVE  QuestionInv'
<1>1. /\ stage[q] = "registered" /\ stage' = [stage EXCEPT ![q] = "waiting"]
      /\ log' = [log EXCEPT ![q] = Append(@, "request")] /\ listed' = listed \cup {q}
      /\ UNCHANGED <<job, at, pending, asked, answers, agent>>
    BY DEF Publish, Show, promptVars
<1>2. log[q] = <<>> /\ answers[q] = 0
    BY <1>1 DEF QuestionInv, Lived
<1>3. stage'[q] = "waiting" /\ log'[q] = <<"request">> /\ q \in listed'
    <2>1. Append(<<>>, "request") = <<"request">>
        OBVIOUS
    <2>2. QED
        BY <1>1, <1>2, <2>1 DEF Typed, TypeOK
<1>4. \A r \in Questions \ {q} :
          stage'[r] = stage[r] /\ log'[r] = log[r] /\ (r \in listed' <=> r \in listed)
    BY <1>1 DEF Typed, TypeOK
<1>5. ASSUME NEW r \in pending'
      PROVE  Asked(r)'
    <2>1. r \in Questions /\ Asked(r)
        BY <1>1 DEF Typed, TypeOK, QuestionInv
    <2>2. CASE r = q
        BY <1>1, <1>3, <2>1, <2>2 DEF Asked
    <2>3. CASE r # q
        BY <1>1, <1>4, <2>1, <2>3 DEF Asked
    <2>4. QED
        BY <2>2, <2>3
<1>6. ASSUME NEW r \in Questions
      PROVE  Lived(r)'
    <2>1. Lived(r)
        BY DEF QuestionInv
    <2>2. CASE r = q
        BY <1>1, <1>2, <1>3, <2>2 DEF Lived
    <2>3. CASE r # q
        BY <1>1, <1>4, <2>1, <2>3 DEF Lived
    <2>4. QED
        BY <2>2, <2>3
<1>7. QED
    BY <1>5, <1>6 DEF QuestionInv

LEMMA WithdrawQuestionInv ==
    ASSUME Typed, QuestionInv, NEW q \in Questions, Withdraw(q) \/ Answer(q)
    PROVE  QuestionInv'
BY ClosedInv DEF Withdraw, Answer, promptVars

LEMMA CloseQuestionInv ==
    ASSUME Typed, QuestionInv, NEW p \in Prompts, NEW q \in Questions, CloseQuestion(p, q)
    PROVE  QuestionInv'
<1>1. stage[q] = "waiting"
    BY DEF CloseQuestion, Typed, TakenOpen, Open
<1>2. q \notin pending
    BY DEF CloseQuestion, Typed, TypeOK
<1>3. pending' = pending \ {q}
    BY <1>2 DEF CloseQuestion
<1>4. /\ Close(q) /\ Put(q) /\ UNCHANGED <<job, at, agent>>
      /\ Hide(q) \/ (agent = "gone" /\ UNCHANGED <<listed, log>>)
    BY DEF CloseQuestion
<1>5. QED
    BY <1>1, <1>3, <1>4, ClosedInv

LEMMA PromptQuestionInv ==
    ASSUME TurnsAndQuestions, NEW p \in Prompts,
           \/ StartTurn(p) \/ PromptStep(p) \/ AgentEnds(p) \/ AgentFails(p)
           \/ CheckSteer(p) \/ Reserve(p)
    PROVE  QuestionInv'
<1>1. /\ Typed /\ TurnInv /\ QuestionInv /\ job \in Job /\ at \in [Prompts -> Places]
    BY DEF TurnsAndQuestions, Typed, TypeOK, Job
<1>2. CASE StartTurn(p)
    BY <1>2, QuestionsBegin DEF StartTurn
<1>3. CASE RunPrompt(p)
    <2>1. at[p] = "queued" /\ \A r \in Prompts : at[r] = "clear" => at'[r] = "clear"
        BY <1>1, <1>3 DEF RunPrompt, Go
    <2>2. CASE UNCHANGED <<job, listed>>
        BY <1>1, <1>3, <2>1, <2>2, QuestionsStay DEF RunPrompt
    <2>3. CASE TurnDone = 0 /\ listed' = {}
        BY <1>3, <2>3, QuestionsBegin DEF RunPrompt, TurnDone
    <2>4. QED
        BY <1>3, <2>2, <2>3 DEF RunPrompt
<1>4. CASE \/ SendPrompt(p) \/ AgentEnds(p) \/ AgentFails(p) \/ Complete(p) \/ Fail(p)
           \/ FailTurn(p) \/ Callback(p) \/ CheckSteer(p) \/ Reserve(p) \/ WaitForHandoff(p)
           \/ QuestionsTaken(p) \/ Discard(p)
    <2>1. at[p] # "clear" /\ \E place : at' = [at EXCEPT ![p] = place]
        BY <1>4 DEF SendPrompt, AgentEnds, AgentFails, Complete, HandOff, EndCalls, Fail,
                    FailTurn, Callback, CheckSteer, NextPrompt, Reserve, WaitForHandoff,
                    QuestionsTaken, Discard, Return, Go
    <2>2. \A r \in Prompts : at[r] = "clear" => at'[r] = "clear"
        BY <1>1, <2>1
    <2>3. job'.turn = job.turn /\ job'.finishing = job.finishing
        <3>1. \/ job' = job
              \/ \E b : job' = [job EXCEPT !.sent = b]
              \/ job' = [job EXCEPT !.calls = @ + 1]
              \/ job' = [job EXCEPT !.calls = 0]
              \/ job' = [job EXCEPT !.running = FALSE]
              \/ job' = [job EXCEPT !.calls = 0, !.running = FALSE]
              \/ job' = [job EXCEPT !.calls = @ - 1, !.handoff = FALSE, !.orphan = FALSE]
            BY <1>4 DEF SendPrompt, AgentEnds, AgentFails, Complete, HandOff, EndCalls, Fail,
                        FailTurn, Callback, CheckSteer, Reserve, WaitForHandoff,
                        QuestionsTaken, Discard
        <3>2. QED
            BY <1>1, <3>1 DEF Job
    <2>4. UNCHANGED <<pending, stage, asked, answers, log, agent>>
          /\ (listed' = listed \/ (job.turn = 0 /\ listed' = {}))
        BY <1>4 DEF SendPrompt, AgentEnds, AgentFails, Complete, Fail, FailTurn, Callback,
                    CheckSteer, Reserve, WaitForHandoff, QuestionsTaken, Discard,
                    questionVars
    <2>5. QED
        BY <1>1, <2>2, <2>3, <2>4, QuestionsStay
<1>5. CASE FinishTurn(p)
    <2>1. at[p] = "finish" /\ UNCHANGED <<questionVars, agent>>
        BY <1>5 DEF FinishTurn
    <2>2. CASE Return(p) /\ UNCHANGED job
        <3>1. \A r \in Prompts : at[r] = "clear" => at'[r] = "clear"
            BY <1>1, <2>1, <2>2 DEF Return, Go
        <3>2. QED
            BY <1>1, <2>1, <2>2, <3>1, QuestionsStay DEF questionVars
    <2>3. CASE ~(Return(p) /\ UNCHANGED job)
        <3>1. /\ job.turn = task[p].of /\ at' = [at EXCEPT ![p] = "clear"]
              /\ job' = [job EXCEPT !.finishing = job.turn, !.turn = 0, !.calls = 0,
                                    !.cancelled = FALSE, !.handoff = FALSE, !.orphan = FALSE,
                                    !.sent = FALSE]
            BY <1>5, <2>3 DEF FinishTurn, Go
        <3>2. job'.turn = 0 /\ job'.finishing = job.turn /\ at'[p] = "clear"
            BY <1>1, <3>1 DEF Job
        <3>3. job.turn # 0 /\ job.finishing = 0
            BY <1>1, <2>1, <3>1 DEF TurnInv, Carried, TurnNumbers
        <3>4. ASSUME NEW q \in pending
              PROVE  Asked(q)'
            <4>1. asked[q].turn # 0 => asked[q].turn = job.turn
                BY <1>1, <3>3 DEF QuestionInv, Asked
            <4>2. asked' = asked
                BY <2>1 DEF questionVars
            <4>3. QED
                BY <3>2, <4>1, <4>2 DEF Asked
        <3>5. ASSUME NEW q \in Questions
              PROVE  Lived(q)'
            BY <1>1, <2>1 DEF QuestionInv, Lived, questionVars
        <3>6. QED
            BY <2>1, <3>4, <3>5 DEF QuestionInv, questionVars
    <2>4. QED
        BY <2>2, <2>3
<1>6. CASE ClearQuestions(p) \/ TakeForSteer(p)
    BY <1>1, <1>6, QuestionsTakenInv DEF ClearQuestions, TakeForSteer
<1>7. CASE Release(p)
    <2>1. at[p] = "release" /\ UNCHANGED <<questionVars, agent>> /\ job' = [job EXCEPT !.finishing = 0]
        BY <1>7 DEF Release
    <2>2. /\ job.finishing # 0 /\ job.turn = 0
          /\ \A r \in Prompts : at[r] # "clear"
        <3>1. task[p].of = job.finishing /\ task[p].of \in 1..job.made
            BY <1>1, <2>1 DEF TurnInv, Carried, Finishing, Finisher
        <3>2. \A r \in Prompts : at[r] = "clear" => r = p
            BY <1>1, <2>1 DEF TurnInv, OneFinisher, Finisher
        <3>3. QED
            BY <1>1, <2>1, <3>1, <3>2 DEF TurnInv, TurnNumbers
    <2>3. job'.turn = 0
        BY <1>1, <2>1, <2>2 DEF Job
    <2>4. ASSUME NEW q \in pending
          PROVE  Asked(q)'
        <3>1. asked[q].turn = 0
            BY <1>1, <2>2 DEF QuestionInv, Asked
        <3>2. asked' = asked
            BY <2>1 DEF questionVars
        <3>3. QED
            BY <3>1, <3>2 DEF Asked
    <2>5. ASSUME NEW q \in Questions
          PROVE  Lived(q)'
        BY <1>1, <2>1 DEF QuestionInv, Lived, questionVars
    <2>6. QED
        BY <2>1, <2>4, <2>5 DEF QuestionInv, questionVars
<1>8. CASE \E q \in Questions : CloseQuestion(p, q)
    BY <1>1, <1>8, CloseQuestionInv
<1>9. QED
    BY <1>2, <1>3, <1>4, <1>5, <1>6, <1>7, <1>8 DEF PromptStep

LEMMA CancelQuestionInv ==
    ASSUME TurnsAndQuestions, NEW c \in Cancellers,
           RequestCancel(c) \/ CancelLeaves(c) \/ CancelStep(c)
    PROVE  QuestionInv'
<1>1. /\ UNCHANGED <<at, pending, listed, stage, asked, answers, log>>
      /\ agent' = agent \/ agent' = "gone"
      /\ \/ job' = job
         \/ \E b : job' = [job EXCEPT !.cancelled = b]
         \/ job' = [job EXCEPT !.running = FALSE]
    BY DEF RequestCancel, CancelLeaves, CancelStep, CancelReturns, Teardown, MarkCancelled,
           promptVars, questionVars
<1>2. job'.turn = job.turn /\ job'.finishing = job.finishing
    BY <1>1 DEF TurnsAndQuestions, Typed, TypeOK
<1>3. QED
    BY <1>1, <1>2, QuestionsStay DEF TurnsAndQuestions

LEMMA NextQuestions == TurnsAndQuestions /\ [Next]_vars => TurnsAndQuestions'
<1> SUFFICES ASSUME TurnsAndQuestions, [Next]_vars PROVE TurnsAndQuestions'
    OBVIOUS
<1>1. Typed /\ TurnInv /\ QuestionInv
    BY DEF TurnsAndQuestions
<1>2. Typed' /\ TurnInv'
    BY <1>1, NextTyped, NextTurn
<1>3. QuestionInv'
    <2>1. CASE UNCHANGED vars
        BY <1>1, <2>1, QuestionsStay DEF vars
    <2>2. CASE Next
        BY <1>1, <2>2, PromptQuestionInv, RegisterQuestionInv, PublishQuestionInv,
           WithdrawQuestionInv, CancelQuestionInv DEF Next
    <2>3. QED
        BY <2>1, <2>2
<1>4. QED
    BY <1>2, <1>3 DEF TurnsAndQuestions

LEMMA AlwaysTurnsAndQuestions == Spec => []TurnsAndQuestions
<1>1. Init => TurnsAndQuestions
    BY InitTyped, InitTurn, InitQuestion DEF TurnsAndQuestions
<1>2. QED
    BY <1>1, NextQuestions, PTL DEF Spec

\* A question the user may answer belongs to a turn that has not ended, and it is shown
\* while that turn runs (turns.go: finishTurn; pending_permission.go:
\* takePendingPermissionsLocked; job.go: discardTurnResult).
THEOREM QuestionsFollow == Spec => []QuestionsFollowTurn
<1>1. TurnsAndQuestions => QuestionsFollowTurn
    BY DEF TurnsAndQuestions, QuestionInv, Asked, QuestionsFollowTurn, Ended
<1>2. QED
    BY <1>1, AlwaysTurnsAndQuestions, PTL

\* Every question is closed once, by whoever comes first (pending_permission.go:
\* awaitPermissionAnswer, cancelPendingPermissionList; events.go: AnswerInteractive).
THEOREM RespondsOnce == Spec => []OneResponse
<1>1. TurnsAndQuestions => OneResponse
    <2> SUFFICES ASSUME TurnsAndQuestions, NEW q \in Questions
          PROVE  /\ log[q] \in {<<>>, <<"request">>, <<"request", "response">>}
                 /\ answers[q] <= 1
                 /\ stage[q] = "closed" /\ agent = "up" =>
                        q \notin listed /\ log[q] = <<"request", "response">>
        BY DEF OneResponse
    <2>1. stage[q] \in {"none", "refused", "registered", "waiting", "closed"}
        BY DEF TurnsAndQuestions, Typed, TypeOK, Open
    <2>2. Lived(q)
        BY DEF TurnsAndQuestions, QuestionInv
    <2>3. log[q] \in {<<>>, <<"request">>, <<"request", "response">>}
        BY <2>1, <2>2 DEF Lived
    <2>4. answers[q] <= 1
        <3>1. answers[q] = 0 \/ answers[q] <= 1
            BY <2>1, <2>2 DEF Lived
        <3>2. QED
            BY <3>1
    <2>5. stage[q] = "closed" /\ agent = "up" =>
              q \notin listed /\ log[q] = <<"request", "response">>
        BY <2>2 DEF Lived
    <2>6. QED
        BY <2>3, <2>4, <2>5
<1>2. QED
    BY <1>1, AlwaysTurnsAndQuestions, PTL

-----------------------------------------------------------------------------
\* A turn can end.  Every call the job counts is carried by a goroutine of the turn, which
\* goes on unless it is held, and only a hand-over holds one; while that is to come, a
\* prompt of the turn is past its hold, and once no call is left one is ending the turn.

Past == {"agent", "complete", "failed", "failing", "finish"}

Working == {"queued", "ready", "reserved", "taking"} \cup Past

Here(p) == task[p].of = job.turn

Workers == {p \in Prompts : Here(p) /\ at[p] \in Working}

Settled(p) ==
    /\ at[p] \in {"unused", "over"} => task[p] = NoTask
    /\ at[p] \in {"queued", "checked", "reserved"} => ~task[p].hold

Held(p) == job.turn # 0 /\ Here(p) /\ task[p].hold => job.handoff /\ at[p] \notin Past

CallsCarried == job.turn # 0 => job.calls <= Cardinality(Workers)

Ending(p) == Here(p) /\ at[p] \in {"failing", "finish"}

EndUnderWay == job.turn # 0 /\ job.calls = 0 => \E p \in Prompts : Ending(p)

HandoffDue ==
    job.turn # 0 /\ job.handoff /\ ~job.orphan => \E p \in Prompts : Here(p) /\ at[p] \in Past

Askers == \A q \in pending : asked[q].by \in Prompts

EndInv ==
    /\ CallsCarried /\ EndUnderWay /\ HandoffDue /\ Askers
    /\ \A p \in Prompts : Settled(p) /\ Held(p)

LEMMA InitEnd == Init => EndInv
BY DEF Init, EndInv, CallsCarried, EndUnderWay, HandoffDue, Askers, Settled, Held, NoTask

LEMMA WorkersFinite ==
    /\ IsFiniteSet(Workers) /\ Cardinality(Workers) \in Nat
    /\ IsFiniteSet(Workers') /\ Cardinality(Workers') \in Nat
<1>1. IsFiniteSet(Prompts)
    BY FS_Interval, AgentTurnAssumption DEF Prompts
<1>2. Workers \subseteq Prompts /\ Workers' \subseteq Prompts
    BY DEF Workers
<1>3. QED
    BY <1>1, <1>2, FS_Subset, FS_CardinalityType

LEMMA CallsKept ==
    ASSUME job.calls \in Nat, job'.calls \in Nat, job.turn # 0, CallsCarried,
           job'.calls <= job.calls, Workers \subseteq Workers'
    PROVE  CallsCarried'
<1>1. Cardinality(Workers) <= Cardinality(Workers')
    BY WorkersFinite, FS_Subset
<1>2. job.calls <= Cardinality(Workers)
    BY DEF CallsCarried
<1>3. job'.calls <= Cardinality(Workers')
    <2>1. \A a, b, c, d \in Nat : a <= b /\ b <= c /\ c <= d => a <= d
        OBVIOUS
    <2>2. QED
        BY <1>1, <1>2, <2>1, WorkersFinite
<1>4. QED
    BY <1>3 DEF CallsCarried

\* Where no turn runs there is nothing to end.
LEMMA NoTurnEnd ==
    ASSUME job'.turn = 0, Askers', \A p \in Prompts : Settled(p)'
    PROVE  EndInv'
BY DEF EndInv, CallsCarried, EndUnderWay, HandoffDue, Held

\* The others stay where they are.
LEMMA OthersSettled ==
    ASSUME EndInv, NEW p \in Prompts, Settled(p)',
           \A r \in Prompts \ {p} : at'[r] = at[r] /\ task'[r].hold = task[r].hold
                                    /\ (task[r] = NoTask => task'[r] = NoTask)
    PROVE  \A r \in Prompts : Settled(r)'
BY DEF EndInv, Settled

\* A goroutine goes on; the job counts as before.
LEMMA EndGoesOn ==
    ASSUME EndInv, job.calls \in Nat, NEW p \in Prompts, Settled(p)', Held(p)', Askers',
           \A r \in Prompts \ {p} :
               /\ at'[r] = at[r] /\ task'[r].of = task[r].of /\ task'[r].hold = task[r].hold
               /\ task[r] = NoTask => task'[r] = NoTask,
           Here(p) /\ at[p] \in Working => Here(p)' /\ at'[p] \in Working,
           Here(p) /\ at[p] \in Past => at'[p] \in Past,
           Here(p) /\ at[p] \in {"failing", "finish"} => at'[p] \in {"failing", "finish"},
           job'.turn = job.turn, job'.calls = job.calls,
           job'.handoff = job.handoff, job'.orphan = job.orphan
    PROVE  EndInv'
<1>1. \A r \in Prompts : Settled(r)'
    BY OthersSettled
<1>2. \A r \in Prompts : Held(r)'
    BY DEF EndInv, Held, Here
<1>3. Workers \subseteq Workers'
    BY DEF Workers, Here
<1>4. CallsCarried'
    <2>1. CASE job.turn = 0
        BY <2>1 DEF CallsCarried
    <2>2. CASE job.turn # 0
        BY <1>3, <2>2, CallsKept DEF EndInv
    <2>3. QED
        BY <2>1, <2>2
<1>5. EndUnderWay'
    BY DEF EndInv, EndUnderWay, Ending, Here, Past, Working
<1>6. HandoffDue'
    BY DEF EndInv, HandoffDue, Here, Past, Working
<1>7. QED
    BY <1>1, <1>2, <1>4, <1>5, <1>6 DEF EndInv

LEMMA EndStays ==
    ASSUME EndInv, job.calls \in Nat, Askers', at' = at,
           \A r \in Prompts :
               /\ task'[r].of = task[r].of /\ task'[r].hold = task[r].hold
               /\ task[r] = NoTask => task'[r] = NoTask,
           job'.turn = job.turn, job'.calls = job.calls,
           job'.handoff = job.handoff, job'.orphan = job.orphan
    PROVE  EndInv'
<1>1. Workers' = Workers
    BY DEF Workers, Here
<1>2. CallsCarried' /\ EndUnderWay' /\ HandoffDue'
    BY <1>1 DEF EndInv, CallsCarried, EndUnderWay, Ending, HandoffDue, Here
<1>3. \A r \in Prompts : Settled(r)' /\ Held(r)'
    BY DEF EndInv, Settled, Held, Here
<1>4. QED
    BY <1>2, <1>3 DEF EndInv

\* A goroutine returns that carries no call of the turn.
LEMMA ReturnEnd ==
    ASSUME Typed, EndInv, NEW p \in Prompts, Return(p), UNCHANGED <<pending, asked>>,
           job'.turn = job.turn, job'.calls = job.calls,
           job'.handoff = job.handoff, job'.orphan = job.orphan,
           Here(p) => at[p] \notin Working
    PROVE  EndInv'
<1>1. /\ at \in [Prompts -> Places] /\ at' = [at EXCEPT ![p] = "over"] /\ job.calls \in Nat
      /\ task \in [Prompts -> Task] /\ task' = [task EXCEPT ![p] = NoTask]
    BY DEF Return, Go, Typed, TypeOK
<1>2. /\ at'[p] = "over" /\ task'[p] = NoTask
      /\ \A r \in Prompts \ {p} : at'[r] = at[r] /\ task'[r] = task[r]
    BY <1>1
<1>3. Settled(p)' /\ Held(p)' /\ Askers'
    BY <1>2 DEF Settled, Held, NoTask, EndInv, Askers
<1>4. Past \subseteq Working /\ {"failing", "finish"} \subseteq Past
    BY DEF Past, Working
<1>5. QED
    BY <1>1, <1>2, <1>3, <1>4, EndGoesOn

\* A turn begins: its number is new, and its call is the goroutine's that begins it.
LEMMA BeginsEnd ==
    ASSUME Typed, TurnInv, EndInv, NEW p \in Prompts, at[p] \in {"unused", "queued"},
           job.made < MaxTurns, job' = Begun(job.made + 1),
           task' = [task EXCEPT ![p].of = job.made + 1],
           NEW place \in {"queued", "ready", "failed", "failing"}, Go(p, place),
           UNCHANGED <<pending, asked>>
    PROVE  EndInv'
<1>1. /\ at \in [Prompts -> Places] /\ at' = [at EXCEPT ![p] = place]
      /\ task \in [Prompts -> Task] /\ job \in Job
    BY DEF Go, Typed, TypeOK, Job
<1>2. /\ job'.turn = job.made + 1 /\ job'.calls = 1 /\ ~job'.handoff
      /\ job.made \in Nat /\ job.turn \in Nat /\ job.turn <= job.made
    BY <1>1 DEF Begun, Job, TurnInv, TurnNumbers
<1>3. /\ task'[p] = [task[p] EXCEPT !.of = job.made + 1] /\ at'[p] = place
      /\ \A r \in Prompts \ {p} : at'[r] = at[r] /\ task'[r] = task[r]
    BY <1>1
<1>4. ~task[p].hold
    BY DEF EndInv, Settled, NoTask
<1>5. task'[p].of = job'.turn /\ ~task'[p].hold
    BY <1>1, <1>2, <1>3, <1>4 DEF Task
<1>6. ASSUME NEW r \in Prompts, r # p
      PROVE  ~Here(r)'
    <2>1. task[r].of # job.made + 1
        BY <1>2 DEF TurnInv, Carried, EndInv, Settled, NoTask
    <2>2. QED
        BY <1>2, <1>3, <1>6, <2>1 DEF Here
<1>7. Settled(p)'
    BY <1>3, <1>5 DEF Settled
<1>8. \A r \in Prompts : Settled(r)'
    BY <1>3, <1>7, OthersSettled
<1>9. \A r \in Prompts : Held(r)'
    BY <1>5, <1>6 DEF Held
<1>10. CallsCarried'
    <2>1. Workers' = {p}
        BY <1>3, <1>5, <1>6 DEF Workers, Here, Working, Past
    <2>2. Cardinality(Workers') = 1
        BY <2>1, FS_Singleton
    <2>3. QED
        BY <1>2, <2>2 DEF CallsCarried
<1>11. EndUnderWay' /\ HandoffDue' /\ Askers'
    BY <1>2 DEF EndUnderWay, HandoffDue, EndInv, Askers
<1>12. QED
    BY <1>8, <1>9, <1>10, <1>11 DEF EndInv

LEMMA StartEnd ==
    ASSUME Typed, TurnInv, EndInv, NEW p \in Prompts, StartTurn(p)
    PROVE  EndInv'
<1>1. PICK place \in {"queued", "failed"} : Go(p, place)
    BY DEF StartTurn
<1>2. at[p] = "unused"
    BY DEF StartTurn, NextPrompt
<1>3. QED
    BY <1>1, <1>2, BeginsEnd DEF StartTurn

LEMMA RunEnd ==
    ASSUME Typed, TurnInv, EndInv, NEW p \in Prompts, RunPrompt(p)
    PROVE  EndInv'
<1>1. /\ at[p] = "queued" /\ UNCHANGED <<pending, asked>>
      /\ Go(p, IF agent = "gone" THEN "failing" ELSE "ready")
    BY DEF RunPrompt
<1>2. PICK place \in {"ready", "failing"} : Go(p, place)
    BY <1>1
<1>3. CASE /\ TurnDone = 0 /\ job.made < MaxTurns
           /\ task' = [task EXCEPT ![p].of = job.made + 1]
           /\ job' = Begun(job.made + 1)
    BY <1>1, <1>2, <1>3, BeginsEnd
<1>4. CASE TurnDone # 0 /\ task' = [task EXCEPT ![p].of = TurnDone] /\ UNCHANGED job
    <2>1. /\ at \in [Prompts -> Places] /\ at' = [at EXCEPT ![p] = place]
          /\ task \in [Prompts -> Task] /\ job.calls \in Nat
        BY <1>2 DEF Go, Typed, TypeOK
    <2>2. /\ at'[p] = place /\ task'[p] = [task[p] EXCEPT !.of = TurnDone]
          /\ \A r \in Prompts \ {p} : at'[r] = at[r] /\ task'[r] = task[r]
        BY <1>4, <2>1
    <2>3. ~task[p].hold
        BY <1>1 DEF EndInv, Settled
    <2>4. task'[p].of = TurnDone /\ ~task'[p].hold
        BY <2>1, <2>2, <2>3 DEF Task
    <2>5. Settled(p)' /\ Held(p)' /\ Askers'
        BY <1>1, <2>2, <2>4 DEF Settled, Held, Askers, EndInv
    <2>6. CASE job.turn = 0
        <3>1. \A r \in Prompts : Settled(r)'
            BY <2>2, <2>5, OthersSettled
        <3>2. QED
            BY <1>4, <2>5, <2>6, <3>1, NoTurnEnd
    <2>7. CASE job.turn # 0
        <3>1. Here(p)' /\ at'[p] \in Working
            BY <1>4, <2>2, <2>4, <2>7 DEF Here, TurnDone, Working, Past
        <3>2. at[p] \notin Past /\ at[p] \notin {"failing", "finish"}
            BY <1>1 DEF Past
        <3>3. QED
            BY <1>4, <2>1, <2>2, <2>5, <3>1, <3>2, EndGoesOn
    <2>8. QED
        BY <2>6, <2>7
<1>5. QED
    BY <1>3, <1>4 DEF RunPrompt

\* A goroutine goes to another place with what it has.
LEMMA GoEnd ==
    ASSUME Typed, EndInv, NEW p \in Prompts, NEW place \in Places, Go(p, place),
           at[p] \notin {"unused", "over"}, place \notin {"unused", "over", "queued",
           "checked", "reserved"},
           \A r \in Prompts :
               /\ task'[r].of = task[r].of /\ task'[r].hold = task[r].hold
               /\ r # p /\ task[r] = NoTask => task'[r] = NoTask,
           job'.turn = job.turn, job'.calls = job.calls,
           job'.handoff = job.handoff, job'.orphan = job.orphan,
           Askers',
           Here(p) /\ at[p] \in Working => place \in Working,
           Here(p) /\ at[p] \in Past => place \in Past,
           Here(p) /\ at[p] \in {"failing", "finish"} => place \in {"failing", "finish"},
           Here(p) /\ place \in Past => at[p] \in Past \/ ~task[p].hold
    PROVE  EndInv'
<1>1. at \in [Prompts -> Places] /\ at' = [at EXCEPT ![p] = place] /\ job.calls \in Nat
    BY DEF Go, Typed, TypeOK
<1>2. at'[p] = place /\ \A r \in Prompts \ {p} : at'[r] = at[r]
    BY <1>1
<1>3. Settled(p)'
    BY <1>2 DEF Settled
<1>4. Held(p)'
    BY <1>2 DEF EndInv, Held, Here
<1>5. Here(p)' <=> Here(p)
    BY DEF Here
<1>6. QED
    BY <1>1, <1>2, <1>3, <1>4, <1>5, EndGoesOn

LEMMA OneFieldTask ==
    ASSUME Typed, NEW p \in Prompts,
           \/ UNCHANGED task
           \/ \E b : task' = [task EXCEPT ![p].saw = b]
           \/ \E s : task' = [task EXCEPT ![p].taken = s]
    PROVE  \A r \in Prompts :
               /\ task'[r].of = task[r].of /\ task'[r].hold = task[r].hold
               /\ r # p /\ task[r] = NoTask => task'[r] = NoTask
<1>1. task \in [Prompts -> Task]
    BY DEF Typed, TypeOK
<1>2. CASE UNCHANGED task
    BY <1>2
<1>3. ASSUME NEW b, task' = [task EXCEPT ![p].saw = b]
      PROVE  \A r \in Prompts :
               /\ task'[r].of = task[r].of /\ task'[r].hold = task[r].hold
               /\ r # p /\ task[r] = NoTask => task'[r] = NoTask
    BY <1>1, <1>3 DEF Task
<1>4. ASSUME NEW s, task' = [task EXCEPT ![p].taken = s]
      PROVE  \A r \in Prompts :
               /\ task'[r].of = task[r].of /\ task'[r].hold = task[r].hold
               /\ r # p /\ task[r] = NoTask => task'[r] = NoTask
    BY <1>1, <1>4 DEF Task
<1>5. QED
    BY <1>2, <1>3, <1>4

LEMMA AskersStay ==
    ASSUME EndInv, UNCHANGED <<pending, asked>>
    PROVE  Askers'
BY DEF EndInv, Askers

LEMMA SendEnd ==
    ASSUME Typed, EndInv, NEW p \in Prompts, SendPrompt(p)
    PROVE  EndInv'
<1>1. /\ at[p] = "ready" /\ UNCHANGED <<pending, asked>> /\ Askers'
      /\ task[p].hold => Ended(task[p].of)
    BY AskersStay DEF SendPrompt, questionVars
<1>2. Ended(task[p].of) => ~Here(p)
    BY DEF Ended, Here
<1>3. CASE Ended(task[p].of) /\ Return(p) /\ UNCHANGED job
    BY <1>1, <1>2, <1>3, ReturnEnd
<1>4. CASE ~(Ended(task[p].of) /\ Return(p) /\ UNCHANGED job)
    <2>1. /\ UNCHANGED task /\ \E b : job' = [job EXCEPT !.sent = b]
          /\ \E place \in {"failed", "agent"} : Go(p, place)
        BY <1>4 DEF SendPrompt
    <2>2. /\ job'.turn = job.turn /\ job'.calls = job.calls
          /\ job'.handoff = job.handoff /\ job'.orphan = job.orphan
        BY <2>1 DEF Typed, TypeOK
    <2>3. PICK place \in {"failed", "agent"} : Go(p, place)
        BY <2>1
    <2>4. place \in Places /\ place \in Working /\ place \notin {"failing", "finish"}
          /\ place \notin {"unused", "over", "queued", "checked", "reserved"}
          /\ at[p] \notin Past /\ at[p] \notin {"unused", "over", "failing", "finish"}
        BY <1>1 DEF Places, Working, Past
    <2>5. QED
        BY <1>1, <1>2, <2>1, <2>2, <2>3, <2>4, GoEnd, OneFieldTask
<1>5. QED
    BY <1>3, <1>4

LEMMA AgentEnd ==
    ASSUME Typed, EndInv, NEW p \in Prompts, AgentEnds(p) \/ AgentFails(p) \/ FailTurn(p)
    PROVE  EndInv'
<1>1. UNCHANGED <<pending, asked>> /\ Askers'
    BY AskersStay DEF AgentEnds, AgentFails, FailTurn, questionVars
<1>2. /\ job'.turn = job.turn /\ job'.calls = job.calls
      /\ job'.handoff = job.handoff /\ job'.orphan = job.orphan
    BY DEF AgentEnds, AgentFails, FailTurn, Typed, TypeOK
<1>3. \A r \in Prompts :
          /\ task'[r].of = task[r].of /\ task'[r].hold = task[r].hold
          /\ r # p /\ task[r] = NoTask => task'[r] = NoTask
    BY OneFieldTask DEF AgentEnds, AgentFails, FailTurn
<1>4. PICK place \in {"complete", "failed", "finish"} :
          /\ Go(p, place) /\ at[p] \in {"agent", "failing"}
          /\ at[p] = "failing" => place = "finish"
    BY DEF AgentEnds, AgentFails, FailTurn
<1>5. place \in Places /\ place \in Working /\ at[p] \in Past /\ place \in Past
      /\ place \notin {"unused", "over", "queued", "checked", "reserved"}
      /\ at[p] \notin {"unused", "over"}
    BY <1>4 DEF Places, Working, Past
<1>6. QED
    BY <1>1, <1>2, <1>3, <1>4, <1>5, GoEnd

\* A call is answered or fails when none is left: another goroutine ends the turn.
LEMMA LateReturnEnd ==
    ASSUME Typed, TurnInv, EndInv, NEW p \in Prompts, at[p] \in {"complete", "failed"},
           ~Mine(p), Return(p), UNCHANGED <<job, pending, asked>>
    PROVE  EndInv'
<1>1. CASE ~Here(p)
    BY <1>1, ReturnEnd
<1>2. CASE Here(p)
    <2>1. /\ at \in [Prompts -> Places] /\ at' = [at EXCEPT ![p] = "over"] /\ job.calls \in Nat
          /\ task \in [Prompts -> Task] /\ task' = [task EXCEPT ![p] = NoTask] /\ job \in Job
        BY DEF Return, Go, Typed, TypeOK, Job
    <2>2. /\ at'[p] = "over" /\ task'[p] = NoTask
          /\ \A r \in Prompts \ {p} : at'[r] = at[r] /\ task'[r] = task[r]
        BY <2>1
    <2>3. job.turn # 0 /\ job.calls = 0
        BY <1>2, <2>1 DEF Mine, Here, TurnInv, Carried
    <2>4. PICK r \in Prompts : Ending(r)
        BY <2>3 DEF EndInv, EndUnderWay
    <2>5. r # p /\ Ending(r)'
        BY <2>2, <2>4 DEF Ending, Here
    <2>6. EndUnderWay' /\ HandoffDue'
        BY <2>5 DEF EndUnderWay, HandoffDue, Ending, Past
    <2>7. CallsCarried'
        BY <2>3, WorkersFinite DEF CallsCarried
    <2>8. Settled(p)' /\ Held(p)'
        BY <2>2 DEF Settled, Held, NoTask
    <2>9. \A s \in Prompts : Settled(s)' /\ Held(s)'
        BY <2>2, <2>8, OthersSettled DEF EndInv, Held, Here
    <2>10. QED
        BY <2>6, <2>7, <2>9, AskersStay DEF EndInv
<1>3. QED
    BY <1>1, <1>2

\* The job counts no call any more, and the goroutine is about to end the turn.
LEMMA LastCallEnd ==
    ASSUME Typed, EndInv, NEW p \in Prompts, Here(p), at[p] \in {"complete", "failed"},
           NEW place \in {"failing", "finish"}, Go(p, place), UNCHANGED <<task, pending, asked>>,
           job'.turn = job.turn, job'.calls = 0, job'.handoff = job.handoff
    PROVE  EndInv'
<1>1. at \in [Prompts -> Places] /\ at' = [at EXCEPT ![p] = place]
    BY DEF Go, Typed, TypeOK
<1>2. at'[p] = place /\ \A r \in Prompts \ {p} : at'[r] = at[r]
    BY <1>1
<1>3. Ending(p)' /\ Here(p)' /\ at'[p] \in Past
    BY <1>2 DEF Ending, Here, Past
<1>4. EndUnderWay' /\ HandoffDue'
    BY <1>3 DEF EndUnderWay, HandoffDue
<1>5. CallsCarried'
    BY WorkersFinite DEF CallsCarried
<1>6. Settled(p)' /\ Held(p)'
    BY <1>2 DEF EndInv, Settled, Held, Here, Past
<1>7. \A s \in Prompts : Settled(s)' /\ Held(s)'
    BY <1>2, <1>6, OthersSettled DEF EndInv, Held, Here
<1>8. QED
    BY <1>4, <1>5, <1>7, AskersStay DEF EndInv

\* The prompt hands over: of its turn nobody is held any more, and one call less is left.
LEMMA HandOffEnd ==
    ASSUME Typed, TurnInv, EndInv, NEW p \in Prompts, at[p] = "complete", Mine(p),
           job.calls > 1, HandOff(p), UNCHANGED <<pending, asked>>
    PROVE  EndInv'
<1>1. /\ at \in [Prompts -> Places] /\ at' = [at EXCEPT ![p] = "over"]
      /\ task \in [Prompts -> Task] /\ job \in Job /\ job.calls \in Nat
      /\ job' = [job EXCEPT !.calls = @ - 1, !.handoff = FALSE, !.orphan = FALSE]
    BY DEF HandOff, Go, Typed, TypeOK, Job
<1>2. job'.turn = job.turn /\ job'.calls = job.calls - 1 /\ ~job'.handoff
    BY <1>1 DEF Job
<1>3. at'[p] = "over" /\ \A r \in Prompts \ {p} : at'[r] = at[r]
    BY <1>1
<1>4. task'[p] = NoTask
    BY DEF HandOff
<1>5. \A r \in Prompts \ {p} :
          task'[r] = IF task[r].of = job.turn THEN [task[r] EXCEPT !.hold = FALSE] ELSE task[r]
    BY DEF HandOff
<1>6. job.turn # 0
    BY <1>1 DEF TurnInv, Carried, Mine, Job
<1>7. ASSUME NEW r \in Prompts, r # p
      PROVE  /\ task'[r].of = task[r].of
             /\ task'[r].hold => task[r].hold /\ task[r].of # job.turn
             /\ task[r] = NoTask => task'[r] = NoTask
    <2>1. CASE task[r].of = job.turn
        <3>1. task'[r] = [task[r] EXCEPT !.hold = FALSE] /\ task[r] \in Task
            BY <1>1, <1>5, <1>7, <2>1
        <3>2. task'[r].of = task[r].of /\ ~task'[r].hold
            BY <3>1 DEF Task
        <3>3. task[r] # NoTask
            BY <1>6, <2>1 DEF NoTask
        <3>4. QED
            BY <3>2, <3>3
    <2>2. CASE task[r].of # job.turn
        BY <1>5, <1>7, <2>2
    <2>3. QED
        BY <2>1, <2>2
<1>8. \A r \in Prompts : Settled(r)' /\ Held(r)'
    <2>1. ASSUME NEW r \in Prompts, r # p
          PROVE  Settled(r)' /\ Held(r)'
        BY <1>2, <1>3, <1>7, <2>1 DEF EndInv, Settled, Held, Here
    <2>2. Settled(p)' /\ Held(p)'
        BY <1>3, <1>4 DEF Settled, Held, NoTask
    <2>3. QED
        BY <2>1, <2>2
<1>9. CallsCarried'
    <2>1. p \in Workers /\ job.turn # 0
        BY <1>6 DEF Workers, Here, Mine, Working, Past
    <2>2. Workers' = Workers \ {p}
        BY <1>2, <1>3, <1>7 DEF Workers, Here, Working, Past
    <2>3. Cardinality(Workers') = Cardinality(Workers) - 1
        BY <2>1, <2>2, WorkersFinite, FS_RemoveElement
    <2>4. job.calls <= Cardinality(Workers)
        BY <2>1 DEF EndInv, CallsCarried
    <2>5. QED
        BY <1>1, <1>2, <2>3, <2>4, WorkersFinite DEF CallsCarried
<1>10. EndUnderWay' /\ HandoffDue'
    BY <1>1, <1>2 DEF EndUnderWay, HandoffDue
<1>11. QED
    BY <1>8, <1>9, <1>10, AskersStay DEF EndInv

LEMMA CallEnd ==
    ASSUME Typed, TurnInv, EndInv, NEW p \in Prompts, Complete(p) \/ Fail(p)
    PROVE  EndInv'
<1>1. /\ at[p] \in {"complete", "failed"} /\ UNCHANGED <<pending, asked>>
      /\ Mine(p) => Here(p)
    BY DEF Complete, Fail, questionVars, Mine, Here
<1>2. CASE ~Mine(p) /\ Return(p) /\ UNCHANGED job
    BY <1>1, <1>2, LateReturnEnd
<1>3. CASE at[p] = "complete" /\ Mine(p) /\ job.calls > 1 /\ HandOff(p)
    BY <1>1, <1>3, HandOffEnd
<1>4. CASE Mine(p) /\ EndCalls(p)
    <2>1. job'.turn = job.turn /\ job'.calls = 0 /\ job'.handoff = job.handoff
        BY <1>4 DEF EndCalls, Typed, TypeOK
    <2>2. Go(p, "finish") /\ UNCHANGED task
        BY <1>4 DEF EndCalls
    <2>3. QED
        BY <1>1, <1>4, <2>1, <2>2, LastCallEnd
<1>5. CASE /\ Mine(p) /\ Go(p, "failing") /\ UNCHANGED task
           /\ job' = [job EXCEPT !.calls = 0]
    <2>1. job'.turn = job.turn /\ job'.calls = 0 /\ job'.handoff = job.handoff
        BY <1>5 DEF Typed, TypeOK
    <2>2. QED
        BY <1>1, <1>5, <2>1, LastCallEnd
<1>6. QED
    BY <1>2, <1>3, <1>4, <1>5 DEF Complete, Fail

LEMMA FinishEnd ==
    ASSUME Typed, EndInv, NEW p \in Prompts, FinishTurn(p)
    PROVE  EndInv'
<1>1. at[p] = "finish" /\ UNCHANGED <<pending, asked>> /\ Askers'
    BY AskersStay DEF FinishTurn, questionVars
<1>2. CASE job.turn # task[p].of
    BY <1>1, <1>2, ReturnEnd DEF FinishTurn, Here
<1>3. CASE job.turn = task[p].of
    <2>1. job'.turn = 0 /\ Go(p, "clear") /\ UNCHANGED task
        BY <1>3 DEF FinishTurn, Typed, TypeOK
    <2>2. /\ at \in [Prompts -> Places] /\ at' = [at EXCEPT ![p] = "clear"]
        BY <2>1 DEF Go, Typed, TypeOK
    <2>3. at'[p] = "clear" /\ \A r \in Prompts \ {p} : at'[r] = at[r]
        BY <2>2
    <2>4. Settled(p)'
        BY <2>3 DEF Settled
    <2>5. \A r \in Prompts : Settled(r)'
        BY <2>1, <2>3, <2>4, OthersSettled
    <2>6. QED
        BY <1>1, <2>1, <2>5, NoTurnEnd
<1>4. QED
    BY <1>2, <1>3

\* The end of the turn, after the job has let it go.
LEMMA CleanupEnd ==
    ASSUME Typed, EndInv, NEW p \in Prompts,
           ClearQuestions(p) \/ Callback(p) \/ Release(p) \/ Discard(p) \/ QuestionsTaken(p)
    PROVE  EndInv'
<1>1. Askers'
    BY DEF EndInv, Askers, ClearQuestions, Callback, Release, Discard, QuestionsTaken, questionVars
<1>2. /\ job'.turn = job.turn /\ job'.calls = job.calls
      /\ job'.handoff = job.handoff /\ job'.orphan = job.orphan
    BY DEF ClearQuestions, Callback, Release, Discard, QuestionsTaken, Typed, TypeOK
<1>3. CASE Discard(p)
    BY <1>2, <1>3, ReturnEnd DEF Discard, Working, Past
<1>4. CASE ClearQuestions(p) \/ Callback(p) \/ Release(p) \/ QuestionsTaken(p)
    <2>1. PICK place \in {"clearing", "release", "discard", "ready"} :
              /\ Go(p, place) /\ at[p] \in {"clear", "clearing", "release", "taking"}
              /\ at[p] = "taking" => place = "ready"
        BY <1>4 DEF ClearQuestions, Callback, Release, QuestionsTaken
    <2>2. place \in Places /\ (at[p] \in Working => place \in Working)
          /\ place \notin {"unused", "over", "queued", "checked", "reserved"}
          /\ at[p] \notin Past /\ at[p] \notin {"unused", "over", "failing", "finish"}
          /\ place \notin Past
        BY <2>1 DEF Places, Working, Past
    <2>3. \A r \in Prompts :
              /\ task'[r].of = task[r].of /\ task'[r].hold = task[r].hold
              /\ r # p /\ task[r] = NoTask => task'[r] = NoTask
        BY <1>4, OneFieldTask DEF ClearQuestions, Callback, Release, QuestionsTaken
    <2>4. QED
        BY <1>1, <1>2, <2>1, <2>2, <2>3, GoEnd
<1>5. QED
    BY <1>3, <1>4

LEMMA CheckEnd ==
    ASSUME Typed, EndInv, NEW p \in Prompts, CheckSteer(p)
    PROVE  EndInv'
<1>1. /\ at \in [Prompts -> Places] /\ at' = [at EXCEPT ![p] = "checked"] /\ at[p] = "unused"
      /\ task \in [Prompts -> Task] /\ UNCHANGED <<job, pending, asked>> /\ job.calls \in Nat
      /\ \E kind : task' = [task EXCEPT ![p].of = job.turn, ![p].kind = kind]
    BY DEF CheckSteer, NextPrompt, Go, Typed, TypeOK, questionVars
<1>2. at'[p] = "checked" /\ \A r \in Prompts \ {p} : at'[r] = at[r] /\ task'[r] = task[r]
    BY <1>1
<1>3. ~task[p].hold
    BY <1>1 DEF EndInv, Settled, NoTask
<1>4. ~task'[p].hold
    BY <1>1, <1>3 DEF Task
<1>5. Settled(p)' /\ Held(p)' /\ Askers'
    BY <1>1, <1>2, <1>4, AskersStay DEF Settled, Held
<1>6. at[p] \notin Working /\ at[p] \notin Past /\ at[p] \notin {"failing", "finish"}
    BY <1>1 DEF Working, Past
<1>7. QED
    BY <1>1, <1>2, <1>5, <1>6, EndGoesOn

\* A steer joins the turn that runs: one call more, and its goroutine to carry it.
LEMMA ReserveEnd ==
    ASSUME Typed, EndInv, NEW p \in Prompts, Reserve(p)
    PROVE  EndInv'
<1>1. at[p] = "checked" /\ UNCHANGED <<pending, asked>> /\ at[p] \notin Working
    BY DEF Reserve, questionVars, Working, Past
<1>2. CASE Return(p) /\ UNCHANGED job
    BY <1>1, <1>2, ReturnEnd
<1>3. CASE /\ job.turn # 0 /\ job.calls > 0
           /\ job' = [job EXCEPT !.calls = @ + 1]
           /\ task' = [task EXCEPT ![p].of = job.turn]
           /\ Go(p, "reserved")
    <2>1. /\ at \in [Prompts -> Places] /\ at' = [at EXCEPT ![p] = "reserved"]
          /\ task \in [Prompts -> Task] /\ job \in Job /\ job.calls \in Nat
        BY <1>3 DEF Go, Typed, TypeOK, Job
    <2>2. /\ job'.turn = job.turn /\ job'.calls = job.calls + 1
          /\ job'.handoff = job.handoff /\ job'.orphan = job.orphan
        BY <1>3, <2>1 DEF Job
    <2>3. at'[p] = "reserved" /\ \A r \in Prompts \ {p} : at'[r] = at[r] /\ task'[r] = task[r]
        BY <1>3, <2>1
    <2>4. ~task[p].hold
        BY <1>1 DEF EndInv, Settled
    <2>5. task'[p].of = job.turn /\ ~task'[p].hold
        BY <1>3, <2>1, <2>4 DEF Task
    <2>6. Settled(p)' /\ Held(p)'
        BY <2>3, <2>5 DEF Settled, Held
    <2>7. \A r \in Prompts : Settled(r)' /\ Held(r)'
        BY <2>2, <2>3, <2>6, OthersSettled DEF EndInv, Held, Here
    <2>8. CallsCarried'
        <3>1. p \notin Workers
            BY <1>1 DEF Workers
        <3>2. Workers' = Workers \cup {p}
            BY <2>2, <2>3, <2>5 DEF Workers, Here, Working
        <3>3. Cardinality(Workers') = Cardinality(Workers) + 1
            BY <3>1, <3>2, WorkersFinite, FS_AddElement
        <3>4. job.calls <= Cardinality(Workers)
            BY <1>3 DEF EndInv, CallsCarried
        <3>5. QED
            BY <2>1, <2>2, <3>3, <3>4, WorkersFinite DEF CallsCarried
    <2>9. EndUnderWay'
        BY <1>3, <2>1, <2>2 DEF EndUnderWay
    <2>10. HandoffDue'
        <3>1. CASE job.handoff /\ ~job.orphan
            <4>1. PICK r \in Prompts : Here(r) /\ at[r] \in Past
                BY <1>3, <3>1 DEF EndInv, HandoffDue
            <4>2. r # p
                BY <1>1, <4>1 DEF Working
            <4>3. Here(r)' /\ at'[r] \in Past
                BY <2>2, <2>3, <4>1, <4>2 DEF Here
            <4>4. QED
                BY <4>3 DEF HandoffDue
        <3>2. QED
            BY <2>2, <3>1 DEF HandoffDue
    <2>11. QED
        BY <1>1, <2>7, <2>8, <2>9, <2>10, AskersStay DEF EndInv
<1>4. QED
    BY <1>2, <1>3 DEF Reserve

LEMMA WaitEnd ==
    ASSUME Typed, EndInv, NEW p \in Prompts, WaitForHandoff(p)
    PROVE  EndInv'
<1>1. /\ at \in [Prompts -> Places] /\ at' = [at EXCEPT ![p] = "ready"] /\ at[p] = "reserved"
      /\ task \in [Prompts -> Task] /\ UNCHANGED <<job, pending, asked>> /\ job.calls \in Nat
      /\ task' = [task EXCEPT ![p].hold = job.turn = task[p].of /\ job.handoff]
    BY DEF WaitForHandoff, Go, Typed, TypeOK, questionVars
<1>2. at'[p] = "ready" /\ \A r \in Prompts \ {p} : at'[r] = at[r] /\ task'[r] = task[r]
    BY <1>1
<1>3. task'[p].of = task[p].of /\ (task'[p].hold => job.handoff)
    BY <1>1 DEF Task
<1>4. Settled(p)' /\ Held(p)' /\ Askers'
    BY <1>1, <1>2, <1>3, AskersStay DEF Settled, Held, Past
<1>5. at[p] \notin Past /\ at[p] \notin {"failing", "finish"} /\ at'[p] \in Working
    BY <1>1, <1>2 DEF Working, Past
<1>6. Here(p) => Here(p)'
    BY <1>1, <1>3 DEF Here
<1>7. QED
    BY <1>1, <1>2, <1>4, <1>5, <1>6, EndGoesOn

\* A steer that holds for a hand-over leaves a prompt that owes it: the one that asked the
\* question it took, or the one the hand-over was due from before.
LEMMA TakeEnd ==
    ASSUME Typed, EndInv, NEW p \in Prompts, TakeForSteer(p)
    PROVE  EndInv'
<1>1. PICK hold \in BOOLEAN, late \in BOOLEAN, place \in {"ready", "taking"} :
         /\ hold <=> job.turn = task[p].of /\ (job.handoff \/ pending # {})
         /\ late <=> \E q \in pending :
                         at[asked[q].by] # "agent" \/ task[asked[q].by].of # job.turn
         /\ job' = IF job.turn = task[p].of
                   THEN [job EXCEPT !.handoff = hold, !.orphan = @ \/ late] ELSE job
         /\ task' = [task EXCEPT ![p].taken = pending, ![p].hold = hold]
         /\ Go(p, place)
    BY DEF TakeForSteer
<1>2. /\ at \in [Prompts -> Places] /\ at' = [at EXCEPT ![p] = place] /\ at[p] = "reserved"
      /\ task \in [Prompts -> Task] /\ job \in Job /\ job.calls \in Nat /\ pending' = {}
    BY <1>1 DEF TakeForSteer, Go, Typed, TypeOK, Job
<1>3. at'[p] = place /\ \A r \in Prompts \ {p} : at'[r] = at[r] /\ task'[r] = task[r]
    BY <1>1, <1>2
<1>4. task'[p].of = task[p].of /\ (task'[p].hold <=> hold)
    BY <1>1, <1>2 DEF Task
<1>5. Settled(p)' /\ Askers'
    BY <1>2, <1>3 DEF Settled, Askers
<1>6. at[p] \notin Past /\ at[p] \notin {"failing", "finish"}
      /\ at'[p] \in Working /\ at'[p] \notin Past
    BY <1>2, <1>3 DEF Working, Past
<1>7. CASE ~Here(p)
    <2>1. job' = job /\ ~Here(p)'
        BY <1>1, <1>4, <1>7 DEF Here
    <2>2. Held(p)'
        BY <2>1 DEF Held
    <2>3. QED
        BY <1>2, <1>3, <1>5, <1>7, <2>1, <2>2, EndGoesOn
<1>8. CASE Here(p)
    <2>1. /\ job'.turn = job.turn /\ job'.calls = job.calls
          /\ (job'.handoff <=> hold) /\ (job'.orphan <=> job.orphan \/ late)
        BY <1>1, <1>2, <1>8 DEF Job, Here
    <2>2. hold <=> job.handoff \/ pending # {}
        BY <1>1, <1>8 DEF Here
    <2>3. \A r \in Prompts : Here(r)' <=> Here(r)
        BY <1>3, <1>4, <2>1 DEF Here
    <2>4. \A r \in Prompts : Settled(r)'
        BY <1>3, <1>5, OthersSettled
    <2>5. \A r \in Prompts : Held(r)'
        BY <1>3, <1>4, <1>6, <2>1, <2>2, <2>3 DEF EndInv, Held
    <2>6. Workers \subseteq Workers'
        BY <1>3, <1>6, <2>3 DEF Workers
    <2>7. CallsCarried'
        BY <1>2, <2>1, <2>6, CallsKept DEF EndInv, CallsCarried
    <2>8. EndUnderWay'
        BY <1>2, <1>3, <2>1, <2>3 DEF EndInv, EndUnderWay, Ending
    <2>9. HandoffDue'
        <3> SUFFICES ASSUME job.turn # 0, hold, ~job.orphan, ~late
                     PROVE  \E r \in Prompts : Here(r) /\ at[r] \in Past
            BY <1>3, <1>6, <2>1, <2>3 DEF HandoffDue
        <3>1. CASE job.handoff
            BY <3>1 DEF EndInv, HandoffDue
        <3>2. CASE pending # {}
            <4>1. PICK q \in pending : asked[q].by \in Prompts
                BY <3>2 DEF EndInv, Askers
            <4>2. at[asked[q].by] = "agent" /\ Here(asked[q].by)
                BY <1>1, <4>1 DEF Here
            <4>3. QED
                BY <4>1, <4>2 DEF Past
        <3>3. QED
            BY <2>2, <3>1, <3>2
    <2>10. QED
        BY <1>5, <2>4, <2>5, <2>7, <2>8, <2>9 DEF EndInv
<1>9. QED
    BY <1>7, <1>8

LEMMA QuestionEnd ==
    ASSUME Typed, EndInv, NEW q \in Questions,
           \/ \E p \in Prompts : Register(q, p) \/ CloseQuestion(p, q)
           \/ Publish(q) \/ Withdraw(q) \/ Answer(q)
    PROVE  EndInv'
<1>1. UNCHANGED <<at, job>> /\ job.calls \in Nat
    BY DEF Register, CloseQuestion, Publish, Withdraw, Answer, promptVars, Typed, TypeOK
<1>2. task \in [Prompts -> Task] /\ asked \in [Questions -> [by : 0..MaxPrompts, turn : 0..MaxTurns]]
      /\ pending \subseteq Questions
    BY DEF Typed, TypeOK
<1>3. ASSUME UNCHANGED task, Askers'
      PROVE  EndInv'
    BY <1>1, <1>3, EndStays
<1>4. ASSUME NEW p \in Prompts, Register(q, p)
      PROVE  EndInv'
    <2>1. UNCHANGED task
        BY <1>4 DEF Register, promptVars
    <2>2. Askers'
        <3>1. CASE UNCHANGED <<asked, pending>>
            BY <3>1, AskersStay
        <3>2. CASE /\ asked' = [asked EXCEPT ![q] = [by |-> p, turn |-> job.turn]]
                   /\ pending' = pending \cup {q}
            BY <1>2, <3>2 DEF EndInv, Askers
        <3>3. QED
            BY <1>4, <3>1, <3>2 DEF Register
    <2>3. QED
        BY <1>3, <2>1, <2>2
<1>5. CASE Publish(q)
    BY <1>3, <1>5, AskersStay DEF Publish, promptVars
<1>6. CASE Withdraw(q) \/ Answer(q)
    <2>1. /\ UNCHANGED task /\ pending' = pending \ {q}
          /\ asked' = [asked EXCEPT ![q] = NoQuestion]
        BY <1>6 DEF Withdraw, Answer, Close, promptVars
    <2>2. Askers'
        BY <1>2, <2>1 DEF EndInv, Askers
    <2>3. QED
        BY <1>3, <2>1, <2>2
<1>7. ASSUME NEW p \in Prompts, CloseQuestion(p, q)
      PROVE  EndInv'
    <2>1. /\ UNCHANGED pending /\ asked' = [asked EXCEPT ![q] = NoQuestion]
          /\ task' = [task EXCEPT ![p].taken = @ \ {q}] /\ q \in task[p].taken
        BY <1>7 DEF CloseQuestion, Close
    <2>2. q \notin pending
        BY <2>1 DEF Typed, TypeOK
    <2>3. Askers'
        BY <1>2, <2>1, <2>2 DEF EndInv, Askers
    <2>4. task[p] # NoTask
        BY <2>1 DEF NoTask
    <2>5. \A r \in Prompts :
              /\ task'[r].of = task[r].of /\ task'[r].hold = task[r].hold
              /\ r # p /\ task[r] = NoTask => task'[r] = NoTask
        BY <2>1, OneFieldTask
    <2>6. QED
        BY <1>1, <2>3, <2>4, <2>5, EndStays
<1>8. QED
    BY <1>4, <1>5, <1>6, <1>7

LEMMA CancelEnd ==
    ASSUME Typed, EndInv, NEW c \in Cancellers,
           RequestCancel(c) \/ CancelLeaves(c) \/ CancelStep(c)
    PROVE  EndInv'
<1>1. /\ UNCHANGED <<at, task, pending, asked>>
      /\ \/ job' = job
         \/ \E b : job' = [job EXCEPT !.cancelled = b]
         \/ job' = [job EXCEPT !.running = FALSE]
    BY DEF RequestCancel, CancelLeaves, CancelStep, CancelReturns, Teardown, MarkCancelled,
           promptVars, questionVars
<1>2. /\ job'.turn = job.turn /\ job'.calls = job.calls /\ job.calls \in Nat
      /\ job'.handoff = job.handoff /\ job'.orphan = job.orphan
    BY <1>1 DEF Typed, TypeOK
<1>3. QED
    BY <1>1, <1>2, AskersStay, EndStays

LEMMA PromptEnd ==
    ASSUME Typed, TurnInv, EndInv, NEW p \in Prompts, PromptStep(p)
    PROVE  EndInv'
<1>1. CASE RunPrompt(p) \/ SendPrompt(p) \/ Complete(p) \/ Fail(p) \/ FailTurn(p) \/ FinishTurn(p)
    BY <1>1, RunEnd, SendEnd, CallEnd, AgentEnd, FinishEnd
<1>2. CASE ClearQuestions(p) \/ Callback(p) \/ Release(p) \/ Discard(p) \/ QuestionsTaken(p)
    BY <1>2, CleanupEnd
<1>3. CASE TakeForSteer(p) \/ WaitForHandoff(p) \/ \E q \in Questions : CloseQuestion(p, q)
    BY <1>3, TakeEnd, WaitEnd, QuestionEnd
<1>4. QED
    BY <1>1, <1>2, <1>3 DEF PromptStep

LEMMA NextEnd == Typed /\ TurnInv /\ EndInv /\ [Next]_vars => EndInv'
<1> SUFFICES ASSUME Typed, TurnInv, EndInv, [Next]_vars PROVE EndInv'
    OBVIOUS
<1>1. CASE UNCHANGED vars
    <2>1. job.calls \in Nat
        BY DEF Typed, TypeOK
    <2>2. QED
        BY <1>1, <2>1, AskersStay, EndStays DEF vars
<1>2. ASSUME NEW p \in Prompts,
             \/ StartTurn(p) \/ PromptStep(p)
             \/ AgentEnds(p) \/ AgentFails(p) \/ CheckSteer(p) \/ Reserve(p)
      PROVE  EndInv'
    BY <1>2, StartEnd, PromptEnd, AgentEnd, CheckEnd, ReserveEnd
<1>3. ASSUME NEW p \in Prompts, NEW q \in Questions, Register(q, p)
      PROVE  EndInv'
    BY <1>3, QuestionEnd
<1>4. ASSUME NEW q \in Questions, Publish(q) \/ Withdraw(q) \/ Answer(q)
      PROVE  EndInv'
    BY <1>4, QuestionEnd
<1>5. QED
    BY <1>1, <1>2, <1>3, <1>4, CancelEnd DEF Next

\* A turn that runs can always end: some goroutine of it carries a call, or ends it, and
\* is not held by a hand-over that nobody but it could make (turns.go: completePromptCall,
\* failPromptCall; send.go: reserveSteer, runSteerCallAfterHandoff).
THEOREM TurnsCanEnd == Spec => []TurnCanEnd
<1>1. Init => Typed /\ TurnInv /\ EndInv
    BY InitTyped, InitTurn, InitEnd
<1>2. Typed /\ TurnInv /\ EndInv /\ [Next]_vars => (Typed /\ TurnInv /\ EndInv)'
    BY NextTyped, NextTurn, NextEnd
<1>3. Typed /\ TurnInv /\ EndInv => TurnCanEnd
    <2> SUFFICES ASSUME Typed, EndInv, job.turn # 0, ~job.orphan
                 PROVE  \E p \in Prompts : Here(p) /\ at[p] # "checked" /\ ~task[p].hold
        BY DEF TurnCanEnd, Here
    <2>1. CASE job.handoff
        BY <2>1 DEF EndInv, HandoffDue, Held, Past
    <2>2. CASE ~job.handoff
        <3>1. \A p \in Prompts : Here(p) => ~task[p].hold
            BY <2>2 DEF EndInv, Held
        <3>2. CASE job.calls = 0
            BY <3>1, <3>2 DEF EndInv, EndUnderWay, Ending
        <3>3. CASE job.calls # 0
            <4>1. job.calls \in Nat /\ job.calls <= Cardinality(Workers)
                BY DEF EndInv, CallsCarried, Typed, TypeOK
            <4>2. Cardinality(Workers) # 0
                BY <3>3, <4>1, WorkersFinite
            <4>3. PICK p \in Prompts : p \in Workers
                BY <4>2, FS_EmptySet DEF Workers
            <4>4. QED
                BY <3>1, <4>3 DEF Workers, Working, Past
        <3>4. QED
            BY <3>2, <3>3
    <2>3. QED
        BY <2>1, <2>2
<1>4. QED
    BY <1>1, <1>2, <1>3, PTL DEF Spec

=============================================================================
