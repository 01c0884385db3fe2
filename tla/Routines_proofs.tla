-------------------------- MODULE Routines_proofs --------------------------
(***************************************************************************)
(* Theorems about Routines, for any number of routines, runs, messages,    *)
(* connector goroutines, edits and crashes.                                *)
(***************************************************************************)
EXTENDS Routines, SequenceTheorems, FiniteSetTheorems, TLAPS

-----------------------------------------------------------------------------
\* What the steps do to the runs and their goroutines, entry by entry.

LEMMA RunPut ==
    ASSUME runs \in [Loops -> Seq(RunRow)],
           NEW l \in Loops, NEW n \in DOMAIN runs[l], NEW r \in RunRow,
           runs' = [runs EXCEPT ![l] = [@ EXCEPT ![n] = r]]
    PROVE  /\ runs' \in [Loops -> Seq(RunRow)]
           /\ \A k \in Loops : /\ Len(runs'[k]) = Len(runs[k])
                               /\ DOMAIN runs'[k] = DOMAIN runs[k]
                               /\ \A i \in DOMAIN runs[k] :
                                     runs'[k][i] = IF k = l /\ i = n THEN r ELSE runs[k][i]
<1> DEFINE s == [runs[l] EXCEPT ![n] = r]
<1>1. runs[l] \in Seq(RunRow) /\ n \in 1..Len(runs[l])
    BY LenProperties
<1>2. /\ s \in Seq(RunRow) /\ Len(s) = Len(runs[l])
      /\ \A i \in 1..Len(runs[l]) : s[i] = IF i = n THEN r ELSE runs[l][i]
    BY <1>1, ExceptSeq
<1> HIDE DEF s
<1>3. runs' = [runs EXCEPT ![l] = s]
    BY DEF s
<1>4. runs' \in [Loops -> Seq(RunRow)] /\ \A k \in Loops : runs'[k] = IF k = l THEN s ELSE runs[k]
    BY <1>2, <1>3
<1>5. \A k \in Loops : Len(runs'[k]) = Len(runs[k])
    BY <1>2, <1>4
<1>6. \A k \in Loops : DOMAIN runs'[k] = 1..Len(runs'[k]) /\ DOMAIN runs[k] = 1..Len(runs[k])
    BY <1>4, LenProperties
<1>7. QED
    BY <1>2, <1>4, <1>5, <1>6

LEMMA ExecPut ==
    ASSUME exec \in [Loops -> Seq(Goroutine)],
           NEW l \in Loops, NEW n \in DOMAIN exec[l], NEW g \in Goroutine,
           exec' = [exec EXCEPT ![l] = [@ EXCEPT ![n] = g]]
    PROVE  /\ exec' \in [Loops -> Seq(Goroutine)]
           /\ \A k \in Loops : /\ Len(exec'[k]) = Len(exec[k])
                               /\ DOMAIN exec'[k] = DOMAIN exec[k]
                               /\ \A i \in DOMAIN exec[k] :
                                     exec'[k][i] = IF k = l /\ i = n THEN g ELSE exec[k][i]
<1> DEFINE s == [exec[l] EXCEPT ![n] = g]
<1>1. exec[l] \in Seq(Goroutine) /\ n \in 1..Len(exec[l])
    BY LenProperties
<1>2. /\ s \in Seq(Goroutine) /\ Len(s) = Len(exec[l])
      /\ \A i \in 1..Len(exec[l]) : s[i] = IF i = n THEN g ELSE exec[l][i]
    BY <1>1, ExceptSeq
<1> HIDE DEF s
<1>3. exec' = [exec EXCEPT ![l] = s]
    BY DEF s
<1>4. exec' \in [Loops -> Seq(Goroutine)] /\ \A k \in Loops : exec'[k] = IF k = l THEN s ELSE exec[k]
    BY <1>2, <1>3
<1>5. \A k \in Loops : Len(exec'[k]) = Len(exec[k])
    BY <1>2, <1>4
<1>6. \A k \in Loops : DOMAIN exec'[k] = 1..Len(exec'[k]) /\ DOMAIN exec[k] = 1..Len(exec[k])
    BY <1>4, LenProperties
<1>7. QED
    BY <1>2, <1>4, <1>5, <1>6

LEMMA Numbered ==
    ASSUME TypeOK, NEW k \in Loops
    PROVE  /\ Len(runs[k]) \in Nat /\ Len(exec[k]) = Len(runs[k])
           /\ DOMAIN runs[k] = 1..Len(runs[k]) /\ DOMAIN exec[k] = DOMAIN runs[k]
           /\ \A i \in DOMAIN runs[k] : runs[k][i] \in RunRow /\ exec[k][i] \in Goroutine
           /\ (runs[k] = << >>) <=> (Len(runs[k]) = 0)
<1>1. runs[k] \in Seq(RunRow) /\ exec[k] \in Seq(Goroutine) /\ Len(exec[k]) = Len(runs[k])
    BY DEF TypeOK
<1>2. /\ Len(runs[k]) \in Nat /\ DOMAIN runs[k] = 1..Len(runs[k])
      /\ DOMAIN exec[k] = 1..Len(runs[k])
      /\ \A i \in 1..Len(runs[k]) : runs[k][i] \in RunRow
      /\ \A i \in 1..Len(runs[k]) : exec[k][i] \in Goroutine
    BY <1>1, LenProperties, ElementOfSeq
<1>3. (runs[k] = << >>) <=> (Len(runs[k]) = 0)
    BY <1>1, EmptySeq
<1>4. QED
    BY <1>1, <1>2, <1>3

\* A run and its goroutine are added to routine k, and its row names the run.
Grown(k, r, g) ==
    /\ runs'[k] = Append(runs[k], r)
    /\ exec'[k] = Append(exec[k], g)
    /\ loop'[k].lastRun = Len(runs[k]) + 1
    /\ loop'[k].lastStatus = r.status

Same(k) == runs'[k] = runs[k] /\ exec'[k] = exec[k]

LEMMA GrownByOne ==
    ASSUME TypeOK, NEW k \in Loops, NEW r \in RunRow, NEW g \in Goroutine, Grown(k, r, g)
    PROVE  /\ runs'[k] \in Seq(RunRow) /\ exec'[k] \in Seq(Goroutine)
           /\ Len(runs'[k]) = Len(runs[k]) + 1 /\ Len(exec'[k]) = Len(runs[k]) + 1
           /\ DOMAIN runs'[k] = 1..(Len(runs[k]) + 1) /\ DOMAIN exec'[k] = DOMAIN runs'[k]
           /\ \A i \in DOMAIN runs[k] : runs'[k][i] = runs[k][i] /\ exec'[k][i] = exec[k][i]
           /\ runs'[k][Len(runs[k]) + 1] = r /\ exec'[k][Len(runs[k]) + 1] = g
           /\ runs'[k] # << >>
<1>1. runs[k] \in Seq(RunRow) /\ exec[k] \in Seq(Goroutine)
    BY DEF TypeOK
<1>2. /\ Append(runs[k], r) \in Seq(RunRow) /\ Len(Append(runs[k], r)) = Len(runs[k]) + 1
      /\ \A i \in 1..Len(runs[k]) : Append(runs[k], r)[i] = runs[k][i]
      /\ Append(runs[k], r)[Len(runs[k]) + 1] = r
      /\ Append(runs[k], r) # << >>
    BY <1>1, AppendProperties
<1>3. /\ Append(exec[k], g) \in Seq(Goroutine) /\ Len(Append(exec[k], g)) = Len(exec[k]) + 1
      /\ \A i \in 1..Len(exec[k]) : Append(exec[k], g)[i] = exec[k][i]
      /\ Append(exec[k], g)[Len(exec[k]) + 1] = g
    BY <1>1, AppendProperties
<1>4. /\ DOMAIN Append(runs[k], r) = 1..Len(Append(runs[k], r))
      /\ DOMAIN Append(exec[k], g) = 1..Len(Append(exec[k], g))
    BY <1>2, <1>3, LenProperties
<1>5. QED
    BY <1>2, <1>3, <1>4, Numbered DEF Grown

\* Runs are never taken away, so those that were reset are still there.
LEMMA ResetKept ==
    ASSUME reset \subseteq AllRuns, reset' = reset,
           \A k \in Loops : DOMAIN runs[k] \subseteq DOMAIN runs'[k]
    PROVE  reset' \subseteq AllRuns'
<1> SUFFICES ASSUME NEW x \in reset PROVE x \in AllRuns'
    OBVIOUS
<1>1. PICK k \in Loops : x \in {k} \X DOMAIN runs[k]
    BY DEF AllRuns
<1>2. x \in {k} \X DOMAIN runs'[k]
    BY <1>1
<1>3. QED
    BY <1>2 DEF AllRuns

-----------------------------------------------------------------------------
\* Type correctness.

\* What TypeOK says of one routine.
Typed(k) ==
    /\ loop[k] \in Row /\ runs[k] \in Seq(RunRow) /\ exec[k] \in Seq(Goroutine)
    /\ Len(exec[k]) = Len(runs[k])
    /\ loop[k].lastRun <= Len(runs[k])
    /\ loop[k].status = "none" => runs[k] = << >>
    /\ loop[k].status \in {"none", "deleted"} \/ loop[k].event => loop[k].next = "none"

\* A routine that is started in one step with others or alone keeps its types.
LEMMA GrownTyped ==
    ASSUME TypeOK, NEW k \in Loops, NEW r \in RunRow, NEW g \in Goroutine, Grown(k, r, g),
           loop'[k] \in Row, loop'[k].status # "none",
           loop'[k].status = "deleted" \/ loop'[k].event => loop'[k].next = "none"
    PROVE  Typed(k)' /\ DOMAIN runs[k] \subseteq DOMAIN runs'[k]
<1>1. /\ runs'[k] \in Seq(RunRow) /\ exec'[k] \in Seq(Goroutine)
      /\ Len(runs'[k]) = Len(runs[k]) + 1 /\ Len(exec'[k]) = Len(runs[k]) + 1
      /\ DOMAIN runs'[k] = 1..(Len(runs[k]) + 1)
    BY GrownByOne
<1>2. loop'[k].lastRun = Len(runs[k]) + 1
    BY DEF Grown
<1>3. Len(runs[k]) \in Nat /\ DOMAIN runs[k] = 1..Len(runs[k])
    BY Numbered
<1>4. QED
    BY <1>1, <1>2, <1>3 DEF Typed

LEMMA StartManualTyped ==
    ASSUME TypeOK, NEW l \in Loops, NEW events \in SUBSET Messages, StartManual(l, events)
    PROVE  /\ loop' \in [Loops -> Row]
           /\ runs' \in [Loops -> Seq(RunRow)] /\ exec' \in [Loops -> Seq(Goroutine)]
           /\ \A k \in Loops \ {l} : Same(k) /\ loop'[k] = loop[k]
           /\ \E g \in Goroutines(events) : g \in Goroutine /\ Grown(l, NewRun, g)
           /\ \A k \in Loops : Typed(k)' /\ DOMAIN runs[k] \subseteq DOMAIN runs'[k]
<1>1. PICK g \in Goroutines(events) : exec' = [exec EXCEPT ![l] = Append(@, g)]
    BY DEF StartManual
<1>2. g \in Goroutine
    BY DEF Goroutines, Goroutine
<1>3. NewRun \in RunRow /\ NewRun.status = "starting"
    BY DEF NewRun, RunRow, RunStatus
<1>4. /\ loop \in [Loops -> Row] /\ Len(runs[l]) + 1 \in Nat
      /\ loop' = [loop EXCEPT ![l].lastRun = Len(runs[l]) + 1, ![l].lastStatus = "starting"]
    <2>1. loop \in [Loops -> Row] /\ Len(runs[l]) + 1 \in Nat
        BY Numbered DEF TypeOK
    <2>2. QED
        BY <2>1 DEF StartManual
<1>5. /\ loop'[l] \in Row /\ loop'[l].lastRun = Len(runs[l]) + 1
      /\ loop'[l].lastStatus = "starting" /\ loop'[l].status = loop[l].status
      /\ loop'[l].event = loop[l].event /\ loop'[l].next = loop[l].next
      /\ \A k \in Loops \ {l} : loop'[k] = loop[k]
    BY <1>4 DEF Row, RunStatus
<1>6. /\ runs' = [runs EXCEPT ![l] = Append(@, NewRun)]
      /\ runs \in [Loops -> Seq(RunRow)] /\ exec \in [Loops -> Seq(Goroutine)]
    BY DEF StartManual, TypeOK
<1>7. Grown(l, NewRun, g) /\ \A k \in Loops \ {l} : Same(k)
    BY <1>1, <1>3, <1>5, <1>6 DEF Grown, Same
<1>8. Typed(l)' /\ DOMAIN runs[l] \subseteq DOMAIN runs'[l]
    <2>1. loop[l].status \in {"active", "paused"}
        BY DEF StartManual
    <2>2. loop'[l].status # "none" /\ (loop'[l].status = "deleted" \/ loop'[l].event => loop'[l].next = "none")
        BY <1>5, <2>1 DEF TypeOK
    <2>3. QED
        BY <1>2, <1>3, <1>5, <1>7, <2>2, GrownTyped
<1>9. \A k \in Loops \ {l} : Typed(k)' /\ DOMAIN runs[k] \subseteq DOMAIN runs'[k]
    BY <1>5, <1>7 DEF TypeOK, Typed, Same
<1>10. runs' \in [Loops -> Seq(RunRow)] /\ exec' \in [Loops -> Seq(Goroutine)]
    <2>1. runs'[l] \in Seq(RunRow) /\ exec'[l] \in Seq(Goroutine)
        BY <1>8 DEF Typed
    <2>2. Append(runs[l], NewRun) \in Seq(RunRow) /\ Append(exec[l], g) \in Seq(Goroutine)
        BY <1>7, <2>1 DEF Grown
    <2>3. QED
        BY <1>1, <1>6, <2>2
<1>11. loop' \in [Loops -> Row]
    BY <1>4, <1>5 DEF TypeOK
<1>12. QED
    BY <1>2, <1>5, <1>7, <1>8, <1>9, <1>10, <1>11

LEMMA NothingPut ==
    ASSUME TypeOK, NEW l \in Loops, NEW n \in DOMAIN runs[l]
    PROVE  runs = [runs EXCEPT ![l] = [@ EXCEPT ![n] = runs[l][n]]]
<1>1. runs \in [Loops -> Seq(RunRow)]
    BY DEF TypeOK
<1>2. runs[l] = [i \in 1..Len(runs[l]) |-> runs[l][i]]
    BY <1>1
<1>3. [runs[l] EXCEPT ![n] = runs[l][n]] = runs[l]
    BY <1>2
<1>4. QED
    BY <1>1, <1>3

\* Run n of routine l and its goroutine change, and the routine's row follows the run.
Put(l, n, r, g) ==
    /\ runs' = [runs EXCEPT ![l] = [@ EXCEPT ![n] = r]]
    /\ exec' = [exec EXCEPT ![l] = [@ EXCEPT ![n] = g]]
    /\ \/ loop' = loop /\ r.status = runs[l][n].status
       \/ loop' = FollowRun(l, n, r.status)
    /\ UNCHANGED <<server, fired, hear, historyVars>>

LEMMA PutEntry ==
    ASSUME TypeOK, NEW l \in Loops, NEW n \in DOMAIN runs[l],
           NEW r \in RunRow, NEW g \in Goroutine, Put(l, n, r, g)
    PROVE  /\ runs' \in [Loops -> Seq(RunRow)] /\ exec' \in [Loops -> Seq(Goroutine)]
           /\ \A k \in Loops :
                 /\ Len(runs'[k]) = Len(runs[k]) /\ DOMAIN runs'[k] = DOMAIN runs[k]
                 /\ Len(exec'[k]) = Len(exec[k]) /\ DOMAIN exec'[k] = DOMAIN exec[k]
                 /\ \A i \in DOMAIN runs[k] :
                      /\ runs'[k][i] = IF k = l /\ i = n THEN r ELSE runs[k][i]
                      /\ exec'[k][i] = IF k = l /\ i = n THEN g ELSE exec[k][i]
<1>1. /\ runs \in [Loops -> Seq(RunRow)] /\ exec \in [Loops -> Seq(Goroutine)]
      /\ \A k \in Loops : DOMAIN exec[k] = DOMAIN runs[k]
    BY Numbered DEF TypeOK
<1>2. /\ runs' \in [Loops -> Seq(RunRow)]
      /\ \A k \in Loops : /\ Len(runs'[k]) = Len(runs[k]) /\ DOMAIN runs'[k] = DOMAIN runs[k]
                          /\ \A i \in DOMAIN runs[k] :
                               runs'[k][i] = IF k = l /\ i = n THEN r ELSE runs[k][i]
    BY <1>1, RunPut DEF Put
<1>3. /\ exec' \in [Loops -> Seq(Goroutine)]
      /\ \A k \in Loops : /\ Len(exec'[k]) = Len(exec[k]) /\ DOMAIN exec'[k] = DOMAIN exec[k]
                          /\ \A i \in DOMAIN exec[k] :
                               exec'[k][i] = IF k = l /\ i = n THEN g ELSE exec[k][i]
    BY <1>1, ExecPut DEF Put
<1>4. QED
    BY <1>1, <1>2, <1>3

LEMMA PutRow ==
    ASSUME TypeOK, NEW l \in Loops, NEW n \in DOMAIN runs[l],
           NEW r \in RunRow, NEW g \in Goroutine, Put(l, n, r, g)
    PROVE  /\ loop' \in [Loops -> Row]
           /\ \A k \in Loops :
                 /\ loop'[k].status = loop[k].status /\ loop'[k].event = loop[k].event
                 /\ loop'[k].next = loop[k].next /\ loop'[k].lastRun = loop[k].lastRun
                 /\ \/ loop'[k].lastStatus = loop[k].lastStatus
                       /\ (k = l /\ loop[k].lastRun = n => r.status = runs[l][n].status)
                    \/ loop'[k].lastStatus = r.status /\ k = l /\ loop[k].lastRun = n
<1>1. loop \in [Loops -> Row]
    BY DEF TypeOK
<1>2. r.status \in RunStatus
    BY DEF RunRow
<1>3. CASE loop' = loop /\ r.status = runs[l][n].status
    BY <1>1, <1>3
<1>4. CASE loop' = FollowRun(l, n, r.status) /\ loop[l].lastRun # n
    <2>1. loop' = loop
        BY <1>4 DEF FollowRun
    <2>2. QED
        BY <1>1, <1>4, <2>1
<1>5. CASE loop' = FollowRun(l, n, r.status) /\ loop[l].lastRun = n
    <2>1. loop' = [loop EXCEPT ![l].lastStatus = r.status]
        BY <1>5 DEF FollowRun
    <2>2. QED
        BY <1>1, <1>2, <1>5, <2>1 DEF Row
<1>6. QED
    BY <1>3, <1>4, <1>5 DEF Put

LEMMA PutTyped ==
    ASSUME TypeOK, NEW l \in Loops, NEW n \in DOMAIN runs[l],
           NEW r \in RunRow, NEW g \in Goroutine, Put(l, n, r, g)
    PROVE  TypeOK'
<1>1. \A k \in Loops : Typed(k)'
    <2>1. SUFFICES ASSUME NEW k \in Loops PROVE Typed(k)'
        OBVIOUS
    <2>2. /\ runs'[k] \in Seq(RunRow) /\ exec'[k] \in Seq(Goroutine)
          /\ Len(runs'[k]) = Len(runs[k]) /\ Len(exec'[k]) = Len(exec[k])
        BY PutEntry
    <2>3. /\ loop'[k] \in Row /\ loop'[k].status = loop[k].status
          /\ loop'[k].event = loop[k].event
          /\ loop'[k].next = loop[k].next /\ loop'[k].lastRun = loop[k].lastRun
        BY PutRow
    <2>4. runs[k] = << >> => runs'[k] = << >>
        BY <2>2, EmptySeq, Numbered
    <2>5. QED
        BY <2>2, <2>3, <2>4 DEF TypeOK, Typed
<1>2. /\ loop' \in [Loops -> Row] /\ runs' \in [Loops -> Seq(RunRow)]
      /\ exec' \in [Loops -> Seq(Goroutine)]
    BY PutEntry, PutRow
<1>3. \A k \in Loops : DOMAIN runs[k] \subseteq DOMAIN runs'[k]
    BY PutEntry
<1>4. reset' \subseteq AllRuns'
    BY <1>3, ResetKept DEF TypeOK, Put, historyVars
<1>5. QED
    BY <1>1, <1>2, <1>4 DEF TypeOK, Typed, Put, historyVars

\* Every step of a run's life is such a change.  A goroutine at work goes on.  As long
\* as it has recorded no thread of the run's own, no one else ends its run; after that
\* only the failure of its send rewrites the outcome.
Excused(l, n) == <<l, n>> \in reset
Alive(l, n) == exec[l][n].at # "gone"
Before == {"spawn", "mark", "ask", "bot"}
Threadless(l, n) == exec[l][n].at \in Before

Lives(l, n, r, g) ==
    /\ Put(l, n, r, g)
    /\ g.events = exec[l][n].events
    /\ g.at # "gone" => Alive(l, n)
    /\ g.at \in Before =>
          /\ Threadless(l, n)
          /\ runs[l][n].thread \/ r = runs[l][n] \/ (Active(r) /\ ~r.thread)
    /\ Active(r) => Threadless(l, n) \/ r = runs[l][n]
    /\ r.status # runs[l][n].status =>
          \/ Threadless(l, n) \/ Active(runs[l][n])
          \/ exec[l][n].at = "fail" /\ g.at = "gone" /\ r.status = "error"

LEMMA StepLives ==
    ASSUME TypeOK, NEW l \in Loops, NEW n \in Nat,
           RunStep(l, n) \/ UsersTurn(l, n)
    PROVE  /\ n \in DOMAIN runs[l]
           /\ \E r \in RunRow, g \in Goroutine : Lives(l, n, r, g)
<1> DEFINE G(x) == [exec[l][n] EXCEPT !.at = x]
           R(x) == [runs[l][n] EXCEPT !.status = x]
<1>1. n \in DOMAIN runs[l] /\ runs[l][n] \in RunRow /\ exec[l][n] \in Goroutine
    BY Numbered DEF RunStep, UsersTurn, SpawnThread, MarkRunning, SendPrompt, Finish, FinishThread
<1>2. \A x \in {"spawn", "mark", "send", "turn", "ask", "bot", "fail", "gone"} :
         /\ G(x) \in Goroutine /\ G(x).events = exec[l][n].events /\ G(x).at = x
         /\ [exec EXCEPT ![l][n].at = x] = [exec EXCEPT ![l] = [@ EXCEPT ![n] = G(x)]]
    BY <1>1 DEF Goroutine
<1>3. \A x \in RunStatus :
         /\ R(x) \in RunRow /\ R(x).status = x
         /\ [runs EXCEPT ![l][n].status = x] = [runs EXCEPT ![l] = [@ EXCEPT ![n] = R(x)]]
    BY <1>1 DEF RunRow
<1>4. runs = [runs EXCEPT ![l] = [@ EXCEPT ![n] = runs[l][n]]]
    BY <1>1, NothingPut
<1>5. ASSUME SpawnThread(l, n) \/ SendPrompt(l, n)
      PROVE  \E r \in RunRow, g \in Goroutine : Lives(l, n, r, g)
    <2>1. PICK x \in {"mark", "fail", "turn"} :
              /\ exec' = [exec EXCEPT ![l][n].at = x]
              /\ x = "mark" => exec[l][n].at = "spawn"
        BY <1>5 DEF SpawnThread, SendPrompt
    <2>2. Put(l, n, runs[l][n], G(x))
        BY <1>2, <1>4, <1>5, <2>1 DEF Put, SpawnThread, SendPrompt
    <2>3. Alive(l, n) /\ (x \in Before => Threadless(l, n))
        BY <1>5, <2>1 DEF Alive, Before, Threadless, SpawnThread, SendPrompt
    <2>4. G(x).at = x /\ G(x).events = exec[l][n].events /\ G(x) \in Goroutine
        BY <1>2
    <2> HIDE DEF G, R
    <2>5. QED
        BY <1>1, <2>2, <2>3, <2>4 DEF Lives
<1>6. ASSUME MarkRunning(l, n)
      PROVE  \E r \in RunRow, g \in Goroutine : Lives(l, n, r, g)
    <2> DEFINE r == [runs[l][n] EXCEPT !.status = "running", !.thread = (exec[l][n].at = "mark")]
    <2>1. r \in RunRow /\ Active(r) /\ r.status = "running"
        <3>1. (exec[l][n].at = "mark") \in BOOLEAN
            OBVIOUS
        <3>2. QED
            BY <1>1, <3>1 DEF RunRow, RunStatus, Active
    <2>2. runs' = [runs EXCEPT ![l] = [@ EXCEPT ![n] = r]]
        BY <1>6 DEF TypeOK, MarkRunning
    <2>3. PICK x \in {"send", "bot"} :
              /\ exec' = [exec EXCEPT ![l][n].at = x]
              /\ x = "bot" => ~r.thread
        BY <1>1, <1>6 DEF MarkRunning, RunRow
    <2>4. Alive(l, n) /\ Threadless(l, n) /\ "send" \notin Before
        BY <1>6 DEF Alive, Threadless, Before, MarkRunning
    <2>5. loop' = FollowRun(l, n, "running")
        BY <1>6 DEF MarkRunning
    <2> HIDE DEF r
    <2>6. Put(l, n, r, G(x))
        BY <1>2, <1>6, <2>1, <2>2, <2>3, <2>5 DEF Put, MarkRunning
    <2>7. G(x).events = exec[l][n].events /\ G(x) \in Goroutine /\ G(x).at = x
        BY <1>2
    <2> HIDE DEF G, R
    <2>8. QED
        BY <2>1, <2>3, <2>4, <2>6, <2>7 DEF Lives
<1>7. ASSUME NEW status \in Ended, Finish(l, n, status)
      PROVE  \E r \in RunRow, g \in Goroutine : Lives(l, n, r, g)
    <2>1. status \in RunStatus /\ ~Active(R(status))
        BY <1>3 DEF RunStatus, Active, Ended
    <2>2. Put(l, n, R(status), G("gone"))
        BY <1>2, <1>3, <1>7, <2>1 DEF Put, Finish, SaveRun
    <2>3. /\ Alive(l, n) /\ "gone" \notin Before
          /\ Threadless(l, n) \/ (exec[l][n].at = "fail" /\ status = "error")
        BY <1>7 DEF Alive, Threadless, Before, Finish
    <2>4. G("gone").events = exec[l][n].events /\ G("gone") \in Goroutine
          /\ G("gone").at = "gone" /\ R(status) \in RunRow /\ R(status).status = status
        BY <1>2, <1>3, <2>1
    <2> HIDE DEF G, R
    <2>5. QED
        BY <2>1, <2>2, <2>3, <2>4 DEF Lives
<1>8. ASSUME NEW status \in Ended, FinishThread(l, n, status)
      PROVE  \E r \in RunRow, g \in Goroutine : Lives(l, n, r, g)
    <2>1. status \in RunStatus /\ ~Active(R(status))
        BY <1>3 DEF RunStatus, Active, Ended
    <2>2. PICK x : x = IF exec[l][n].at = "turn" THEN "gone" ELSE exec[l][n].at
        OBVIOUS
    <2>3. x \in {"spawn", "mark", "send", "turn", "ask", "bot", "fail", "gone"}
        BY <1>1, <2>2 DEF Goroutine
    <2>4. AfterTurn(l, n) = [exec EXCEPT ![l][n].at = x]
        BY <2>2 DEF AfterTurn
    <2>5. G(x).events = exec[l][n].events /\ G(x) \in Goroutine
          /\ G(x).at = x /\ R(status) \in RunRow
        BY <1>2, <1>3, <2>1, <2>3
    <2>6. /\ x # "gone" => Alive(l, n)
          /\ x \in Before => Threadless(l, n) /\ runs[l][n].thread
        BY <1>8, <2>2 DEF Alive, Before, Threadless, FinishThread
    <2>7. CASE Active(runs[l][n])
        <3>1. Put(l, n, R(status), G(x))
            BY <1>2, <1>3, <1>8, <2>1, <2>3, <2>4, <2>7 DEF Put, FinishThread, SaveRun
        <3> HIDE DEF G, R
        <3>2. QED
            BY <2>1, <2>5, <2>6, <2>7, <3>1 DEF Lives
    <2>8. CASE ~Active(runs[l][n])
        <3>1. Put(l, n, runs[l][n], G(x))
            BY <1>2, <1>4, <1>8, <2>3, <2>4, <2>8 DEF Put, FinishThread
        <3> HIDE DEF G, R
        <3>2. QED
            BY <1>1, <2>5, <2>6, <2>8, <3>1 DEF Lives
    <2>9. QED
        BY <2>7, <2>8
<1>9. QED
    BY <1>1, <1>5, <1>6, <1>7, <1>8 DEF RunStep, UsersTurn

\* What StartDue does to one routine: nothing, a skipped run, or a new one.
Turns(k) ==
    \/ Same(k) /\ loop'[k] = loop[k]
    \/ Grown(k, SkippedRun, NoGoroutine)
    \/ ~HasActiveRun(k) /\ \E g \in Goroutines({}) : Grown(k, NewRun, g)

LEMMA NewShapes ==
    /\ NewRun \in RunRow /\ NewRun.status = "starting" /\ ~NewRun.thread
    /\ SkippedRun \in RunRow /\ SkippedRun.status = "skipped"
    /\ NoGoroutine \in Goroutine /\ NoGoroutine.at = "gone" /\ NoGoroutine.events = {}
    /\ \A events \in SUBSET Messages : \A g \in Goroutines(events) :
          g \in Goroutine /\ g.at # "gone" /\ g.events = events
BY DEF NewRun, SkippedRun, RunRow, RunStatus, NoGoroutine, Goroutine, Goroutines

LEMMA StartDueTurns ==
    ASSUME TypeOK, StartDue
    PROVE  /\ loop' \in [Loops -> Row]
           /\ runs' \in [Loops -> Seq(RunRow)] /\ exec' \in [Loops -> Seq(Goroutine)]
           /\ \A k \in Loops : Turns(k) /\ Typed(k)' /\ DOMAIN runs[k] \subseteq DOMAIN runs'[k]
<1> DEFINE busy == {l \in Due : HasActiveRun(l)}
<1>1. PICK skipped \in SUBSET busy, started \in SUBSET (Due \ busy), g \in Goroutines({}) :
         /\ runs' = [l \in Loops |->
                IF l \in skipped THEN Append(runs[l], SkippedRun)
                ELSE IF l \in started THEN Append(runs[l], NewRun)
                ELSE runs[l]]
         /\ exec' = [l \in Loops |->
                IF l \in skipped THEN Append(exec[l], NoGoroutine)
                ELSE IF l \in started THEN Append(exec[l], g)
                ELSE exec[l]]
         /\ loop' = [l \in Loops |->
                IF l \in skipped \cup started
                THEN [loop[l] EXCEPT !.next = "later", !.lastRun = Len(runs[l]) + 1,
                        !.lastStatus = IF l \in skipped THEN "skipped" ELSE "starting"]
                ELSE loop[l]]
    BY DEF StartDue
<1>2. g \in Goroutine
    BY NewShapes
<1>3. ASSUME NEW k \in Loops
      PROVE  /\ Turns(k) /\ Typed(k)' /\ DOMAIN runs[k] \subseteq DOMAIN runs'[k]
             /\ loop'[k] \in Row /\ runs'[k] \in Seq(RunRow) /\ exec'[k] \in Seq(Goroutine)
    <2>1. loop[k] \in Row /\ Len(runs[k]) + 1 \in Nat
        BY Numbered DEF TypeOK
    <2>2. CASE k \notin skipped \cup started
        <3>1. Same(k) /\ loop'[k] = loop[k]
            BY <1>1, <2>2 DEF Same
        <3>2. QED
            BY <3>1 DEF Turns, Typed, Same, TypeOK
    <2>3. ASSUME k \in skipped \cup started
          PROVE  /\ loop'[k] \in Row /\ loop'[k].next = "later"
                 /\ loop'[k].status = "active" /\ ~loop'[k].event
                 /\ loop'[k].lastRun = Len(runs[k]) + 1
                 /\ loop'[k].lastStatus = IF k \in skipped THEN "skipped" ELSE "starting"
        <3>1. loop[k].status = "active" /\ loop[k].next = "due"
            BY <2>3 DEF Due
        <3>2. ~loop[k].event
            BY <3>1 DEF TypeOK
        <3>3. loop'[k] = [loop[k] EXCEPT !.next = "later", !.lastRun = Len(runs[k]) + 1,
                            !.lastStatus = IF k \in skipped THEN "skipped" ELSE "starting"]
            BY <1>1, <2>3
        <3>4. QED
            BY <2>1, <3>1, <3>2, <3>3 DEF Row, RunStatus
    <2>4. CASE k \in skipped
        <3>1. Grown(k, SkippedRun, NoGoroutine)
            BY <1>1, <2>3, <2>4, NewShapes DEF Grown
        <3>2. Typed(k)' /\ DOMAIN runs[k] \subseteq DOMAIN runs'[k]
            BY <2>3, <2>4, <3>1, NewShapes, GrownTyped
        <3>3. QED
            BY <2>3, <2>4, <3>1, <3>2 DEF Turns, Typed
    <2>5. CASE k \in started
        <3>1. k \notin skipped /\ ~HasActiveRun(k)
            BY <2>5
        <3>2. Grown(k, NewRun, g)
            BY <1>1, <2>3, <2>5, <3>1, NewShapes DEF Grown
        <3>3. Typed(k)' /\ DOMAIN runs[k] \subseteq DOMAIN runs'[k]
            BY <1>2, <2>3, <2>5, <3>2, NewShapes, GrownTyped
        <3>4. QED
            BY <2>3, <2>5, <3>1, <3>2, <3>3 DEF Turns, Typed
    <2>6. QED
        BY <2>2, <2>4, <2>5
<1>4. loop' \in [Loops -> Row]
    BY <1>1, <1>3
<1>5. runs' \in [Loops -> Seq(RunRow)]
    BY <1>1, <1>3
<1>6. exec' \in [Loops -> Seq(Goroutine)]
    BY <1>1, <1>3
<1>7. QED
    BY <1>3, <1>4, <1>5, <1>6

\* Nothing but routines' rows, connectors or the server changes.
LEMMA RowsTyped ==
    ASSUME TypeOK, loop' \in [Loops -> Row], UNCHANGED <<runs, exec, reset>>,
           \A k \in Loops :
              /\ loop'[k].lastRun <= Len(runs[k])
              /\ loop'[k].status = "none" => runs[k] = << >>
              /\ loop'[k].status \in {"none", "deleted"} \/ loop'[k].event
                    => loop'[k].next = "none",
           server' \in {"down", "serving", "scheduling"},
           fired' \subseteq Loops \X Messages,
           hear' \in [Handlers -> Hearing],
           edits' \in 0..MaxEdits, crashes' \in 0..MaxCrashes
    PROVE  TypeOK'
<1>1. AllRuns' = AllRuns
    BY DEF AllRuns
<1>2. QED
    BY <1>1 DEF TypeOK

LEMMA HeardTyped ==
    ASSUME TypeOK, NEW h \in Handlers, NEW l \in Loops
    PROVE  Heard(h, l) \in Hearing
<1>1. hear[h] \in Hearing
    BY DEF TypeOK
<1>2. QED
    BY <1>1 DEF Heard, Quiet, Hearing

LEMMA RowActionsTyped ==
    ASSUME TypeOK, NEW l \in Loops, NEW status \in {"active", "paused"},
           NEW event \in BOOLEAN, NEW new \in BOOLEAN,
           \/ Create(l, status, event) \/ Update(l, status, new, event)
           \/ Delete(l) \/ TimePasses(l)
    PROVE  TypeOK'
<1>1. loop \in [Loops -> Row] /\ loop[l] \in Row /\ edits \in 0..MaxEdits /\ MaxEdits \in Nat
    BY RoutineAssumption DEF TypeOK
<1>2. UNCHANGED <<runs, exec, reset, server, fired, hear, crashes>>
    BY DEF Create, Update, Delete, TimePasses, runVars, historyVars
<1>3. edits' \in 0..MaxEdits
    BY <1>1 DEF Create, Update, Delete, TimePasses, historyVars, Edit
<1>4. /\ \A k \in Loops \ {l} : loop'[k] = loop[k]
      /\ loop' \in [Loops -> Row]
      /\ loop'[l].lastRun <= Len(runs[l])
      /\ loop'[l].status = "none" => runs[l] = << >>
      /\ loop'[l].status \in {"none", "deleted"} \/ loop'[l].event => loop'[l].next = "none"
    <2>1. CASE Create(l, status, event)
        <3> DEFINE r == [NoLoop EXCEPT !.status = status, !.event = event, !.next = NextRun(event)]
        <3>1. /\ r \in Row /\ r.lastRun = 0 /\ r.status # "none" /\ r.status # "deleted"
              /\ r.event = event /\ r.next = NextRun(event)
            BY DEF NoLoop, Row, NextRun
        <3>2. loop' = [loop EXCEPT ![l] = r]
            BY <2>1 DEF Create
        <3>3. Len(runs[l]) \in Nat
            BY Numbered
        <3> HIDE DEF r
        <3>4. loop'[l] = r
            BY <1>1, <3>2
        <3>5. event => NextRun(event) = "none"
            BY DEF NextRun
        <3>6. QED
            BY <1>1, <3>1, <3>2, <3>3, <3>4, <3>5
    <2>2. CASE Update(l, status, new, event)
        <3>1. PICK again \in BOOLEAN :
                 loop' = [loop EXCEPT ![l].status = status, ![l].event = event,
                            ![l].next = IF again THEN NextRun(event) ELSE @]
            BY <2>2 DEF Update
        <3>2. event => NextRun(event) = "none"
            BY DEF NextRun
        <3>3. NextRun(event) \in {"none", "later"}
            BY DEF NextRun
        <3>4. new \/ event = loop[l].event
            BY <2>2 DEF Update
        <3>5. /\ loop' \in [Loops -> Row] /\ \A k \in Loops \ {l} : loop'[k] = loop[k]
              /\ loop'[l].lastRun = loop[l].lastRun /\ loop'[l].status = status
              /\ loop'[l].event = event
            BY <1>1, <3>1, <3>3 DEF Row
        <3>6. event => loop'[l].next = "none"
            <4>1. loop'[l].next = IF new \/ (loop[l].status = "paused" /\ status = "active")
                                        \/ (status = "active" /\ loop[l].next = "none")
                                  THEN NextRun(event) ELSE loop[l].next
                BY <1>1, <2>2 DEF Update, Row
            <4>2. QED
                BY <3>2, <3>4, <4>1 DEF TypeOK
        <3>7. QED
            BY <3>5, <3>6 DEF TypeOK
    <2>3. CASE Delete(l)
        <3>1. /\ loop' = [loop EXCEPT ![l].status = "deleted", ![l].next = "none"]
            BY <2>3 DEF Delete
        <3>2. /\ loop' \in [Loops -> Row] /\ \A k \in Loops \ {l} : loop'[k] = loop[k]
              /\ loop'[l].lastRun = loop[l].lastRun /\ loop'[l].status = "deleted"
              /\ loop'[l].next = "none"
            BY <1>1, <3>1 DEF Row
        <3>3. QED
            BY <3>2 DEF TypeOK
    <2>4. CASE TimePasses(l)
        <3>1. loop' = [loop EXCEPT ![l].next = "due"] /\ loop[l].next = "later"
            BY <2>4 DEF TimePasses
        <3>2. /\ loop' \in [Loops -> Row] /\ \A k \in Loops \ {l} : loop'[k] = loop[k]
              /\ loop'[l].lastRun = loop[l].lastRun /\ loop'[l].status = loop[l].status
              /\ loop'[l].event = loop[l].event
            BY <1>1, <3>1 DEF Row
        <3>3. QED
            BY <3>1, <3>2 DEF TypeOK
    <2>5. QED
        BY <2>1, <2>2, <2>3, <2>4
<1>5. \A k \in Loops :
         /\ loop'[k].lastRun <= Len(runs[k])
         /\ loop'[k].status = "none" => runs[k] = << >>
         /\ loop'[k].status \in {"none", "deleted"} \/ loop'[k].event => loop'[k].next = "none"
    <2>1. SUFFICES ASSUME NEW k \in Loops
                   PROVE  /\ loop'[k].lastRun <= Len(runs[k])
                          /\ loop'[k].status = "none" => runs[k] = << >>
                          /\ loop'[k].status \in {"none", "deleted"} \/ loop'[k].event
                                => loop'[k].next = "none"
        OBVIOUS
    <2>2. CASE k = l
        BY <1>4, <2>2
    <2>3. CASE k # l
        BY <1>4, <2>3 DEF TypeOK
    <2>4. QED
        BY <2>2, <2>3
<1>6. /\ server' \in {"down", "serving", "scheduling"} /\ fired' \subseteq Loops \X Messages
      /\ hear' \in [Handlers -> Hearing] /\ crashes' \in 0..MaxCrashes
    BY <1>2 DEF TypeOK
<1>7. QED
    BY <1>2, <1>3, <1>4, <1>5, <1>6, RowsTyped

\* A manual start, whoever asks for it.
LEMMA StartTyped ==
    ASSUME TypeOK, NEW l \in Loops, NEW events \in SUBSET Messages, StartManual(l, events),
           UNCHANGED <<server, fired, historyVars>>, hear' \in [Handlers -> Hearing]
    PROVE  TypeOK'
<1>1. /\ loop' \in [Loops -> Row]
      /\ runs' \in [Loops -> Seq(RunRow)] /\ exec' \in [Loops -> Seq(Goroutine)]
      /\ \A k \in Loops : Typed(k)' /\ DOMAIN runs[k] \subseteq DOMAIN runs'[k]
    BY StartManualTyped
<1>2. reset' \subseteq AllRuns'
    BY <1>1, ResetKept DEF TypeOK, historyVars
<1>3. QED
    BY <1>1, <1>2 DEF TypeOK, Typed, historyVars

LEMMA HandlersTyped ==
    ASSUME TypeOK, NEW h \in Handlers,
           \/ \E batch \in SUBSET Messages : HandleIncoming(h, batch)
           \/ \E l \in Loops : FirstSighting(h, l)
           \/ Trigger(h)
    PROVE  TypeOK'
<1>1. hear \in [Handlers -> Hearing] /\ hear[h] \in Hearing
    BY DEF TypeOK
<1>2. UNCHANGED <<runs, exec, reset, loop>> => \A k \in Loops :
              /\ loop'[k].lastRun <= Len(runs[k])
              /\ loop'[k].status = "none" => runs[k] = << >>
              /\ loop'[k].status \in {"none", "deleted"} \/ loop'[k].event
                    => loop'[k].next = "none"
    BY DEF TypeOK
<1>3. ASSUME NEW batch \in SUBSET Messages, HandleIncoming(h, batch)
      PROVE  TypeOK'
    <2>1. PICK todo \in SUBSET Loops :
             hear' = [hear EXCEPT ![h] = [Quiet EXCEPT !.batch = batch, !.todo = todo]]
        BY <1>3 DEF HandleIncoming
    <2>2. [Quiet EXCEPT !.batch = batch, !.todo = todo] \in Hearing
        BY DEF Quiet, Hearing
    <2>3. hear' \in [Handlers -> Hearing]
        BY <1>1, <2>1, <2>2
    <2>4. UNCHANGED <<loop, runs, exec, server, fired, reset, edits, crashes>>
        BY <1>3 DEF HandleIncoming, runVars, historyVars
    <2>5. QED
        BY <1>2, <2>3, <2>4, RowsTyped DEF TypeOK
<1>4. ASSUME NEW l \in Loops, FirstSighting(h, l)
      PROVE  TypeOK'
    <2> DEFINE new == {m \in hear[h].batch : <<l, m>> \notin fired}
    <2>1. /\ new \subseteq Messages /\ [hear[h] EXCEPT !.loop = l, !.events = new] \in Hearing
        BY <1>1 DEF Hearing
    <2>2. hear' \in [Handlers -> Hearing]
        <3>1. \/ hear' = [hear EXCEPT ![h] = Heard(h, l)]
              \/ hear' = [hear EXCEPT ![h] = [hear[h] EXCEPT !.loop = l, !.events = new]]
            BY <1>1, <1>4 DEF FirstSighting
        <3>2. QED
            BY <1>1, <2>1, <3>1, HeardTyped
    <2>3. fired' \subseteq Loops \X Messages
        BY <1>4, <2>1 DEF FirstSighting, TypeOK
    <2>4. UNCHANGED <<loop, runs, exec, server, reset, edits, crashes>>
        BY <1>4 DEF FirstSighting, runVars, historyVars
    <2>5. QED
        BY <1>2, <2>2, <2>3, <2>4, RowsTyped DEF TypeOK
<1>5. ASSUME Trigger(h)
      PROVE  TypeOK'
    <2>1. hear[h].loop \in Loops /\ hear[h].events \in SUBSET Messages
        BY <1>1, <1>5 DEF Trigger, Hearing
    <2>2. hear' \in [Handlers -> Hearing]
        <3>1. hear' = [hear EXCEPT ![h] = Heard(h, hear[h].loop)]
            BY <1>5 DEF Trigger
        <3>2. QED
            BY <1>1, <2>1, <3>1, HeardTyped
    <2>3. CASE StartManual(hear[h].loop, hear[h].events)
        BY <1>5, <2>1, <2>2, <2>3, StartTyped DEF Trigger
    <2>4. CASE UNCHANGED <<loop, runVars>>
        BY <1>2, <1>5, <2>2, <2>4, RowsTyped DEF Trigger, TypeOK, runVars, historyVars
    <2>5. QED
        BY <1>5, <2>3, <2>4 DEF Trigger
<1>6. QED
    BY <1>3, <1>4, <1>5

\* A restart changes the entries in place: the goroutines are gone.
LEMMA CrashEntry ==
    ASSUME TypeOK, Crash
    PROVE  /\ exec' \in [Loops -> Seq(Goroutine)]
           /\ \A k \in Loops : /\ Len(exec'[k]) = Len(exec[k]) /\ DOMAIN exec'[k] = DOMAIN exec[k]
                               /\ \A i \in DOMAIN exec[k] : exec'[k][i] = NoGoroutine
<1>1. ASSUME NEW k \in Loops
      PROVE  /\ exec'[k] \in Seq(Goroutine)
             /\ Len(exec'[k]) = Len(exec[k]) /\ DOMAIN exec'[k] = DOMAIN exec[k]
             /\ \A i \in DOMAIN exec[k] : exec'[k][i] = NoGoroutine
    <2> DEFINE s == [n \in 1..Len(runs[k]) |-> NoGoroutine]
    <2>1. exec'[k] = s /\ Len(runs[k]) \in Nat
        BY Numbered DEF Crash
    <2>2. s \in Seq(Goroutine) /\ Len(s) = Len(runs[k])
        BY <2>1, NewShapes
    <2>3. QED
        BY <2>1, <2>2, Numbered
<1>2. exec' = [k \in Loops |-> exec'[k]]
    BY DEF Crash
<1>3. QED
    BY <1>1, <1>2

\* The run after AdvanceMissed closed what was active.
Closed(run) == IF Active(run) THEN [run EXCEPT !.status = "error"] ELSE run

LEMMA AdvanceEntry ==
    ASSUME TypeOK, AdvanceMissed
    PROVE  /\ runs' \in [Loops -> Seq(RunRow)]
           /\ \A k \in Loops : /\ Len(runs'[k]) = Len(runs[k]) /\ DOMAIN runs'[k] = DOMAIN runs[k]
                               /\ \A i \in DOMAIN runs[k] : runs'[k][i] = Closed(runs[k][i])
<1>1. ASSUME NEW k \in Loops
      PROVE  /\ runs'[k] \in Seq(RunRow)
             /\ Len(runs'[k]) = Len(runs[k]) /\ DOMAIN runs'[k] = DOMAIN runs[k]
             /\ \A i \in DOMAIN runs[k] : runs'[k][i] = Closed(runs[k][i])
    <2> DEFINE s == [n \in 1..Len(runs[k]) |-> Closed(runs[k][n])]
    <2>1. runs'[k] = s /\ Len(runs[k]) \in Nat
        BY Numbered DEF AdvanceMissed, Closed
    <2>2. \A n \in 1..Len(runs[k]) : Closed(runs[k][n]) \in RunRow
        BY Numbered DEF Closed, RunRow, RunStatus, Ended
    <2>3. s \in Seq(RunRow) /\ Len(s) = Len(runs[k])
        <3> HIDE DEF Closed
        <3>1. QED
            BY <2>1, <2>2
    <2>4. \A i \in 1..Len(runs[k]) : s[i] = Closed(runs[k][i])
        OBVIOUS
    <2> HIDE DEF s
    <2>5. QED
        BY <2>1, <2>3, <2>4, Numbered
<1>2. runs' = [k \in Loops |-> runs'[k]]
    BY DEF AdvanceMissed
<1>3. QED
    BY <1>1, <1>2

LEMMA AdvanceRow ==
    ASSUME TypeOK, AdvanceMissed
    PROVE  /\ loop' \in [Loops -> Row]
           /\ \A k \in Loops :
                 /\ loop'[k].status = loop[k].status /\ loop'[k].event = loop[k].event
                 /\ loop'[k].lastRun = loop[k].lastRun
                 /\ loop[k].next = "none" => loop'[k].next = "none"
                 /\ loop'[k].lastStatus =
                      IF loop[k].lastRun # 0 /\ Active(runs[k][loop[k].lastRun])
                      THEN "error" ELSE loop[k].lastStatus
<1>1. ASSUME NEW k \in Loops
      PROVE  /\ loop'[k] \in Row
             /\ loop'[k].status = loop[k].status /\ loop'[k].event = loop[k].event
             /\ loop'[k].lastRun = loop[k].lastRun
             /\ loop[k].next = "none" => loop'[k].next = "none"
             /\ loop'[k].lastStatus =
                  IF loop[k].lastRun # 0 /\ Active(runs[k][loop[k].lastRun])
                  THEN "error" ELSE loop[k].lastStatus
    <2>1. loop[k] \in Row
        BY DEF TypeOK
    <2>2. /\ Advanced(k) \in Row /\ Advanced(k).status = loop[k].status
          /\ Advanced(k).event = loop[k].event /\ Advanced(k).lastRun = loop[k].lastRun
          /\ Advanced(k).lastStatus = loop[k].lastStatus
          /\ loop[k].next = "none" => Advanced(k).next = "none"
        BY <2>1 DEF Advanced, Row, Due
    <2>3. loop'[k] = IF loop[k].lastRun # 0 /\ Active(runs[k][loop[k].lastRun])
                     THEN [Advanced(k) EXCEPT !.lastStatus = "error"] ELSE Advanced(k)
        BY DEF AdvanceMissed
    <2>4. QED
        BY <2>2, <2>3 DEF Row, RunStatus, Ended
<1>2. loop' = [k \in Loops |-> loop'[k]]
    BY DEF AdvanceMissed
<1>3. QED
    BY <1>1, <1>2

LEMMA RestartTyped ==
    ASSUME TypeOK, Crash \/ Serve \/ AdvanceMissed
    PROVE  TypeOK'
<1>1. CASE Crash
    <2>1. AllRuns' = AllRuns /\ UNCHANGED <<loop, runs, reset, edits>>
        BY <1>1 DEF AllRuns, Crash
    <2>2. hear' \in [Handlers -> Hearing] /\ fired' \subseteq Loops \X Messages
        BY <1>1 DEF Crash, Quiet, Hearing
    <2>3. crashes' \in 0..MaxCrashes
        BY <1>1, RoutineAssumption DEF Crash, TypeOK
    <2>4. server' \in {"down", "serving", "scheduling"}
        BY <1>1 DEF Crash
    <2>5. QED
        BY <1>1, <2>1, <2>2, <2>3, <2>4, CrashEntry DEF TypeOK
<1>2. CASE Serve
    BY <1>2, RowsTyped DEF Serve, TypeOK, runVars, historyVars
<1>3. CASE AdvanceMissed
    <2>1. /\ UNCHANGED <<exec, fired, hear, edits, crashes>> /\ server' = "scheduling"
          /\ reset' \subseteq AllRuns
        BY <1>3 DEF AdvanceMissed
    <2>2. AllRuns' = AllRuns
        BY <1>3, AdvanceEntry DEF AllRuns
    <2>3. /\ runs' \in [Loops -> Seq(RunRow)]
          /\ \A k \in Loops : Len(runs'[k]) = Len(runs[k])
        BY <1>3, AdvanceEntry
    <2>4. \A k \in Loops : runs[k] = << >> => runs'[k] = << >>
        BY <2>3, EmptySeq, Numbered
    <2>5. QED
        BY <1>3, <2>1, <2>2, <2>3, <2>4, AdvanceRow DEF TypeOK
<1>4. QED
    BY <1>1, <1>2, <1>3

LEMMA InitTyped == Init => TypeOK
<1> SUFFICES ASSUME Init PROVE TypeOK
    OBVIOUS
<1>1. loop \in [Loops -> Row] /\ \A l \in Loops : loop[l] = NoLoop
    BY DEF Init, NoLoop, Row
<1>2. /\ << >> \in Seq(RunRow) /\ << >> \in Seq(Goroutine) /\ Len(<< >>) = 0
    BY EmptySeq
<1>3. QED
    BY <1>1, <1>2, RoutineAssumption DEF Init, TypeOK, NoLoop, Quiet, Hearing

LEMMA NextTyped == TypeOK /\ [Next]_vars => TypeOK'
<1> SUFFICES ASSUME TypeOK, [Next]_vars PROVE TypeOK'
    OBVIOUS
<1>1. CASE UNCHANGED vars
    BY <1>1, RowsTyped DEF vars, TypeOK
<1>2. ASSUME NEW l \in Loops, NEW status \in {"active", "paused"}, NEW event \in BOOLEAN,
             NEW new \in BOOLEAN,
             \/ Create(l, status, event) \/ Update(l, status, new, event)
             \/ Delete(l) \/ TimePasses(l)
      PROVE  TypeOK'
    BY <1>2, RowActionsTyped
<1>3. ASSUME NEW l \in Loops, RunNow(l)
      PROVE  TypeOK'
    BY <1>3, StartTyped DEF RunNow, TypeOK
<1>4. ASSUME NEW l \in Loops, NEW n \in 1..MaxRuns, RunStep(l, n) \/ UsersTurn(l, n)
      PROVE  TypeOK'
    <2>1. n \in Nat
        BY RoutineAssumption
    <2>2. QED
        BY <1>4, <2>1, StepLives, PutTyped DEF Lives
<1>5. CASE StartDue
    <2>1. /\ loop' \in [Loops -> Row]
          /\ runs' \in [Loops -> Seq(RunRow)] /\ exec' \in [Loops -> Seq(Goroutine)]
          /\ \A k \in Loops : Typed(k)' /\ DOMAIN runs[k] \subseteq DOMAIN runs'[k]
        BY <1>5, StartDueTurns
    <2>2. UNCHANGED <<server, fired, hear, reset, edits, crashes>>
        BY <1>5 DEF StartDue, historyVars
    <2>3. reset' \subseteq AllRuns'
        BY <2>1, <2>2, ResetKept DEF TypeOK
    <2>4. QED
        BY <2>1, <2>2, <2>3 DEF TypeOK, Typed
<1>6. ASSUME NEW h \in Handlers,
             \/ \E batch \in SUBSET Messages : HandleIncoming(h, batch)
             \/ \E l \in Loops : FirstSighting(h, l)
             \/ Trigger(h)
      PROVE  TypeOK'
    BY <1>6, HandlersTyped
<1>7. CASE Crash \/ Serve \/ AdvanceMissed
    BY <1>7, RestartTyped
<1>8. QED
    BY <1>1, <1>2, <1>3, <1>4, <1>5, <1>6, <1>7 DEF Next

\* TypeOK: every run has its goroutine's entry, the row of a routine names a run that
\* exists, and a deleted routine has no next run, whatever the scheduler, users,
\* triggers, edits, ends of turns and restarts do.
THEOREM TypeCorrect == Spec => []TypeOK
BY InitTyped, NextTyped, PTL DEF Spec

-----------------------------------------------------------------------------
\* One run at a time.

\* A goroutine that has recorded no thread of the run's own has an active run, unless
\* the run was reset under it; runs that were reset before the last crash have no
\* goroutine; two active runs are one; and the routine's row agrees with its newest run.
Tracked(l) ==
    \A n \in DOMAIN runs[l] : Threadless(l, n) =>
        ~runs[l][n].thread /\ (Excused(l, n) \/ Active(runs[l][n]))
ResetIsOver(l) ==
    server # "scheduling" => \A n \in DOMAIN runs[l] : ~(Alive(l, n) /\ Excused(l, n))
Alone(l) ==
    \A i, j \in DOMAIN runs[l] :
        /\ Active(runs[l][i]) /\ ~Excused(l, i)
        /\ Active(runs[l][j]) /\ ~Excused(l, j)
        => i = j
RowAgrees(l) ==
    runs[l] # << >> =>
        /\ loop[l].lastRun = Len(runs[l])
        /\ loop[l].lastStatus = runs[l][Len(runs[l])].status

Orderly(l) == Tracked(l) /\ ResetIsOver(l) /\ Alone(l) /\ RowAgrees(l)
RunInv == TypeOK /\ \A l \in Loops : Orderly(l)

\* No step but AdvanceMissed changes which runs are excused.
LEMMA SameOrderly ==
    ASSUME TypeOK, NEW k \in Loops, Orderly(k), Same(k), reset' = reset,
           server = "scheduling" => server' = "scheduling",
           runs[k] # << >> => /\ loop'[k].lastRun = loop[k].lastRun
                              /\ loop'[k].lastStatus = loop[k].lastStatus
    PROVE  Orderly(k)'
<1>1. runs'[k] = runs[k] /\ exec'[k] = exec[k]
    BY DEF Same
<1>2. Tracked(k)'
    BY <1>1 DEF Orderly, Tracked, Threadless, Excused
<1>6. ResetIsOver(k)'
    <2>1. SUFFICES ASSUME server' # "scheduling", NEW n \in DOMAIN runs[k]
                   PROVE  ~(Alive(k, n)' /\ Excused(k, n)')
        BY <1>1 DEF ResetIsOver
    <2>2. server # "scheduling"
        BY <2>1
    <2>3. QED
        BY <1>1, <2>2 DEF Orderly, ResetIsOver, Alive, Excused
<1>3. Alone(k)'
    BY <1>1 DEF Orderly, Alone, Excused
<1>4. RowAgrees(k)'
    BY <1>1 DEF Orderly, RowAgrees
<1>5. QED
    BY <1>2, <1>3, <1>4, <1>6 DEF Orderly

\* A run that is added has no history.
LEMMA NewIsNotExcused ==
    ASSUME TypeOK, NEW k \in Loops
    PROVE  ~Excused(k, Len(runs[k]) + 1)
<1> SUFFICES ASSUME <<k, Len(runs[k]) + 1>> \in AllRuns PROVE FALSE
    BY DEF TypeOK, Excused
<1>1. PICK l \in Loops : <<k, Len(runs[k]) + 1>> \in {l} \X DOMAIN runs[l]
    BY DEF AllRuns
<1>2. Len(runs[k]) + 1 \in 1..Len(runs[k]) /\ Len(runs[k]) \in Nat
    BY <1>1, Numbered
<1>3. QED
    BY <1>2

LEMMA GrownOrderly ==
    ASSUME TypeOK, NEW k \in Loops, Orderly(k), NEW r \in RunRow, NEW g \in Goroutine,
           Grown(k, r, g), UNCHANGED <<reset, server>>,
           \/ ~HasActiveRun(k) /\ Active(r) /\ ~r.thread
           \/ ~Active(r) /\ g.at = "gone"
    PROVE  Orderly(k)'
<1> DEFINE last == Len(runs[k]) + 1
<1>1. /\ Len(runs'[k]) = last /\ DOMAIN runs'[k] = 1..last /\ runs'[k] # << >>
      /\ \A i \in DOMAIN runs[k] : runs'[k][i] = runs[k][i] /\ exec'[k][i] = exec[k][i]
      /\ runs'[k][last] = r /\ exec'[k][last] = g
    BY GrownByOne
<1>2. DOMAIN runs'[k] = DOMAIN runs[k] \cup {last} /\ last \notin DOMAIN runs[k]
    BY <1>1, Numbered
<1>3. ~Excused(k, last)
    BY NewIsNotExcused
<1>4. loop'[k].lastRun = last /\ loop'[k].lastStatus = r.status
    BY DEF Grown
<1> HIDE DEF last
<1>5. Tracked(k)'
    BY <1>1, <1>2 DEF Orderly, Tracked, Threadless, Before, Excused
<1>6. ResetIsOver(k)'
    BY <1>1, <1>2, <1>3 DEF Orderly, ResetIsOver, Alive, Excused
<1>7. Alone(k)'
    BY <1>1, <1>2 DEF Orderly, Alone, Excused, HasActiveRun
<1>8. RowAgrees(k)'
    BY <1>1, <1>4 DEF RowAgrees
<1>9. QED
    BY <1>5, <1>6, <1>7, <1>8 DEF Orderly

LEMMA LivesOrderly ==
    ASSUME TypeOK, NEW l \in Loops, NEW n \in DOMAIN runs[l],
           NEW r \in RunRow, NEW g \in Goroutine, Lives(l, n, r, g),
           NEW k \in Loops, Orderly(k)
    PROVE  Orderly(k)'
<1>1. /\ Len(runs'[k]) = Len(runs[k]) /\ DOMAIN runs'[k] = DOMAIN runs[k]
      /\ \A i \in DOMAIN runs[k] :
           /\ runs'[k][i] = IF k = l /\ i = n THEN r ELSE runs[k][i]
           /\ exec'[k][i] = IF k = l /\ i = n THEN g ELSE exec[k][i]
    BY PutEntry DEF Lives
<1>2. UNCHANGED <<server, reset>>
    BY DEF Lives, Put, historyVars
<1>3. k = l =>
        /\ g.at # "gone" => Alive(l, n)
        /\ g.at \in Before =>
              /\ Threadless(l, n)
              /\ runs[l][n].thread \/ r = runs[l][n] \/ (Active(r) /\ ~r.thread)
        /\ Active(r) => Threadless(l, n) \/ r = runs[l][n]
    BY DEF Lives
<1>4. Tracked(k)'
    BY <1>1, <1>2, <1>3 DEF Orderly, Tracked, Threadless, Excused
<1>5. ResetIsOver(k)'
    BY <1>1, <1>2, <1>3 DEF Orderly, ResetIsOver, Alive, Excused
<1>6. Alone(k)'
    <2>1. \A i \in DOMAIN runs[k] : Active(runs'[k][i]) /\ ~Excused(k, i) => Active(runs[k][i])
        BY <1>1, <1>3 DEF Orderly, Tracked
    <2>2. QED
        BY <1>1, <1>2, <2>1 DEF Orderly, Alone, Excused
<1>7. RowAgrees(k)'
    <2>1. /\ loop'[k].lastRun = loop[k].lastRun
          /\ \/ loop'[k].lastStatus = loop[k].lastStatus
                /\ (k = l /\ loop[k].lastRun = n => r.status = runs[l][n].status)
             \/ loop'[k].lastStatus = r.status /\ k = l /\ loop[k].lastRun = n
        BY PutRow DEF Lives
    <2>2. /\ runs[k] \in Seq(RunRow) /\ runs'[k] \in Seq(RunRow)
        BY PutEntry DEF Lives, TypeOK
    <2>3. (runs'[k] # << >>) => (runs[k] # << >>) /\ Len(runs[k]) \in DOMAIN runs[k]
        BY <1>1, <2>2, EmptySeq, Numbered
    <2>4. QED
        BY <1>1, <2>1, <2>3 DEF Orderly, RowAgrees
<1>8. QED
    BY <1>4, <1>5, <1>6, <1>7 DEF Orderly

LEMMA CrashOrderly ==
    ASSUME TypeOK, Crash, NEW k \in Loops, Orderly(k)
    PROVE  Orderly(k)'
<1>1. /\ UNCHANGED <<runs, loop, reset>> /\ \A n \in DOMAIN runs[k] : exec'[k][n].at = "gone"
    BY CrashEntry, Numbered, NewShapes DEF Crash
<1>2. QED
    BY <1>1 DEF Orderly, Tracked, ResetIsOver, Alone, RowAgrees, Alive, Threadless, Before, Excused

LEMMA AdvanceOrderly ==
    ASSUME TypeOK, AdvanceMissed, NEW k \in Loops, Orderly(k)
    PROVE  Orderly(k)'
<1>1. /\ Len(runs'[k]) = Len(runs[k]) /\ DOMAIN runs'[k] = DOMAIN runs[k]
      /\ \A i \in DOMAIN runs[k] : runs'[k][i] = Closed(runs[k][i])
    BY AdvanceEntry
<1>2. \A i \in DOMAIN runs[k] : ~Active(runs'[k][i])
    <2>1. \A i \in DOMAIN runs[k] : ~Active(Closed(runs[k][i]))
        BY Numbered DEF Active, Closed, RunRow
    <2>2. QED
        BY <1>1, <2>1
<1>3. \A i \in DOMAIN runs[k] : Threadless(k, i) => <<k, i>> \in reset'
    <2>1. \A i \in DOMAIN runs[k] : <<k, i>> \in AllRuns
        BY DEF AllRuns
    <2>2. server # "scheduling"
        BY DEF AdvanceMissed
    <2>3. \A i \in DOMAIN runs[k] : Threadless(k, i) => Alive(k, i) /\ Active(runs[k][i])
        BY <2>2 DEF Orderly, Tracked, ResetIsOver, Threadless, Before, Alive
    <2>4. reset' = {r \in AllRuns : Active(runs[r[1]][r[2]]) /\ exec[r[1]][r[2]].at # "gone"}
        BY DEF AdvanceMissed
    <2>5. QED
        BY <2>1, <2>3, <2>4 DEF Alive
<1>4. exec' = exec /\ server' = "scheduling"
    BY DEF AdvanceMissed
<1>5. Tracked(k)'
    <2>1. \A i \in DOMAIN runs[k] : runs'[k][i].thread = runs[k][i].thread
        BY <1>1, Numbered DEF Closed, RunRow
    <2>2. QED
        BY <1>1, <1>3, <1>4, <2>1 DEF Orderly, Tracked, Threadless, Excused
<1>6. ResetIsOver(k)' /\ Alone(k)'
    BY <1>1, <1>2, <1>4 DEF ResetIsOver, Alone
<1>7. RowAgrees(k)'
    <2> SUFFICES ASSUME runs'[k] # << >> PROVE RowAgrees(k)'
        BY DEF RowAgrees
    <2>1. runs'[k] \in Seq(RunRow)
        BY AdvanceEntry
    <2>2. runs[k] # << >> /\ Len(runs[k]) \in DOMAIN runs[k] /\ Len(runs[k]) # 0
        BY <1>1, <2>1, EmptySeq, Numbered
    <2>3. /\ loop[k].lastRun = Len(runs[k])
          /\ loop[k].lastStatus = runs[k][Len(runs[k])].status
        BY <2>2 DEF Orderly, RowAgrees
    <2>4. /\ loop'[k].lastRun = loop[k].lastRun
          /\ loop'[k].lastStatus = IF loop[k].lastRun # 0 /\ Active(runs[k][loop[k].lastRun])
                                   THEN "error" ELSE loop[k].lastStatus
        BY AdvanceRow
    <2>5. runs'[k][Len(runs[k])].status =
             IF Active(runs[k][Len(runs[k])]) THEN "error" ELSE runs[k][Len(runs[k])].status
        BY <1>1, <2>2, Numbered DEF Closed, RunRow
    <2>6. QED
        BY <1>1, <2>2, <2>3, <2>4, <2>5 DEF RowAgrees
<1>8. QED
    BY <1>5, <1>6, <1>7 DEF Orderly

LEMMA InitOrderly == Init => RunInv
<1> SUFFICES ASSUME Init PROVE RunInv
    OBVIOUS
<1>1. \A l \in Loops : runs[l] = << >> /\ DOMAIN runs[l] = {}
    BY DEF Init
<1>2. QED
    BY <1>1, InitTyped DEF RunInv, Orderly, Tracked, ResetIsOver, Alone, RowAgrees

\* Steps that change no run, and of the rows only what concerns the schedule.
LEMMA RowsOrderly ==
    ASSUME TypeOK, NEW k \in Loops, Orderly(k), UNCHANGED <<runs, exec, reset>>,
           server = "scheduling" => server' = "scheduling",
           runs[k] # << >> => /\ loop'[k].lastRun = loop[k].lastRun
                              /\ loop'[k].lastStatus = loop[k].lastStatus
    PROVE  Orderly(k)'
<1>1. Same(k)
    BY DEF Same
<1>2. QED
    BY <1>1, SameOrderly

LEMMA ScheduleOrderly ==
    ASSUME TypeOK, NEW k \in Loops, Orderly(k),
           NEW l \in Loops, NEW status \in {"active", "paused"},
           NEW event \in BOOLEAN, NEW new \in BOOLEAN,
           \/ Create(l, status, event) \/ Update(l, status, new, event)
           \/ Delete(l) \/ TimePasses(l)
    PROVE  Orderly(k)'
<1>1. loop \in [Loops -> Row] /\ loop[l] \in Row
    BY DEF TypeOK
<1>2. UNCHANGED <<runs, exec, reset, server>>
    BY DEF Create, Update, Delete, TimePasses, runVars, historyVars
<1>3. runs[k] # << >> => /\ loop'[k].lastRun = loop[k].lastRun
                         /\ loop'[k].lastStatus = loop[k].lastStatus
    <2>1. CASE Create(l, status, event)
        <3>1. runs[l] = << >>
            BY <2>1 DEF Create, TypeOK
        <3>2. k # l => loop'[k] = loop[k]
            BY <1>1, <2>1 DEF Create
        <3>3. QED
            BY <3>1, <3>2
    <2>2. CASE Update(l, status, new, event)
        <3>1. PICK next \in {"none", "later", loop[l].next} :
                 loop' = [loop EXCEPT ![l].status = status, ![l].event = event, ![l].next = next]
            BY <1>1, <2>2 DEF Update, NextRun
        <3>2. /\ loop'[l].lastRun = loop[l].lastRun /\ loop'[l].lastStatus = loop[l].lastStatus
              /\ \A i \in Loops \ {l} : loop'[i] = loop[i]
            BY <1>1, <3>1 DEF Row
        <3>3. QED
            BY <3>2
    <2>3. CASE Delete(l) \/ TimePasses(l)
        <3>1. /\ loop'[l].lastRun = loop[l].lastRun /\ loop'[l].lastStatus = loop[l].lastStatus
              /\ \A i \in Loops \ {l} : loop'[i] = loop[i]
            BY <1>1, <2>3 DEF Delete, TimePasses, Row
        <3>2. QED
            BY <3>1
    <2>4. QED
        BY <2>1, <2>2, <2>3
<1>4. QED
    BY <1>2, <1>3, RowsOrderly

LEMMA ManualOrderly ==
    ASSUME TypeOK, NEW k \in Loops, Orderly(k), NEW l \in Loops,
           NEW events \in SUBSET Messages, StartManual(l, events), UNCHANGED <<reset, server>>
    PROVE  Orderly(k)'
<1>1. /\ \A i \in Loops \ {l} : Same(i) /\ loop'[i] = loop[i]
      /\ \E g \in Goroutines(events) : g \in Goroutine /\ Grown(l, NewRun, g)
    BY StartManualTyped
<1>2. ~HasActiveRun(l) /\ Active(NewRun) /\ ~NewRun.thread
    BY NewShapes DEF StartManual, Active
<1>3. CASE k = l
    BY <1>1, <1>2, <1>3, NewShapes, GrownOrderly
<1>4. CASE k # l
    BY <1>1, <1>4, SameOrderly
<1>5. QED
    BY <1>3, <1>4

LEMMA StartDueOrderly ==
    ASSUME TypeOK, NEW k \in Loops, Orderly(k), StartDue
    PROVE  Orderly(k)'
<1>1. Turns(k) /\ UNCHANGED <<reset, server>>
    BY StartDueTurns DEF StartDue, historyVars
<1>2. CASE Same(k) /\ loop'[k] = loop[k]
    BY <1>1, <1>2, SameOrderly
<1>3. CASE Grown(k, SkippedRun, NoGoroutine)
    BY <1>1, <1>3, NewShapes, GrownOrderly DEF Active
<1>4. ASSUME ~HasActiveRun(k), NEW g \in Goroutines({}), Grown(k, NewRun, g)
      PROVE  Orderly(k)'
    <2>1. g \in Goroutine /\ Active(NewRun) /\ ~NewRun.thread
        BY NewShapes DEF Active
    <2>2. QED
        BY <1>1, <1>4, <2>1, NewShapes, GrownOrderly
<1>5. QED
    BY <1>1, <1>2, <1>3, <1>4 DEF Turns

LEMMA NextOrderly == RunInv /\ [Next]_vars => RunInv'
<1> SUFFICES ASSUME RunInv, [Next]_vars, NEW k \in Loops PROVE Orderly(k)'
    BY NextTyped DEF RunInv
<1>1. TypeOK /\ Orderly(k)
    BY DEF RunInv
<1>2. CASE UNCHANGED vars
    BY <1>1, <1>2, RowsOrderly DEF vars
<1>3. ASSUME NEW l \in Loops, NEW status \in {"active", "paused"}, NEW event \in BOOLEAN,
             NEW new \in BOOLEAN,
             \/ Create(l, status, event) \/ Update(l, status, new, event)
             \/ Delete(l) \/ TimePasses(l)
      PROVE  Orderly(k)'
    BY <1>1, <1>3, ScheduleOrderly
<1>4. ASSUME NEW l \in Loops, RunNow(l)
      PROVE  Orderly(k)'
    BY <1>1, <1>4, ManualOrderly DEF RunNow, historyVars
<1>5. ASSUME NEW l \in Loops, NEW n \in 1..MaxRuns, RunStep(l, n) \/ UsersTurn(l, n)
      PROVE  Orderly(k)'
    <2>1. n \in Nat
        BY RoutineAssumption
    <2>2. QED
        BY <1>1, <1>5, <2>1, StepLives, LivesOrderly
<1>6. CASE StartDue
    BY <1>1, <1>6, StartDueOrderly
<1>7. ASSUME NEW h \in Handlers,
             \/ \E batch \in SUBSET Messages : HandleIncoming(h, batch)
             \/ \E l \in Loops : FirstSighting(h, l)
      PROVE  Orderly(k)'
    BY <1>1, <1>7, RowsOrderly DEF HandleIncoming, FirstSighting, runVars, historyVars
<1>8. ASSUME NEW h \in Handlers, Trigger(h)
      PROVE  Orderly(k)'
    <2>1. hear[h].loop \in Loops /\ hear[h].events \in SUBSET Messages
        BY <1>1, <1>8 DEF Trigger, TypeOK, Hearing
    <2>2. CASE StartManual(hear[h].loop, hear[h].events)
        BY <1>1, <1>8, <2>1, <2>2, ManualOrderly DEF Trigger, historyVars
    <2>3. CASE UNCHANGED <<loop, runVars>>
        BY <1>1, <1>8, <2>3, RowsOrderly DEF Trigger, runVars, historyVars
    <2>4. QED
        BY <1>8, <2>2, <2>3 DEF Trigger
<1>9. CASE Crash
    BY <1>1, <1>9, CrashOrderly
<1>10. CASE Serve
    BY <1>1, <1>10, RowsOrderly DEF Serve, runVars, historyVars
<1>11. CASE AdvanceMissed
    BY <1>1, <1>11, AdvanceOrderly
<1>12. QED
    BY <1>2, <1>3, <1>4, <1>5, <1>6, <1>7, <1>8, <1>9, <1>10, <1>11 DEF Next

LEMMA AtMostOne ==
    ASSUME NEW s, NEW n \in Nat, s \subseteq 1..n, \A i, j \in s : i = j
    PROVE  Cardinality(s) <= 1
<1>1. CASE s = {}
    BY <1>1, FS_EmptySet
<1>2. ASSUME NEW i \in s
      PROVE  Cardinality(s) <= 1
    <2>1. s = {i}
        BY <1>2
    <2>2. QED
        BY <2>1, FS_Singleton
<1>3. QED
    BY <1>1, <1>2

\* However the scheduler, users, webhooks, triggers and restarts interleave, a routine
\* has at most one run that is starting or running; excepted are runs AdvanceMissed
\* closed while their executor was at work.
THEOREM OneRunAtATime == Spec => []OneActiveRun
<1>1. RunInv => OneActiveRun
    <2> SUFFICES ASSUME RunInv, NEW l \in Loops
                 PROVE  Cardinality({n \in DOMAIN runs[l] : Active(runs[l][n]) /\ <<l, n>> \notin reset}) <= 1
        BY DEF OneActiveRun
    <2> DEFINE s == {n \in DOMAIN runs[l] : Active(runs[l][n]) /\ <<l, n>> \notin reset}
    <2>1. \A i, j \in s : i = j
        BY DEF RunInv, Orderly, Alone, Excused
    <2>2. s \subseteq 1..Len(runs[l]) /\ Len(runs[l]) \in Nat
        BY Numbered DEF RunInv
    <2> HIDE DEF s
    <2>3. Cardinality(s) <= 1
        BY <2>1, <2>2, AtMostOne
    <2>4. QED
        BY <2>3 DEF s
<1>2. QED
    BY <1>1, InitOrderly, NextOrderly, PTL DEF Spec

\* What a routine's row says of its last run is what the newest run's row says.
THEOREM RowFollowsNewestRun == Spec => []LastRunAgrees
<1>1. RunInv => LastRunAgrees
    BY DEF RunInv, Orderly, RowAgrees, LastRunAgrees
<1>2. QED
    BY <1>1, InitOrderly, NextOrderly, PTL DEF Spec

LEMMA OutcomeKept ==
    ASSUME RunInv, [Next]_vars, NEW l \in Loops, NEW n \in DOMAIN runs[l],
           ~Active(runs[l][n]), <<l, n>> \notin reset
    PROVE  runs'[l][n].status = runs[l][n].status \/ SendFails(l, n)
<1>1. TypeOK /\ Orderly(l)
    BY DEF RunInv
<1>2. ~Threadless(l, n)
    BY <1>1 DEF Orderly, Tracked, Excused
<1>3. ASSUME NEW i \in Loops, NEW j \in 1..MaxRuns, RunStep(i, j) \/ UsersTurn(i, j)
      PROVE  runs'[l][n].status = runs[l][n].status \/ SendFails(l, n)
    <2>1. j \in Nat
        BY RoutineAssumption
    <2>2. PICK r \in RunRow, g \in Goroutine : j \in DOMAIN runs[i] /\ Lives(i, j, r, g)
        BY <1>1, <1>3, <2>1, StepLives
    <2>3. /\ runs'[l][n] = IF l = i /\ n = j THEN r ELSE runs[l][n]
          /\ exec'[l][n] = IF l = i /\ n = j THEN g ELSE exec[l][n]
        BY <1>1, <2>2, PutEntry DEF Lives
    <2>4. CASE l = i /\ n = j
        BY <1>2, <2>2, <2>3, <2>4 DEF Lives, SendFails
    <2>5. QED
        BY <2>3, <2>4
<1>4. ASSUME NEW i \in Loops, NEW events \in SUBSET Messages, StartManual(i, events)
      PROVE  runs'[l][n].status = runs[l][n].status
    <2>1. PICK g \in Goroutines(events) : g \in Goroutine /\ Grown(i, NewRun, g)
        BY <1>1, <1>4, StartManualTyped
    <2>2. l # i => Same(l)
        BY <1>1, <1>4, StartManualTyped
    <2>3. l = i => runs'[l][n] = runs[l][n]
        BY <1>1, <2>1, NewShapes, GrownByOne
    <2>4. QED
        BY <2>2, <2>3 DEF Same
<1>5. CASE StartDue
    <2>1. Turns(l)
        BY <1>1, <1>5, StartDueTurns
    <2>2. QED
        BY <1>1, <2>1, NewShapes, GrownByOne DEF Turns, Same
<1>6. CASE AdvanceMissed
    BY <1>1, <1>6, AdvanceEntry DEF Closed
<1>7. CASE UNCHANGED runs
    BY <1>7
<1>8. ASSUME NEW h \in Handlers, Trigger(h)
      PROVE  runs'[l][n].status = runs[l][n].status
    <2>1. hear[h].loop \in Loops /\ hear[h].events \in SUBSET Messages
        BY <1>1, <1>8 DEF Trigger, TypeOK, Hearing
    <2>2. QED
        BY <1>4, <1>7, <1>8, <2>1 DEF Trigger, runVars
<1>9. ASSUME NEW i \in Loops, RunNow(i)
      PROVE  runs'[l][n].status = runs[l][n].status
    BY <1>4, <1>9 DEF RunNow
<1>10. ASSUME NEW i \in Loops, NEW status \in {"active", "paused"}, NEW event \in BOOLEAN,
              NEW new \in BOOLEAN,
              \/ Create(i, status, event) \/ Update(i, status, new, event)
              \/ Delete(i) \/ TimePasses(i)
      PROVE  runs'[l][n].status = runs[l][n].status
    BY <1>7, <1>10 DEF Create, Update, Delete, TimePasses, runVars
<1>11. ASSUME NEW h \in Handlers,
              \/ \E batch \in SUBSET Messages : HandleIncoming(h, batch)
              \/ \E i \in Loops : FirstSighting(h, i)
      PROVE  runs'[l][n].status = runs[l][n].status
    BY <1>7, <1>11 DEF HandleIncoming, FirstSighting, runVars
<1>12. CASE Crash \/ Serve \/ UNCHANGED vars
    BY <1>7, <1>12 DEF Crash, Serve, vars, runVars
<1>13. QED
    BY <1>3, <1>5, <1>6, <1>8, <1>9, <1>10, <1>11, <1>12 DEF Next

\* A run that has ended never becomes active again and keeps its outcome, whatever turn
\* ends in its thread, whichever goroutine comes late and however often the server
\* restarts; only its own executor's failing send turns it, once, into an error.
THEOREM OutcomesStay == Spec => FinishedStaysFinished
<1> DEFINE Keeps == \A l \in Loops : \A n \in DOMAIN runs[l] :
                       ~Active(runs[l][n]) /\ <<l, n>> \notin reset
                           => runs'[l][n].status = runs[l][n].status \/ SendFails(l, n)
<1>1. RunInv /\ [Next]_vars => Keeps
    BY OutcomeKept
<1>2. RunInv /\ [Next]_vars => [Keeps]_vars
    BY <1>1
<1>3. Spec => []RunInv
    BY InitOrderly, NextOrderly, PTL DEF Spec
<1>4. QED
    BY <1>2, <1>3, PTL DEF Spec, FinishedStaysFinished

-----------------------------------------------------------------------------
\* A message fires a routine once.

\* The messages a run was started for, and those a handler is about to start one for,
\* are remembered as fired, and no two of these were given the same message.
Given(l, n) == exec[l][n].events
Remembered(l) ==
    \A n \in DOMAIN exec[l] : \A m \in Given(l, n) :
        /\ <<l, m>> \in fired
        /\ \A i \in DOMAIN exec[l] : m \in Given(l, i) => i = n
ToGive(h, m) == hear[h].loop # Nothing /\ m \in hear[h].events
Intended(h) ==
    \A m \in Messages : ToGive(h, m) =>
        /\ <<hear[h].loop, m>> \in fired
        /\ \A n \in DOMAIN exec[hear[h].loop] : m \notin Given(hear[h].loop, n)
        /\ \A o \in Handlers : ToGive(o, m) /\ hear[o].loop = hear[h].loop => o = h

FireInv == TypeOK /\ (\A l \in Loops : Remembered(l)) /\ (\A h \in Handlers : Intended(h))

LEMMA InitFire == Init => FireInv
<1> SUFFICES ASSUME Init PROVE FireInv
    OBVIOUS
<1>1. \A l \in Loops : DOMAIN exec[l] = {}
    BY DEF Init
<1>2. \A h \in Handlers : hear[h].loop = Nothing
    BY DEF Init, Quiet
<1>3. QED
    BY <1>1, <1>2, InitTyped DEF FireInv, Remembered, Intended, ToGive

\* Runs are started for no message, and handlers give up or go on.
LEMMA NothingGiven ==
    ASSUME FireInv,
           \A l \in Loops : \A n \in DOMAIN exec'[l] :
              \/ exec'[l][n].events = {}
              \/ n \in DOMAIN exec[l] /\ exec'[l][n].events = exec[l][n].events,
           fired \subseteq fired',
           \A h \in Handlers : hear'[h] = hear[h] \/ hear'[h].loop = Nothing
    PROVE  (\A l \in Loops : Remembered(l)') /\ (\A h \in Handlers : Intended(h)')
<1>1. ASSUME NEW l \in Loops PROVE Remembered(l)'
    BY <1>1 DEF FireInv, Remembered, Given
<1>2. ASSUME NEW h \in Handlers, NEW m \in Messages, ToGive(h, m)'
      PROVE  /\ <<hear'[h].loop, m>> \in fired'
             /\ \A n \in DOMAIN exec'[hear'[h].loop] : m \notin exec'[hear'[h].loop][n].events
             /\ \A o \in Handlers : ToGive(o, m)' /\ hear'[o].loop = hear'[h].loop => o = h
    <2>1. \A o \in Handlers : ToGive(o, m)' => hear'[o] = hear[o] /\ ToGive(o, m)
        BY DEF ToGive
    <2>2. hear'[h] = hear[h] /\ ToGive(h, m) /\ hear[h].loop \in Loops
        BY <1>2, <2>1 DEF FireInv, TypeOK, Hearing, ToGive
    <2>3. /\ <<hear[h].loop, m>> \in fired
          /\ \A n \in DOMAIN exec[hear[h].loop] : m \notin exec[hear[h].loop][n].events
          /\ \A o \in Handlers : ToGive(o, m) /\ hear[o].loop = hear[h].loop => o = h
        BY <2>2 DEF FireInv, Intended, Given
    <2>4. \A n \in DOMAIN exec'[hear[h].loop] : m \notin exec'[hear[h].loop][n].events
        BY <2>2, <2>3
    <2>5. QED
        BY <2>1, <2>2, <2>3, <2>4
<1>3. \A h \in Handlers : Intended(h)'
    BY <1>2 DEF Intended, Given
<1>4. QED
    BY <1>1, <1>3

LEMMA SightingFires ==
    ASSUME FireInv, NEW h \in Handlers, NEW l \in Loops, FirstSighting(h, l)
    PROVE  (\A k \in Loops : Remembered(k)') /\ (\A o \in Handlers : Intended(o)')
<1> DEFINE new == {m \in hear[h].batch : <<l, m>> \notin fired}
<1>1. /\ hear \in [Handlers -> Hearing] /\ hear[h] \in Hearing /\ l # Nothing
      /\ new \subseteq Messages /\ exec' = exec
      /\ fired' = fired \cup ({l} \X new)
      /\ hear' = [hear EXCEPT ![h] = IF new = {} THEN Heard(h, l)
                                     ELSE [hear[h] EXCEPT !.loop = l, !.events = new]]
    BY RoutineAssumption DEF FireInv, TypeOK, Hearing, FirstSighting, runVars
<1>2. CASE new = {}
    <2>1. hear'[h].loop = Nothing /\ \A o \in Handlers \ {h} : hear'[o] = hear[o]
        BY <1>1, <1>2 DEF Heard, Quiet, Hearing
    <2>2. QED
        BY <1>1, <2>1, NothingGiven
<1>3. CASE new # {}
    <2>1. /\ hear'[h].loop = l /\ hear'[h].events = new
          /\ \A o \in Handlers \ {h} : hear'[o] = hear[o]
        BY <1>1, <1>3 DEF Hearing
    <2>2. \A m \in new : <<l, m>> \notin fired /\ <<l, m>> \in fired'
        BY <1>1
    <2>3. \A k \in Loops : Remembered(k)'
        <3>1. exec' = exec /\ \A x \in fired : x \in fired'
            BY <1>1
        <3>2. QED
            BY <3>1 DEF FireInv, Remembered, Given
    <2>4. ASSUME NEW o \in Handlers, NEW m \in Messages, ToGive(o, m)'
          PROVE  /\ <<hear'[o].loop, m>> \in fired'
                 /\ \A n \in DOMAIN exec[hear'[o].loop] : m \notin exec[hear'[o].loop][n].events
                 /\ \A p \in Handlers : ToGive(p, m)' /\ hear'[p].loop = hear'[o].loop => p = o
        <3>1. \A p \in Handlers \ {h} : ToGive(p, m)' => /\ ToGive(p, m) /\ hear'[p] = hear[p]
                                                         /\ <<hear'[p].loop, m>> \in fired
            BY <2>1 DEF FireInv, Intended, ToGive
        <3>2. ToGive(h, m)' => m \in new /\ hear'[h].loop = l
            BY <2>1 DEF ToGive
        <3>3. ToGive(h, m)' =>
                 \A p \in Handlers \ {h} : ~(ToGive(p, m)' /\ hear'[p].loop = hear'[h].loop)
            BY <2>2, <3>1, <3>2
        <3>4. \A n \in DOMAIN exec[l] : exec[l][n].events \cap new = {}
            BY <2>2 DEF FireInv, Remembered, Given
        <3>5. CASE o = h
            <4>1. m \in new /\ hear'[o].loop = l
                BY <2>4, <3>2, <3>5
            <4>2. QED
                BY <2>2, <2>4, <3>3, <3>4, <3>5, <4>1
        <3>6. CASE o # h
            <4>1. ToGive(o, m) /\ hear'[o] = hear[o]
                BY <2>4, <3>1, <3>6
            <4>2. /\ <<hear[o].loop, m>> \in fired
                  /\ \A n \in DOMAIN exec[hear[o].loop] : m \notin exec[hear[o].loop][n].events
                  /\ \A p \in Handlers : ToGive(p, m) /\ hear[p].loop = hear[o].loop => p = o
                BY <4>1 DEF FireInv, Intended, Given
            <4>3. ~(ToGive(h, m)' /\ hear'[h].loop = hear'[o].loop)
                BY <2>4, <3>3, <3>6
            <4>4. ASSUME NEW p \in Handlers, ToGive(p, m)', hear'[p].loop = hear'[o].loop
                  PROVE  p = o
                <5>1. p # h
                    BY <4>3, <4>4
                <5>2. ToGive(p, m) /\ hear'[p] = hear[p]
                    BY <3>1, <4>4, <5>1
                <5>3. QED
                    BY <4>1, <4>2, <4>4, <5>2
            <4>5. <<hear'[o].loop, m>> \in fired'
                <5>1. fired \subseteq fired'
                    BY <1>1
                <5>2. <<hear'[o].loop, m>> \in fired
                    BY <4>1, <4>2
                <5>3. QED
                    BY <5>1, <5>2
            <4>6. \A n \in DOMAIN exec[hear'[o].loop] : m \notin exec[hear'[o].loop][n].events
                BY <4>1, <4>2, Zenon
            <4>7. \A p \in Handlers : ToGive(p, m)' /\ hear'[p].loop = hear'[o].loop => p = o
                BY <4>4, Zenon
            <4>8. QED
                BY <4>5, <4>6, <4>7, Zenon
        <3>7. QED
            BY <3>5, <3>6
    <2>5. \A o \in Handlers : Intended(o)'
        BY <1>1, <2>4 DEF Intended, Given
    <2>6. QED
        BY <2>3, <2>5
<1>4. QED
    BY <1>2, <1>3

\* What is given from a handler to a new run was given to no other run.
LEMMA TriggerFires ==
    ASSUME FireInv, NEW h \in Handlers, Trigger(h), StartManual(hear[h].loop, hear[h].events)
    PROVE  (\A k \in Loops : Remembered(k)') /\ (\A o \in Handlers : Intended(o)')
<1> DEFINE l == hear[h].loop
           last == Len(runs[l]) + 1
<1>1. /\ hear \in [Handlers -> Hearing] /\ hear[h] \in Hearing
      /\ l \in Loops /\ hear[h].events \in SUBSET Messages /\ l # Nothing
      /\ fired' = fired /\ hear' = [hear EXCEPT ![h] = Heard(h, l)]
    BY DEF FireInv, TypeOK, Hearing, Trigger
<1>2. hear'[h].loop = Nothing /\ \A o \in Handlers \ {h} : hear'[o] = hear[o]
    BY <1>1 DEF Heard, Quiet, Hearing
<1>3. PICK g \in Goroutines(hear[h].events) : g \in Goroutine /\ Grown(l, NewRun, g)
    BY <1>1, StartManualTyped DEF FireInv
<1>4. /\ DOMAIN exec'[l] = DOMAIN exec[l] \cup {last} /\ last \notin DOMAIN exec[l]
      /\ \A n \in DOMAIN exec[l] : exec'[l][n] = exec[l][n]
      /\ exec'[l][last].events = hear[h].events
    <2>1. /\ DOMAIN exec'[l] = 1..last /\ exec'[l][last] = g
          /\ \A n \in DOMAIN runs[l] : exec'[l][n] = exec[l][n]
        BY <1>1, <1>3, NewShapes, GrownByOne DEF FireInv
    <2>2. DOMAIN exec[l] = 1..Len(runs[l]) /\ DOMAIN runs[l] = DOMAIN exec[l] /\ Len(runs[l]) \in Nat
        BY <1>1, Numbered DEF FireInv
    <2>3. g.events = hear[h].events
        BY <1>1, <1>3, NewShapes
    <2>4. QED
        BY <2>1, <2>2, <2>3
<1>5. \A k \in Loops \ {l} : exec'[k] = exec[k]
    BY <1>1, StartManualTyped DEF FireInv, Same
<1>6. \A m \in hear[h].events :
         /\ <<l, m>> \in fired
         /\ \A n \in DOMAIN exec[l] : m \notin exec[l][n].events
         /\ \A o \in Handlers : ToGive(o, m) /\ hear[o].loop = l => o = h
    BY <1>1 DEF FireInv, Intended, Given, ToGive
<1> HIDE DEF last, l
<1>7. ASSUME NEW k \in Loops PROVE Remembered(k)'
    <2>1. CASE k # l
        BY <1>1, <1>5, <2>1 DEF FireInv, Remembered, Given
    <2>2. CASE k = l
        <3>1. \A n \in DOMAIN exec[l] : \A m \in exec[l][n].events :
                 /\ <<l, m>> \in fired
                 /\ \A i \in DOMAIN exec[l] : m \in exec[l][i].events => i = n
            BY <1>1 DEF FireInv, Remembered, Given
        <3>2. \A n \in DOMAIN exec'[l] : \A m \in exec'[l][n].events :
                 /\ <<l, m>> \in fired
                 /\ \A i \in DOMAIN exec'[l] : m \in exec'[l][i].events => i = n
            BY <1>4, <1>6, <3>1
        <3>3. QED
            BY <1>1, <2>2, <3>2 DEF Remembered, Given
    <2>3. QED
        BY <2>1, <2>2
<1>8. ASSUME NEW o \in Handlers, NEW m \in Messages, ToGive(o, m)'
      PROVE  /\ <<hear'[o].loop, m>> \in fired'
             /\ \A n \in DOMAIN exec'[hear'[o].loop] : m \notin exec'[hear'[o].loop][n].events
             /\ \A p \in Handlers : ToGive(p, m)' /\ hear'[p].loop = hear'[o].loop => p = o
    <2>1. \A p \in Handlers : ToGive(p, m)' => p # h /\ hear'[p] = hear[p] /\ ToGive(p, m)
        BY <1>2 DEF ToGive
    <2>2. /\ o # h /\ hear'[o] = hear[o] /\ ToGive(o, m) /\ hear[o].loop \in Loops
        BY <1>8, <2>1 DEF FireInv, TypeOK, Hearing, ToGive
    <2>3. /\ <<hear[o].loop, m>> \in fired
          /\ \A n \in DOMAIN exec[hear[o].loop] : m \notin exec[hear[o].loop][n].events
          /\ \A p \in Handlers : ToGive(p, m) /\ hear[p].loop = hear[o].loop => p = o
        BY <2>2 DEF FireInv, Intended, Given
    <2>4. \A n \in DOMAIN exec'[hear[o].loop] : m \notin exec'[hear[o].loop][n].events
        <3>1. CASE hear[o].loop # l
            BY <1>5, <2>2, <2>3, <3>1
        <3>2. CASE hear[o].loop = l
            <4>1. m \notin hear[h].events
                BY <1>6, <2>2, <3>2
            <4>2. QED
                BY <1>4, <2>3, <3>2, <4>1
        <3>3. QED
            BY <3>1, <3>2
    <2>5. QED
        BY <1>1, <2>1, <2>2, <2>3, <2>4
<1>9. \A o \in Handlers : Intended(o)'
    BY <1>8 DEF Intended, Given
<1>10. QED
    BY <1>7, <1>9

LEMMA NextFires == FireInv /\ [Next]_vars => FireInv'
<1> SUFFICES ASSUME FireInv, [Next]_vars
             PROVE  (\A l \in Loops : Remembered(l)') /\ (\A h \in Handlers : Intended(h)')
    BY NextTyped DEF FireInv
<1>1. TypeOK
    BY DEF FireInv
<1>2. CASE UNCHANGED <<exec, fired>> /\ \A h \in Handlers : hear'[h] = hear[h] \/ hear'[h].loop = Nothing
    BY <1>2, NothingGiven
<1>3. ASSUME NEW l \in Loops, NEW status \in {"active", "paused"}, NEW event \in BOOLEAN,
             NEW new \in BOOLEAN,
             \/ Create(l, status, event) \/ Update(l, status, new, event)
             \/ Delete(l) \/ TimePasses(l)
      PROVE  UNCHANGED <<exec, fired, hear>>
    BY <1>3 DEF Create, Update, Delete, TimePasses, runVars
<1>4. ASSUME NEW l \in Loops, RunNow(l)
      PROVE  (\A k \in Loops : Remembered(k)') /\ (\A h \in Handlers : Intended(h)')
    <2>1. \A k \in Loops \ {l} : exec'[k] = exec[k]
        BY <1>1, <1>4, StartManualTyped DEF RunNow, Same
    <2>2. PICK g \in Goroutines({}) : g \in Goroutine /\ Grown(l, NewRun, g)
        BY <1>1, <1>4, StartManualTyped DEF RunNow
    <2>3. \A n \in DOMAIN exec'[l] :
             \/ exec'[l][n].events = {}
             \/ n \in DOMAIN exec[l] /\ exec'[l][n].events = exec[l][n].events
        <3>1. /\ DOMAIN exec'[l] = 1..(Len(runs[l]) + 1) /\ exec'[l][Len(runs[l]) + 1] = g
              /\ \A n \in DOMAIN runs[l] : exec'[l][n] = exec[l][n]
            BY <1>1, <2>2, NewShapes, GrownByOne
        <3>2. g.events = {}
            BY <2>2, NewShapes
        <3>3. DOMAIN exec[l] = 1..Len(runs[l]) /\ DOMAIN runs[l] = DOMAIN exec[l] /\ Len(runs[l]) \in Nat
            BY <1>1, Numbered
        <3>4. QED
            BY <3>1, <3>2, <3>3
    <2>4. UNCHANGED <<fired, hear>>
        BY <1>4 DEF RunNow
    <2>5. QED
        BY <2>1, <2>3, <2>4, NothingGiven
<1>5. ASSUME NEW l \in Loops, NEW n \in 1..MaxRuns, RunStep(l, n) \/ UsersTurn(l, n)
      PROVE  (\A k \in Loops : Remembered(k)') /\ (\A h \in Handlers : Intended(h)')
    <2>1. n \in Nat
        BY RoutineAssumption
    <2>2. PICK r \in RunRow, g \in Goroutine : n \in DOMAIN runs[l] /\ Lives(l, n, r, g)
        BY <1>1, <1>5, <2>1, StepLives
    <2>3. \A k \in Loops : \A i \in DOMAIN exec'[k] :
             i \in DOMAIN exec[k] /\ exec'[k][i].events = exec[k][i].events
        <3>1. \A k \in Loops : DOMAIN exec'[k] = DOMAIN exec[k] /\ DOMAIN exec[k] = DOMAIN runs[k]
            BY <1>1, <2>2, PutEntry, Numbered DEF Lives
        <3>2. \A k \in Loops : \A i \in DOMAIN runs[k] :
                 exec'[k][i] = IF k = l /\ i = n THEN g ELSE exec[k][i]
            BY <1>1, <2>2, PutEntry DEF Lives
        <3>3. g.events = exec[l][n].events
            BY <2>2 DEF Lives
        <3>4. QED
            BY <3>1, <3>2, <3>3
    <2>4. UNCHANGED <<fired, hear>>
        BY <2>2 DEF Lives, Put
    <2>5. QED
        BY <2>3, <2>4, NothingGiven
<1>6. CASE StartDue
    <2>1. ASSUME NEW k \in Loops, NEW n \in DOMAIN exec'[k]
          PROVE  \/ exec'[k][n].events = {}
                 \/ n \in DOMAIN exec[k] /\ exec'[k][n].events = exec[k][n].events
        <3>1. CASE Same(k)
            BY <2>1, <3>1 DEF Same
        <3>2. ASSUME NEW r \in RunRow, NEW g \in Goroutine, Grown(k, r, g), g.events = {}
              PROVE  \/ exec'[k][n].events = {}
                     \/ n \in DOMAIN exec[k] /\ exec'[k][n].events = exec[k][n].events
            <4>1. /\ DOMAIN exec'[k] = 1..(Len(runs[k]) + 1) /\ exec'[k][Len(runs[k]) + 1] = g
                  /\ \A i \in DOMAIN runs[k] : exec'[k][i] = exec[k][i]
                BY <1>1, <3>2, GrownByOne
            <4>2. DOMAIN exec[k] = 1..Len(runs[k]) /\ DOMAIN runs[k] = DOMAIN exec[k] /\ Len(runs[k]) \in Nat
                BY <1>1, Numbered
            <4>3. QED
                BY <2>1, <3>2, <4>1, <4>2
        <3>3. Turns(k)
            BY <1>1, <1>6, StartDueTurns
        <3>4. QED
            BY <3>1, <3>2, <3>3, NewShapes DEF Turns
    <2>2. UNCHANGED <<fired, hear>>
        BY <1>6 DEF StartDue
    <2>3. QED
        BY <2>1, <2>2, NothingGiven
<1>7. ASSUME NEW h \in Handlers, NEW batch \in SUBSET Messages, HandleIncoming(h, batch)
      PROVE  UNCHANGED <<exec, fired>> /\ \A o \in Handlers : hear'[o] = hear[o] \/ hear'[o].loop = Nothing
    <2>1. PICK todo \in SUBSET Loops :
             hear' = [hear EXCEPT ![h] = [Quiet EXCEPT !.batch = batch, !.todo = todo]]
        BY <1>7 DEF HandleIncoming
    <2>2. [Quiet EXCEPT !.batch = batch, !.todo = todo].loop = Nothing
        BY DEF Quiet
    <2>3. QED
        BY <1>1, <1>7, <2>1, <2>2 DEF HandleIncoming, runVars, TypeOK
<1>8. ASSUME NEW h \in Handlers, NEW l \in Loops, FirstSighting(h, l)
      PROVE  (\A k \in Loops : Remembered(k)') /\ (\A o \in Handlers : Intended(o)')
    BY <1>8, SightingFires
<1>9. ASSUME NEW h \in Handlers, Trigger(h), UNCHANGED <<loop, runVars>>
      PROVE  UNCHANGED <<exec, fired>> /\ \A o \in Handlers : hear'[o] = hear[o] \/ hear'[o].loop = Nothing
    <2>1. hear' = [hear EXCEPT ![h] = Heard(h, hear[h].loop)] /\ hear \in [Handlers -> Hearing]
        BY <1>1, <1>9 DEF Trigger, TypeOK
    <2>2. Heard(h, hear[h].loop).loop = Nothing
        BY <2>1 DEF Heard, Quiet, Hearing
    <2>3. UNCHANGED <<exec, fired>>
        BY <1>9 DEF Trigger, runVars
    <2>4. QED
        BY <2>1, <2>2, <2>3
<1>10. ASSUME NEW h \in Handlers, Trigger(h)
       PROVE  (\A k \in Loops : Remembered(k)') /\ (\A o \in Handlers : Intended(o)')
    BY <1>2, <1>9, <1>10, TriggerFires DEF Trigger
<1>11. CASE Crash
    <2>1. \A k \in Loops : \A n \in DOMAIN exec'[k] : exec'[k][n].events = {}
        BY <1>1, <1>11, CrashEntry, NewShapes
    <2>2. \A h \in Handlers : hear'[h].loop = Nothing
        BY <1>11 DEF Crash, Quiet
    <2>3. QED
        BY <2>1, <2>2 DEF Remembered, Intended, Given, ToGive
<1>12. CASE Serve \/ AdvanceMissed \/ UNCHANGED vars
    BY <1>2, <1>12 DEF Serve, AdvanceMissed, vars, runVars
<1>13. QED
    BY <1>2, <1>3, <1>4, <1>5, <1>6, <1>7, <1>8, <1>10, <1>11, <1>12 DEF Next

\* However often connectors deliver a message, and whichever of them does, it starts a
\* routine at most once between two starts of the server.
THEOREM EachMessageFiresOnce == Spec => []FiredOnce
<1>1. FireInv => FiredOnce
    <2> SUFFICES ASSUME FireInv, NEW l \in Loops, NEW m \in Messages
                 PROVE  Cardinality({n \in DOMAIN exec[l] : m \in exec[l][n].events}) <= 1
        BY DEF FiredOnce
    <2> DEFINE s == {n \in DOMAIN exec[l] : m \in exec[l][n].events}
    <2>1. \A i, j \in s : i = j
        BY DEF FireInv, Remembered, Given
    <2>2. s \subseteq 1..Len(runs[l]) /\ Len(runs[l]) \in Nat
        BY Numbered DEF FireInv
    <2> HIDE DEF s
    <2>3. Cardinality(s) <= 1
        BY <2>1, <2>2, AtMostOne
    <2>4. QED
        BY <2>3 DEF s
<1>2. QED
    BY <1>1, InitFire, NextFires, PTL DEF Spec

=============================================================================
