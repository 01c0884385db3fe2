------------------------------- MODULE Ingest -------------------------------
(***************************************************************************)
(* From a record a connector observes to the memory dream that reads it:   *)
(*                                                                         *)
(*   connector   stores records in the raw files, plans which source pages *)
(*               they concern and marks those in the projection queue      *)
(*               (integrationingest.MaterializingWriter), then saves its   *)
(*               cursor                                                    *)
(*   runner      reserves a batch of that queue, rebuilds each page from   *)
(*               the raw files and writes it; every written page is marked *)
(*               in the memory queue (SourceProjectionRunner, SourceWriter)*)
(*   dream       reserves all of the memory queue and lets an agent read   *)
(*               the pages (memorydream.Runner)                            *)
(*                                                                         *)
(* A message belongs to one page; a page shows the name of its contact, so *)
(* a contact record concerns every page that mentions the contact.  The    *)
(* code queues a ".dep" source for it: here that source is the contact     *)
(* itself.  The content of the raw files is how many records they hold, a  *)
(* page's content how many of them it was built from.                      *)
(***************************************************************************)
EXTENDS SourceQueue

CONSTANTS
    Pages,        \* the source pages: a chat's day, a mail thread
    Contacts,     \* the contacts whose names pages show
    ContactOf,    \* page -> the contact it mentions (SourceTarget.ContactRefs)
    Connectors,   \* the connectors' sync loops
    SourcesOf,    \* connector -> the sources its records concern
    TimeOf,       \* connector -> the time its records carry (a history sync
                  \* brings old ones)
    BatchFiles,   \* sources the runner reserves at once
    Dreams,       \* dream runs that may be active at the same time
    NoSource,     \* the runner works on nothing
    MaxRecords,   \* bound: records observed
    MaxFaults     \* bound: failed plans, marks and projections, and crashes

ASSUME IngestAssumption ==
    /\ Pages \cap Contacts = {}
    /\ ContactOf \in [Pages -> Contacts]
    /\ SourcesOf \in [Connectors -> SUBSET (Pages \cup Contacts)]
    /\ TimeOf \in [Connectors -> Nat]
    /\ BatchFiles \in Nat \ {0}
    /\ NoSource \notin Pages \cup Contacts
    /\ MaxRecords \in Nat /\ MaxFaults \in Nat

Sources == Pages \cup Contacts

VARIABLES
    raw,       \* page or contact -> records of it in the raw files
    index,     \* pages recorded as dependencies of their contact
    warned,    \* sources a failed plan or mark left out, until a later record
               \* of theirs is marked: the log has the only trace of them
    conn,      \* connector -> the record it is writing and how far it got
    proj,      \* the projection queue's state file
    run,       \* the projection runner
    page,      \* page -> what the file in memory was built from
    written,   \* page -> times the file was written: the clock of the marks
    mem,       \* the memory queue's state file
    dream,     \* dream run -> the sources it reserved, with what it read
    dreamt,    \* page -> the newest content a finished dream reported as read
    observed,  \* records observed so far
    faults     \* faults so far

vars == <<raw, index, warned, conn, proj, run, page, written, mem, dream, dreamt,
          observed, faults>>

connVars == <<raw, index, warned, conn, observed>>
runVars == <<run, page, written>>
dreamVars == <<dream, dreamt>>

\* A page's content: messages and contact records it was built from.
Content == [messages : Nat, names : Nat]
Blank == [messages |-> 0, names |-> 0]
Covers(a, b) == a.messages >= b.messages /\ a.names >= b.names
Newest(a, b) ==
    [messages |-> IF a.messages >= b.messages THEN a.messages ELSE b.messages,
     names    |-> IF a.names >= b.names THEN a.names ELSE b.names]

\* What a projection of p reads from the raw files now (recordsForSource).
InRaw(p) == [messages |-> raw[p], names |-> raw[ContactOf[p]]]

NoRecord == [pc |-> "idle", source |-> NoSource, stored |-> FALSE]
IdleRunner == [pc |-> "idle", batch |-> << >>, source |-> NoSource,
               artifacts |-> << >>, page |-> NoSource, done |-> {}, failed |-> {}]
NotDreaming == [pc |-> "idle", held |-> << >>, read |-> << >>]

QueueOK(q, S) ==
    /\ DOMAIN q.pending \subseteq S
    /\ \A s \in DOMAIN q.pending : q.pending[s] \in Nat
    /\ DOMAIN q.processing \subseteq S
    /\ \A s \in DOMAIN q.processing : q.processing[s] \in [at : Nat, old : BOOLEAN]

\* The shapes of the state, and what the actions rely on without a guard of
\* their own: a runner or a dream holds sources only while it runs, and a page
\* that is being marked is among the artifacts it was built with.
TypeOK ==
    /\ raw \in [Sources -> Nat]
    /\ index \subseteq Pages
    /\ warned \subseteq Sources
    /\ conn \in [Connectors -> [pc : {"idle", "store", "plan", "mark", "cursor"},
                               source : Sources \cup {NoSource}, stored : BOOLEAN]]
    /\ \A k \in Connectors : conn[k].pc # "idle" => conn[k].source \in Sources
    /\ QueueOK(proj, Sources) /\ QueueOK(mem, Pages)
    /\ run.pc \in {"idle", "next", "write", "mark"}
    /\ DOMAIN run.batch \subseteq Sources
    /\ run.done \cup run.failed \subseteq DOMAIN run.batch
    /\ run.done \cap run.failed = {}
    /\ DOMAIN run.artifacts \subseteq Pages
    /\ \A p \in DOMAIN run.artifacts : run.artifacts[p] \in Content
    /\ run.pc = "idle" => run = IdleRunner
    /\ run.pc \in {"write", "mark"} =>
         run.source \in DOMAIN run.batch \ (run.done \cup run.failed)
    /\ run.pc = "mark" => run.page \in DOMAIN run.artifacts
    /\ page \in [Pages -> Content]
    /\ written \in [Pages -> Nat]
    /\ \A d \in Dreams :
         /\ dream[d].pc \in {"idle", "reading"}
         /\ DOMAIN dream[d].held \subseteq Pages
         /\ DOMAIN dream[d].read = DOMAIN dream[d].held
         /\ dream[d].pc = "idle" => dream[d] = NotDreaming
    /\ dreamt \in [Pages -> Content]
    /\ observed \in 0..MaxRecords /\ faults \in 0..MaxFaults

Init ==
    /\ raw = [s \in Sources |-> 0]
    /\ index = {}
    /\ warned = {}
    /\ conn = [k \in Connectors |-> NoRecord]
    /\ proj = EmptyQueue
    /\ run = IdleRunner
    /\ page = [p \in Pages |-> Blank]
    /\ written = [p \in Pages |-> 0]
    /\ mem = EmptyQueue
    /\ dream = [d \in Dreams |-> NotDreaming]
    /\ dreamt = [p \in Pages |-> Blank]
    /\ observed = 0
    /\ faults = 0

-----------------------------------------------------------------------------
\* Connectors

\* The connector observes a record its cursor has not passed: a message of a
\* page or a contact.
Observe(k) ==
    /\ conn[k].pc = "idle"
    /\ observed < MaxRecords
    /\ \E s \in SourcesOf[k] :
         conn' = [conn EXCEPT ![k] = [pc |-> "store", source |-> s, stored |-> FALSE]]
    /\ observed' = observed + 1
    /\ UNCHANGED <<raw, index, warned, proj, mem, runVars, dreamVars, faults>>

\* The record is appended to its raw file.  One that comes again after a crash is
\* appended again and dropped by its id when it is read (recordsForSource).
StoreRaw(k) ==
    /\ conn[k].pc = "store"
    /\ conn' = [conn EXCEPT ![k].pc = "plan", ![k].stored = TRUE]
    /\ raw' = IF conn[k].stored THEN raw
              ELSE [raw EXCEPT ![conn[k].source] = @ + 1]
    /\ UNCHANGED <<index, warned, observed, proj, mem, runVars, dreamVars, faults>>

\* PlanRecords: the page of a message is recorded as depending on its contact.
PlanRecords(k) ==
    /\ conn[k].pc = "plan"
    /\ conn' = [conn EXCEPT ![k].pc = "mark"]
    /\ index' = IF conn[k].source \in Pages THEN index \cup {conn[k].source}
                ELSE index
    /\ UNCHANGED <<raw, warned, observed, proj, mem, runVars, dreamVars, faults>>

\* WriteRecords only warns when it fails to plan a page: the page is not marked then,
\* or marked without having been recorded as depending on its contact.
PlanFails(k) ==
    /\ conn[k].pc = "plan"
    /\ conn[k].source \in Pages
    /\ faults < MaxFaults
    /\ \E next \in {"mark", "cursor"} : conn' = [conn EXCEPT ![k].pc = next]
    /\ warned' = warned \cup {conn[k].source}
    /\ faults' = faults + 1
    /\ UNCHANGED <<raw, index, observed, proj, mem, runVars, dreamVars>>

\* The planned source goes into the projection queue with the record's time.
MarkProjection(k) ==
    /\ conn[k].pc = "mark"
    /\ conn' = [conn EXCEPT ![k].pc = "cursor"]
    /\ proj' = MarkPendingSource(proj, conn[k].source, TimeOf[k])
    /\ warned' = IF conn[k].source \in index \cup Contacts
                 THEN warned \ {conn[k].source} ELSE warned
    /\ UNCHANGED <<raw, index, observed, mem, runVars, dreamVars, faults>>

\* The mark fails: a warning too, and the connector is told that all is well.
MarkFails(k) ==
    /\ conn[k].pc = "mark"
    /\ faults < MaxFaults
    /\ conn' = [conn EXCEPT ![k].pc = "cursor"]
    /\ warned' = warned \cup {conn[k].source}
    /\ faults' = faults + 1
    /\ UNCHANGED <<raw, index, observed, proj, mem, runVars, dreamVars>>

\* The write returned: the cursor moves past the record.
SaveCursor(k) ==
    /\ conn[k].pc = "cursor"
    /\ conn' = [conn EXCEPT ![k] = NoRecord]
    /\ UNCHANGED <<raw, index, warned, observed, proj, mem, runVars, dreamVars, faults>>

-----------------------------------------------------------------------------
\* The projection runner

\* RunOnce begins: the oldest sources are reserved.
ReserveBatch ==
    /\ run.pc = "idle"
    /\ \E B \in Batches(proj, BatchFiles) :
         /\ B # {}
         /\ run' = [IdleRunner EXCEPT !.pc = "next", !.batch = Reserved(proj, B)]
         /\ proj' = Reserve(proj, B)
    /\ UNCHANGED <<connVars, page, written, mem, dreamVars, faults>>

\* The pages a source stands for: itself, or the pages that depend on a contact
\* (contactDependencySources).
PagesOf(s) == IF s \in Pages THEN {s} ELSE {p \in index : ContactOf[p] = s}

\* The reservations of the batch not handled yet, in any order.
Unhandled == DOMAIN run.batch \ (run.done \cup run.failed)

\* ProjectSource reads the raw files and builds the pages of one source.
ProjectSource(s) ==
    /\ run.pc = "next"
    /\ s \in Unhandled
    /\ run' = IF PagesOf(s) = {} THEN [run EXCEPT !.done = @ \cup {s}]
              ELSE [run EXCEPT !.pc = "write", !.source = s,
                               !.artifacts = [p \in PagesOf(s) |-> InRaw(p)]]
    /\ UNCHANGED <<connVars, proj, page, written, mem, dreamVars, faults>>

\* The next artifact is written over the page's file.
WriteArtifact(p) ==
    /\ run.pc = "write"
    /\ p \in DOMAIN run.artifacts
    /\ page' = [page EXCEPT ![p] = run.artifacts[p]]
    /\ written' = [written EXCEPT ![p] = @ + 1]
    /\ run' = [run EXCEPT !.pc = "mark", !.page = p]
    /\ UNCHANGED <<connVars, proj, mem, dreamVars, faults>>

\* The runner after the page it wrote is marked: the next page of the source, or
\* the next source.
AfterMark ==
    LET left == Restrict(run.artifacts, DOMAIN run.artifacts \ {run.page})
    IN  IF left # << >>
        THEN [run EXCEPT !.pc = "write", !.page = NoSource, !.artifacts = left]
        ELSE [run EXCEPT !.pc = "next", !.page = NoSource, !.artifacts = left,
                         !.source = NoSource, !.done = @ \cup {run.source}]

\* The written page is marked in the memory queue, with the time of now.
MarkMemory ==
    /\ run.pc = "mark"
    /\ mem' = MarkPendingSource(mem, run.page, written[run.page])
    /\ run' = AfterMark
    /\ UNCHANGED <<connVars, proj, page, written, dreamVars, faults>>

\* Reading the raw files, writing a page or marking it fails: the source counts
\* as failed, what it wrote until then stays.
FailSource ==
    /\ faults < MaxFaults
    /\ \/ /\ run.pc = "next"
          /\ \E s \in Unhandled : run' = [run EXCEPT !.failed = @ \cup {s}]
       \/ /\ run.pc \in {"write", "mark"}
          /\ run' = [run EXCEPT !.pc = "next", !.source = NoSource, !.page = NoSource,
                                !.artifacts = << >>, !.failed = @ \cup {run.source}]
    /\ faults' = faults + 1
    /\ UNCHANGED <<connVars, proj, mem, page, written, dreamVars>>

\* RunOnce ends with its batch still in hand.
SettleKeepingBatch ==
    /\ run.pc = "next"
    /\ Unhandled = {}
    /\ proj' = Settle(proj, Restrict(run.batch, run.done), Restrict(run.batch, run.failed))
    /\ run' = [run EXCEPT !.pc = "idle"]
    /\ UNCHANGED <<connVars, mem, page, written, dreamVars, faults>>

\* RunOnce ends.
SettleBatch ==
    /\ run.pc = "next"
    /\ Unhandled = {}
    /\ proj' = Settle(proj, Restrict(run.batch, run.done), Restrict(run.batch, run.failed))
    /\ run' = IdleRunner
    /\ UNCHANGED <<connVars, mem, page, written, dreamVars, faults>>

-----------------------------------------------------------------------------
\* Dreams

\* RunDream reserves whatever waits and gives the agent the list.  The agent reads
\* the pages some time before it is done; the content remembered here is that of
\* the reservation, the oldest it may have read.
\* (A dream with nothing to read changes nothing here.)
StartDream(d) ==
    /\ dream[d].pc = "idle"
    /\ LET all == DOMAIN RecoverStale(mem).pending
       IN  /\ all # {}
           /\ dream' = [dream EXCEPT ![d] =
                [pc |-> "reading", held |-> Reserved(mem, all), read |-> [p \in all |-> page[p]]]]
           /\ mem' = Reserve(mem, all)
    /\ UNCHANGED <<connVars, proj, runVars, dreamt, faults>>

\* A dream that ended well settles everything it reserved as read.
FinishDreamAll(d, R) ==
    /\ dream[d].pc = "reading"
    /\ R \subseteq DOMAIN dream[d].held
    /\ mem' = Complete(mem, dream[d].held)
    /\ dreamt' = [p \in Pages |->
            IF p \in R THEN Newest(dreamt[p], dream[d].read[p]) ELSE dreamt[p]]
    /\ dream' = [dream EXCEPT ![d] = NotDreaming]
    /\ UNCHANGED <<connVars, proj, runVars, faults>>

\* The agent reported the pages R as read (readReceipt); the rest stays for the
\* next dream.
FinishDream(d, R) ==
    /\ dream[d].pc = "reading"
    /\ R \subseteq DOMAIN dream[d].held
    /\ mem' = Settle(mem, Restrict(dream[d].held, R),
                     Restrict(dream[d].held, DOMAIN dream[d].held \ R))
    /\ dreamt' = [p \in Pages |->
            IF p \in R THEN Newest(dreamt[p], dream[d].read[p]) ELSE dreamt[p]]
    /\ dream' = [dream EXCEPT ![d] = NotDreaming]
    /\ UNCHANGED <<connVars, proj, runVars, faults>>

\* The agent failed, timed out or left no usable receipt: everything is released.
FailDream(d) ==
    /\ dream[d].pc = "reading"
    /\ mem' = Release(mem, dream[d].held)
    /\ dream' = [dream EXCEPT ![d] = NotDreaming]
    /\ UNCHANGED <<connVars, proj, runVars, dreamt, faults>>

-----------------------------------------------------------------------------
\* Time and crashes

\* Thirty minutes pass: the reservations that stand become stale, those of runs
\* that are still at work too (a dream may take 45 minutes).
HalfAnHourPasses ==
    /\ \E q \in {proj, mem} : \E s \in DOMAIN q.processing : ~q.processing[s].old
    /\ proj' = Age(proj)
    /\ mem' = Age(mem)
    /\ UNCHANGED <<connVars, runVars, dreamVars, faults>>

\* The process dies and starts again.  The files stay; a connector observes again
\* what its cursor had not passed.
Crash ==
    /\ faults < MaxFaults
    /\ faults' = faults + 1
    /\ conn' = [k \in Connectors |->
            IF conn[k].pc = "idle" THEN conn[k] ELSE [conn[k] EXCEPT !.pc = "store"]]
    /\ run' = IdleRunner
    /\ dream' = [d \in Dreams |-> NotDreaming]
    /\ UNCHANGED <<raw, index, warned, observed, proj, page, written, mem, dreamt>>

\* The runner's goroutine takes its next step, and nothing fails.
RunnerStep ==
    \/ ReserveBatch
    \/ \E s \in Sources : ProjectSource(s)
    \/ \E p \in Pages : WriteArtifact(p)
    \/ MarkMemory
    \/ SettleBatch

Next ==
    \/ \E k \in Connectors :
         \/ Observe(k) \/ StoreRaw(k) \/ PlanRecords(k) \/ MarkProjection(k) \/ SaveCursor(k)
         \/ PlanFails(k) \/ MarkFails(k)
    \/ RunnerStep \/ FailSource
    \/ \E d \in Dreams :
         \/ StartDream(d) \/ FailDream(d)
         \/ \E R \in SUBSET Pages : FinishDream(d, R)
    \/ HalfAnHourPasses \/ Crash

Spec == Init /\ [][Next]_vars

-----------------------------------------------------------------------------
\* Fairness: the sync loops, the projection worker's ticker and the clock go on;
\* dreams are started again and again (StartDream when something waits), and
\* among infinitely many dreams given a page some reports it as read.
FairSpec ==
    /\ Spec
    /\ \A k \in Connectors :
         WF_vars(StoreRaw(k) \/ PlanRecords(k) \/ MarkProjection(k) \/ SaveCursor(k))
    /\ WF_vars(RunnerStep)
    /\ WF_vars(HalfAnHourPasses)
    /\ \A d \in Dreams :
         /\ WF_vars(StartDream(d))
         /\ WF_vars(FailDream(d) \/ \E R \in SUBSET Pages : FinishDream(d, R))
         /\ \A p \in Pages :
              SF_vars(\E R \in SUBSET Pages : p \in R /\ FinishDream(d, R))

-----------------------------------------------------------------------------
\* A connector still has a record of source s to plan and mark.
Owes(k, s) == conn[k].pc # "idle" /\ conn[k].source = s

\* Nothing that was stored is forgotten on its way to the pages: a page older than
\* the raw files has a source, its own or its contact's, in the projection queue,
\* or a connector has yet to mark one, or failed to and logged it.  (A mark that
\* arrives while the page is being rebuilt from older records must survive the
\* Settle of that rebuild, and a crash anywhere must leave a reservation to recover.)
PageAttended ==
    \A p \in Pages :
        Covers(page[p], InRaw(p)) \/ raw[p] = 0
        \/ \E s \in {p, ContactOf[p]} :
              s \in Queued(proj) \/ s \in warned \/ \E k \in Connectors : Owes(k, s)

\* Nothing that was written is forgotten on its way to the dreams: a page newer
\* than what a finished dream reported as read is in the memory queue, waiting or
\* reserved, or the projection of a source that writes it is not settled (its
\* reservation brings the runner back to the page if the process dies between the
\* write of the file and the mark).
DreamAttended ==
    \A p \in Pages :
        Covers(dreamt[p], page[p])
        \/ p \in Queued(mem)
        \/ \E s \in {p, ContactOf[p]} : s \in Queued(proj)

\* Everything stored is read: each page that has messages was read by a finished
\* dream with all of them and with the newest name of its contact, unless the log
\* tells that a mark of the page or the contact is missing.
AllRead ==
    \A p \in Pages :
        raw[p] = 0 \/ Covers(dreamt[p], InRaw(p)) \/ {p, ContactOf[p]} \cap warned # {}

\* Once the sources fall silent, everything they sent is read by a dream and stays
\* so: whatever crashes, failed projections, failed dreams and partial receipts
\* came between.
EverythingIsRead == <>[]AllRead

=============================================================================
