---------------------------- MODULE Ingest_proofs ----------------------------
(***************************************************************************)
(* Theorems about Ingest, for any pages, contacts, connectors and dreams,  *)
(* any number of records and faults, and batches of any size.              *)
(***************************************************************************)
EXTENDS Ingest, SourceQueue_proofs

-----------------------------------------------------------------------------
\* The shapes of the state, one part per group of variables.

Record == [pc : {"idle", "store", "plan", "mark", "cursor"},
           source : Sources \cup {NoSource}, stored : BOOLEAN]

ConnShape ==
    /\ raw \in [Sources -> Nat]
    /\ index \subseteq Pages
    /\ warned \subseteq Sources
    /\ conn \in [Connectors -> Record]
    /\ \A k \in Connectors : conn[k].pc # "idle" => conn[k].source \in Sources
    /\ observed \in 0..MaxRecords

Runner == [pc : {"idle", "next", "write", "mark"}, batch : Partial(Sources, Nat),
           source : Sources \cup {NoSource}, artifacts : Partial(Pages, Content),
           page : Pages \cup {NoSource}, done : SUBSET Sources, failed : SUBSET Sources]

Busy == run.pc \in {"write", "mark"}

\* The runner works on a source of its batch it has not handled, and marks a page it built.
RunShape ==
    /\ run \in Runner
    /\ run.done \cup run.failed \subseteq DOMAIN run.batch
    /\ run.done \cap run.failed = {}
    /\ run.pc = "idle" => run = IdleRunner
    /\ Busy => run.source \in DOMAIN run.batch \ (run.done \cup run.failed)
    /\ run.pc = "mark" => run.page \in DOMAIN run.artifacts

Dream == [pc : {"idle", "reading"}, held : Partial(Pages, Nat),
          read : Partial(Pages, Content)]

DreamShape ==
    /\ dream \in [Dreams -> Dream]
    /\ \A d \in Dreams : /\ DOMAIN dream[d].read = DOMAIN dream[d].held
                         /\ dream[d].pc = "idle" => dream[d] = NotDreaming
    /\ dreamt \in [Pages -> Content]

Shape ==
    /\ ConnShape /\ RunShape /\ DreamShape
    /\ proj \in QueueOn(Sources) /\ mem \in QueueOn(Pages)
    /\ page \in [Pages -> Content] /\ written \in [Pages -> Nat]
    /\ faults \in 0..MaxFaults

LEMMA QueueTyped ==
    ASSUME NEW S, NEW q \in QueueOn(S)
    PROVE  QueueOK(q, S)
<1>1. /\ q.pending \in Partial(S, Nat)
      /\ q.processing \in Partial(S, Reservation)
    BY QueueFields
<1>2. /\ DOMAIN q.pending \subseteq S
      /\ \A s \in DOMAIN q.pending : q.pending[s] \in Nat
    BY <1>1, OfPartial
<1>3. /\ DOMAIN q.processing \subseteq S
      /\ \A s \in DOMAIN q.processing : q.processing[s] \in Reservation
    BY <1>1, OfPartial
<1>4. QED
    BY <1>2, <1>3 DEF QueueOK, Reservation

LEMMA ShapeTypeOK == Shape => TypeOK
<1> SUFFICES ASSUME Shape PROVE TypeOK
    OBVIOUS
<1>1. QueueOK(proj, Sources) /\ QueueOK(mem, Pages)
    BY QueueTyped DEF Shape
<1>2. /\ DOMAIN run.batch \subseteq Sources
      /\ DOMAIN run.artifacts \subseteq Pages
      /\ \A p \in DOMAIN run.artifacts : run.artifacts[p] \in Content
    BY OfPartial DEF Shape, RunShape, Runner
<1>3. ASSUME NEW d \in Dreams
      PROVE  dream[d].pc \in {"idle", "reading"} /\ DOMAIN dream[d].held \subseteq Pages
    BY OfPartial DEF Shape, DreamShape, Dream
<1>4. run.pc \in {"idle", "next", "write", "mark"}
    BY DEF Shape, RunShape, Runner
<1>5. QED
    BY <1>1, <1>2, <1>3, <1>4
    DEF Shape, ConnShape, RunShape, DreamShape, Busy, Record, TypeOK

LEMMA IdleRunnerShape ==
    /\ IdleRunner \in Runner
    /\ DOMAIN IdleRunner.batch = {} /\ DOMAIN IdleRunner.artifacts = {}
    /\ IdleRunner.pc = "idle" /\ IdleRunner.done = {} /\ IdleRunner.failed = {}
<1>1. << >> \in Partial(Sources, Nat) /\ << >> \in Partial(Pages, Content)
    BY EmptyPartial
<1>2. DOMAIN << >> = {}
    OBVIOUS
<1>3. QED
    BY <1>1, <1>2 DEF IdleRunner, Runner

LEMMA NotDreamingShape ==
    /\ NotDreaming \in Dream /\ NotDreaming.pc = "idle"
    /\ DOMAIN NotDreaming.held = {} /\ DOMAIN NotDreaming.read = {}
<1>1. << >> \in Partial(Pages, Nat) /\ << >> \in Partial(Pages, Content)
    BY EmptyPartial
<1>2. DOMAIN << >> = {}
    OBVIOUS
<1>3. QED
    BY <1>1, <1>2 DEF NotDreaming, Dream

LEMMA EmptyQueueShape ==
    ASSUME NEW S
    PROVE  EmptyQueue \in QueueOn(S) /\ Queued(EmptyQueue) = {}
<1>1. << >> \in Partial(S, Nat) /\ << >> \in Partial(S, Reservation)
    BY EmptyPartial
<1>2. DOMAIN << >> = {}
    OBVIOUS
<1>3. QED
    BY <1>1, <1>2 DEF EmptyQueue, QueueOn, Queued

LEMMA InitShape == Init => Shape
<1> SUFFICES ASSUME Init PROVE Shape
    OBVIOUS
<1>1. ConnShape
    BY IngestAssumption DEF Init, ConnShape, NoRecord, Record
<1>2. RunShape
    BY IdleRunnerShape DEF Init, RunShape, Busy
<1>3. Blank \in Content
    BY DEF Blank, Content
<1>4. DreamShape
    BY <1>3, NotDreamingShape DEF Init, DreamShape
<1>5. QED
    BY <1>1, <1>2, <1>3, <1>4, EmptyQueueShape, IngestAssumption DEF Init, Shape

\* Connectors.
ConnStep(k) ==
    \/ Observe(k) \/ StoreRaw(k) \/ PlanRecords(k) \/ MarkProjection(k) \/ SaveCursor(k)
    \/ PlanFails(k) \/ MarkFails(k)

LEMMA ConnTyped ==
    ASSUME Shape, NEW k \in Connectors, ConnStep(k)
    PROVE  Shape'
<1>1. UNCHANGED <<run, page, written, mem, dream, dreamt>>
    BY DEF ConnStep, Observe, StoreRaw, PlanRecords, MarkProjection, SaveCursor,
           PlanFails, MarkFails, runVars, dreamVars
<1>2. conn[k] \in Record /\ conn \in [Connectors -> Record]
    BY DEF Shape, ConnShape
<1>3. PICK c \in Record : conn' = [conn EXCEPT ![k] = c] /\ (c.pc # "idle" => c.source \in Sources)
    <2>1. CASE Observe(k)
        <3>1. PICK s \in SourcesOf[k] :
                 conn' = [conn EXCEPT ![k] = [pc |-> "store", source |-> s, stored |-> FALSE]]
            BY <2>1 DEF Observe
        <3>2. s \in Sources
            BY IngestAssumption DEF Sources
        <3> DEFINE c == [pc |-> "store", source |-> s, stored |-> FALSE]
        <3>3. c \in Record /\ c.source \in Sources
            BY <3>2 DEF Record
        <3> HIDE DEF c
        <3>4. QED
            BY <3>1, <3>3 DEF c
    <2>2. CASE SaveCursor(k)
        <3>1. NoRecord \in Record /\ NoRecord.pc = "idle"
            BY DEF NoRecord, Record
        <3>2. QED
            BY <2>2, <3>1 DEF SaveCursor
    <2>3. CASE StoreRaw(k) \/ PlanRecords(k) \/ MarkProjection(k) \/ PlanFails(k) \/ MarkFails(k)
        <3>1. conn[k].pc # "idle" /\ conn[k].source \in Sources
            BY <2>3 DEF StoreRaw, PlanRecords, MarkProjection, PlanFails, MarkFails,
                        Shape, ConnShape
        <3>2. CASE StoreRaw(k)
            <4> DEFINE c == [conn[k] EXCEPT !.pc = "plan", !.stored = TRUE]
            <4>1. conn' = [conn EXCEPT ![k] = c]
                BY <1>2, <3>2 DEF StoreRaw
            <4>2. c \in Record /\ c.source \in Sources
                BY <1>2, <3>1 DEF Record
            <4>3. QED
                BY <4>1, <4>2
        <3>3. CASE PlanRecords(k)
            <4> DEFINE c == [conn[k] EXCEPT !.pc = "mark"]
            <4>1. conn' = [conn EXCEPT ![k] = c]
                BY <1>2, <3>3 DEF PlanRecords
            <4>2. c \in Record /\ c.source \in Sources
                BY <1>2, <3>1 DEF Record
            <4>3. QED
                BY <4>1, <4>2
        <3>4. CASE MarkProjection(k) \/ MarkFails(k)
            <4> DEFINE c == [conn[k] EXCEPT !.pc = "cursor"]
            <4>1. conn' = [conn EXCEPT ![k] = c]
                BY <1>2, <3>4 DEF MarkProjection, MarkFails
            <4>2. c \in Record /\ c.source \in Sources
                BY <1>2, <3>1 DEF Record
            <4>3. QED
                BY <4>1, <4>2
        <3>5. CASE PlanFails(k)
            <4>1. PICK next \in {"mark", "cursor"} : conn' = [conn EXCEPT ![k].pc = next]
                BY <3>5 DEF PlanFails
            <4> DEFINE c == [conn[k] EXCEPT !.pc = next]
            <4>2. conn' = [conn EXCEPT ![k] = c]
                BY <1>2, <4>1
            <4>3. c \in Record /\ c.source \in Sources
                BY <1>2, <3>1 DEF Record
            <4>4. QED
                BY <4>2, <4>3
        <3>6. QED
            BY <2>3, <3>2, <3>3, <3>4, <3>5
    <2>4. QED
        BY <2>1, <2>2, <2>3 DEF ConnStep
<1>4. /\ conn' \in [Connectors -> Record]
      /\ \A j \in Connectors : conn'[j].pc # "idle" => conn'[j].source \in Sources
    BY <1>2, <1>3 DEF Shape, ConnShape
<1>5. raw' \in [Sources -> Nat]
    <2>1. raw' = raw \/ \E s \in Sources : raw' = [raw EXCEPT ![s] = @ + 1]
        BY DEF ConnStep, Observe, StoreRaw, PlanRecords, MarkProjection, SaveCursor,
               PlanFails, MarkFails, Shape, ConnShape
    <2>2. QED
        BY <2>1 DEF Shape, ConnShape
<1>6. index' \subseteq Pages
    BY DEF ConnStep, Observe, StoreRaw, PlanRecords, MarkProjection, SaveCursor,
           PlanFails, MarkFails, Shape, ConnShape
<1>7. observed' \in 0..MaxRecords /\ faults' \in 0..MaxFaults
    <2>1. observed' = observed \/ (observed < MaxRecords /\ observed' = observed + 1)
        BY DEF ConnStep, Observe, StoreRaw, PlanRecords, MarkProjection, SaveCursor,
               PlanFails, MarkFails
    <2>2. faults' = faults \/ (faults < MaxFaults /\ faults' = faults + 1)
        BY DEF ConnStep, Observe, StoreRaw, PlanRecords, MarkProjection, SaveCursor,
               PlanFails, MarkFails
    <2>3. QED
        BY <2>1, <2>2, IngestAssumption DEF Shape, ConnShape
<1>8. proj' \in QueueOn(Sources)
    <2>1. CASE MarkProjection(k)
        <3>1. conn[k].source \in Sources /\ TimeOf[k] \in Nat
            BY <2>1, IngestAssumption DEF MarkProjection, Shape, ConnShape
        <3>2. proj \in QueueOn(Sources) /\ proj' = MarkPendingSource(proj, conn[k].source, TimeOf[k])
            BY <2>1 DEF MarkProjection, Shape
        <3>3. QED
            BY <3>1, <3>2, MarkProperties
    <2>2. CASE ~MarkProjection(k)
        BY <2>2 DEF ConnStep, Observe, StoreRaw, PlanRecords, SaveCursor, PlanFails,
                    MarkFails, Shape
    <2>3. QED
        BY <2>1, <2>2
<1>9. warned' \subseteq Sources
    <2>1. \/ warned' \subseteq warned
          \/ conn[k].pc # "idle" /\ warned' = warned \cup {conn[k].source}
        BY DEF ConnStep, Observe, StoreRaw, PlanRecords, MarkProjection, SaveCursor,
               PlanFails, MarkFails
    <2>2. QED
        BY <2>1 DEF Shape, ConnShape
<1>10. QED
    BY <1>1, <1>4, <1>5, <1>6, <1>7, <1>8, <1>9
    DEF Shape, ConnShape, RunShape, DreamShape, Busy

\* The runner.
LEMMA ReserveBatchTyped ==
    ASSUME Shape, ReserveBatch
    PROVE  /\ Shape'
           /\ run.done = {} /\ ~Busy /\ ~Busy' /\ run'.done = {} /\ run'.source = NoSource
           /\ Queued(proj') = Queued(proj)
           /\ \A s \in DOMAIN run'.batch :
                 s \in DOMAIN proj'.processing /\ proj'.processing[s].at = run'.batch[s]
<1>1. PICK B \in Batches(proj, BatchFiles) :
         /\ run' = [IdleRunner EXCEPT !.pc = "next", !.batch = Reserved(proj, B)]
         /\ proj' = Reserve(proj, B)
    BY DEF ReserveBatch
<1> DEFINE w == RecoverStale(proj)
           batch == Reserved(proj, B)
<1>2. proj \in QueueOn(Sources) /\ B \subseteq DOMAIN RecoverStale(proj).pending
    BY DEF Shape, Batches
<1>3. /\ proj' \in QueueOn(Sources)
      /\ Queued(proj') = Queued(proj)
      /\ DOMAIN proj'.processing = DOMAIN w.processing \cup B
      /\ \A s \in B : proj'.processing[s].at = w.pending[s]
      /\ batch \in Partial(Sources, Nat)
      /\ DOMAIN batch = B
      /\ \A s \in B : batch[s] = w.pending[s]
    BY <1>1, <1>2, ReserveProperties
<1> HIDE DEF w, batch
<1>4. /\ run' \in Runner /\ run'.pc = "next" /\ run'.batch = batch
      /\ run'.done = {} /\ run'.failed = {} /\ run'.source = NoSource
    BY <1>1, <1>3, IdleRunnerShape DEF Runner, IdleRunner, batch
<1>5. run.pc = "idle" /\ run = IdleRunner
    BY DEF ReserveBatch, Shape, RunShape
<1>6. RunShape'
    BY <1>4 DEF RunShape, Busy
<1>7. UNCHANGED <<raw, index, warned, conn, observed, page, written, mem, dream, dreamt, faults>>
    BY DEF ReserveBatch, connVars, dreamVars
<1>8. Shape'
    BY <1>3, <1>6, <1>7 DEF Shape, ConnShape, DreamShape
<1>9. ~Busy /\ ~Busy' /\ run.done = {}
    BY <1>4, <1>5, IdleRunnerShape DEF Busy
<1>10. QED
    BY <1>3, <1>4, <1>8, <1>9

LEMMA ProjectTyped ==
    ASSUME Shape, NEW s \in Sources, ProjectSource(s)
    PROVE  /\ Shape' /\ ~Busy /\ run'.batch = run.batch
           /\ s \in DOMAIN run.batch \ (run.done \cup run.failed)
           /\ \/ /\ PagesOf(s) = {} /\ ~Busy'
                 /\ run'.done = run.done \cup {s} /\ run'.source = run.source
              \/ /\ run'.pc = "write" /\ run'.source = s /\ run'.done = run.done
                 /\ DOMAIN run'.artifacts = PagesOf(s)
                 /\ \A p \in PagesOf(s) : run'.artifacts[p] = InRaw(p)
<1>1. run \in Runner /\ run.pc = "next" /\ s \in DOMAIN run.batch \ (run.done \cup run.failed)
    BY DEF ProjectSource, Unhandled, Shape, RunShape
<1>2. UNCHANGED <<raw, index, warned, conn, observed, proj, page, written, mem, dream, dreamt, faults>>
    BY DEF ProjectSource, connVars, dreamVars
<1>3. CASE PagesOf(s) = {}
    <2>1. run' = [run EXCEPT !.done = @ \cup {s}]
        BY <1>3 DEF ProjectSource
    <2>2. /\ run' \in Runner /\ run'.pc = "next" /\ run'.batch = run.batch
          /\ run'.done = run.done \cup {s} /\ run'.failed = run.failed
          /\ run'.source = run.source
        BY <1>1, <2>1 DEF Runner
    <2>3. RunShape'
        BY <1>1, <2>2 DEF Shape, RunShape, Busy
    <2>4. Shape'
        BY <1>2, <2>3 DEF Shape, ConnShape, DreamShape
    <2>5. QED
        BY <1>1, <1>3, <2>2, <2>4 DEF Busy
<1>4. CASE PagesOf(s) # {}
    <2> DEFINE a == [p \in PagesOf(s) |-> InRaw(p)]
    <2>1. run' = [run EXCEPT !.pc = "write", !.source = s, !.artifacts = a]
        BY <1>4 DEF ProjectSource
    <2>2. PagesOf(s) \subseteq Pages
        BY DEF PagesOf, Shape, ConnShape
    <2>3. \A p \in PagesOf(s) : InRaw(p) \in Content
        BY <2>2, IngestAssumption DEF InRaw, Content, Shape, ConnShape, Sources
    <2>4. DOMAIN a = PagesOf(s) /\ a = [p \in DOMAIN a |-> a[p]]
          /\ \A p \in PagesOf(s) : a[p] = InRaw(p)
        OBVIOUS
    <2> HIDE DEF a
    <2>5. a \in Partial(Pages, Content)
        BY <2>2, <2>3, <2>4, InPartial
    <2>6. /\ run' \in Runner /\ run'.pc = "write" /\ run'.batch = run.batch
          /\ run'.done = run.done /\ run'.failed = run.failed
          /\ run'.source = s /\ run'.artifacts = a
        BY <1>1, <2>1, <2>5 DEF Runner
    <2>7. RunShape'
        BY <1>1, <2>6 DEF Shape, RunShape, Busy
    <2>8. Shape'
        BY <1>2, <2>7 DEF Shape, ConnShape, DreamShape
    <2>9. QED
        BY <1>1, <2>4, <2>6, <2>8 DEF Busy
<1>5. QED
    BY <1>3, <1>4

LEMMA WriteTyped ==
    ASSUME Shape, NEW p \in Pages, WriteArtifact(p)
    PROVE  /\ Shape' /\ Busy /\ Busy' /\ p \in DOMAIN run.artifacts
           /\ run'.pc = "mark" /\ run'.page = p /\ run'.batch = run.batch
           /\ run'.done = run.done /\ run'.source = run.source
           /\ run'.artifacts = run.artifacts
           /\ page'[p] = run.artifacts[p] /\ written'[p] = written[p] + 1
           /\ \A r \in Pages \ {p} : page'[r] = page[r] /\ written'[r] = written[r]
<1>1. /\ run \in Runner /\ run.pc = "write" /\ p \in DOMAIN run.artifacts
      /\ run' = [run EXCEPT !.pc = "mark", !.page = p]
    BY DEF WriteArtifact, Shape, RunShape
<1>2. UNCHANGED <<raw, index, warned, conn, observed, proj, mem, dream, dreamt, faults>>
    BY DEF WriteArtifact, connVars, dreamVars
<1>3. /\ run' \in Runner /\ run'.pc = "mark" /\ run'.page = p /\ run'.batch = run.batch
      /\ run'.done = run.done /\ run'.failed = run.failed /\ run'.source = run.source
      /\ run'.artifacts = run.artifacts
    BY <1>1 DEF Runner
<1>4. RunShape'
    BY <1>1, <1>3 DEF Shape, RunShape, Busy
<1>5. run.artifacts[p] \in Content
    BY <1>1, OfPartial DEF Runner
<1>6. /\ page' \in [Pages -> Content] /\ page'[p] = run.artifacts[p]
      /\ \A r \in Pages \ {p} : page'[r] = page[r]
    BY <1>5 DEF WriteArtifact, Shape
<1>7. /\ written' \in [Pages -> Nat] /\ written'[p] = written[p] + 1
      /\ \A r \in Pages \ {p} : written'[r] = written[r]
    BY DEF WriteArtifact, Shape
<1>8. Shape'
    BY <1>2, <1>4, <1>6, <1>7 DEF Shape, ConnShape, DreamShape
<1>9. QED
    BY <1>1, <1>3, <1>6, <1>7, <1>8 DEF Busy

LEMMA MarkTyped ==
    ASSUME Shape, MarkMemory
    PROVE  /\ Shape' /\ Busy /\ run.page \in DOMAIN run.artifacts
           /\ mem' = MarkPendingSource(mem, run.page, written[run.page])
           /\ run'.batch = run.batch
           /\ run'.artifacts \in Partial(Pages, Content)
           /\ DOMAIN run'.artifacts = DOMAIN run.artifacts \ {run.page}
           /\ \A p \in DOMAIN run'.artifacts : run'.artifacts[p] = run.artifacts[p]
           /\ \/ /\ run'.pc = "write"
                 /\ run'.done = run.done /\ run'.source = run.source
              \/ /\ DOMAIN run'.artifacts = {}
                 /\ ~Busy' /\ run'.done = run.done \cup {run.source}
                 /\ run'.source = NoSource
<1> DEFINE left == Restrict(run.artifacts, DOMAIN run.artifacts \ {run.page})
<1>1. /\ run \in Runner /\ run.pc = "mark" /\ run.page \in DOMAIN run.artifacts
      /\ run' = AfterMark /\ Busy
      /\ run.source \in DOMAIN run.batch \ (run.done \cup run.failed)
    BY DEF MarkMemory, Shape, RunShape, Busy
<1>2. UNCHANGED <<raw, index, warned, conn, observed, proj, page, written, dream, dreamt, faults>>
    BY DEF MarkMemory, connVars, dreamVars
<1>3. /\ left \in Partial(Pages, Content)
      /\ DOMAIN left = DOMAIN run.artifacts \ {run.page}
      /\ \A p \in DOMAIN left : left[p] = run.artifacts[p]
    <2>1. run.artifacts \in Partial(Pages, Content)
        BY <1>1 DEF Runner
    <2>2. QED
        BY <2>1, RestrictPartial
<1>4. \/ run' = [run EXCEPT !.pc = "write", !.page = NoSource, !.artifacts = left]
      \/ /\ left = << >>
         /\ run' = [run EXCEPT !.pc = "next", !.page = NoSource, !.artifacts = left,
                               !.source = NoSource, !.done = @ \cup {run.source}]
    BY <1>1 DEF AfterMark
<1>5. left = << >> => DOMAIN left = {}
    <2>1. DOMAIN << >> = {}
        OBVIOUS
    <2>2. QED
        BY <2>1
<1>6. run.page \in Pages /\ DOMAIN run.batch \subseteq Sources
    BY <1>1, OfPartial DEF Runner
<1> HIDE DEF left
<1>7. /\ run' \in Runner /\ run'.batch = run.batch /\ run'.artifacts = left
      /\ run'.failed = run.failed
      /\ \/ /\ run'.pc = "write" /\ run'.done = run.done /\ run'.source = run.source
         \/ /\ left = << >> /\ run'.pc = "next" /\ run'.done = run.done \cup {run.source}
            /\ run'.source = NoSource
    <2>1. CASE run' = [run EXCEPT !.pc = "write", !.page = NoSource, !.artifacts = left]
        BY <1>1, <1>3, <2>1 DEF Runner
    <2>2. CASE /\ left = << >>
               /\ run' = [run EXCEPT !.pc = "next", !.page = NoSource, !.artifacts = left,
                                     !.source = NoSource, !.done = @ \cup {run.source}]
        <3> DEFINE done == run.done \cup {run.source}
        <3>1. done \subseteq Sources
            BY <1>1, <1>6 DEF Runner
        <3>2. run' = [run EXCEPT !.pc = "next", !.page = NoSource, !.artifacts = left,
                                 !.source = NoSource, !.done = done]
            BY <2>2
        <3> HIDE DEF done
        <3>3. run' \in Runner
            BY <1>1, <1>3, <3>1, <3>2 DEF Runner
        <3>4. /\ run'.batch = run.batch /\ run'.artifacts = left /\ run'.failed = run.failed
              /\ run'.pc = "next" /\ run'.done = done /\ run'.source = NoSource
            BY <1>1, <3>2 DEF Runner
        <3>5. QED
            BY <2>2, <3>3, <3>4 DEF done
    <2>3. QED
        BY <1>4, <2>1, <2>2
<1>8. RunShape'
    BY <1>1, <1>7 DEF Shape, RunShape, Busy
<1>9. mem' \in QueueOn(Pages)
    BY <1>6, MarkProperties DEF MarkMemory, Shape
<1>10. Shape'
    BY <1>2, <1>8, <1>9 DEF Shape, ConnShape, DreamShape
<1>11. QED
    BY <1>1, <1>3, <1>5, <1>7, <1>10 DEF Busy, MarkMemory

LEMMA FailTyped ==
    ASSUME Shape, FailSource
    PROVE  Shape' /\ ~Busy' /\ run'.batch = run.batch /\ run'.done = run.done
<1>1. run \in Runner
    BY DEF Shape, RunShape
<1>2. UNCHANGED <<raw, index, warned, conn, observed, proj, mem, page, written, dream, dreamt>>
    BY DEF FailSource, connVars, dreamVars
<1>3. faults' \in 0..MaxFaults
    BY IngestAssumption DEF FailSource, Shape
<1>4. << >> \in Partial(Pages, Content)
    BY EmptyPartial
<1>5. PICK s \in DOMAIN run.batch \ (run.done \cup run.failed) :
         \/ run.pc = "next" /\ run' = [run EXCEPT !.failed = @ \cup {s}]
         \/ run' = [run EXCEPT !.pc = "next", !.source = NoSource, !.page = NoSource,
                               !.artifacts = << >>, !.failed = @ \cup {s}]
    BY DEF FailSource, Unhandled, Shape, RunShape, Busy
<1> DEFINE failed == run.failed \cup {s}
<1>6. failed \subseteq Sources
    BY <1>1, OfPartial DEF Runner
<1>7. /\ run' \in Runner /\ run'.pc = "next" /\ run'.batch = run.batch
      /\ run'.done = run.done /\ run'.failed = failed
    <2>1. CASE run.pc = "next" /\ run' = [run EXCEPT !.failed = failed]
        <3> HIDE DEF failed
        <3>1. QED
            BY <1>1, <1>6, <2>1 DEF Runner
    <2>2. CASE run' = [run EXCEPT !.pc = "next", !.source = NoSource, !.page = NoSource,
                                  !.artifacts = << >>, !.failed = failed]
        <3> HIDE DEF failed
        <3>1. QED
            BY <1>1, <1>4, <1>6, <2>2 DEF Runner
    <2>3. QED
        BY <1>5, <2>1, <2>2
<1>8. RunShape'
    BY <1>5, <1>7 DEF Shape, RunShape, Busy
<1>9. QED
    BY <1>2, <1>3, <1>7, <1>8 DEF Shape, ConnShape, DreamShape, Busy

LEMMA SettleTyped ==
    ASSUME Shape, SettleBatch
    PROVE  /\ Shape' /\ ~Busy' /\ run'.done = {} /\ DOMAIN run'.batch = {}
           /\ \E failed \in Partial(Sources, Nat) :
                 Ends(proj, proj', Restrict(run.batch, run.done), failed)
           /\ DOMAIN Restrict(run.batch, run.done) = run.done
<1>1. /\ run.batch \in Partial(Sources, Nat)
      /\ run.done \subseteq DOMAIN run.batch /\ run.failed \subseteq DOMAIN run.batch
    BY DEF Shape, RunShape, Runner
<1>2. /\ Restrict(run.batch, run.failed) \in Partial(Sources, Nat)
      /\ DOMAIN Restrict(run.batch, run.done) = run.done
    BY <1>1, RestrictPartial
<1>3. /\ proj' = Settle(proj, Restrict(run.batch, run.done), Restrict(run.batch, run.failed))
      /\ run' = IdleRunner /\ proj \in QueueOn(Sources)
      /\ UNCHANGED <<raw, index, warned, conn, observed, mem, page, written, dream, dreamt, faults>>
    BY DEF SettleBatch, connVars, dreamVars, Shape
<1>4. /\ proj' \in QueueOn(Sources)
      /\ Ends(proj, proj', Restrict(run.batch, run.done), Restrict(run.batch, run.failed))
    BY <1>2, <1>3, SettleProperties
<1>5. RunShape' /\ ~Busy'
    BY <1>3, IdleRunnerShape DEF RunShape, Busy
<1>6. Shape'
    BY <1>3, <1>4, <1>5 DEF Shape, ConnShape, DreamShape
<1>7. QED
    BY <1>2, <1>3, <1>4, <1>5, <1>6, IdleRunnerShape

\* Dreams.
LEMMA StartTyped ==
    ASSUME Shape, NEW d \in Dreams, StartDream(d)
    PROVE  LET w == RecoverStale(mem)
           IN  /\ Shape'
               /\ DOMAIN mem'.pending = {}
               /\ DOMAIN mem'.processing = DOMAIN w.processing \cup DOMAIN w.pending
               /\ \A p \in DOMAIN w.pending : mem'.processing[p].at = w.pending[p]
               /\ \A p \in DOMAIN w.processing \ DOMAIN w.pending :
                     mem'.processing[p] = w.processing[p]
               /\ DOMAIN dream'[d].held = DOMAIN w.pending
               /\ \A p \in DOMAIN w.pending :
                     dream'[d].held[p] = w.pending[p] /\ dream'[d].read[p] = page[p]
               /\ \A e \in Dreams \ {d} : dream'[e] = dream[e]
<1> DEFINE w == RecoverStale(mem)
           all == DOMAIN w.pending
           held == Reserved(mem, all)
           read == [p \in all |-> page[p]]
           new == [pc |-> "reading", held |-> held, read |-> read]
<1>1. mem \in QueueOn(Pages) /\ all \subseteq DOMAIN RecoverStale(mem).pending
      /\ mem' = Reserve(mem, all) /\ dream' = [dream EXCEPT ![d] = new]
    BY DEF Shape, StartDream
<1>2. /\ mem' \in QueueOn(Pages)
      /\ DOMAIN mem'.pending = DOMAIN w.pending \ all
      /\ DOMAIN mem'.processing = DOMAIN w.processing \cup all
      /\ \A p \in all : mem'.processing[p].at = w.pending[p]
      /\ \A p \in DOMAIN w.processing \ all : mem'.processing[p] = w.processing[p]
      /\ held \in Partial(Pages, Nat)
      /\ DOMAIN held = all
      /\ \A p \in all : held[p] = w.pending[p]
    BY <1>1, ReserveProperties
<1>3. all \subseteq Pages
    BY <1>1, RecoverProperties, QueueFields
<1>4. /\ DOMAIN read = all /\ read = [p \in DOMAIN read |-> read[p]]
      /\ \A p \in all : read[p] = page[p]
    OBVIOUS
<1> HIDE DEF w, held, read
<1>5. read \in Partial(Pages, Content)
    BY <1>3, <1>4, InPartial DEF Shape
<1>6. new \in Dream /\ new.held = held /\ new.read = read /\ new.pc = "reading"
    BY <1>2, <1>5 DEF Dream
<1> HIDE DEF new
<1>7. dream' \in [Dreams -> Dream] /\ dream'[d] = new
      /\ \A e \in Dreams \ {d} : dream'[e] = dream[e]
    BY <1>1, <1>6 DEF Shape, DreamShape
<1>8. UNCHANGED <<raw, index, warned, conn, observed, proj, run, page, written, dreamt, faults>>
    BY DEF StartDream, connVars, runVars
<1>9. DreamShape'
    BY <1>2, <1>4, <1>6, <1>7, <1>8 DEF Shape, DreamShape
<1>10. Shape'
    BY <1>2, <1>8, <1>9 DEF Shape, ConnShape, RunShape, Busy
<1>11. QED
    BY <1>2, <1>4, <1>6, <1>7, <1>10 DEF w

\* A dream gives back its reservations: those of R as read, the others for the next one.
DreamEnds(d, R) ==
    /\ R \subseteq DOMAIN dream[d].held
    /\ Ends(mem, mem', Restrict(dream[d].held, R),
            Restrict(dream[d].held, DOMAIN dream[d].held \ R))
    /\ dreamt' = [p \in Pages |-> IF p \in R THEN Newest(dreamt[p], dream[d].read[p])
                                  ELSE dreamt[p]]
    /\ dream' = [dream EXCEPT ![d] = NotDreaming]
    /\ UNCHANGED <<raw, index, warned, conn, observed, proj, run, page, written, faults>>

LEMMA EndTyped ==
    ASSUME Shape, NEW d \in Dreams, FailDream(d) \/ \E R \in SUBSET Pages : FinishDream(d, R)
    PROVE  Shape' /\ \E R : DreamEnds(d, R)
<1> DEFINE held == dream[d].held
<1>1. /\ mem \in QueueOn(Pages) /\ held \in Partial(Pages, Nat)
      /\ dream \in [Dreams -> Dream] /\ dream[d] \in Dream
      /\ dreamt \in [Pages -> Content]
    BY DEF Shape, DreamShape, Dream
<1>2. UNCHANGED <<raw, index, warned, conn, observed, proj, run, page, written, faults>>
      /\ dream' = [dream EXCEPT ![d] = NotDreaming]
    BY DEF FailDream, FinishDream, connVars, runVars
<1>3. \A R \in SUBSET DOMAIN held :
         /\ Restrict(held, R) \in Partial(Pages, Nat)
         /\ DOMAIN Restrict(held, R) = R
         /\ \A p \in R : Restrict(held, R)[p] = held[p]
    BY <1>1, RestrictPartial
<1> HIDE DEF held
<1>4. CASE FailDream(d)
    <2>1. mem' = Release(mem, held) /\ dreamt' = dreamt
        BY <1>4 DEF FailDream, held
    <2>2. mem' \in QueueOn(Pages) /\ Ends(mem, mem', << >>, held)
        BY <1>1, <2>1, ReleaseProperties
    <2>3. DOMAIN << >> = {}
        OBVIOUS
    <2>4. {} \subseteq DOMAIN held /\ DOMAIN held \ {} = DOMAIN held
        OBVIOUS
    <2>5. Ends(mem, mem', Restrict(held, {}), Restrict(held, DOMAIN held \ {}))
        BY <1>3, <2>2, <2>3, <2>4 DEF Ends
    <2>6. dreamt' = [p \in Pages |-> IF p \in {} THEN Newest(dreamt[p], dream[d].read[p])
                                     ELSE dreamt[p]]
        BY <1>1, <2>1
    <2>7. DreamEnds(d, {})
        BY <1>2, <2>4, <2>5, <2>6 DEF DreamEnds, held
    <2>8. DreamShape'
        BY <1>1, <1>2, <2>1, NotDreamingShape DEF Shape, DreamShape
    <2>9. Shape'
        BY <1>2, <2>2, <2>8 DEF Shape, ConnShape, RunShape, Busy
    <2>10. QED
        BY <2>7, <2>9
<1>5. ASSUME NEW R \in SUBSET Pages, FinishDream(d, R)
      PROVE  Shape' /\ DreamEnds(d, R)
    <2>1. /\ R \subseteq DOMAIN held
          /\ mem' = Settle(mem, Restrict(held, R), Restrict(held, DOMAIN held \ R))
          /\ dreamt' = [p \in Pages |-> IF p \in R THEN Newest(dreamt[p], dream[d].read[p])
                                        ELSE dreamt[p]]
        BY <1>5 DEF FinishDream, held
    <2>2. /\ mem' \in QueueOn(Pages)
          /\ Ends(mem, mem', Restrict(held, R), Restrict(held, DOMAIN held \ R))
        BY <1>1, <1>3, <2>1, SettleProperties
    <2>3. DreamEnds(d, R)
        BY <1>2, <2>1, <2>2 DEF DreamEnds, held
    <2>4. \A p \in R : dream[d].read[p] \in Content
        BY <1>1, <2>1, OfPartial DEF Shape, DreamShape, Dream, held
    <2>5. \A a, b \in Content : Newest(a, b) \in Content
        BY DEF Newest, Content
    <2>6. dreamt' \in [Pages -> Content]
        BY <1>1, <2>1, <2>4, <2>5
    <2>7. DreamShape'
        BY <1>1, <1>2, <2>6, NotDreamingShape DEF Shape, DreamShape
    <2>8. Shape'
        BY <1>2, <2>2, <2>7 DEF Shape, ConnShape, RunShape, Busy
    <2>9. QED
        BY <2>3, <2>8
<1>6. QED
    BY <1>4, <1>5

\* Time and crashes.
LEMMA AgeTyped ==
    ASSUME Shape, HalfAnHourPasses
    PROVE  /\ Shape'
           /\ proj'.pending = proj.pending /\ mem'.pending = mem.pending
           /\ DOMAIN proj'.processing = DOMAIN proj.processing
           /\ DOMAIN mem'.processing = DOMAIN mem.processing
           /\ \A s \in DOMAIN proj.processing : proj'.processing[s].at = proj.processing[s].at
           /\ \A s \in DOMAIN mem.processing : mem'.processing[s].at = mem.processing[s].at
<1>1. /\ proj \in QueueOn(Sources) /\ mem \in QueueOn(Pages)
      /\ proj' = Age(proj) /\ mem' = Age(mem)
    BY DEF Shape, HalfAnHourPasses
<1>2. /\ proj' \in QueueOn(Sources) /\ proj'.pending = proj.pending
      /\ DOMAIN proj'.processing = DOMAIN proj.processing
      /\ \A s \in DOMAIN proj.processing : proj'.processing[s].at = proj.processing[s].at
    BY <1>1, AgeProperties
<1>3. /\ mem' \in QueueOn(Pages) /\ mem'.pending = mem.pending
      /\ DOMAIN mem'.processing = DOMAIN mem.processing
      /\ \A s \in DOMAIN mem.processing : mem'.processing[s].at = mem.processing[s].at
    BY <1>1, AgeProperties
<1>4. UNCHANGED <<raw, index, warned, conn, observed, run, page, written, dream, dreamt, faults>>
    BY DEF HalfAnHourPasses, connVars, runVars, dreamVars
<1>5. Shape'
    BY <1>2, <1>3, <1>4 DEF Shape, ConnShape, RunShape, DreamShape, Busy
<1>6. QED
    BY <1>2, <1>3, <1>5

LEMMA CrashTyped ==
    ASSUME Shape, Crash
    PROVE  /\ Shape' /\ run' = IdleRunner
           /\ \A k \in Connectors :
                 \/ conn[k].pc = "idle" /\ conn'[k] = conn[k]
                 \/ /\ conn[k].pc # "idle"
                    /\ conn'[k].pc = "store" /\ conn'[k].source = conn[k].source
<1>1. /\ UNCHANGED <<raw, index, warned, observed, proj, page, written, mem, dreamt>>
      /\ run' = IdleRunner /\ dream' = [d \in Dreams |-> NotDreaming]
    BY DEF Crash
<1>2. faults' \in 0..MaxFaults
    BY IngestAssumption DEF Crash, Shape
<1>3. ASSUME NEW k \in Connectors
      PROVE  /\ conn'[k] \in Record
             /\ \/ conn[k].pc = "idle" /\ conn'[k] = conn[k]
                \/ /\ conn[k].pc # "idle"
                   /\ conn'[k].pc = "store" /\ conn'[k].source = conn[k].source
    <2>1. conn[k] \in Record
        BY DEF Shape, ConnShape
    <2>2. conn'[k] = IF conn[k].pc = "idle" THEN conn[k] ELSE [conn[k] EXCEPT !.pc = "store"]
        BY DEF Crash
    <2>3. QED
        BY <2>1, <2>2 DEF Record
<1>4. conn' \in [Connectors -> Record]
    <2>1. conn' = [k \in Connectors |-> conn'[k]]
        BY DEF Crash
    <2>2. QED
        BY <1>3, <2>1
<1>5. ConnShape'
    BY <1>1, <1>3, <1>4 DEF Shape, ConnShape
<1>6. RunShape' /\ DreamShape'
    BY <1>1, IdleRunnerShape, NotDreamingShape DEF Shape, RunShape, DreamShape, Busy
<1>7. QED
    BY <1>1, <1>2, <1>3, <1>5, <1>6 DEF Shape

-----------------------------------------------------------------------------
\* From the raw files to the pages.

\* A connector has yet to mark source s; a mark that waits, or will, or that the log misses.
OwesMark(k, s) == conn[k].pc \in {"store", "plan", "mark"} /\ conn[k].source = s
Waits(s) == s \in DOMAIN proj.pending \cup warned \/ \E k \in Connectors : OwesMark(k, s)

\* The page with this content is what the raw files hold, or is going to be built again.
Current(p, content) ==
    \/ Covers(content, InRaw(p)) \/ raw[p] = 0
    \/ Waits(p) \/ Waits(ContactOf[p])

\* A page with messages is recorded under its contact, or its connector has yet to plan it,
\* or failed to.
Planned ==
    \A p \in Pages : \/ raw[p] = 0 \/ p \in index \/ p \in warned
                     \/ \E k \in Connectors : conn[k].source = p /\ conn[k].pc \in {"store", "plan"}

\* Nobody but the runner takes its reservations away.
BatchHeld ==
    \A s \in DOMAIN run.batch :
        s \in DOMAIN proj.processing /\ proj.processing[s].at = run.batch[s]

\* What the runner builds for a source are pages of the source.
Built ==
    Busy => \A p \in DOMAIN run.artifacts :
                run.source = p \/ (p \in index /\ run.source = ContactOf[p])

\* A page that is not current belongs to a source that is reserved and not handled.
Kept ==
    \A p \in Pages : \/ Current(p, page[p])
                     \/ \E s \in {p, ContactOf[p]} : s \in DOMAIN proj.processing \ run.done

\* The pages of the source at work are current: those written, and those about to be.
Rebuilt ==
    Busy => \A p \in Pages :
        run.source \in {p, ContactOf[p]} =>
            IF p \in DOMAIN run.artifacts /\ ~(run.pc = "mark" /\ run.page = p)
            THEN Current(p, run.artifacts[p]) ELSE Current(p, page[p])

PageInv == Planned /\ BatchHeld /\ Built /\ Kept /\ Rebuilt

LEMMA PagesAndContacts ==
    ASSUME NEW p \in Pages
    PROVE  /\ p \in Sources /\ ContactOf[p] \in Contacts /\ ContactOf[p] \in Sources
           /\ p # ContactOf[p] /\ ContactOf[p] \notin Pages
BY IngestAssumption DEF Sources

LEMMA InitPage == Init => PageInv
<1> SUFFICES ASSUME Init PROVE PageInv
    OBVIOUS
<1>1. Planned
    BY PagesAndContacts DEF Init, Planned
<1>2. BatchHeld /\ Built /\ Rebuilt
    BY IdleRunnerShape DEF Init, BatchHeld, Built, Rebuilt, Busy
<1>3. Kept
    BY PagesAndContacts DEF Init, Kept, Current
<1>4. QED
    BY <1>1, <1>2, <1>3 DEF PageInv

\* What a step of a connector leaves: marks and debts stay, a page whose records grow has
\* one, and what the log misses is only made good by a mark.
LEMMA ConnEffect ==
    ASSUME Shape, NEW k \in Connectors, ConnStep(k)
    PROVE  /\ UNCHANGED <<run, page, written, mem, dream, dreamt>>
           /\ index \subseteq index' /\ index' \subseteq index \cup {conn[k].source}
           /\ \A j \in Connectors \ {k} : conn'[j] = conn[j]
           /\ proj'.processing = proj.processing
           /\ DOMAIN proj.pending \subseteq DOMAIN proj'.pending
           /\ \A s \in warned \ warned' :
                 s \in DOMAIN proj'.pending /\ (s \in Pages => s \in index')
           /\ \/ /\ conn[k].pc = "idle" /\ UNCHANGED <<raw, proj, index>>
              \/ /\ conn[k].pc = "store" /\ conn'[k].pc = "plan"
                 /\ conn'[k].source = conn[k].source /\ UNCHANGED <<proj, index>>
                 /\ \A s \in Sources \ {conn[k].source} : raw'[s] = raw[s]
              \/ /\ conn[k].pc = "plan" /\ conn'[k].pc = "mark"
                 /\ conn'[k].source = conn[k].source /\ UNCHANGED <<raw, proj>>
                 /\ conn[k].source \in Pages => conn[k].source \in index'
              \/ /\ conn[k].pc \in {"plan", "mark"} /\ UNCHANGED <<raw, index>>
                 /\ conn[k].source \in DOMAIN proj'.pending \cup warned'
                 /\ conn[k].pc = "plan" => conn[k].source \in warned'
              \/ /\ conn[k].pc = "cursor" /\ UNCHANGED <<raw, proj, index>>
<1>1. conn \in [Connectors -> Record] /\ conn[k] \in Record /\ raw \in [Sources -> Nat]
    BY DEF Shape, ConnShape
<1>2. /\ UNCHANGED <<run, page, written, mem, dream, dreamt>>
      /\ \A j \in Connectors \ {k} : conn'[j] = conn[j]
    BY <1>1 DEF ConnStep, Observe, StoreRaw, PlanRecords, MarkProjection, SaveCursor,
                PlanFails, MarkFails, runVars, dreamVars
<1>3. CASE Observe(k) \/ SaveCursor(k)
    BY <1>2, <1>3 DEF Observe, SaveCursor
<1>4. CASE StoreRaw(k)
    <2>1. /\ conn[k].pc = "store" /\ UNCHANGED <<proj, index, warned>>
          /\ \A s \in Sources \ {conn[k].source} : raw'[s] = raw[s]
        BY <1>1, <1>4 DEF StoreRaw
    <2>2. conn' = [conn EXCEPT ![k] = [conn[k] EXCEPT !.pc = "plan", !.stored = TRUE]]
        BY <1>1, <1>4 DEF StoreRaw
    <2>3. conn'[k].pc = "plan" /\ conn'[k].source = conn[k].source
        BY <1>1, <2>2 DEF Record
    <2>4. QED
        BY <1>2, <2>1, <2>3
<1>5. CASE PlanRecords(k)
    <2>1. /\ conn[k].pc = "plan" /\ UNCHANGED <<raw, proj, warned>>
          /\ conn[k].source \in Pages => conn[k].source \in index'
          /\ index \subseteq index' /\ index' \subseteq index \cup {conn[k].source}
        BY <1>5 DEF PlanRecords
    <2>2. conn'[k].pc = "mark" /\ conn'[k].source = conn[k].source
        BY <1>1, <1>5 DEF PlanRecords, Record
    <2>3. QED
        BY <1>2, <2>1, <2>2
<1>6. CASE MarkProjection(k)
    <2>1. conn[k].source \in Sources /\ TimeOf[k] \in Nat /\ proj \in QueueOn(Sources)
        BY <1>6, IngestAssumption DEF MarkProjection, Shape, ConnShape
    <2>2. /\ conn[k].pc = "mark" /\ UNCHANGED <<raw, index>>
          /\ proj' = MarkPendingSource(proj, conn[k].source, TimeOf[k])
          /\ \A s \in warned \ warned' : s = conn[k].source /\ s \in index \cup Contacts
        BY <1>6 DEF MarkProjection
    <2>3. /\ proj'.processing = proj.processing
          /\ DOMAIN proj'.pending = DOMAIN proj.pending \cup {conn[k].source}
        BY <2>1, <2>2, MarkProperties
    <2>4. \A s \in warned \ warned' :
             s \in DOMAIN proj'.pending /\ (s \in Pages => s \in index')
        BY <2>2, <2>3, IngestAssumption
    <2>5. QED
        BY <1>2, <2>2, <2>3, <2>4
<1>7. CASE PlanFails(k) \/ MarkFails(k)
    <2>1. /\ conn[k].pc \in {"plan", "mark"} /\ UNCHANGED <<raw, index, proj>>
          /\ warned' = warned \cup {conn[k].source}
        BY <1>7 DEF PlanFails, MarkFails
    <2>2. QED
        BY <1>2, <2>1
<1>8. QED
    BY <1>3, <1>4, <1>5, <1>6, <1>7 DEF ConnStep

LEMMA ConnWaits ==
    ASSUME Shape, NEW k \in Connectors, ConnStep(k), NEW s \in Sources, Waits(s)
    PROVE  Waits(s)'
<1>1. CASE s \in DOMAIN proj.pending \cup warned
    BY <1>1, ConnEffect DEF Waits
<1>2. ASSUME NEW j \in Connectors, OwesMark(j, s)
      PROVE  Waits(s)'
    <2>1. CASE j # k
        BY <1>2, <2>1, ConnEffect DEF Waits, OwesMark
    <2>2. CASE j = k
        BY <1>2, <2>2, ConnEffect DEF Waits, OwesMark
    <2>3. QED
        BY <2>1, <2>2
<1>3. QED
    BY <1>1, <1>2 DEF Waits

LEMMA ConnCurrent ==
    ASSUME Shape, NEW k \in Connectors, ConnStep(k), NEW p \in Pages, NEW content,
           Current(p, content)
    PROVE  Current(p, content)'
<1>1. p \in Sources /\ ContactOf[p] \in Sources
    BY PagesAndContacts
<1>2. CASE Waits(p) \/ Waits(ContactOf[p])
    BY <1>1, <1>2, ConnWaits DEF Current
<1>3. CASE Covers(content, InRaw(p)) \/ raw[p] = 0
    <2>1. CASE raw'[p] = raw[p] /\ raw'[ContactOf[p]] = raw[ContactOf[p]]
        BY <1>3, <2>1 DEF Current, InRaw
    <2>2. CASE ~(raw'[p] = raw[p] /\ raw'[ContactOf[p]] = raw[ContactOf[p]])
        <3>1. /\ conn'[k].pc = "plan" /\ conn'[k].source = conn[k].source
              /\ conn[k].source \in {p, ContactOf[p]}
            BY <1>1, <2>2, ConnEffect
        <3>2. QED
            BY <3>1 DEF Current, Waits, OwesMark
    <2>3. QED
        BY <2>1, <2>2
<1>4. QED
    BY <1>2, <1>3 DEF Current

LEMMA ConnPage ==
    ASSUME Shape, PageInv, NEW k \in Connectors, ConnStep(k)
    PROVE  PageInv'
<1>1. /\ UNCHANGED <<run, page>> /\ index \subseteq index'
      /\ proj'.processing = proj.processing
    BY ConnEffect
<1>2. Planned'
    <2> SUFFICES ASSUME NEW p \in Pages
                 PROVE  \/ raw'[p] = 0 \/ p \in index' \/ p \in warned'
                        \/ \E j \in Connectors : conn'[j].source = p /\ conn'[j].pc \in {"store", "plan"}
        BY DEF Planned
    <2>1. CASE p \in index \cup warned
        BY <1>1, <2>1, ConnEffect
    <2>2. CASE raw[p] = 0
        <3>1. CASE raw'[p] = raw[p]
            BY <2>2, <3>1
        <3>2. CASE raw'[p] # raw[p]
            BY <3>2, ConnEffect, PagesAndContacts
        <3>3. QED
            BY <3>1, <3>2
    <2>3. ASSUME NEW j \in Connectors, conn[j].source = p, conn[j].pc \in {"store", "plan"}
          PROVE  p \in index' \cup warned' \/ (conn'[j].source = p /\ conn'[j].pc \in {"store", "plan"})
        <3>1. CASE j # k
            BY <2>3, <3>1, ConnEffect
        <3>2. CASE j = k
            BY <2>3, <3>2, ConnEffect
        <3>3. QED
            BY <3>1, <3>2
    <2>4. QED
        BY <2>1, <2>2, <2>3 DEF PageInv, Planned
<1>3. BatchHeld' /\ Built'
    BY <1>1 DEF PageInv, BatchHeld, Built, Busy
<1>4. Kept'
    BY <1>1, ConnCurrent DEF PageInv, Kept
<1>5. Rebuilt'
    BY <1>1, ConnCurrent DEF PageInv, Rebuilt, Busy
<1>6. QED
    BY <1>2, <1>3, <1>4, <1>5 DEF PageInv

\* A step that leaves the raw files, and lets no mark and no debt disappear.
LEMMA StaysCurrent ==
    ASSUME UNCHANGED raw, NEW p \in Pages, NEW content,
           \A s \in {p, ContactOf[p]} : Waits(s) => Waits(s)',
           Current(p, content)
    PROVE  Current(p, content)'
BY DEF Current, InRaw

LEMMA ReserveBatchPage ==
    ASSUME Shape, PageInv, ReserveBatch
    PROVE  PageInv'
<1>1. /\ run.done = {} /\ run'.done = {} /\ ~Busy'
      /\ Queued(proj') = Queued(proj)
      /\ \A s \in DOMAIN run'.batch :
            s \in DOMAIN proj'.processing /\ proj'.processing[s].at = run'.batch[s]
      /\ UNCHANGED <<raw, index, warned, conn, page>>
    BY ReserveBatchTyped DEF ReserveBatch, connVars
<1>2. Planned' /\ BatchHeld' /\ Built' /\ Rebuilt'
    BY <1>1 DEF PageInv, Planned, BatchHeld, Built, Rebuilt
<1>3. \A s : s \in Queued(proj) => s \in DOMAIN proj'.processing \ run'.done \/ Waits(s)'
    BY <1>1 DEF Queued, Waits
<1>4. \A s : s \in warned \/ (\E k \in Connectors : OwesMark(k, s)) => Waits(s)'
    BY <1>1 DEF Waits, OwesMark
<1>5. ASSUME NEW p \in Pages
      PROVE  \/ Current(p, page[p])'
             \/ \E s \in {p, ContactOf[p]} : s \in DOMAIN proj'.processing \ run'.done
    <2>1. CASE Covers(page[p], InRaw(p)) \/ raw[p] = 0
        BY <1>1, <2>1 DEF Current, InRaw
    <2>2. CASE ~(Covers(page[p], InRaw(p)) \/ raw[p] = 0)
        <3>1. PICK s \in {p, ContactOf[p]} : Waits(s) \/ s \in DOMAIN proj.processing
            BY <2>2 DEF PageInv, Kept, Current
        <3>2. s \in DOMAIN proj'.processing \ run'.done \/ Waits(s)'
            BY <1>3, <1>4, <3>1 DEF Waits, Queued
        <3>3. QED
            BY <3>2 DEF Current
    <2>3. QED
        BY <2>1, <2>2
<1>6. QED
    BY <1>1, <1>2, <1>5 DEF PageInv, Kept

LEMMA ProjectPage ==
    ASSUME Shape, PageInv, NEW s \in Sources, ProjectSource(s)
    PROVE  PageInv'
<1>1. UNCHANGED <<raw, index, warned, conn, proj, page>> /\ run'.batch = run.batch
    BY ProjectTyped DEF ProjectSource, connVars
<1>2. \A p \in Pages : \A content : Current(p, content)' <=> Current(p, content)
    BY <1>1 DEF Current, Waits, OwesMark, InRaw
<1>3. Planned' /\ BatchHeld'
    BY <1>1 DEF PageInv, Planned, BatchHeld
<1>4. \* A page of s that is not among those it stands for has no messages stored yet.
      ASSUME NEW p \in Pages, s \in {p, ContactOf[p]}, p \notin PagesOf(s)
      PROVE  Current(p, page[p])
    <2>1. s = ContactOf[p] /\ p \notin index
        BY <1>4, PagesAndContacts DEF PagesOf
    <2>2. \/ raw[p] = 0 \/ p \in warned
          \/ \E k \in Connectors : conn[k].source = p /\ conn[k].pc \in {"store", "plan"}
        BY <2>1 DEF PageInv, Planned
    <2>3. QED
        BY <2>2 DEF Current, Waits, OwesMark
<1>5. CASE PagesOf(s) = {} /\ ~Busy' /\ run'.done = run.done \cup {s}
    <2>1. Built' /\ Rebuilt'
        BY <1>5 DEF Built, Rebuilt
    <2>2. ASSUME NEW p \in Pages
          PROVE  \/ Current(p, page[p])
                 \/ \E r \in {p, ContactOf[p]} : r \in DOMAIN proj.processing \ run'.done
        BY <1>4, <1>5 DEF PageInv, Kept
    <2>3. QED
        BY <1>1, <1>2, <1>3, <2>1, <2>2 DEF PageInv, Kept
<1>6. CASE /\ run'.pc = "write" /\ run'.source = s /\ run'.done = run.done
           /\ DOMAIN run'.artifacts = PagesOf(s)
           /\ \A p \in PagesOf(s) : run'.artifacts[p] = InRaw(p)
    <2>1. Kept'
        BY <1>1, <1>2, <1>6 DEF PageInv, Kept
    <2>2. Built'
        BY <1>1, <1>6 DEF Built, PagesOf
    <2>3. ASSUME NEW p \in Pages, p \in PagesOf(s)
          PROVE  Current(p, run'.artifacts[p])
        <3>1. raw[p] \in Nat /\ raw[ContactOf[p]] \in Nat
            BY PagesAndContacts DEF Shape, ConnShape
        <3>2. Covers(InRaw(p), InRaw(p))
            BY <3>1 DEF Covers, InRaw
        <3>3. QED
            BY <1>6, <2>3, <3>2 DEF Current
    <2>4. ASSUME NEW p \in Pages, s \in {p, ContactOf[p]}
          PROVE  IF p \in DOMAIN run'.artifacts
                 THEN Current(p, run'.artifacts[p]) ELSE Current(p, page[p])
        BY <1>4, <1>6, <2>3, <2>4
    <2>5. Rebuilt'
        BY <1>1, <1>2, <1>6, <2>4 DEF Rebuilt
    <2>6. QED
        BY <1>3, <2>1, <2>2, <2>5 DEF PageInv
<1>7. QED
    BY <1>5, <1>6, ProjectTyped

LEMMA WritePage ==
    ASSUME Shape, PageInv, NEW p \in Pages, WriteArtifact(p)
    PROVE  PageInv'
<1>1. /\ UNCHANGED <<raw, index, warned, conn, proj>> /\ Busy /\ p \in DOMAIN run.artifacts
      /\ run'.pc = "mark" /\ run'.page = p /\ run'.batch = run.batch
      /\ run'.done = run.done /\ run'.source = run.source
      /\ run'.artifacts = run.artifacts
      /\ page'[p] = run.artifacts[p]
      /\ \A r \in Pages \ {p} : page'[r] = page[r]
    BY WriteTyped DEF WriteArtifact, connVars
<1>2. run.pc = "write"
    BY DEF WriteArtifact
<1>3. \A r \in Pages : \A content : Current(r, content)' <=> Current(r, content)
    BY <1>1 DEF Current, Waits, OwesMark, InRaw
<1>4. Planned' /\ BatchHeld' /\ Built'
    BY <1>1 DEF PageInv, Planned, BatchHeld, Built
<1>5. run.source \in {p, ContactOf[p]} /\ run.source \in DOMAIN proj.processing \ run.done
    BY <1>1 DEF PageInv, Built, BatchHeld, Shape, RunShape
<1>6. Kept'
    <2> SUFFICES ASSUME NEW r \in Pages
                 PROVE  \/ Current(r, page'[r])
                        \/ \E s \in {r, ContactOf[r]} : s \in DOMAIN proj.processing \ run.done
        BY <1>1, <1>3 DEF Kept
    <2>1. CASE r = p
        BY <1>5, <2>1
    <2>2. CASE r # p
        BY <1>1, <2>2 DEF PageInv, Kept
    <2>3. QED
        BY <2>1, <2>2
<1>7. Rebuilt'
    <2> SUFFICES ASSUME NEW r \in Pages, run.source \in {r, ContactOf[r]}
                 PROVE  IF r \in DOMAIN run.artifacts /\ r # p
                        THEN Current(r, run.artifacts[r]) ELSE Current(r, page'[r])
        BY <1>1, <1>3 DEF Rebuilt
    <2>1. IF r \in DOMAIN run.artifacts THEN Current(r, run.artifacts[r])
          ELSE Current(r, page[r])
        BY <1>1, <1>2 DEF PageInv, Rebuilt
    <2>2. QED
        BY <1>1, <2>1
<1>8. QED
    BY <1>4, <1>6, <1>7 DEF PageInv

LEMMA MarkPage ==
    ASSUME Shape, PageInv, MarkMemory
    PROVE  PageInv'
<1>1. /\ UNCHANGED <<raw, index, warned, conn, proj, page>> /\ Busy /\ run.pc = "mark"
      /\ run'.batch = run.batch
      /\ DOMAIN run'.artifacts = DOMAIN run.artifacts \ {run.page}
      /\ \A p \in DOMAIN run'.artifacts : run'.artifacts[p] = run.artifacts[p]
    BY MarkTyped DEF MarkMemory, connVars
<1>2. \A r \in Pages : \A content : Current(r, content)' <=> Current(r, content)
    BY <1>1 DEF Current, Waits, OwesMark, InRaw
<1>3. Planned' /\ BatchHeld'
    BY <1>1 DEF PageInv, Planned, BatchHeld
<1>4. ASSUME NEW r \in Pages, run.source \in {r, ContactOf[r]}, r \notin DOMAIN run'.artifacts
      PROVE  Current(r, page[r])
    BY <1>1, <1>4 DEF PageInv, Rebuilt
<1>5. CASE run'.pc = "write" /\ run'.done = run.done /\ run'.source = run.source
    <2>1. Kept'
        BY <1>1, <1>2, <1>5 DEF PageInv, Kept
    <2>2. Built'
        BY <1>1, <1>5 DEF PageInv, Built
    <2>3. ASSUME NEW r \in Pages, run.source \in {r, ContactOf[r]}
          PROVE  IF r \in DOMAIN run'.artifacts
                 THEN Current(r, run'.artifacts[r]) ELSE Current(r, page[r])
        BY <1>1, <1>4, <2>3 DEF PageInv, Rebuilt
    <2>4. Rebuilt'
        BY <1>1, <1>2, <1>5, <2>3 DEF Rebuilt
    <2>5. QED
        BY <1>3, <2>1, <2>2, <2>4 DEF PageInv
<1>6. CASE /\ DOMAIN run'.artifacts = {} /\ ~Busy'
           /\ run'.done = run.done \cup {run.source}
    <2>1. Built' /\ Rebuilt'
        BY <1>6 DEF Built, Rebuilt
    <2>2. ASSUME NEW r \in Pages
          PROVE  \/ Current(r, page[r])
                 \/ \E s \in {r, ContactOf[r]} : s \in DOMAIN proj.processing \ run'.done
        BY <1>4, <1>6 DEF PageInv, Kept
    <2>3. QED
        BY <1>1, <1>2, <1>3, <2>1, <2>2 DEF PageInv, Kept
<1>7. QED
    BY <1>5, <1>6, MarkTyped

LEMMA FailPage ==
    ASSUME Shape, PageInv, FailSource
    PROVE  PageInv'
<1>1. /\ UNCHANGED <<raw, index, warned, conn, proj, page>> /\ ~Busy'
      /\ run'.batch = run.batch /\ run'.done = run.done
    BY FailTyped DEF FailSource, connVars
<1>2. QED
    BY <1>1 DEF PageInv, Planned, BatchHeld, Built, Kept, Rebuilt, Current, Waits,
                OwesMark, InRaw

LEMMA SettlePage ==
    ASSUME Shape, PageInv, SettleBatch
    PROVE  PageInv'
<1>1. /\ UNCHANGED <<raw, index, warned, conn, page>> /\ ~Busy'
      /\ run'.done = {} /\ DOMAIN run'.batch = {}
    BY SettleTyped DEF SettleBatch, connVars
<1>2. /\ DOMAIN proj.pending \subseteq DOMAIN proj'.pending
      /\ \A s \in DOMAIN proj.processing \ run.done :
            s \in DOMAIN proj'.processing \/ s \in DOMAIN proj'.pending
    BY SettleTyped DEF Ends
<1>3. Planned' /\ BatchHeld' /\ Built' /\ Rebuilt'
    BY <1>1 DEF PageInv, Planned, BatchHeld, Built, Rebuilt
<1>4. \A s : Waits(s) => Waits(s)'
    BY <1>1, <1>2 DEF Waits, OwesMark
<1>5. ASSUME NEW p \in Pages
      PROVE  \/ Current(p, page[p])'
             \/ \E s \in {p, ContactOf[p]} : s \in DOMAIN proj'.processing \ run'.done
    <2>1. CASE Current(p, page[p])
        BY <1>1, <1>4, <2>1, StaysCurrent
    <2>2. ASSUME NEW s \in {p, ContactOf[p]}, s \in DOMAIN proj.processing \ run.done
          PROVE  s \in DOMAIN proj'.processing \ run'.done \/ Current(p, page[p])'
        BY <1>1, <1>2, <2>2 DEF Current, Waits
    <2>3. QED
        BY <2>1, <2>2 DEF PageInv, Kept
<1>6. QED
    BY <1>1, <1>3, <1>5 DEF PageInv, Kept

LEMMA AgePage ==
    ASSUME Shape, PageInv, HalfAnHourPasses
    PROVE  PageInv'
<1>1. /\ UNCHANGED <<raw, index, warned, conn, run, page>>
      /\ proj'.pending = proj.pending
      /\ DOMAIN proj'.processing = DOMAIN proj.processing
      /\ \A s \in DOMAIN proj.processing : proj'.processing[s].at = proj.processing[s].at
    BY AgeTyped DEF HalfAnHourPasses, connVars, runVars
<1>2. \A r \in Pages : \A content : Current(r, content)' <=> Current(r, content)
    BY <1>1 DEF Current, Waits, OwesMark, InRaw
<1>3. QED
    BY <1>1, <1>2 DEF PageInv, Planned, BatchHeld, Built, Kept, Rebuilt, Busy

LEMMA CrashPage ==
    ASSUME Shape, PageInv, Crash
    PROVE  PageInv'
<1>1. /\ UNCHANGED <<raw, index, warned, proj, page>> /\ run' = IdleRunner
      /\ \A k \in Connectors :
            \/ conn[k].pc = "idle" /\ conn'[k] = conn[k]
            \/ /\ conn[k].pc # "idle"
               /\ conn'[k].pc = "store" /\ conn'[k].source = conn[k].source
    BY CrashTyped DEF Crash
<1>2. Planned'
    BY <1>1 DEF PageInv, Planned
<1>3. BatchHeld' /\ Built' /\ Rebuilt'
    BY <1>1, IdleRunnerShape DEF BatchHeld, Built, Rebuilt, Busy
<1>4. \A s : Waits(s) => Waits(s)'
    BY <1>1 DEF Waits, OwesMark
<1>5. \A p \in Pages : Current(p, page[p]) => Current(p, page[p])'
    BY <1>1, <1>4, StaysCurrent
<1>6. Kept'
    BY <1>1, <1>5, IdleRunnerShape DEF PageInv, Kept
<1>7. QED
    BY <1>2, <1>3, <1>6 DEF PageInv

-----------------------------------------------------------------------------
\* From the pages to the dreams.

\* A finished dream read the page as it is.
Seen(p) == Covers(dreamt[p], page[p])

\* The memory queue has a later mark of p than this one.
Newer(p, at) ==
    \/ p \in DOMAIN mem.pending /\ mem.pending[p] > at
    \/ p \in DOMAIN mem.processing /\ mem.processing[p].at > at

\* The page was read or is queued; and whichever dream settles it now, it was given the
\* page as it is, or its reservation is not the one that stands.
Safe(p) ==
    /\ Seen(p) \/ p \in Queued(mem)
    /\ \A d \in Dreams : p \in DOMAIN dream[d].held =>
          \/ Covers(dream[d].read[p], page[p])
          \/ Seen(p)
          \/ Newer(p, dream[d].held[p])

\* Marks carry the time of the write: no reservation is later than the page's last write,
\* one older than the page is earlier than it, and a source that waits while it is reserved
\* waits with a mark no older than the reservation.
Clock ==
    \A p \in Pages :
        /\ p \in DOMAIN mem.pending => mem.pending[p] <= written[p]
        /\ p \in DOMAIN mem.processing => mem.processing[p].at <= written[p]
        /\ p \in DOMAIN mem.pending \cap DOMAIN mem.processing =>
              mem.processing[p].at <= mem.pending[p]
        /\ \A d \in Dreams : p \in DOMAIN dream[d].held =>
              /\ dream[d].held[p] <= written[p]
              /\ Covers(dream[d].read[p], page[p]) \/ dream[d].held[p] < written[p]

\* The projections not settled, and those of them but the one at work.
Unsettled == DOMAIN proj.pending \cup (DOMAIN proj.processing \ run.done)
Others == DOMAIN proj.pending \cup (DOMAIN proj.processing \ (run.done \cup {run.source}))

\* A page that is not safe will be built again, and so marked again.
Watched ==
    \A p \in Pages :
        Safe(p) \/ p \in Unsettled \/ (p \in index /\ ContactOf[p] \in Unsettled)

\* The pages of the source at work that it is done with are safe, or queued for their own.
Announced ==
    Busy => \A p \in Pages :
        run.source \in {p, ContactOf[p]} /\ p \notin DOMAIN run.artifacts =>
            Safe(p) \/ p \in Others

MemInv == Clock /\ Watched /\ Announced

LEMMA InitMem == Init => MemInv
<1> SUFFICES ASSUME Init PROVE MemInv
    OBVIOUS
<1>1. DOMAIN mem.pending = {} /\ DOMAIN mem.processing = {}
    <2>1. DOMAIN << >> = {}
        OBVIOUS
    <2>2. QED
        BY <2>1 DEF Init, EmptyQueue
<1>2. \A d \in Dreams : DOMAIN dream[d].held = {}
    BY NotDreamingShape DEF Init
<1>3. Clock
    BY <1>1, <1>2 DEF Clock
<1>4. Watched
    BY <1>2 DEF Init, Watched, Safe, Seen, Covers, Blank
<1>5. Announced
    BY IdleRunnerShape DEF Init, Announced, Busy
<1>6. QED
    BY <1>3, <1>4, <1>5 DEF MemInv

LEMMA CoversNewest ==
    ASSUME NEW a \in Content, NEW b \in Content, NEW c \in Content
    PROVE  /\ Covers(a, a)
           /\ Covers(a, c) => Covers(Newest(a, b), c)
           /\ Covers(b, c) => Covers(Newest(a, b), c)
BY DEF Covers, Newest, Content

\* The numbers in the memory queue and in the dreams.
LEMMA Numbers ==
    ASSUME Shape
    PROVE  /\ \A p \in DOMAIN mem.pending : p \in Pages /\ mem.pending[p] \in Nat
           /\ \A p \in DOMAIN mem.processing : p \in Pages /\ mem.processing[p].at \in Nat
           /\ \A p \in Pages : written[p] \in Nat /\ page[p] \in Content /\ dreamt[p] \in Content
           /\ \A d \in Dreams : \A p \in DOMAIN dream[d].held :
                 /\ p \in Pages /\ dream[d].held[p] \in Nat
                 /\ p \in DOMAIN dream[d].read /\ dream[d].read[p] \in Content
<1>1. /\ \A p \in DOMAIN mem.pending : p \in Pages /\ mem.pending[p] \in Nat
      /\ \A p \in DOMAIN mem.processing : p \in Pages /\ mem.processing[p].at \in Nat
    BY QueueFields DEF Shape
<1>2. \A p \in Pages : written[p] \in Nat /\ page[p] \in Content /\ dreamt[p] \in Content
    BY DEF Shape, DreamShape
<1>3. ASSUME NEW d \in Dreams, NEW p \in DOMAIN dream[d].held
      PROVE  /\ p \in Pages /\ dream[d].held[p] \in Nat
             /\ p \in DOMAIN dream[d].read /\ dream[d].read[p] \in Content
    <2>1. /\ dream[d].held \in Partial(Pages, Nat) /\ dream[d].read \in Partial(Pages, Content)
          /\ DOMAIN dream[d].read = DOMAIN dream[d].held
        BY DEF Shape, DreamShape, Dream
    <2>2. QED
        BY <2>1, OfPartial
<1>4. QED
    BY <1>1, <1>2, <1>3

\* A step that touches neither the memory queue nor the dreams.
LEMMA QueueKeepsMem ==
    ASSUME UNCHANGED <<page, written, mem, dream, dreamt>>
    PROVE  (\A p \in Pages : Safe(p) => Safe(p)') /\ (Clock => Clock')
BY DEF Safe, Seen, Newer, Clock, Queued

\* What is safe stays so, and what is watched is watched on.
LEMMA StaysWatched ==
    ASSUME MemInv, \A p \in Pages : Safe(p) => Safe(p)', Unsettled \subseteq Unsettled',
           index \subseteq index'
    PROVE  Watched'
BY DEF MemInv, Watched

LEMMA StaysAnnounced ==
    ASSUME MemInv, \A p \in Pages : Safe(p) => Safe(p)', Others \subseteq Others',
           UNCHANGED run
    PROVE  Announced'
BY DEF MemInv, Announced, Busy

LEMMA ConnMem ==
    ASSUME Shape, MemInv, NEW k \in Connectors, ConnStep(k)
    PROVE  MemInv'
<1>1. /\ UNCHANGED <<run, page, written, mem, dream, dreamt>>
      /\ index \subseteq index' /\ proj'.processing = proj.processing
      /\ DOMAIN proj.pending \subseteq DOMAIN proj'.pending
    BY ConnEffect
<1>2. Unsettled \subseteq Unsettled' /\ Others \subseteq Others'
    BY <1>1 DEF Unsettled, Others
<1>3. QED
    BY <1>1, <1>2, QueueKeepsMem, StaysWatched, StaysAnnounced DEF MemInv

LEMMA ReserveBatchMem ==
    ASSUME Shape, MemInv, ReserveBatch
    PROVE  MemInv'
<1>1. /\ run.done = {} /\ run'.done = {} /\ ~Busy' /\ Queued(proj') = Queued(proj)
      /\ UNCHANGED <<index, page, written, mem, dream, dreamt>>
    BY ReserveBatchTyped DEF ReserveBatch, connVars, dreamVars
<1>2. Unsettled \subseteq Unsettled'
    BY <1>1 DEF Unsettled, Queued
<1>3. Announced'
    BY <1>1 DEF Announced
<1>4. QED
    BY <1>1, <1>2, <1>3, QueueKeepsMem, StaysWatched DEF MemInv

LEMMA ProjectMem ==
    ASSUME Shape, MemInv, NEW s \in Sources, ProjectSource(s)
    PROVE  MemInv'
<1>1. UNCHANGED <<index, proj, page, written, mem, dream, dreamt>>
    BY DEF ProjectSource, connVars, dreamVars
<1>2. (\A p \in Pages : Safe(p) => Safe(p)') /\ Clock'
    BY <1>1, QueueKeepsMem DEF MemInv
<1>3. CASE PagesOf(s) = {} /\ ~Busy' /\ run'.done = run.done \cup {s}
    <2>1. \A p \in Pages : p # s /\ (p \in index => ContactOf[p] # s)
        BY <1>3 DEF PagesOf
    <2>2. Watched'
        BY <1>1, <1>2, <1>3, <2>1 DEF MemInv, Watched, Unsettled
    <2>3. QED
        BY <1>2, <1>3, <2>2 DEF MemInv, Announced
<1>4. CASE /\ run'.pc = "write" /\ run'.source = s /\ run'.done = run.done
           /\ DOMAIN run'.artifacts = PagesOf(s)
    <2>1. Watched'
        BY <1>1, <1>2, <1>4, StaysWatched DEF Unsettled
    <2>2. ASSUME NEW p \in Pages, s \in {p, ContactOf[p]}, p \notin PagesOf(s)
          PROVE  Safe(p)' \/ p \in Others'
        <3>1. s = ContactOf[p] /\ p \notin index /\ p # s
            BY <2>2, PagesAndContacts DEF PagesOf
        <3>2. Safe(p) \/ p \in Unsettled
            BY <3>1 DEF MemInv, Watched
        <3>3. QED
            BY <1>1, <1>2, <1>4, <3>1, <3>2 DEF Unsettled, Others
    <2>3. Announced'
        BY <1>4, <2>2 DEF Announced
    <2>4. QED
        BY <1>2, <2>1, <2>3 DEF MemInv
<1>5. QED
    BY <1>3, <1>4, ProjectTyped

LEMMA WriteMem ==
    ASSUME Shape, PageInv, MemInv, NEW p \in Pages, WriteArtifact(p)
    PROVE  MemInv'
<1>1. /\ UNCHANGED <<index, proj, mem, dream, dreamt>> /\ Busy /\ p \in DOMAIN run.artifacts
      /\ run'.done = run.done /\ run'.source = run.source
      /\ run'.artifacts = run.artifacts
      /\ written'[p] = written[p] + 1
      /\ \A r \in Pages \ {p} : page'[r] = page[r] /\ written'[r] = written[r]
    BY WriteTyped DEF WriteArtifact, connVars, dreamVars
<1>2. \A r \in Pages \ {p} : Safe(r) => Safe(r)'
    BY <1>1 DEF Safe, Seen, Newer, Queued
<1>3. Clock'
    <2>1. ASSUME NEW r \in Pages \ {p}
          PROVE  /\ r \in DOMAIN mem.pending => mem.pending[r] <= written'[r]
                 /\ r \in DOMAIN mem.processing => mem.processing[r].at <= written'[r]
                 /\ r \in DOMAIN mem.pending \cap DOMAIN mem.processing =>
                       mem.processing[r].at <= mem.pending[r]
                 /\ \A d \in Dreams : r \in DOMAIN dream[d].held =>
                       /\ dream[d].held[r] <= written'[r]
                       /\ Covers(dream[d].read[r], page'[r]) \/ dream[d].held[r] < written'[r]
        BY <1>1 DEF MemInv, Clock
    <2>2. /\ p \in DOMAIN mem.pending => mem.pending[p] <= written'[p]
          /\ p \in DOMAIN mem.processing => mem.processing[p].at <= written'[p]
          /\ p \in DOMAIN mem.pending \cap DOMAIN mem.processing =>
                mem.processing[p].at <= mem.pending[p]
        BY <1>1, Numbers DEF MemInv, Clock
    <2>3. ASSUME NEW d \in Dreams, p \in DOMAIN dream[d].held
          PROVE  dream[d].held[p] <= written'[p] /\ dream[d].held[p] < written'[p]
        BY <1>1, <2>3, Numbers DEF MemInv, Clock
    <2>4. QED
        BY <1>1, <2>1, <2>2, <2>3 DEF Clock
<1>4. run.source \in Unsettled /\ (run.source = p \/ (p \in index /\ run.source = ContactOf[p]))
    BY <1>1 DEF Unsettled, PageInv, BatchHeld, Built, Shape, RunShape
<1>5. Watched'
    BY <1>1, <1>2, <1>4 DEF MemInv, Watched, Unsettled
<1>6. Announced'
    BY <1>1, <1>2 DEF MemInv, Announced, Others
<1>7. QED
    BY <1>3, <1>5, <1>6 DEF MemInv

LEMMA MarkMem ==
    ASSUME Shape, PageInv, MemInv, MarkMemory
    PROVE  MemInv'
<1>1. PICK q \in Pages : q = run.page
    BY MarkTyped, OfPartial DEF Shape, RunShape, Runner
<1>2. /\ UNCHANGED <<index, proj, page, written, dream, dreamt>> /\ Busy
      /\ q \in DOMAIN run.artifacts
      /\ mem' = MarkPendingSource(mem, q, written[q])
      /\ DOMAIN run'.artifacts = DOMAIN run.artifacts \ {q}
      /\ written[q] \in Nat /\ mem \in QueueOn(Pages)
    BY <1>1, MarkTyped DEF MarkMemory, connVars, dreamVars, Shape
<1>3. /\ mem'.processing = mem.processing
      /\ DOMAIN mem'.pending = DOMAIN mem.pending \cup {q}
      /\ mem'.pending[q] >= written[q]
      /\ \A r \in DOMAIN mem.pending : mem'.pending[r] >= mem.pending[r]
    BY <1>2, MarkProperties
<1>4. \A r \in DOMAIN mem'.pending :
         \/ r \in DOMAIN mem.pending /\ mem'.pending[r] = mem.pending[r]
         \/ r = q /\ mem'.pending[r] = written[q]
    BY <1>2, MarkProperties
<1>5. mem'.pending[q] = written[q]
    <2>1. CASE q \in DOMAIN mem.pending /\ mem'.pending[q] = mem.pending[q]
        BY <1>2, <1>3, <2>1, Numbers DEF MemInv, Clock
    <2>2. CASE mem'.pending[q] = written[q]
        BY <2>2
    <2>3. QED
        BY <1>3, <1>4, <2>1, <2>2
<1>6. \A r \in DOMAIN mem.pending \ {q} : mem'.pending[r] = mem.pending[r]
    BY <1>3, <1>4
<1>7. Safe(q)'
    <2>1. q \in Queued(mem')
        BY <1>3 DEF Queued
    <2>2. ASSUME NEW d \in Dreams, q \in DOMAIN dream[d].held
          PROVE  Covers(dream[d].read[q], page[q]) \/ mem'.pending[q] > dream[d].held[q]
        <3>1. Covers(dream[d].read[q], page[q]) \/ dream[d].held[q] < written[q]
            BY <1>2, <2>2 DEF MemInv, Clock
        <3>2. QED
            BY <1>5, <2>2, <3>1, Numbers
    <2>3. QED
        BY <1>2, <1>3, <2>1, <2>2 DEF Safe, Newer
<1>8. ASSUME NEW r \in Pages \ {q}, Safe(r)
      PROVE  Safe(r)'
    BY <1>2, <1>3, <1>6, <1>8 DEF Safe, Newer, Seen, Queued
<1>9. \A r \in Pages : Safe(r) => Safe(r)'
    BY <1>7, <1>8
<1>10. Clock'
    <2>1. ASSUME NEW r \in Pages \ {q}
          PROVE  /\ r \in DOMAIN mem'.pending => mem'.pending[r] <= written[r]
                 /\ r \in DOMAIN mem'.pending \cap DOMAIN mem.processing =>
                       mem.processing[r].at <= mem'.pending[r]
        BY <1>3, <1>6 DEF MemInv, Clock
    <2>2. /\ mem'.pending[q] <= written[q]
          /\ q \in DOMAIN mem.processing => mem.processing[q].at <= mem'.pending[q]
        BY <1>2, <1>5 DEF MemInv, Clock
    <2>3. ASSUME NEW r \in Pages
          PROVE  /\ r \in DOMAIN mem'.pending => mem'.pending[r] <= written[r]
                 /\ r \in DOMAIN mem'.pending \cap DOMAIN mem.processing =>
                       mem.processing[r].at <= mem'.pending[r]
        BY <2>1, <2>2
    <2>4. QED
        BY <1>2, <1>3, <2>3 DEF MemInv, Clock
<1>11. ASSUME NEW r \in Pages, run.source \in {r, ContactOf[r]}, r \notin DOMAIN run'.artifacts
       PROVE  Safe(r)' \/ r \in Others
    BY <1>2, <1>7, <1>9, <1>11 DEF MemInv, Announced
<1>12. CASE run'.pc = "write" /\ run'.done = run.done /\ run'.source = run.source
    <2>1. Watched'
        BY <1>2, <1>9, <1>12, StaysWatched DEF Unsettled
    <2>2. Announced'
        BY <1>2, <1>11, <1>12 DEF Announced, Others
    <2>3. QED
        BY <1>10, <2>1, <2>2 DEF MemInv
<1>13. CASE /\ DOMAIN run'.artifacts = {} /\ ~Busy'
            /\ run'.done = run.done \cup {run.source}
    <2>1. ASSUME NEW r \in Pages
          PROVE  Safe(r)' \/ r \in Unsettled' \/ (r \in index' /\ ContactOf[r] \in Unsettled')
        <3>1. CASE run.source \in {r, ContactOf[r]}
            <4>1. Safe(r)' \/ r \in Others
                BY <1>11, <1>13, <3>1
            <4>2. QED
                BY <1>2, <1>13, <4>1 DEF Others, Unsettled
        <3>2. CASE run.source \notin {r, ContactOf[r]}
            BY <1>2, <1>9, <1>13, <3>2 DEF MemInv, Watched, Unsettled
        <3>3. QED
            BY <3>1, <3>2
    <2>2. Watched'
        BY <2>1 DEF Watched
    <2>3. QED
        BY <1>10, <1>13, <2>2 DEF MemInv, Announced
<1>14. QED
    BY <1>12, <1>13, MarkTyped

LEMMA FailMem ==
    ASSUME Shape, MemInv, FailSource
    PROVE  MemInv'
<1>1. /\ UNCHANGED <<index, proj, page, written, mem, dream, dreamt>>
      /\ ~Busy' /\ run'.done = run.done
    BY FailTyped DEF FailSource, connVars, dreamVars
<1>2. Unsettled' = Unsettled
    BY <1>1 DEF Unsettled
<1>3. QED
    BY <1>1, <1>2, QueueKeepsMem, StaysWatched DEF MemInv, Announced

LEMMA SettleMem ==
    ASSUME Shape, MemInv, SettleBatch
    PROVE  MemInv'
<1>1. /\ UNCHANGED <<index, page, written, mem, dream, dreamt>>
      /\ ~Busy' /\ run'.done = {}
    BY SettleTyped DEF SettleBatch, connVars, dreamVars
<1>2. /\ DOMAIN proj.pending \subseteq DOMAIN proj'.pending
      /\ \A s \in DOMAIN proj.processing \ run.done :
            s \in DOMAIN proj'.processing \/ s \in DOMAIN proj'.pending
    BY SettleTyped DEF Ends
<1>3. Unsettled \subseteq Unsettled'
    BY <1>1, <1>2 DEF Unsettled
<1>4. QED
    BY <1>1, <1>3, QueueKeepsMem, StaysWatched DEF MemInv, Announced

\* A step of a dream.
LEMMA DreamStepMem ==
    ASSUME MemInv, UNCHANGED <<index, proj, run>>, \A p \in Pages : Safe(p) => Safe(p)', Clock'
    PROVE  MemInv'
BY StaysWatched, StaysAnnounced DEF MemInv, Unsettled, Others

LEMMA StartMem ==
    ASSUME Shape, MemInv, NEW d \in Dreams, StartDream(d)
    PROVE  MemInv'
<1> DEFINE w == RecoverStale(mem)
<1>1. /\ DOMAIN mem'.pending = {}
      /\ DOMAIN mem'.processing = DOMAIN w.processing \cup DOMAIN w.pending
      /\ \A p \in DOMAIN w.pending : mem'.processing[p].at = w.pending[p]
      /\ \A p \in DOMAIN w.processing \ DOMAIN w.pending :
            mem'.processing[p] = w.processing[p]
      /\ DOMAIN dream'[d].held = DOMAIN w.pending
      /\ \A p \in DOMAIN w.pending :
            dream'[d].held[p] = w.pending[p] /\ dream'[d].read[p] = page[p]
      /\ \A e \in Dreams \ {d} : dream'[e] = dream[e]
    BY StartTyped
<1>2. /\ DOMAIN mem.pending \subseteq DOMAIN w.pending
      /\ DOMAIN w.pending \subseteq Queued(mem)
      /\ \A s \in DOMAIN mem.processing : s \in DOMAIN w.processing \/ s \in DOMAIN w.pending
      /\ \A s \in DOMAIN w.processing :
            s \in DOMAIN mem.processing /\ w.processing[s] = mem.processing[s]
    BY RecoverProperties DEF Shape
<1>3. /\ \A s \in DOMAIN mem.pending : w.pending[s] >= mem.pending[s]
      /\ \A s \in DOMAIN w.pending :
            \/ s \in DOMAIN mem.pending /\ w.pending[s] = mem.pending[s]
            \/ s \in DOMAIN mem.processing /\ w.pending[s] = mem.processing[s].at
    BY RecoverProperties DEF Shape
<1>4. UNCHANGED <<index, proj, run, page, written, dreamt>>
    BY DEF StartDream, connVars, runVars
<1> HIDE DEF w
<1>5. \A s \in DOMAIN w.pending : w.pending[s] \in Nat
    BY <1>3, Numbers
<1>6. ASSUME NEW p \in Pages, NEW at \in Nat, Newer(p, at)
      PROVE  p \in DOMAIN mem'.processing /\ mem'.processing[p].at > at
    <2>1. CASE p \in DOMAIN mem.pending /\ mem.pending[p] > at
        BY <1>1, <1>2, <1>3, <1>5, <2>1, Numbers
    <2>2. CASE p \in DOMAIN mem.processing /\ mem.processing[p].at > at
        <3>1. CASE p \in DOMAIN w.pending
            <4>1. CASE p \in DOMAIN mem.pending /\ w.pending[p] = mem.pending[p]
                BY <1>1, <2>2, <3>1, <4>1, Numbers DEF MemInv, Clock
            <4>2. CASE w.pending[p] = mem.processing[p].at
                BY <1>1, <2>2, <3>1, <4>2
            <4>3. QED
                BY <1>3, <3>1, <4>1, <4>2
        <3>2. CASE p \notin DOMAIN w.pending
            BY <1>1, <1>2, <2>2, <3>2
        <3>3. QED
            BY <3>1, <3>2
    <2>3. QED
        BY <1>6, <2>1, <2>2 DEF Newer
<1>7. ASSUME NEW p \in Pages, Safe(p)
      PROVE  Safe(p)'
    <2>1. Seen(p)' \/ p \in Queued(mem')
        BY <1>1, <1>2, <1>4, <1>7 DEF Safe, Seen, Queued
    <2>2. ASSUME NEW e \in Dreams, p \in DOMAIN dream'[e].held
          PROVE  \/ Covers(dream'[e].read[p], page[p])
                 \/ Seen(p)
                 \/ p \in DOMAIN mem'.processing /\ mem'.processing[p].at > dream'[e].held[p]
        <3>1. CASE e = d
            <4>1. dream'[e].read[p] = page[p] /\ page[p] \in Content
                BY <1>1, <2>2, <3>1, Numbers
            <4>2. QED
                BY <4>1, CoversNewest
        <3>2. CASE e # d
            <4>1. dream'[e] = dream[e] /\ dream[e].held[p] \in Nat
                BY <1>1, <2>2, <3>2, Numbers
            <4>2. QED
                BY <1>6, <1>7, <2>2, <4>1 DEF Safe
        <3>3. QED
            BY <3>1, <3>2
    <2>3. QED
        BY <1>4, <2>1, <2>2 DEF Safe, Seen, Newer
<1>8. Clock'
    <2>1. ASSUME NEW p \in DOMAIN mem'.processing
          PROVE  mem'.processing[p].at <= written[p]
        <3>1. CASE p \in DOMAIN w.pending
            BY <1>1, <1>3, <3>1, Numbers DEF MemInv, Clock
        <3>2. CASE p \notin DOMAIN w.pending
            BY <1>1, <1>2, <3>2, Numbers DEF MemInv, Clock
        <3>3. QED
            BY <3>1, <3>2
    <2>2. ASSUME NEW p \in Pages, NEW e \in Dreams, p \in DOMAIN dream'[e].held
          PROVE  /\ dream'[e].held[p] <= written[p]
                 /\ Covers(dream'[e].read[p], page[p]) \/ dream'[e].held[p] < written[p]
        <3>1. CASE e = d
            <4>1. dream'[e].read[p] = page[p] /\ page[p] \in Content
                  /\ dream'[e].held[p] = w.pending[p] /\ p \in DOMAIN w.pending
                BY <1>1, <2>2, <3>1, Numbers
            <4>2. w.pending[p] <= written[p]
                BY <1>3, <4>1 DEF MemInv, Clock
            <4>3. QED
                BY <4>1, <4>2, CoversNewest
        <3>2. CASE e # d
            BY <1>1, <2>2, <3>2 DEF MemInv, Clock
        <3>3. QED
            BY <3>1, <3>2
    <2>3. QED
        BY <1>1, <1>4, <2>1, <2>2 DEF Clock
<1>9. QED
    BY <1>4, <1>7, <1>8, DreamStepMem

LEMMA EndMem ==
    ASSUME Shape, MemInv, NEW d \in Dreams, NEW R, DreamEnds(d, R)
    PROVE  MemInv'
<1> DEFINE held == dream[d].held
<1>1. /\ R \subseteq DOMAIN held
      /\ dream' = [dream EXCEPT ![d] = NotDreaming]
      /\ UNCHANGED <<index, proj, run, page, written>>
    BY DEF DreamEnds
<1>2. /\ held \in Partial(Pages, Nat) /\ DOMAIN held \subseteq Pages
    BY OfPartial DEF Shape, DreamShape, Dream
<1>3. /\ DOMAIN Restrict(held, R) = R
      /\ \A p \in R : Restrict(held, R)[p] = held[p]
      /\ DOMAIN Restrict(held, DOMAIN held \ R) = DOMAIN held \ R
      /\ \A p \in DOMAIN held \ R : Restrict(held, DOMAIN held \ R)[p] = held[p]
    BY <1>1, <1>2, RestrictPartial
<1>4. /\ DOMAIN mem.pending \subseteq DOMAIN mem'.pending
      /\ \A p \in DOMAIN mem.pending : mem'.pending[p] >= mem.pending[p]
      /\ \A p \in DOMAIN mem.processing :
            \/ p \in DOMAIN mem'.processing
            \/ p \in R /\ held[p] = mem.processing[p].at
            \/ p \in DOMAIN mem'.pending /\ mem'.pending[p] >= mem.processing[p].at
    BY <1>3 DEF DreamEnds, Ends
<1>5. /\ \A p \in DOMAIN mem'.pending :
            \/ p \in DOMAIN mem.pending /\ mem'.pending[p] = mem.pending[p]
            \/ p \in DOMAIN mem.processing /\ mem'.pending[p] = mem.processing[p].at
            \/ p \in DOMAIN held \ R /\ mem'.pending[p] = held[p]
      /\ \A p \in DOMAIN mem'.processing :
            p \in DOMAIN mem.processing /\ mem'.processing[p] = mem.processing[p]
      /\ \A p \in DOMAIN mem'.processing : p \notin DOMAIN held \ R
    BY <1>3 DEF DreamEnds, Ends
<1>7. \A p \in DOMAIN mem'.pending : mem'.pending[p] \in Nat
    BY <1>2, <1>5, Numbers, OfPartial
<1>8. /\ dream'[d] = NotDreaming /\ DOMAIN dream'[d].held = {}
      /\ \A e \in Dreams \ {d} : dream'[e] = dream[e]
    BY <1>1, NotDreamingShape DEF Shape, DreamShape
<1>9. /\ \A p \in Pages \ R : dreamt'[p] = dreamt[p]
      /\ \A p \in R : dreamt'[p] = Newest(dreamt[p], dream[d].read[p])
    BY <1>1, <1>2 DEF DreamEnds
<1> HIDE DEF held
\* What the dreams read only grows, and covers what this one read.
<1>10. \A p \in Pages : Seen(p) => Seen(p)'
    <2> SUFFICES ASSUME NEW p \in Pages, Seen(p)
                 PROVE  Covers(dreamt'[p], page[p])
        BY <1>1 DEF Seen
    <2>1. CASE p \in R
        BY <1>1, <1>9, <2>1, Numbers, CoversNewest DEF Seen, held
    <2>2. CASE p \notin R
        BY <1>9, <2>2 DEF Seen
    <2>3. QED
        BY <2>1, <2>2
<1>11. ASSUME NEW p \in R, Covers(dream[d].read[p], page[p])
       PROVE  Seen(p)'
    <2>1. /\ p \in Pages /\ dreamt[p] \in Content /\ page[p] \in Content
          /\ dream[d].read[p] \in Content
        BY <1>1, <1>2, Numbers DEF held
    <2>2. Covers(dreamt'[p], page[p])
        BY <1>9, <1>11, <2>1, CoversNewest
    <2>3. QED
        BY <1>1, <2>2 DEF Seen
\* A later mark stays one, unless this dream settles it.
<1>12. ASSUME NEW p \in Pages, NEW at \in Nat, Newer(p, at)
       PROVE  \/ Newer(p, at)'
              \/ /\ p \in R /\ p \in DOMAIN mem.processing /\ p \notin DOMAIN mem'.processing
                 /\ held[p] = mem.processing[p].at /\ mem.processing[p].at > at
    <2>1. CASE p \in DOMAIN mem.pending /\ mem.pending[p] > at
        <3>1. mem'.pending[p] > at
            BY <1>4, <1>7, <2>1, Numbers
        <3>2. QED
            BY <1>4, <2>1, <3>1 DEF Newer
    <2>2. CASE p \in DOMAIN mem.processing /\ mem.processing[p].at > at
        <3>1. CASE p \in DOMAIN mem'.processing
            BY <1>5, <2>2, <3>1 DEF Newer
        <3>2. CASE p \in DOMAIN mem'.pending /\ mem'.pending[p] >= mem.processing[p].at
            <4>1. mem'.pending[p] > at
                BY <1>7, <2>2, <3>2, Numbers
            <4>2. QED
                BY <3>2, <4>1 DEF Newer
        <3>3. CASE p \notin DOMAIN mem'.processing /\ p \in R /\ held[p] = mem.processing[p].at
            BY <2>2, <3>3
        <3>4. QED
            BY <1>4, <2>2, <3>1, <3>2, <3>3
    <2>3. QED
        BY <1>12, <2>1, <2>2 DEF Newer
\* A reservation this dream settles was of the page as it is, or a later mark waits.
<1>13. ASSUME NEW p \in R, Safe(p), p \in DOMAIN mem.processing,
              held[p] = mem.processing[p].at
       PROVE  Seen(p)' \/ (p \in DOMAIN mem'.pending /\ mem'.pending[p] > held[p])
    <2>1. p \in Pages /\ p \in DOMAIN dream[d].held /\ held[p] \in Nat
        BY <1>1, <1>2, Numbers DEF held
    <2>2. Covers(dream[d].read[p], page[p]) \/ Seen(p) \/ Newer(p, held[p])
        BY <1>13, <2>1 DEF Safe, held
    <2>3. CASE Covers(dream[d].read[p], page[p])
        BY <1>11, <2>3
    <2>4. CASE Seen(p)
        BY <1>10, <2>1, <2>4
    <2>5. CASE Newer(p, held[p])
        <3>1. p \in DOMAIN mem.pending /\ mem.pending[p] > held[p]
            BY <1>13, <2>1, <2>5 DEF Newer
        <3>2. QED
            BY <1>4, <1>7, <2>1, <3>1, Numbers
    <2>6. QED
        BY <2>2, <2>3, <2>4, <2>5
<1>14. ASSUME NEW p \in Pages, Safe(p)
       PROVE  Safe(p)'
    <2>1. Seen(p)' \/ p \in Queued(mem')
        <3>1. CASE Seen(p)
            BY <1>10, <3>1
        <3>2. CASE p \in DOMAIN mem.pending
            BY <1>4, <3>2 DEF Queued
        <3>3. CASE p \in DOMAIN mem.processing
            BY <1>4, <1>13, <1>14, <3>3 DEF Queued
        <3>4. QED
            BY <1>14, <3>1, <3>2, <3>3 DEF Safe, Queued
    <2>2. ASSUME NEW e \in Dreams, p \in DOMAIN dream'[e].held
          PROVE  \/ Covers(dream'[e].read[p], page[p])
                 \/ Seen(p)'
                 \/ Newer(p, dream[e].held[p])'
        <3>1. e # d /\ dream'[e] = dream[e]
            BY <1>8, <2>2
        <3>2. dream[e].held[p] \in Nat
            BY <2>2, <3>1, Numbers
        <3>3. \/ Covers(dream[e].read[p], page[p]) \/ Seen(p)
              \/ Newer(p, dream[e].held[p])
            BY <1>14, <2>2, <3>1 DEF Safe
        <3>4. CASE Newer(p, dream[e].held[p])
            <4>1. PICK at \in Nat : at = dream[e].held[p]
                BY <3>2
            <4>2. Newer(p, at)' \/ Seen(p)'
                <5>1. CASE Newer(p, at)'
                    BY <5>1
                <5>2. CASE /\ p \in R /\ p \in DOMAIN mem.processing
                           /\ held[p] = mem.processing[p].at /\ mem.processing[p].at > at
                    <6>1. held[p] \in Nat
                        BY <1>2, <5>2, Numbers
                    <6>2. Seen(p)' \/ (p \in DOMAIN mem'.pending /\ mem'.pending[p] > held[p])
                        BY <1>13, <1>14, <5>2
                    <6>3. QED
                        BY <1>7, <4>1, <5>2, <6>1, <6>2 DEF Newer
                <5>3. QED
                    BY <1>12, <3>4, <4>1, <5>1, <5>2
            <4>3. dream'[e].held[p] = at
                BY <3>1, <4>1
            <4>4. QED
                BY <3>1, <4>2, <4>1, <4>3 DEF Newer
        <3>5. QED
            BY <1>10, <3>1, <3>3, <3>4
    <2>3. QED
        BY <1>1, <2>1, <2>2 DEF Safe, Queued
<1>15. Clock'
    <2> SUFFICES ASSUME NEW p \in Pages
                 PROVE  /\ p \in DOMAIN mem'.pending => mem'.pending[p] <= written[p]
                        /\ p \in DOMAIN mem'.processing => mem'.processing[p].at <= written[p]
                        /\ p \in DOMAIN mem'.pending \cap DOMAIN mem'.processing =>
                              mem'.processing[p].at <= mem'.pending[p]
                        /\ \A e \in Dreams : p \in DOMAIN dream'[e].held =>
                              /\ dream'[e].held[p] <= written[p]
                              /\ \/ Covers(dream'[e].read[p], page[p])
                                 \/ dream'[e].held[p] < written[p]
        BY <1>1 DEF Clock
    <2>1. p \in DOMAIN mem'.pending => mem'.pending[p] <= written[p]
        <3>1. p \in DOMAIN held => held[p] <= written[p]
            BY DEF MemInv, Clock, held
        <3>2. QED
            BY <1>5, <3>1 DEF MemInv, Clock
    <2>2. p \in DOMAIN mem'.processing => mem'.processing[p].at <= written[p]
        BY <1>5 DEF MemInv, Clock
    <2>3. ASSUME p \in DOMAIN mem'.pending, p \in DOMAIN mem'.processing
          PROVE  mem'.processing[p].at <= mem'.pending[p]
        <3>1. /\ p \in DOMAIN mem.processing /\ mem'.processing[p] = mem.processing[p]
              /\ mem.processing[p].at \in Nat
            BY <1>5, <2>3, Numbers
        <3>2. CASE p \in DOMAIN mem.pending
            BY <1>4, <1>7, <2>3, <3>1, <3>2, Numbers DEF MemInv, Clock
        <3>3. CASE mem'.pending[p] = mem.processing[p].at
            BY <3>1, <3>3
        <3>4. CASE p \in DOMAIN held \ R
            BY <1>5, <2>3, <3>4
        <3>5. QED
            BY <1>5, <2>3, <3>2, <3>3, <3>4
    <2>4. ASSUME NEW e \in Dreams, p \in DOMAIN dream'[e].held
          PROVE  /\ dream'[e].held[p] <= written[p]
                 /\ Covers(dream'[e].read[p], page[p]) \/ dream'[e].held[p] < written[p]
        BY <1>8, <2>4 DEF MemInv, Clock
    <2>5. QED
        BY <2>1, <2>2, <2>3, <2>4
<1>16. QED
    BY <1>1, <1>14, <1>15, DreamStepMem

LEMMA AgeMem ==
    ASSUME Shape, MemInv, HalfAnHourPasses
    PROVE  MemInv'
<1>1. /\ UNCHANGED <<index, run, page, written, dream, dreamt>>
      /\ proj'.pending = proj.pending /\ mem'.pending = mem.pending
      /\ DOMAIN proj'.processing = DOMAIN proj.processing
      /\ DOMAIN mem'.processing = DOMAIN mem.processing
      /\ \A s \in DOMAIN mem.processing : mem'.processing[s].at = mem.processing[s].at
    BY AgeTyped DEF HalfAnHourPasses, connVars, runVars, dreamVars
<1>2. ASSUME NEW p \in Pages, Safe(p)
      PROVE  Safe(p)'
    BY <1>1, <1>2 DEF Safe, Seen, Newer, Queued
<1>3. Clock'
    BY <1>1 DEF MemInv, Clock
<1>4. Unsettled' = Unsettled /\ Others' = Others
    BY <1>1 DEF Unsettled, Others
<1>5. QED
    BY <1>1, <1>2, <1>3, <1>4, StaysWatched, StaysAnnounced DEF MemInv

LEMMA CrashMem ==
    ASSUME Shape, MemInv, Crash
    PROVE  MemInv'
<1>1. /\ UNCHANGED <<index, proj, page, written, mem, dreamt>>
      /\ run' = IdleRunner /\ dream' = [d \in Dreams |-> NotDreaming]
    BY DEF Crash
<1>2. \A d \in Dreams : DOMAIN dream'[d].held = {}
    BY <1>1, NotDreamingShape
<1>3. \A p \in Pages : Safe(p) => Safe(p)'
    BY <1>1, <1>2 DEF Safe, Seen, Queued
<1>4. Clock'
    BY <1>1, <1>2 DEF MemInv, Clock
<1>5. Unsettled \subseteq Unsettled'
    BY <1>1, IdleRunnerShape DEF Unsettled
<1>6. Announced'
    BY <1>1, IdleRunnerShape DEF Announced, Busy
<1>7. QED
    BY <1>1, <1>3, <1>4, <1>5, <1>6, StaysWatched DEF MemInv

-----------------------------------------------------------------------------
\* The invariant and what follows from it.

Inv == Shape /\ PageInv /\ MemInv

LEMMA InitInv == Init => Inv
BY InitShape, InitPage, InitMem DEF Inv

LEMMA NextInv == Inv /\ [Next]_vars => Inv'
<1> SUFFICES ASSUME Inv, [Next]_vars PROVE Inv'
    OBVIOUS
<1> USE DEF Inv
<1>1. ASSUME NEW k \in Connectors, ConnStep(k)
      PROVE  Inv'
    BY <1>1, ConnTyped, ConnPage, ConnMem
<1>2. CASE ReserveBatch
    BY <1>2, ReserveBatchTyped, ReserveBatchPage, ReserveBatchMem
<1>3. ASSUME NEW s \in Sources, ProjectSource(s)
      PROVE  Inv'
    BY <1>3, ProjectTyped, ProjectPage, ProjectMem
<1>4. ASSUME NEW p \in Pages, WriteArtifact(p)
      PROVE  Inv'
    BY <1>4, WriteTyped, WritePage, WriteMem
<1>5. CASE MarkMemory
    BY <1>5, MarkTyped, MarkPage, MarkMem
<1>6. CASE SettleBatch
    BY <1>6, SettleTyped, SettlePage, SettleMem
<1>7. CASE FailSource
    BY <1>7, FailTyped, FailPage, FailMem
<1>8. \* A step of a dream leaves what PageInv is about.
      ASSUME UNCHANGED <<raw, index, warned, conn, proj, run, page>>
      PROVE  PageInv'
    <2>1. \A p \in Pages : \A content : Current(p, content)' <=> Current(p, content)
        BY <1>8 DEF Current, Waits, OwesMark, InRaw
    <2>2. QED
        BY <1>8, <2>1 DEF PageInv, Planned, BatchHeld, Built, Kept, Rebuilt, Busy
<1>9. ASSUME NEW d \in Dreams, StartDream(d)
      PROVE  Inv'
    <2>1. UNCHANGED <<raw, index, warned, conn, proj, run, page>>
        BY <1>9 DEF StartDream, connVars, runVars
    <2>2. Shape'
        BY <1>9, StartTyped
    <2>3. MemInv'
        BY <1>9, StartMem
    <2>4. QED
        BY <1>8, <2>1, <2>2, <2>3
<1>10. ASSUME NEW d \in Dreams, FailDream(d) \/ \E R \in SUBSET Pages : FinishDream(d, R)
       PROVE  Inv'
    <2>1. PICK R : DreamEnds(d, R)
        BY <1>10, EndTyped
    <2>2. Shape'
        BY <1>10, EndTyped
    <2>3. UNCHANGED <<raw, index, warned, conn, proj, run, page>>
        BY <2>1 DEF DreamEnds
    <2>4. MemInv'
        BY <2>1, EndMem
    <2>5. QED
        BY <1>8, <2>2, <2>3, <2>4
<1>11. CASE HalfAnHourPasses
    BY <1>11, AgeTyped, AgePage, AgeMem
<1>12. CASE Crash
    BY <1>12, CrashTyped, CrashPage, CrashMem
<1>13. CASE UNCHANGED vars
    <2>1. /\ UNCHANGED <<raw, index, warned, conn, observed, proj, run, page, written>>
          /\ UNCHANGED <<mem, dream, dreamt, faults>>
        BY <1>13 DEF vars
    <2>2. Shape'
        BY <2>1 DEF Shape, ConnShape, RunShape, DreamShape, Busy
    <2>3. MemInv'
        <3>1. (\A p \in Pages : Safe(p) => Safe(p)') /\ Clock'
            BY <2>1, QueueKeepsMem DEF MemInv
        <3>2. QED
            BY <2>1, <3>1, DreamStepMem
    <2>4. QED
        BY <1>8, <2>1, <2>2, <2>3
<1>14. QED
    BY <1>1, <1>2, <1>3, <1>4, <1>5, <1>6, <1>7, <1>9, <1>10, <1>11, <1>12, <1>13
    DEF Next, RunnerStep, ConnStep

LEMMA Invariance == Spec => []Inv
BY InitInv, NextInv, PTL DEF Spec

\* The state has its shape: a runner or a dream holds sources only while it runs, and the
\* page that is being marked is among those that were built.
THEOREM TypeCorrect == Spec => []TypeOK
<1>1. Inv => TypeOK
    BY ShapeTypeOK DEF Inv
<1>2. QED
    BY Invariance, <1>1, PTL

LEMMA InvPage == Inv => PageAttended
<1> SUFFICES ASSUME Inv, NEW p \in Pages
             PROVE  \/ Covers(page[p], InRaw(p)) \/ raw[p] = 0
                    \/ \E s \in {p, ContactOf[p]} :
                          \/ s \in Queued(proj) \/ s \in warned
                          \/ \E k \in Connectors : Owes(k, s)
    BY DEF PageAttended
<1>1. CASE Current(p, page[p])
    BY <1>1 DEF Current, Waits, OwesMark, Owes, Queued
<1>2. CASE \E s \in {p, ContactOf[p]} : s \in DOMAIN proj.processing \ run.done
    BY <1>2 DEF Queued
<1>3. QED
    BY <1>1, <1>2 DEF Inv, PageInv, Kept

\* Nothing a connector stored is forgotten on its way to the pages
\* (integrationingest.MaterializingWriter, SourceProjectionRunner): an outdated page has a
\* source in the projection queue or a connector that has yet to mark one, or the log tells
\* of the mark that failed, through marks that meet a running projection, failures and crashes.
THEOREM PagesAttended == Spec => []PageAttended
BY Invariance, InvPage, PTL

LEMMA InvDream == Inv => DreamAttended
<1> SUFFICES ASSUME Inv, NEW p \in Pages
             PROVE  \/ Covers(dreamt[p], page[p])
                    \/ p \in Queued(mem)
                    \/ \E s \in {p, ContactOf[p]} : s \in Queued(proj)
    BY DEF DreamAttended
<1>1. CASE Safe(p)
    BY <1>1 DEF Safe, Seen
<1>2. CASE p \in Unsettled \/ (p \in index /\ ContactOf[p] \in Unsettled)
    BY <1>2 DEF Unsettled, Queued
<1>3. QED
    BY <1>1, <1>2 DEF Inv, MemInv, Watched

\* Nothing that was written is forgotten on its way to the dreams (SourceWriter,
\* memorydream.Runner): a page no finished dream read as it is waits in the memory queue,
\* or a source that writes it is not settled; any number of dreams may have gone stale and
\* settle reservations that others took over.
THEOREM DreamsAttended == Spec => []DreamAttended
BY Invariance, InvDream, PTL
=============================================================================
