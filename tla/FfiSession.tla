----------------------------- MODULE FfiSession -----------------------------
(***************************************************************************)
(* The session behind the UniFFI interface                                 *)
(* (src/crates/macaudit-ffi/src/session.rs and lib.rs).  A pump takes the  *)
(* engine's events into the session and its caches; a dispatch thread      *)
(* tells the listener what changed; correlation and enrichment rewrite     *)
(* rows afterwards; clients start and cancel runs, read pages, plan and    *)
(* execute cleanup batches.                                                *)
(*                                                                         *)
(* Two locks matter.  The session mutex makes each step below atomic.  The *)
(* run gate is held over several of them, and is a variable.               *)
(*                                                                         *)
(* Abstracted: the engine is EngineFeed; a row is the revision it was last *)
(* written at; a directory tree or a set of footprints is its version.     *)
(***************************************************************************)
EXTENDS EngineFeed

\* More faults, all of them refused memory: "memory" for rows, "publish" for
\* what a listener is told, "correlate", "cache" for footprints.
CONSTANTS
  Correlated,    \* the sections whose rows are correlated
  Clients,       \* what clients do: "cancel", "cleanup", "pages"
  Online,        \* is there enrichment?
  FlushThreshold

ASSUME SessionAssumption ==
  /\ Correlated \subseteq Sections
  /\ Online \in BOOLEAN
  /\ FlushThreshold \in Nat \ {0}

VARIABLES
  session,   \* the Session
  cache,     \* dir_trees and footprints: run and version of each
  gate,      \* who holds run_gate over several steps
  pump,      \* what the pump has in hand, and where it is
  wanted,    \* the publish channel, of one place
  dispatch,  \* the dispatch thread and what it remembers
  told,      \* what the listener has been told of its run
  enrich,    \* per run: the enrichment task
  client,    \* the call in progress
  batch,     \* the run of the plan being executed, or Nothing
  labelled   \* history: rows not scanned again since they were correlated

outbound == <<wanted, dispatch, told>>
callers == <<client, batch>>
vars == <<engine, inbound, session, cache, gate, pump, outbound, enrich,
          callers, labelled>>

-----------------------------------------------------------------------------
(* Values.                                                                 *)

Statuses == {"Idle", "Scanning", "Done", "Failed"}
Over(st) == st \in {"Done", "Failed"}

NoRows == [f \in Findings |-> 0]
NoVersions == [c \in Caches |-> 0]

\* Session::default.
NewSession ==
  [run |-> 0, revision |-> 0, queryRevision |-> 0, row |-> NoRows,
   inventory |-> NoVersions, cancelled |-> FALSE, limited |-> {},
   status |-> [s \in Sections |-> "Idle"], correlated |-> FALSE]

\* begin_scan: every run is of all sections.
Begun(g) ==
  [NewSession EXCEPT !.run = g, !.status = [s \in Sections |-> "Scanning"]]

Present(rows) == {f \in Findings : rows[f] # 0}

-----------------------------------------------------------------------------
(* The session's methods.                                                  *)

\* upsert of the rows kept, in the order of their ids.
Upserted(ss, kept) ==
  [ss EXCEPT
     !.revision = @ + Cardinality(kept),
     !.queryRevision = @ + Cardinality(kept),
     !.row = [f \in Findings |->
                IF f \in kept
                  THEN ss.revision + Cardinality({g \in kept : g <= f})
                  ELSE @[f]]]

Limited(ss, secs) ==
  [ss EXCEPT !.limited = @ \cup secs,
             !.status = [s \in Sections |-> IF s \in secs THEN "Failed" ELSE @[s]]]

\* upsert, with the rows there is no memory for.
Retained(ss, kept, refused) ==
  Limited(Upserted(ss, kept), {SectionOf[f] : f \in refused})

\* The subsets of rows that are retained.
Retainable(rows) == IF "memory" \in Faults THEN SUBSET rows ELSE {rows}

\* Mistaken variant: events of any run are accepted.
AcceptsAnyRun(ss, ev) ==
  /\ ss.run # 0
  /\ ss.cancelled => ~IsEnd(ev)

\* The early returns of apply.
Accepts(ss, ev) ==
  /\ ss.run = ev.gen
  /\ ss.cancelled => ~IsEnd(ev)

\* What apply makes of an accepted event: the sessions it can lead to.
Applied(ss, ev) ==
  CASE ev.sec \in ss.limited -> {ss}
    [] ev.sec \notin ss.limited /\ IsEnd(ev) ->
         {[ss EXCEPT !.status[ev.sec] = IF ev.ok THEN "Done" ELSE "Failed"]}
    [] ev.sec \notin ss.limited /\ ev.item \in Findings ->
         {Retained(ss, kept, {ev.item} \ kept) : kept \in Retainable({ev.item})}
    [] ev.sec \notin ss.limited /\ ev.item \in Caches ->
         {[ss EXCEPT !.queryRevision = @ + 1, !.inventory[ev.item] = @ + 1]}

\* Session::cancel.
Cancelled(ss) ==
  [ss EXCEPT !.cancelled = TRUE,
             !.status = [s \in Sections |->
                           IF @[s] = "Scanning" THEN "Failed" ELSE @[s]]]

\* Mistaken variant: only what the engine recorded as completed is settled.
ReconciledDone(ss, e) ==
  IF e.run = ss.run /\ ss.run # 0 /\ e.alive = {} /\ e.reason
    THEN [ss EXCEPT !.cancelled = TRUE,
            !.status = [s \in Sections |->
               IF ~Over(@[s]) /\ s \in e.completed THEN "Done" ELSE @[s]]]
    ELSE ss

\* reconcile_retired: a run without workers and with a reason to have
\* stopped settles its sections.
Reconciled(ss, e) ==
  IF e.run = ss.run /\ ss.run # 0 /\ e.alive = {} /\ e.reason
    THEN [ss EXCEPT !.cancelled = TRUE,
            !.status = [s \in Sections |->
               CASE Over(@[s]) -> @[s]
                 [] ~Over(@[s]) /\ s \in e.completed -> "Done"
                 [] ~Over(@[s]) /\ s \notin e.completed -> "Failed"]]
    ELSE ss

\* changes: the next rows after a revision, at most FlushThreshold.
Changes(ss, after) ==
  LET newer == {f \in Findings : ss.row[f] > after}
  IN  {f \in newer :
         Cardinality({g \in newer : ss.row[g] <= ss.row[f]}) <= FlushThreshold}

-----------------------------------------------------------------------------
(* The engine.                                                             *)

EngineOnly ==
  UNCHANGED <<session, cache, gate, pump, outbound, enrich, callers, labelled>>

Work(s) == Send(s) /\ EngineOnly
Forward == Record /\ EngineOnly
Publish == Deliver /\ EngineOnly
PublishLate == DeliverLate /\ EngineOnly

-----------------------------------------------------------------------------
(* The pump.                                                               *)

Idle == [at |-> "idle", ev |-> Nothing]
GateFree == gate = "free"

\* Mistaken variant: the gate is let go before the caches are written.
HoldingNothing(ev) == "free"

\* Where the gate is once an event is applied.
Holding(ev) == IF ev.item \in Caches THEN "pump" ELSE "free"

PumpTake ==
  /\ pump.at = "idle" /\ chan # <<>> /\ GateFree
  /\ chan' = Tail(chan)
  /\ LET ev == Head(chan)
     IN IF ~Accepts(session, ev)
          THEN UNCHANGED <<engine, session, gate, pump, labelled>>
          ELSE /\ session' \in Applied(session, ev)
               /\ engine' = IF session.limited = {} /\ session'.limited # {}
                              THEN Halted(engine) ELSE engine
               /\ gate' = Holding(ev)
               /\ pump' = CASE ev.item \in Caches -> [at |-> "store", ev |-> ev]
                            [] IsEnd(ev) -> [at |-> "ended", ev |-> Nothing]
                            [] ev.item \in Findings -> Idle
               /\ labelled' = IF session'.revision # session.revision
                                THEN labelled \ {ev.item} ELSE labelled
  /\ UNCHANGED <<queue, held, late, cache, outbound, enrich, callers>>

\* The tree or the footprints go to their cache; there may be no memory for
\* footprints.
PumpStore ==
  /\ pump.at = "store"
  /\ pump' = Idle /\ gate' = "free"
  /\ LET c == pump.ev.item
     IN \/ /\ cache' = [cache EXCEPT ![c] =
                          [run |-> pump.ev.gen,
                           version |-> IF @.run = pump.ev.gen THEN @.version + 1 ELSE 1]]
           /\ UNCHANGED <<engine, session, wanted>>
        \/ /\ "cache" \in Faults /\ c \notin Trees
           /\ session' = Limited(session, {c})
           /\ engine' = Halted(engine)
           /\ wanted' = TRUE
           /\ UNCHANGED cache
  /\ UNCHANGED <<inbound, dispatch, told, enrich, callers, labelled>>

CorrelatedRows == {f \in Present(session.row) : SectionOf[f] \in Correlated}

\* Mistaken variant: any section that ended is enough.
CorrelationDueEarly == session.run # 0 /\ ~session.correlated

CorrelationDue ==
  /\ session.run # 0 /\ ~session.correlated
  /\ \A s \in Correlated : Over(session.status[s])

\* after_terminal: correlation, once per run, and then enrichment.
PumpAfter ==
  /\ pump.at = "ended" /\ GateFree
  /\ pump' = Idle /\ wanted' = TRUE
  /\ IF ~CorrelationDue
       THEN UNCHANGED <<engine, session, enrich, labelled>>
       ELSE \/ /\ "correlate" \in Faults
               /\ session' = [Limited(session, Correlated) EXCEPT !.correlated = TRUE]
               /\ engine' = Halted(engine)
               /\ UNCHANGED <<enrich, labelled>>
            \/ \E kept \in Retainable(CorrelatedRows) :
                 /\ session' = [Retained(session, kept, CorrelatedRows \ kept)
                                  EXCEPT !.correlated = TRUE]
                 /\ labelled' = labelled \cup kept
                 /\ enrich' = IF Online
                                THEN [enrich EXCEPT ![session.run] =
                                        [at |-> "fetching", rows |-> CorrelatedRows]]
                                ELSE enrich
                 /\ UNCHANGED engine
  /\ UNCHANGED <<inbound, cache, gate, dispatch, told, callers>>

\* Every 100 ms; the pump does one thing at a time.
Tick ==
  /\ pump.at = "idle"
  /\ session' = Reconciled(session, engine)
  /\ wanted' = TRUE
  /\ UNCHANGED <<engine, inbound, cache, gate, pump, dispatch, told, enrich,
                 callers, labelled>>

-----------------------------------------------------------------------------
(* Enrichment, a task without the gate.                                    *)

NoTask == [at |-> "none", rows |-> {}]

EnrichLook(g) ==
  /\ enrich[g].at = "fetching"
  /\ enrich' = [enrich EXCEPT ![g] = IF engine.run # g \/ engine.stopped
                                       THEN NoTask ELSE [@ EXCEPT !.at = "fetched"]]
  /\ UNCHANGED <<engine, inbound, session, cache, gate, pump, outbound, callers,
                 labelled>>

StillWanted(g) == session.run = g /\ ~session.cancelled

EnrichApply(g) ==
  /\ enrich[g].at = "fetched"
  /\ enrich' = [enrich EXCEPT ![g] = NoTask]
  /\ IF ~StillWanted(g)
       THEN UNCHANGED <<session, wanted>>
       ELSE \E touched \in SUBSET enrich[g].rows :
              /\ \E kept \in Retainable(touched) :
                   session' = Retained(session, kept, touched \ kept)
              /\ wanted' = (wanted \/ touched # {})
  /\ UNCHANGED <<engine, inbound, cache, gate, pump, dispatch, told, callers,
                 labelled>>

-----------------------------------------------------------------------------
(* The dispatch thread.  A listener heeds only the run it was last told to *)
(* start.                                                                  *)

Asleep == [at |-> "idle", run |-> 0, revision |-> 0, rows |-> NoRows,
           status |-> [s \in Sections |-> "Idle"],
           inventory |-> NoVersions, sampled |-> 0]

Silence == [run |-> 0, row |-> NoRows, status |-> [s \in Sections |-> "Idle"],
            inventory |-> NoVersions, upTo |-> [s \in Sections |-> 0]]

DispatchOnly == UNCHANGED <<engine, inbound, session, cache, gate, pump, enrich,
                            callers, labelled>>

Wake ==
  /\ wanted /\ dispatch.at = "idle"
  /\ wanted' = FALSE
  /\ dispatch' = IF session.run = dispatch.run
                   THEN [dispatch EXCEPT !.at = "rows"]
                   ELSE [Asleep EXCEPT !.at = "begin", !.run = session.run,
                           !.status = [s \in Sections |-> "Scanning"]]
  /\ UNCHANGED told
  /\ DispatchOnly

\* emit looks at the run before it calls.
Heeded == session.run = dispatch.run

TellBegin ==
  /\ dispatch.at = "begin"
  /\ told' = IF Heeded
               THEN [Silence EXCEPT !.run = dispatch.run, !.status = dispatch.status]
               ELSE told
  /\ dispatch' = [dispatch EXCEPT !.at = "rows"]
  /\ UNCHANGED wanted
  /\ DispatchOnly

ReadRows ==
  /\ dispatch.at = "rows"
  /\ LET next == Changes(session, dispatch.revision)
     IN \/ /\ ~Heeded
           /\ dispatch' = [dispatch EXCEPT !.at = "idle"]
        \/ \E n \in {dispatch.revision} \cup {session.row[f] : f \in next} :
             /\ Heeded /\ \A f \in next : session.row[f] <= n
             /\ dispatch' = [dispatch EXCEPT
                  !.at = IF next = {} THEN "state" ELSE "tellRows", !.revision = n,
                  !.rows = [f \in Findings |-> IF f \in next THEN session.row[f] ELSE 0]]
        \/ /\ Heeded /\ "publish" \in Faults /\ next # {}
           /\ dispatch' = [dispatch EXCEPT !.at = "starved"]
  /\ UNCHANGED <<wanted, told>>
  /\ DispatchOnly

TellRows ==
  /\ dispatch.at = "tellRows"
  /\ told' = IF Heeded
               THEN [told EXCEPT !.row = [f \in Findings |->
                       IF dispatch.rows[f] = 0 THEN @[f] ELSE dispatch.rows[f]]]
               ELSE told
  /\ dispatch' = [dispatch EXCEPT !.at = "state", !.rows = NoRows]
  /\ UNCHANGED wanted
  /\ DispatchOnly

\* No memory to publish from: the listener is told of a limit instead.
Starve ==
  /\ dispatch.at = "starved" /\ GateFree
  /\ IF Heeded
       THEN /\ dispatch' = [dispatch EXCEPT !.at = "state", !.revision = session.revision]
            /\ session' = Limited(session, Sections)
            /\ engine' = Halted(engine)
       ELSE /\ dispatch' = [dispatch EXCEPT !.at = "state"]
            /\ UNCHANGED <<session, engine>>
  /\ UNCHANGED <<inbound, cache, gate, pump, wanted, told, enrich, callers, labelled>>

\* Mistaken variant: endings do not wait for rows.
CaughtUpAlways == TRUE

CaughtUp == session.revision <= dispatch.revision

ReadState ==
  /\ dispatch.at = "state"
  /\ dispatch' =
       IF ~Heeded
         THEN [dispatch EXCEPT !.at = "idle"]
         ELSE [dispatch EXCEPT
                 !.at = "tellState", !.sampled = session.revision,
                 !.inventory = session.inventory,
                 !.status = IF CaughtUp THEN session.status ELSE @]
  /\ UNCHANGED <<wanted, told>>
  /\ DispatchOnly

TellState ==
  /\ dispatch.at = "tellState"
  /\ told' = IF Heeded
               THEN [told EXCEPT
                       !.status = dispatch.status, !.inventory = dispatch.inventory,
                       !.upTo = [s \in Sections |->
                          IF dispatch.status[s] # told.status[s]
                            THEN dispatch.sampled ELSE @[s]]]
               ELSE told
  /\ dispatch' = [dispatch EXCEPT !.at = "idle", !.sampled = 0]
  /\ UNCHANGED wanted
  /\ DispatchOnly

-----------------------------------------------------------------------------
(* Clients.  Their calls take the gate.                                    *)

\* Shared::start_run, by a caller that holds the gate.
Restart ==
  LET g == session.run + 1
  IN  /\ Supersede(g)
      /\ session' = Begun(g)
      /\ cache' = [c \in Caches |-> [run |-> 0, version |-> 0]]
      /\ wanted' = TRUE
      /\ labelled' = {}

StartRun ==
  /\ GateFree /\ batch = Nothing
  /\ Restart
  /\ UNCHANGED <<chan, gate, pump, dispatch, told, enrich, callers>>

CancelScan ==
  /\ "cancel" \in Clients /\ GateFree /\ session.run # 0
  /\ engine' = CalledOff(engine)
  /\ session' = Cancelled(session)
  /\ wanted' = TRUE
  /\ UNCHANGED <<inbound, cache, gate, pump, dispatch, told, enrich, callers, labelled>>

\* Mistaken variant: a continuation is compared by its revision only.
ContinuesRevision(cursor) == cursor.revision = session.queryRevision

Continues(cursor) ==
  cursor.run = session.run /\ cursor.revision = session.queryRevision

\* findings_page_for_run: the run and, for a continuation, the revision are
\* compared; the session is locked again for the rows.
AskPage ==
  /\ "pages" \in Clients /\ GateFree /\ client.at = "idle" /\ session.run # 0
  /\ session' = Reconciled(session, engine)
  /\ \/ client' = [client EXCEPT !.at = "page", !.cursor = Nothing] /\ gate' = "page"
     \/ /\ client.cursor # Nothing
        /\ IF Continues(client.cursor)
             THEN client' = [client EXCEPT !.at = "page"] /\ gate' = "page"
             ELSE client' = [client EXCEPT !.cursor = Nothing] /\ UNCHANGED gate
  /\ UNCHANGED <<engine, inbound, cache, pump, outbound, enrich, batch, labelled>>

GivePage ==
  /\ client.at = "page"
  /\ gate' = "free"
  /\ client' = [client EXCEPT !.at = "idle",
                  !.cursor = [run |-> session.run, revision |-> session.queryRevision,
                              rows |-> session.row]]
  /\ UNCHANGED <<engine, inbound, session, cache, pump, outbound, enrich, batch, labelled>>

\* plan: the findings are copied under the gate, the work is done without
\* it, and the run compared at the end.
PlanBegin ==
  /\ "cleanup" \in Clients /\ GateFree /\ client.at = "idle"
  /\ batch = Nothing /\ session.run # 0
  /\ client' = [client EXCEPT !.at = "planning", !.plan = session.run]
  /\ UNCHANGED <<engine, inbound, session, cache, gate, pump, outbound, enrich,
                 batch, labelled>>

\* Mistaken variant: what was true when planning began is enough.
PlanStandsAlways == TRUE

PlanStands == client.plan = session.run

PlanEnd ==
  /\ client.at = "planning" /\ GateFree
  /\ client' = [client EXCEPT !.at = "idle",
                  !.plan = IF PlanStands /\ batch = Nothing THEN @ ELSE 0]
  /\ UNCHANGED <<engine, inbound, session, cache, gate, pump, outbound, enrich,
                 batch, labelled>>

Execute ==
  /\ client.at = "idle" /\ client.plan # 0 /\ GateFree
  /\ batch = Nothing /\ PlanStands
  /\ batch' = client.plan
  /\ UNCHANGED <<engine, inbound, session, cache, gate, pump, outbound, enrich,
                 client, labelled>>

\* The batch is over: what it affected is scanned again before anyone else
\* has the gate.
BatchEnds ==
  /\ batch # Nothing
  /\ batch' = Nothing
  /\ \/ /\ GateFree /\ Restart
        /\ UNCHANGED <<chan, gate, pump, dispatch, told, enrich, client>>
     \/ UNCHANGED <<engine, inbound, session, cache, gate, pump, outbound, enrich,
                    client, labelled>>

-----------------------------------------------------------------------------
Init ==
  /\ FeedInit(NoEngine)
  /\ session = NewSession
  /\ cache = [c \in Caches |-> [run |-> 0, version |-> 0]]
  /\ gate = "free" /\ pump = Idle
  /\ wanted = FALSE /\ dispatch = Asleep /\ told = Silence
  /\ enrich = [g \in Runs |-> NoTask]
  /\ client = [at |-> "idle", cursor |-> Nothing, plan |-> 0]
  /\ batch = Nothing /\ labelled = {}

EngineSteps ==
  \/ \E s \in Sections : Work(s)
  \/ Forward \/ Publish \/ PublishLate

PumpSteps == PumpTake \/ PumpStore \/ PumpAfter \/ Tick
EnrichSteps == \E g \in Runs : EnrichLook(g) \/ EnrichApply(g)
DispatchSteps ==
  Wake \/ TellBegin \/ ReadRows \/ TellRows \/ Starve \/ ReadState \/ TellState
ClientSteps ==
  \/ StartRun \/ CancelScan \/ AskPage \/ GivePage
  \/ PlanBegin \/ PlanEnd \/ Execute \/ BatchEnds

Next == EngineSteps \/ PumpSteps \/ EnrichSteps \/ DispatchSteps \/ ClientSteps

Spec == Init /\ [][Next]_vars

FairSpec ==
  /\ Spec
  /\ \A s \in Sections : WF_vars(Work(s))
  /\ WF_vars(Forward) /\ WF_vars(Publish) /\ WF_vars(PublishLate)
  /\ WF_vars(PumpTake) /\ WF_vars(PumpStore) /\ WF_vars(PumpAfter) /\ WF_vars(Tick)
  /\ WF_vars(EnrichSteps) /\ WF_vars(DispatchSteps) /\ WF_vars(GivePage)

-----------------------------------------------------------------------------
(* Properties.                                                             *)

\* Types, and the bounds of the channels.
TypeOK ==
  /\ engine.run \in 0..MaxRuns /\ engine.todo \subseteq Items
  /\ engine.alive \cup engine.completed \cup engine.failed \subseteq Sections
  /\ {queue, held, late} \subseteq Events \cup {Nothing}
  /\ chan \in Seq(Events) /\ Len(chan) <= ChannelCap
  /\ session.run = engine.run
  /\ session.status \in [Sections -> Statuses]
  /\ session.row \in [Findings -> 0..session.revision]
  /\ session.revision <= session.queryRevision
  /\ gate \in {"free", "pump", "page"}
  /\ pump.at \in {"idle", "store", "ended"}
  /\ (gate = "pump") = (pump.at = "store") /\ (gate = "page") = (client.at = "page")
  /\ batch \in Runs \cup {Nothing} /\ labelled \subseteq Findings

\* A listener that was told that a section is done has been told of every
\* row the session then had of it, in its latest version.
FinishedAfterRows ==
  told.run = session.run =>
    \A f \in Findings :
      LET s == SectionOf[f]
      IN  told.status[s] = "Done" /\ session.row[f] <= told.upTo[s]
            => told.row[f] = session.row[f]

\* Trees and footprints are of the current run whenever a query may look.
CachesAreCurrent ==
  \A c \in Caches : GateFree => cache[c].run \in {0, session.run}

\* What was announced can be read, unless there was no memory to keep it.
AnnouncedIsServed ==
  told.run = session.run /\ GateFree =>
    \A c \in Caches \ session.limited : told.inventory[c] <= cache[c].version

\* Once nothing of a run that nobody stopped is left to come, its rows have
\* been correlated.
CorrelationComes ==
  session.run # 0 /\ ~engine.stopped /\ NothingToCome /\ pump.at = "idle"
    => session.correlated

\* In a run nobody stopped, correlation comes and leaves no row behind: none
\* of the sections it reads delivers a row after it.
CorrelatedWhole ==
  /\ CorrelationComes
  /\ session.correlated /\ session.limited = {} /\ ~session.cancelled /\ ~engine.stopped
       => CorrelatedRows \subseteq labelled

\* A batch is executed in the run it was planned in, and no other run starts
\* before it is over.
BatchOfTheRun == batch # Nothing => batch = session.run

\* A page is of the run of the cursor it continues, and where its rows are not
\* those that cursor's page was taken from it has another revision than the
\* cursor, whoever wrote rows while it was asked for and made.
PageTellsItsRevision ==
  [][client.at = "page" /\ client.cursor # Nothing
       => /\ client'.cursor.run = client.cursor.run
          /\ client'.cursor.rows # client.cursor.rows
               => client'.cursor.revision # client.cursor.revision]_client

\* The page fenced by run and revision: a continuation that is not refused
\* shows the rows the page it continues was taken from.
PageIsOfItsRevision ==
  [][client.at = "page" /\ client.cursor # Nothing
       => client'.cursor = client.cursor]_client

\* In the end every section is over and the listener knows what the session
\* has; of rows there was no memory to publish it knows of the failure.
InAgreement ==
  session.run # 0 =>
    /\ told.run = session.run
    /\ told.status = session.status /\ told.inventory = session.inventory
    /\ \A s \in Sections : Over(session.status[s])
    /\ session.limited = {} => told.row = session.row
Converges == <>[]InAgreement
=============================================================================
