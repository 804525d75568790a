------------------------------ MODULE Terminal ------------------------------
(***************************************************************************)
(* The terminal's state and its event loop (src/src/ui/mod.rs, state.rs,   *)
(* marking.rs, nav.rs).  One task looks at the engine's metadata, draws,   *)
(* takes one event (of the engine, of enrichment, of the running cleanup,  *)
(* a key or a tick), and then does what the event asked for.  The engine   *)
(* (EngineFeed), enrichment and the cleanup run beside it.                 *)
(*                                                                         *)
(* Abstracted: of a finding, a tree or a set of footprints it is kept      *)
(* which run it is of and whether it has been correlated; the steps of a   *)
(* cleanup are in CleanupBatch.  Progress, the layout, the navigation and  *)
(* quitting are left out.                                                  *)
(***************************************************************************)
EXTENDS EngineFeed

\* More faults: "memory" (refused to what is retained), "start" (start_run
\* refuses the root), "fake" (fake mode refuses cleanups).
CONSTANTS
  Correlated,    \* the sections whose rows are correlated
  Keys,          \* what the user does: "cancel", "rescan", "cleanup"
  Online         \* is there enrichment?

ASSUME TerminalAssumption ==
  Correlated \subseteq Sections /\ Online \in BOOLEAN /\ MaxRuns > 0

VARIABLES
  app,       \* AppState
  loop,      \* where the loop is, and its locals
  seen,      \* the metadata it looked at, until it has judged it
  enrich,    \* per run: the rows that enrichment has yet to ship, or Nothing
  batch,     \* the cleanup task
  exec,      \* what it has told the loop
  stale      \* history: a cleanup ran since the shown run was begun

feed == <<engine, inbound>>
vars == <<feed, app, loop, seen, enrich, batch, exec, stale>>

-----------------------------------------------------------------------------
(* Values.                                                                 *)

Statuses == {"Scanning", "Done", "Failed"}
Over(st) == st \in {"Done", "Failed"}

\* What is retained of an item.
Retained(g, isLabelled) == [run |-> g, labelled |-> isLabelled]

\* What is told apart in a variable of its own: Nothing is nothing else.
ASSUME NothingAssumption ==
  /\ Nothing \notin [run : Runs, labelled : BOOLEAN]
  /\ Nothing \notin {"cancel", "rescan", "execute"}

\* begin_scan: what was shown, marked or asked for is gone; only an overlay
\* of a cleanup stays.
Begun(g, mode) ==
  [run |-> g, item |-> [i \in Items |-> Nothing],
   status |-> [s \in Sections |-> "Scanning"], cancelled |-> FALSE,
   limit |-> FALSE, mode |-> IF mode = "confirm" THEN "normal" ELSE mode]

CorrelatedRows(ss) ==
  {f \in Findings : SectionOf[f] \in Correlated /\ ss.item[f] # Nothing}

-----------------------------------------------------------------------------
(* The reducer.                                                            *)

\* retain_finding of the items kept, result_resource_limit for the others.
Upserted(ss, g, kept, refused, isLabelled) ==
  LET secs == {s \in Sections : refused \cap ItemsOf(s) # {}}
  IN  [ss EXCEPT
         !.item = [i \in Items |-> IF i \in kept THEN Retained(g, isLabelled) ELSE @[i]],
         !.limit = @ \/ refused # {},
         !.status = [s \in Sections |-> IF s \in secs THEN "Failed" ELSE @[s]]]

\* Trees come with their memory.
Retainable(items) ==
  IF "memory" \in Faults
    THEN {kept \in SUBSET items : items \cap Trees \subseteq kept} ELSE {items}

\* Mistaken variant: events of any run are applied.
ExpectedAny(ss, g) == TRUE

Expected(ss, g) == g = ss.run

\* apply: what becomes of an event.
Applied(ss, ev) ==
  CASE ~Expected(ss, ev.gen) \/ (ss.cancelled /\ IsEnd(ev) /\ ev.ok) -> {ss}
    [] Expected(ss, ev.gen) /\ IsEnd(ev) /\ (ev.ok => ~ss.cancelled) ->
         {[ss EXCEPT !.status[ev.sec] = IF ev.ok THEN "Done" ELSE "Failed"]}
    [] Expected(ss, ev.gen) /\ ~IsEnd(ev) ->
         {Upserted(ss, ev.gen, kept, {ev.item} \ kept, FALSE) :
            kept \in Retainable({ev.item})}

\* apply_enriched.
Enriched(ss, g, rows) ==
  IF ss.cancelled \/ ~Expected(ss, g)
    THEN {ss}
    ELSE {Upserted(ss, g, kept, rows \ kept, TRUE) : kept \in Retainable(rows)}

\* cancel_scan; a limit that was asked for has been taken.
Cancelled(ss) ==
  [ss EXCEPT !.cancelled = TRUE, !.limit = FALSE,
             !.status = [s \in Sections |-> IF Over(@[s]) THEN @[s] ELSE "Failed"]]

\* The context of a section has its verdict.
Settled(e, s) ==
  e.stopped \/ (IF s \in Trees THEN s \in Ended(e) ELSE Ended(e) = Sections)

\* reconcile_run.
Reconciled(ss, e) ==
  IF e.alive # {} \/ e.run # ss.run
    THEN ss
    ELSE [ss EXCEPT
            !.cancelled = @ \/ e.reason,
            !.status = [s \in Sections |->
              CASE Over(@[s]) \/ ~Settled(e, s) -> @[s]
                [] ~Over(@[s]) /\ Settled(e, s) ->
                     IF s \in e.completed \ e.failed THEN "Done" ELSE "Failed"]]

-----------------------------------------------------------------------------
(* The loop, before it takes an event.                                     *)

At(from, to) == loop.at = from /\ loop' = [loop EXCEPT !.at = to]

Look ==
  /\ At("look", "judge")
  /\ seen' = engine
  /\ UNCHANGED <<feed, app, enrich, batch, exec, stale>>

\* Mistaken variant: whatever is still in the channel.
QuietAlways == TRUE

Quiet == chan = <<>>

Judge ==
  /\ At("judge", "select")
  /\ app' = IF Quiet THEN Reconciled(app, seen) ELSE app
  /\ seen' = Nothing
  /\ UNCHANGED <<feed, enrich, batch, exec, stale>>

-----------------------------------------------------------------------------
(* One event.                                                              *)

Receive ==
  /\ At("select", "correlate") /\ chan # <<>>
  /\ chan' = Tail(chan)
  /\ app' \in Applied(app, Head(chan))
  /\ UNCHANGED <<engine, queue, held, late, seen, enrich, batch, exec, stale>>

\* Enrichment ships the rows it touched, also after a cancellation; how long
\* it fetches and how long its message waits come to the same.
ReceiveEnriched(g) ==
  /\ At("select", "correlate") /\ enrich[g] # Nothing
  /\ enrich' = [enrich EXCEPT ![g] = Nothing]
  /\ \E rows \in SUBSET enrich[g] : app' \in Enriched(app, g, rows)
  /\ UNCHANGED <<feed, seen, batch, exec, stale>>

\* Mistaken variant: only the last event says whether anything changed.
ChangedLast(ev) == ev = "executed"

Changed(ev) == loop.changed \/ ev = "executed"

\* A cleanup that is over asks for a rescan.
ReceiveExec ==
  /\ loop.at = "select" /\ exec # <<>>
  /\ exec' = Tail(exec)
  /\ IF Head(exec) = "finished"
       THEN /\ loop' = [loop EXCEPT
                 !.at = "correlate", !.cleaning = FALSE, !.changed = FALSE,
                 !.asked = IF Changed(Head(exec)) THEN "rescan" ELSE @]
            /\ app' = [app EXCEPT !.mode = "report"]
       ELSE /\ loop' = [loop EXCEPT !.at = "correlate", !.changed = Changed(Head(exec))]
            /\ UNCHANGED app
  /\ UNCHANGED <<feed, seen, enrich, batch, stale>>

Asks(what) == loop' = [loop EXCEPT !.at = "correlate", !.asked = what]

\* MaxRuns bounds the runs that keys ask for.
MoreRuns == engine.run < MaxRuns

\* handle: S, r, x, y, and what leaves an overlay.
Key ==
  /\ loop.at = "select"
  /\ \/ /\ "cancel" \in Keys /\ app.mode = "normal"
        /\ Asks("cancel") /\ UNCHANGED app
     \/ /\ "rescan" \in Keys /\ app.mode = "normal" /\ MoreRuns
        /\ Asks("rescan") /\ UNCHANGED app
     \/ /\ "cleanup" \in Keys /\ app.mode = "normal" /\ MoreRuns
        /\ \E f \in Findings : app.item[f] # Nothing
        /\ Asks(Nothing) /\ app' = [app EXCEPT !.mode = "confirm"]
     \/ /\ app.mode = "confirm"
        /\ Asks("execute") /\ app' = [app EXCEPT !.mode = "cleanup"]
     \/ /\ app.mode \in {"confirm", "report"}
        /\ Asks(Nothing) /\ app' = [app EXCEPT !.mode = "normal"]
  /\ UNCHANGED <<feed, seen, enrich, batch, exec, stale>>

Tick ==
  /\ At("select", "correlate")
  /\ UNCHANGED <<feed, app, seen, enrich, batch, exec, stale>>

-----------------------------------------------------------------------------
(* What the event asked for.                                               *)

\* Mistaken variant: correlation does not wait for its sections.
CorrelationDueEarly == ~loop.correlated /\ ~engine.stopped

CorrelationDue ==
  ~loop.correlated /\ ~engine.stopped /\ \A s \in Correlated : Over(app.status[s])

Correlate ==
  /\ loop.at = "correlate"
  /\ IF CorrelationDue
       THEN LET rows == CorrelatedRows(app)
            IN  /\ \E kept \in Retainable(rows) :
                     app' = Upserted(app, app.run, kept, rows \ kept, TRUE)
                /\ enrich' = IF Online
                               THEN [enrich EXCEPT ![app.run] = rows] ELSE enrich
                /\ loop' = [loop EXCEPT !.at = "stop", !.correlated = TRUE]
       ELSE loop' = [loop EXCEPT !.at = "stop"] /\ UNCHANGED <<app, enrich>>
  /\ UNCHANGED <<feed, seen, batch, exec, stale>>

\* pending_cancel_scan and pending_resource_limit; a rescan or an execution
\* comes after.
StopScan ==
  /\ loop.at = "stop"
  /\ loop' = IF loop.asked \in {"rescan", "execute"}
               THEN [loop EXCEPT !.at = "begin"]
               ELSE [loop EXCEPT !.at = "look", !.asked = Nothing]
  /\ IF app.limit \/ loop.asked = "cancel"
       THEN /\ engine' = IF app.limit THEN Halted(engine) ELSE CalledOff(engine)
            /\ app' = Cancelled(app)
       ELSE UNCHANGED <<engine, app>>
  /\ UNCHANGED <<inbound, seen, enrich, batch, exec, stale>>

Answered == loop' = [loop EXCEPT !.at = "look", !.asked = Nothing]

\* pending_rescan and pending_root.
Rescan ==
  /\ loop.at = "begin" /\ loop.asked = "rescan" /\ ~loop.cleaning
  /\ \/ /\ Supersede(engine.run + 1)
        /\ app' = Begun(engine.run + 1, app.mode)
        /\ loop' = [loop EXCEPT !.at = "look", !.asked = Nothing, !.correlated = FALSE]
        /\ UNCHANGED chan
     \/ /\ "start" \in Faults
        /\ Answered
        /\ UNCHANGED <<feed, app>>
  /\ stale' = FALSE
  /\ UNCHANGED <<seen, enrich, batch, exec>>

\* pending_execute: fake mode refuses.
Execute ==
  /\ loop.at = "begin" /\ loop.asked = "execute"
  /\ \/ /\ batch' = "running"
        /\ loop' = [loop EXCEPT !.at = "look", !.asked = Nothing,
                                !.cleaning = TRUE, !.changed = FALSE]
        /\ UNCHANGED app
     \/ /\ "fake" \in Faults
        /\ app' = [app EXCEPT !.mode = "report"]
        /\ Answered
        /\ UNCHANGED batch
  /\ UNCHANGED <<feed, seen, enrich, exec, stale>>

-----------------------------------------------------------------------------
(* Beside the loop.                                                        *)

LoopOnly == UNCHANGED <<app, loop, seen, enrich, batch, exec, stale>>

Work(s) == Send(s) /\ LoopOnly
Forward == Record /\ LoopOnly
Publish == Deliver /\ LoopOnly
PublishLate == DeliverLate /\ LoopOnly

\* run_confirmed_batch: it may execute, says that it has, and finishes.
BatchExecutes ==
  /\ batch = "running"
  /\ batch' = "executed"
  /\ exec' = Append(exec, "executed")
  /\ stale' \in {TRUE, stale}
  /\ UNCHANGED <<feed, app, loop, seen, enrich>>

BatchFinishes ==
  /\ batch = "executed"
  /\ batch' = "none"
  /\ exec' = Append(exec, "finished")
  /\ UNCHANGED <<feed, app, loop, seen, enrich, stale>>

-----------------------------------------------------------------------------
\* A full scan starts before the loop.
Init ==
  /\ FeedInit(NewEngine(1))
  /\ app = Begun(1, "normal")
  /\ loop = [at |-> "look", asked |-> Nothing, correlated |-> FALSE,
             cleaning |-> FALSE, changed |-> FALSE]
  /\ seen = Nothing
  /\ enrich = [g \in Runs |-> Nothing]
  /\ batch = "none" /\ exec = <<>> /\ stale = FALSE

EngineSteps ==
  (\E s \in Sections : Work(s)) \/ Forward \/ Publish \/ PublishLate
SelectSteps ==
  Receive \/ (\E g \in Runs : ReceiveEnriched(g)) \/ ReceiveExec \/ Key \/ Tick
ServeSteps == Correlate \/ StopScan \/ Rescan \/ Execute
TaskSteps == BatchExecutes \/ BatchFinishes

Next == EngineSteps \/ Look \/ Judge \/ SelectSteps \/ ServeSteps \/ TaskSteps

Spec == Init /\ [][Next]_vars

\* The loop ticks; select! takes a ready branch at random, so that none is
\* passed over for ever.
FairSpec ==
  /\ Spec
  /\ \A s \in Sections : WF_vars(Work(s))
  /\ WF_vars(Forward) /\ WF_vars(Publish) /\ WF_vars(PublishLate)
  /\ WF_vars(Look) /\ WF_vars(Judge) /\ WF_vars(Tick) /\ WF_vars(ServeSteps)
  /\ SF_vars(Receive)

-----------------------------------------------------------------------------
(* Properties.                                                             *)

\* Types; and what is shown, by a scan, by correlation or by enrichment, is
\* of the run that the engine is at.
TypeOK ==
  /\ app.run = engine.run /\ engine.run \in Runs
  /\ app.item \in [Items -> {Nothing} \cup [run : {app.run}, labelled : BOOLEAN]]
  /\ app.status \in [Sections -> Statuses]
  /\ app.mode \in {"normal", "confirm", "cleanup", "report"}
  /\ loop.asked \in {Nothing, "cancel", "rescan", "execute"}
  /\ loop.at \in {"look", "judge", "select", "correlate", "stop", "begin"}
  /\ loop.cleaning = (app.mode = "cleanup" /\ loop.asked # "execute")
  /\ Len(chan) <= ChannelCap

\* In a run that nobody stopped, a section shown as done shows everything it
\* sent, although its end may be known from the metadata first.
DoneIsWhole ==
  ~engine.stopped =>
    \A s \in Sections : app.status[s] = "Done" =>
      \A i \in ItemsOf(s) : i \notin engine.todo /\ app.item[i] # Nothing

\* Whenever the user may mark and confirm again, what is shown was scanned
\* after the last cleanup, or the scan was refused.
CleanedIsRescanned ==
  loop.at = "select" /\ app.mode # "cleanup" => ~stale

\* In the end every section is over, and in a run that nobody stopped the
\* sections shown as done are those that completed and all their rows are
\* correlated.
ShownAsItIs ==
  /\ \A s \in Sections : Over(app.status[s])
  /\ ~engine.stopped =>
       /\ \A s \in Sections : (app.status[s] = "Done") = (s \in engine.completed)
       /\ \A f \in CorrelatedRows(app) : app.item[f].labelled
Settles == <>[]ShownAsItIs
=============================================================================
