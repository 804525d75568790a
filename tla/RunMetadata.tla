----------------------------- MODULE RunMetadata -----------------------------
(***************************************************************************)
(* What a run reports of itself: the metadata the engine keeps under its   *)
(* `active` lock (src/src/engine.rs, struct ActiveRun) and the functions   *)
(* that fold the events of the run into it.                                *)
(*                                                                         *)
(* A run has two contexts, the selected disk root and the audited host,    *)
(* and the host has a Home discovery of its own: a second walk of the Fs   *)
(* scanner, separate unless the selected root is the Home directory.       *)
(* Of a context the model keeps its completeness, the sections that ended  *)
(* and those stop reasons that are never taken back, Cancelled and         *)
(* ResourceLimited.  The other coverage flags, the ScannerFailed reasons   *)
(* and the wording of errors only inform the reader and are left out.      *)
(***************************************************************************)
EXTENDS Integers, FiniteSets

CONSTANTS
  Sections,   \* the registered sections
  Fs          \* the section that walks the disk

ASSUME MetadataAssumption == IsFiniteSet(Sections) /\ Fs \in Sections

Completeness == {"Running", "Complete", "Partial", "Failed", "Cancelled"}
Reasons == {"Cancelled", "ResourceLimited"}

\* How good an item is: a tree or a coverage finding that is complete, one
\* with gaps, one cut short by a resource limit.  A finding or a footprint
\* set is whole or has gaps.
Qualities == {"whole", "gaps", "limited"}

\* Whether a walk of the Fs scanner has ended, and how (Option<bool>).
Walks == {"open", "ok", "failed"}

Contexts == [state : Completeness, done : SUBSET Sections,
             failed : SUBSET Sections, why : SUBSET Reasons]

Runs == [disk : Contexts, host : Contexts, disc : Completeness,
         covered : BOOLEAN, limited : BOOLEAN, diskPartial : BOOLEAN,
         auditPartial : BOOLEAN, discPartial : BOOLEAN, separate : BOOLEAN,
         primary : Walks, discovery : Walks]

NewContext == [state |-> "Running", done |-> {}, failed |-> {}, why |-> {}]

\* The ActiveRun that start_run installs.  covered: the host's coverage is
\* known; limited: it says that a resource limit was hit.
NewRun(isSeparate) ==
  [disk |-> NewContext, host |-> NewContext, disc |-> "Running",
   covered |-> FALSE, limited |-> FALSE, diskPartial |-> FALSE,
   auditPartial |-> FALSE, discPartial |-> FALSE, separate |-> isSeparate,
   primary |-> "open", discovery |-> "open"]

-----------------------------------------------------------------------------
(* Contexts.                                                               *)

\* record_terminal: a failure is final, a success never replaces it.
RecordTerminal(c, s, ok) ==
  IF ok
    THEN [c EXCEPT !.done = @ \cup ({s} \ c.failed)]
    ELSE [c EXCEPT !.done = @ \ {s}, !.failed = @ \cup {s}]

Stop(c) ==
  IF c.state = "Running"
    THEN [c EXCEPT !.state = "Cancelled", !.why = @ \cup {"Cancelled"}]
    ELSE c

Limit(c) == [c EXCEPT !.state = "Partial", !.why = @ \cup {"ResourceLimited"}]

Verdict(c, partial) ==
  CASE c.failed # {} /\ c.done = {} -> "Failed"
    [] c.failed # {} /\ c.done # {} -> "Partial"
    [] c.failed = {} -> IF partial THEN "Partial" ELSE "Complete"

\* Mistaken variant: the token is looked at only while sections are missing.
RefreshedLate(c, expected, partial, isStopped) ==
  IF Cardinality(c.done) + Cardinality(c.failed) = expected
    THEN [c EXCEPT !.state = Verdict(c, partial)]
    ELSE IF isStopped THEN Stop(c) ELSE c

\* refresh_context.
Refreshed(c, expected, partial, isStopped) ==
  IF isStopped
    THEN Stop(c)
    ELSE IF Cardinality(c.done) + Cardinality(c.failed) = expected
           THEN [c EXCEPT !.state = Verdict(c, partial)]
           ELSE c

-----------------------------------------------------------------------------
(* The run.                                                                *)

RefreshDisk(r, isStopped) ==
  [r EXCEPT !.disk = Refreshed(@, 1, r.diskPartial, isStopped)]

\* Mistaken variant: the host's verdict does not wait for Home discovery.
RefreshHostEarly(r, isStopped) ==
  LET h == IF r.primary = "open"
             THEN r.host ELSE RecordTerminal(r.host, Fs, r.primary = "ok")
  IN  [r EXCEPT !.host = Refreshed(h, Cardinality(Sections),
                           r.auditPartial \/ r.discPartial, isStopped)]

\* refresh_host: the walk counts for the host once the selected root and
\* Home have both ended.
RefreshHost(r, isStopped) ==
  LET walks == {r.primary, r.discovery}
      h == IF "open" \in walks
             THEN r.host ELSE RecordTerminal(r.host, Fs, walks = {"ok"})
  IN  [r EXCEPT !.host = Refreshed(h, Cardinality(Sections),
                           r.auditPartial \/ r.discPartial, isStopped)]

\* set_discovery_coverage: a limit recorded for the host outlives coverage
\* that does not have it.
SetDiscoveryCoverage(r, isLimited, isStopped) ==
  LET lim == isLimited \/ "ResourceLimited" \in r.host.why
  IN  [r EXCEPT !.covered = TRUE, !.limited = lim,
                !.host.why = @ \cup (IF lim THEN {"ResourceLimited"} ELSE {})
                               \cup (IF isStopped THEN {"Cancelled"} ELSE {})]

\* refresh_discovery.
RefreshDiscovery(r, isStopped) ==
  [r EXCEPT !.disc =
     CASE r.discovery = "open" /\ ~isStopped -> @
       [] r.limited /\ (isStopped \/ r.discovery # "open") -> "Partial"
       [] ~r.limited /\ isStopped -> "Cancelled"
       [] ~r.limited /\ ~isStopped /\ r.discovery = "failed" -> "Failed"
       [] ~r.limited /\ ~isStopped /\ r.discovery = "ok" ->
            IF r.discPartial THEN "Partial" ELSE "Complete"]

StopContexts(r) ==
  [r EXCEPT !.disk = Stop(@), !.host = Stop(@),
            !.disc = IF @ = "Running" THEN "Cancelled" ELSE @]

\* mark_context_resource_limited; its callers see the token cancelled.
MarkLimited(r, isHost) ==
  IF isHost THEN [StopContexts(r) EXCEPT !.host = Limit(@)]
            ELSE [StopContexts(r) EXCEPT !.disk = Limit(@)]

-----------------------------------------------------------------------------
(* Events.  An event is [sec, kind, val]: kind is "Started", "Finding" (in *)
(* the host context, see context_of_finding), "DiskFinding", "Tree",       *)
(* "Footprints", "Finished" or "Failed", and val is the quality of an item *)
(* or the cause of a failure: "error", "cancelled" or "limit".             *)

Terminal(ev) == ev.kind \in {"Finished", "Failed"}

\* observe_run on a DirTree.
ObserveTree(r, val, isStopped) ==
  LET isPartial == val # "whole"
      isLimited == val = "limited" \/ "ResourceLimited" \in r.disk.why
      d == [r EXCEPT !.diskPartial = isPartial,
                     !.disk.why =
                       @ \cup (IF isLimited THEN {"ResourceLimited"} ELSE {})
                         \cup (IF isStopped THEN {"Cancelled"} ELSE {})]
  IN  IF r.separate
        THEN d
        ELSE SetDiscoveryCoverage([d EXCEPT !.discPartial = isPartial],
                                  val = "limited", isStopped)

\* observe_run on the end of the walk of the selected root, which is Home's
\* as well unless Home is walked separately.
ObserveWalkEnd(r, ok, isStopped) ==
  LET p == IF ok /\ r.primary # "failed" THEN "ok" ELSE "failed"
      d == [r EXCEPT !.primary = p, !.disk = RecordTerminal(@, Fs, ok)]
  IN  IF r.separate
        THEN d
        ELSE RefreshDiscovery([d EXCEPT !.discovery = p], isStopped)

\* observe_run: an event of a section's worker.
ObserveRun(r, ev, isStopped) ==
  LET isFs == ev.sec = Fs
      seen ==
        CASE ev.kind = "Tree" -> ObserveTree(r, ev.val, isStopped)
          [] Terminal(ev) /\ isFs ->
               ObserveWalkEnd(r, ev.kind = "Finished", isStopped)
          [] Terminal(ev) /\ ~isFs ->
               [r EXCEPT !.host = RecordTerminal(@, ev.sec, ev.kind = "Finished")]
          [] ev.kind \in {"Finding", "Footprints"} ->
               [r EXCEPT !.auditPartial = @ \/ ev.val = "gaps"]
          [] OTHER -> r
  IN  RefreshHost(IF isFs THEN RefreshDisk(seen, isStopped) ELSE seen, isStopped)

\* The match of observe_discovery: an event of the separate Home walk.
DiscoverySeen(r, ev, isStopped) ==
  CASE ev.kind = "Finding" ->
         SetDiscoveryCoverage([r EXCEPT !.discPartial = ev.val # "whole"],
                              ev.val = "limited", isStopped)
    [] ev.kind = "Finished" ->
         [r EXCEPT !.discovery = IF @ = "open" THEN "ok" ELSE @,
                   !.discPartial = @ \/ ~r.covered]
    [] ev.kind = "Failed" ->
         [r EXCEPT !.discovery = "failed", !.discPartial = TRUE,
                   !.covered = @ \/ ev.val = "limit",
                   !.limited = @ \/ ev.val = "limit"]

\* observe_discovery; it cancels the token itself when its result is limited.
ObserveDiscovery(r, ev, isStopped) ==
  LET seen == DiscoverySeen(r, ev, isStopped)
      halted == RefreshDisk(
                  SetDiscoveryCoverage([seen EXCEPT !.host = Limit(@)], TRUE, TRUE),
                  TRUE)
  IN  IF seen.limited
        THEN RefreshHost(RefreshDiscovery(halted, TRUE), TRUE)
        ELSE RefreshHost(RefreshDiscovery(seen, isStopped), isStopped)
=============================================================================
