--------------------------- MODULE RunEngine_proofs ---------------------------
(***************************************************************************)
(* Theorems about RunEngine, for any sections, dependencies, channels,     *)
(* faults, qualities, capacities and numbers of runs.                      *)
(***************************************************************************)
EXTENDS RunEngine, FiniteSetTheorems, TLAPS

-----------------------------------------------------------------------------
(* Part one: the functions that fold events into the metadata of a run.    *)
(* What each of them leaves alone, and what is true of the metadata after  *)
(* any of them, whatever the events and their order.                       *)

-----------------------------------------------------------------------------
(* Contexts.                                                               *)

Disjoint(c) == c.done \cap c.failed = {}

Ended(c) == c.done \cup c.failed

\* A context after a limit or a cancellation: verdicts stand.
StateWhenStopped(c) == IF c.state = "Running" THEN "Cancelled" ELSE c.state

\* What stands of a context's verdict: it changes to Partial only, with the
\* limit as its reason.
Stands(c, d) ==
  c.state # "Running" /\ d.state # c.state =>
    d.state = "Partial" /\ "ResourceLimited" \in d.why

\* The count of refresh_context is the coverage of the expected sections.
LEMMA CountIsCover ==
  ASSUME NEW S, IsFiniteSet(S), NEW D \in SUBSET S, NEW F \in SUBSET S, D \cap F = {}
  PROVE  Cardinality(D) + Cardinality(F) = Cardinality(S) <=> D \cup F = S
<1>1. IsFiniteSet(D) /\ IsFiniteSet(F)
  BY FS_Subset
<1>2. /\ IsFiniteSet(D \cup F)
      /\ Cardinality(D \cup F) = Cardinality(D) + Cardinality(F) - Cardinality(D \cap F)
  BY <1>1, FS_Union
<1>3. Cardinality(D \cap F) = 0
  BY FS_EmptySet
<1>4. /\ Cardinality(D) \in Nat /\ Cardinality(F) \in Nat /\ Cardinality(S) \in Nat
  BY <1>1, FS_CardinalityType
<1>5. Cardinality(D \cup F) = Cardinality(D) + Cardinality(F)
  BY <1>2, <1>3, <1>4
<1>6. Cardinality(S) = Cardinality(D \cup F) => S = D \cup F
  <2>1. D \cup F \in SUBSET S
    OBVIOUS
  <2> QED BY <2>1, FS_Subset
<1> QED BY <1>4, <1>5, <1>6

LEMMA RecordedContext ==
  ASSUME NEW c \in Contexts, NEW s \in Sections, NEW ok \in BOOLEAN
  PROVE  LET d == RecordTerminal(c, s, ok)
         IN  /\ d \in Contexts
             /\ d.state = c.state /\ d.why = c.why
             /\ ok => d.done = c.done \cup ({s} \ c.failed) /\ d.failed = c.failed
             /\ ~ok => d.done = c.done \ {s} /\ d.failed = c.failed \cup {s}
             /\ Disjoint(c) => Disjoint(d)
             /\ Ended(d) = Ended(c) \cup {s}
<1> DEFINE d == RecordTerminal(c, s, ok)
<1>1. /\ d \in Contexts
      /\ d.state = c.state /\ d.why = c.why
      /\ ok => d.done = c.done \cup ({s} \ c.failed) /\ d.failed = c.failed
      /\ ~ok => d.done = c.done \ {s} /\ d.failed = c.failed \cup {s}
  BY DEF RecordTerminal, Contexts
<1> HIDE DEF d
<1>2. Disjoint(c) => Disjoint(d)
  BY <1>1 DEF Disjoint
<1>3. Ended(d) = Ended(c) \cup {s}
  BY <1>1 DEF Ended
<1> QED BY <1>1, <1>2, <1>3 DEF d

LEMMA StoppedContext ==
  ASSUME NEW c \in Contexts
  PROVE  LET d == Stop(c)
         IN  /\ d \in Contexts
             /\ d.state = StateWhenStopped(c)
             /\ d.done = c.done /\ d.failed = c.failed
             /\ c.why \subseteq d.why
             /\ d.why \subseteq c.why \cup {"Cancelled"}
BY DEF Stop, Contexts, Completeness, Reasons, StateWhenStopped

LEMMA LimitedContext ==
  ASSUME NEW c \in Contexts
  PROVE  LET d == Limit(c)
         IN  /\ d \in Contexts
             /\ d.state = "Partial"
             /\ d.done = c.done /\ d.failed = c.failed
             /\ d.why = c.why \cup {"ResourceLimited"}
BY DEF Limit, Contexts, Completeness, Reasons

\* The verdict of refresh_context is one; it is Complete when everything
\* succeeded and nothing was partial.
LEMMA VerdictOfAll ==
  ASSUME NEW c \in Contexts, NEW S, S # {}, Ended(c) = S, NEW partial \in BOOLEAN
  PROVE  /\ Verdict(c, partial) \in Completeness \ {"Running", "Cancelled"}
         /\ Verdict(c, partial) = "Complete" <=> c.done = S /\ c.failed = {} /\ ~partial
<1>1. CASE c.failed # {} /\ c.done = {}
  BY <1>1 DEF Verdict, Completeness
<1>2. CASE c.failed # {} /\ c.done # {}
  BY <1>2 DEF Verdict, Completeness
<1>3. CASE c.failed = {}
  BY <1>3 DEF Verdict, Completeness, Ended
<1> QED BY <1>1, <1>2, <1>3

LEMMA RefreshedContext ==
  ASSUME NEW c \in Contexts, Disjoint(c),
         NEW S \in SUBSET Sections, S # {}, Ended(c) \subseteq S,
         NEW partial \in BOOLEAN, NEW isStopped \in BOOLEAN
  PROVE  LET d == Refreshed(c, Cardinality(S), partial, isStopped)
         IN  /\ d \in Contexts
             /\ d.done = c.done /\ d.failed = c.failed
             /\ c.why \subseteq d.why
             /\ d.why \subseteq c.why \cup {"Cancelled"}
             /\ isStopped => d.state = StateWhenStopped(c)
             /\ ~isStopped /\ Ended(c) # S => d.state = c.state
             /\ ~isStopped /\ Ended(c) = S =>
                  /\ d.state \in Completeness \ {"Running", "Cancelled"}
                  /\ d.state = "Complete" <=> c.done = S /\ c.failed = {} /\ ~partial
<1> DEFINE d == Refreshed(c, Cardinality(S), partial, isStopped)
<1>1. CASE isStopped
  <2>1. d = Stop(c)
    BY <1>1 DEF Refreshed
  <2> QED BY <1>1, <2>1, StoppedContext
<1>2. CASE ~isStopped
  <2>1. Cardinality(c.done) + Cardinality(c.failed) = Cardinality(S) <=> Ended(c) = S
    <3>1. IsFiniteSet(S)
      BY MetadataAssumption, FS_Subset
    <3> QED BY <3>1, CountIsCover DEF Ended, Disjoint
  <2>2. CASE Ended(c) = S
    <3>1. d = [c EXCEPT !.state = Verdict(c, partial)]
      BY <1>2, <2>1, <2>2 DEF Refreshed
    <3>2. /\ Verdict(c, partial) \in Completeness \ {"Running", "Cancelled"}
          /\ Verdict(c, partial) = "Complete" <=> c.done = S /\ c.failed = {} /\ ~partial
      BY <2>2, VerdictOfAll
    <3>3. /\ d \in Contexts
          /\ d.state = Verdict(c, partial)
          /\ d.done = c.done /\ d.failed = c.failed /\ d.why = c.why
      BY <3>1, <3>2 DEF Contexts
    <3> QED BY <1>2, <2>2, <3>2, <3>3
  <2>3. CASE Ended(c) # S
    <3>1. d = c
      BY <1>2, <2>1, <2>3 DEF Refreshed
    <3> QED BY <1>2, <2>3, <3>1
  <2> QED BY <2>2, <2>3
<1> QED BY <1>1, <1>2

-----------------------------------------------------------------------------
(* The run.                                                                *)

\* How the two walks that make up the walk of the host ended.
WalksOver(r) == r.primary # "open" /\ r.discovery # "open"
WalksGood(r) == r.primary = "ok" /\ r.discovery = "ok"

\* What the metadata says whatever has been observed, apart from the host's
\* part in it.
WalksTell(r) ==
  /\ r \in Runs
  /\ r.disk.done = IF r.primary = "ok" THEN {Fs} ELSE {}
  /\ r.disk.failed = IF r.primary = "failed" THEN {Fs} ELSE {}
  /\ r.discovery # "open" => r.disc # "Running"
  /\ ~r.separate => r.discovery = r.primary

DiskTells(r) == r.primary # "open" => r.disk.state # "Running"

HostCounts(r) ==
  /\ Disjoint(r.host)
  /\ Fs \in r.host.done <=> WalksGood(r)
  /\ Fs \in r.host.failed <=> WalksOver(r) /\ ~WalksGood(r)

HostTells(r) ==
  /\ HostCounts(r)
  /\ Ended(r.host) = Sections => r.host.state # "Running"

\* Every ending that was recorded counts: nothing is Running any more in a
\* context all of whose endings are there.
Consistent(r) == WalksTell(r) /\ DiskTells(r) /\ HostTells(r)

\* t has of the run what r has, apart from disk, host and disc.
SameRun(r, t) ==
  /\ t.covered = r.covered /\ t.limited = r.limited
  /\ t.diskPartial = r.diskPartial /\ t.auditPartial = r.auditPartial
  /\ t.discPartial = r.discPartial /\ t.separate = r.separate
  /\ t.primary = r.primary /\ t.discovery = r.discovery

LEMMA NewRunConsistent ==
  ASSUME NEW b \in BOOLEAN
  PROVE  Consistent(NewRun(b))
<1>1. NewRun(b) \in Runs
  BY DEF NewRun, NewContext, Runs, Contexts, Completeness, Walks
<1>2. Sections # {}
  BY MetadataAssumption
<1> QED
  BY <1>1, <1>2 DEF NewRun, NewContext, Consistent, WalksTell, DiskTells, HostTells,
     HostCounts, Disjoint, Ended, WalksOver, WalksGood

LEMMA StoppedRun ==
  ASSUME NEW r \in Runs
  PROVE  LET t == StopContexts(r)
         IN  /\ t \in Runs /\ SameRun(r, t)
             /\ t.disk = Stop(r.disk) /\ t.host = Stop(r.host)
             /\ t.disc = IF r.disc = "Running" THEN "Cancelled" ELSE r.disc
<1>1. r.disk \in Contexts /\ r.host \in Contexts
  BY DEF Runs
<1>2. Stop(r.disk) \in Contexts /\ Stop(r.host) \in Contexts
  BY <1>1, StoppedContext
<1> QED BY <1>2 DEF StopContexts, Runs, SameRun, Completeness

LEMMA StoppedConsistent ==
  ASSUME NEW r, Consistent(r)
  PROVE  Consistent(StopContexts(r))
<1> DEFINE t == StopContexts(r)
<1>1. r \in Runs /\ r.disk \in Contexts /\ r.host \in Contexts
  BY DEF Consistent, WalksTell, Runs
<1>2. /\ t \in Runs /\ SameRun(r, t)
      /\ t.disk = Stop(r.disk) /\ t.host = Stop(r.host)
      /\ t.disc = IF r.disc = "Running" THEN "Cancelled" ELSE r.disc
  BY <1>1, StoppedRun
<1>3. /\ t.disk.state = StateWhenStopped(r.disk)
      /\ t.disk.done = r.disk.done /\ t.disk.failed = r.disk.failed
      /\ t.host.state = StateWhenStopped(r.host)
      /\ t.host.done = r.host.done /\ t.host.failed = r.host.failed
  BY <1>1, <1>2, StoppedContext
<1> HIDE DEF t
<1> QED
  BY <1>2, <1>3 DEF t, Consistent, WalksTell, DiskTells, HostTells, HostCounts, Disjoint,
     Ended, WalksOver, WalksGood, SameRun, StateWhenStopped

\* A run marked as limited: its contexts are stopped, one of them says why.
LEMMA MarkedRun ==
  ASSUME NEW r \in Runs, NEW isHost \in BOOLEAN
  PROVE  LET t == MarkLimited(r, isHost)
         IN  /\ t \in Runs /\ SameRun(r, t)
             /\ t.disk = IF isHost THEN Stop(r.disk) ELSE Limit(Stop(r.disk))
             /\ t.host = IF isHost THEN Limit(Stop(r.host)) ELSE Stop(r.host)
             /\ t.disc = IF r.disc = "Running" THEN "Cancelled" ELSE r.disc
<1> DEFINE u == StopContexts(r)
<1>1. /\ u \in Runs /\ SameRun(r, u)
      /\ u.disk = Stop(r.disk) /\ u.host = Stop(r.host)
      /\ u.disc = IF r.disc = "Running" THEN "Cancelled" ELSE r.disc
  BY StoppedRun
<1> HIDE DEF u
<1>2. Limit(u.disk) \in Contexts /\ Limit(u.host) \in Contexts
  BY <1>1, LimitedContext DEF Runs
<1>3. MarkLimited(r, isHost) = IF isHost THEN [u EXCEPT !.host = Limit(@)]
                                         ELSE [u EXCEPT !.disk = Limit(@)]
  BY DEF MarkLimited, u
<1> QED BY <1>1, <1>2, <1>3 DEF Runs, SameRun

LEMMA MarkedConsistent ==
  ASSUME NEW r, Consistent(r), NEW isHost \in BOOLEAN
  PROVE  Consistent(MarkLimited(r, isHost))
<1> DEFINE t == MarkLimited(r, isHost)
<1>1. r \in Runs /\ r.disk \in Contexts /\ r.host \in Contexts
  BY DEF Consistent, WalksTell, Runs
<1>2. /\ t \in Runs /\ SameRun(r, t)
      /\ t.disk = IF isHost THEN Stop(r.disk) ELSE Limit(Stop(r.disk))
      /\ t.host = IF isHost THEN Limit(Stop(r.host)) ELSE Stop(r.host)
      /\ t.disc = IF r.disc = "Running" THEN "Cancelled" ELSE r.disc
  BY <1>1, MarkedRun
<1> HIDE DEF t
<1>3. /\ t.disk.state # "Running" \/ t.disk.state = StateWhenStopped(r.disk)
      /\ t.disk.done = r.disk.done /\ t.disk.failed = r.disk.failed
      /\ t.host.state # "Running" \/ t.host.state = StateWhenStopped(r.host)
      /\ t.host.done = r.host.done /\ t.host.failed = r.host.failed
  BY <1>1, <1>2, StoppedContext, LimitedContext
<1> QED
  BY <1>2, <1>3 DEF t, Consistent, WalksTell, DiskTells, HostTells, HostCounts, Disjoint,
     Ended, WalksOver, WalksGood, SameRun, StateWhenStopped

\* The verdict d on what c was, when the sections S are expected.
Decides(c, d, S, partial, isStopped) ==
  /\ isStopped => d.state = StateWhenStopped(c)
  /\ ~isStopped /\ Ended(d) # S => d.state = c.state
  /\ ~isStopped /\ Ended(d) = S =>
       /\ d.state \in Completeness \ {"Running", "Cancelled"}
       /\ d.state = "Complete" <=> d.done = S /\ d.failed = {} /\ ~partial

\* What becomes of a context that is looked at again: c before, d after.
LooksAgain(c, d, S, partial, isStopped) ==
  /\ c.why \subseteq d.why /\ d.why \subseteq c.why \cup {"Cancelled"}
  /\ Decides(c, d, S, partial, isStopped)

LEMMA RefreshedDisk ==
  ASSUME NEW r, WalksTell(r), NEW isStopped \in BOOLEAN
  PROVE  LET t == RefreshDisk(r, isStopped)
         IN  /\ WalksTell(t) /\ DiskTells(t) /\ SameRun(r, t)
             /\ t.host = r.host /\ t.disc = r.disc
             /\ LooksAgain(r.disk, t.disk, {Fs}, r.diskPartial, isStopped)
<1> DEFINE t == RefreshDisk(r, isStopped)
           partial == r.diskPartial
           d == Refreshed(r.disk, 1, partial, isStopped)
<1>1. /\ r \in Runs /\ r.disk \in Contexts /\ partial \in BOOLEAN
      /\ r.primary \in Walks /\ {Fs} \in SUBSET Sections
  BY MetadataAssumption DEF WalksTell, Runs
<1>2. Disjoint(r.disk) /\ Ended(r.disk) \subseteq {Fs}
      /\ (r.primary # "open" => Ended(r.disk) = {Fs})
  BY <1>1 DEF WalksTell, Disjoint, Ended, Walks
<1> HIDE DEF partial
<1>3. d = Refreshed(r.disk, Cardinality({Fs}), partial, isStopped)
  BY FS_Singleton
<1>4. /\ d \in Contexts
      /\ d.done = r.disk.done /\ d.failed = r.disk.failed
      /\ LooksAgain(r.disk, d, {Fs}, partial, isStopped)
  <2> DEFINE S == {Fs}
  <2>1. S # {} /\ S \in SUBSET Sections /\ Ended(r.disk) \subseteq S
    BY <1>1, <1>2
  <2>2. d = Refreshed(r.disk, Cardinality(S), partial, isStopped)
    BY <1>3
  <2> HIDE DEF d, S
  <2>3. /\ d \in Contexts
        /\ d.done = r.disk.done /\ d.failed = r.disk.failed
        /\ LooksAgain(r.disk, d, S, partial, isStopped)
    BY <1>1, <1>2, <2>1, <2>2, RefreshedContext DEF LooksAgain, Decides, Ended
  <2> QED BY <2>3 DEF S
<1>5. t \in Runs /\ SameRun(r, t) /\ t.disk = d /\ t.host = r.host /\ t.disc = r.disc
  BY <1>1, <1>4 DEF RefreshDisk, Runs, SameRun, partial
<1> HIDE DEF t, d
<1>6. WalksTell(t)
  BY <1>4, <1>5 DEF WalksTell, SameRun
<1>7. DiskTells(t)
  BY <1>2, <1>4, <1>5 DEF DiskTells, SameRun, LooksAgain, Decides, Ended, StateWhenStopped
<1> QED BY <1>4, <1>5, <1>6, <1>7 DEF t, partial

\* What the walks add to the host's endings.
WalkEnding(r) == IF WalksOver(r) THEN {Fs} ELSE {}

\* The walk has not been counted for the host earlier than it should, nor as
\* a failure that it is not.
WalkUncounted(r) ==
  /\ ~WalksOver(r) => Fs \notin Ended(r.host)
  /\ WalksGood(r) => Fs \notin r.host.failed

LEMMA RefreshedHost ==
  ASSUME NEW r \in Runs, Disjoint(r.host), WalkUncounted(r), NEW isStopped \in BOOLEAN
  PROVE  LET t == RefreshHost(r, isStopped)
         IN  /\ t \in Runs /\ SameRun(r, t) /\ HostTells(t)
             /\ t.disk = r.disk /\ t.disc = r.disc
             /\ Ended(t.host) = Ended(r.host) \cup WalkEnding(r)
             /\ t.host.done \ {Fs} = r.host.done \ {Fs}
             /\ t.host.failed \ {Fs} = r.host.failed \ {Fs}
             /\ LooksAgain(r.host, t.host, Sections,
                           r.auditPartial \/ r.discPartial, isStopped)
<1> DEFINE t == RefreshHost(r, isStopped)
           walks == {r.primary, r.discovery}
           h == IF "open" \in walks
                  THEN r.host ELSE RecordTerminal(r.host, Fs, walks = {"ok"})
           partial == r.auditPartial \/ r.discPartial
           d == Refreshed(h, Cardinality(Sections), partial, isStopped)
<1>1. /\ r.host \in Contexts /\ partial \in BOOLEAN /\ Fs \in Sections
      /\ Sections \in SUBSET Sections /\ Sections # {}
      /\ r.primary \in Walks /\ r.discovery \in Walks
  BY MetadataAssumption DEF Runs
<1>2. /\ "open" \in walks <=> ~WalksOver(r)
      /\ walks = {"ok"} <=> WalksGood(r)
  BY DEF WalksOver, WalksGood
<1> HIDE DEF walks
<1>3. /\ h \in Contexts /\ Disjoint(h)
      /\ h.state = r.host.state /\ h.why = r.host.why
      /\ Ended(h) = Ended(r.host) \cup WalkEnding(r)
      /\ h.done \ {Fs} = r.host.done \ {Fs}
      /\ h.failed \ {Fs} = r.host.failed \ {Fs}
      /\ Fs \in h.done <=> WalksGood(r)
      /\ Fs \in h.failed <=> WalksOver(r) /\ ~WalksGood(r)
  <2>1. CASE ~WalksOver(r)
    <3>1. h = r.host /\ WalkEnding(r) = {} /\ ~WalksGood(r)
      BY <1>2, <2>1 DEF WalkEnding, WalksOver, WalksGood
    <3> QED BY <1>1, <2>1, <3>1 DEF WalkUncounted, Ended
  <2>2. CASE WalksOver(r)
    <3>1. h = RecordTerminal(r.host, Fs, WalksGood(r)) /\ WalkEnding(r) = {Fs}
      BY <1>2, <2>2 DEF WalkEnding, WalksGood
    <3>2. WalksGood(r) \in BOOLEAN
      BY DEF WalksGood
    <3>3. /\ h \in Contexts /\ h.state = r.host.state /\ h.why = r.host.why
          /\ WalksGood(r) => /\ h.done = r.host.done \cup ({Fs} \ r.host.failed)
                             /\ h.failed = r.host.failed
          /\ ~WalksGood(r) => /\ h.done = r.host.done \ {Fs}
                              /\ h.failed = r.host.failed \cup {Fs}
          /\ Disjoint(h) /\ Ended(h) = Ended(r.host) \cup {Fs}
      <4> DEFINE ok == WalksGood(r)
                 c == r.host
      <4>1. /\ c \in Contexts /\ Fs \in Sections /\ Disjoint(c)
            /\ ok \in BOOLEAN /\ h = RecordTerminal(c, Fs, ok)
        BY <1>1, <3>1, <3>2
      <4> HIDE DEF h, ok, c
      <4>2. /\ h \in Contexts /\ h.state = c.state /\ h.why = c.why
            /\ ok => h.done = c.done \cup ({Fs} \ c.failed) /\ h.failed = c.failed
            /\ ~ok => h.done = c.done \ {Fs} /\ h.failed = c.failed \cup {Fs}
            /\ Disjoint(h) /\ Ended(h) = Ended(c) \cup {Fs}
        BY <4>1, RecordedContext
      <4> QED BY <4>2 DEF ok, c
    <3> HIDE DEF h
    <3> QED BY <2>2, <3>1, <3>3 DEF WalkUncounted
  <2> QED BY <2>1, <2>2
<1>4. Ended(h) \subseteq Sections
  BY <1>3 DEF Ended, Contexts
<1> HIDE DEF h, partial
<1>5. /\ d \in Contexts /\ d.done = h.done /\ d.failed = h.failed
      /\ LooksAgain(h, d, Sections, partial, isStopped)
      /\ Ended(d) = Ended(h) /\ Disjoint(d)
  BY <1>1, <1>3, <1>4, RefreshedContext DEF LooksAgain, Decides, Ended, Disjoint
<1>6. t = [r EXCEPT !.host = d]
  BY DEF RefreshHost, h, walks, partial
<1> HIDE DEF d
<1>7. t \in Runs /\ SameRun(r, t) /\ t.host = d /\ t.disk = r.disk /\ t.disc = r.disc
  BY <1>5, <1>6 DEF Runs, SameRun
<1> HIDE DEF t
<1>8. LooksAgain(r.host, d, Sections, partial, isStopped)
  BY <1>3, <1>5 DEF LooksAgain, Decides, StateWhenStopped
<1>9. HostCounts(t)
  BY <1>3, <1>5, <1>7 DEF HostCounts, SameRun, WalksGood, WalksOver
<1>10. Ended(d) = Sections => d.state # "Running"
  BY <1>5 DEF LooksAgain, Decides, StateWhenStopped
<1> QED BY <1>3, <1>5, <1>7, <1>8, <1>9, <1>10 DEF t, partial, HostTells

-----------------------------------------------------------------------------
(* Coverage.                                                               *)

\* A context that has learnt a reason at most.
SameContext(c, d) ==
  /\ d \in Contexts
  /\ d.state = c.state /\ d.done = c.done /\ d.failed = c.failed
  /\ c.why \subseteq d.why

\* t is r with the coverage of the host set, isLimited or not.
Covers(r, isLimited, t) ==
  /\ t \in Runs
  /\ t.disk = r.disk /\ SameContext(r.host, t.host) /\ t.disc = r.disc
  /\ t.limited <=> isLimited \/ "ResourceLimited" \in r.host.why
  /\ "ResourceLimited" \in t.host.why <=> t.limited
  /\ t.diskPartial = r.diskPartial /\ t.auditPartial = r.auditPartial
  /\ t.discPartial = r.discPartial /\ t.separate = r.separate
  /\ t.primary = r.primary /\ t.discovery = r.discovery

LEMMA CoverageSet ==
  ASSUME NEW r \in Runs, NEW isLimited \in BOOLEAN, NEW isStopped \in BOOLEAN
  PROVE  Covers(r, isLimited, SetDiscoveryCoverage(r, isLimited, isStopped))
<1> DEFINE lim == isLimited \/ "ResourceLimited" \in r.host.why
           why == r.host.why \cup (IF lim THEN {"ResourceLimited"} ELSE {})
                             \cup (IF isStopped THEN {"Cancelled"} ELSE {})
           h == [r.host EXCEPT !.why = why]
           t == SetDiscoveryCoverage(r, isLimited, isStopped)
<1>1. /\ lim \in BOOLEAN /\ why \in SUBSET Reasons /\ r.host.why \subseteq why
      /\ "ResourceLimited" \in why <=> lim
  BY DEF Runs, Contexts, Reasons
<1>2. t = [r EXCEPT !.covered = TRUE, !.limited = lim, !.host = h]
  BY DEF SetDiscoveryCoverage
<1>3. h \in Contexts /\ SameContext(r.host, h) /\ h.why = why
  <2> HIDE DEF why
  <2> QED BY <1>1 DEF SameContext, Runs, Contexts
<1> HIDE DEF why, lim, h
<1>4. /\ t \in Runs /\ t.disk = r.disk /\ t.disc = r.disc /\ t.host = h
      /\ t.covered = TRUE /\ t.limited = lim
      /\ t.diskPartial = r.diskPartial /\ t.auditPartial = r.auditPartial
      /\ t.discPartial = r.discPartial /\ t.separate = r.separate
      /\ t.primary = r.primary /\ t.discovery = r.discovery
  BY <1>1, <1>2, <1>3 DEF Runs
<1> HIDE DEF t
<1> QED BY <1>1, <1>3, <1>4 DEF t, lim, Covers

\* refresh_discovery decides as soon as the walk has ended.
LEMMA RefreshedDiscovery ==
  ASSUME NEW r \in Runs, NEW isStopped \in BOOLEAN
  PROVE  LET t == RefreshDiscovery(r, isStopped)
         IN  /\ t \in Runs /\ SameRun(r, t) /\ t.disk = r.disk /\ t.host = r.host
             /\ r.discovery # "open" \/ isStopped => t.disc # "Running"
             /\ ~isStopped /\ r.discovery = "open" => t.disc = r.disc
             /\ ~isStopped /\ ~r.limited /\ r.discovery = "ok" =>
                  t.disc = IF r.discPartial THEN "Partial" ELSE "Complete"
<1> DEFINE d == CASE r.discovery = "open" /\ ~isStopped -> r.disc
                  [] r.limited /\ (isStopped \/ r.discovery # "open") -> "Partial"
                  [] ~r.limited /\ isStopped -> "Cancelled"
                  [] ~r.limited /\ ~isStopped /\ r.discovery = "failed" -> "Failed"
                  [] ~r.limited /\ ~isStopped /\ r.discovery = "ok" ->
                       IF r.discPartial THEN "Partial" ELSE "Complete"
           t == RefreshDiscovery(r, isStopped)
<1>1. r.discovery \in {"open", "ok", "failed"} /\ r.limited \in BOOLEAN /\ r.disc \in Completeness
  BY DEF Runs, Walks
<1>2. /\ d \in Completeness
      /\ r.discovery # "open" \/ isStopped => d # "Running"
      /\ ~isStopped /\ r.discovery = "open" => d = r.disc
      /\ ~isStopped /\ ~r.limited /\ r.discovery = "ok" =>
           d = IF r.discPartial THEN "Partial" ELSE "Complete"
  <2>1. CASE r.discovery = "open" /\ ~isStopped
    BY <1>1, <2>1
  <2>2. CASE r.limited /\ (isStopped \/ r.discovery # "open")
    BY <1>1, <2>2 DEF Completeness
  <2>3. CASE ~r.limited /\ isStopped
    BY <1>1, <2>3 DEF Completeness
  <2>4. CASE ~r.limited /\ ~isStopped /\ r.discovery = "failed"
    BY <1>1, <2>4 DEF Completeness
  <2>5. CASE ~r.limited /\ ~isStopped /\ r.discovery = "ok"
    BY <1>1, <2>5 DEF Completeness
  <2> QED BY <1>1, <2>1, <2>2, <2>3, <2>4, <2>5
<1>3. t = [r EXCEPT !.disc = d]
  BY DEF RefreshDiscovery
<1> HIDE DEF d
<1>4. /\ t \in Runs /\ SameRun(r, t) /\ t.disk = r.disk /\ t.host = r.host /\ t.disc = d
  BY <1>2, <1>3 DEF Runs, SameRun
<1> QED BY <1>2, <1>4

-----------------------------------------------------------------------------
(* observe_run: the match first, the refreshes after it.                   *)

Kinds == {"Started", "Finding", "DiskFinding", "Tree", "Footprints", "Finished", "Failed"}

\* An event of the sections' lane; a tree comes from the disk walk.
SectionEvent(ev) ==
  /\ ev.sec \in Sections /\ ev.kind \in Kinds
  /\ ev.kind = "Tree" => ev.sec = Fs

WalkEnds(ev) == Terminal(ev) /\ ev.sec = Fs

RunSeen(r, ev, isStopped) ==
  CASE ev.kind = "Tree" -> ObserveTree(r, ev.val, isStopped)
    [] Terminal(ev) /\ ev.sec = Fs ->
         ObserveWalkEnd(r, ev.kind = "Finished", isStopped)
    [] Terminal(ev) /\ ev.sec # Fs ->
         [r EXCEPT !.host = RecordTerminal(@, ev.sec, ev.kind = "Finished")]
    [] ev.kind \in {"Finding", "Footprints"} ->
         [r EXCEPT !.auditPartial = @ \/ ev.val = "gaps"]
    [] OTHER -> r

LEMMA ObserveRunIs ==
  ASSUME NEW r, NEW ev, NEW isStopped
  PROVE  LET seen == RunSeen(r, ev, isStopped)
         IN  ObserveRun(r, ev, isStopped) =
               RefreshHost(IF ev.sec = Fs THEN RefreshDisk(seen, isStopped) ELSE seen,
                           isStopped)
BY DEF ObserveRun, RunSeen

\* What observe_run changes besides verdicts and the host's endings.
Sees(r, ev, t) ==
  /\ t.separate = r.separate
  /\ t.primary = IF WalkEnds(ev)
                   THEN IF ev.kind = "Finished" /\ r.primary # "failed" THEN "ok" ELSE "failed"
                   ELSE r.primary
  /\ t.discovery = IF WalkEnds(ev) /\ ~r.separate THEN t.primary ELSE r.discovery
  /\ t.auditPartial <=>
       r.auditPartial \/ (ev.kind \in {"Finding", "Footprints"} /\ ev.val = "gaps")
  /\ t.diskPartial <=> IF ev.kind = "Tree" THEN ev.val # "whole" ELSE r.diskPartial
  /\ t.discPartial <=> IF ev.kind = "Tree" /\ ~r.separate
                         THEN ev.val # "whole" ELSE r.discPartial
  /\ t.limited <=> IF ev.kind = "Tree" /\ ~r.separate
                     THEN ev.val = "limited" \/ "ResourceLimited" \in r.host.why
                     ELSE r.limited

\* Reasons are never taken back, and the host learns of a limit from what is
\* then known to be limited.
Learns(r, t) ==
  /\ r.disk.why \subseteq t.disk.why /\ r.host.why \subseteq t.host.why
  /\ "ResourceLimited" \in t.host.why => "ResourceLimited" \in r.host.why \/ t.limited

\* What an event says of the host's endings, the walk's apart.
Counts(c, ev, d) ==
  /\ \A s \in Sections \ {Fs} :
       /\ s \in d.done => s \in c.done \/ (ev.kind = "Finished" /\ ev.sec = s)
       /\ s \in Ended(d) <=> s \in Ended(c) \/ (Terminal(ev) /\ ev.sec = s)

\* What is known of the Home walk when it ends with the walk of the selected
\* root.
Discovers(r, ev, isStopped, t) ==
  IF WalkEnds(ev) /\ ~r.separate
    THEN /\ t.disc # "Running"
         /\ ~isStopped /\ ~r.limited /\ t.primary = "ok" =>
              t.disc = IF r.discPartial THEN "Partial" ELSE "Complete"
    ELSE t.disc = r.disc

\* The match of observe_run on a tree.
LEMMA TreeSeen ==
  ASSUME NEW r, Consistent(r), NEW ev, SectionEvent(ev), ev.kind = "Tree",
         NEW isStopped \in BOOLEAN
  PROVE  LET t == RunSeen(r, ev, isStopped)
         IN  /\ t \in Runs /\ Sees(r, ev, t) /\ Learns(r, t)
             /\ SameContext(r.disk, t.disk) /\ SameContext(r.host, t.host)
             /\ t.disc = r.disc
<1> DEFINE isPartial == ev.val # "whole"
           isLimited == ev.val = "limited" \/ "ResourceLimited" \in r.disk.why
           why == r.disk.why \cup (IF isLimited THEN {"ResourceLimited"} ELSE {})
                             \cup (IF isStopped THEN {"Cancelled"} ELSE {})
           k == [r.disk EXCEPT !.why = why]
           d == [r EXCEPT !.diskPartial = isPartial, !.disk = k]
           e == [d EXCEPT !.discPartial = isPartial]
           lim == ev.val = "limited"
           u == SetDiscoveryCoverage(e, lim, isStopped)
           t == RunSeen(r, ev, isStopped)
<1>1. r \in Runs /\ r.disk \in Contexts /\ r.host \in Contexts
  BY DEF Consistent, WalksTell, Runs
<1>2. t = IF r.separate THEN d ELSE u
  <2>1. t = ObserveTree(r, ev.val, isStopped)
    BY DEF RunSeen, Terminal
  <2> QED BY <2>1 DEF ObserveTree
<1>3. isPartial \in BOOLEAN /\ lim \in BOOLEAN
      /\ why \in SUBSET Reasons /\ r.disk.why \subseteq why
  BY <1>1 DEF Contexts, Reasons
<1>4. k \in Contexts /\ SameContext(r.disk, k)
  <2> HIDE DEF why
  <2> QED BY <1>1, <1>3 DEF SameContext, Contexts
<1> HIDE DEF k, why, t
<1>5. /\ d \in Runs /\ d.disk = k /\ d.host = r.host /\ d.disc = r.disc
      /\ d.diskPartial = isPartial /\ d.discPartial = r.discPartial
      /\ d.auditPartial = r.auditPartial /\ d.limited = r.limited
      /\ d.separate = r.separate /\ d.primary = r.primary /\ d.discovery = r.discovery
  <2> HIDE DEF isPartial
  <2> QED BY <1>1, <1>3, <1>4 DEF Runs
<1>6. ~WalkEnds(ev) /\ ev.kind = "Tree"
  BY DEF WalkEnds, Terminal
<1>7. CASE r.separate
  <2>1. t = d
    BY <1>2, <1>7
  <2> HIDE DEF d
  <2> QED BY <1>1, <1>4, <1>5, <1>6, <1>7, <2>1
          DEF t, Sees, Learns, SameContext, isPartial
<1>8. CASE ~r.separate
  <2>1. t = u
    BY <1>2, <1>8
  <2> HIDE DEF d
  <2>2. /\ e \in Runs /\ e.disk = k /\ e.host = r.host /\ e.disc = r.disc
        /\ e.diskPartial = isPartial /\ e.discPartial = isPartial
        /\ e.auditPartial = r.auditPartial
        /\ e.separate = r.separate /\ e.primary = r.primary /\ e.discovery = r.discovery
    <3> HIDE DEF isPartial
    <3> QED BY <1>3, <1>5 DEF Runs
  <2> HIDE DEF e
  <2>3. Covers(e, lim, u)
    <3>1. e \in Runs /\ lim \in BOOLEAN
      BY <2>2
    <3> HIDE DEF lim
    <3> QED BY <3>1, CoverageSet
  <2> HIDE DEF u
  <2> QED BY <1>1, <1>4, <1>6, <1>8, <2>1, <2>2, <2>3
          DEF t, Sees, Learns, SameContext, Covers, isPartial, lim
<1> QED BY <1>1, <1>7, <1>8

\* The match of observe_run on the end of the walk.
LEMMA WalkEndSeen ==
  ASSUME NEW r, Consistent(r), NEW ev, WalkEnds(ev), NEW isStopped \in BOOLEAN
  PROVE  LET t == RunSeen(r, ev, isStopped)
         IN  /\ t \in Runs /\ Sees(r, ev, t) /\ Discovers(r, ev, isStopped, t)
             /\ WalksTell(t)
             /\ t.disk.state = r.disk.state /\ t.disk.why = r.disk.why
             /\ t.host = r.host
<1> DEFINE ok == ev.kind = "Finished"
           p == IF ok /\ r.primary # "failed" THEN "ok" ELSE "failed"
           k == RecordTerminal(r.disk, Fs, ok)
           d == [r EXCEPT !.primary = p, !.disk = k]
           e == [d EXCEPT !.discovery = p]
           t == RunSeen(r, ev, isStopped)
<1>1. /\ r \in Runs /\ r.disk \in Contexts /\ Fs \in Sections
      /\ ok \in BOOLEAN /\ p \in {"ok", "failed"} /\ WalksTell(r)
  BY MetadataAssumption DEF Consistent, WalksTell, Runs
<1>2. t = IF r.separate THEN d ELSE RefreshDiscovery(e, isStopped)
  <2>1. t = ObserveWalkEnd(r, ok, isStopped)
    BY DEF RunSeen, WalkEnds, Terminal
  <2> QED BY <2>1 DEF ObserveWalkEnd
<1>3. /\ k \in Contexts /\ k.state = r.disk.state /\ k.why = r.disk.why
      /\ k.done = IF p = "ok" THEN {Fs} ELSE {}
      /\ k.failed = IF p = "failed" THEN {Fs} ELSE {}
  <2>1. /\ k \in Contexts /\ k.state = r.disk.state /\ k.why = r.disk.why
        /\ ok => k.done = r.disk.done \cup ({Fs} \ r.disk.failed) /\ k.failed = r.disk.failed
        /\ ~ok => k.done = r.disk.done \ {Fs} /\ k.failed = r.disk.failed \cup {Fs}
    BY <1>1 DEF RecordTerminal, Contexts
  <2>2. /\ r.disk.done = IF r.primary = "ok" THEN {Fs} ELSE {}
        /\ r.disk.failed = IF r.primary = "failed" THEN {Fs} ELSE {}
        /\ r.primary \in {"open", "ok", "failed"}
    BY <1>1 DEF WalksTell, Runs, Walks
  <2> HIDE DEF k
  <2> QED BY <2>1, <2>2
<1> HIDE DEF k, t
<1>4. /\ d \in Runs /\ d.disk = k /\ d.host = r.host /\ d.disc = r.disc
      /\ d.covered = r.covered /\ d.limited = r.limited
      /\ d.diskPartial = r.diskPartial /\ d.discPartial = r.discPartial
      /\ d.auditPartial = r.auditPartial
      /\ d.separate = r.separate /\ d.primary = p /\ d.discovery = r.discovery
  <2> HIDE DEF p
  <2> QED BY <1>1, <1>3 DEF Runs, Walks
<1>5. ev.kind \notin {"Tree", "Finding", "Footprints"}
  BY DEF WalkEnds, Terminal
<1>6. CASE r.separate
  <2>1. t = d
    BY <1>2, <1>6
  <2> HIDE DEF d
  <2>2. WalksTell(t)
    <3> HIDE DEF p
    <3> QED BY <1>1, <1>3, <1>4, <1>6, <2>1 DEF WalksTell
  <2>3. Sees(r, ev, t)
    BY <1>4, <1>5, <1>6, <2>1 DEF Sees
  <2>4. Discovers(r, ev, isStopped, t)
    BY <1>4, <1>6, <2>1 DEF Discovers
  <2> QED BY <1>3, <1>4, <2>1, <2>2, <2>3, <2>4 DEF t
<1>7. CASE ~r.separate
  <2>1. t = RefreshDiscovery(e, isStopped)
    BY <1>2, <1>7
  <2> HIDE DEF d
  <2>2. /\ e \in Runs /\ e.disk = k /\ e.host = r.host /\ e.disc = r.disc
        /\ e.covered = r.covered /\ e.limited = r.limited
        /\ e.diskPartial = r.diskPartial /\ e.discPartial = r.discPartial
        /\ e.auditPartial = r.auditPartial
        /\ e.separate = r.separate /\ e.primary = p /\ e.discovery = p
    <3> HIDE DEF p
    <3> QED BY <1>1, <1>4 DEF Runs, Walks
  <2> HIDE DEF e
  <2>3. /\ t \in Runs /\ SameRun(e, t) /\ t.disk = e.disk /\ t.host = e.host
        /\ e.discovery # "open" => t.disc # "Running"
        /\ ~isStopped /\ ~e.limited /\ e.discovery = "ok" =>
             t.disc = IF e.discPartial THEN "Partial" ELSE "Complete"
    BY <2>1, <2>2, RefreshedDiscovery
  <2>4. WalksTell(t)
    <3> HIDE DEF p
    <3> QED BY <1>1, <1>3, <1>7, <2>2, <2>3 DEF WalksTell, SameRun
  <2>5. Sees(r, ev, t)
    BY <1>5, <1>7, <2>2, <2>3 DEF Sees, SameRun
  <2>6. Discovers(r, ev, isStopped, t)
    BY <1>7, <2>2, <2>3 DEF Discovers, SameRun
  <2> QED BY <1>3, <2>2, <2>3, <2>4, <2>5, <2>6 DEF t
<1> QED BY <1>1, <1>6, <1>7

\* After the match, before the refreshes: verdicts are untouched.
Unrefreshed(r, ev, isStopped, t) ==
  /\ WalksTell(t) /\ Sees(r, ev, t) /\ Learns(r, t) /\ Discovers(r, ev, isStopped, t)
  /\ t.disk.state = r.disk.state /\ t.host.state = r.host.state
  /\ ev.sec # Fs => t.disk = r.disk
  /\ Disjoint(t.host) /\ Counts(r.host, ev, t.host)
  /\ Fs \in t.host.done <=> Fs \in r.host.done
  /\ Fs \in t.host.failed <=> Fs \in r.host.failed

LEMMA EventSeen ==
  ASSUME NEW r, Consistent(r), NEW ev, SectionEvent(ev), NEW isStopped \in BOOLEAN
  PROVE  Unrefreshed(r, ev, isStopped, RunSeen(r, ev, isStopped))
<1> DEFINE t == RunSeen(r, ev, isStopped)
<1>1. /\ r \in Runs /\ r.disk \in Contexts /\ r.host \in Contexts
      /\ WalksTell(r) /\ Disjoint(r.host)
  BY DEF Consistent, WalksTell, HostTells, HostCounts, Runs
<1>2. CASE ev.kind = "Tree"
  <2>1. /\ t \in Runs /\ Sees(r, ev, t) /\ Learns(r, t)
        /\ SameContext(r.disk, t.disk) /\ SameContext(r.host, t.host)
        /\ t.disc = r.disc
    BY <1>2, TreeSeen
  <2>2. ~Terminal(ev) /\ ev.kind # "Finished" /\ ~WalkEnds(ev) /\ ev.sec = Fs
    BY <1>2 DEF SectionEvent, WalkEnds, Terminal
  <2> HIDE DEF t
  <2>3. WalksTell(t)
    BY <1>1, <2>1, <2>2 DEF WalksTell, Sees, SameContext
  <2> QED BY <1>1, <2>1, <2>2, <2>3
          DEF t, Unrefreshed, Discovers, SameContext, Counts, Ended, Disjoint
<1>3. CASE WalkEnds(ev)
  <2>1. /\ t \in Runs /\ Sees(r, ev, t) /\ Discovers(r, ev, isStopped, t)
        /\ WalksTell(t)
        /\ t.disk.state = r.disk.state /\ t.disk.why = r.disk.why
        /\ t.host = r.host
    BY <1>3, WalkEndSeen
  <2> HIDE DEF t
  <2> QED BY <1>1, <1>3, <2>1 DEF t, Unrefreshed, Learns, Counts, WalkEnds
<1>4. CASE Terminal(ev) /\ ev.sec # Fs
  <2> DEFINE ok == ev.kind = "Finished"
             h == RecordTerminal(r.host, ev.sec, ok)
  <2>1. t = [r EXCEPT !.host = h]
    BY <1>4 DEF RunSeen, Terminal
  <2>2. /\ h \in Contexts /\ h.state = r.host.state /\ h.why = r.host.why
        /\ ok => h.done = r.host.done \cup ({ev.sec} \ r.host.failed) /\ h.failed = r.host.failed
        /\ ~ok => h.done = r.host.done \ {ev.sec} /\ h.failed = r.host.failed \cup {ev.sec}
    BY <1>1 DEF RecordTerminal, Contexts, SectionEvent
  <2> HIDE DEF h, t
  <2>3. /\ t \in Runs /\ t.host = h /\ t.disk = r.disk /\ t.disc = r.disc /\ SameRun(r, t)
    BY <1>1, <2>1, <2>2 DEF Runs, SameRun
  <2>4. /\ Disjoint(h) /\ Counts(r.host, ev, h)
        /\ Fs \in h.done <=> Fs \in r.host.done
        /\ Fs \in h.failed <=> Fs \in r.host.failed
    BY <1>1, <1>4, <2>2 DEF Disjoint, Counts, Ended, Terminal
  <2>5. ~WalkEnds(ev) /\ ev.kind \notin {"Tree", "Finding", "Footprints"}
    BY <1>4 DEF WalkEnds, Terminal
  <2>6. WalksTell(t) /\ Sees(r, ev, t) /\ Learns(r, t) /\ Discovers(r, ev, isStopped, t)
    BY <1>1, <2>2, <2>3, <2>5 DEF WalksTell, Sees, Learns, Discovers, SameRun
  <2> QED BY <2>2, <2>3, <2>4, <2>6 DEF t, Unrefreshed
<1>5. CASE ~Terminal(ev) /\ ev.kind # "Tree"
  <2> DEFINE a == r.auditPartial \/ ev.val = "gaps"
  <2>1. t = IF ev.kind \in {"Finding", "Footprints"} THEN [r EXCEPT !.auditPartial = a] ELSE r
    BY <1>5 DEF RunSeen, Terminal
  <2> HIDE DEF t
  <2>2. /\ t \in Runs /\ t.host = r.host /\ t.disk = r.disk /\ t.disc = r.disc
        /\ t.diskPartial = r.diskPartial /\ t.discPartial = r.discPartial
        /\ t.limited = r.limited
        /\ t.separate = r.separate /\ t.primary = r.primary /\ t.discovery = r.discovery
        /\ t.auditPartial <=>
             r.auditPartial \/ (ev.kind \in {"Finding", "Footprints"} /\ ev.val = "gaps")
    BY <1>1, <2>1 DEF Runs
  <2>3. ~WalkEnds(ev) /\ ev.kind # "Finished"
    BY <1>5 DEF WalkEnds, Terminal
  <2>4. WalksTell(t)
    BY <1>1, <2>2 DEF WalksTell
  <2> QED BY <1>1, <1>5, <2>2, <2>3, <2>4
          DEF t, Unrefreshed, Sees, Learns, Discovers, Counts
<1> QED BY <1>2, <1>3, <1>4, <1>5 DEF WalkEnds

\* observe_run.
LEMMA RunObserved ==
  ASSUME NEW r, Consistent(r), NEW ev, SectionEvent(ev), NEW isStopped \in BOOLEAN
  PROVE  LET t == ObserveRun(r, ev, isStopped)
         IN  /\ Consistent(t)
             /\ Sees(r, ev, t) /\ Learns(r, t) /\ Discovers(r, ev, isStopped, t)
             /\ Counts(r.host, ev, t.host)
             /\ ev.sec # Fs => t.disk = r.disk
             /\ ev.sec = Fs => Decides(r.disk, t.disk, {Fs}, t.diskPartial, isStopped)
             /\ Decides(r.host, t.host, Sections, t.auditPartial \/ t.discPartial, isStopped)
<1> DEFINE seen == RunSeen(r, ev, isStopped)
           u == IF ev.sec = Fs THEN RefreshDisk(seen, isStopped) ELSE seen
           t == ObserveRun(r, ev, isStopped)
<1>1. /\ WalksTell(r) /\ DiskTells(r) /\ HostCounts(r)
      /\ r.primary \in Walks /\ r.discovery \in Walks
  BY DEF Consistent, HostTells, WalksTell, Runs
<1>2. Unrefreshed(r, ev, isStopped, seen)
  BY EventSeen
<1>3. t = RefreshHost(u, isStopped)
  BY ObserveRunIs
<1> HIDE DEF seen, t
<1>4. WalksTell(seen)
  BY <1>2 DEF Unrefreshed
<1>5. /\ WalksTell(u) /\ DiskTells(u) /\ SameRun(seen, u)
      /\ u.host = seen.host /\ u.disc = seen.disc
      /\ seen.disk.why \subseteq u.disk.why
      /\ ev.sec # Fs => u.disk = r.disk
      /\ ev.sec = Fs => Decides(r.disk, u.disk, {Fs}, u.diskPartial, isStopped)
  <2>1. CASE ev.sec = Fs
    <3>1. /\ WalksTell(u) /\ DiskTells(u) /\ SameRun(seen, u)
          /\ u.host = seen.host /\ u.disc = seen.disc
          /\ LooksAgain(seen.disk, u.disk, {Fs}, seen.diskPartial, isStopped)
      BY <1>4, <2>1, RefreshedDisk
    <3> HIDE DEF u
    <3>2. seen.disk.state = r.disk.state
      BY <1>2 DEF Unrefreshed
    <3> QED BY <2>1, <3>1, <3>2 DEF LooksAgain, Decides, StateWhenStopped, SameRun
  <2>2. CASE ev.sec # Fs
    <3>1. u = seen
      BY <2>2
    <3> HIDE DEF u
    <3>2. /\ u.disk = r.disk
          /\ u.primary = r.primary
      BY <1>2, <2>2, <3>1 DEF Unrefreshed, Sees, WalkEnds
    <3> QED BY <1>1, <1>4, <2>2, <3>1, <3>2 DEF DiskTells, SameRun
  <2> QED BY <2>1, <2>2
<1> HIDE DEF u
<1>6. u \in Runs /\ Disjoint(u.host) /\ WalkUncounted(u)
  <2>1. /\ Fs \in u.host.done <=> WalksGood(r)
        /\ Fs \in u.host.failed <=> WalksOver(r) /\ ~WalksGood(r)
    BY <1>1, <1>2, <1>5 DEF Unrefreshed, HostCounts
  <2>2. Sees(r, ev, u)
    BY <1>2, <1>5 DEF Unrefreshed, Sees, SameRun
  <2>3. ~WalksOver(u) => ~WalksOver(r)
    BY <1>1, <2>2 DEF WalksOver, Sees, WalksTell
  <2>4. WalksGood(u) /\ WalksOver(r) => WalksGood(r)
    BY <1>1, <2>2 DEF WalksOver, WalksGood, Sees, WalksTell, Walks
  <2>5. u \in Runs /\ Disjoint(u.host)
    BY <1>2, <1>5 DEF WalksTell, Unrefreshed
  <2> QED BY <2>1, <2>3, <2>4, <2>5 DEF WalkUncounted, Ended, WalksGood, WalksOver
<1>7. /\ t \in Runs /\ SameRun(u, t) /\ HostTells(t)
      /\ t.disk = u.disk /\ t.disc = u.disc
      /\ Ended(t.host) = Ended(u.host) \cup WalkEnding(u)
      /\ t.host.done \ {Fs} = u.host.done \ {Fs}
      /\ LooksAgain(u.host, t.host, Sections, u.auditPartial \/ u.discPartial, isStopped)
  BY <1>3, <1>6, RefreshedHost
<1>8. Consistent(t)
  <2>1. WalksTell(t)
    BY <1>5, <1>7 DEF WalksTell, SameRun
  <2>2. DiskTells(t)
    BY <1>5, <1>7 DEF DiskTells, SameRun
  <2> QED BY <1>7, <2>1, <2>2 DEF Consistent
<1>9. Sees(r, ev, t) /\ Discovers(r, ev, isStopped, t)
  BY <1>2, <1>5, <1>7 DEF Unrefreshed, Sees, Discovers, SameRun
<1>10. Learns(r, t)
  <2>1. /\ r.disk.why \subseteq seen.disk.why /\ r.host.why \subseteq seen.host.why
        /\ "ResourceLimited" \in seen.host.why => "ResourceLimited" \in r.host.why \/ seen.limited
    BY <1>2 DEF Unrefreshed, Learns
  <2>2. t.limited = seen.limited
    BY <1>5, <1>7 DEF SameRun
  <2> QED BY <1>5, <1>7, <2>1, <2>2 DEF Learns, LooksAgain
<1>11. Counts(r.host, ev, t.host)
  <2>1. Counts(r.host, ev, u.host)
    BY <1>2, <1>5 DEF Unrefreshed
  <2>2. \A s \in Sections \ {Fs} : /\ s \in t.host.done <=> s \in u.host.done
                                   /\ s \in Ended(t.host) <=> s \in Ended(u.host)
    BY <1>7 DEF WalkEnding
  <2> QED BY <2>1, <2>2 DEF Counts
<1>12. /\ ev.sec # Fs => t.disk = r.disk
       /\ ev.sec = Fs => Decides(r.disk, t.disk, {Fs}, t.diskPartial, isStopped)
  BY <1>5, <1>7 DEF SameRun
<1>13. Decides(r.host, t.host, Sections, t.auditPartial \/ t.discPartial, isStopped)
  <2>1. u.host.state = r.host.state
    BY <1>2, <1>5 DEF Unrefreshed
  <2> QED BY <1>7, <2>1 DEF LooksAgain, Decides, StateWhenStopped, SameRun
<1> QED BY <1>8, <1>9, <1>10, <1>11, <1>12, <1>13 DEF t

-----------------------------------------------------------------------------
(* observe_discovery, in a run that walks Home separately.                 *)

HomeEvent(ev) == ev.kind \in {"Finding", "Finished", "Failed"}

\* What the match of observe_discovery says of the Home walk.
Explores(r, ev, t) ==
  /\ t.separate = r.separate /\ t.primary = r.primary
  /\ t.diskPartial = r.diskPartial /\ t.auditPartial = r.auditPartial
  /\ ev.kind = "Finding" => t.discovery = r.discovery
  /\ ev.kind = "Finished" => t.discovery = IF r.discovery = "open" THEN "ok" ELSE r.discovery
  /\ ev.kind = "Failed" => t.discovery = "failed"

LEMMA HomeSeen ==
  ASSUME NEW r, Consistent(r), NEW ev, HomeEvent(ev), NEW isStopped \in BOOLEAN
  PROVE  LET t == DiscoverySeen(r, ev, isStopped)
         IN  /\ t \in Runs /\ Explores(r, ev, t)
             /\ t.disk = r.disk /\ SameContext(r.host, t.host) /\ t.disc = r.disc
             /\ "ResourceLimited" \in t.host.why =>
                  "ResourceLimited" \in r.host.why \/ t.limited
<1> DEFINE t == DiscoverySeen(r, ev, isStopped)
<1>1. r \in Runs /\ r.host \in Contexts
  BY DEF Consistent, WalksTell, Runs
<1>2. CASE ev.kind = "Finding"
  <2> DEFINE isPartial == ev.val # "whole"
             lim == ev.val = "limited"
             e == [r EXCEPT !.discPartial = isPartial]
  <2>1. t = SetDiscoveryCoverage(e, lim, isStopped)
    BY <1>2 DEF DiscoverySeen
  <2>2. isPartial \in BOOLEAN /\ lim \in BOOLEAN
    OBVIOUS
  <2> HIDE DEF isPartial, lim, t
  <2>3. /\ e \in Runs /\ e.disk = r.disk /\ e.host = r.host /\ e.disc = r.disc
        /\ e.diskPartial = r.diskPartial /\ e.auditPartial = r.auditPartial
        /\ e.separate = r.separate /\ e.primary = r.primary /\ e.discovery = r.discovery
    BY <1>1, <2>2 DEF Runs
  <2> HIDE DEF e
  <2>4. Covers(e, lim, t)
    BY <2>1, <2>2, <2>3, CoverageSet
  <2> QED BY <1>2, <2>3, <2>4 DEF t, Covers, Explores
<1>3. CASE ev.kind = "Finished"
  <2> DEFINE w == IF r.discovery = "open" THEN "ok" ELSE r.discovery
             isPartial == r.discPartial \/ ~r.covered
  <2>1. t = [r EXCEPT !.discovery = w, !.discPartial = isPartial]
    BY <1>3 DEF DiscoverySeen
  <2>2. w \in Walks /\ isPartial \in BOOLEAN
    BY <1>1 DEF Runs, Walks
  <2> HIDE DEF w, isPartial, t
  <2>3. /\ t \in Runs /\ t.disk = r.disk /\ t.host = r.host /\ t.disc = r.disc
        /\ t.diskPartial = r.diskPartial /\ t.auditPartial = r.auditPartial
        /\ t.separate = r.separate /\ t.primary = r.primary /\ t.discovery = w
        /\ t.limited = r.limited
    BY <1>1, <2>1, <2>2 DEF Runs
  <2> QED BY <1>1, <1>3, <2>3 DEF t, w, Explores, SameContext
<1>4. CASE ev.kind = "Failed"
  <2> DEFINE cov == r.covered \/ ev.val = "limit"
             lim == r.limited \/ ev.val = "limit"
  <2>1. t = [r EXCEPT !.discovery = "failed", !.discPartial = TRUE, !.covered = cov,
                      !.limited = lim]
    BY <1>4 DEF DiscoverySeen
  <2>2. cov \in BOOLEAN /\ lim \in BOOLEAN
    BY <1>1 DEF Runs
  <2> HIDE DEF cov, lim, t
  <2>3. /\ t \in Runs /\ t.disk = r.disk /\ t.host = r.host /\ t.disc = r.disc
        /\ t.diskPartial = r.diskPartial /\ t.auditPartial = r.auditPartial
        /\ t.separate = r.separate /\ t.primary = r.primary /\ t.discovery = "failed"
    BY <1>1, <2>1, <2>2 DEF Runs, Walks
  <2> QED BY <1>1, <1>4, <2>3 DEF t, Explores, SameContext
<1> QED BY <1>2, <1>3, <1>4 DEF HomeEvent

\* What is known of Home does not become unknown.
StaysSettled(r, t) == r.disc # "Running" => t.disc # "Running"

\* The verdict on the Home walk, when nothing stops the run.
Concludes(r, t) ==
  /\ t.discovery = "open" => t.disc = r.disc
  /\ t.discovery = "ok" => t.disc = IF t.discPartial THEN "Partial" ELSE "Complete"

LEMMA DiscoveryObserved ==
  ASSUME NEW r, Consistent(r), r.separate, NEW ev, HomeEvent(ev), NEW isStopped \in BOOLEAN
  PROVE  LET t == ObserveDiscovery(r, ev, isStopped)
         IN  /\ Consistent(t)
             /\ Explores(r, ev, t) /\ Learns(r, t) /\ StaysSettled(r, t)
             /\ \A s \in Sections \ {Fs} : /\ s \in t.host.done <=> s \in r.host.done
                                           /\ s \in Ended(t.host) <=> s \in Ended(r.host)
             /\ t.limited =>
                  /\ "ResourceLimited" \in t.host.why /\ t.host.state = "Partial"
                  /\ t.disk.state = StateWhenStopped(r.disk) /\ t.disc # "Running"
             /\ ~t.limited =>
                  /\ t.disk = r.disk
                  /\ Decides(r.host, t.host, Sections, t.auditPartial \/ t.discPartial,
                             isStopped)
                  /\ ~isStopped => Concludes(r, t)
<1> DEFINE seen == DiscoverySeen(r, ev, isStopped)
           k == Limit(seen.host)
           a == [seen EXCEPT !.host = k]
           b == SetDiscoveryCoverage(a, TRUE, TRUE)
           halted == RefreshDisk(b, TRUE)
           u == IF seen.limited THEN RefreshDiscovery(halted, TRUE)
                                ELSE RefreshDiscovery(seen, isStopped)
           cut == IF seen.limited THEN TRUE ELSE isStopped
           t == ObserveDiscovery(r, ev, isStopped)
<1>1. /\ r \in Runs /\ WalksTell(r) /\ DiskTells(r) /\ HostCounts(r)
      /\ r.primary \in Walks /\ r.discovery \in Walks
      /\ r.disk \in Contexts /\ r.host \in Contexts
  BY DEF Consistent, HostTells, WalksTell, Runs
<1>2. /\ seen \in Runs /\ Explores(r, ev, seen)
      /\ seen.disk = r.disk /\ SameContext(r.host, seen.host) /\ seen.disc = r.disc
      /\ "ResourceLimited" \in seen.host.why =>
           "ResourceLimited" \in r.host.why \/ seen.limited
  BY HomeSeen
<1>3. t = RefreshHost(u, cut)
  BY DEF ObserveDiscovery
<1> HIDE DEF seen, t
<1>4. /\ seen.primary = r.primary /\ seen.separate = r.separate
      /\ r.discovery # "open" => seen.discovery # "open"
      /\ r.discovery = "failed" => seen.discovery = "failed"
      /\ seen.host \in Contexts
  BY <1>2 DEF Explores, HomeEvent, Runs
\* Before the host is looked at again.
<1>5. /\ u \in Runs /\ WalksTell(u) /\ DiskTells(u)
      /\ Explores(r, ev, u) /\ u.limited = seen.limited
      /\ u.discPartial = seen.discPartial
      /\ SameContext(r.disk, u.disk) \/ u.disk.state = StateWhenStopped(r.disk)
      /\ r.disk.why \subseteq u.disk.why
      /\ u.host.done = r.host.done /\ u.host.failed = r.host.failed
      /\ r.host.why \subseteq u.host.why
      /\ "ResourceLimited" \in u.host.why => "ResourceLimited" \in r.host.why \/ u.limited
      /\ u.limited => /\ "ResourceLimited" \in u.host.why /\ u.host.state = "Partial"
                      /\ u.disk.state = StateWhenStopped(r.disk) /\ u.disc # "Running"
      /\ StaysSettled(r, u)
      /\ ~u.limited => /\ u.disk = r.disk /\ u.host.state = r.host.state
                       /\ ~isStopped => Concludes(r, u)
  <2>1. CASE seen.limited
    <3>1. /\ k \in Contexts /\ k.state = "Partial"
          /\ k.done = seen.host.done /\ k.failed = seen.host.failed
          /\ k.why = seen.host.why \cup {"ResourceLimited"}
      BY <1>4, LimitedContext
    <3> HIDE DEF k
    <3>2. /\ a \in Runs /\ a.host = k /\ a.disk = r.disk /\ a.disc = r.disc
          /\ Explores(r, ev, a) /\ a.discPartial = seen.discPartial
      BY <1>2, <3>1 DEF Runs, Explores
    <3> HIDE DEF a
    <3>3. Covers(a, TRUE, b)
      BY <3>2, CoverageSet
    <3> HIDE DEF b
    <3>4. /\ b \in Runs /\ b.disk = r.disk /\ b.disc = r.disc /\ Explores(r, ev, b)
          /\ b.discPartial = seen.discPartial /\ b.limited
          /\ b.host.state = "Partial"
          /\ b.host.done = r.host.done /\ b.host.failed = r.host.failed
          /\ r.host.why \subseteq b.host.why /\ "ResourceLimited" \in b.host.why
      BY <1>2, <3>1, <3>2, <3>3 DEF Covers, SameContext, Explores
    <3>5. /\ b.disk.done = IF b.primary = "ok" THEN {Fs} ELSE {}
          /\ b.disk.failed = IF b.primary = "failed" THEN {Fs} ELSE {}
          /\ b.separate /\ b.disk \in Contexts
      BY <1>1, <3>4 DEF WalksTell, Explores
    <3>6. /\ halted \in Runs /\ SameRun(b, halted)
          /\ halted.host = b.host /\ halted.disc = b.disc
          /\ halted.disk = Stop(b.disk)
      <4>1. Stop(b.disk) \in Contexts
        BY <3>5, StoppedContext
      <4>2. halted = [b EXCEPT !.disk = Stop(b.disk)]
        BY DEF RefreshDisk, Refreshed
      <4> HIDE DEF halted
      <4> QED BY <3>4, <4>1, <4>2 DEF Runs, SameRun
    <3>7. /\ halted.disk \in Contexts
          /\ halted.disk.state = StateWhenStopped(b.disk)
          /\ halted.disk.done = b.disk.done /\ halted.disk.failed = b.disk.failed
          /\ b.disk.why \subseteq halted.disk.why
      BY <3>5, <3>6, StoppedContext
    <3> HIDE DEF halted
    <3>8. u = RefreshDiscovery(halted, TRUE)
      BY <2>1
    <3> HIDE DEF u
    <3>9. /\ u \in Runs /\ SameRun(halted, u) /\ u.disk = halted.disk /\ u.host = halted.host
          /\ u.disc # "Running"
      BY <3>6, <3>8, RefreshedDiscovery
    <3>10. /\ Explores(r, ev, u) /\ u.limited = seen.limited
           /\ u.discPartial = seen.discPartial
      BY <2>1, <3>4, <3>6, <3>9 DEF Explores, SameRun, Runs
    <3>11. WalksTell(u) /\ DiskTells(u)
      BY <1>1, <3>4, <3>5, <3>6, <3>7, <3>9, <3>10
         DEF WalksTell, DiskTells, Explores, SameRun, StateWhenStopped
    <3> QED BY <2>1, <3>4, <3>6, <3>7, <3>9, <3>10, <3>11 DEF StaysSettled
  <2>2. CASE ~seen.limited
    <3>1. u = RefreshDiscovery(seen, isStopped)
      BY <2>2
    <3> HIDE DEF u
    <3>2. /\ u \in Runs /\ SameRun(seen, u) /\ u.disk = seen.disk /\ u.host = seen.host
          /\ seen.discovery # "open" \/ isStopped => u.disc # "Running"
          /\ ~isStopped /\ seen.discovery = "open" => u.disc = seen.disc
          /\ ~isStopped /\ ~seen.limited /\ seen.discovery = "ok" =>
               u.disc = IF seen.discPartial THEN "Partial" ELSE "Complete"
      BY <1>2, <3>1, RefreshedDiscovery
    <3>3. Explores(r, ev, u)
      BY <1>2, <3>2 DEF Explores, SameRun
    <3>4. WalksTell(u) /\ DiskTells(u)
      BY <1>1, <1>2, <3>2, <3>3 DEF WalksTell, DiskTells, Explores, SameRun
    <3>5. ~isStopped => Concludes(r, u)
      BY <1>2, <2>2, <3>2 DEF Concludes, SameRun
    <3>6. StaysSettled(r, u)
      BY <1>2, <3>2 DEF StaysSettled
    <3> QED BY <1>1, <1>2, <2>2, <3>2, <3>3, <3>4, <3>5, <3>6 DEF SameContext, SameRun
  <2> QED BY <2>1, <2>2
<1> HIDE DEF u
<1>6. Disjoint(u.host) /\ WalkUncounted(u) /\ cut \in BOOLEAN
  <2>1. /\ Fs \in u.host.done <=> WalksGood(r)
        /\ Fs \in u.host.failed <=> WalksOver(r) /\ ~WalksGood(r)
        /\ Disjoint(u.host)
    BY <1>1, <1>5 DEF HostCounts, Disjoint
  <2>2. /\ ~WalksOver(u) => ~WalksOver(r)
        /\ WalksGood(u) /\ WalksOver(r) => WalksGood(r)
    BY <1>1, <1>5 DEF WalksOver, WalksGood, Explores, HomeEvent, Walks
  <2> QED BY <2>1, <2>2 DEF WalkUncounted, Ended, WalksGood, WalksOver
<1> HIDE DEF cut
<1>7. /\ t \in Runs /\ SameRun(u, t) /\ HostTells(t)
      /\ t.disk = u.disk /\ t.disc = u.disc
      /\ Ended(t.host) = Ended(u.host) \cup WalkEnding(u)
      /\ t.host.done \ {Fs} = u.host.done \ {Fs}
      /\ LooksAgain(u.host, t.host, Sections, u.auditPartial \/ u.discPartial, cut)
  BY <1>3, <1>5, <1>6, RefreshedHost
<1>8. Consistent(t)
  BY <1>5, <1>7 DEF Consistent, WalksTell, DiskTells, SameRun
<1>9. Explores(r, ev, t) /\ Learns(r, t) /\ StaysSettled(r, t)
  BY <1>5, <1>7 DEF Explores, SameRun, Learns, LooksAgain, StaysSettled
<1>10. \A s \in Sections \ {Fs} : /\ s \in t.host.done <=> s \in r.host.done
                                  /\ s \in Ended(t.host) <=> s \in Ended(r.host)
  BY <1>5, <1>7 DEF WalkEnding, Ended
<1>11. t.limited =>
         /\ "ResourceLimited" \in t.host.why /\ t.host.state = "Partial"
         /\ t.disk.state = StateWhenStopped(r.disk) /\ t.disc # "Running"
  BY <1>5, <1>7 DEF cut, SameRun, LooksAgain, Decides, StateWhenStopped
<1>12. ~t.limited =>
         /\ t.disk = r.disk
         /\ Decides(r.host, t.host, Sections, t.auditPartial \/ t.discPartial, isStopped)
         /\ ~isStopped => Concludes(r, t)
  BY <1>5, <1>7 DEF cut, SameRun, LooksAgain, Decides, StateWhenStopped, Concludes
<1> QED BY <1>8, <1>9, <1>10, <1>11, <1>12 DEF t

-----------------------------------------------------------------------------
(* Part two: the engine.                                                   *)

-----------------------------------------------------------------------------
(* The invariant: types.                                                   *)

WorkerStates ==
  [pc : {"scan", "end", "gone", "dead"}, stage : 0..3, out : Events \cup {Nothing}]

ChannelStates == [open : BOOLEAN, items : Seq(Messages), seen : Messages \cup {Nothing}]

TypeInv ==
  /\ gen \in 0..MaxRuns
  /\ stopped \in SUBSET (1..gen) /\ cause \in SUBSET {"user", "limit"}
  /\ bus \in [Sections -> Bus!Entries]
  /\ worker \in [RunIds -> [Workers -> WorkerStates]]
  /\ queue \in [RunIds -> [Lanes -> Seq(Events)]]
  /\ \A g \in RunIds, l \in Lanes : Len(queue[g][l]) <= LaneCap(l)
  /\ hold \in [RunIds -> [Lanes -> Notices \cup Phases]]
  /\ awaited \in SUBSET (1..gen)
  /\ tx \in [RunIds -> Channels \cup {Nothing}]
  /\ chan \in [Channels -> ChannelStates]
  /\ \A c \in Channels : Len(chan[c].items) <= ChannelCap
  /\ source \in [Sections -> {"none", "open", "finished", "failed"}]
  /\ sent \in [Sections -> Bus!Contents]
  /\ told \in SUBSET Sections

\* Events that come from the sections' workers, and from the Home worker.
SectionEvents == {ev \in Events :
  /\ BusItem(ev) => ev.val \in Qualities
  /\ ev.kind = "Footprints" => ev.sec # Fs
  /\ ev.kind \in {"Tree", "DiskFinding"} => ev.sec = Fs}

HomeEvents == {ev \in Events :
  ev.sec = Fs /\ ev.kind \in {"Started", "Finding", "Finished", "Failed"}}

LaneEvents(l) == IF l = "home" THEN HomeEvents ELSE SectionEvents

\* Every event speaks for the worker that sends it, and takes its lane.
EventsInv ==
  /\ \A g \in RunIds, w \in Workers :
       worker[g][w].out # Nothing =>
         worker[g][w].out \in LaneEvents(LaneOf(w)) /\ worker[g][w].out.sec = SectionOf(w)
  /\ \A g \in RunIds, l \in Lanes : \A i \in 1..Len(queue[g][l]) :
       queue[g][l][i] \in LaneEvents(l)

\* What is sent at which point of a worker's life.  A section fails before
\* its scanner has returned only when a limit stops the run.
WorkersInv ==
  /\ \A g \in RunIds, w \in Workers :
       /\ IsOut(g, w) => worker[g][w].out = Nothing
       /\ worker[g][w].pc = "end" => worker[g][w].out # Nothing /\ Terminal(worker[g][w].out)
       /\ worker[g][w].pc = "scan" /\ worker[g][w].out # Nothing =>
            /\ worker[g][w].out.kind # "Finished"
            /\ worker[g][w].out.kind = "Failed" => g \in stopped /\ w \notin {Fs, Home}
  /\ \A g \in RunIds, l \in Lanes : hold[g][l] = "withdrawn" => g \in stopped

\* A run has a channel, and nothing of a run is there before it starts.
RunsInv ==
  /\ \A g \in 1..gen : tx[g] \in Channels
  /\ \A g \in RunIds : g > gen =>
       /\ \A w \in Workers : worker[g][w] = Gone
       /\ \A l \in Lanes : queue[g][l] = <<>> /\ hold[g][l] = Nothing

BusInv == \A s \in Sections : bus[s].gen = gen

-----------------------------------------------------------------------------
(* The invariant: the current run.                                         *)

Line == queue[gen]["sections"]
At(w) == worker[gen][w]

\* An event after which its section says nothing more: a section that fails
\* at a resource limit ends once more, in a run that is then stopped.
IsLast(ev) == \/ ev.kind = "Finished"
              \/ ev.kind = "Failed" /\ (ev.sec = Fs \/ gen \notin stopped)

IsOver(s) == \/ source[s] = "finished"
             \/ source[s] = "failed" /\ (s = Fs \/ gen \notin stopped)

\* Section s is not on its way to a success.
NoSuccess(s) ==
  /\ At(s).pc = "scan" => gen \in stopped
  /\ At(s).out # Nothing => At(s).out.kind # "Finished"

\* Endings come last, and no success comes after a failure.
OrderInv ==
  \A s \in Sections :
    /\ source[s] # "none"
    /\ IsOver(s) => At(s).pc = "gone" /\ \A i \in 1..Len(Line) : Line[i].sec # s
    /\ source[s] = "failed" => NoSuccess(s)
    /\ \A i \in 1..Len(Line) : Line[i].sec = s =>
         /\ IsLast(Line[i]) => At(s).pc = "gone"
         /\ Line[i].kind = "Failed" => NoSuccess(s)
         /\ source[s] = "failed" => Line[i].kind # "Finished"
         /\ \A j \in (i + 1)..Len(Line) : Line[j].sec = s =>
              ~IsLast(Line[i]) /\ (Line[i].kind = "Failed" => Line[j].kind # "Finished")

\* What has to be known before section s may finish: the tree of the walk,
\* and for an attribution section its dependencies, or else that some are
\* missing.
Known(s) ==
  /\ s = Fs => sent[Fs]["tree"] # Nothing
  /\ Deps[s] # {} => run.auditPartial \/ \A d \in Deps[s] : bus[d].valid # Nothing

Teaches(ev, s) ==
  /\ ev.sec = s
  /\ IF s = Fs THEN ev.kind = "Tree" ELSE ev.kind = "Footprints" /\ ev.val = "gaps"

\* Known by the time the first n events of the line are forwarded.
Ahead(s, n) == Known(s) \/ \E i \in 1..n : Teaches(Line[i], s)

AheadInv ==
  \A s \in Sections :
    /\ source[s] = "finished" => Known(s)
    /\ At(s).out # Nothing /\ At(s).out.kind = "Finished" => Ahead(s, Len(Line))
    /\ At(s).pc = "scan" /\ At(s).stage >= 2 /\ gen \notin stopped =>
         Ahead(s, Len(Line)) \/ (At(s).out # Nothing /\ Teaches(At(s).out, s))
    /\ \A i \in 1..Len(Line) : Line[i].kind = "Finished" /\ Line[i].sec = s =>
         Ahead(s, i - 1)

Ending(s) == \E i \in 1..Len(Line) : Terminal(Line[i]) /\ Line[i].sec = s

\* The ending of a worker that is gone is somewhere on its way.
EndsInv ==
  \A s \in Sections : At(s).pc = "gone" =>
    /\ source[s] \in {"finished", "failed"} \/ Ending(s)
    /\ gen \notin stopped => s \in told \/ hold[gen]["sections"] = s \/ Ending(s)

\* The walk has no other tree to send.
IsTree(ev) == ev # Nothing /\ ev.kind = "Tree"
TreesOver == /\ At(Fs).pc = "scan" => At(Fs).stage >= 2
             /\ ~IsTree(At(Fs).out)

TreesInv ==
  /\ IsTree(At(Fs).out) => At(Fs).stage >= 2
  /\ \A i \in 1..Len(Line) : Line[i].kind = "Tree" /\ Line[i].val = "limited" =>
       TreesOver /\ \A j \in (i + 1)..Len(Line) : Line[j].kind # "Tree"
  /\ run.limited /\ gen \notin stopped =>
       TreesOver /\ \A j \in 1..Len(Line) : Line[j].kind # "Tree"

HomeInv ==
  LET line == queue[gen]["home"]
      isQuiet == IsOut(gen, Home) /\ line = <<>>
  IN  /\ ~run.separate => isQuiet /\ hold[gen]["home"] = Nothing /\ gen \notin awaited
      /\ run.separate /\ run.discovery # "open" => isQuiet
      /\ run.separate /\ gen \notin awaited => run.discovery # "open"
      /\ line # <<>> /\ Terminal(line[1]) => At(Home).pc = "gone"

\* The metadata and the endings and items that were forwarded.
HistoryInv ==
  /\ run.primary = CASE source[Fs] = "open" -> "open"
                     [] source[Fs] = "finished" -> "ok"
                     [] source[Fs] = "failed" -> "failed"
  /\ run.diskPartial <=> sent[Fs]["tree"] \notin {Nothing, "whole"}
  /\ \A s \in Sections \ {Fs} :
       /\ s \in Ended(run.host) <=> source[s] # "open"
       /\ s \in run.host.done => source[s] = "finished"
       /\ sent[s]["finding"] = "gaps" => run.auditPartial

\* In a run that was not stopped a verdict comes with the last ending.
Unhurried(r) ==
  /\ r.disk.state # "Running" => r.primary # "open"
  /\ r.host.state # "Running" => Ended(r.host) = Sections
  /\ r.limited => ~r.separate /\ r.discPartial
  /\ "ResourceLimited" \in r.host.why => r.limited
  /\ r.discovery = "ok" /\ ~r.discPartial => r.disc = "Complete"

LiveInv == gen \notin stopped => Unhurried(run)

CompleteInv ==
  /\ run.disk.state = "Complete" =>
       source[Fs] = "finished" /\ sent[Fs]["tree"] = "whole"
  /\ run.host.state = "Complete" =>
       /\ \A s \in Sections : source[s] = "finished"
       /\ ~run.auditPartial /\ run.disc = "Complete" /\ run.discovery = "ok"

CurrentInv == /\ OrderInv /\ AheadInv /\ EndsInv /\ TreesInv /\ HomeInv
              /\ HistoryInv /\ LiveInv /\ CompleteInv /\ StopHasOwnCause

Inv == /\ TypeInv /\ EventsInv /\ WorkersInv /\ RunsInv /\ BusInv
       /\ Consistent(run)
       /\ gen = 0 => cause = {}
       /\ gen > 0 => CurrentInv

-----------------------------------------------------------------------------
(* The bus as the engine uses it.                                          *)

\* The entries b have become c: those of the same run, with a snapshot where
\* there was one.
Keeps(b, c) ==
  /\ c \in [Sections -> Bus!Entries]
  /\ \A s \in Sections : /\ c[s].gen = b[s].gen
                         /\ b[s].valid # Nothing => c[s].valid # Nothing

LEMMA BusEntries ==
  ASSUME NEW b \in [Sections -> Bus!Entries], NEW s \in Sections
  PROVE  /\ b[s].gen \in 0..MaxRuns /\ b[s].terminal \in BOOLEAN
         /\ b[s].acc \in Bus!Contents /\ b[s].valid \in Bus!Snapshots \cup {Nothing}
         /\ b[s] = [gen |-> b[s].gen, terminal |-> b[s].terminal, acc |-> b[s].acc,
                    valid |-> b[s].valid]
BY DEF Bus!Entries

LEMMA SilencedEntry ==
  ASSUME NEW e \in Bus!Entries
  PROVE  /\ Bus!Silenced(e) \in Bus!Entries
         /\ Bus!Silenced(e).gen = e.gen /\ Bus!Silenced(e).valid = e.valid
         /\ Bus!Silenced(e).terminal
BY DEF Bus!Entries, Bus!Silenced, Bus!NoItems, Bus!Contents

LEMMA BusCancelled ==
  ASSUME NEW b \in [Sections -> Bus!Entries], NEW g
  PROVE  Keeps(b, Bus!Cancelled(b, g))
<1> DEFINE c == Bus!Cancelled(b, g)
<1>1. c = [s \in Sections |-> IF b[s].gen = g THEN Bus!Silenced(b[s]) ELSE b[s]]
  BY DEF Bus!Cancelled
<1>2. ASSUME NEW s \in Sections
      PROVE  c[s] \in Bus!Entries /\ c[s].gen = b[s].gen /\ c[s].valid = b[s].valid
  <2> DEFINE e == b[s]
             f == Bus!Silenced(e)
  <2>1. e \in Bus!Entries
    OBVIOUS
  <2>2. c[s] = IF e.gen = g THEN f ELSE e
    BY <1>1
  <2>3. f \in Bus!Entries /\ f.gen = e.gen /\ f.valid = e.valid
    <3> HIDE DEF e
    <3> QED BY <2>1, SilencedEntry
  <2> HIDE DEF f, c
  <2> QED BY <2>1, <2>2, <2>3
<1>3. c \in [Sections -> Bus!Entries]
  BY <1>1, <1>2
<1> QED BY <1>2, <1>3 DEF Keeps

LEMMA BusBegun ==
  ASSUME NEW b, NEW g \in 0..MaxRuns
  PROVE  /\ Bus!Begun(b, g) \in [Sections -> Bus!Entries]
         /\ \A s \in Sections : Bus!Begun(b, g)[s].gen = g
BY DEF Bus!Begun, Bus!Registered, Bus!Entries, Bus!NoItems, Bus!Contents

\* What the bus hears of an event of the current run.
LEMMA BusHearsEvent ==
  ASSUME bus \in [Sections -> Bus!Entries], NEW ev \in SectionEvents,
         bus[ev.sec].gen > 0, NEW isStopped \in BOOLEAN
  PROVE  Keeps(bus, BusHears(ev, isStopped))
<1> DEFINE s == ev.sec
           e == bus[s]
<1>1. s \in Sections /\ e \in Bus!Entries
  BY DEF SectionEvents, Events
<1>2. CASE BusItem(ev)
  <2> DEFINE f == Bus!AfterItem(e, KeyOf(ev), ev.val, isStopped)
  <2>1. BusHears(ev, isStopped) = [bus EXCEPT ![s] = f]
    BY <1>2 DEF BusHears, BusItem
  <2>2. ev.val \in Qualities /\ KeyOf(ev) \in Keys
    BY <1>2 DEF SectionEvents, KeyOf, Keys
  <2>3. f \in Bus!Entries /\ f.gen = e.gen /\ f.valid = e.valid
    <3> DEFINE k == KeyOf(ev)
               acc == [e.acc EXCEPT ![k] = ev.val]
    <3>1. acc \in Bus!Contents
      BY <1>1, <2>2 DEF Bus!Entries, Bus!Contents
    <3>2. f = IF e.terminal \/ isStopped THEN e ELSE [e EXCEPT !.acc = acc]
      BY DEF Bus!AfterItem
    <3> HIDE DEF acc, f, e
    <3> QED BY <1>1, <3>1, <3>2 DEF Bus!Entries
  <2> HIDE DEF f
  <2> QED BY <1>1, <2>1, <2>3 DEF Keeps
<1>3. CASE ev.kind = "Finished"
  <2> DEFINE f == Bus!AfterFinished(e, isStopped)
  <2>1. BusHears(ev, isStopped) = [bus EXCEPT ![s] = f]
    BY <1>3 DEF BusHears, BusItem
  <2>2. f \in Bus!Entries /\ f.gen = e.gen /\ (e.valid # Nothing => f.valid # Nothing)
    <3>1. CASE isStopped
      <4>1. f = Bus!Silenced(e)
        BY <3>1 DEF Bus!AfterFinished
      <4> QED BY <1>1, <4>1, SilencedEntry
    <3>2. CASE ~isStopped
      <4>1. [gen |-> e.gen, items |-> e.acc] \in Bus!Snapshots
        BY <1>1 DEF Bus!Entries, Bus!Snapshots, Bus!Gens
      <4>s. [gen |-> e.gen, items |-> e.acc] # Nothing
        BY <4>1, TagAssumption
      <4>2. f = [e EXCEPT !.terminal = TRUE, !.acc = Bus!NoItems,
                          !.valid = [gen |-> e.gen, items |-> e.acc]]
        BY <3>2 DEF Bus!AfterFinished
      <4>3. Bus!NoItems \in Bus!Contents
        BY DEF Bus!NoItems, Bus!Contents
      <4> HIDE DEF f
      <4> QED BY <1>1, <4>1, <4>s, <4>2, <4>3 DEF Bus!Entries
    <3> QED BY <3>1, <3>2
  <2> HIDE DEF f
  <2> QED BY <1>1, <2>1, <2>2 DEF Keeps
<1>4. CASE ev.kind = "Failed"
  <2> DEFINE f == Bus!Silenced(e)
  <2>1. BusHears(ev, isStopped) = [bus EXCEPT ![s] = f]
    BY <1>4 DEF BusHears, BusItem
  <2>2. f \in Bus!Entries /\ f.gen = e.gen /\ f.valid = e.valid
    BY <1>1, SilencedEntry
  <2> HIDE DEF f
  <2> QED BY <1>1, <2>1, <2>2 DEF Keeps
<1>5. CASE ~BusItem(ev) /\ ev.kind \notin {"Finished", "Failed"}
  <2>1. BusHears(ev, isStopped) = bus
    BY <1>5 DEF BusHears
  <2> QED BY <2>1 DEF Keeps
<1> QED BY <1>2, <1>3, <1>4, <1>5

-----------------------------------------------------------------------------
(* Steps that leave the workers and the lines of the current run alone.    *)

\* What a cancellation and a limit leave of the metadata.
RunKept(r, t) ==
  /\ SameRun(r, t)
  /\ t.host.done = r.host.done /\ t.host.failed = r.host.failed
  /\ t.disk.state = "Complete" => r.disk.state = "Complete"
  /\ t.host.state = "Complete" => r.host.state = "Complete"
  /\ r.disc = "Complete" => t.disc = "Complete"
  /\ r.disk.why \subseteq t.disk.why /\ r.host.why \subseteq t.host.why

LEMMA StoppedKept ==
  ASSUME NEW r \in Runs
  PROVE  RunKept(r, StopContexts(r))
<1> DEFINE t == StopContexts(r)
<1>1. /\ t \in Runs /\ SameRun(r, t)
      /\ t.disk = Stop(r.disk) /\ t.host = Stop(r.host)
      /\ t.disc = IF r.disc = "Running" THEN "Cancelled" ELSE r.disc
  BY StoppedRun
<1> HIDE DEF t
<1>2. r.disk \in Contexts /\ r.host \in Contexts
  BY DEF Runs
<1>3. /\ t.disk.state = StateWhenStopped(r.disk) /\ r.disk.why \subseteq t.disk.why
      /\ t.host.state = StateWhenStopped(r.host) /\ r.host.why \subseteq t.host.why
      /\ t.host.done = r.host.done /\ t.host.failed = r.host.failed
  BY <1>1, <1>2, StoppedContext
<1> QED BY <1>1, <1>3 DEF RunKept, StateWhenStopped, t

LEMMA MarkedKept ==
  ASSUME NEW r \in Runs, NEW isHost \in BOOLEAN
  PROVE  /\ RunKept(r, MarkLimited(r, isHost))
         /\ "ResourceLimited" \in MarkLimited(r, isHost).disk.why
                                    \cup MarkLimited(r, isHost).host.why
<1> DEFINE t == MarkLimited(r, isHost)
<1>1. /\ t \in Runs /\ SameRun(r, t)
      /\ t.disk = IF isHost THEN Stop(r.disk) ELSE Limit(Stop(r.disk))
      /\ t.host = IF isHost THEN Limit(Stop(r.host)) ELSE Stop(r.host)
      /\ t.disc = IF r.disc = "Running" THEN "Cancelled" ELSE r.disc
  BY MarkedRun
<1> HIDE DEF t
<1> DEFINE d == Stop(r.disk)
           h == Stop(r.host)
<1>2. /\ d \in Contexts /\ d.state = StateWhenStopped(r.disk) /\ r.disk.why \subseteq d.why
      /\ h \in Contexts /\ h.state = StateWhenStopped(r.host) /\ r.host.why \subseteq h.why
      /\ h.done = r.host.done /\ h.failed = r.host.failed
  <2>1. r.disk \in Contexts /\ r.host \in Contexts
    BY DEF Runs
  <2> QED BY <2>1, StoppedContext
<1> HIDE DEF d, h
<1>3. /\ Limit(d).state = "Partial" /\ Limit(d).why = d.why \cup {"ResourceLimited"}
      /\ Limit(h).state = "Partial" /\ Limit(h).why = h.why \cup {"ResourceLimited"}
      /\ Limit(h).done = h.done /\ Limit(h).failed = h.failed
  BY <1>2, LimitedContext
<1>4. /\ t.disk = IF isHost THEN d ELSE Limit(d)
      /\ t.host = IF isHost THEN Limit(h) ELSE h
  BY <1>1 DEF d, h
<1> QED BY <1>1, <1>2, <1>3, <1>4 DEF RunKept, StateWhenStopped, t

LEMMA RunKeptItself ==
  ASSUME NEW r
  PROVE  RunKept(r, r)
BY DEF RunKept, SameRun

\* No event of the sections is forwarded; the run may be stopped, and what is
\* held of its sections be published.
SteadyRun ==
  /\ gen' = gen /\ source' = source /\ sent' = sent
  /\ gen \in stopped => gen \in stopped'
  /\ RunKept(run, run') /\ (run' = run \/ gen \in stopped')
  /\ Keeps(bus, bus')
  /\ gen \notin stopped' =>
       \A s \in Sections : s \in told \/ hold[gen]["sections"] = s =>
                             s \in told' \/ hold'[gen]["sections"] = s

\* No event of Home is either.
Steady ==
  /\ SteadyRun
  /\ hold[gen]["home"] = Nothing => hold'[gen]["home"] = Nothing
  /\ gen \in awaited' <=> gen \in awaited

LEMMA SteadyKnows ==
  ASSUME SteadyRun
  PROVE  \A s \in Sections : Known(s) => Known(s)'
<1> SUFFICES ASSUME NEW s \in Sections PROVE Known(s) => Known(s)'
  OBVIOUS
<1>1. Deps[s] \in SUBSET Sections
  BY EngineAssumption
<1>2. ASSUME NEW d \in Sections, bus[d].valid # Nothing
      PROVE  bus'[d].valid # Nothing
  BY <1>2 DEF SteadyRun, Keeps
<1>3. run'.auditPartial = run.auditPartial
  BY DEF SteadyRun, RunKept, SameRun
<1> QED BY <1>1, <1>2, <1>3 DEF Known, SteadyRun

LEMMA SteadyMetadata ==
  ASSUME SteadyRun, HistoryInv, LiveInv, CompleteInv
  PROVE  HistoryInv' /\ LiveInv' /\ CompleteInv'
<1>1. HistoryInv'
  BY DEF HistoryInv, SteadyRun, RunKept, SameRun, Ended
<1>2. LiveInv'
  BY DEF LiveInv, SteadyRun
<1>3. CompleteInv'
  BY DEF CompleteInv, SteadyRun, RunKept, SameRun
<1> QED BY <1>1, <1>2, <1>3

\* What is weaker of a run that may be stopped.
LEMMA SteadyOrder ==
  ASSUME SteadyRun
  PROVE  /\ \A ev : IsLast(ev)' => IsLast(ev)
         /\ \A s : IsOver(s)' => IsOver(s)
         /\ \A s : source'[s] = source[s]
BY DEF SteadyRun, IsLast, IsOver

LEMMA LineKeeps ==
  ASSUME SteadyRun, worker'[gen] = worker[gen],
         queue'[gen]["sections"] = queue[gen]["sections"], CurrentInv
  PROVE  /\ OrderInv' /\ AheadInv' /\ EndsInv' /\ TreesInv'
         /\ HistoryInv' /\ LiveInv' /\ CompleteInv'
<1> USE DEF CurrentInv
<1>0. /\ Line' = Line
      /\ \A w : At(w)' = At(w)
      /\ \A s : Ending(s)' = Ending(s)
  BY DEF SteadyRun, Line, At, Ending
<1>1. OrderInv'
  <2>1. \A s : NoSuccess(s) => NoSuccess(s)'
    BY <1>0 DEF SteadyRun, NoSuccess
  <2> QED BY <1>0, <2>1, SteadyOrder DEF OrderInv
<1>2. AheadInv'
  <2>1. \A s \in Sections : \A n : Ahead(s, n) => Ahead(s, n)'
    BY <1>0, SteadyKnows DEF Ahead
  <2> QED BY <1>0, <2>1, SteadyKnows DEF AheadInv, SteadyRun
<1>3. EndsInv'
  BY <1>0 DEF EndsInv, SteadyRun
<1>4. TreesInv'
  BY <1>0 DEF TreesInv, TreesOver, SteadyRun, RunKept, SameRun
<1>5. HistoryInv' /\ LiveInv' /\ CompleteInv'
  BY SteadyMetadata
<1> QED BY <1>1, <1>2, <1>3, <1>4, <1>5

LEMMA IdleKeeps ==
  ASSUME Steady, worker'[gen] = worker[gen], queue'[gen] = queue[gen], CurrentInv
  PROVE  /\ OrderInv' /\ AheadInv' /\ EndsInv' /\ TreesInv' /\ HomeInv'
         /\ HistoryInv' /\ LiveInv' /\ CompleteInv'
<1>1. HomeInv'
  BY DEF HomeInv, CurrentInv, At, IsOut, Steady, SteadyRun, RunKept, SameRun
<1> QED BY <1>1, LineKeeps DEF Steady

-----------------------------------------------------------------------------
(* Lines of events.                                                        *)

\* p is q with ev at its end, and q without its first event.
Longer(q, ev, p) ==
  /\ p \in Seq(Events) /\ Len(p) = Len(q) + 1 /\ p[Len(q) + 1] = ev
  /\ \A i \in 1..Len(q) : p[i] = q[i]

Shorter(q, p) ==
  /\ p \in Seq(Events) /\ Len(q) = Len(p) + 1
  /\ \A i \in 1..Len(p) : p[i] = q[i + 1]

LEMMA Appended ==
  ASSUME NEW q \in Seq(Events), NEW ev \in Events
  PROVE  Longer(q, ev, Append(q, ev))
BY DEF Longer

LEMMA Taken ==
  ASSUME NEW q \in Seq(Events), q # <<>>
  PROVE  /\ Shorter(q, Tail(q)) /\ Len(q) \in Nat /\ Len(q) >= 1
         /\ Head(q) = q[1] /\ q[1] \in Events
BY DEF Shorter

-----------------------------------------------------------------------------
(* A worker moves.                                                         *)

\* Worker w of run g comes to x, the others stay.
Moves(g, w, x) ==
  /\ worker' \in [RunIds -> [Workers -> WorkerStates]]
  /\ worker'[g][w] = x
  /\ \A v \in Workers : v # w => worker'[g][v] = worker[g][v]
  /\ \A h \in RunIds \ {g} : worker'[h] = worker[h]

LEMMA WorkerReplaced ==
  ASSUME worker \in [RunIds -> [Workers -> WorkerStates]],
         NEW g \in RunIds, NEW w \in Workers, NEW x \in WorkerStates,
         worker' = [worker EXCEPT ![g][w] = x]
  PROVE  Moves(g, w, x)
BY DEF Moves

LEMMA WorkerFields ==
  ASSUME worker \in [RunIds -> [Workers -> WorkerStates]], NEW g \in RunIds, NEW w \in Workers
  PROVE  /\ worker[g][w] \in WorkerStates
         /\ worker[g][w].pc \in {"scan", "end", "gone", "dead"} /\ worker[g][w].stage \in 0..3
         /\ worker[g][w].out \in Events \cup {Nothing}
BY DEF WorkerStates

\* What any worker of any run may come to.
Allows(g, w, x) ==
  /\ ~IsOut(g, w)
  /\ x.out # Nothing => x.out \in LaneEvents(LaneOf(w)) /\ x.out.sec = SectionOf(w)
  /\ x.pc \in {"gone", "dead"} => x.out = Nothing
  /\ x.pc = "end" => x.out # Nothing /\ Terminal(x.out)
  /\ x.pc = "scan" /\ x.out # Nothing =>
       /\ x.out.kind # "Finished"
       /\ x.out.kind = "Failed" => g \in stopped' /\ w \notin {Fs, Home}

\* What the worker of a section of the current run may come to: it returns
\* to no earlier point, and finishes only with what it takes.
Continues(w, x) ==
  /\ x.pc = "scan" => At(w).pc = "scan"
  /\ x.out # Nothing /\ x.out.kind = "Finished" => ~NoSuccess(w) /\ Ahead(w, Len(Line))
  /\ x.pc = "scan" /\ x.stage >= 2 /\ gen \notin stopped' =>
       Ahead(w, Len(Line)) \/ (x.out # Nothing /\ Teaches(x.out, w))
  /\ w = Fs => /\ IsTree(x.out) => x.stage >= 2 /\ ~TreesOver
               /\ x.pc = "scan" => At(Fs).stage <= x.stage

LEMMA MoveKeeps ==
  ASSUME TypeInv, CurrentInv, Steady, gen \in RunIds, queue'[gen] = queue[gen],
         NEW w \in Sections, NEW x \in WorkerStates, Moves(gen, w, x), Allows(gen, w, x),
         x.pc # "gone", Continues(w, x)
  PROVE  /\ OrderInv' /\ AheadInv' /\ EndsInv' /\ TreesInv' /\ HomeInv'
         /\ HistoryInv' /\ LiveInv' /\ CompleteInv'
<1> USE DEF CurrentInv, Steady
<1>0. /\ Line' = Line
      /\ At(w)' = x /\ At(w).pc # "gone"
      /\ \A v \in Workers : v # w => At(v)' = At(v)
      /\ \A s : Ending(s)' = Ending(s)
      /\ w \in Workers /\ w # Home
  BY EngineAssumption DEF Steady, SteadyRun, Line, At, Ending, Moves, Allows, IsOut, Workers
<1>1. OrderInv'
  <2>1. \A s \in Sections : NoSuccess(s) => NoSuccess(s)'
    <3>1. NoSuccess(w) => NoSuccess(w)'
      BY <1>0 DEF Steady, SteadyRun, NoSuccess, Continues
    <3>2. \A s \in Sections : s # w /\ NoSuccess(s) => NoSuccess(s)'
      BY <1>0 DEF Steady, SteadyRun, NoSuccess, Workers
    <3> QED BY <3>1, <3>2
  <2>2. \A s \in Sections : At(s).pc = "gone" => At(s)'.pc = "gone"
    BY <1>0 DEF Workers
  <2> QED BY <1>0, <2>1, <2>2, SteadyOrder DEF OrderInv
<1>2. AheadInv'
  <2>1. \A s \in Sections : \A n : Ahead(s, n) => Ahead(s, n)'
    BY <1>0, SteadyKnows DEF Ahead
  <2>2. ASSUME NEW s \in Sections
        PROVE  /\ source'[s] = "finished" => Known(s)'
               /\ \A i \in 1..Len(Line)' : Line'[i].kind = "Finished" /\ Line'[i].sec = s =>
                    Ahead(s, i - 1)'
    BY <1>0, <2>1, SteadyKnows DEF AheadInv, Steady, SteadyRun
  <2>3. ASSUME NEW s \in Sections \ {w}
        PROVE  /\ At(s)'.out # Nothing /\ At(s)'.out.kind = "Finished" => Ahead(s, Len(Line))'
               /\ At(s)'.pc = "scan" /\ At(s)'.stage >= 2 /\ gen' \notin stopped' =>
                    Ahead(s, Len(Line))' \/ (At(s)'.out # Nothing /\ Teaches(At(s)'.out, s))
    <3>1. At(s)' = At(s)
      BY <1>0 DEF Workers
    <3>2. Ahead(s, Len(Line)) => Ahead(s, Len(Line))'
      BY <1>0, SteadyKnows DEF Ahead
    <3> QED BY <3>1, <3>2 DEF AheadInv, Steady, SteadyRun
  <2>4. /\ x.out # Nothing /\ x.out.kind = "Finished" => Ahead(w, Len(Line))'
        /\ x.pc = "scan" /\ x.stage >= 2 /\ gen' \notin stopped' =>
             Ahead(w, Len(Line))' \/ (x.out # Nothing /\ Teaches(x.out, w))
    <3>1. Ahead(w, Len(Line)) => Ahead(w, Len(Line))'
      BY <1>0, SteadyKnows DEF Ahead
    <3> QED BY <3>1 DEF Continues, Steady, SteadyRun
  <2> QED BY <1>0, <2>2, <2>3, <2>4 DEF AheadInv
<1>3. EndsInv'
  BY <1>0 DEF EndsInv, Steady, SteadyRun, Workers
<1>4. TreesInv'
  <2>1. TreesOver => TreesOver'
    <3>1. CASE w = Fs
      <4>1. At(Fs).stage \in 0..3 /\ x.stage \in 0..3
        BY <1>0, <3>1 DEF TypeInv, WorkerStates, At
      <4>2. At(Fs)' = x
        BY <1>0, <3>1
      <4>3. (x.pc = "scan" => At(Fs).pc = "scan" /\ At(Fs).stage <= x.stage)
            /\ (IsTree(x.out) => ~TreesOver)
        BY <3>1 DEF Continues
      <4> QED BY <4>1, <4>2, <4>3 DEF TreesOver
    <3>2. CASE w # Fs
      BY <1>0, <3>2, MetadataAssumption DEF TreesOver, Workers
    <3> QED BY <3>1, <3>2
  <2>2. IsTree(At(Fs)'.out) => At(Fs)'.stage >= 2
    BY <1>0, MetadataAssumption DEF TreesInv, Continues, Workers
  <2> QED BY <1>0, <2>1, <2>2 DEF TreesInv, Steady, SteadyRun, RunKept, SameRun
<1>5. HomeInv'
  <2>1. At(Home)' = At(Home) /\ queue'[gen]["home"] = queue[gen]["home"]
    BY <1>0 DEF Workers
  <2> QED BY <2>1 DEF HomeInv, At, IsOut, Steady, SteadyRun, RunKept, SameRun
<1>6. HistoryInv' /\ LiveInv' /\ CompleteInv'
  BY SteadyMetadata
<1> QED BY <1>1, <1>2, <1>3, <1>4, <1>5, <1>6

\* The same of the Home worker, whose end is not a section's; it may say
\* something as it moves.
LEMMA HomeMoveKeeps ==
  ASSUME TypeInv, CurrentInv, Steady, gen \in RunIds,
         queue'[gen]["sections"] = queue[gen]["sections"],
         NEW x \in WorkerStates, Moves(gen, Home, x), ~IsOut(gen, Home),
         \/ queue'[gen]["home"] = queue[gen]["home"]
         \/ \E ev \in Events : /\ Longer(queue[gen]["home"], ev, queue'[gen]["home"])
                               /\ Terminal(ev) => x.pc = "gone"
  PROVE  /\ OrderInv' /\ AheadInv' /\ EndsInv' /\ TreesInv' /\ HomeInv'
         /\ HistoryInv' /\ LiveInv' /\ CompleteInv'
<1> USE DEF CurrentInv, Steady
<1>0. /\ Line' = Line
      /\ \A v \in Sections : At(v)' = At(v)
      /\ \A s : Ending(s)' = Ending(s)
  BY EngineAssumption DEF Steady, SteadyRun, Line, At, Ending, Moves, Workers
<1>1. OrderInv'
  <2>1. \A s \in Sections : NoSuccess(s) => NoSuccess(s)'
    BY <1>0 DEF Steady, SteadyRun, NoSuccess
  <2> QED BY <1>0, <2>1, SteadyOrder DEF OrderInv
<1>2. AheadInv'
  <2>1. \A s \in Sections : \A n : Ahead(s, n) => Ahead(s, n)'
    BY <1>0, SteadyKnows DEF Ahead
  <2> QED BY <1>0, <2>1, SteadyKnows DEF AheadInv, Steady, SteadyRun
<1>3. EndsInv'
  BY <1>0 DEF EndsInv, Steady, SteadyRun
<1>4. TreesInv'
  BY <1>0, MetadataAssumption DEF TreesInv, TreesOver, Steady, SteadyRun, RunKept, SameRun
<1>5. HomeInv'
  <2>1. /\ run.separate /\ run.discovery = "open"
        /\ queue[gen]["home"] # <<>> => ~Terminal(queue[gen]["home"][1])
    BY DEF HomeInv, At, IsOut
  <2>2. At(Home)' = x
    BY DEF At, Moves, Steady, SteadyRun
  <2>3. queue'[gen]["home"] # <<>> /\ Terminal(queue'[gen]["home"][1]) => x.pc = "gone"
    <3>1. CASE queue'[gen]["home"] = queue[gen]["home"]
      BY <2>1, <3>1
    <3>2. CASE \E ev \in Events : /\ Longer(queue[gen]["home"], ev, queue'[gen]["home"])
                                  /\ Terminal(ev) => x.pc = "gone"
      <4>0. PICK ev \in Events : /\ Longer(queue[gen]["home"], ev, queue'[gen]["home"])
                                 /\ Terminal(ev) => x.pc = "gone"
        BY <3>2
      <4>1. queue[gen]["home"] \in Seq(Events)
        BY DEF TypeInv, Lanes
      <4>2. CASE queue[gen]["home"] = <<>>
        <5>1. Len(queue[gen]["home"]) = 0
          BY <4>2
        <5>2. queue'[gen]["home"][1] = ev
          BY <4>0, <5>1 DEF Longer
        <5> QED BY <4>0, <5>2
      <4>3. CASE queue[gen]["home"] # <<>>
        <5>1. 1 \in 1..Len(queue[gen]["home"])
          BY <4>1, <4>3
        <5>2. queue'[gen]["home"][1] = queue[gen]["home"][1]
          BY <4>0, <5>1 DEF Longer
        <5> QED BY <2>1, <4>3, <5>2
      <4> QED BY <4>2, <4>3
    <3> QED BY <3>1, <3>2
  <2> QED BY <2>1, <2>2, <2>3 DEF HomeInv, Steady, SteadyRun, RunKept, SameRun
<1>6. HistoryInv' /\ LiveInv' /\ CompleteInv'
  BY SteadyMetadata
<1> QED BY <1>1, <1>2, <1>3, <1>4, <1>5, <1>6

-----------------------------------------------------------------------------
(* An event joins the line of the sections.                                *)

\* What a worker may say when it comes to x: an ending is the last it says.
Says(w, x, ev) ==
  /\ ev.sec = w
  /\ x.out = Nothing
  /\ x.pc = "scan" => At(w).pc = "scan"
  /\ x.pc = "gone" => Terminal(ev)
  /\ x.pc = "end" => FALSE
  /\ IsLast(ev) => x.pc = "gone"
  /\ ev.kind = "Failed" /\ x.pc = "scan" => gen \in stopped
  /\ ev.kind = "Finished" => ~NoSuccess(w) /\ Ahead(w, Len(Line))
  /\ x.pc = "scan" /\ x.stage >= 2 /\ gen \notin stopped =>
       Ahead(w, Len(Line)) \/ Teaches(ev, w)
  /\ w = Fs /\ x.pc = "scan" => At(Fs).stage <= x.stage
  /\ ev.kind = "Tree" => /\ w = Fs /\ ~TreesOver
                         /\ ev.val = "limited" /\ x.pc = "scan" => x.stage >= 2

LEMMA SayKeeps ==
  ASSUME TypeInv, CurrentInv, Steady, gen \in RunIds,
         NEW w \in Sections, NEW x \in WorkerStates, Moves(gen, w, x), At(w).pc # "gone",
         NEW ev \in Events, Longer(Line, ev, Line'), Says(w, x, ev),
         queue'[gen]["home"] = queue[gen]["home"]
  PROVE  /\ OrderInv' /\ AheadInv' /\ EndsInv' /\ TreesInv' /\ HomeInv'
         /\ HistoryInv' /\ LiveInv' /\ CompleteInv'
<1> USE DEF CurrentInv, Steady
<1>l. Line \in Seq(Events)
  BY DEF TypeInv, Line, Lanes
<1>n. PICK n \in Nat : n = Len(Line)
  BY <1>l
<1>0. /\ At(w)' = x
      /\ \A v \in Workers : v # w => At(v)' = At(v)
      /\ w \in Workers /\ w # Home
      /\ \A s \in Sections : s # w => At(s)' = At(s)
  BY EngineAssumption DEF Steady, SteadyRun, At, Moves, Workers
<1>1. /\ n \in Nat /\ Len(Line)' = n + 1 /\ Line'[n + 1] = ev
      /\ \A i \in 1..n : Line'[i] = Line[i]
      /\ \A i \in 1..Len(Line)' : i \in 1..n \/ i = n + 1
  BY <1>l, <1>n DEF Longer
<1>2. OrderInv'
  <2>1. \A s \in Sections : NoSuccess(s) => NoSuccess(s)'
    <3>1. NoSuccess(w) => NoSuccess(w)'
      BY <1>0 DEF Steady, SteadyRun, NoSuccess, Says
    <3>2. \A s \in Sections : s # w /\ NoSuccess(s) => NoSuccess(s)'
      BY <1>0 DEF Steady, SteadyRun, NoSuccess
    <3> QED BY <3>1, <3>2
  <2>2. \A s \in Sections : At(s).pc = "gone" => At(s)'.pc = "gone"
    BY <1>0
  <2>3. ASSUME NEW s \in Sections
        PROVE  /\ source'[s] # "none"
               /\ IsOver(s)' => At(s)'.pc = "gone" /\ \A i \in 1..Len(Line)' : Line'[i].sec # s
               /\ source'[s] = "failed" => NoSuccess(s)'
    <3>1. IsOver(s)' => IsOver(s) /\ s # w
      BY SteadyOrder DEF OrderInv
    <3> QED BY <1>0, <1>1, <1>n, <2>1, <2>2, <3>1, SteadyOrder DEF OrderInv, Says
  <2>4. ASSUME NEW s \in Sections, NEW i \in 1..Len(Line)', Line'[i].sec = s
        PROVE  /\ IsLast(Line[i])' => At(s)'.pc = "gone"
               /\ Line'[i].kind = "Failed" => NoSuccess(s)'
               /\ source'[s] = "failed" => Line'[i].kind # "Finished"
    <3>1. CASE i \in 1..n
      BY <1>1, <1>n, <2>1, <2>2, <2>4, <3>1, SteadyOrder DEF OrderInv
    <3>2. CASE i = n + 1
      <4>1. s = w /\ Line'[i] = ev
        BY <1>1, <2>4, <3>2 DEF Says
      <4>2. IsLast(Line[i])' => IsLast(ev)
        BY <4>1, SteadyOrder DEF IsLast, Steady, SteadyRun
      <4>3. ev.kind = "Failed" => NoSuccess(w)'
        BY <1>0 DEF NoSuccess, Says, Steady, SteadyRun
      <4>4. source'[s] = "failed" => NoSuccess(w)
        BY <4>1, SteadyOrder DEF OrderInv
      <4> QED BY <1>0, <4>1, <4>2, <4>3, <4>4 DEF Says
    <3> QED BY <1>1, <3>1, <3>2
  <2>5. ASSUME NEW s \in Sections, NEW i \in 1..Len(Line)', Line'[i].sec = s,
               NEW j \in (i + 1)..Len(Line)', Line'[j].sec = s
        PROVE  ~IsLast(Line[i])' /\ (Line'[i].kind = "Failed" => Line'[j].kind # "Finished")
    <3>1. i \in 1..n /\ Line'[i] = Line[i] /\ j \in (i + 1)..(n + 1)
      BY <1>1
    <3>2. IsLast(Line[i])' => IsLast(Line[i])
      BY <3>1, SteadyOrder DEF IsLast, Steady, SteadyRun
    <3>3. CASE j \in (i + 1)..n
      <4>1. Line'[j] = Line[j]
        BY <1>1, <3>1, <3>3
      <4> QED BY <1>n, <2>5, <3>1, <3>2, <3>3, <4>1 DEF OrderInv
    <3>4. CASE j = n + 1
      <4>1. s = w /\ Line'[j] = ev
        BY <1>1, <2>5, <3>4 DEF Says
      <4>2. ~IsLast(Line[i]) /\ (Line[i].kind = "Failed" => NoSuccess(w))
        BY <1>n, <2>5, <3>1, <4>1 DEF OrderInv
      <4> QED BY <3>1, <3>2, <4>1, <4>2 DEF Says
    <3> QED BY <1>1, <3>1, <3>3, <3>4
  <2> QED BY <2>3, <2>4, <2>5 DEF OrderInv
<1>3. AheadInv'
  <2>1. ASSUME NEW s \in Sections, NEW k \in 0..n, Ahead(s, k)
        PROVE  Ahead(s, k)' /\ Ahead(s, k + 1)'
    <3>1. CASE Known(s)
      BY <3>1, SteadyKnows DEF Ahead
    <3>2. CASE ~Known(s)
      <4>1. PICK i \in 1..k : Teaches(Line[i], s)
        BY <2>1, <3>2 DEF Ahead
      <4>2. i \in 1..n /\ i \in 1..(k + 1) /\ Line'[i] = Line[i]
        BY <1>1, <4>1
      <4>3. Teaches(Line[i], s)'
        BY <4>1, <4>2 DEF Teaches
      <4> QED BY <4>1, <4>2, <4>3 DEF Ahead
    <3> QED BY <3>1, <3>2
  <2>2. ASSUME NEW s \in Sections, Ahead(s, n) \/ (s = w /\ Teaches(ev, s))
        PROVE  Ahead(s, Len(Line))'
    <3>1. CASE Ahead(s, n)
      <4>1. Ahead(s, n + 1)'
        BY <1>1, <2>1, <3>1
      <4> QED BY <1>1, <4>1 DEF Ahead
    <3>2. CASE Teaches(ev, s)
      <4>1. n + 1 \in 1..Len(Line)' /\ Line'[n + 1] = ev
        BY <1>1
      <4>2. Teaches(Line'[n + 1], s)
        BY <3>2, <4>1
      <4> QED BY <4>1, <4>2 DEF Ahead, Teaches
    <3> QED BY <2>2, <3>1, <3>2
  <2>3. ASSUME NEW s \in Sections
        PROVE  /\ source'[s] = "finished" => Known(s)'
               /\ At(s)'.out # Nothing /\ At(s)'.out.kind = "Finished" => Ahead(s, Len(Line))'
               /\ At(s)'.pc = "scan" /\ At(s)'.stage >= 2 /\ gen' \notin stopped' =>
                    Ahead(s, Len(Line))' \/ (At(s)'.out # Nothing /\ Teaches(At(s)'.out, s))
    <3>1. source'[s] = "finished" => Known(s)'
      BY SteadyKnows, SteadyOrder DEF AheadInv
    <3>2. CASE s = w
      BY <1>0, <1>n, <2>2, <3>1, <3>2 DEF Says, Steady, SteadyRun
    <3>3. CASE s # w
      <4>1. At(s)' = At(s)
        BY <1>0, <3>3
      <4> QED BY <1>n, <2>2, <3>1, <4>1 DEF AheadInv, Steady, SteadyRun
    <3> QED BY <3>2, <3>3
  <2>4. ASSUME NEW s \in Sections, NEW i \in 1..Len(Line)',
               Line'[i].kind = "Finished" /\ Line'[i].sec = s
        PROVE  Ahead(s, i - 1)'
    <3>1. i - 1 \in 0..n
      BY <1>1
    <3>2. Ahead(s, i - 1)
      <4>1. CASE i \in 1..n
        BY <1>1, <1>n, <2>4, <4>1 DEF AheadInv
      <4>2. CASE i = n + 1
        <5>1. Line'[i] = ev /\ s = w /\ i - 1 = n
          BY <1>1, <2>4, <4>2 DEF Says
        <5> QED BY <1>n, <2>4, <5>1 DEF Says
      <4> QED BY <1>1, <4>1, <4>2
    <3>3. PICK k \in 0..n : k = i - 1
      BY <3>1
    <3>4. Ahead(s, k)'
      BY <2>1, <3>2, <3>3
    <3> QED BY <3>3, <3>4
  <2> QED BY <2>3, <2>4 DEF AheadInv
<1>4. EndsInv'
  <2>1. \A s \in Sections : Ending(s) => Ending(s)'
    BY <1>1, <1>n DEF Ending
  <2>2. Terminal(ev) => Ending(w)'
    BY <1>1 DEF Ending, Says
  <2>3. \A s \in Sections : At(s)'.pc = "gone" => At(s).pc = "gone" \/ (s = w /\ Terminal(ev))
    BY <1>0 DEF Says
  <2> QED BY <2>1, <2>2, <2>3, SteadyOrder DEF EndsInv, Steady, SteadyRun
<1>5. TreesInv'
  <2>1. TreesOver => TreesOver'
    <3>1. CASE w = Fs
      <4>1. At(Fs).stage \in 0..3 /\ x.stage \in 0..3
        BY <1>0, <3>1 DEF TypeInv, WorkerStates, At
      <4>2. At(Fs)' = x /\ x.out = Nothing
        BY <1>0, <3>1 DEF Says
      <4>3. x.pc = "scan" => At(Fs).pc = "scan" /\ At(Fs).stage <= x.stage
        BY <3>1 DEF Says
      <4> QED BY <4>1, <4>2, <4>3 DEF TreesOver, IsTree
    <3>2. CASE w # Fs
      BY <1>0, <3>2, MetadataAssumption DEF TreesOver
    <3> QED BY <3>1, <3>2
  <2>2. IsTree(At(Fs)'.out) => At(Fs)'.stage >= 2
    BY <1>0, MetadataAssumption DEF TreesInv, Says, IsTree
  <2>3. ev.kind = "Tree" /\ ev.val = "limited" => TreesOver'
    BY <1>0 DEF Says, TreesOver, IsTree
  <2>4. ASSUME NEW i \in 1..Len(Line)', Line'[i].kind = "Tree" /\ Line'[i].val = "limited"
        PROVE  TreesOver' /\ \A j \in (i + 1)..Len(Line)' : Line'[j].kind # "Tree"
    <3>1. CASE i \in 1..n
      <4>1. TreesOver /\ \A j \in (i + 1)..n : Line[j].kind # "Tree"
        BY <1>1, <1>n, <2>4, <3>1 DEF TreesInv
      <4>2. ev.kind # "Tree"
        BY <4>1 DEF Says
      <4>3. \A j \in (i + 1)..Len(Line)' : (j \in (i + 1)..n /\ Line'[j] = Line[j]) \/ Line'[j] = ev
        BY <1>1, <3>1
      <4> QED BY <2>1, <4>1, <4>2, <4>3
    <3>2. CASE i = n + 1
      BY <1>1, <2>3, <2>4, <3>2
    <3> QED BY <1>1, <3>1, <3>2
  <2>5. run'.limited /\ gen' \notin stopped' =>
          TreesOver' /\ \A j \in 1..Len(Line)' : Line'[j].kind # "Tree"
    <3> SUFFICES ASSUME run'.limited, gen' \notin stopped'
                 PROVE  TreesOver' /\ \A j \in 1..Len(Line)' : Line'[j].kind # "Tree"
      OBVIOUS
    <3>1. TreesOver /\ \A j \in 1..n : Line[j].kind # "Tree"
      BY <1>n DEF TreesInv, Steady, SteadyRun, RunKept, SameRun
    <3> QED BY <1>1, <2>1, <3>1 DEF Says
  <2> QED BY <2>2, <2>4, <2>5 DEF TreesInv
<1>6. HomeInv'
  <2>1. At(Home)' = At(Home)
    BY <1>0 DEF Workers
  <2> QED BY <2>1 DEF HomeInv, At, IsOut, Steady, SteadyRun, RunKept, SameRun
<1>7. HistoryInv' /\ LiveInv' /\ CompleteInv'
  BY SteadyMetadata
<1> QED BY <1>2, <1>3, <1>4, <1>5, <1>6, <1>7

-----------------------------------------------------------------------------
(* An event of the sections is forwarded.                                  *)

\* What becomes of the metadata: r, the run as it may have been marked,
\* observes ev, and t may be marked in turn.  isStopped is the token as
\* observe_run sees it.
Observes(ev, isStopped, r, t) ==
  /\ Consistent(r) /\ RunKept(run, r)
  /\ Consistent(t) /\ Sees(r, ev, t) /\ Learns(r, t) /\ Discovers(r, ev, isStopped, t)
  /\ Counts(r.host, ev, t.host)
  /\ ev.sec # Fs => t.disk = r.disk
  /\ ev.sec = Fs => Decides(r.disk, t.disk, {Fs}, t.diskPartial, isStopped)
  /\ Decides(r.host, t.host, Sections, t.auditPartial \/ t.discPartial, isStopped)
  /\ Consistent(run') /\ RunKept(t, run')
  /\ ~isStopped => r = run /\ gen \notin stopped
  /\ gen \notin stopped' => ~isStopped /\ run' = t

\* The first event of the line is taken; what it says of its section's items
\* and ending is remembered.
Forwards(ev) ==
  /\ gen' = gen /\ worker' = worker /\ ev \in SectionEvents
  /\ Line # <<>> /\ Line[1] = ev /\ Shorter(Line, Line')
  /\ queue'[gen]["home"] = queue[gen]["home"]
  /\ hold[gen]["sections"] = Nothing /\ hold'[gen]["home"] = hold[gen]["home"]
  /\ Terminal(ev) => hold'[gen]["sections"] = ev.sec
  /\ awaited' = awaited /\ told' = told
  /\ gen \in stopped => gen \in stopped'
  /\ Keeps(bus, bus')
  /\ source' \in [Sections -> {"none", "open", "finished", "failed"}]
  /\ sent' \in [Sections -> Bus!Contents]
  /\ \A s \in Sections :
       /\ source'[s] = IF Terminal(ev) /\ ev.sec = s
                         THEN IF ev.kind = "Finished" THEN "finished" ELSE "failed"
                         ELSE source[s]
       /\ sent'[s]["tree"] = IF ev.kind = "Tree" /\ ev.sec = s THEN ev.val ELSE sent[s]["tree"]
       /\ sent'[s]["finding"] # sent[s]["finding"] =>
            ev.sec = s /\ ev.kind \in {"Finding", "DiskFinding"} /\ ev.val = sent'[s]["finding"]

\* Nothing comes from a section after its success, nor a success after its
\* failure; nothing at all from the walk after its end.
LEMMA LineIsOpen ==
  ASSUME OrderInv, TypeInv, NEW i \in 1..Len(Line), Line[i].sec \in Sections
  PROVE  LET ev == Line[i]
         IN  /\ source[ev.sec] \in {"open", "failed"}
             /\ ev.sec = Fs => source[Fs] = "open"
             /\ ev.kind = "Finished" => source[ev.sec] = "open"
             /\ source[ev.sec] = "failed" => gen \in stopped
<1>1. PICK s \in Sections : s = Line[i].sec
  OBVIOUS
<1>2. /\ source[s] \in {"none", "open", "finished", "failed"} /\ source[s] # "none"
      /\ ~IsOver(s)
      /\ source[s] = "failed" => Line[i].kind # "Finished"
  BY <1>1 DEF OrderInv, TypeInv
<1> QED BY <1>1, <1>2 DEF IsOver

LEMMA LineTail ==
  ASSUME TypeInv, gen \in RunIds, NEW ev, Forwards(ev)
  PROVE  /\ Len(Line) \in Nat \ {0} /\ 1 \in 1..Len(Line)
         /\ Len(Line)' = Len(Line) - 1 /\ Len(Line)' \in Nat
         /\ \A i \in 1..Len(Line)' : i + 1 \in 1..Len(Line) /\ Line'[i] = Line[i + 1]
         /\ \A i \in 1..Len(Line) : i = 1 \/ i - 1 \in 1..Len(Line)'
         /\ \A w : At(w)' = At(w)
         /\ ev \in Events /\ ev.sec \in Sections
<1>1. Line \in Seq(Events)
  BY DEF TypeInv, Line, Lanes
<1>2. Len(Line) \in Nat \ {0}
  BY <1>1 DEF Forwards
<1>3. \A w : At(w)' = At(w)
  BY DEF Forwards, At
<1>4. ev \in Events /\ ev.sec \in Sections
  BY DEF Forwards, SectionEvents, Events
<1>5. Line' \in Seq(Events) /\ Len(Line)' = Len(Line) - 1 /\ Len(Line)' \in Nat
  BY <1>1, <1>2 DEF Forwards, Shorter
<1> QED BY <1>2, <1>3, <1>4, <1>5 DEF Forwards, Shorter

LEMMA ForwardOrder ==
  ASSUME TypeInv, gen \in RunIds, OrderInv, NEW ev, Forwards(ev)
  PROVE  OrderInv'
<1>1. \A e : IsLast(e)' => IsLast(e)
  BY DEF Forwards, IsLast
<1>2. \A s : NoSuccess(s) => NoSuccess(s)'
  BY LineTail DEF Forwards, NoSuccess
<1>3. ASSUME NEW s \in Sections
      PROVE  /\ source'[s] # "none"
             /\ IsOver(s)' => At(s)'.pc = "gone" /\ \A i \in 1..Len(Line)' : Line'[i].sec # s
             /\ source'[s] = "failed" => NoSuccess(s)'
  <2>1. CASE Terminal(ev) /\ ev.sec = s
    <3>1. IsOver(s)' => IsLast(ev)
      BY <2>1 DEF IsOver, IsLast, Forwards, Terminal
    <3>2. /\ IsLast(ev) => At(s).pc = "gone"
          /\ ev.kind = "Failed" => NoSuccess(s)
          /\ \A j \in 2..Len(Line) : Line[j].sec = s => ~IsLast(ev)
      BY <2>1, LineTail DEF OrderInv, Forwards
    <3>3. IsLast(ev) => \A i \in 1..Len(Line)' : Line'[i].sec # s
      <4> SUFFICES ASSUME IsLast(ev), NEW i \in 1..Len(Line)', Line'[i].sec = s
                   PROVE  FALSE
        OBVIOUS
      <4>1. i + 1 \in 2..Len(Line) /\ Line'[i] = Line[i + 1]
        BY LineTail
      <4> QED BY <3>2, <4>1
    <3>4. source'[s] = IF ev.kind = "Finished" THEN "finished" ELSE "failed"
      BY <2>1 DEF Forwards
    <3> QED BY <1>2, <2>1, <3>1, <3>2, <3>3, <3>4, LineTail DEF Terminal
  <2>2. CASE ~(Terminal(ev) /\ ev.sec = s)
    <3>1. source'[s] = source[s]
      BY <2>2 DEF Forwards
    <3>2. IsOver(s)' => IsOver(s)
      BY <3>1 DEF IsOver, Forwards
    <3>3. IsOver(s) => \A i \in 1..Len(Line)' : Line'[i].sec # s
      BY LineTail DEF OrderInv
    <3> QED BY <1>2, <3>1, <3>2, <3>3, LineTail DEF OrderInv
  <2> QED BY <2>1, <2>2
<1>4. ASSUME NEW s \in Sections, NEW i \in 1..Len(Line)', Line'[i].sec = s
      PROVE  /\ IsLast(Line[i])' => At(s)'.pc = "gone"
             /\ Line'[i].kind = "Failed" => NoSuccess(s)'
             /\ source'[s] = "failed" => Line'[i].kind # "Finished"
             /\ \A j \in (i + 1)..Len(Line)' : Line'[j].sec = s =>
                  ~IsLast(Line[i])' /\ (Line'[i].kind = "Failed" => Line'[j].kind # "Finished")
  <2>1. PICK k \in 1..Len(Line) : k = i + 1 /\ Line'[i] = Line[k]
    BY LineTail
  <2>2. IsLast(Line[i])' => IsLast(Line[k])
    BY <2>1 DEF IsLast, Forwards
  <2>3. /\ IsLast(Line[k]) => At(s).pc = "gone"
        /\ Line[k].kind = "Failed" => NoSuccess(s)
        /\ source[s] = "failed" => Line[k].kind # "Finished"
        /\ \A j \in (k + 1)..Len(Line) : Line[j].sec = s =>
             ~IsLast(Line[k]) /\ (Line[k].kind = "Failed" => Line[j].kind # "Finished")
    BY <1>4, <2>1 DEF OrderInv
  <2>4. source'[s] = "failed" => source[s] = "failed" \/ (ev.kind = "Failed" /\ ev.sec = s)
    BY DEF Forwards, Terminal
  <2>5. ev.kind = "Failed" /\ ev.sec = s => Line[k].kind # "Finished"
    <3>1. 1 \in 1..Len(Line) /\ k \in (1 + 1)..Len(Line) /\ Line[1] = ev
      BY <2>1, LineTail DEF Forwards
    <3>2. Line[k].sec = s
      BY <1>4, <2>1
    <3> QED BY <3>1, <3>2 DEF OrderInv
  <2>6. ASSUME NEW j \in (i + 1)..Len(Line)'
        PROVE  j + 1 \in (k + 1)..Len(Line) /\ Line'[j] = Line[j + 1]
    BY <2>1, LineTail
  <2> QED BY <1>2, <2>1, <2>2, <2>3, <2>4, <2>5, <2>6, LineTail
<1> QED BY <1>3, <1>4 DEF OrderInv

\* Nothing that was known is forgotten, and what ev teaches is known then.
LEMMA ForwardKnows ==
  ASSUME TypeInv, gen \in RunIds, NEW ev, Forwards(ev), NEW isStopped, NEW r, NEW t,
         Observes(ev, isStopped, r, t), NEW s \in Sections
  PROVE  Known(s) \/ Teaches(ev, s) => Known(s)'
<1>1. Deps[s] \in SUBSET Sections /\ Deps[Fs] = {} /\ Fs \in Sections
  BY EngineAssumption, MetadataAssumption
<1>2. ASSUME NEW d \in Sections, bus[d].valid # Nothing
      PROVE  bus'[d].valid # Nothing
  BY <1>2 DEF Forwards, Keeps
<1>3. ev.kind = "Footprints" /\ ev.val = "gaps" => run'.auditPartial
  BY DEF Observes, RunKept, SameRun, Sees
<1>4. run.auditPartial => run'.auditPartial
  BY DEF Observes, RunKept, SameRun, Sees
<1>5. ev.kind = "Tree" => ev.val \in Qualities /\ ev.val # Nothing
  BY TagAssumption DEF Forwards, SectionEvents, BusItem
<1>6. sent'[Fs]["tree"] = IF ev.kind = "Tree" /\ ev.sec = Fs THEN ev.val ELSE sent[Fs]["tree"]
  BY <1>1 DEF Forwards
<1>7. CASE Known(s)
  BY <1>1, <1>2, <1>4, <1>5, <1>6, <1>7 DEF Known
<1>8. CASE Teaches(ev, s)
  BY <1>1, <1>3, <1>5, <1>6, <1>8 DEF Known, Teaches
<1> QED BY <1>7, <1>8

LEMMA ForwardAhead ==
  ASSUME TypeInv, gen \in RunIds, AheadInv, NEW ev, Forwards(ev),
         NEW isStopped, NEW r, NEW t, Observes(ev, isStopped, r, t)
  PROVE  AheadInv'
<1>m. PICK m \in Nat \ {0} : m = Len(Line)
  BY LineTail
<1>0. /\ m = Len(Line) /\ m \in Nat \ {0} /\ Len(Line)' = m - 1
      /\ \A i \in 1..(m - 1) : Line'[i] = Line[i + 1]
  BY <1>m, LineTail
<1>k. \A s \in Sections : Known(s) \/ Teaches(ev, s) => Known(s)'
  BY ForwardKnows
<1>1. ASSUME NEW s \in Sections, NEW n \in 0..m, Ahead(s, n)
      PROVE  Ahead(s, n - 1)'
  <2>1. CASE Known(s)
    BY <1>k, <2>1 DEF Ahead
  <2>2. CASE ~Known(s)
    <3>1. PICK i \in 1..n : Teaches(Line[i], s)
      BY <1>1, <2>2 DEF Ahead
    <3>2. CASE i = 1
      <4>1. Teaches(ev, s)
        BY <3>1, <3>2 DEF Forwards
      <4> QED BY <1>k, <4>1 DEF Ahead
    <3>3. CASE i # 1
      <4>1. i - 1 \in 1..(m - 1) /\ i - 1 \in 1..(n - 1) /\ Line'[i - 1] = Line[i]
        BY <1>0, <3>3
      <4>2. Teaches(Line'[i - 1], s)
        BY <3>1, <4>1
      <4>3. PICK j \in 1..(n - 1) : j = i - 1
        BY <4>1
      <4>4. Teaches(Line[j], s)'
        BY <4>2, <4>3 DEF Teaches
      <4> QED BY <4>4 DEF Ahead
    <3> QED BY <3>2, <3>3
  <2> QED BY <2>1, <2>2
<1>2. ASSUME NEW s \in Sections, Ahead(s, Len(Line))
      PROVE  Ahead(s, Len(Line))'
  <2>1. Ahead(s, m - 1)'
    BY <1>0, <1>1, <1>2
  <2> QED BY <1>0, <2>1 DEF Ahead
<1>3. ASSUME NEW s \in Sections
      PROVE  /\ source'[s] = "finished" => Known(s)'
             /\ At(s)'.out # Nothing /\ At(s)'.out.kind = "Finished" => Ahead(s, Len(Line))'
             /\ At(s)'.pc = "scan" /\ At(s)'.stage >= 2 /\ gen' \notin stopped' =>
                  Ahead(s, Len(Line))' \/ (At(s)'.out # Nothing /\ Teaches(At(s)'.out, s))
  <2>1. source'[s] = "finished" => Known(s)'
    <3>1. CASE source[s] = "finished"
      BY <1>k, <3>1 DEF AheadInv
    <3>2. CASE source[s] # "finished" /\ source'[s] = "finished"
      <4>1. ev.kind = "Finished" /\ ev.sec = s /\ Line[1] = ev /\ 1 \in 1..Len(Line)
        BY <1>0, <3>2 DEF Forwards
      <4>2. Ahead(s, 1 - 1)
        BY <4>1 DEF AheadInv
      <4>3. Known(s)
        BY <4>2 DEF Ahead
      <4> QED BY <1>k, <4>3
    <3> QED BY <3>1, <3>2
  <2>2. At(s)' = At(s)
    BY LineTail
  <2>3. gen' \notin stopped' => gen \notin stopped
    BY DEF Forwards
  <2> QED BY <1>2, <2>1, <2>2, <2>3 DEF AheadInv
<1>4. ASSUME NEW s \in Sections, NEW i \in 1..Len(Line)',
             Line'[i].kind = "Finished" /\ Line'[i].sec = s
      PROVE  Ahead(s, i - 1)'
  <2>1. PICK k \in 1..m : k = i + 1 /\ Line'[i] = Line[k]
    BY <1>0
  <2>2. Ahead(s, k - 1)
    BY <1>0, <1>4, <2>1 DEF AheadInv
  <2>3. k - 1 \in 0..m
    BY <2>1
  <2>4. PICK n \in 0..m : n = k - 1
    BY <2>3
  <2>5. Ahead(s, n - 1)'
    BY <1>1, <2>2, <2>4
  <2>6. n - 1 = i - 1
    BY <2>1, <2>4
  <2> QED BY <2>5, <2>6
<1> QED BY <1>3, <1>4 DEF AheadInv

LEMMA ForwardEnds ==
  ASSUME TypeInv, gen \in RunIds, EndsInv, NEW ev, Forwards(ev)
  PROVE  EndsInv'
<1> SUFFICES ASSUME NEW s \in Sections, At(s)'.pc = "gone"
             PROVE  /\ source'[s] \in {"finished", "failed"} \/ Ending(s)'
                    /\ gen' \notin stopped' =>
                         s \in told' \/ hold'[gen']["sections"] = s \/ Ending(s)'
  BY DEF EndsInv
<1>1. At(s).pc = "gone" /\ s # Nothing
  BY LineTail, TagAssumption DEF Notices
<1>2. Ending(s) => Ending(s)' \/ (Terminal(ev) /\ ev.sec = s)
  <2> SUFFICES ASSUME NEW i \in 1..Len(Line), Terminal(Line[i]) /\ Line[i].sec = s
               PROVE  Ending(s)' \/ (Terminal(ev) /\ ev.sec = s)
    BY DEF Ending
  <2>1. CASE i = 1
    BY <2>1 DEF Forwards
  <2>2. CASE i # 1
    <3>1. PICK k \in 1..Len(Line)' : k = i - 1 /\ Line'[k] = Line[i]
      BY <2>2, LineTail
    <3>2. Terminal(Line'[k]) /\ Line'[k].sec = s
      BY <3>1
    <3> QED BY <3>2 DEF Ending
  <2> QED BY <2>1, <2>2
<1>3. hold[gen]["sections"] # s
  BY <1>1 DEF Forwards
<1>4. Terminal(ev) /\ ev.sec = s => /\ source'[s] \in {"finished", "failed"}
                                    /\ hold'[gen']["sections"] = s
  BY DEF Forwards
<1>5. source[s] \in {"finished", "failed"} => source'[s] \in {"finished", "failed"}
  BY DEF Forwards
<1> QED BY <1>1, <1>2, <1>3, <1>4, <1>5 DEF EndsInv, Forwards

LEMMA ForwardTrees ==
  ASSUME TypeInv, gen \in RunIds, TreesInv, LiveInv, NEW ev, Forwards(ev),
         NEW isStopped, NEW r, NEW t, Observes(ev, isStopped, r, t)
  PROVE  TreesInv'
<1>1. At(Fs)' = At(Fs)
  BY LineTail
<1>2. ASSUME NEW i \in 1..Len(Line)', Line'[i].kind = "Tree" /\ Line'[i].val = "limited"
      PROVE  TreesOver' /\ \A j \in (i + 1)..Len(Line)' : Line'[j].kind # "Tree"
  <2>1. PICK k \in 1..Len(Line) : k = i + 1 /\ Line'[i] = Line[k]
    BY LineTail
  <2>2. TreesOver /\ \A j \in (k + 1)..Len(Line) : Line[j].kind # "Tree"
    BY <1>2, <2>1 DEF TreesInv
  <2>3. ASSUME NEW j \in (i + 1)..Len(Line)'
        PROVE  j + 1 \in (k + 1)..Len(Line) /\ Line'[j] = Line[j + 1]
    BY <2>1, LineTail
  <2> QED BY <1>1, <2>2, <2>3 DEF TreesOver
<1>3. ASSUME run'.limited, gen' \notin stopped'
      PROVE  TreesOver' /\ \A j \in 1..Len(Line)' : Line'[j].kind # "Tree"
  <2>1. gen \notin stopped /\ r = run /\ run' = t
    BY <1>3 DEF Forwards, Observes
  <2>2. run.limited \/ (ev.kind = "Tree" /\ ev.val = "limited")
    BY <1>3, <2>1 DEF Observes, Sees, LiveInv, Unhurried
  <2>3. TreesOver /\ \A j \in 2..Len(Line) : Line[j].kind # "Tree"
    BY <2>1, <2>2, LineTail DEF TreesInv, Forwards
  <2>4. \A j \in 1..Len(Line)' : j + 1 \in 2..Len(Line) /\ Line'[j] = Line[j + 1]
    BY LineTail
  <2> QED BY <1>1, <2>3, <2>4 DEF TreesOver
<1> QED BY <1>1, <1>2, <1>3 DEF TreesInv

LEMMA ForwardHomeInv ==
  ASSUME OrderInv, TypeInv, HomeInv, gen \in RunIds, NEW ev, Forwards(ev),
         NEW isStopped, NEW r, NEW t, Observes(ev, isStopped, r, t)
  PROVE  HomeInv'
<1>1. At(Home)' = At(Home)
  BY LineTail
<1>2. run'.separate = run.separate /\ (run.separate => run'.discovery = run.discovery)
  BY DEF Observes, RunKept, SameRun, Sees
<1> QED BY <1>1, <1>2 DEF HomeInv, At, IsOut, Forwards

LEMMA ForwardHistory ==
  ASSUME TypeInv, gen \in RunIds, OrderInv, HistoryInv, NEW ev, Forwards(ev),
         NEW isStopped, NEW r, NEW t, Observes(ev, isStopped, r, t)
  PROVE  HistoryInv'
<1>0. /\ Fs \in Sections /\ ev.sec \in Sections /\ ev \in SectionEvents
      /\ source[ev.sec] \in {"open", "failed"}
      /\ ev.sec = Fs => source[Fs] = "open"
      /\ ev.kind = "Finished" => source[ev.sec] = "open"
  BY MetadataAssumption, LineTail, LineIsOpen DEF Forwards
<1>1. /\ r.primary = run.primary /\ r.diskPartial = run.diskPartial
      /\ r.auditPartial = run.auditPartial
      /\ r.host.done = run.host.done /\ r.host.failed = run.host.failed
      /\ run'.primary = t.primary /\ run'.diskPartial = t.diskPartial
      /\ run'.auditPartial = t.auditPartial
      /\ run'.host.done = t.host.done /\ run'.host.failed = t.host.failed
  BY DEF Observes, RunKept, SameRun
<1>2. run'.primary = CASE source'[Fs] = "open" -> "open"
                       [] source'[Fs] = "finished" -> "ok"
                       [] source'[Fs] = "failed" -> "failed"
  <2>1. CASE WalkEnds(ev)
    <3>1. run.primary = "open"
      BY <1>0, <2>1 DEF HistoryInv, WalkEnds
    <3>2. run'.primary = IF ev.kind = "Finished" THEN "ok" ELSE "failed"
      BY <1>1, <2>1, <3>1 DEF Observes, Sees
    <3>3. source'[Fs] = IF ev.kind = "Finished" THEN "finished" ELSE "failed"
      BY <1>0, <2>1 DEF Forwards, WalkEnds
    <3> QED BY <3>2, <3>3
  <2>2. CASE ~WalkEnds(ev)
    <3>1. run'.primary = run.primary /\ source'[Fs] = source[Fs]
      BY <1>0, <1>1, <2>2 DEF Observes, Sees, Forwards, WalkEnds
    <3> QED BY <3>1 DEF HistoryInv
  <2> QED BY <2>1, <2>2
<1>3. run'.diskPartial <=> sent'[Fs]["tree"] \notin {Nothing, "whole"}
  <2>1. CASE ev.kind = "Tree"
    <3>1. ev.sec = Fs /\ ev.val \in Qualities /\ ev.val # Nothing
      BY <1>0, <2>1, TagAssumption DEF SectionEvents, BusItem
    <3> QED BY <1>0, <1>1, <2>1, <3>1 DEF Observes, Sees, Forwards
  <2>2. CASE ev.kind # "Tree"
    <3>1. sent'[Fs]["tree"] = sent[Fs]["tree"]
      BY <1>0, <2>2 DEF Forwards
    <3>2. run'.diskPartial <=> run.diskPartial
      BY <1>1, <2>2 DEF Observes, Sees
    <3> QED BY <3>1, <3>2 DEF HistoryInv
  <2> QED BY <2>1, <2>2
<1>4. ASSUME NEW s \in Sections \ {Fs}
      PROVE  /\ s \in Ended(run'.host) <=> source'[s] # "open"
             /\ s \in run'.host.done => source'[s] = "finished"
             /\ sent'[s]["finding"] = "gaps" => run'.auditPartial
  <2>1. /\ s \in run'.host.done =>
             s \in run.host.done \/ (ev.kind = "Finished" /\ ev.sec = s)
        /\ s \in Ended(run'.host) <=>
             s \in Ended(run.host) \/ (Terminal(ev) /\ ev.sec = s)
    BY <1>1 DEF Observes, Counts, Ended
  <2>2. /\ s \in Ended(run.host) <=> source[s] # "open"
        /\ s \in run.host.done => source[s] = "finished"
        /\ sent[s]["finding"] = "gaps" => run.auditPartial
    BY DEF HistoryInv
  <2>3. source'[s] = IF Terminal(ev) /\ ev.sec = s
                       THEN IF ev.kind = "Finished" THEN "finished" ELSE "failed"
                       ELSE source[s]
    BY DEF Forwards
  <2>4. s \in Ended(run'.host) <=> source'[s] # "open"
    BY <2>1, <2>2, <2>3
  <2>5. s \in run'.host.done => source'[s] = "finished"
    BY <1>0, <2>1, <2>2, <2>3 DEF Terminal
  <2>6. sent'[s]["finding"] = "gaps" => run'.auditPartial
    <3>1. run.auditPartial => run'.auditPartial
      BY <1>1 DEF Observes, Sees
    <3>2. sent'[s]["finding"] # sent[s]["finding"] =>
            ev.kind = "Finding" /\ ev.val = sent'[s]["finding"]
      BY <1>0 DEF Forwards, SectionEvents
    <3>3. ev.kind = "Finding" /\ ev.val = "gaps" => run'.auditPartial
      BY <1>1 DEF Observes, Sees
    <3> QED BY <2>2, <3>1, <3>2, <3>3
  <2> QED BY <2>4, <2>5, <2>6
<1> QED BY <1>2, <1>3, <1>4 DEF HistoryInv

\* While the run is not stopped.
LEMMA ObservedUnhurried ==
  ASSUME TypeInv, gen \in RunIds, OrderInv, HistoryInv, TreesInv, LiveInv, Consistent(run),
         NEW ev, Forwards(ev), NEW isStopped, NEW r, NEW t,
         Observes(ev, isStopped, r, t), ~isStopped
  PROVE  Unhurried(t)
<1>0. /\ r = run /\ gen \notin stopped /\ Unhurried(run)
      /\ Fs \in Sections
      /\ ev.sec = Fs => source[Fs] = "open"
      /\ ev.kind = "Tree" => ev.sec = Fs
      /\ Line[1] = ev /\ 1 \in 1..Len(Line)
  BY MetadataAssumption, LineTail, LineIsOpen DEF Forwards, Observes, LiveInv, SectionEvents
<1>1. ev.sec = Fs => run.primary = "open"
  BY <1>0 DEF HistoryInv
<1>2. run.primary # "open" => t.primary # "open"
  BY <1>0 DEF Observes, Sees
<1>3. run.limited => ev.kind # "Tree"
  BY <1>0 DEF TreesInv
<1>4. t.disk.state # "Running" => t.primary # "open"
  <2>1. CASE ev.sec # Fs
    BY <1>0, <1>2, <2>1 DEF Observes, Unhurried
  <2>2. CASE ev.sec = Fs
    <3>1. Ended(t.disk) = {Fs} => t.primary # "open"
      BY DEF Observes, Consistent, WalksTell, Ended
    <3>2. Ended(t.disk) # {Fs} => t.disk.state = run.disk.state
      BY <1>0, <2>2 DEF Observes, Decides
    <3> QED BY <1>0, <1>2, <3>1, <3>2 DEF Unhurried
  <2> QED BY <2>1, <2>2
<1>5. t.host.state # "Running" => Ended(t.host) = Sections
  <2> SUFFICES ASSUME t.host.state # "Running", Ended(t.host) # Sections PROVE FALSE
    OBVIOUS
  <2>1. t.host.state = run.host.state
    BY <1>0 DEF Observes, Decides
  <2>2. Ended(run.host) = Sections
    BY <1>0, <2>1 DEF Unhurried
  <2>3. Sections \ {Fs} \subseteq Ended(t.host)
    BY <1>0, <2>2 DEF Observes, Counts
  <2>4. WalksOver(run)
    BY <1>0, <2>2 DEF Consistent, HostTells, HostCounts, Ended, WalksGood, WalksOver
  <2>5. WalksOver(t)
    BY <1>0, <1>2, <2>4 DEF Observes, Sees, WalksOver
  <2>6. Fs \in Ended(t.host)
    BY <2>5 DEF Observes, Consistent, HostTells, HostCounts, Ended
  <2>7. Ended(t.host) \subseteq Sections
    BY DEF Observes, Consistent, WalksTell, Runs, Contexts, Ended
  <2> QED BY <2>3, <2>6, <2>7
<1>6. t.limited => ~t.separate /\ t.discPartial
  BY <1>0, <1>3 DEF Observes, Sees, Unhurried
<1>7. "ResourceLimited" \in t.host.why => t.limited
  BY <1>0, <1>3 DEF Observes, Sees, Learns, Unhurried
<1>8. t.discovery = "ok" /\ ~t.discPartial => t.disc = "Complete"
  <2>1. CASE WalkEnds(ev) /\ ~run.separate
    <3>1. t.discovery = t.primary /\ (t.discPartial <=> run.discPartial)
      BY <1>0, <2>1 DEF Observes, Sees, WalkEnds, Terminal
    <3>2. ~run.limited /\ t.primary = "ok" =>
            t.disc = IF run.discPartial THEN "Partial" ELSE "Complete"
      BY <1>0, <2>1 DEF Observes, Discovers
    <3> QED BY <1>0, <3>1, <3>2 DEF Unhurried
  <2>2. CASE ~(WalkEnds(ev) /\ ~run.separate)
    <3>1. t.disc = run.disc /\ t.discovery = run.discovery
      BY <1>0, <2>2 DEF Observes, Discovers, Sees
    <3>2. CASE ev.kind = "Tree" /\ ~run.separate
      <4>1. run.discovery = "open"
        BY <1>0, <1>1, <3>2 DEF Consistent, WalksTell
      <4> QED BY <3>1, <4>1
    <3>3. CASE ~(ev.kind = "Tree" /\ ~run.separate)
      <4>1. t.discPartial <=> run.discPartial
        BY <1>0, <3>3 DEF Observes, Sees
      <4> QED BY <1>0, <3>1, <4>1 DEF Unhurried
    <3> QED BY <3>2, <3>3
  <2> QED BY <2>1, <2>2
<1> QED BY <1>4, <1>5, <1>6, <1>7, <1>8 DEF Unhurried

\* Complete is reported with the last ending or not at all: a run that is
\* Complete has no event left in its line.
LEMMA ForwardComplete ==
  ASSUME TypeInv, gen \in RunIds, OrderInv, AheadInv, HistoryInv, TreesInv, LiveInv,
         CompleteInv, Consistent(run), NEW ev, Forwards(ev), NEW isStopped \in BOOLEAN,
         NEW r, NEW t, Observes(ev, isStopped, r, t), HistoryInv', AheadInv'
  PROVE  CompleteInv'
<1>0. /\ Fs \in Sections /\ ev.sec \in Sections
      /\ source[ev.sec] # "finished" /\ source[ev.sec] # "none"
  BY MetadataAssumption, LineTail, LineIsOpen DEF Forwards
<1>1. /\ run'.disk.state = "Complete" => t.disk.state = "Complete"
      /\ run'.host.state = "Complete" => t.host.state = "Complete"
      /\ r.disk.state = "Complete" => run.disk.state = "Complete"
      /\ r.host.state = "Complete" => run.host.state = "Complete"
      /\ t.disc = "Complete" => run'.disc = "Complete"
      /\ run'.host.done = t.host.done /\ run'.primary = t.primary
      /\ run'.discovery = t.discovery /\ run'.diskPartial = t.diskPartial
      /\ run'.auditPartial = t.auditPartial
  BY DEF Observes, RunKept, SameRun
<1>w. run'.primary = "ok" => source'[Fs] = "finished"
  <2>1. source'[Fs] \in {"open", "finished", "failed"}
    BY <1>0 DEF Forwards, OrderInv
  <2>2. CASE source'[Fs] = "open"
    BY <2>2 DEF HistoryInv
  <2>3. CASE source'[Fs] = "failed"
    BY <2>3 DEF HistoryInv
  <2> QED BY <2>1, <2>2, <2>3
<1>2. run.host.state # "Complete"
  BY <1>0 DEF CompleteInv
<1>3. ASSUME t.disk.state = "Complete"
      PROVE  source'[Fs] = "finished" /\ sent'[Fs]["tree"] = "whole"
  <2>1. CASE ev.sec # Fs
    <3>1. run.disk.state = "Complete"
      BY <1>1, <1>3, <2>1 DEF Observes
    <3>2. source'[Fs] = source[Fs] /\ sent'[Fs]["tree"] = sent[Fs]["tree"]
      BY <1>0, <2>1 DEF Forwards
    <3> QED BY <3>1, <3>2 DEF CompleteInv
  <2>2. CASE ev.sec = Fs
    <3>1. run.disk.state # "Complete"
      BY <1>0, <2>2 DEF CompleteInv
    <3>2. ~isStopped /\ Ended(t.disk) = {Fs} /\ t.disk.done = {Fs} /\ ~t.diskPartial
      BY <1>1, <1>3, <2>2, <3>1 DEF Observes, Decides, StateWhenStopped
    <3>3. run'.primary = "ok"
      BY <1>1, <3>2 DEF Observes, Consistent, WalksTell
    <3>5. source'[Fs] = "finished"
      BY <1>w, <3>3
    <3>6. sent'[Fs]["tree"] # Nothing
      BY <1>0, <3>5 DEF AheadInv, Known
    <3> QED BY <1>1, <3>2, <3>5, <3>6 DEF HistoryInv
  <2> QED BY <2>1, <2>2
<1>4. ASSUME t.host.state = "Complete"
      PROVE  /\ \A s \in Sections : source'[s] = "finished"
             /\ ~t.auditPartial /\ t.disc = "Complete" /\ t.discovery = "ok"
  <2>1. ~isStopped /\ t.host.done = Sections /\ ~t.auditPartial /\ ~t.discPartial
    BY <1>1, <1>2, <1>4 DEF Observes, Decides, StateWhenStopped
  <2>2. WalksGood(t)
    BY <1>0, <2>1 DEF Observes, Consistent, HostTells, HostCounts
  <2>3. Unhurried(t)
    BY <2>1, ObservedUnhurried
  <2>4. source'[Fs] = "finished"
    <3>1. run'.primary = "ok"
      BY <1>1, <2>2 DEF WalksGood
    <3> QED BY <1>w, <3>1
  <2>5. \A s \in Sections \ {Fs} : source'[s] = "finished"
    BY <1>1, <2>1 DEF HistoryInv
  <2> QED BY <2>1, <2>2, <2>3, <2>4, <2>5 DEF Unhurried, WalksGood
<1> QED BY <1>1, <1>3, <1>4 DEF CompleteInv

LEMMA ForwardKeeps ==
  ASSUME TypeInv, CurrentInv, gen \in RunIds, Consistent(run), NEW ev, Forwards(ev),
         NEW isStopped \in BOOLEAN, NEW r, NEW t, Observes(ev, isStopped, r, t)
  PROVE  /\ OrderInv' /\ AheadInv' /\ EndsInv' /\ TreesInv' /\ HomeInv'
         /\ HistoryInv' /\ LiveInv' /\ CompleteInv'
<1> USE DEF CurrentInv
<1>1. OrderInv' /\ EndsInv' /\ AheadInv' /\ TreesInv' /\ HomeInv'
  BY ForwardOrder, ForwardEnds, ForwardAhead, ForwardTrees, ForwardHomeInv
<1>2. HistoryInv'
  BY ForwardHistory
<1>3. CompleteInv'
  BY <1>1, <1>2, ForwardComplete
<1>4. LiveInv'
  <2>1. gen' \notin stopped' => ~isStopped /\ run' = t
    BY DEF Forwards, Observes
  <2> QED BY <2>1, ObservedUnhurried DEF LiveInv
<1> QED BY <1>1, <1>2, <1>3, <1>4

-----------------------------------------------------------------------------
(* An event of Home is forwarded, or its ending made up.                   *)

HomeHears(ev) ==
  /\ gen' = gen /\ worker' = worker /\ queue'[gen]["sections"] = queue[gen]["sections"]
  /\ source' = source /\ sent' = sent /\ bus' = bus /\ told' = told
  /\ hold'[gen]["sections"] = hold[gen]["sections"]
  /\ HomeEvent(ev) /\ run.separate /\ run.discovery = "open"
  /\ run' = ObserveDiscovery(run, ev, gen \in stopped)
  /\ LimitedDiscovery(gen, TRUE)

LEMMA HomeHeard ==
  ASSUME Consistent(run), NEW ev, HomeHears(ev)
  PROVE  /\ Consistent(run') /\ Explores(run, ev, run') /\ Learns(run, run')
         /\ \A s \in Sections \ {Fs} : /\ s \in run'.host.done <=> s \in run.host.done
                                       /\ s \in Ended(run'.host) <=> s \in Ended(run.host)
         /\ run'.limited => /\ "ResourceLimited" \in run'.host.why
                            /\ run'.host.state = "Partial"
                            /\ run'.disk.state = StateWhenStopped(run.disk)
                            /\ gen \in stopped'
         /\ ~run'.limited => /\ run'.disk = run.disk
                             /\ Decides(run.host, run'.host, Sections,
                                        run'.auditPartial \/ run'.discPartial, gen \in stopped)
                             /\ gen \notin stopped => Concludes(run, run')
                             /\ stopped' = stopped
<1>1. (gen \in stopped) \in BOOLEAN
  OBVIOUS
<1>2. run'.limited => gen \in stopped'
  BY DEF HomeHears, LimitedDiscovery
<1>3. ~run'.limited => stopped' = stopped
  BY DEF HomeHears, LimitedDiscovery
<1> DEFINE cut == gen \in stopped
           t == ObserveDiscovery(run, ev, cut)
<1>4. run' = t /\ cut \in BOOLEAN
  BY DEF HomeHears
<1> HIDE DEF cut
<1>5. /\ Consistent(t) /\ Explores(run, ev, t) /\ Learns(run, t)
      /\ \A s \in Sections \ {Fs} : /\ s \in t.host.done <=> s \in run.host.done
                                    /\ s \in Ended(t.host) <=> s \in Ended(run.host)
      /\ t.limited => /\ "ResourceLimited" \in t.host.why /\ t.host.state = "Partial"
                      /\ t.disk.state = StateWhenStopped(run.disk)
      /\ ~t.limited => /\ t.disk = run.disk
                       /\ Decides(run.host, t.host, Sections,
                                  t.auditPartial \/ t.discPartial, cut)
                       /\ ~cut => Concludes(run, t)
  BY <1>4, DiscoveryObserved DEF HomeHears
<1> HIDE DEF t
<1> QED BY <1>2, <1>3, <1>4, <1>5 DEF cut

LEMMA HomeHearsKeeps ==
  ASSUME TypeInv, CurrentInv, gen \in RunIds, Consistent(run), NEW ev, HomeHears(ev)
  PROVE  /\ OrderInv' /\ AheadInv' /\ EndsInv' /\ TreesInv'
         /\ HistoryInv' /\ LiveInv' /\ CompleteInv'
<1> USE DEF CurrentInv
<1>h. /\ Consistent(run') /\ Explores(run, ev, run') /\ Learns(run, run')
      /\ \A s \in Sections \ {Fs} : /\ s \in run'.host.done <=> s \in run.host.done
                                    /\ s \in Ended(run'.host) <=> s \in Ended(run.host)
      /\ run'.limited => /\ "ResourceLimited" \in run'.host.why
                         /\ run'.host.state = "Partial"
                         /\ run'.disk.state = StateWhenStopped(run.disk)
                         /\ gen \in stopped'
      /\ ~run'.limited => /\ run'.disk = run.disk
                          /\ Decides(run.host, run'.host, Sections,
                                     run'.auditPartial \/ run'.discPartial, gen \in stopped)
                          /\ gen \notin stopped => Concludes(run, run')
                          /\ stopped' = stopped
  BY HomeHeard
<1>0. /\ Line' = Line
      /\ \A w : At(w)' = At(w)
      /\ \A s : Ending(s)' = Ending(s)
      /\ gen' = gen /\ (gen \in stopped => gen \in stopped')
      /\ source' = source /\ sent' = sent /\ bus' = bus /\ told' = told
      /\ run'.primary = run.primary /\ run'.separate /\ run.separate
      /\ run'.diskPartial = run.diskPartial /\ run'.auditPartial = run.auditPartial
  <2>1. /\ Line' = Line /\ gen' = gen /\ worker' = worker
        /\ source' = source /\ sent' = sent /\ bus' = bus /\ told' = told
        /\ run.separate
    BY DEF HomeHears, Line
  <2>2. gen \in stopped => gen \in stopped'
    BY DEF HomeHears, LimitedDiscovery
  <2>3. /\ \A w : At(w)' = At(w)
        /\ \A s : Ending(s)' = Ending(s)
    BY <2>1 DEF At, Ending
  <2>4. /\ run'.primary = run.primary /\ run'.separate
        /\ run'.diskPartial = run.diskPartial /\ run'.auditPartial = run.auditPartial
    BY <1>h, <2>1 DEF Explores
  <2> QED BY <2>1, <2>2, <2>3, <2>4
<1>k. \A s : Known(s) => Known(s)'
  BY <1>0 DEF Known
<1>1. OrderInv'
  <2>1. \A s : NoSuccess(s) => NoSuccess(s)'
    BY <1>0 DEF NoSuccess
  <2>2. /\ \A e : IsLast(e)' => IsLast(e)
        /\ \A s : IsOver(s)' => IsOver(s)
    BY <1>0 DEF IsLast, IsOver
  <2> QED BY <1>0, <2>1, <2>2 DEF OrderInv
<1>2. AheadInv'
  <2>1. \A s \in Sections : \A n : Ahead(s, n) => Ahead(s, n)'
    BY <1>0, <1>k DEF Ahead
  <2> QED BY <1>0, <1>k, <2>1 DEF AheadInv
<1>3. EndsInv'
  BY <1>0 DEF EndsInv, HomeHears
<1>4. TreesInv'
  BY <1>0, <1>h DEF TreesInv, TreesOver
<1>5. HistoryInv'
  BY <1>0, <1>h DEF HistoryInv
<1>6. gen \notin stopped /\ ~run'.limited => Unhurried(run')
  <2> SUFFICES ASSUME gen \notin stopped, ~run'.limited PROVE Unhurried(run')
    OBVIOUS
  <2>0. Unhurried(run)
    BY DEF LiveInv
  <2>1. run'.disk.state # "Running" => run'.primary # "open"
    BY <1>0, <1>h, <2>0 DEF Unhurried
  <2>2. run'.host.state # "Running" => Ended(run'.host) = Sections
    <3> SUFFICES ASSUME run'.host.state # "Running", Ended(run'.host) # Sections PROVE FALSE
      OBVIOUS
    <3>1. run'.host.state = run.host.state
      BY <1>h DEF Decides
    <3>2. Ended(run.host) = Sections
      BY <2>0, <3>1 DEF Unhurried
    <3>3. Fs \in Ended(run.host)
      BY <3>2, MetadataAssumption
    <3>4. WalksOver(run)
      BY <3>3 DEF Consistent, HostTells, HostCounts, Ended, WalksGood, WalksOver
    <3> QED BY <3>4 DEF WalksOver, HomeHears
  <2>3. "ResourceLimited" \notin run'.host.why
    BY <1>0, <1>h, <2>0 DEF Learns, Unhurried
  <2>4. run'.discovery = "ok" /\ ~run'.discPartial => run'.disc = "Complete"
    BY <1>h DEF Concludes
  <2> QED BY <2>1, <2>2, <2>3, <2>4 DEF Unhurried
<1>7. LiveInv'
  BY <1>0, <1>h, <1>6 DEF LiveInv
<1>8. CompleteInv'
  <2>1. run'.disk.state = "Complete" => run.disk.state = "Complete"
    BY <1>h DEF StateWhenStopped
  <2>2. ASSUME run'.host.state = "Complete"
        PROVE  /\ \A s \in Sections : source'[s] = "finished"
               /\ ~run'.auditPartial /\ run'.disc = "Complete" /\ run'.discovery = "ok"
    <3>1. ~run'.limited
      BY <1>h, <2>2
    <3>2. run.host.state # "Complete"
      BY DEF CompleteInv, HomeHears
    <3>3. /\ gen \notin stopped /\ run'.host.done = Sections
          /\ ~run'.auditPartial /\ ~run'.discPartial
      BY <1>h, <2>2, <3>1, <3>2 DEF Decides, StateWhenStopped
    <3>4. WalksGood(run')
      BY <1>h, <3>3, MetadataAssumption DEF Consistent, HostTells, HostCounts
    <3>5. Unhurried(run')
      BY <1>6, <3>1, <3>3
    <3>6. source[Fs] = "finished"
      <4>1. run.primary = "ok"
        BY <1>0, <3>4 DEF WalksGood
      <4>2. source[Fs] \in {"open", "finished", "failed"}
        BY MetadataAssumption DEF TypeInv, OrderInv
      <4>3. CASE source[Fs] = "open"
        BY <4>1, <4>3 DEF HistoryInv
      <4>4. CASE source[Fs] = "failed"
        BY <4>1, <4>4 DEF HistoryInv
      <4> QED BY <4>2, <4>3, <4>4
    <3>7. \A s \in Sections \ {Fs} : source[s] = "finished"
      BY <1>h, <3>3 DEF HistoryInv
    <3> QED BY <1>0, <3>3, <3>4, <3>5, <3>6, <3>7 DEF Unhurried, WalksGood
  <2> QED BY <1>0, <2>1, <2>2 DEF CompleteInv
<1> QED BY <1>1, <1>2, <1>3, <1>4, <1>5, <1>7, <1>8

-----------------------------------------------------------------------------
(* What a step of any run's worker leaves true of all of them.             *)

\* Event ev joins lane l of run g.
Adds(g, l, ev) ==
  /\ queue' \in [RunIds -> [Lanes -> Seq(Events)]]
  /\ Longer(queue[g][l], ev, queue'[g][l]) /\ Len(queue'[g][l]) <= LaneCap(l)
  /\ \A k \in Lanes : k # l => queue'[g][k] = queue[g][k]
  /\ \A h \in RunIds \ {g} : queue'[h] = queue[h]

LEMMA QueueExtended ==
  ASSUME TypeInv, NEW g \in RunIds, NEW l \in Lanes, NEW ev \in Events, HasRoom(g, l),
         queue' = [queue EXCEPT ![g][l] = Append(@, ev)]
  PROVE  Adds(g, l, ev)
<1> DEFINE q == queue[g][l]
           p == Append(q, ev)
<1>1. q \in Seq(Events)
  BY DEF TypeInv
<1>2. Longer(q, ev, p) /\ p \in Seq(Events) /\ Len(q) \in Nat
  BY <1>1, Appended
<1>3. LaneCap(l) \in Nat
  BY EngineAssumption DEF LaneCap
<1>4. Len(p) <= LaneCap(l)
  BY <1>2, <1>3 DEF HasRoom, Longer
<1>5. queue' = [queue EXCEPT ![g] = [queue[g] EXCEPT ![l] = p]]
  BY DEF TypeInv
<1>6. queue' \in [RunIds -> [Lanes -> Seq(Events)]]
      /\ queue'[g][l] = p
      /\ \A k \in Lanes : k # l => queue'[g][k] = queue[g][k]
      /\ \A h \in RunIds \ {g} : queue'[h] = queue[h]
  <2> HIDE DEF p, q
  <2> QED BY <1>2, <1>5 DEF TypeInv
<1> QED BY <1>2, <1>4, <1>6 DEF Adds

LEMMA MovedAll ==
  ASSUME TypeInv, EventsInv, WorkersInv, RunsInv, NEW g \in RunIds, NEW w \in Workers,
         NEW x, Moves(g, w, x), Allows(g, w, x),
         UNCHANGED <<gen, hold, tx>>, stopped \subseteq stopped',
         \/ queue' = queue
         \/ \E ev \in LaneEvents(LaneOf(w)) : Adds(g, LaneOf(w), ev)
  PROVE  EventsInv' /\ WorkersInv' /\ RunsInv' /\ g \in 1..gen
<1>g. g \in 1..gen
  <2>1. g <= gen
    <3> SUFFICES ASSUME g > gen PROVE FALSE
      BY DEF RunIds, TypeInv
    <3>1. worker[g][w] = Gone
      BY DEF RunsInv
    <3> QED BY <3>1 DEF Allows, IsOut, Gone
  <2> QED BY <2>1 DEF RunIds, TypeInv
<1>l. LaneOf(w) \in Lanes
  BY DEF LaneOf, Lanes
<1>1. \A h \in RunIds, v \in Workers : worker'[h][v] = worker[h][v] \/ (h = g /\ v = w)
  BY DEF Moves
<1>2. EventsInv'
  <2>1. ASSUME NEW h \in RunIds, NEW v \in Workers, worker'[h][v].out # Nothing
        PROVE  worker'[h][v].out \in LaneEvents(LaneOf(v))
               /\ worker'[h][v].out.sec = SectionOf(v)
    <3>1. CASE h = g /\ v = w
      BY <2>1, <3>1 DEF Moves, Allows
    <3>2. CASE ~(h = g /\ v = w)
      <4>1. worker'[h][v] = worker[h][v]
        BY <1>1, <3>2
      <4> QED BY <2>1, <4>1 DEF EventsInv
    <3> QED BY <3>1, <3>2
  <2>2. ASSUME NEW h \in RunIds, NEW l \in Lanes, NEW i \in 1..Len(queue'[h][l])
        PROVE  queue'[h][l][i] \in LaneEvents(l)
    <3>1. CASE queue'[h][l] = queue[h][l]
      BY <2>2, <3>1 DEF EventsInv
    <3>2. CASE queue'[h][l] # queue[h][l]
      <4>0. PICK ev \in LaneEvents(LaneOf(w)) : Adds(g, LaneOf(w), ev)
        BY <3>2
      <4>1. h = g /\ l = LaneOf(w)
        BY <3>2, <4>0 DEF Adds
      <4>2. Len(queue[h][l]) \in Nat
        BY DEF TypeInv
      <4>3. /\ Len(queue'[h][l]) = Len(queue[h][l]) + 1
            /\ queue'[h][l][Len(queue[h][l]) + 1] = ev
            /\ \A k \in 1..Len(queue[h][l]) : queue'[h][l][k] = queue[h][l][k]
        BY <4>0, <4>1 DEF Adds, Longer
      <4>4. \A k \in 1..Len(queue[h][l]) : queue[h][l][k] \in LaneEvents(l)
        BY DEF EventsInv
      <4>5. CASE i \in 1..Len(queue[h][l])
        BY <4>3, <4>4, <4>5
      <4>6. CASE i = Len(queue[h][l]) + 1
        BY <4>1, <4>3, <4>6
      <4>7. i \in 1..Len(queue[h][l]) \/ i = Len(queue[h][l]) + 1
        BY <4>2, <4>3
      <4> QED BY <4>5, <4>6, <4>7
    <3> QED BY <3>1, <3>2
  <2> QED BY <2>1, <2>2 DEF EventsInv
<1>3. WorkersInv'
  <2>1. ASSUME NEW h \in RunIds, NEW v \in Workers
        PROVE  /\ worker'[h][v].pc \in {"gone", "dead"} => worker'[h][v].out = Nothing
               /\ worker'[h][v].pc = "end" =>
                    worker'[h][v].out # Nothing /\ Terminal(worker'[h][v].out)
               /\ worker'[h][v].pc = "scan" /\ worker'[h][v].out # Nothing =>
                    /\ worker'[h][v].out.kind # "Finished"
                    /\ worker'[h][v].out.kind = "Failed" => h \in stopped' /\ v \notin {Fs, Home}
    <3>1. CASE h = g /\ v = w
      BY <3>1 DEF Moves, Allows
    <3>2. CASE ~(h = g /\ v = w)
      <4>1. worker'[h][v] = worker[h][v]
        BY <1>1, <3>2
      <4> QED BY <4>1 DEF WorkersInv, IsOut
    <3> QED BY <3>1, <3>2
  <2> QED BY <2>1 DEF WorkersInv, IsOut
<1>4. RunsInv'
  <2> SUFFICES ASSUME NEW h \in RunIds, h > gen
               PROVE  worker'[h] = worker[h] /\ queue'[h] = queue[h]
    BY DEF RunsInv
  <2>1. h # g
    BY <1>g DEF TypeInv
  <2> QED BY <2>1 DEF Moves, Adds
<1> QED BY <1>g, <1>2, <1>3, <1>4

-----------------------------------------------------------------------------
(* Steps of the workers.                                                   *)

LEMMA SteadyIfSame ==
  ASSUME TypeInv, UNCHANGED <<gen, stopped, run, bus, source, sent, told, awaited, hold>>
  PROVE  Steady
<1>1. Keeps(bus, bus')
  BY DEF Keeps, TypeInv
<1> QED BY <1>1, RunKeptItself DEF Steady, SteadyRun

\* A worker that moves and says nothing.
LEMMA MoveStep ==
  ASSUME Inv, NEW g \in RunIds, NEW w \in Workers, NEW x \in WorkerStates,
         Moves(g, w, x), Allows(g, w, x), OnlyWorkers, queue' = queue,
         w \in Sections => x.pc # "gone",
         g = gen /\ w \in Sections => Continues(w, x)
  PROVE  Inv'
<1> USE DEF Inv, OnlyWorkers
<1>1. EventsInv' /\ WorkersInv' /\ RunsInv' /\ g \in 1..gen
  BY MovedAll
<1>2. TypeInv'
  BY DEF TypeInv, Moves
<1>3. BusInv' /\ Consistent(run')
  BY DEF BusInv
<1>4. gen > 0 /\ gen \in RunIds
  BY <1>1 DEF TypeInv, RunIds
<1>5. Steady
  BY SteadyIfSame
<1>6. CurrentInv
  BY <1>4
<1>7. /\ OrderInv' /\ AheadInv' /\ EndsInv' /\ TreesInv' /\ HomeInv'
      /\ HistoryInv' /\ LiveInv' /\ CompleteInv'
  <2>1. CASE g # gen
    <3>1. worker'[gen] = worker[gen]
      BY <1>4, <2>1 DEF Moves
    <3> QED BY <1>5, <1>6, <3>1, IdleKeeps
  <2>2. CASE g = gen /\ w \in Sections
    BY <1>4, <1>5, <1>6, <2>2, MoveKeeps
  <2>3. CASE g = gen /\ w = Home
    BY <1>4, <1>5, <1>6, <2>3, HomeMoveKeeps DEF Allows
  <2> QED BY <2>1, <2>2, <2>3 DEF Workers
<1>8. StopHasOwnCause'
  BY <1>6 DEF CurrentInv, StopHasOwnCause
<1> QED BY <1>1, <1>2, <1>3, <1>4, <1>7, <1>8 DEF CurrentInv

\* A worker that moves as it says ev.
LEMMA SayStep ==
  ASSUME Inv, NEW g \in RunIds, NEW w \in Workers, NEW x \in WorkerStates,
         Moves(g, w, x), Allows(g, w, x), OnlyWorkers,
         NEW ev \in LaneEvents(LaneOf(w)), ev \in Events, Adds(g, LaneOf(w), ev),
         g = gen /\ w \in Sections => Says(w, x, ev),
         w = Home /\ Terminal(ev) => x.pc = "gone"
  PROVE  Inv'
<1> USE DEF Inv, OnlyWorkers
<1>1. EventsInv' /\ WorkersInv' /\ RunsInv' /\ g \in 1..gen
  BY MovedAll
<1>l. LaneOf(w) \in Lanes /\ Home \notin Sections
  BY EngineAssumption DEF LaneOf, Lanes
<1>2. TypeInv'
  <2>1. \A h \in RunIds, l \in Lanes : Len(queue'[h][l]) <= LaneCap(l)
    BY DEF TypeInv, Adds
  <2> QED BY <2>1 DEF TypeInv, Moves, Adds
<1>3. BusInv' /\ Consistent(run')
  BY DEF BusInv
<1>4. gen > 0 /\ gen \in RunIds
  BY <1>1 DEF TypeInv, RunIds
<1>5. Steady
  BY SteadyIfSame
<1>6. CurrentInv
  BY <1>4
<1>7. /\ OrderInv' /\ AheadInv' /\ EndsInv' /\ TreesInv' /\ HomeInv'
      /\ HistoryInv' /\ LiveInv' /\ CompleteInv'
  <2>1. CASE g # gen
    <3>1. worker'[gen] = worker[gen] /\ queue'[gen] = queue[gen]
      BY <1>4, <2>1 DEF Moves, Adds
    <3> QED BY <1>5, <1>6, <3>1, IdleKeeps
  <2>2. CASE g = gen /\ w \in Sections
    <3>1. LaneOf(w) = "sections"
      BY <1>l, <2>2 DEF LaneOf
    <3>2. Longer(Line, ev, Line') /\ queue'[gen]["home"] = queue[gen]["home"]
      BY <2>2, <3>1 DEF Adds, Line, Lanes
    <3>3. At(w).pc # "gone"
      BY <2>2 DEF Allows, IsOut, At
    <3> QED BY <1>4, <1>5, <1>6, <2>2, <3>2, <3>3, SayKeeps
  <2>3. CASE g = gen /\ w = Home
    <3>1. LaneOf(w) = "home"
      BY <2>3 DEF LaneOf
    <3>2. /\ Longer(queue[gen]["home"], ev, queue'[gen]["home"])
          /\ queue'[gen]["sections"] = queue[gen]["sections"]
      BY <2>3, <3>1 DEF Adds, Lanes
    <3>3. ~IsOut(gen, Home)
      BY <2>3 DEF Allows
    <3> QED BY <1>4, <1>5, <1>6, <2>3, <3>2, <3>3, HomeMoveKeeps
  <2> QED BY <2>1, <2>2, <2>3 DEF Workers
<1>8. StopHasOwnCause'
  BY <1>6 DEF CurrentInv, StopHasOwnCause
<1> QED BY <1>1, <1>2, <1>3, <1>4, <1>7, <1>8 DEF CurrentInv

\* A scanner comes to stage n and has ev to send, which ends nothing.
LEMMA EmitStep ==
  ASSUME Inv, NEW g \in RunIds, NEW w \in Workers, NEW n \in 0..3,
         NEW ev \in LaneEvents(LaneOf(w)),
         Scanning(g, w), Emits(g, w, n, ev), OnlyWorkers, queue' = queue,
         ev.sec = SectionOf(w), ~Terminal(ev),
         g = gen /\ w \in Sections =>
           /\ n >= 2 /\ gen \notin stopped => Ahead(w, Len(Line)) \/ Teaches(ev, w)
           /\ w = Fs => /\ ev.kind = "Tree" => n >= 2 /\ ~TreesOver
                        /\ At(Fs).stage <= n
  PROVE  Inv'
<1>1. ev \in Events /\ ev # Nothing
  BY TagAssumption DEF LaneEvents, HomeEvents, SectionEvents
<1>w. worker \in [RunIds -> [Workers -> WorkerStates]]
  BY DEF Inv, TypeInv
<1> DEFINE x == [worker[g][w] EXCEPT !.stage = n, !.out = ev]
<1>2. worker[g][w] \in WorkerStates /\ worker[g][w].pc = "scan"
  BY <1>w, WorkerFields DEF Scanning
<1>3. x \in WorkerStates /\ x.pc = "scan" /\ x.stage = n /\ x.out = ev
  BY <1>1, <1>2 DEF WorkerStates
<1>4. worker' = [worker EXCEPT ![g][w] = x]
  BY <1>w, <1>2 DEF Emits
<1> HIDE DEF x
<1>5. Moves(g, w, x)
  BY <1>w, <1>3, <1>4, WorkerReplaced
<1>6. Allows(g, w, x)
  BY <1>1, <1>2, <1>3 DEF Allows, IsOut, Terminal
<1>7. g = gen /\ w \in Sections => Continues(w, x)
  BY <1>1, <1>2, <1>3 DEF Continues, Terminal, At, IsTree, OnlyWorkers
<1> QED BY <1>3, <1>5, <1>6, <1>7, MoveStep

LEMMA CurrentRun ==
  ASSUME Inv, NEW g \in RunIds, NEW w \in Workers, worker[g][w].pc # "gone"
  PROVE  g \in 1..gen /\ gen > 0 /\ CurrentInv /\ gen \in RunIds
<1>1. g <= gen
  BY DEF Inv, RunsInv, TypeInv, RunIds, Gone
<1> QED BY <1>1 DEF Inv, TypeInv, RunIds

LEMMA Settings ==
  ASSUME Inv
  PROVE  /\ run.separate \in BOOLEAN
         /\ Faults[run.separate] \subseteq FaultKinds
         /\ Deps[Fs] = {} /\ \A s \in Sections : Deps[s] \subseteq Sections
         /\ Home \notin Sections /\ Fs \in Sections
<1>1. run.separate \in BOOLEAN
  BY DEF Inv, Consistent, WalksTell, Runs
<1> QED BY <1>1, EngineAssumption, MetadataAssumption

LEMMA Qualified ==
  ASSUME Inv, NEW w \in Workers, NEW q \in Outcomes[run.separate][w]
  PROVE  q \in Qualities
<1>1. run.separate \in BOOLEAN
  BY Settings
<1>2. Outcomes[run.separate] \in [Workers -> SUBSET Qualities]
  BY <1>1, EngineAssumption DEF Workers
<1> QED BY <1>2

LEMMA WalkDoneKeeps ==
  ASSUME Inv, NEW g \in RunIds, WalkDone(g)
  PROVE  Inv'
<1>1. /\ Fs \in Workers /\ SectionOf(Fs) = Fs /\ LaneEvents(LaneOf(Fs)) = SectionEvents
      /\ Scanning(g, Fs) /\ worker[g][Fs].stage \in 0..3
  <2>1. Fs \in Workers
    BY Settings DEF Workers
  <2>2. worker[g][Fs].stage \in 0..3
    BY <2>1, WorkerFields DEF Inv, TypeInv
  <2> QED BY <2>1, <2>2, Settings DEF SectionOf, LaneEvents, LaneOf, WalkDone
<1>2. g = gen => CurrentInv /\ At(Fs) = worker[g][Fs] /\ At(Fs).pc = "scan" /\ At(Fs).out = Nothing
  BY <1>1, CurrentRun DEF Scanning, At
<1>3. ASSUME worker[g][Fs].stage < 2, NEW q \in Outcomes[run.separate][Fs],
             Emits(g, Fs, 2, Event(Fs, "Tree", q))
      PROVE  Inv'
  <2> DEFINE ev == Event(Fs, "Tree", q)
  <2>0. q \in Qualities
    BY <1>1, <1>3, Qualified
  <2>1. ev \in SectionEvents /\ ev.sec = Fs /\ ev.kind = "Tree" /\ ~Terminal(ev)
    BY <2>0, Settings DEF Event, SectionEvents, Events, BusItem, Terminal, Qualities
  <2>2. g = gen => ~TreesOver /\ At(Fs).stage <= 2
    BY <1>1, <1>2, <1>3 DEF TreesOver
  <2>3. Emits(g, Fs, 2, ev)
    BY <1>3
  <2>4. Teaches(ev, Fs)
    BY <2>1 DEF Teaches
  <2> HIDE DEF ev
  <2> QED BY <1>1, <2>1, <2>2, <2>3, <2>4, EmitStep DEF WalkDone
<1>4. ASSUME worker[g][Fs].stage = 2, NEW k \in {"DiskFinding", "Finding"},
             Emits(g, Fs, 3, Event(Fs, k, "gaps"))
      PROVE  Inv'
  <2> DEFINE ev == Event(Fs, k, "gaps")
  <2>1. ev \in SectionEvents /\ ev.sec = Fs /\ ev.kind # "Tree" /\ ~Terminal(ev)
    BY Settings DEF Event, SectionEvents, Events, BusItem, Terminal, Qualities
  <2>2. g = gen => Ahead(Fs, Len(Line)) /\ At(Fs).stage <= 3
    BY <1>1, <1>2, <1>4, Settings DEF CurrentInv, AheadInv, WalkDone
  <2>3. Emits(g, Fs, 3, ev)
    BY <1>4
  <2> HIDE DEF ev
  <2> QED BY <1>1, <2>1, <2>2, <2>3, EmitStep DEF WalkDone
<1> QED BY <1>3, <1>4 DEF WalkDone

LEMMA HomeWalkedKeeps ==
  ASSUME Inv, NEW g \in RunIds, HomeWalked(g)
  PROVE  Inv'
<1>1. /\ Home \in Workers /\ SectionOf(Home) = Fs /\ LaneEvents(LaneOf(Home)) = HomeEvents
      /\ Scanning(g, Home)
  BY DEF SectionOf, LaneEvents, LaneOf, HomeWalked, Workers
<1>2. PICK q \in Outcomes[run.separate][Home] : Emits(g, Home, 2, Event(Fs, "Finding", q))
  BY DEF HomeWalked
<1> DEFINE ev == Event(Fs, "Finding", q)
<1>q. q \in Qualities
  BY <1>1, Qualified
<1>3. ev \in HomeEvents /\ ev.sec = Fs /\ ~Terminal(ev)
  BY <1>q, Settings DEF Event, HomeEvents, Events, Terminal, Qualities
<1>4. Emits(g, Home, 2, ev)
  BY <1>2
<1> HIDE DEF ev
<1> QED BY <1>1, <1>3, <1>4, Settings, EmitStep DEF HomeWalked

LEMMA FindKeeps ==
  ASSUME Inv, NEW g \in RunIds, NEW s \in Sections, Find(g, s)
  PROVE  Inv'
<1>1. /\ s \in Workers /\ SectionOf(s) = s /\ LaneEvents(LaneOf(s)) = SectionEvents
      /\ Scanning(g, s) /\ s # Fs
  BY Settings DEF SectionOf, LaneEvents, LaneOf, Find, Workers
<1>2. PICK q \in Outcomes[run.separate][s] : Emits(g, s, 2, Event(s, "Finding", q))
  BY DEF Find
<1> DEFINE ev == Event(s, "Finding", q)
<1>q. q \in Qualities
  BY <1>1, Qualified
<1>3. ev \in SectionEvents /\ ev.sec = s /\ ~Terminal(ev)
  BY <1>q, Settings DEF Event, SectionEvents, Events, BusItem, Terminal, Qualities
<1>4. Emits(g, s, 2, ev)
  BY <1>2
<1>5. Ahead(s, Len(Line))
  BY <1>1 DEF Ahead, Known, Find
<1> HIDE DEF ev
<1> QED BY <1>1, <1>3, <1>4, <1>5, EmitStep DEF Find

LEMMA AttributeKeeps ==
  ASSUME Inv, NEW g \in RunIds, NEW s \in Sections, Attribute(g, s)
  PROVE  Inv'
<1>1. /\ s \in Workers /\ SectionOf(s) = s /\ LaneEvents(LaneOf(s)) = SectionEvents
      /\ Scanning(g, s) /\ s # Fs
  BY Settings DEF SectionOf, LaneEvents, LaneOf, Attribute, Workers
<1> DEFINE have == {c.section : c \in Bus!Collected(bus, Deps[s], g)}
           v == IF have = Deps[s] THEN "whole" ELSE "gaps"
           ev == Event(s, "Footprints", v)
<1>2. Emits(g, s, 2, ev)
  BY DEF Attribute
<1>3. v \in {"whole", "gaps"}
  OBVIOUS
<1>4. have = Deps[s] => \A d \in Deps[s] : bus[d].valid # Nothing
  BY DEF Bus!Collected
<1>5. v = "gaps" \/ Known(s)
  BY <1>1, <1>4 DEF Known
<1> HIDE DEF v
<1>6. ev \in SectionEvents /\ ev.sec = s /\ ev.kind = "Footprints" /\ ev.val = v
      /\ ~Terminal(ev)
  BY <1>1, <1>3 DEF Event, SectionEvents, Events, BusItem, Terminal, Qualities
<1>7. Ahead(s, Len(Line)) \/ Teaches(ev, s)
  BY <1>1, <1>5, <1>6 DEF Ahead, Teaches
<1> HIDE DEF ev
<1> QED BY <1>1, <1>2, <1>6, <1>7, EmitStep DEF Attribute

LEMMA EndKeeps ==
  ASSUME Inv, NEW g \in RunIds, NEW w \in Workers, End(g, w)
  PROVE  Inv'
<1> DEFINE Hows == IF g \in stopped
                     THEN {<<"Failed", "cancelled">>}
                     ELSE ({"Failed"} \X (Faults[run.separate] \cap {"error", "limit"}))
                          \cup (IF MayFinish(g, w) THEN {<<"Finished", "whole">>} ELSE {})
<1>1. PICK how \in Hows :
        worker' = [worker EXCEPT ![g][w].pc = "end",
                     ![g][w].out = Event(SectionOf(w), how[1], how[2])]
  BY DEF End
<1>2. /\ how[1] = "Failed" \/ (how[1] = "Finished" /\ g \notin stopped /\ MayFinish(g, w))
      /\ how[2] \in {"whole", "error", "cancelled", "limit"}
  BY <1>1
<1> HIDE DEF Hows
<1> DEFINE ev == Event(SectionOf(w), how[1], how[2])
           x == [worker[g][w] EXCEPT !.pc = "end", !.out = ev]
<1>w. /\ worker \in [RunIds -> [Workers -> WorkerStates]]
      /\ worker[g][w] \in WorkerStates /\ worker[g][w].pc = "scan" /\ worker[g][w].out = Nothing
  <2>1. worker \in [RunIds -> [Workers -> WorkerStates]]
    BY DEF Inv, TypeInv
  <2> QED BY <2>1, WorkerFields DEF End, Scanning
<1>3. /\ ev \in Events /\ ev.sec = SectionOf(w) /\ ev.kind = how[1] /\ Terminal(ev)
      /\ ev \in LaneEvents(LaneOf(w)) /\ ev # Nothing
  <2>1. SectionOf(w) \in Sections /\ (w = Home => SectionOf(w) = Fs)
    BY Settings DEF SectionOf, Workers
  <2>2. ev \in Events /\ ev.sec = SectionOf(w) /\ ev.kind = how[1] /\ Terminal(ev)
    BY <1>2, <2>1 DEF Event, Events, Qualities, Terminal
  <2>3. ev \in LaneEvents(LaneOf(w))
    BY <1>2, <2>1, <2>2
       DEF LaneEvents, LaneOf, SectionEvents, HomeEvents, BusItem, Terminal
  <2> QED BY <2>2, <2>3, TagAssumption
<1> HIDE DEF ev
<1>4. x \in WorkerStates /\ x.pc = "end" /\ x.out = ev /\ x.stage = worker[g][w].stage
  BY <1>w, <1>3 DEF WorkerStates
<1>5. worker' = [worker EXCEPT ![g][w] = x]
  BY <1>1, <1>w DEF ev
<1> HIDE DEF x
<1>6. Moves(g, w, x)
  BY <1>w, <1>4, <1>5, WorkerReplaced
<1>7. Allows(g, w, x)
  BY <1>3, <1>4, <1>w DEF Allows, IsOut
<1>8. ASSUME g = gen, w \in Sections
      PROVE  Continues(w, x)
  <2>1. CurrentInv /\ At(w) = worker[g][w]
    BY <1>w, <1>8, CurrentRun DEF At
  <2>2. ASSUME how[1] = "Finished" PROVE ~NoSuccess(w) /\ Ahead(w, Len(Line))
    <3>1. gen \notin stopped /\ MayFinish(g, w)
      BY <1>2, <1>8, <2>2
    <3>2. ~NoSuccess(w)
      BY <1>w, <2>1, <3>1 DEF NoSuccess
    <3>3. CASE worker[g][w].stage >= 2
      BY <1>w, <1>8, <2>1, <3>1, <3>2, <3>3 DEF CurrentInv, AheadInv
    <3>4. CASE w \in Sections \ {Fs} /\ Deps[w] = {}
      BY <3>2, <3>4 DEF Ahead, Known
    <3> QED BY <3>1, <3>3, <3>4 DEF MayFinish
  <2>3. ~IsTree(x.out)
    BY <1>3, <1>4 DEF IsTree, Terminal
  <2>4. At(w).stage \in 0..3
    BY <1>w, <2>1 DEF WorkerStates
  <2> QED BY <1>3, <1>4, <2>1, <2>2, <2>3, <2>4 DEF Continues
<1> QED BY <1>4, <1>6, <1>7, <1>8, MoveStep DEF End

LEMMA PanicKeeps ==
  ASSUME Inv, NEW g \in RunIds, NEW w \in Workers, Panic(g, w)
  PROVE  Inv'
<1>1. PICK n \in 0..1 : worker' = [worker EXCEPT ![g][w] = Dead(n)]
  BY DEF Panic
<1> DEFINE x == Dead(n)
<1>2. x \in WorkerStates /\ x.pc = "dead" /\ x.out = Nothing
  BY DEF Dead, WorkerStates
<1>3. worker' = [worker EXCEPT ![g][w] = x]
  BY <1>1
<1> HIDE DEF x
<1>4. Moves(g, w, x)
  BY <1>2, <1>3, WorkerReplaced DEF Inv, TypeInv
<1>5. Allows(g, w, x)
  BY <1>2 DEF Allows, IsOut, Panic, Scanning
<1>6. Continues(w, x)
  BY <1>2 DEF Continues, IsTree
<1> QED BY <1>2, <1>4, <1>5, <1>6, MoveStep DEF Panic

\* What remains of a worker that has said what it had to say.
LEMMA DeliveredWorker ==
  ASSUME Inv, NEW g \in RunIds, NEW w \in Workers, worker[g][w].out # Nothing,
         Delivered(g, w)
  PROVE  \E x \in WorkerStates :
           /\ Moves(g, w, x) /\ x.out = Nothing
           /\ \/ worker[g][w].pc = "end" /\ x.pc = "gone"
              \/ worker[g][w].pc = "scan" /\ x.pc = "scan" /\ x.stage = worker[g][w].stage
<1> DEFINE e == worker[g][w]
           x == IF e.pc = "end" THEN Gone ELSE [e EXCEPT !.out = Nothing]
<1>1. /\ worker \in [RunIds -> [Workers -> WorkerStates]]
      /\ e \in WorkerStates /\ e.pc \in {"scan", "end"} /\ e.stage \in 0..3
  <2>1. worker \in [RunIds -> [Workers -> WorkerStates]]
    BY DEF Inv, TypeInv
  <2>2. e.pc \notin {"gone", "dead"}
    BY DEF Inv, WorkersInv, IsOut
  <2> QED BY <2>1, <2>2, WorkerFields
<1>2. worker' = [worker EXCEPT ![g][w] = x]
  BY <1>1 DEF Delivered
<1>3. /\ x \in WorkerStates /\ x.out = Nothing
      /\ e.pc = "end" => x.pc = "gone"
      /\ e.pc = "scan" => x.pc = "scan" /\ x.stage = e.stage
  BY <1>1 DEF Gone, WorkerStates
<1> HIDE DEF x
<1>4. Moves(g, w, x)
  BY <1>1, <1>2, <1>3, WorkerReplaced
<1> QED BY <1>1, <1>3, <1>4

LEMMA DropKeeps ==
  ASSUME Inv, NEW g \in RunIds, NEW w \in Workers, Drop(g, w)
  PROVE  Inv'
<1>1. worker[g][w].out # Nothing /\ Delivered(g, w) /\ worker[g][w].pc = "scan" /\ g \in stopped
  BY DEF Drop, Droppable
<1>2. PICK x \in WorkerStates :
        /\ Moves(g, w, x) /\ x.out = Nothing
        /\ x.pc = "scan" /\ x.stage = worker[g][w].stage
  BY <1>1, DeliveredWorker
<1>3. Allows(g, w, x)
  BY <1>1, <1>2 DEF Allows, IsOut
<1>4. At(w).stage \in 0..3 \/ g # gen
  BY WorkerFields DEF Inv, TypeInv, At
<1>5. g = gen /\ w \in Sections => Continues(w, x)
  BY <1>1, <1>2, <1>4 DEF Continues, At, IsTree, Drop, OnlyWorkers
<1> QED BY <1>2, <1>3, <1>5, MoveStep DEF Drop

LEMMA SendKeeps ==
  ASSUME Inv, NEW g \in RunIds, NEW w \in Workers, Send(g, w)
  PROVE  Inv'
<1> DEFINE ev == worker[g][w].out
           l == LaneOf(w)
<1>1. /\ ev # Nothing /\ HasRoom(g, l) /\ Delivered(g, w) /\ OnlyWorkers
      /\ queue' = [queue EXCEPT ![g][l] = Append(@, ev)]
  BY DEF Send
<1>2. /\ ev \in LaneEvents(l) /\ ev.sec = SectionOf(w) /\ ev \in Events /\ l \in Lanes
      /\ worker[g][w].pc \in {"scan", "end"} /\ worker[g][w].stage \in 0..3
  <2>1. ev \in LaneEvents(l) /\ ev.sec = SectionOf(w) /\ ~IsOut(g, w)
    BY <1>1 DEF Inv, EventsInv, WorkersInv
  <2>2. worker[g][w].pc \in {"scan", "end", "gone", "dead"} /\ worker[g][w].stage \in 0..3
    BY WorkerFields DEF Inv, TypeInv
  <2> QED BY <2>1, <2>2 DEF LaneEvents, HomeEvents, SectionEvents, LaneOf, Lanes, IsOut
<1>3. /\ worker[g][w].pc = "end" => Terminal(ev)
      /\ worker[g][w].pc = "scan" => /\ ev.kind # "Finished"
                                     /\ ev.kind = "Failed" => g \in stopped /\ w \notin {Fs, Home}
  BY <1>1 DEF Inv, WorkersInv
<1>4. PICK x \in WorkerStates :
        /\ Moves(g, w, x) /\ x.out = Nothing
        /\ \/ worker[g][w].pc = "end" /\ x.pc = "gone"
           \/ worker[g][w].pc = "scan" /\ x.pc = "scan" /\ x.stage = worker[g][w].stage
  BY <1>1, DeliveredWorker
<1>5. Adds(g, l, ev)
  BY <1>1, <1>2, QueueExtended DEF Inv
<1>6. Allows(g, w, x)
  BY <1>2, <1>4 DEF Allows, IsOut
<1>7. ASSUME g = gen, w \in Sections
      PROVE  Says(w, x, ev)
  <2>1. CurrentInv /\ At(w) = worker[g][w] /\ At(w).out = ev /\ ev.sec = w
    BY <1>2, <1>7, CurrentRun, Settings DEF At, SectionOf
  <2>2. CASE worker[g][w].pc = "end" /\ x.pc = "gone"
    <3>1. ev.kind = "Finished" => ~NoSuccess(w) /\ Ahead(w, Len(Line))
      BY <1>1, <1>7, <2>1 DEF NoSuccess, CurrentInv, AheadInv
    <3>2. ev.kind # "Tree"
      BY <1>3, <2>2 DEF Terminal
    <3> QED BY <1>3, <1>4, <2>1, <2>2, <3>1, <3>2 DEF Says
  <2>3. CASE worker[g][w].pc = "scan" /\ x.pc = "scan" /\ x.stage = worker[g][w].stage
    <3>1. ~IsLast(ev)
      BY <1>3, <1>7, <2>1, <2>3 DEF IsLast
    <3>2. x.stage >= 2 /\ gen \notin stopped => Ahead(w, Len(Line)) \/ Teaches(ev, w)
      BY <1>7, <2>1, <2>3 DEF CurrentInv, AheadInv
    <3>3. ev.kind = "Tree" => w = Fs /\ ~TreesOver /\ x.stage >= 2
      <4> SUFFICES ASSUME ev.kind = "Tree" PROVE w = Fs /\ ~TreesOver /\ x.stage >= 2
        OBVIOUS
      <4>1. LaneEvents(l) = SectionEvents
        BY <1>7, Settings DEF LaneEvents, LaneOf
      <4>2. w = Fs
        BY <1>2, <2>1, <4>1 DEF SectionEvents
      <4>3. IsTree(At(Fs).out)
        BY <1>1, <2>1, <4>2 DEF IsTree
      <4> QED BY <2>1, <2>3, <4>2, <4>3 DEF TreesOver, CurrentInv, TreesInv
    <3> QED BY <1>2, <1>3, <1>4, <1>7, <2>1, <2>3, <3>1, <3>2, <3>3 DEF Says
  <2> QED BY <1>4, <2>2, <2>3
<1>8. w = Home /\ Terminal(ev) => x.pc = "gone"
  BY <1>3, <1>4 DEF Terminal
<1> HIDE DEF ev, l
<1> QED BY <1>1, <1>2, <1>4, <1>5, <1>6, <1>7, <1>8, SayStep DEF l

LEMMA SnapshotKeeps ==
  ASSUME Inv, NEW g \in RunIds, Snapshot(g)
  PROVE  Inv'
<1> DEFINE e == worker[g][Fs]
           x == [e EXCEPT !.stage = 1]
           ev == Event(Fs, "Tree", "gaps")
<1>1. /\ worker \in [RunIds -> [Workers -> WorkerStates]] /\ Fs \in Workers /\ Fs \in Sections
      /\ e \in WorkerStates /\ e.pc = "scan" /\ e.out = Nothing /\ e.stage = 0
      /\ SectionOf(Fs) = Fs /\ LaneOf(Fs) = "sections" /\ "sections" \in Lanes
      /\ LaneEvents("sections") = SectionEvents
  <2>1. worker \in [RunIds -> [Workers -> WorkerStates]] /\ Fs \in Workers /\ Fs \in Sections
    BY Settings DEF Inv, TypeInv, Workers
  <2>2. e \in WorkerStates
    BY <2>1
  <2> QED BY <2>1, <2>2, Settings DEF Snapshot, Scanning, SectionOf, LaneOf, Lanes, LaneEvents
<1>2. x \in WorkerStates /\ x.pc = "scan" /\ x.out = Nothing /\ x.stage = 1
  BY <1>1 DEF WorkerStates
<1>3. worker' = [worker EXCEPT ![g][Fs] = x] /\ OnlyWorkers
  BY DEF Snapshot
<1>4. ev \in SectionEvents /\ ev \in Events /\ ev.sec = Fs /\ ev.kind = "Tree" /\ ev.val = "gaps"
  BY <1>1 DEF Event, SectionEvents, Events, BusItem, Terminal, Qualities
<1>5. g = gen => ~TreesOver /\ At(Fs) = e
  BY <1>1 DEF At, TreesOver
<1> HIDE DEF x, ev
<1>6. Moves(g, Fs, x) /\ Allows(g, Fs, x)
  BY <1>1, <1>2, <1>3, WorkerReplaced DEF Allows, IsOut
<1>7. CASE HasRoom(g, "sections")
  <2>1. queue' = [queue EXCEPT ![g]["sections"] = Append(@, ev)]
    BY <1>7 DEF Snapshot, ev
  <2>2. Adds(g, "sections", ev)
    BY <1>1, <1>4, <1>7, <2>1, QueueExtended DEF Inv
  <2>3. g = gen => Says(Fs, x, ev)
    BY <1>1, <1>2, <1>4, <1>5 DEF Says, IsLast
  <2> QED BY <1>1, <1>2, <1>3, <1>4, <1>6, <2>2, <2>3, Settings, SayStep
<1>8. CASE ~HasRoom(g, "sections")
  <2>1. queue' = queue
    BY <1>8 DEF Snapshot
  <2>2. g = gen => Continues(Fs, x)
    BY <1>1, <1>2, <1>5 DEF Continues, IsTree
  <2> QED BY <1>1, <1>2, <1>3, <1>6, <2>1, <2>2, MoveStep
<1> QED BY <1>7, <1>8

-----------------------------------------------------------------------------
(* Steps that neither move a worker nor forward an event of the current    *)
(* run.                                                                    *)

\* What a step that moves no worker and starts no run leaves true of all of
\* them.
LEMMA WholeStep ==
  ASSUME Inv, TypeInv', Consistent(run'), UNCHANGED <<gen, worker, tx>>, Keeps(bus, bus'),
         \A h \in RunIds, l \in Lanes :
           queue'[h][l] = queue[h][l] \/ Shorter(queue[h][l], queue'[h][l]),
         \A h \in RunIds, l \in Lanes :
           /\ h > gen => hold'[h][l] = hold[h][l]
           /\ hold'[h][l] = "withdrawn" => h \in stopped',
         stopped \subseteq stopped', gen = 0 => cause' = cause,
         gen > 0 => CurrentInv'
  PROVE  Inv'
<1> USE DEF Inv
<1>1. EventsInv'
  <2>1. ASSUME NEW h \in RunIds, NEW l \in Lanes, NEW i \in 1..Len(queue'[h][l])
        PROVE  queue'[h][l][i] \in LaneEvents(l)
    <3>1. CASE queue'[h][l] = queue[h][l]
      BY <2>1, <3>1 DEF EventsInv
    <3>2. CASE Shorter(queue[h][l], queue'[h][l])
      <4>1. queue[h][l] \in Seq(Events) /\ queue'[h][l] \in Seq(Events)
        BY DEF TypeInv
      <4>2. i + 1 \in 1..Len(queue[h][l]) /\ queue'[h][l][i] = queue[h][l][i + 1]
        BY <2>1, <3>2, <4>1 DEF Shorter
      <4> QED BY <4>2 DEF EventsInv
    <3> QED BY <3>1, <3>2
  <2> QED BY <2>1 DEF EventsInv
<1>2. WorkersInv'
  BY DEF WorkersInv, IsOut
<1>3. RunsInv'
  <2>1. ASSUME NEW h \in RunIds, h > gen, NEW l \in Lanes
        PROVE  queue'[h][l] = <<>> /\ hold'[h][l] = Nothing
    <3>1. queue[h][l] = <<>> /\ hold[h][l] = Nothing
      BY <2>1 DEF RunsInv
    <3>2. queue'[h][l] \in Seq(Events)
      BY DEF TypeInv
    <3>3. ~Shorter(queue[h][l], queue'[h][l])
      <4>1. Len(queue[h][l]) = 0 /\ Len(queue'[h][l]) \in Nat
        BY <3>1, <3>2
      <4> QED BY <4>1 DEF Shorter
    <3> QED BY <2>1, <3>1, <3>3
  <2> QED BY <2>1 DEF RunsInv
<1>4. BusInv'
  BY DEF BusInv, Keeps
<1> QED BY <1>1, <1>2, <1>3, <1>4

LEMMA IdleStep ==
  ASSUME Inv, TypeInv', Steady, Consistent(run'), UNCHANGED <<worker, tx>>,
         \A h \in RunIds, l \in Lanes :
           \/ queue'[h][l] = queue[h][l]
           \/ h # gen /\ Shorter(queue[h][l], queue'[h][l]),
         \A h \in RunIds, l \in Lanes :
           /\ h > gen => hold'[h][l] = hold[h][l]
           /\ hold'[h][l] = "withdrawn" => h \in stopped',
         stopped \subseteq stopped', gen = 0 => cause' = cause,
         gen > 0 => StopHasOwnCause'
  PROVE  Inv'
<1>1. ASSUME gen > 0
      PROVE  CurrentInv'
  <2>1. gen \in RunIds
    BY <1>1 DEF Inv, TypeInv, RunIds
  <2>2. queue'[gen] = queue[gen]
    <3>1. \A l \in Lanes : queue'[gen][l] = queue[gen][l]
      BY <2>1
    <3> QED BY <2>1, <3>1 DEF Inv, TypeInv, Steady, SteadyRun
  <2>3. CurrentInv
    BY <1>1 DEF Inv
  <2> QED BY <1>1, <2>2, <2>3, IdleKeeps DEF CurrentInv
<1> QED BY <1>1, WholeStep DEF Steady, SteadyRun

LEMMA HeldNow ==
  ASSUME TypeInv, NEW g \in RunIds, NEW l \in Lanes, NEW n \in Notices \cup Phases,
         Holds(g, l, n)
  PROVE  /\ hold' \in [RunIds -> [Lanes -> Notices \cup Phases]]
         /\ hold'[g][l] = n
         /\ \A h \in RunIds, k \in Lanes : h # g \/ k # l => hold'[h][k] = hold[h][k]
BY DEF TypeInv, Holds

\* What a forwarder is at belongs to a run that has started.
LEMMA HeldBy ==
  ASSUME Inv, NEW g \in RunIds, NEW l \in Lanes, hold[g][l] # Nothing \/ queue[g][l] # <<>>
  PROVE  g \in 1..gen /\ gen > 0 /\ CurrentInv /\ gen \in RunIds
<1>1. g <= gen
  BY DEF Inv, RunsInv, TypeInv, RunIds
<1> QED BY <1>1 DEF Inv, TypeInv, RunIds

LEMMA ChannelReplaced ==
  ASSUME TypeInv, NEW c \in Channels, NEW x \in ChannelStates, Len(x.items) <= ChannelCap,
         chan' = [chan EXCEPT ![c] = x]
  PROVE  /\ chan' \in [Channels -> ChannelStates] /\ chan'[c] = x
         /\ \A d \in Channels : Len(chan'[d].items) <= ChannelCap
         /\ \A d \in Channels \ {c} : chan'[d] = chan[d]
BY DEF TypeInv

\* How the cause of a stop may change.
LEMMA CauseStays ==
  ASSUME StopHasOwnCause, gen' = gen, tx' = tx, cause \subseteq cause',
         ~chan[tx[gen]].open => ~chan'[tx[gen]].open,
         gen \in stopped' => gen \in stopped \/ cause' # {} \/ ~chan'[tx[gen]].open,
         run.disk.why \subseteq run'.disk.why, run.host.why \subseteq run'.host.why,
         "limit" \in cause' => \/ "limit" \in cause
                               \/ "ResourceLimited" \in run'.disk.why \cup run'.host.why
  PROVE  StopHasOwnCause'
BY DEF StopHasOwnCause

LEMMA KeepsItself ==
  ASSUME TypeInv
  PROVE  Keeps(bus, bus) /\ RunKept(run, run)
BY RunKeptItself DEF Keeps, TypeInv

\* The first event of a lane is taken.
LEMMA QueueTaken ==
  ASSUME TypeInv, NEW g \in RunIds, NEW l \in Lanes, queue[g][l] # <<>>, Take(g, l)
  PROVE  /\ queue' \in [RunIds -> [Lanes -> Seq(Events)]]
         /\ \A h \in RunIds, k \in Lanes : Len(queue'[h][k]) <= LaneCap(k)
         /\ Shorter(queue[g][l], queue'[g][l])
         /\ \A h \in RunIds, k \in Lanes : h # g \/ k # l => queue'[h][k] = queue[h][k]
         /\ Head(queue[g][l]) = queue[g][l][1] /\ 1 \in 1..Len(queue[g][l])
<1> DEFINE q == queue[g][l]
<1>1. q \in Seq(Events) /\ queue' = [queue EXCEPT ![g][l] = Tail(q)]
  BY DEF Take, TypeInv
<1>2. /\ Shorter(q, Tail(q)) /\ Tail(q) \in Seq(Events) /\ Head(q) = q[1]
      /\ Len(q) \in Nat /\ Len(q) >= 1
  BY <1>1, Taken DEF Shorter
<1>3. /\ queue' \in [RunIds -> [Lanes -> Seq(Events)]] /\ queue'[g][l] = Tail(q)
      /\ \A h \in RunIds, k \in Lanes : h # g \/ k # l => queue'[h][k] = queue[h][k]
  BY <1>1, <1>2 DEF TypeInv
<1>4. \A h \in RunIds, k \in Lanes : Len(queue'[h][k]) <= LaneCap(k)
  <2>1. Len(q) <= LaneCap(l) /\ LaneCap(l) \in Nat /\ Len(Tail(q)) \in Nat
        /\ Len(q) = Len(Tail(q)) + 1
    BY <1>1, <1>2, EngineAssumption DEF TypeInv, LaneCap, Shorter
  <2>2. Len(Tail(q)) <= LaneCap(l)
    BY <1>2, <2>1
  <2> QED BY <1>3, <2>2 DEF TypeInv
<1> QED BY <1>2, <1>3, <1>4

LEMMA DiscardKeeps ==
  ASSUME Inv, NEW g \in RunIds, NEW l \in Lanes, Discard(g, l)
  PROVE  Inv'
<1>1. g # gen /\ queue[g][l] # <<>> /\ Take(g, l)
  BY DEF Discard, Ready
<1>2. /\ queue' \in [RunIds -> [Lanes -> Seq(Events)]]
      /\ \A h \in RunIds, k \in Lanes : Len(queue'[h][k]) <= LaneCap(k)
      /\ Shorter(queue[g][l], queue'[g][l])
      /\ \A h \in RunIds, k \in Lanes : h # g \/ k # l => queue'[h][k] = queue[h][k]
  BY <1>1, QueueTaken DEF Inv
<1>3. TypeInv'
  BY <1>2 DEF Discard, Inv, TypeInv
<1>4. Steady
  BY SteadyIfSame DEF Discard, Inv
<1>5. gen > 0 => StopHasOwnCause'
  BY DEF Inv, CurrentInv, StopHasOwnCause, Discard
<1>6. \A h \in RunIds, k \in Lanes : hold'[h][k] = "withdrawn" => h \in stopped'
  BY DEF Discard, Inv, WorkersInv
<1> QED BY <1>1, <1>2, <1>3, <1>4, <1>5, <1>6, IdleStep DEF Discard, Inv

LEMMA PublishKeeps ==
  ASSUME Inv, NEW g \in RunIds, NEW l \in Lanes, Publish(g, l)
  PROVE  Inv'
<1> DEFINE c == tx[g]
           n == hold[g][l]
           m == [gen |-> g, notice |-> n]
           e == chan[c]
           p == Append(e.items, m)
           x == [e EXCEPT !.items = p]
<1>1. n \in Notices /\ n # Nothing
  BY TagAssumption DEF Publish, Publishing
<1>2. g \in 1..gen /\ gen > 0 /\ CurrentInv /\ gen \in RunIds /\ c \in Channels
  BY <1>1, HeldBy DEF Inv, RunsInv
<1>3. m \in Messages
  BY <1>1 DEF Messages
<1>4. /\ e \in ChannelStates /\ e.items \in Seq(Messages) /\ Len(e.items) < ChannelCap
      /\ ChannelCap \in Nat
  BY <1>2, EngineAssumption DEF Publish, Inv, TypeInv, ChannelStates
<1> HIDE DEF m
<1>5. p \in Seq(Messages) /\ Len(p) <= ChannelCap
  BY <1>3, <1>4
<1>6. chan' = [chan EXCEPT ![c] = [e EXCEPT !.items = p]]
  BY <1>2 DEF Publish, Inv, TypeInv, m
<1> HIDE DEF p
<1>7. x \in ChannelStates /\ x.items = p /\ x.open = e.open
  BY <1>4, <1>5 DEF ChannelStates
<1> HIDE DEF x, e
<1>8. chan' = [chan EXCEPT ![c] = x]
  BY <1>6 DEF x
<1>9. /\ chan' \in [Channels -> ChannelStates] /\ chan'[c] = x
      /\ \A d \in Channels : Len(chan'[d].items) <= ChannelCap
      /\ \A d \in Channels \ {c} : chan'[d] = chan[d]
  BY <1>2, <1>5, <1>7, <1>8, ChannelReplaced DEF Inv
<1>10. /\ hold' \in [RunIds -> [Lanes -> Notices \cup Phases]]
       /\ hold'[g][l] = Nothing
       /\ \A h \in RunIds, k \in Lanes : h # g \/ k # l => hold'[h][k] = hold[h][k]
  BY HeldNow DEF Publish, Inv, Phases
<1>11. told' \in SUBSET Sections /\ told \subseteq told'
       /\ (g = gen => n \in told' \/ n \notin Sections)
  BY <1>1 DEF Publish, Inv, TypeInv
<1>12. TypeInv'
  BY <1>9, <1>10, <1>11 DEF Publish, Inv, TypeInv
<1>13. Steady
  <2>1. hold[gen]["home"] = Nothing => hold'[gen]["home"] = Nothing
    BY <1>2, <1>10 DEF Lanes
  <2>2. ASSUME NEW s \in Sections, s \in told \/ hold[gen]["sections"] = s
        PROVE  s \in told' \/ hold'[gen]["sections"] = s
    <3>1. CASE g = gen /\ l = "sections"
      BY <1>11, <2>2, <3>1
    <3>2. CASE ~(g = gen /\ l = "sections")
      BY <1>2, <1>10, <1>11, <2>2, <3>2 DEF Lanes
    <3> QED BY <3>1, <3>2
  <2> QED BY <2>1, <2>2, KeepsItself DEF Steady, SteadyRun, Publish, Inv
<1>14. StopHasOwnCause'
  <2>1. chan'[tx[gen]].open = chan[tx[gen]].open
    <3>1. tx[gen] \in Channels
      BY <1>2 DEF Inv, RunsInv
    <3> QED BY <1>7, <1>9, <3>1 DEF e
  <2> QED BY <1>2, <2>1 DEF CurrentInv, StopHasOwnCause, Publish
<1>15. \A h \in RunIds, k \in Lanes :
         /\ h > gen => hold'[h][k] = hold[h][k]
         /\ hold'[h][k] = "withdrawn" => h \in stopped'
  <2>1. ASSUME NEW h \in RunIds, h > gen PROVE h # g
    BY <1>2, <2>1 DEF Inv, TypeInv
  <2>2. stopped' = stopped /\ Nothing # "withdrawn"
    BY TagAssumption DEF Publish
  <2> QED BY <1>10, <2>1, <2>2 DEF Inv, WorkersInv
<1> QED BY <1>12, <1>13, <1>14, <1>15, IdleStep DEF Publish, Inv

\* The forwarder of lane l of run g comes to n.
LEMMA HoldStep ==
  ASSUME Inv, NEW g \in RunIds, NEW l \in Lanes, NEW n \in Notices \cup Phases,
         hold[g][l] # Nothing, Holds(g, l, n),
         UNCHANGED <<gen, run, worker, queue, awaited, tx, chan, cause, source, sent, told>>,
         stopped' \in {stopped, stopped \cup {g}}, Keeps(bus, bus'),
         n = "withdrawn" => g \in stopped',
         g = gen /\ gen \in stopped' => gen \in stopped \/ ~chan[tx[gen]].open,
         g = gen /\ l = "sections" => gen \in stopped'
  PROVE  Inv'
<1>1. g \in 1..gen /\ gen > 0 /\ CurrentInv /\ gen \in RunIds
  BY HeldBy
<1>2. /\ hold' \in [RunIds -> [Lanes -> Notices \cup Phases]]
      /\ hold'[g][l] = n
      /\ \A h \in RunIds, k \in Lanes : h # g \/ k # l => hold'[h][k] = hold[h][k]
  BY HeldNow DEF Inv
<1>3. TypeInv'
  BY <1>1, <1>2 DEF Inv, TypeInv, Keeps
<1>4. Steady
  <2>1. hold[gen]["home"] = Nothing => hold'[gen]["home"] = Nothing
    BY <1>1, <1>2 DEF Lanes
  <2>2. gen \notin stopped' => hold'[gen]["sections"] = hold[gen]["sections"]
    BY <1>1, <1>2 DEF Lanes
  <2> QED BY <2>1, <2>2, KeepsItself DEF Steady, SteadyRun, Inv
<1>5. StopHasOwnCause'
  <2>1. gen \in stopped' => gen \in stopped \/ ~chan[tx[gen]].open
    OBVIOUS
  <2> QED BY <1>1, <2>1 DEF CurrentInv, StopHasOwnCause
<1>6. \A h \in RunIds, k \in Lanes :
        /\ h > gen => hold'[h][k] = hold[h][k]
        /\ hold'[h][k] = "withdrawn" => h \in stopped'
  <2>1. ASSUME NEW h \in RunIds, h > gen PROVE h # g
    BY <1>1, <2>1 DEF Inv, TypeInv
  <2> QED BY <1>2, <2>1 DEF Inv, WorkersInv
<1> QED BY <1>1, <1>3, <1>4, <1>5, <1>6, IdleStep DEF Inv

LEMMA WithdrawKeeps ==
  ASSUME Inv, NEW g \in RunIds, NEW l \in Lanes, Withdraw(g, l)
  PROVE  Inv'
<1>1. hold[g][l] # Nothing /\ "withdrawn" \in Notices \cup Phases
  BY TagAssumption DEF Withdraw, Publishing, Phases
<1>2. Keeps(bus, bus')
  BY KeepsItself DEF Inv, Withdraw
<1> QED BY <1>1, <1>2, HoldStep DEF Withdraw

LEMMA GiveUpKeeps ==
  ASSUME Inv, NEW g \in RunIds, NEW l \in Lanes, GiveUp(g, l)
  PROVE  Inv'
<1>1. hold[g][l] # Nothing /\ Nothing \in Notices \cup Phases /\ Nothing # "withdrawn"
  BY TagAssumption DEF GiveUp, Publishing, Phases
<1>2. Keeps(bus, bus')
  BY BusCancelled DEF Inv, TypeInv, GiveUp
<1>3. g \in stopped /\ stopped' = stopped
  BY DEF GiveUp, Congested, Inv, WorkersInv
<1> QED BY <1>1, <1>2, <1>3, HoldStep DEF GiveUp

LEMMA DiagnosticIs == Diagnostic = "host"
<1> DEFINE ev == Event(Fs, "Finding", "whole")
<1>1. ev.kind = "Finding"
  BY DEF Event
<1> HIDE DEF ev
<1>2. Notice(ev) = "host"
  BY <1>1 DEF Notice, Terminal
<1> QED BY <1>2 DEF Diagnostic, ev

LEMMA HomeLooksKeeps ==
  ASSUME Inv, NEW g \in RunIds, HomeLooks(g)
  PROVE  Inv'
<1> DEFINE n == IF hold[g]["home"] = "heard" THEN Diagnostic ELSE Nothing
<1>1. "home" \in Lanes /\ hold[g]["home"] # Nothing
  BY TagAssumption DEF HomeLooks, Lanes
<1>2. n \in Notices \cup Phases /\ n # "withdrawn"
  <2>1. Diagnostic \in Notices /\ Diagnostic # "withdrawn"
    BY DiagnosticIs DEF Notices
  <2> QED BY <2>1, TagAssumption DEF Phases
<1>3. Holds(g, "home", n)
  BY DEF HomeLooks
<1>4. Keeps(bus, bus')
  <2>1. Keeps(bus, Bus!Cancelled(bus, g))
    BY BusCancelled DEF Inv, TypeInv
  <2>2. Keeps(bus, bus)
    BY KeepsItself DEF Inv
  <2>3. CASE g \in stopped
    BY <2>1, <2>3 DEF HomeLooks
  <2>4. CASE g \notin stopped
    BY <2>2, <2>4 DEF HomeLooks
  <2> QED BY <2>3, <2>4
<1> HIDE DEF n
<1> QED BY <1>1, <1>2, <1>3, <1>4, HoldStep DEF HomeLooks

\* A receiver, or its channel, changes.
LEMMA ChannelStep ==
  ASSUME Inv, NEW c \in Channels, NEW x \in ChannelStates,
         x.open => chan[c].open, Len(x.items) <= ChannelCap,
         chan' = [chan EXCEPT ![c] = x],
         UNCHANGED <<gen, stopped, run, bus, worker, queue, hold, awaited, tx, cause,
                     source, sent, told>>
  PROVE  Inv'
<1>1. /\ chan' \in [Channels -> ChannelStates] /\ chan'[c] = x
      /\ \A d \in Channels : Len(chan'[d].items) <= ChannelCap
      /\ \A d \in Channels \ {c} : chan'[d] = chan[d]
  BY ChannelReplaced DEF Inv
<1>2. TypeInv'
  BY <1>1 DEF Inv, TypeInv
<1>3. Steady
  BY SteadyIfSame DEF Inv
<1>4. ASSUME gen > 0 PROVE StopHasOwnCause'
  <2>1. tx[gen] \in Channels
    BY <1>4 DEF Inv, RunsInv, TypeInv
  <2>2. chan'[tx[gen]].open => chan[tx[gen]].open
    BY <1>1, <2>1
  <2> QED BY <1>4, <2>2 DEF Inv, CurrentInv, StopHasOwnCause
<1>5. \A h \in RunIds, k \in Lanes : hold'[h][k] = "withdrawn" => h \in stopped'
  BY DEF Inv, WorkersInv
<1> QED BY <1>2, <1>3, <1>4, <1>5, IdleStep DEF Inv

LEMMA ReceiveKeeps ==
  ASSUME Inv, NEW c \in Channels, Receive(c)
  PROVE  Inv'
<1> DEFINE e == chan[c]
           m == Head(e.items)
           z == IF m.notice \in {"disk", "host"} /\ "memory" \in Faults[run.separate]
                  THEN m ELSE Nothing
           p == Tail(e.items)
           x == [e EXCEPT !.items = p, !.seen = z]
<1>1. /\ e \in ChannelStates /\ e.items \in Seq(Messages) /\ e.items # <<>>
      /\ Len(e.items) <= ChannelCap /\ ChannelCap \in Nat
  BY EngineAssumption DEF Receive, Inv, TypeInv, ChannelStates
<1>2. /\ m \in Messages /\ p \in Seq(Messages) /\ Len(p) <= ChannelCap
  BY <1>1
<1>3. z \in Messages \cup {Nothing}
  BY <1>2
<1>4. chan' = [chan EXCEPT ![c] = [e EXCEPT !.items = p, !.seen = z]]
  BY DEF Receive, Inv, TypeInv
<1> HIDE DEF p, z
<1>5. x \in ChannelStates /\ x.items = p /\ x.open = e.open
  BY <1>1, <1>2, <1>3 DEF ChannelStates
<1> HIDE DEF x
<1>6. chan' = [chan EXCEPT ![c] = x]
  BY <1>4 DEF x
<1> QED BY <1>2, <1>5, <1>6, ChannelStep DEF Receive

LEMMA CloseReceiverKeeps ==
  ASSUME Inv, NEW c \in Channels, CloseReceiver(c)
  PROVE  Inv'
<1> DEFINE x == [open |-> FALSE, items |-> <<>>, seen |-> Nothing]
<1>1. x \in ChannelStates /\ ~x.open /\ Len(x.items) <= ChannelCap
  BY EngineAssumption DEF ChannelStates
<1>2. chan' = [chan EXCEPT ![c] = x]
  BY DEF CloseReceiver
<1> HIDE DEF x
<1> QED BY <1>1, <1>2, ChannelStep DEF CloseReceiver

\* The current run is stopped from outside of its tasks: its metadata says
\* what for.
LEMMA StopStep ==
  ASSUME Inv, gen > 0, NEW why \in {"user", "limit"},
         UNCHANGED <<gen, worker, queue, hold, awaited, tx, source, sent, told>>,
         RunKept(run, run'), Consistent(run'), HaltBus(gen), cause' = cause \cup {why},
         why = "limit" => "ResourceLimited" \in run'.disk.why \cup run'.host.why,
         chan' \in [Channels -> ChannelStates],
         \A d \in Channels : /\ Len(chan'[d].items) <= ChannelCap
                             /\ chan'[d].open = chan[d].open
  PROVE  Inv'
<1>1. gen \in 1..gen /\ CurrentInv /\ tx[gen] \in Channels
  BY DEF Inv, TypeInv, RunsInv
<1>2. Keeps(bus, bus')
  BY BusCancelled DEF Inv, TypeInv, HaltBus
<1>3. TypeInv'
  BY <1>1, <1>2 DEF Inv, TypeInv, Keeps, HaltBus
<1>4. Steady
  BY <1>2 DEF Steady, SteadyRun, HaltBus
<1>5. StopHasOwnCause'
  BY <1>1, CauseStays DEF CurrentInv, RunKept
<1>6. \A h \in RunIds, k \in Lanes : hold'[h][k] = "withdrawn" => h \in stopped'
  BY DEF Inv, WorkersInv, HaltBus
<1> QED BY <1>3, <1>4, <1>5, <1>6, IdleStep DEF Inv, HaltBus

LEMMA CancelKeeps ==
  ASSUME Inv, Cancel
  PROVE  Inv'
<1>1. run \in Runs /\ Consistent(run)
  BY DEF Inv, Consistent, WalksTell
<1>2. RunKept(run, run') /\ Consistent(run')
  BY <1>1, StoppedKept, StoppedConsistent DEF Cancel
<1>3. /\ chan' \in [Channels -> ChannelStates]
      /\ \A d \in Channels : Len(chan'[d].items) <= ChannelCap /\ chan'[d].open = chan[d].open
  BY DEF Cancel, Inv, TypeInv
<1> QED BY <1>2, <1>3, StopStep DEF Cancel

LEMMA ReportLimitKeeps ==
  ASSUME Inv, NEW c \in Channels, ReportLimit(c)
  PROVE  Inv'
<1> DEFINE e == chan[c]
           got == e.seen
           x == [e EXCEPT !.seen = Nothing]
           isHost == got.notice = "host"
<1>1. e \in ChannelStates /\ Len(e.items) <= ChannelCap
  BY DEF Inv, TypeInv
<1>2. got \in Messages /\ got.gen \in RunIds
  BY <1>1 DEF ChannelStates, Messages, ReportLimit
<1>3. x \in ChannelStates /\ x.items = e.items /\ x.open = e.open
  BY <1>1 DEF ChannelStates
<1>4. chan' = [chan EXCEPT ![c] = x]
  BY DEF ReportLimit, Inv, TypeInv
<1> HIDE DEF x
<1>5. CASE got.gen = gen
  <2>1. /\ run' = MarkLimited(run, isHost) /\ HaltBus(gen) /\ cause' = cause \cup {"limit"}
        /\ gen > 0 /\ isHost \in BOOLEAN
    BY <1>2, <1>5 DEF ReportLimit, IsCurrent, RunIds
  <2> HIDE DEF isHost, got
  <2>2. Consistent(run) /\ run \in Runs
    BY DEF Inv, Consistent, WalksTell
  <2>3. /\ RunKept(run, run') /\ Consistent(run')
        /\ "ResourceLimited" \in run'.disk.why \cup run'.host.why
    BY <2>1, <2>2, MarkedKept, MarkedConsistent
  <2>4. /\ chan' \in [Channels -> ChannelStates]
        /\ \A d \in Channels : Len(chan'[d].items) <= ChannelCap /\ chan'[d].open = chan[d].open
    <3>1. /\ chan' \in [Channels -> ChannelStates] /\ chan'[c] = x
          /\ \A d \in Channels : Len(chan'[d].items) <= ChannelCap
          /\ \A d \in Channels \ {c} : chan'[d] = chan[d]
      BY <1>1, <1>3, <1>4, ChannelReplaced DEF Inv
    <3> QED BY <1>3, <3>1
  <2>5. UNCHANGED <<gen, worker, queue, hold, awaited, tx, source, sent, told>>
    BY DEF ReportLimit
  <2> QED BY <2>1, <2>3, <2>4, <2>5, StopStep
<1>6. CASE got.gen # gen
  <2>1. UNCHANGED <<gen, stopped, run, bus, worker, queue, hold, awaited, tx, cause,
                    source, sent, told>>
    BY <1>6 DEF ReportLimit, IsCurrent
  <2> QED BY <1>1, <1>3, <1>4, <2>1, ChannelStep
<1> QED BY <1>5, <1>6

-----------------------------------------------------------------------------
(* A limit hit by a worker, and steps that forward.                        *)

LEMMA CommandLimitKeeps ==
  ASSUME Inv, NEW g \in RunIds, NEW s \in Sections, CommandLimit(g, s)
  PROVE  Inv'
<1> DEFINE e == worker[g][s]
           ev == Event(s, "Failed", "limit")
           x == [e EXCEPT !.stage = 3, !.out = ev]
<1>1. /\ s \in Workers /\ s # Home /\ SectionOf(s) = s /\ LaneEvents(LaneOf(s)) = SectionEvents
      /\ s # Fs /\ worker \in [RunIds -> [Workers -> WorkerStates]] /\ e \in WorkerStates
      /\ e.pc = "scan" /\ e.out = Nothing
  <2>1. s \in Workers /\ s # Home
    BY Settings DEF Workers
  <2>2. worker \in [RunIds -> [Workers -> WorkerStates]] /\ e \in WorkerStates
    BY <2>1 DEF Inv, TypeInv
  <2> QED BY <2>1, <2>2 DEF SectionOf, LaneEvents, LaneOf, CommandLimit, Scanning
<1>2. /\ ev \in SectionEvents /\ ev \in Events /\ ev.sec = s /\ ev.kind = "Failed"
      /\ ev # Nothing
  <2>1. ev \in SectionEvents /\ ev \in Events /\ ev.sec = s /\ ev.kind = "Failed"
    BY DEF Event, SectionEvents, Events, BusItem
  <2> QED BY <2>1, TagAssumption
<1>3. worker' = [worker EXCEPT ![g][s] = [e EXCEPT !.stage = 3, !.out = ev]]
  BY <1>1 DEF CommandLimit, Emits
<1> HIDE DEF ev, e
<1>4. x \in WorkerStates /\ x.pc = "scan" /\ x.stage = 3 /\ x.out = ev
  <2>1. e \in WorkerStates /\ e.pc = "scan" /\ ev \in Events /\ 3 \in 0..3
    BY <1>1, <1>2
  <2> QED BY <2>1 DEF WorkerStates
<1>5. worker' = [worker EXCEPT ![g][s] = x]
  BY <1>3
<1> HIDE DEF x
<1> USE DEF Inv, e
<1>6. Moves(g, s, x)
  BY <1>1, <1>4, <1>5, WorkerReplaced
<1>7. stopped' = stopped \cup {g} /\ bus' = Bus!Cancelled(bus, g)
  BY DEF CommandLimit, HaltLimited, HaltBus
<1>8. Allows(g, s, x)
  BY <1>1, <1>2, <1>4, <1>7, Settings DEF Allows, IsOut
<1>9. EventsInv' /\ WorkersInv' /\ RunsInv' /\ g \in 1..gen
  BY <1>1, <1>6, <1>7, <1>8, MovedAll DEF CommandLimit
<1>10. gen > 0 /\ gen \in RunIds /\ CurrentInv
  BY <1>9 DEF TypeInv, RunIds
<1>11. Keeps(bus, bus')
  BY <1>7, BusCancelled DEF TypeInv
<1>12. /\ RunKept(run, run') /\ Consistent(run')
       /\ g = gen => "ResourceLimited" \in run'.disk.why \cup run'.host.why
       /\ g = gen \/ (run' = run /\ cause' = cause)
       /\ cause' \in {cause, cause \cup {"limit"}} /\ (g = gen => "limit" \in cause')
  <2>1. run \in Runs
    BY DEF Consistent, WalksTell
  <2>2. CASE g = gen
    <3>1. run' = MarkLimited(run, TRUE) /\ cause' = cause \cup {"limit"}
      BY <2>2 DEF CommandLimit, HaltLimited
    <3> QED BY <2>1, <2>2, <3>1, MarkedKept, MarkedConsistent
  <2>3. CASE g # gen
    <3>1. run' = run /\ cause' = cause
      BY <2>3 DEF CommandLimit, HaltLimited
    <3> QED BY <2>3, <3>1, RunKeptItself
  <2> QED BY <2>2, <2>3
<1>13. Steady
  BY <1>7, <1>11, <1>12 DEF CommandLimit, Steady, SteadyRun
<1>14. /\ OrderInv' /\ AheadInv' /\ EndsInv' /\ TreesInv' /\ HomeInv'
       /\ HistoryInv' /\ LiveInv' /\ CompleteInv'
  <2>1. CASE g # gen
    <3>1. worker'[gen] = worker[gen] /\ queue'[gen] = queue[gen]
      BY <1>6, <1>10, <2>1 DEF Moves, CommandLimit
    <3> QED BY <1>10, <1>13, <3>1, IdleKeeps
  <2>2. CASE g = gen
    <3>1. Continues(s, x)
      BY <1>1, <1>2, <1>4, <1>7, <2>2 DEF Continues, At
    <3> QED BY <1>4, <1>6, <1>8, <1>10, <1>13, <2>2, <3>1, MoveKeeps DEF CommandLimit
  <2> QED BY <2>1, <2>2
<1>15. StopHasOwnCause'
  BY <1>7, <1>10, <1>12, CauseStays DEF CurrentInv, RunKept, CommandLimit
<1>16. TypeInv'
  BY <1>6, <1>7, <1>9, <1>11, <1>12 DEF TypeInv, Moves, Keeps, CommandLimit
<1>17. BusInv'
  BY <1>11 DEF BusInv, Keeps, CommandLimit
<1> QED BY <1>9, <1>10, <1>12, <1>14, <1>15, <1>16, <1>17 DEF CurrentInv, CommandLimit

\* An event of the sections of the current run is forwarded.
LEMMA ForwardStep ==
  ASSUME Inv, gen \in RunIds, NEW ev, Forwards(ev), NEW isStopped \in BOOLEAN, NEW r, NEW t,
         Observes(ev, isStopped, r, t), TypeInv', UNCHANGED <<tx, chan>>,
         \A h \in RunIds, l \in Lanes : h # gen \/ l # "sections" =>
           queue'[h][l] = queue[h][l] /\ hold'[h][l] = hold[h][l],
         hold'[gen]["sections"] # "withdrawn",
         stopped \subseteq stopped', cause \subseteq cause',
         gen \in stopped' => gen \in stopped \/ cause' # {},
         "limit" \in cause' => \/ "limit" \in cause
                               \/ "ResourceLimited" \in run'.disk.why \cup run'.host.why
  PROVE  Inv'
<1>1. gen > 0 /\ CurrentInv /\ Consistent(run)
  BY DEF Inv, TypeInv, RunIds
<1>2. /\ OrderInv' /\ AheadInv' /\ EndsInv' /\ TreesInv' /\ HomeInv'
      /\ HistoryInv' /\ LiveInv' /\ CompleteInv'
  BY <1>1, ForwardKeeps DEF Inv
<1>3. run.disk.why \subseteq run'.disk.why /\ run.host.why \subseteq run'.host.why
  <2>1. run.disk.why \subseteq r.disk.why /\ run.host.why \subseteq r.host.why
    BY DEF Observes, RunKept
  <2>2. r.disk.why \subseteq t.disk.why /\ r.host.why \subseteq t.host.why
    BY DEF Observes, Learns
  <2>3. t.disk.why \subseteq run'.disk.why /\ t.host.why \subseteq run'.host.why
    BY DEF Observes, RunKept
  <2> QED BY <2>1, <2>2, <2>3
<1>4. StopHasOwnCause'
  BY <1>1, <1>3, CauseStays DEF CurrentInv, Forwards
<1>5. \A h \in RunIds, l \in Lanes :
        queue'[h][l] = queue[h][l] \/ Shorter(queue[h][l], queue'[h][l])
  BY DEF Forwards, Line
<1>6. \A h \in RunIds, l \in Lanes :
        /\ h > gen => hold'[h][l] = hold[h][l]
        /\ hold'[h][l] = "withdrawn" => h \in stopped'
  <2>1. \A h \in RunIds : h > gen => h # gen
    BY DEF RunIds
  <2> QED BY <2>1 DEF Inv, WorkersInv
<1> QED BY <1>1, <1>2, <1>4, <1>5, <1>6, WholeStep DEF Observes, Forwards, CurrentInv

\* What the history keeps of the items and endings that are forwarded.
LEMMA SentNow ==
  ASSUME TypeInv, NEW ev \in SectionEvents,
         sent' = IF BusItem(ev) THEN [sent EXCEPT ![ev.sec][KeyOf(ev)] = ev.val] ELSE sent
  PROVE  /\ sent' \in [Sections -> Bus!Contents]
         /\ \A s \in Sections :
              /\ sent'[s]["tree"] = IF ev.kind = "Tree" /\ ev.sec = s
                                      THEN ev.val ELSE sent[s]["tree"]
              /\ sent'[s]["finding"] # sent[s]["finding"] =>
                   /\ ev.sec = s /\ ev.kind \in {"Finding", "DiskFinding"}
                   /\ ev.val = sent'[s]["finding"]
<1>1. sent \in [Sections -> [Keys -> Qualities \cup {Nothing}]]
      /\ "tree" \in Keys /\ "finding" \in Keys /\ ev.sec \in Sections
  BY DEF TypeInv, Bus!Contents, Keys, SectionEvents, Events
<1>2. CASE BusItem(ev)
  <2>1. /\ ev.val \in Qualities /\ KeyOf(ev) \in Keys
        /\ KeyOf(ev) = "tree" <=> ev.kind = "Tree"
        /\ KeyOf(ev) = "finding" <=> ev.kind # "Tree"
        /\ ev.kind \in {"Tree", "Finding", "DiskFinding"}
    BY <1>2 DEF SectionEvents, KeyOf, Keys, BusItem
  <2> DEFINE a == [sent[ev.sec] EXCEPT ![KeyOf(ev)] = ev.val]
  <2>2. /\ a \in [Keys -> Qualities \cup {Nothing}]
        /\ a["tree"] = IF ev.kind = "Tree" THEN ev.val ELSE sent[ev.sec]["tree"]
        /\ a["finding"] = IF ev.kind # "Tree" THEN ev.val ELSE sent[ev.sec]["finding"]
    BY <1>1, <2>1
  <2>3. sent' = [sent EXCEPT ![ev.sec] = a]
    BY <1>1, <1>2
  <2> HIDE DEF a
  <2> QED BY <1>1, <2>1, <2>2, <2>3 DEF Bus!Contents
<1>3. CASE ~BusItem(ev)
  BY <1>1, <1>3 DEF BusItem, Bus!Contents
<1> QED BY <1>2, <1>3

LEMMA EndedNow ==
  ASSUME TypeInv, NEW ev \in SectionEvents,
         source' = CASE ev.kind = "Finished" -> [source EXCEPT ![ev.sec] = "finished"]
                     [] ev.kind = "Failed" -> [source EXCEPT ![ev.sec] = "failed"]
                     [] OTHER -> source
  PROVE  /\ source' \in [Sections -> {"none", "open", "finished", "failed"}]
         /\ \A s \in Sections :
              source'[s] = IF Terminal(ev) /\ ev.sec = s
                             THEN IF ev.kind = "Finished" THEN "finished" ELSE "failed"
                             ELSE source[s]
<1>1. ev.sec \in Sections /\ source \in [Sections -> {"none", "open", "finished", "failed"}]
  BY DEF TypeInv, SectionEvents, Events
<1>2. CASE ev.kind = "Finished"
  BY <1>1, <1>2 DEF Terminal
<1>3. CASE ev.kind = "Failed"
  BY <1>1, <1>3 DEF Terminal
<1>4. CASE ev.kind \notin {"Finished", "Failed"}
  BY <1>1, <1>4 DEF Terminal
<1> QED BY <1>2, <1>3, <1>4

\* What is common to the two steps that take an event off the line.
LEMMA LineTaken ==
  ASSUME Inv, gen \in RunIds, Ready(gen, "sections"), Take(gen, "sections"),
         NEW ev, ev = Head(Line)
  PROVE  /\ ev \in SectionEvents /\ ev.sec \in Sections /\ SectionEvent(ev)
         /\ Line # <<>> /\ Line[1] = ev
         /\ Shorter(Line, queue'[gen]["sections"])
         /\ queue' \in [RunIds -> [Lanes -> Seq(Events)]]
         /\ \A h \in RunIds, l \in Lanes : Len(queue'[h][l]) <= LaneCap(l)
         /\ \A h \in RunIds, l \in Lanes : h # gen \/ l # "sections" =>
              queue'[h][l] = queue[h][l]
<1>1. "sections" \in Lanes /\ LaneEvents("sections") = SectionEvents
  BY DEF Lanes, LaneEvents
<1>2. /\ queue' \in [RunIds -> [Lanes -> Seq(Events)]]
      /\ \A h \in RunIds, l \in Lanes : Len(queue'[h][l]) <= LaneCap(l)
      /\ Shorter(Line, queue'[gen]["sections"])
      /\ \A h \in RunIds, l \in Lanes : h # gen \/ l # "sections" => queue'[h][l] = queue[h][l]
      /\ Head(Line) = Line[1] /\ 1 \in 1..Len(Line) /\ Line # <<>>
  BY <1>1, QueueTaken DEF Inv, Ready, Line
<1>3. ev \in SectionEvents
  BY <1>1, <1>2 DEF Inv, EventsInv, Line
<1>4. ev.sec \in Sections /\ SectionEvent(ev)
  BY <1>3 DEF SectionEvents, Events, SectionEvent, Kinds
<1> QED BY <1>2, <1>3, <1>4

LEMMA NoticeOfEnding ==
  ASSUME NEW ev \in SectionEvents
  PROVE  /\ Notice(ev) \in Notices /\ Notice(ev) # "withdrawn"
         /\ Terminal(ev) => Notice(ev) = ev.sec
<1>1. ev.sec \in Sections /\ ev.sec # "withdrawn"
  BY TagAssumption DEF SectionEvents, Events
<1>2. CASE Terminal(ev)
  <2>1. Notice(ev) = ev.sec
    BY <1>2 DEF Notice, Terminal
  <2> QED BY <1>1, <2>1 DEF Notices
<1>3. CASE ~Terminal(ev)
  BY <1>3 DEF Notice, Notices
<1> QED BY <1>2, <1>3

LEMMA ForwardInv ==
  ASSUME Inv, NEW g \in RunIds, Forward(g)
  PROVE  Inv'
<1> DEFINE ev == Head(Line)
           isLimit == ev.kind = "Failed" /\ ev.val = "limit"
           stop == isLimit \/ gen \in stopped
           isHost == ev.sec # Fs
           r == IF isLimit THEN MarkLimited(run, isHost) ELSE run
           t == ObserveRun(r, ev, stop)
<1>1. /\ gen \in RunIds /\ Ready(gen, "sections") /\ Take(gen, "sections")
      /\ run' = t
      /\ stopped' = IF isLimit THEN stopped \cup {gen} ELSE stopped
      /\ cause' = IF isLimit THEN cause \cup {"limit"} ELSE cause
      /\ bus' = BusHears(ev, stop)
      /\ sent' = IF BusItem(ev) THEN [sent EXCEPT ![ev.sec][KeyOf(ev)] = ev.val] ELSE sent
      /\ source' = CASE ev.kind = "Finished" -> [source EXCEPT ![ev.sec] = "finished"]
                     [] ev.kind = "Failed" -> [source EXCEPT ![ev.sec] = "failed"]
                     [] OTHER -> source
      /\ Holds(gen, "sections", Notice(ev))
      /\ UNCHANGED <<gen, worker, awaited, tx, chan, told>>
  BY DEF Forward, Line
<1>b. isLimit \in BOOLEAN /\ stop \in BOOLEAN /\ isHost \in BOOLEAN /\ (isLimit => stop)
      /\ (gen \in stopped => stop)
      /\ (~stop => gen \notin stopped)
  OBVIOUS
<1>2. /\ ev \in SectionEvents /\ ev.sec \in Sections /\ SectionEvent(ev)
      /\ Line # <<>> /\ Line[1] = ev
      /\ Shorter(Line, queue'[gen]["sections"])
      /\ queue' \in [RunIds -> [Lanes -> Seq(Events)]]
      /\ \A h \in RunIds, l \in Lanes : Len(queue'[h][l]) <= LaneCap(l)
      /\ \A h \in RunIds, l \in Lanes : h # gen \/ l # "sections" =>
           queue'[h][l] = queue[h][l]
  BY <1>1, LineTaken
<1> HIDE DEF ev
<1>3. /\ gen > 0 /\ CurrentInv /\ Consistent(run) /\ run \in Runs
      /\ gen \in 1..gen /\ tx[gen] \in Channels
  BY <1>1 DEF Inv, TypeInv, RunIds, Consistent, WalksTell, RunsInv
<1>4. Consistent(r) /\ RunKept(run, r)
      /\ (isLimit => "ResourceLimited" \in r.disk.why \cup r.host.why)
      /\ (~isLimit => r = run)
  <2>1. CASE isLimit
    <3>1. r = MarkLimited(run, isHost)
      BY <2>1
    <3> HIDE DEF isLimit, isHost, r
    <3> QED BY <1>3, <1>b, <2>1, <3>1, MarkedKept, MarkedConsistent
  <2>2. CASE ~isLimit
    <3>1. r = run
      BY <2>2
    <3> HIDE DEF isLimit, r
    <3> QED BY <1>3, <2>2, <3>1, RunKeptItself
  <2> QED BY <2>1, <2>2
<1>5. stopped' \in {stopped, stopped \cup {gen}} /\ (isLimit => gen \in stopped')
      /\ (~isLimit => stopped' = stopped)
  BY <1>1
<1>s. stop = (isLimit \/ gen \in stopped)
  OBVIOUS
<1>c. cause' \in {cause, cause \cup {"limit"}} /\ (isLimit => cause' # {})
      /\ ("limit" \in cause' => "limit" \in cause \/ isLimit)
  BY <1>1
<1> HIDE DEF stop, isLimit, r
<1>6. /\ Consistent(t)
      /\ Sees(r, ev, t) /\ Learns(r, t) /\ Discovers(r, ev, stop, t)
      /\ Counts(r.host, ev, t.host)
      /\ ev.sec # Fs => t.disk = r.disk
      /\ ev.sec = Fs => Decides(r.disk, t.disk, {Fs}, t.diskPartial, stop)
      /\ Decides(r.host, t.host, Sections, t.auditPartial \/ t.discPartial, stop)
  <2>1. Consistent(r) /\ SectionEvent(ev) /\ stop \in BOOLEAN
    BY <1>2, <1>4, <1>b
  <2> QED BY <2>1, RunObserved
<1> HIDE DEF t
<1>7. Observes(ev, stop, r, t)
  <2>1. RunKept(t, run') /\ Consistent(run')
    BY <1>1, <1>6, RunKeptItself
  <2>2. ~stop => r = run /\ gen \notin stopped
    BY <1>4, <1>s
  <2>3. gen \notin stopped' => ~stop /\ run' = t
    BY <1>1, <1>5, <1>s
  <2> QED BY <1>4, <1>6, <2>1, <2>2, <2>3 DEF Observes
<1>8. Keeps(bus, bus')
  <2>1. bus[ev.sec].gen > 0 /\ bus \in [Sections -> Bus!Entries]
    BY <1>2, <1>3 DEF Inv, BusInv, TypeInv
  <2> QED BY <1>1, <1>2, <1>b, <2>1, BusHearsEvent
<1>9. /\ sent' \in [Sections -> Bus!Contents]
      /\ \A s \in Sections :
           /\ sent'[s]["tree"] = IF ev.kind = "Tree" /\ ev.sec = s
                                   THEN ev.val ELSE sent[s]["tree"]
           /\ sent'[s]["finding"] # sent[s]["finding"] =>
                /\ ev.sec = s /\ ev.kind \in {"Finding", "DiskFinding"}
                /\ ev.val = sent'[s]["finding"]
  BY <1>1, <1>2, SentNow DEF Inv
<1>10. /\ source' \in [Sections -> {"none", "open", "finished", "failed"}]
       /\ \A s \in Sections :
            source'[s] = IF Terminal(ev) /\ ev.sec = s
                           THEN IF ev.kind = "Finished" THEN "finished" ELSE "failed"
                           ELSE source[s]
  BY <1>1, <1>2, EndedNow DEF Inv
<1>11. /\ Notice(ev) \in Notices /\ Notice(ev) # "withdrawn"
       /\ Terminal(ev) => Notice(ev) = ev.sec
  BY <1>2, NoticeOfEnding
<1>12. /\ hold' \in [RunIds -> [Lanes -> Notices \cup Phases]]
       /\ hold'[gen]["sections"] = Notice(ev)
       /\ \A h \in RunIds, k \in Lanes : h # gen \/ k # "sections" => hold'[h][k] = hold[h][k]
  <2>1. Notice(ev) \in Notices \cup Phases /\ "sections" \in Lanes
    BY <1>11 DEF Lanes
  <2> QED BY <1>1, <2>1, HeldNow DEF Inv
<1>13. Forwards(ev)
  <2>1. Shorter(Line, Line')
    BY <1>1, <1>2 DEF Line
  <2>2. /\ queue'[gen]["home"] = queue[gen]["home"] /\ hold'[gen]["home"] = hold[gen]["home"]
        /\ Terminal(ev) => hold'[gen]["sections"] = ev.sec
    BY <1>1, <1>2, <1>11, <1>12 DEF Lanes
  <2>3. gen \in stopped => gen \in stopped'
    BY <1>5
  <2>4. hold[gen]["sections"] = Nothing
    BY <1>1 DEF Ready
  <2> QED BY <1>1, <1>2, <1>8, <1>9, <1>10, <2>1, <2>2, <2>3, <2>4 DEF Forwards
<1>14. TypeInv'
  <2>1. stopped' \in SUBSET (1..gen) /\ cause' \in SUBSET {"user", "limit"}
    BY <1>3, <1>5, <1>c DEF Inv, TypeInv
  <2> QED BY <1>1, <1>2, <1>8, <1>9, <1>10, <1>12, <2>1 DEF Inv, TypeInv, Keeps
<1>15. "limit" \in cause' => \/ "limit" \in cause
                             \/ "ResourceLimited" \in run'.disk.why \cup run'.host.why
  <2>1. r.disk.why \subseteq run'.disk.why /\ r.host.why \subseteq run'.host.why
    BY <1>1, <1>6 DEF Learns
  <2> QED BY <1>4, <1>c, <2>1
<1>16. gen \in stopped' => gen \in stopped \/ cause' # {}
  BY <1>5, <1>c
<1>17. \A h \in RunIds, l \in Lanes : h # gen \/ l # "sections" =>
         queue'[h][l] = queue[h][l] /\ hold'[h][l] = hold[h][l]
  BY <1>2, <1>12
<1>18. hold'[gen]["sections"] # "withdrawn" /\ stopped \subseteq stopped' /\ cause \subseteq cause'
  BY <1>5, <1>11, <1>12, <1>c
<1> QED BY <1>1, <1>7, <1>13, <1>14, <1>15, <1>16, <1>17, <1>18, <1>b, ForwardStep

LEMMA ForwardExhaustedInv ==
  ASSUME Inv, NEW g \in RunIds, ForwardExhausted(g)
  PROVE  Inv'
<1> DEFINE ev == Head(Line)
           isHost == ev.kind = "Finding"
           t == ObserveRun(run, ev, FALSE)
<1>1. /\ gen \in RunIds /\ Ready(gen, "sections") /\ Take(gen, "sections")
      /\ gen \notin stopped /\ ev.kind \in {"Finding", "DiskFinding"}
      /\ run' = MarkLimited(t, isHost) /\ isHost \in BOOLEAN
      /\ stopped' = stopped \cup {gen} /\ bus' = Bus!Cancelled(bus, gen)
      /\ cause' = cause \cup {"limit"}
      /\ Holds(gen, "sections", ev.sec)
      /\ UNCHANGED <<gen, worker, awaited, tx, chan, source, sent, told>>
  BY DEF ForwardExhausted, Line, HaltBus
<1>2. /\ ev \in SectionEvents /\ ev.sec \in Sections /\ SectionEvent(ev)
      /\ Line # <<>> /\ Line[1] = ev
      /\ Shorter(Line, queue'[gen]["sections"])
      /\ queue' \in [RunIds -> [Lanes -> Seq(Events)]]
      /\ \A h \in RunIds, l \in Lanes : Len(queue'[h][l]) <= LaneCap(l)
      /\ \A h \in RunIds, l \in Lanes : h # gen \/ l # "sections" =>
           queue'[h][l] = queue[h][l]
  BY <1>1, LineTaken
<1> HIDE DEF ev, isHost
<1>3. /\ gen > 0 /\ CurrentInv /\ Consistent(run) /\ gen \in 1..gen
  BY <1>1 DEF Inv, TypeInv, RunIds
<1>4. /\ Consistent(t)
      /\ Sees(run, ev, t) /\ Learns(run, t) /\ Discovers(run, ev, FALSE, t)
      /\ Counts(run.host, ev, t.host)
      /\ ev.sec # Fs => t.disk = run.disk
      /\ ev.sec = Fs => Decides(run.disk, t.disk, {Fs}, t.diskPartial, FALSE)
      /\ Decides(run.host, t.host, Sections, t.auditPartial \/ t.discPartial, FALSE)
  <2> DEFINE no == FALSE
             u == ObserveRun(run, ev, no)
  <2>1. Consistent(run) /\ SectionEvent(ev) /\ no \in BOOLEAN
    BY <1>2, <1>3
  <2> HIDE DEF no
  <2>2. /\ Consistent(u)
        /\ Sees(run, ev, u) /\ Learns(run, u) /\ Discovers(run, ev, no, u)
        /\ Counts(run.host, ev, u.host)
        /\ ev.sec # Fs => u.disk = run.disk
        /\ ev.sec = Fs => Decides(run.disk, u.disk, {Fs}, u.diskPartial, no)
        /\ Decides(run.host, u.host, Sections, u.auditPartial \/ u.discPartial, no)
    BY <2>1, RunObserved
  <2>3. u = t
    BY DEF no
  <2> HIDE DEF u, t
  <2> QED BY <2>2, <2>3 DEF no
<1> HIDE DEF t
<1>5. /\ RunKept(t, run') /\ Consistent(run')
      /\ "ResourceLimited" \in run'.disk.why \cup run'.host.why
  <2>1. t \in Runs
    BY <1>4 DEF Consistent, WalksTell
  <2> QED BY <1>1, <1>4, <2>1, MarkedKept, MarkedConsistent
<1>6. Observes(ev, FALSE, run, t)
  <2>1. gen \in stopped' /\ RunKept(run, run)
    BY <1>1, RunKeptItself
  <2> QED BY <1>1, <1>3, <1>4, <1>5, <2>1 DEF Observes
<1>7. Keeps(bus, bus')
  BY <1>1, BusCancelled DEF Inv, TypeInv
<1>8. /\ hold' \in [RunIds -> [Lanes -> Notices \cup Phases]]
      /\ hold'[gen]["sections"] = ev.sec
      /\ \A h \in RunIds, k \in Lanes : h # gen \/ k # "sections" => hold'[h][k] = hold[h][k]
  <2>1. ev.sec \in Notices \cup Phases /\ "sections" \in Lanes
    BY <1>2 DEF Lanes, Notices
  <2> QED BY <1>1, <2>1, HeldNow DEF Inv
<1>9. Forwards(ev)
  <2>1. Shorter(Line, Line')
    BY <1>1, <1>2 DEF Line
  <2>2. /\ queue'[gen]["home"] = queue[gen]["home"] /\ hold'[gen]["home"] = hold[gen]["home"]
        /\ hold[gen]["sections"] = Nothing
    BY <1>1, <1>2, <1>8 DEF Lanes, Ready
  <2>3. ~Terminal(ev) /\ ev.kind # "Tree"
    BY <1>1 DEF Terminal
  <2>4. /\ source' \in [Sections -> {"none", "open", "finished", "failed"}]
        /\ sent' \in [Sections -> Bus!Contents]
    BY <1>1 DEF Inv, TypeInv
  <2> QED BY <1>1, <1>2, <1>7, <1>8, <2>1, <2>2, <2>3, <2>4 DEF Forwards
<1>10. TypeInv'
  <2>1. stopped' \in SUBSET (1..gen) /\ cause' \in SUBSET {"user", "limit"}
    BY <1>1, <1>3 DEF Inv, TypeInv
  <2> QED BY <1>1, <1>2, <1>7, <1>8, <2>1 DEF Inv, TypeInv, Keeps
<1>11. \A h \in RunIds, l \in Lanes : h # gen \/ l # "sections" =>
         queue'[h][l] = queue[h][l] /\ hold'[h][l] = hold[h][l]
  BY <1>2, <1>8
<1>12. hold'[gen]["sections"] # "withdrawn"
  BY <1>2, <1>8, TagAssumption
<1> DEFINE no == FALSE
<1>13. no \in BOOLEAN /\ Observes(ev, no, run, t)
  BY <1>6
<1> HIDE DEF no
<1> QED BY <1>1, <1>5, <1>9, <1>10, <1>11, <1>12, <1>13, ForwardStep

-----------------------------------------------------------------------------
(* Steps of the Home forwarder.                                            *)

\* A step of the Home forwarder of the current run.
LEMMA HomeStep ==
  ASSUME Inv, gen \in RunIds, Consistent(run'),
         UNCHANGED <<gen, bus, worker, tx, chan, source, sent, told>>,
         /\ OrderInv' /\ AheadInv' /\ EndsInv' /\ TreesInv'
         /\ HistoryInv' /\ LiveInv' /\ CompleteInv',
         HomeInv', Learns(run, run'),
         \/ UNCHANGED <<stopped, cause>>
         \/ /\ stopped' = stopped \cup {gen} /\ cause' = cause \cup {"limit"}
            /\ "ResourceLimited" \in run'.host.why,
         awaited' \in SUBSET awaited,
         queue' \in [RunIds -> [Lanes -> Seq(Events)]],
         \A h \in RunIds, l \in Lanes :
           /\ Len(queue'[h][l]) <= LaneCap(l)
           /\ queue'[h][l] = queue[h][l] \/ Shorter(queue[h][l], queue'[h][l]),
         NEW n \in Notices \cup Phases, n # "withdrawn", Holds(gen, "home", n)
  PROVE  Inv'
<1>1. gen > 0 /\ CurrentInv /\ gen \in 1..gen
  BY DEF Inv, TypeInv, RunIds
<1>2. /\ hold' \in [RunIds -> [Lanes -> Notices \cup Phases]]
      /\ hold'[gen]["home"] = n
      /\ \A h \in RunIds, k \in Lanes : h # gen \/ k # "home" => hold'[h][k] = hold[h][k]
  BY HeldNow DEF Inv, Lanes
<1>3. stopped' \in SUBSET (1..gen) /\ cause' \in SUBSET {"user", "limit"}
      /\ stopped \subseteq stopped' /\ cause \subseteq cause'
  BY <1>1 DEF Inv, TypeInv
<1>4. TypeInv'
  BY <1>2, <1>3 DEF Inv, TypeInv
<1>5. StopHasOwnCause'
  BY <1>1, <1>3, CauseStays DEF CurrentInv, Learns
<1>6. Keeps(bus, bus')
  BY KeepsItself DEF Inv
<1>7. \A h \in RunIds, l \in Lanes :
        /\ h > gen => hold'[h][l] = hold[h][l]
        /\ hold'[h][l] = "withdrawn" => h \in stopped'
  <2>1. \A h \in RunIds : h > gen => h # gen
    BY DEF RunIds
  <2> QED BY <1>2, <1>3, <2>1 DEF Inv, WorkersInv
<1> QED BY <1>1, <1>3, <1>4, <1>5, <1>6, <1>7, WholeStep DEF CurrentInv

\* The line of Home holds one event.
LEMMA HomeTaken ==
  ASSUME Inv, gen \in RunIds, Ready(gen, "home"), Take(gen, "home"),
         NEW ev, ev = Head(queue[gen]["home"])
  PROVE  /\ ev \in HomeEvents /\ queue[gen]["home"] # <<>> /\ queue[gen]["home"][1] = ev
         /\ queue'[gen]["home"] = <<>> /\ queue'[gen]["sections"] = queue[gen]["sections"]
         /\ queue' \in [RunIds -> [Lanes -> Seq(Events)]]
         /\ \A h \in RunIds, l \in Lanes :
              /\ Len(queue'[h][l]) <= LaneCap(l)
              /\ queue'[h][l] = queue[h][l] \/ Shorter(queue[h][l], queue'[h][l])
<1>1. "home" \in Lanes /\ "sections" \in Lanes /\ LaneEvents("home") = HomeEvents
      /\ LaneCap("home") = 1
  BY DEF Lanes, LaneEvents, LaneCap
<1> DEFINE q == queue[gen]["home"]
           p == queue'[gen]["home"]
<1>2. /\ queue' \in [RunIds -> [Lanes -> Seq(Events)]]
      /\ \A h \in RunIds, l \in Lanes : Len(queue'[h][l]) <= LaneCap(l)
      /\ Shorter(q, p)
      /\ \A h \in RunIds, l \in Lanes : h # gen \/ l # "home" => queue'[h][l] = queue[h][l]
      /\ Head(q) = q[1] /\ 1 \in 1..Len(q) /\ q # <<>>
  BY <1>1, QueueTaken DEF Inv, Ready
<1>3. ev \in HomeEvents
  BY <1>1, <1>2 DEF Inv, EventsInv
<1>4. p = <<>>
  <2>1. Len(q) <= 1 /\ p \in Seq(Events) /\ Len(q) = Len(p) + 1
    BY <1>1, <1>2 DEF Inv, TypeInv, Shorter
  <2> HIDE DEF p, q
  <2> QED BY <2>1
<1> QED BY <1>1, <1>2, <1>3, <1>4

\* What Home says is quiet once its end is known.
LEMMA HomeHearsInv ==
  ASSUME Inv, gen \in RunIds, NEW ev, HomeHears(ev),
         queue'[gen]["home"] = <<>>,
         ev.kind # "Finding" => IsOut(gen, Home),
         run'.discovery = "open" => (gen \in awaited <=> gen \in awaited')
  PROVE  /\ OrderInv' /\ AheadInv' /\ EndsInv' /\ TreesInv' /\ HomeInv'
         /\ HistoryInv' /\ LiveInv' /\ CompleteInv'
         /\ Consistent(run') /\ Learns(run, run')
         /\ \/ UNCHANGED <<stopped, cause>>
            \/ /\ stopped' = stopped \cup {gen} /\ cause' = cause \cup {"limit"}
               /\ "ResourceLimited" \in run'.host.why
<1>1. gen > 0 /\ CurrentInv /\ Consistent(run) /\ TypeInv
  BY DEF Inv, RunIds
<1>2. /\ OrderInv' /\ AheadInv' /\ EndsInv' /\ TreesInv'
      /\ HistoryInv' /\ LiveInv' /\ CompleteInv'
  BY <1>1, HomeHearsKeeps
<1>3. /\ Consistent(run') /\ Explores(run, ev, run') /\ Learns(run, run')
      /\ run'.limited => "ResourceLimited" \in run'.host.why
  BY <1>1, HomeHeard
<1>4. HomeInv'
  <2>1. IsOut(gen, Home)' = IsOut(gen, Home) /\ run'.separate /\ run.separate /\ run.discovery = "open"
    BY <1>3 DEF HomeHears, IsOut, Explores
  <2>2. run'.discovery # "open" => ev.kind # "Finding"
    BY <1>3, <2>1 DEF Explores
  <2>3. gen' = gen
    BY DEF HomeHears
  <2>4. run'.discovery = "open" => gen \in awaited
    BY <1>1, <2>1 DEF CurrentInv, HomeInv
  <2> QED BY <2>1, <2>2, <2>3, <2>4 DEF HomeInv
<1>5. \/ UNCHANGED <<stopped, cause>>
      \/ /\ stopped' = stopped \cup {gen} /\ cause' = cause \cup {"limit"}
         /\ "ResourceLimited" \in run'.host.why
  BY <1>3 DEF HomeHears, LimitedDiscovery
<1> QED BY <1>2, <1>3, <1>4, <1>5

LEMMA ForwardHomeKeeps ==
  ASSUME Inv, NEW g \in RunIds, ForwardHome(g)
  PROVE  Inv'
<1> DEFINE ev == Head(queue[gen]["home"])
<1>1. /\ gen \in RunIds /\ Ready(gen, "home") /\ Take(gen, "home")
      /\ UNCHANGED <<gen, bus, worker, awaited, tx, chan, source, sent, told>>
      /\ Holds(gen, "home", IF ev.kind # "Started" THEN "heard" ELSE "ignored")
      /\ ev.kind # "Started" =>
           run' = ObserveDiscovery(run, ev, gen \in stopped) /\ LimitedDiscovery(gen, TRUE)
      /\ ev.kind = "Started" => run' = run /\ UNCHANGED <<stopped, cause>>
  BY DEF ForwardHome, LimitedDiscovery
<1>2. /\ ev \in HomeEvents /\ queue[gen]["home"] # <<>> /\ queue[gen]["home"][1] = ev
      /\ queue'[gen]["home"] = <<>> /\ queue'[gen]["sections"] = queue[gen]["sections"]
      /\ queue' \in [RunIds -> [Lanes -> Seq(Events)]]
      /\ \A h \in RunIds, l \in Lanes :
           /\ Len(queue'[h][l]) <= LaneCap(l)
           /\ queue'[h][l] = queue[h][l] \/ Shorter(queue[h][l], queue'[h][l])
  BY <1>1, HomeTaken
<1> HIDE DEF ev
<1>3. gen > 0 /\ CurrentInv /\ Consistent(run) /\ TypeInv /\ run \in Runs
  BY <1>1 DEF Inv, RunIds, Consistent, WalksTell
<1>4. /\ hold'[gen]["sections"] = hold[gen]["sections"]
      /\ "heard" \in Notices \cup Phases /\ "ignored" \in Notices \cup Phases
  <2>1. "heard" \in Notices \cup Phases /\ "ignored" \in Notices \cup Phases
    BY DEF Phases
  <2> QED BY <1>1, <1>3, <2>1, HeldNow DEF Lanes
<1>5. CASE ev.kind # "Started"
  <2>1. HomeEvent(ev) /\ run.separate /\ run.discovery = "open"
    <3>1. HomeEvent(ev)
      BY <1>2, <1>5 DEF HomeEvents, HomeEvent
    <3> QED BY <1>2, <1>3, <3>1 DEF CurrentInv, HomeInv
  <2>2. HomeHears(ev)
    BY <1>1, <1>2, <1>4, <1>5, <2>1 DEF HomeHears
  <2>3. ev.kind # "Finding" => IsOut(gen, Home)
    <3>1. ev.kind # "Finding" => Terminal(ev)
      BY <2>1 DEF HomeEvent, Terminal
    <3> QED BY <1>2, <1>3, <3>1 DEF CurrentInv, HomeInv, At, IsOut
  <2>4. gen \in awaited <=> gen \in awaited'
    BY <1>1
  <2>5. /\ OrderInv' /\ AheadInv' /\ EndsInv' /\ TreesInv' /\ HomeInv'
        /\ HistoryInv' /\ LiveInv' /\ CompleteInv'
        /\ Consistent(run') /\ Learns(run, run')
        /\ \/ UNCHANGED <<stopped, cause>>
           \/ /\ stopped' = stopped \cup {gen} /\ cause' = cause \cup {"limit"}
              /\ "ResourceLimited" \in run'.host.why
    BY <1>1, <1>2, <2>2, <2>3, <2>4, HomeHearsInv
  <2>6. Holds(gen, "home", "heard") /\ awaited' \in SUBSET awaited
    BY <1>1, <1>5
  <2> QED BY <1>1, <1>2, <1>4, <2>5, <2>6, HomeStep
<1>6. CASE ev.kind = "Started"
  <2>1. SteadyRun
    <3>1. RunKept(run, run') /\ Keeps(bus, bus')
      BY <1>1, <1>3, <1>6, KeepsItself
    <3> QED BY <1>1, <1>4, <1>6, <3>1 DEF SteadyRun
  <2>2. /\ OrderInv' /\ AheadInv' /\ EndsInv' /\ TreesInv'
        /\ HistoryInv' /\ LiveInv' /\ CompleteInv'
    BY <1>1, <1>2, <1>3, <2>1, LineKeeps
  <2>3. HomeInv'
    BY <1>1, <1>2, <1>3, <1>6 DEF CurrentInv, HomeInv, At, IsOut
  <2>4. Learns(run, run') /\ Consistent(run')
    BY <1>1, <1>3, <1>6 DEF Learns
  <2>5. Holds(gen, "home", "ignored") /\ awaited' \in SUBSET awaited
        /\ UNCHANGED <<stopped, cause>>
    BY <1>1, <1>6
  <2> QED BY <1>1, <1>2, <1>4, <2>2, <2>3, <2>4, <2>5, HomeStep
<1> QED BY <1>5, <1>6

LEMMA HomeClosedKeeps ==
  ASSUME Inv, NEW g \in RunIds, HomeClosed(g)
  PROVE  Inv'
<1> DEFINE isLost == HomeLost(g)
           lost == Event(Fs, "Failed", IF g \in stopped THEN "cancelled" ELSE "error")
           n == IF isLost THEN Diagnostic ELSE Nothing
<1>1. /\ g \in awaited /\ HomeGone(g)
      /\ queue[g]["home"] = <<>> /\ hold[g]["home"] = Nothing
      /\ awaited' = awaited \ {g}
      /\ isLost => run' = ObserveDiscovery(run, lost, g \in stopped) /\ LimitedDiscovery(g, TRUE)
      /\ ~isLost => run' = run /\ UNCHANGED <<stopped, cause>>
      /\ Holds(g, "home", n)
      /\ UNCHANGED <<gen, bus, worker, queue, tx, chan, source, sent, told>>
  BY DEF HomeClosed, LimitedDiscovery
<1>2. isLost <=> g = gen /\ run.discovery = "open"
  BY DEF HomeLost
<1>3. HomeEvent(lost) /\ lost.kind # "Finding"
  BY DEF Event, HomeEvent
<1>4. n \in Notices \cup Phases /\ n # "withdrawn" /\ (~isLost => n = Nothing)
  <2>1. Diagnostic \in Notices \cup Phases /\ Diagnostic # "withdrawn"
    BY DiagnosticIs DEF Notices
  <2>2. Nothing \in Notices \cup Phases /\ Nothing # "withdrawn"
    BY TagAssumption DEF Phases
  <2> QED BY <2>1, <2>2
<1> HIDE DEF isLost, lost, n
<1>5. /\ g \in 1..gen /\ gen > 0 /\ gen \in RunIds /\ CurrentInv /\ Consistent(run)
      /\ TypeInv /\ run \in Runs
  BY <1>1 DEF Inv, TypeInv, RunIds, Consistent, WalksTell
<1>6. /\ hold' \in [RunIds -> [Lanes -> Notices \cup Phases]]
      /\ hold'[g]["home"] = n
      /\ \A h \in RunIds, k \in Lanes : h # g \/ k # "home" => hold'[h][k] = hold[h][k]
  <2>1. "home" \in Lanes
    BY DEF Lanes
  <2> QED BY <1>1, <1>4, <1>5, <2>1, HeldNow
<1>7. CASE g # gen
  <2>1. ~isLost /\ run' = run /\ UNCHANGED <<stopped, cause>>
    BY <1>1, <1>2, <1>7
  <2>2. \A h \in RunIds, k \in Lanes : hold'[h][k] = hold[h][k]
    BY <1>1, <1>4, <1>6, <2>1
  <2>3. Steady
    <3>1. RunKept(run, run') /\ Keeps(bus, bus')
      BY <1>1, <1>5, <2>1, KeepsItself
    <3>2. "home" \in Lanes /\ "sections" \in Lanes
      BY DEF Lanes
    <3> QED BY <1>1, <1>5, <1>7, <2>1, <2>2, <3>1, <3>2 DEF Steady, SteadyRun
  <2>4. TypeInv'
    BY <1>1, <1>5, <1>6, <2>1 DEF TypeInv
  <2>5. StopHasOwnCause'
    BY <1>1, <1>5, <2>1, CauseStays DEF CurrentInv
  <2>6. Consistent(run') /\ UNCHANGED <<worker, tx>>
        /\ (\A h \in RunIds, l \in Lanes : queue'[h][l] = queue[h][l])
        /\ \A h \in RunIds, l \in Lanes : hold'[h][l] = "withdrawn" => h \in stopped'
    BY <1>1, <1>5, <2>1, <2>2 DEF Inv, WorkersInv
  <2> QED BY <2>1, <2>2, <2>3, <2>4, <2>5, <2>6, IdleStep
<1>8. CASE g = gen
  <2>1. /\ queue'[gen]["home"] = <<>> /\ IsOut(gen, Home)
        /\ awaited' \in SUBSET awaited /\ gen \notin awaited'
        /\ queue' \in [RunIds -> [Lanes -> Seq(Events)]]
        /\ \A h \in RunIds, l \in Lanes :
             /\ Len(queue'[h][l]) <= LaneCap(l)
             /\ queue'[h][l] = queue[h][l]
    BY <1>1, <1>5, <1>8 DEF HomeGone, TypeInv
  <2>2. /\ OrderInv' /\ AheadInv' /\ EndsInv' /\ TreesInv' /\ HomeInv'
        /\ HistoryInv' /\ LiveInv' /\ CompleteInv'
        /\ Consistent(run') /\ Learns(run, run')
        /\ \/ UNCHANGED <<stopped, cause>>
           \/ /\ stopped' = stopped \cup {gen} /\ cause' = cause \cup {"limit"}
              /\ "ResourceLimited" \in run'.host.why
    <3>s. hold'[gen]["sections"] = hold[gen]["sections"]
      BY <1>5, <1>6 DEF Lanes
    <3>p. run.separate
      BY <1>1, <1>5, <1>8 DEF CurrentInv, HomeInv
    <3>1. CASE isLost
      <4>1. HomeHears(lost)
        BY <1>1, <1>2, <1>3, <1>8, <3>1, <3>s, <3>p DEF HomeHears
      <4>2. Explores(run, lost, run')
        BY <1>5, <4>1, HomeHeard
      <4>3. run'.discovery # "open"
        <5>1. lost.kind = "Failed"
          BY DEF lost, Event
        <5> QED BY <4>2, <5>1 DEF Explores
      <4> QED BY <1>3, <1>5, <2>1, <4>1, <4>3, HomeHearsInv
    <3>2. CASE ~isLost
      <4>1. run' = run /\ UNCHANGED <<stopped, cause>> /\ run.discovery # "open"
        BY <1>1, <1>2, <1>8, <3>2
      <4>2. SteadyRun
        <5>1. RunKept(run, run') /\ Keeps(bus, bus')
          BY <1>1, <1>5, <4>1, KeepsItself
        <5> QED BY <1>1, <3>s, <4>1, <5>1 DEF SteadyRun
      <4>3. /\ OrderInv' /\ AheadInv' /\ EndsInv' /\ TreesInv'
            /\ HistoryInv' /\ LiveInv' /\ CompleteInv'
        BY <1>1, <1>5, <4>2, LineKeeps
      <4>4. HomeInv'
        BY <1>1, <1>5, <2>1, <3>p, <4>1 DEF HomeInv, At, IsOut
      <4>5. Learns(run, run') /\ Consistent(run')
        BY <1>5, <4>1 DEF Learns
      <4> QED BY <4>1, <4>3, <4>4, <4>5
    <3> QED BY <3>1, <3>2
  <2>3. /\ UNCHANGED <<gen, bus, worker, tx, chan, source, sent, told>>
        /\ Holds(gen, "home", n)
    BY <1>1, <1>8
  <2> QED BY <1>4, <1>5, <2>1, <2>2, <2>3, HomeStep
<1> QED BY <1>7, <1>8

-----------------------------------------------------------------------------
(* A run starts.                                                           *)

\* What a worker is when its run starts.
LEMMA SpawnedWorker ==
  ASSUME NEW w \in Workers, NEW b \in BOOLEAN
  PROVE  LET x == Spawned(w, b)
         IN  /\ x \in WorkerStates /\ x.pc = "scan" /\ x.stage = 0
             /\ x.out # Nothing => /\ x.out.kind = "Started" /\ x.out.sec = SectionOf(w)
                                   /\ x.out \in LaneEvents(LaneOf(w))
<1> DEFINE ev == Event(SectionOf(w), "Started", "whole")
           x == Spawned(w, b)
<1>1. SectionOf(w) \in Sections /\ (w = Home => SectionOf(w) = Fs)
  BY MetadataAssumption DEF SectionOf, Workers
<1>2. ev \in Events /\ ev.kind = "Started" /\ ev.sec = SectionOf(w)
  BY <1>1 DEF Event, Events, Qualities
<1>3. ev \in LaneEvents(LaneOf(w))
  BY <1>1, <1>2 DEF LaneEvents, LaneOf, HomeEvents, SectionEvents, BusItem
<1> HIDE DEF ev
<1>4. \/ x = [pc |-> "scan", stage |-> 0, out |-> ev]
      \/ x = [pc |-> "scan", stage |-> 0, out |-> Nothing]
  BY DEF Spawned, ev
<1> HIDE DEF x
<1>5. x \in WorkerStates /\ x.pc = "scan" /\ x.stage = 0 /\ x.out \in {ev, Nothing}
  BY <1>2, <1>4 DEF WorkerStates
<1> QED BY <1>2, <1>3, <1>5 DEF x

\* The state in which the run that isSeparate tells of starts as run n.
Starts(n, isSeparate) ==
  /\ n = gen + 1 /\ n \in RunIds /\ gen' = n
  /\ run' = NewRun(isSeparate) /\ stopped' = stopped \cup ({gen} \ {0})
  /\ \A w \in Workers : worker'[n][w] = IF w = Home /\ ~isSeparate
                                          THEN Gone ELSE Spawned(w, isSeparate)
  /\ awaited' = IF isSeparate THEN awaited \cup {n} ELSE awaited
  /\ source' = [s \in Sections |-> "open"] /\ sent' = [s \in Sections |-> Bus!NoItems]
  /\ cause' = {} /\ told' = {}
  /\ \A l \in Lanes : queue'[n][l] = <<>> /\ hold'[n][l] = Nothing
  /\ n \notin stopped' /\ n \notin awaited

LEMMA StartedRun ==
  ASSUME NEW n, NEW b \in BOOLEAN, Starts(n, b)
  PROVE  CurrentInv'
<1> DEFINE r == NewRun(b)
<1>1. /\ gen' = n /\ gen' \notin stopped' /\ run' = r
      /\ Line' = <<>> /\ queue'[n]["home"] = <<>> /\ hold'[n]["home"] = Nothing
      /\ Len(Line') = 0
  BY DEF Starts, Line, Lanes
<1>2. /\ r.disk.state = "Running" /\ r.host.state = "Running" /\ r.disc = "Running"
      /\ ~r.limited /\ ~r.diskPartial /\ ~r.auditPartial /\ r.separate = b
      /\ r.primary = "open" /\ r.discovery = "open"
      /\ r.host.why = {} /\ r.host.done = {} /\ Ended(r.host) = {}
  BY DEF NewRun, NewContext, Ended
<1>3. \A s \in Sections : /\ source'[s] = "open"
                          /\ sent'[s]["tree"] = Nothing /\ sent'[s]["finding"] = Nothing
  BY DEF Starts, Bus!NoItems, Keys
<1>4. ASSUME NEW s \in Sections
      PROVE  /\ At(s)'.pc = "scan" /\ At(s)'.stage = 0
             /\ At(s)'.out # Nothing => At(s)'.out.kind = "Started"
  <2>1. s \in Workers /\ s # Home /\ At(s)' = worker'[n][s]
    BY EngineAssumption DEF Workers, At, Starts
  <2>2. At(s)' = Spawned(s, b)
    BY <2>1 DEF Starts
  <2>3. LET x == Spawned(s, b)
        IN  x.pc = "scan" /\ x.stage = 0 /\ (x.out # Nothing => x.out.kind = "Started")
    BY <2>1, SpawnedWorker
  <2> QED BY <2>2, <2>3
<1> HIDE DEF r
<1>5. OrderInv'
  BY <1>1, <1>3, <1>4 DEF OrderInv, IsOver
<1>6. AheadInv'
  BY <1>1, <1>3, <1>4 DEF AheadInv
<1>7. EndsInv'
  BY <1>4 DEF EndsInv
<1>8. TreesInv'
  BY <1>1, <1>2, <1>4, MetadataAssumption DEF TreesInv, IsTree
<1>9. HomeInv'
  <2>1. ~b => IsOut(gen, Home)'
    BY <1>1 DEF Starts, IsOut, Workers, Gone
  <2>2. gen' \in awaited' <=> b
    BY <1>1 DEF Starts
  <2> QED BY <1>1, <1>2, <2>1, <2>2 DEF HomeInv
<1>10. HistoryInv'
  BY <1>1, <1>2, <1>3, MetadataAssumption, TagAssumption DEF HistoryInv, Qualities
<1>11. LiveInv' /\ CompleteInv'
  BY <1>1, <1>2 DEF LiveInv, Unhurried, CompleteInv
<1>12. StopHasOwnCause'
  BY <1>1 DEF StopHasOwnCause, Starts
<1> QED BY <1>5, <1>6, <1>7, <1>8, <1>9, <1>10, <1>11, <1>12 DEF CurrentInv

LEMMA StartRunKeeps ==
  ASSUME Inv, NEW c \in Channels, NEW b \in Separations, StartRun(c, b)
  PROVE  Inv'
<1> DEFINE n == gen + 1
           spawned == [w \in Workers |-> IF w = Home /\ ~b THEN Gone ELSE Spawned(w, b)]
<1>1. /\ gen < MaxRuns /\ gen' = n /\ stopped' = stopped \cup ({gen} \ {0})
      /\ run' = NewRun(b) /\ bus' = Bus!Begun(bus, n)
      /\ worker' = [worker EXCEPT ![n] = spawned]
      /\ awaited' = IF b THEN awaited \cup {n} ELSE awaited
      /\ tx' = [tx EXCEPT ![n] = c]
      /\ source' = [s \in Sections |-> "open"] /\ sent' = [s \in Sections |-> Bus!NoItems]
      /\ cause' = {} /\ told' = {}
      /\ UNCHANGED <<queue, hold, chan>>
  BY DEF StartRun
<1>2. b \in BOOLEAN /\ MaxRuns \in Nat /\ gen \in 0..MaxRuns
  BY EngineAssumption DEF Inv, TypeInv
<1>3. n \in RunIds /\ n > gen /\ n \notin 1..gen /\ n \in 0..MaxRuns
  BY <1>1, <1>2 DEF RunIds
<1>4. \A w \in Workers :
        /\ spawned[w] \in WorkerStates
        /\ spawned[w] = Gone \/ (spawned[w] = Spawned(w, b) /\ ~(w = Home /\ ~b))
  <2>1. Gone \in WorkerStates
    BY DEF Gone, WorkerStates
  <2>2. \A w \in Workers : Spawned(w, b) \in WorkerStates
    BY <1>2, SpawnedWorker
  <2> QED BY <2>1, <2>2
<1>5. /\ worker' \in [RunIds -> [Workers -> WorkerStates]]
      /\ worker'[n] = spawned
      /\ \A h \in RunIds \ {n} : worker'[h] = worker[h]
  <2>1. spawned \in [Workers -> WorkerStates]
    BY <1>4
  <2> HIDE DEF spawned, n
  <2> QED BY <1>1, <1>3, <2>1 DEF Inv, TypeInv
<1>6. /\ tx' \in [RunIds -> Channels \cup {Nothing}] /\ tx'[n] = c
      /\ \A h \in RunIds \ {n} : tx'[h] = tx[h]
  <2> HIDE DEF n
  <2> QED BY <1>1, <1>3 DEF Inv, TypeInv
<1>7. bus' \in [Sections -> Bus!Entries] /\ \A s \in Sections : bus'[s].gen = n
  <2> HIDE DEF n
  <2> QED BY <1>1, <1>3, BusBegun
<1>8. 1..gen \subseteq 1..n /\ n \in 1..n /\ (gen = 0 \/ gen \in 1..n)
      /\ \A h \in 1..n : h = n \/ h \in 1..gen
  BY <1>2
<1>9. \A l \in Lanes : queue[n][l] = <<>> /\ hold[n][l] = Nothing
  BY <1>3 DEF Inv, RunsInv
<1>s. n \notin stopped' /\ n \notin awaited
  BY <1>1, <1>2, <1>3 DEF Inv, TypeInv
<1>10. TypeInv'
  <2>1. /\ stopped' \in SUBSET (1..n) /\ awaited' \in SUBSET (1..n)
        /\ cause' \in SUBSET {"user", "limit"} /\ told' \in SUBSET Sections
    BY <1>1, <1>8 DEF Inv, TypeInv
  <2>2. /\ source' \in [Sections -> {"none", "open", "finished", "failed"}]
        /\ sent' \in [Sections -> Bus!Contents]
    BY <1>1 DEF Bus!NoItems, Bus!Contents
  <2> HIDE DEF n, spawned
  <2> QED BY <1>1, <1>3, <1>5, <1>6, <1>7, <2>1, <2>2 DEF Inv, TypeInv
<1>11. \A w \in Workers :
         /\ spawned[w].out # Nothing =>
              /\ spawned[w].out.kind = "Started" /\ spawned[w].out.sec = SectionOf(w)
              /\ spawned[w].out \in LaneEvents(LaneOf(w))
         /\ spawned[w].pc \in {"gone", "dead"} => spawned[w].out = Nothing
         /\ spawned[w].pc # "end"
  <2> SUFFICES ASSUME NEW w \in Workers
               PROVE  /\ spawned[w].out # Nothing =>
                           /\ spawned[w].out.kind = "Started" /\ spawned[w].out.sec = SectionOf(w)
                           /\ spawned[w].out \in LaneEvents(LaneOf(w))
                      /\ spawned[w].pc \in {"gone", "dead"} => spawned[w].out = Nothing
                      /\ spawned[w].pc # "end"
    OBVIOUS
  <2> DEFINE y == spawned[w]
             x == Spawned(w, b)
  <2>1. /\ x.pc = "scan"
        /\ x.out # Nothing => /\ x.out.kind = "Started" /\ x.out.sec = SectionOf(w)
                              /\ x.out \in LaneEvents(LaneOf(w))
    BY <1>2, SpawnedWorker
  <2>2. y = Gone \/ y = x
    BY <1>4
  <2> HIDE DEF x, y
  <2>3. /\ y.out # Nothing => /\ y.out.kind = "Started" /\ y.out.sec = SectionOf(w)
                              /\ y.out \in LaneEvents(LaneOf(w))
        /\ y.pc \in {"gone", "dead"} => y.out = Nothing
        /\ y.pc # "end"
    BY <2>1, <2>2 DEF Gone
  <2> QED BY <2>3 DEF y
<1> HIDE DEF spawned
<1>12. EventsInv'
  <2>1. ASSUME NEW h \in RunIds, NEW w \in Workers, worker'[h][w].out # Nothing
        PROVE  worker'[h][w].out \in LaneEvents(LaneOf(w))
               /\ worker'[h][w].out.sec = SectionOf(w)
    <3> HIDE DEF n
    <3>1. CASE h = n
      BY <1>5, <1>11, <2>1, <3>1
    <3>2. CASE h # n
      BY <1>5, <2>1, <3>2 DEF Inv, EventsInv
    <3> QED BY <3>1, <3>2
  <2> QED BY <1>1, <2>1 DEF Inv, EventsInv
<1>13. WorkersInv'
  <2>1. ASSUME NEW h \in RunIds, NEW w \in Workers
        PROVE  /\ worker'[h][w].pc \in {"gone", "dead"} => worker'[h][w].out = Nothing
               /\ worker'[h][w].pc = "end" =>
                    worker'[h][w].out # Nothing /\ Terminal(worker'[h][w].out)
               /\ worker'[h][w].pc = "scan" /\ worker'[h][w].out # Nothing =>
                    /\ worker'[h][w].out.kind # "Finished"
                    /\ worker'[h][w].out.kind = "Failed" => h \in stopped' /\ w \notin {Fs, Home}
    <3> HIDE DEF n
    <3>1. CASE h = n
      BY <1>5, <1>11, <3>1
    <3>2. CASE h # n
      BY <1>1, <1>5, <3>2 DEF Inv, WorkersInv, IsOut
    <3> QED BY <3>1, <3>2
  <2> QED BY <1>1, <2>1 DEF Inv, WorkersInv, IsOut
<1>14. RunsInv'
  <2>1. ASSUME NEW h \in 1..n
        PROVE  tx'[h] \in Channels
    <3>1. CASE h = n
      BY <1>6, <3>1
    <3>2. CASE h # n
      <4>1. h \in 1..gen /\ h \in RunIds
        BY <1>2, <1>3, <1>8, <3>2 DEF RunIds
      <4> QED BY <1>6, <3>2, <4>1 DEF Inv, RunsInv
    <3> QED BY <3>1, <3>2
  <2>2. ASSUME NEW h \in RunIds, h > n
        PROVE  /\ \A w \in Workers : worker'[h][w] = Gone
               /\ \A l \in Lanes : queue'[h][l] = <<>> /\ hold'[h][l] = Nothing
    <3>1. h # n /\ h > gen
      BY <1>2, <2>2 DEF RunIds
    <3> QED BY <1>1, <1>5, <3>1 DEF Inv, RunsInv
  <2> QED BY <1>1, <2>1, <2>2 DEF RunsInv
<1>15. BusInv'
  BY <1>1, <1>7 DEF BusInv
<1>16. Consistent(run')
  BY <1>1, <1>2, NewRunConsistent
<1>17. CurrentInv'
  <2>1. Starts(n, b)
    BY <1>1, <1>3, <1>5, <1>9, <1>s DEF Starts, spawned
  <2> HIDE DEF n
  <2> QED BY <1>2, <2>1, StartedRun
<1> QED BY <1>1, <1>2, <1>10, <1>12, <1>13, <1>14, <1>15, <1>16, <1>17 DEF Inv

-----------------------------------------------------------------------------
(* The invariant holds.                                                    *)

LEMMA InitInv ==
  ASSUME Init
  PROVE  Inv
<1>1. MaxRuns \in Nat /\ QueueCap \in Nat /\ ChannelCap \in Nat
  BY EngineAssumption
<1>2. /\ Gone \in WorkerStates /\ Gone.pc = "gone" /\ Gone.out = Nothing
      /\ Bus!NoItems \in Bus!Contents
      /\ Bus!Registered(0) \in Bus!Entries /\ Bus!Registered(0).gen = 0
  BY <1>1 DEF Gone, WorkerStates, Bus!NoItems, Bus!Contents, Bus!Registered, Bus!Entries
<1>3. TypeInv
  <2>1. /\ queue \in [RunIds -> [Lanes -> Seq(Events)]]
        /\ hold \in [RunIds -> [Lanes -> Notices \cup Phases]]
        /\ \A g \in RunIds, l \in Lanes : queue[g][l] = <<>> /\ LaneCap(l) \in Nat
    BY <1>1 DEF Init, Phases, LaneCap
  <2>2. chan \in [Channels -> ChannelStates] /\ \A c \in Channels : Len(chan[c].items) = 0
    BY DEF Init, ChannelStates
  <2>3. \A g \in RunIds, l \in Lanes : Len(queue[g][l]) <= LaneCap(l)
    <3>1. Len(<<>>) = 0
      OBVIOUS
    <3> QED BY <2>1, <3>1
  <2>4. \A c \in Channels : Len(chan[c].items) <= ChannelCap
    BY <1>1, <2>2
  <2>5. worker \in [RunIds -> [Workers -> WorkerStates]]
    BY <1>2 DEF Init
  <2>6. /\ gen \in 0..MaxRuns /\ stopped \in SUBSET (1..gen) /\ awaited \in SUBSET (1..gen)
        /\ cause \in SUBSET {"user", "limit"} /\ told \in SUBSET Sections
        /\ bus \in [Sections -> Bus!Entries]
        /\ tx \in [RunIds -> Channels \cup {Nothing}]
        /\ source \in [Sections -> {"none", "open", "finished", "failed"}]
        /\ sent \in [Sections -> Bus!Contents]
    BY <1>1, <1>2 DEF Init
  <2> QED BY <2>1, <2>2, <2>3, <2>4, <2>5, <2>6 DEF TypeInv
<1>4. EventsInv
  BY <1>2 DEF Init, EventsInv
<1>5. WorkersInv
  BY <1>2, TagAssumption DEF Init, WorkersInv, IsOut
<1>6. RunsInv /\ BusInv
  BY <1>2 DEF Init, RunsInv, BusInv
<1>7. Consistent(run)
  BY NewRunConsistent DEF Init
<1>8. gen = 0 /\ cause = {} /\ ~(gen > 0)
  BY DEF Init
<1> QED BY <1>3, <1>4, <1>5, <1>6, <1>7, <1>8 DEF Inv

LEMMA WorkerStepKeeps ==
  ASSUME Inv, NEW g \in RunIds, NEW w \in Workers, WorkerStep(g, w)
  PROVE  Inv'
BY SnapshotKeeps, WalkDoneKeeps, HomeWalkedKeeps, FindKeeps, AttributeKeeps, CommandLimitKeeps,
   EndKeeps, SendKeeps, DropKeeps DEF WorkerStep

LEMMA ForwarderStepKeeps ==
  ASSUME Inv, NEW g \in RunIds, NEW l \in Lanes, ForwarderStep(g, l)
  PROVE  Inv'
BY DiscardKeeps, ForwardInv, ForwardExhaustedInv, ForwardHomeKeeps, HomeLooksKeeps,
   HomeClosedKeeps, PublishKeeps, WithdrawKeeps, GiveUpKeeps DEF ForwarderStep

LEMMA StutterKeeps ==
  ASSUME Inv, UNCHANGED vars
  PROVE  Inv'
<1> USE DEF vars
<1>1. TypeInv' /\ EventsInv' /\ WorkersInv' /\ RunsInv' /\ BusInv'
  BY DEF Inv, TypeInv, EventsInv, WorkersInv, IsOut, RunsInv, BusInv
<1>2. gen > 0 => CurrentInv'
  <2> SUFFICES ASSUME gen > 0 PROVE CurrentInv'
    OBVIOUS
  <2>1. Steady /\ CurrentInv
    BY SteadyIfSame DEF Inv
  <2>2. /\ OrderInv' /\ AheadInv' /\ EndsInv' /\ TreesInv' /\ HomeInv'
        /\ HistoryInv' /\ LiveInv' /\ CompleteInv'
    BY <2>1, IdleKeeps
  <2>3. StopHasOwnCause'
    BY <2>1 DEF CurrentInv, StopHasOwnCause
  <2> QED BY <2>2, <2>3 DEF CurrentInv
<1> QED BY <1>1, <1>2 DEF Inv

LEMMA NextInv ==
  ASSUME Inv, [Next]_vars
  PROVE  Inv'
<1>1. ASSUME NEW c \in Channels,
             \/ \E isSeparate \in Separations : StartRun(c, isSeparate)
             \/ Receive(c) \/ ReportLimit(c) \/ CloseReceiver(c)
      PROVE  Inv'
  BY <1>1, StartRunKeeps, ReceiveKeeps, ReportLimitKeeps, CloseReceiverKeeps
<1>2. CASE \E g \in RunIds, w \in Workers : WorkerStep(g, w) \/ Panic(g, w)
  BY <1>2, WorkerStepKeeps, PanicKeeps
<1>3. CASE \E g \in RunIds, l \in Lanes : ForwarderStep(g, l)
  BY <1>3, ForwarderStepKeeps
<1>4. CASE Cancel
  BY <1>4, CancelKeeps
<1>5. CASE UNCHANGED vars
  BY <1>5, StutterKeeps
<1> QED BY <1>1, <1>2, <1>3, <1>4, <1>5 DEF Next

\* The inductive invariant is an invariant of the engine.
THEOREM Invariant == Spec => []Inv
<1>1. Init => Inv
  BY InitInv
<1>2. Inv /\ [Next]_vars => Inv'
  BY NextInv
<1> QED BY <1>1, <1>2, PTL DEF Spec

\* Every variable keeps its type, and no queue and no channel holds more than
\* its capacity.
THEOREM EngineTypeCorrect == Spec => []TypeOK
<1>1. Inv => TypeOK
  <2> SUFFICES ASSUME Inv PROVE TypeOK
    OBVIOUS
  <2>1. run \in Runs
    BY DEF Inv, Consistent, WalksTell
  <2>2. worker \in [RunIds -> [Workers ->
          [pc : {"scan", "end", "gone", "dead"}, stage : 0..3, out : Events \cup {Nothing}]]]
    BY DEF Inv, TypeInv, WorkerStates
  <2>3. \A g \in RunIds, l \in Lanes :
          /\ queue[g][l] \in Seq(Events) /\ Len(queue[g][l]) <= LaneCap(l)
          /\ hold[g][l] \in Notices \cup Phases
    BY DEF Inv, TypeInv
  <2>4. \A c \in Channels :
          /\ chan[c].open \in BOOLEAN /\ chan[c].seen \in Messages \cup {Nothing}
          /\ chan[c].items \in Seq(Messages) /\ Len(chan[c].items) <= ChannelCap
    BY DEF Inv, TypeInv, ChannelStates
  <2> QED BY <2>1, <2>2, <2>3, <2>4 DEF Inv, TypeInv, TypeOK
<1> QED BY <1>1, Invariant, PTL

-----------------------------------------------------------------------------
(* Verdicts.                                                               *)

\* A step that changes the metadata without starting a run.
Marks ==
  \/ Cancel
  \/ \E c \in Channels : ReportLimit(c) /\ IsCurrent(chan[c].seen)
  \/ /\ gen \in RunIds
     /\ \/ \E s \in Sections : CommandLimit(gen, s)
        \/ Forward(gen) \/ ForwardExhausted(gen)
        \/ ForwardHome(gen) \/ HomeClosed(gen)

Unmarked == run' = run /\ cause' = cause

LEMMA MetadataChanges ==
  ASSUME [Next]_vars
  PROVE  \/ \E c \in Channels, isSeparate \in Separations : StartRun(c, isSeparate)
         \/ gen' = gen /\ (Unmarked \/ Marks)
<1> USE DEF Unmarked
<1>1. ASSUME NEW g \in RunIds, NEW w \in Workers, WorkerStep(g, w)
      PROVE  gen' = gen /\ (Unmarked \/ Marks)
  <2>1. CASE w \in Sections /\ CommandLimit(g, w)
    <3>1. g # gen => Unmarked
      BY <2>1 DEF CommandLimit, HaltLimited
    <3>2. g = gen => Marks
      BY <2>1 DEF Marks
    <3>3. gen' = gen
      BY <2>1 DEF CommandLimit
    <3> QED BY <3>1, <3>2, <3>3
  <2>2. CASE ~(w \in Sections /\ CommandLimit(g, w))
    BY <1>1, <2>2 DEF WorkerStep, OnlyWorkers, Snapshot, WalkDone, HomeWalked, Find,
       Attribute, End, Send, Drop
  <2> QED BY <2>1, <2>2
<1>p. ASSUME NEW g \in RunIds, NEW w \in Workers, Panic(g, w)
      PROVE  gen' = gen /\ Unmarked
  BY <1>p DEF Panic, OnlyWorkers
<1>2. ASSUME NEW g \in RunIds, NEW l \in Lanes, ForwarderStep(g, l)
      PROVE  gen' = gen /\ (Unmarked \/ Marks)
  <2>1. CASE Forward(g) \/ ForwardExhausted(g) \/ ForwardHome(g)
    <3>1. g = gen /\ gen' = gen
      BY <2>1 DEF Forward, ForwardExhausted, ForwardHome
    <3> QED BY <2>1, <3>1 DEF Marks
  <2>2. CASE HomeClosed(g)
    <3>1. gen' = gen /\ (g # gen => Unmarked)
      BY <2>2 DEF HomeClosed, HomeLost, LimitedDiscovery
    <3> QED BY <2>2, <3>1 DEF Marks
  <2>3. CASE Discard(g, l) \/ HomeLooks(g) \/ Publish(g, l) \/ Withdraw(g, l) \/ GiveUp(g, l)
    BY <2>3 DEF Discard, HomeLooks, Publish, Withdraw, GiveUp
  <2> QED BY <1>2, <2>1, <2>2, <2>3 DEF ForwarderStep
<1>3. ASSUME NEW c \in Channels, ReportLimit(c)
      PROVE  gen' = gen /\ (Unmarked \/ Marks)
  <2>1. gen' = gen /\ (~IsCurrent(chan[c].seen) => Unmarked)
    BY <1>3 DEF ReportLimit, IsCurrent
  <2> QED BY <1>3, <2>1 DEF Marks
<1>4. ASSUME NEW c \in Channels, Receive(c) \/ CloseReceiver(c)
      PROVE  gen' = gen /\ Unmarked
  BY <1>4 DEF Receive, CloseReceiver
<1>5. Cancel => gen' = gen /\ Marks
  BY DEF Cancel, Marks
<1>6. UNCHANGED vars => gen' = gen /\ Unmarked
  BY DEF vars
<1> QED BY <1>1, <1>p, <1>2, <1>3, <1>4, <1>5, <1>6 DEF Next

\* Nothing happens to the metadata before the first run.
Unstarted == gen = 0 => run = NewRun(FALSE)

LEMMA UnstartedStep ==
  ASSUME Inv, Unstarted, [Next]_vars
  PROVE  Unstarted'
<1> SUFFICES ASSUME gen' = 0 PROVE run' = NewRun(FALSE)
  BY DEF Unstarted
<1>1. gen \in 0..MaxRuns /\ MaxRuns \in Nat
  BY EngineAssumption DEF Inv, TypeInv
<1>2. \A c \in Channels, b \in Separations : ~StartRun(c, b)
  BY <1>1 DEF StartRun
<1>3. gen' = gen /\ (run' = run \/ Marks)
  BY <1>2, MetadataChanges DEF Unmarked
<1>4. ~Cancel /\ gen \notin RunIds
  BY <1>3 DEF Cancel, RunIds
<1>5. ASSUME NEW c \in Channels, ReportLimit(c)
      PROVE  ~IsCurrent(chan[c].seen)
  <2>1. chan[c].seen \in Messages
    BY <1>5 DEF ReportLimit, Inv, TypeInv, ChannelStates
  <2> QED BY <1>4, <2>1 DEF Messages, IsCurrent
<1>6. run' = run
  BY <1>3, <1>4, <1>5 DEF Marks
<1> QED BY <1>3, <1>6 DEF Unstarted

\* A context is reported Complete only if the run earned it, whatever the
\* sections, their dependencies and the order of their events: the walk of
\* the selected root finished with a tree without gaps; for the host, every
\* section finished without gaps, no dependency was missed, and Home discovery
\* is complete.
THEOREM CompletionEarned == Spec => []CompleteIsEarned
<1>1. Inv /\ Unstarted => CompleteIsEarned
  <2> SUFFICES ASSUME Inv, Unstarted PROVE CompleteIsEarned
    OBVIOUS
  <2>1. CASE gen = 0
    <3>1. run.disk.state = "Running" /\ run.host.state = "Running"
      BY <2>1 DEF Unstarted, NewRun, NewContext
    <3> QED BY <3>1 DEF CompleteIsEarned
  <2>2. CASE gen # 0
    <3>1. CurrentInv
      BY <2>2 DEF Inv, TypeInv
    <3>2. ASSUME run.host.state = "Complete"
          PROVE  /\ \A s \in Sections : source[s] = "finished"
                 /\ \A s \in Sections \ {Fs} : sent[s]["finding"] # "gaps"
                 /\ \A s \in Sections : \A d \in Deps[s] : bus[d].valid # Nothing
                 /\ run.disc = "Complete"
      <4>1. /\ \A s \in Sections : source[s] = "finished"
            /\ ~run.auditPartial /\ run.disc = "Complete"
        BY <3>1, <3>2 DEF CurrentInv, CompleteInv
      <4>2. \A s \in Sections \ {Fs} : sent[s]["finding"] # "gaps"
        BY <3>1, <4>1 DEF CurrentInv, HistoryInv
      <4>3. \A s \in Sections : \A d \in Deps[s] : bus[d].valid # Nothing
        BY <3>1, <4>1 DEF CurrentInv, AheadInv, Known
      <4> QED BY <4>1, <4>2, <4>3
    <3>3. run.disk.state = "Complete" => source[Fs] = "finished" /\ sent[Fs]["tree"] = "whole"
      BY <3>1 DEF CurrentInv, CompleteInv
    <3> QED BY <3>2, <3>3 DEF CompleteIsEarned
  <2> QED BY <2>1, <2>2
<1>2. Init => Unstarted
  BY DEF Init, Unstarted
<1>3. Inv /\ Unstarted /\ [Next]_vars => Unstarted'
  BY UnstartedStep
<1> QED BY <1>1, <1>2, <1>3, Invariant, PTL DEF Spec

\* Only what belongs to a run stops it, and a limit that did is in its
\* metadata.
THEOREM StopsAreOwn == Spec => []StopHasOwnCause
<1>1. Inv => StopHasOwnCause
  <2> SUFFICES ASSUME Inv PROVE StopHasOwnCause
    OBVIOUS
  <2>1. CASE gen = 0
    BY <2>1 DEF Inv, TypeInv, StopHasOwnCause
  <2>2. CASE gen # 0
    BY <2>2 DEF Inv, TypeInv, CurrentInv
  <2> QED BY <2>1, <2>2
<1> QED BY <1>1, Invariant, PTL

\* Nothing in the metadata says Running.
AllSettled(r) == "Running" \notin {r.disk.state, r.host.state, r.disc}

LEMMA StandsTwice ==
  ASSUME NEW c, NEW d, NEW e, Stands(c, d), Stands(d, e), d.why \subseteq e.why
  PROVE  Stands(c, e)
BY DEF Stands

LEMMA StoppedStands ==
  ASSUME NEW c \in Contexts
  PROVE  Stands(c, c) /\ Stands(c, Stop(c)) /\ Stands(c, Limit(Stop(c)))
<1> DEFINE d == Stop(c)
           e == Limit(d)
<1>1. d \in Contexts /\ d.state = StateWhenStopped(c)
  BY StoppedContext
<1> HIDE DEF d
<1>2. e.state = "Partial" /\ e.why = d.why \cup {"ResourceLimited"}
  BY <1>1, LimitedContext
<1> HIDE DEF e
<1> QED BY <1>1, <1>2 DEF Stands, StateWhenStopped, d, e

LEMMA MarkedStands ==
  ASSUME NEW r \in Runs, NEW isHost \in BOOLEAN
  PROVE  LET t == MarkLimited(r, isHost)
         IN  Stands(r.disk, t.disk) /\ Stands(r.host, t.host) /\ StaysSettled(r, t)
<1> DEFINE t == MarkLimited(r, isHost)
<1>1. /\ t.disk = IF isHost THEN Stop(r.disk) ELSE Limit(Stop(r.disk))
      /\ t.host = IF isHost THEN Limit(Stop(r.host)) ELSE Stop(r.host)
      /\ t.disc = IF r.disc = "Running" THEN "Cancelled" ELSE r.disc
  BY MarkedRun
<1>2. r.disk \in Contexts /\ r.host \in Contexts
  BY DEF Runs
<1> HIDE DEF t
<1>3. Stands(r.disk, t.disk) /\ Stands(r.host, t.host) /\ StaysSettled(r, t)
  BY <1>1, <1>2, StoppedStands DEF StaysSettled
<1> QED BY <1>3 DEF t

\* As long as a section of a run that was not stopped is open, no verdict has
\* been given that depends on it.
LEMMA OpenUndecided ==
  ASSUME CurrentInv, Consistent(run), gen \notin stopped,
         NEW s \in Sections, source[s] = "open"
  PROVE  run.host.state = "Running" /\ (s = Fs => run.disk.state = "Running")
<1>1. Unhurried(run)
  BY DEF CurrentInv, LiveInv
<1>2. CASE s = Fs
  <2>1. run.primary = "open"
    BY <1>2 DEF CurrentInv, HistoryInv
  <2>2. Fs \notin Ended(run.host)
    BY <2>1 DEF Consistent, HostTells, HostCounts, Ended, WalksOver, WalksGood
  <2> QED BY <1>1, <1>2, <2>1, <2>2 DEF Unhurried
<1>3. CASE s # Fs
  <2>1. s \notin Ended(run.host)
    BY <1>3 DEF CurrentInv, HistoryInv
  <2> QED BY <1>1, <1>3, <2>1 DEF Unhurried
<1> QED BY <1>2, <1>3

\* The event that the forwarder of the sections folds into the metadata.
LEMMA ObservedStands ==
  ASSUME Inv, gen \in RunIds, NEW ev \in SectionEvents, Line # <<>>, Line[1] = ev,
         NEW cut \in BOOLEAN, NEW r, Consistent(r), ~cut => r = run /\ gen \notin stopped
  PROVE  LET t == ObserveRun(r, ev, cut)
         IN  /\ Consistent(t) /\ Learns(r, t)
             /\ Stands(r.disk, t.disk) /\ Stands(r.host, t.host) /\ StaysSettled(r, t)
<1> DEFINE t == ObserveRun(r, ev, cut)
<1>1. ev.sec \in Sections /\ SectionEvent(ev)
  BY DEF SectionEvents, Events, SectionEvent, Kinds
<1>2. /\ Consistent(t) /\ Learns(r, t) /\ StaysSettled(r, t)
      /\ ev.sec # Fs => t.disk = r.disk
      /\ ev.sec = Fs => Decides(r.disk, t.disk, {Fs}, t.diskPartial, cut)
      /\ Decides(r.host, t.host, Sections, t.auditPartial \/ t.discPartial, cut)
  <2> DEFINE b == cut
             e == ev
             m == r
             u == ObserveRun(m, e, b)
  <2>1. Consistent(m) /\ SectionEvent(e) /\ b \in BOOLEAN
    BY <1>1
  <2>2. t = u /\ (b <=> cut) /\ e = ev /\ m = r
    OBVIOUS
  <2> HIDE DEF b, e, m
  <2>3. /\ Consistent(u)
        /\ Sees(m, e, u) /\ Learns(m, u) /\ Discovers(m, e, b, u)
        /\ Counts(m.host, e, u.host)
        /\ e.sec # Fs => u.disk = m.disk
        /\ e.sec = Fs => Decides(m.disk, u.disk, {Fs}, u.diskPartial, b)
        /\ Decides(m.host, u.host, Sections, u.auditPartial \/ u.discPartial, b)
    BY <2>1, RunObserved
  <2> HIDE DEF t, u
  <2>4. StaysSettled(m, u)
    BY <2>3 DEF Discovers, StaysSettled
  <2> QED BY <2>2, <2>3, <2>4 DEF Decides
<1> HIDE DEF t
<1>3. CASE cut
  BY <1>2, <1>3 DEF Decides, Stands, StateWhenStopped, t
<1>4. CASE ~cut
  <2>1. gen > 0 /\ CurrentInv /\ TypeInv
    BY DEF Inv, RunIds
  <2>2. source[ev.sec] = "open"
    <3>1. 1 \in 1..Len(Line)
      BY <2>1 DEF TypeInv, Line, Lanes
    <3> QED BY <1>1, <1>4, <2>1, <3>1, LineIsOpen DEF CurrentInv
  <2>3. r.host.state = "Running" /\ (ev.sec = Fs => r.disk.state = "Running")
    BY <1>1, <1>4, <2>1, <2>2, OpenUndecided
  <2> QED BY <1>2, <2>3 DEF Stands, t
<1> QED BY <1>3, <1>4

\* Home's events, as long as its walk is open.
LEMMA DiscoveryStands ==
  ASSUME Inv, gen \in RunIds, run.separate, run.discovery = "open",
         NEW ev, HomeEvent(ev), run' = ObserveDiscovery(run, ev, gen \in stopped)
  PROVE  /\ Stands(run.disk, run'.disk) /\ Stands(run.host, run'.host)
         /\ StaysSettled(run, run')
         /\ run'.limited => AllSettled(run')
<1> DEFINE cut == gen \in stopped
           t == ObserveDiscovery(run, ev, cut)
<1>1. run' = t /\ cut \in BOOLEAN
  OBVIOUS
<1>2. Consistent(run) /\ CurrentInv
  BY DEF Inv, RunIds
<1>3. ~cut => run.host.state = "Running"
  <2>1. Fs \notin Ended(run.host)
    BY <1>2 DEF Consistent, HostTells, HostCounts, Ended, WalksOver, WalksGood
  <2>2. ~cut => Unhurried(run)
    BY <1>2 DEF CurrentInv, LiveInv
  <2> QED BY <2>1, <2>2, MetadataAssumption DEF Unhurried
<1> HIDE DEF cut
<1>4. /\ StaysSettled(run, t)
      /\ t.limited => /\ "ResourceLimited" \in t.host.why /\ t.host.state = "Partial"
                      /\ t.disk.state = StateWhenStopped(run.disk) /\ t.disc # "Running"
      /\ ~t.limited => /\ t.disk = run.disk
                       /\ Decides(run.host, t.host, Sections,
                                  t.auditPartial \/ t.discPartial, cut)
  BY <1>1, <1>2, DiscoveryObserved
<1> HIDE DEF t
<1>5. CASE t.limited
  BY <1>1, <1>4, <1>5 DEF Stands, StateWhenStopped, AllSettled
<1>6. CASE ~t.limited
  BY <1>1, <1>3, <1>4, <1>6 DEF Stands, StateWhenStopped, Decides
<1> QED BY <1>5, <1>6

LEMMA MarksStand ==
  ASSUME Inv, Marks
  PROVE  /\ Stands(run.disk, run'.disk) /\ Stands(run.host, run'.host)
         /\ StaysSettled(run, run')
<1>1. run \in Runs /\ Consistent(run) /\ run.disk \in Contexts /\ run.host \in Contexts
  BY DEF Inv, Consistent, WalksTell, Runs
<1>2. CASE Cancel
  <2>1. run' = StopContexts(run)
    BY <1>2 DEF Cancel
  <2>2. /\ run'.disk = Stop(run.disk) /\ run'.host = Stop(run.host)
        /\ run'.disc = IF run.disc = "Running" THEN "Cancelled" ELSE run.disc
    BY <1>1, <2>1, StoppedRun
  <2> QED BY <1>1, <2>2, StoppedStands DEF StaysSettled
<1>3. ASSUME NEW c \in Channels, ReportLimit(c), IsCurrent(chan[c].seen)
      PROVE  /\ Stands(run.disk, run'.disk) /\ Stands(run.host, run'.host)
             /\ StaysSettled(run, run')
  <2> DEFINE isHost == chan[c].seen.notice = "host"
  <2>1. run' = MarkLimited(run, isHost) /\ isHost \in BOOLEAN
    BY <1>3 DEF ReportLimit
  <2> HIDE DEF isHost
  <2> QED BY <1>1, <2>1, MarkedStands
<1>4. ASSUME NEW s \in Sections, CommandLimit(gen, s)
      PROVE  /\ Stands(run.disk, run'.disk) /\ Stands(run.host, run'.host)
             /\ StaysSettled(run, run')
  <2> DEFINE yes == TRUE
  <2>1. run' = MarkLimited(run, yes) /\ yes \in BOOLEAN
    BY <1>4 DEF CommandLimit, HaltLimited
  <2> HIDE DEF yes
  <2> QED BY <1>1, <2>1, MarkedStands
<1>5. CASE gen \in RunIds /\ Forward(gen)
  <2> DEFINE ev == Head(Line)
             isLimit == ev.kind = "Failed" /\ ev.val = "limit"
             isHost == ev.sec # Fs
             cut == isLimit \/ gen \in stopped
             r == IF isLimit THEN MarkLimited(run, isHost) ELSE run
             t == ObserveRun(r, ev, cut)
  <2>1. /\ Ready(gen, "sections") /\ Take(gen, "sections") /\ run' = t
    BY <1>5 DEF Forward, Line
  <2>2. ev \in SectionEvents /\ Line # <<>> /\ Line[1] = ev
    BY <1>5, <2>1, LineTaken
  <2> HIDE DEF ev
  <2>3. /\ Consistent(r) /\ Stands(run.disk, r.disk) /\ Stands(run.host, r.host)
        /\ StaysSettled(run, r)
    <3>1. CASE isLimit
      <4>1. r = MarkLimited(run, isHost) /\ isHost \in BOOLEAN
        BY <3>1
      <4> HIDE DEF isLimit, isHost, r
      <4> QED BY <1>1, <4>1, MarkedConsistent, MarkedStands
    <3>2. CASE ~isLimit
      <4>1. r = run
        BY <3>2
      <4> HIDE DEF isLimit, r
      <4> QED BY <1>1, <4>1, StoppedStands DEF StaysSettled
    <3> QED BY <3>1, <3>2
  <2>4. cut \in BOOLEAN /\ (~cut => r = run /\ gen \notin stopped)
    OBVIOUS
  <2> HIDE DEF cut, isLimit, r
  <2>5. Learns(r, t) /\ Stands(r.disk, t.disk) /\ Stands(r.host, t.host) /\ StaysSettled(r, t)
    BY <1>5, <2>2, <2>3, <2>4, ObservedStands
  <2> HIDE DEF t
  <2> QED BY <2>1, <2>3, <2>5, StandsTwice DEF Learns, StaysSettled
<1>6. CASE gen \in RunIds /\ ForwardExhausted(gen)
  <2> DEFINE ev == Head(Line)
             no == FALSE
             isHost == ev.kind = "Finding"
             t == ObserveRun(run, ev, no)
             u == MarkLimited(t, isHost)
  <2>1. /\ Ready(gen, "sections") /\ Take(gen, "sections") /\ gen \notin stopped
        /\ run' = u /\ no \in BOOLEAN /\ isHost \in BOOLEAN
    BY <1>6 DEF ForwardExhausted, Line
  <2>2. ev \in SectionEvents /\ Line # <<>> /\ Line[1] = ev
    BY <1>6, <2>1, LineTaken
  <2> HIDE DEF ev, no, isHost
  <2>3. /\ Consistent(t) /\ Stands(run.disk, t.disk) /\ Stands(run.host, t.host)
        /\ StaysSettled(run, t)
    BY <1>1, <1>6, <2>1, <2>2, ObservedStands
  <2> HIDE DEF t
  <2>4. /\ Stands(t.disk, u.disk) /\ Stands(t.host, u.host) /\ StaysSettled(t, u)
        /\ t.disk.why \subseteq u.disk.why /\ t.host.why \subseteq u.host.why
    <3>1. t \in Runs
      BY <2>3 DEF Consistent, WalksTell
    <3>2. RunKept(t, u)
      BY <2>1, <3>1, MarkedKept
    <3> QED BY <2>1, <3>1, <3>2, MarkedStands DEF RunKept
  <2> HIDE DEF u
  <2> QED BY <2>1, <2>3, <2>4, StandsTwice DEF StaysSettled
<1>7. CASE gen \in RunIds /\ ForwardHome(gen)
  <2> DEFINE ev == Head(queue[gen]["home"])
  <2>1. /\ Ready(gen, "home") /\ Take(gen, "home")
        /\ ev.kind # "Started" => run' = ObserveDiscovery(run, ev, gen \in stopped)
        /\ ev.kind = "Started" => run' = run
    BY <1>7 DEF ForwardHome
  <2>2. ev \in HomeEvents /\ queue[gen]["home"] # <<>>
    BY <1>7, <2>1, HomeTaken
  <2> HIDE DEF ev
  <2>3. CASE ev.kind = "Started"
    BY <1>1, <2>1, <2>3, StoppedStands DEF StaysSettled
  <2>4. CASE ev.kind # "Started"
    <3>1. HomeEvent(ev)
      BY <2>2, <2>4 DEF HomeEvents, HomeEvent
    <3>2. run.separate /\ run.discovery = "open"
      BY <1>7, <2>2 DEF Inv, RunIds, CurrentInv, HomeInv
    <3> QED BY <1>7, <2>1, <2>4, <3>1, <3>2, DiscoveryStands
  <2> QED BY <2>3, <2>4
<1>8. CASE gen \in RunIds /\ HomeClosed(gen)
  <2> DEFINE lost == Event(Fs, "Failed", IF gen \in stopped THEN "cancelled" ELSE "error")
  <2>1. /\ gen \in awaited
        /\ run.discovery = "open" => run' = ObserveDiscovery(run, lost, gen \in stopped)
        /\ run.discovery # "open" => run' = run
    BY <1>8 DEF HomeClosed, HomeLost
  <2>2. HomeEvent(lost)
    BY DEF Event, HomeEvent
  <2> HIDE DEF lost
  <2>3. run.separate
    BY <1>8, <2>1 DEF Inv, RunIds, CurrentInv, HomeInv
  <2>4. CASE run.discovery # "open"
    BY <1>1, <2>1, <2>4, StoppedStands DEF StaysSettled
  <2>5. CASE run.discovery = "open"
    BY <1>8, <2>1, <2>2, <2>3, <2>5, DiscoveryStands
  <2> QED BY <2>4, <2>5
<1> QED BY <1>2, <1>3, <1>4, <1>5, <1>6, <1>7, <1>8 DEF Marks

\* A verdict once given stands until the next run, except that a resource
\* limit makes it Partial and says so: no late event, no cancellation and no
\* ending of Home takes it back.
THEOREM VerdictsStand == Spec => VerdictStands
<1>1. ASSUME Inv, [Next]_vars
      PROVE  [\A c \in {"disk", "host"} :
                gen' = gen /\ run[c].state # "Running" /\ run'[c].state # run[c].state =>
                  run'[c].state = "Partial" /\ "ResourceLimited" \in run'[c].why]_vars
  <2> SUFFICES ASSUME gen' = gen
               PROVE  \A c \in {"disk", "host"} :
                        run[c].state # "Running" /\ run'[c].state # run[c].state =>
                          run'[c].state = "Partial" /\ "ResourceLimited" \in run'[c].why
    OBVIOUS
  <2>1. gen \in 0..MaxRuns
    BY <1>1 DEF Inv, TypeInv
  <2>2. \A c \in Channels, b \in Separations : ~StartRun(c, b)
    BY <2>1 DEF StartRun
  <2>3. run' = run \/ Marks
    BY <1>1, <2>2, MetadataChanges DEF Unmarked
  <2>4. run.disk \in Contexts /\ run.host \in Contexts
    BY <1>1 DEF Inv, Consistent, WalksTell, Runs
  <2>5. Stands(run.disk, run'.disk) /\ Stands(run.host, run'.host)
    BY <1>1, <2>3, <2>4, StoppedStands, MarksStand
  <2> QED BY <2>5 DEF Stands
<1> QED BY <1>1, Invariant, PTL DEF Spec, VerdictStands

-----------------------------------------------------------------------------
(* The metadata of a run whose tasks are gone.                             *)

LEMMA MarkedSettled ==
  ASSUME NEW r \in Runs, NEW isHost \in BOOLEAN
  PROVE  AllSettled(MarkLimited(r, isHost)) /\ AllSettled(StopContexts(r))
<1> DEFINE t == MarkLimited(r, isHost)
           u == StopContexts(r)
<1>1. /\ t.disk = IF isHost THEN Stop(r.disk) ELSE Limit(Stop(r.disk))
      /\ t.host = IF isHost THEN Limit(Stop(r.host)) ELSE Stop(r.host)
      /\ t.disc = IF r.disc = "Running" THEN "Cancelled" ELSE r.disc
  BY MarkedRun
<1>2. /\ u.disk = Stop(r.disk) /\ u.host = Stop(r.host)
      /\ u.disc = IF r.disc = "Running" THEN "Cancelled" ELSE r.disc
  BY StoppedRun
<1> HIDE DEF t, u
<1>3. ASSUME NEW c \in Contexts
      PROVE  Stop(c).state # "Running" /\ Limit(Stop(c)).state # "Running"
  <2> DEFINE d == Stop(c)
  <2>1. d \in Contexts /\ d.state = StateWhenStopped(c)
    BY StoppedContext
  <2> HIDE DEF d
  <2>2. Limit(d).state = "Partial"
    BY <2>1, LimitedContext
  <2> QED BY <2>1, <2>2 DEF StateWhenStopped, d
<1>4. r.disk \in Contexts /\ r.host \in Contexts
  BY DEF Runs
<1> QED BY <1>1, <1>2, <1>3, <1>4 DEF AllSettled, t, u

LEMMA SettledStays ==
  ASSUME NEW r, NEW t, AllSettled(r), Stands(r.disk, t.disk), Stands(r.host, t.host),
         StaysSettled(r, t)
  PROVE  AllSettled(t)
BY DEF AllSettled, Stands, StaysSettled

\* A user or a limit that stops the run leaves nothing Running in it.
LEMMA StopsSettle ==
  ASSUME Inv, Marks, cause' # cause
  PROVE  AllSettled(run')
<1>1. run \in Runs /\ Consistent(run)
  BY DEF Inv, Consistent, WalksTell
<1> DEFINE yes == TRUE
<1>y. yes \in BOOLEAN
  OBVIOUS
<1> HIDE DEF yes
<1>2. CASE Cancel
  BY <1>1, <1>y, <1>2, MarkedSettled DEF Cancel
<1>3. ASSUME NEW c \in Channels, ReportLimit(c), IsCurrent(chan[c].seen)
      PROVE  AllSettled(run')
  <2> DEFINE isHost == chan[c].seen.notice = "host"
  <2>1. run' = MarkLimited(run, isHost) /\ isHost \in BOOLEAN
    BY <1>3 DEF ReportLimit
  <2> HIDE DEF isHost
  <2> QED BY <1>1, <2>1, MarkedSettled
<1>4. ASSUME NEW s \in Sections, CommandLimit(gen, s)
      PROVE  AllSettled(run')
  <2>1. run' = MarkLimited(run, yes)
    BY <1>4 DEF CommandLimit, HaltLimited, yes
  <2> QED BY <1>1, <1>y, <2>1, MarkedSettled
<1>5. CASE gen \in RunIds /\ Forward(gen)
  <2> DEFINE ev == Head(Line)
             isHost == ev.sec # Fs
             r == MarkLimited(run, isHost)
             t == ObserveRun(r, ev, yes)
  <2>1. /\ Ready(gen, "sections") /\ Take(gen, "sections")
        /\ run' = t /\ isHost \in BOOLEAN
    BY <1>5 DEF Forward, Line, yes
  <2>2. ev \in SectionEvents /\ Line # <<>> /\ Line[1] = ev
    BY <1>5, <2>1, LineTaken
  <2> HIDE DEF ev, isHost
  <2>3. Consistent(r) /\ AllSettled(r)
    BY <1>1, <2>1, MarkedConsistent, MarkedSettled
  <2> HIDE DEF r
  <2>4. Stands(r.disk, t.disk) /\ Stands(r.host, t.host) /\ StaysSettled(r, t)
    <3>1. ~yes => r = run /\ gen \notin stopped
      BY DEF yes
    <3> QED BY <1>5, <1>y, <2>2, <2>3, <3>1, ObservedStands
  <2> HIDE DEF t
  <2> QED BY <2>1, <2>3, <2>4, SettledStays
<1>6. CASE gen \in RunIds /\ ForwardExhausted(gen)
  <2> DEFINE ev == Head(Line)
             no == FALSE
             isHost == ev.kind = "Finding"
             t == ObserveRun(run, ev, no)
  <2>1. /\ Ready(gen, "sections") /\ Take(gen, "sections") /\ gen \notin stopped
        /\ run' = MarkLimited(t, isHost) /\ no \in BOOLEAN /\ isHost \in BOOLEAN
    BY <1>6 DEF ForwardExhausted, Line
  <2>2. ev \in SectionEvents /\ Line # <<>> /\ Line[1] = ev
    BY <1>6, <2>1, LineTaken
  <2> HIDE DEF ev, no, isHost
  <2>3. Consistent(t)
    BY <1>1, <1>6, <2>1, <2>2, ObservedStands
  <2> HIDE DEF t
  <2> QED BY <2>1, <2>3, MarkedSettled DEF Consistent, WalksTell
<1>7. CASE gen \in RunIds /\ ForwardHome(gen)
  <2> DEFINE ev == Head(queue[gen]["home"])
  <2>1. /\ Ready(gen, "home") /\ Take(gen, "home")
        /\ ev.kind # "Started" /\ run' = ObserveDiscovery(run, ev, gen \in stopped)
        /\ run'.limited
    BY <1>7 DEF ForwardHome, LimitedDiscovery
  <2>2. ev \in HomeEvents /\ queue[gen]["home"] # <<>>
    BY <1>7, <2>1, HomeTaken
  <2> HIDE DEF ev
  <2>3. HomeEvent(ev)
    BY <2>1, <2>2 DEF HomeEvents, HomeEvent
  <2>4. run.separate /\ run.discovery = "open"
    BY <1>7, <2>2 DEF Inv, RunIds, CurrentInv, HomeInv
  <2> QED BY <1>7, <2>1, <2>3, <2>4, DiscoveryStands
<1>8. CASE gen \in RunIds /\ HomeClosed(gen)
  <2> DEFINE lost == Event(Fs, "Failed", IF gen \in stopped THEN "cancelled" ELSE "error")
  <2>1. /\ gen \in awaited /\ run.discovery = "open"
        /\ run' = ObserveDiscovery(run, lost, gen \in stopped) /\ run'.limited
    BY <1>8 DEF HomeClosed, HomeLost, LimitedDiscovery
  <2>2. HomeEvent(lost)
    BY DEF Event, HomeEvent
  <2> HIDE DEF lost
  <2>3. run.separate
    BY <1>8, <2>1 DEF Inv, RunIds, CurrentInv, HomeInv
  <2> QED BY <1>8, <2>1, <2>2, <2>3, DiscoveryStands
<1> QED BY <1>2, <1>3, <1>4, <1>5, <1>6, <1>7, <1>8 DEF Marks

\* The metadata of a run that a user or a limit stopped.
Halted == cause # {} => AllSettled(run)

LEMMA HaltedStep ==
  ASSUME Inv, Halted, [Next]_vars
  PROVE  Halted'
<1>1. ASSUME NEW c \in Channels, NEW b \in Separations, StartRun(c, b)
      PROVE  Halted'
  BY <1>1 DEF StartRun, Halted
<1>2. CASE Unmarked
  BY <1>2 DEF Unmarked, Halted, AllSettled
<1>3. CASE Marks /\ cause' # cause
  BY <1>3, StopsSettle DEF Halted
<1>4. CASE Marks /\ cause' = cause
  BY <1>4, MarksStand, SettledStays DEF Halted
<1> QED BY <1>1, <1>2, <1>3, <1>4, MetadataChanges

\* A worker that is out and did not die has sent its ending.
LEMMA RetiredEnded ==
  ASSUME Inv, gen > 0, Retired(gen), NEW s \in Sections \ Mute
  PROVE  /\ source[s] \in {"finished", "failed"}
         /\ gen \notin stopped => s \in told
<1>1. CurrentInv
  BY DEF Inv
<1>2. s \in Workers /\ At(s).pc = "gone" /\ Line = <<>> /\ hold[gen]["sections"] = Nothing
  BY DEF Retired, IsOut, Died, Mute, Workers, At, Line, Lanes
<1>3. ~Ending(s)
  BY <1>2 DEF Ending
<1>4. s # Nothing
  BY TagAssumption DEF Notices
<1> QED BY <1>1, <1>2, <1>3, <1>4 DEF CurrentInv, EndsInv

\* Once the tasks of the current run are gone its metadata says Running only
\* of what a section whose worker died had to end, of Home never if it was
\* walked separately, and of nothing if the user or a limit stopped the run:
\* whatever order events, failures, deaths and cancellations came in.
THEOREM RetiredRunIsSettled == Spec => []RetiredIsSettled
<1>1. Inv /\ Halted => RetiredIsSettled
  <2> SUFFICES ASSUME Inv, Halted, gen > 0, Retired(gen)
               PROVE  /\ run.disk.state = "Running" => Fs \in Mute
                      /\ run.disc = "Running" => Fs \in Mute /\ ~run.separate
                      /\ run.host.state = "Running" => Mute # {}
                      /\ cause # {} => "Running" \notin {run.disk.state, run.host.state, run.disc}
    BY DEF RetiredIsSettled
  <2>1. CurrentInv /\ Consistent(run)
    BY DEF Inv
  <2>2. \A s \in Sections \ Mute : source[s] \in {"finished", "failed"}
    BY RetiredEnded
  <2>3. Fs \notin Mute => run.primary # "open"
    <3>1. CASE source[Fs] = "finished"
      BY <2>1, <3>1 DEF CurrentInv, HistoryInv
    <3>2. CASE source[Fs] = "failed"
      BY <2>1, <3>2 DEF CurrentInv, HistoryInv
    <3> QED BY <2>2, <3>1, <3>2, MetadataAssumption
  <2>4. run.separate \/ Fs \notin Mute => run.discovery # "open"
    <3>1. gen \notin awaited
      BY DEF Retired
    <3> QED BY <2>1, <2>3, <3>1 DEF CurrentInv, HomeInv, Consistent, WalksTell
  <2>5. /\ Fs \notin Mute => run.disk.state # "Running"
        /\ run.separate \/ Fs \notin Mute => run.disc # "Running"
    BY <2>1, <2>3, <2>4 DEF Consistent, DiskTells, WalksTell
  <2>6. Mute = {} => Ended(run.host) = Sections
    <3> SUFFICES ASSUME Mute = {} PROVE Ended(run.host) = Sections
      OBVIOUS
    <3>1. \A s \in Sections \ {Fs} : s \in Ended(run.host)
      BY <2>1, <2>2 DEF CurrentInv, HistoryInv
    <3>2. Fs \in Ended(run.host)
      BY <2>1, <2>3, <2>4 DEF Consistent, HostTells, HostCounts, Ended, WalksOver
    <3>3. Ended(run.host) \subseteq Sections
      BY <2>1 DEF Consistent, WalksTell, Runs, Contexts, Ended
    <3> QED BY <3>1, <3>2, <3>3
  <2>7. Mute = {} => run.host.state # "Running"
    BY <2>1, <2>6 DEF Consistent, HostTells
  <2> QED BY <2>5, <2>7 DEF Halted, AllSettled
<1>2. Init => Halted
  BY DEF Init, Halted
<1>3. Inv /\ Halted /\ [Next]_vars => Halted'
  BY HaltedStep
<1> QED BY <1>1, <1>2, <1>3, Invariant, PTL DEF Spec

\* The receiver of a run that was not stopped has been sent the ending of
\* every section whose worker did not die by the time the run's tasks are
\* gone.
THEOREM EndingsArrive == Spec => []NoEndingLost
<1>1. Inv => NoEndingLost
  <2> SUFFICES ASSUME Inv, gen > 0, Retired(gen), gen \notin stopped
               PROVE  \A s \in Sections \ Mute : s \in told
    BY DEF NoEndingLost
  <2> QED BY RetiredEnded
<1> QED BY <1>1, Invariant, PTL

-----------------------------------------------------------------------------
(* The engine implements the environment of its bus.                       *)

\* Nobody waits on this instance of the bus: its notifications reach nobody.
LEMMA NobodyNotified == Bus!NotifyWaiters
BY DEF Bus!NotifyWaiters

BusStep == [Bus!Next]_(Bus!vars)

LEMMA BusRests ==
  ASSUME UNCHANGED <<gen, stopped, bus, source, sent>>
  PROVE  BusStep
BY DEF BusStep, Bus!vars

LEMMA BusStopped ==
  ASSUME NEW g \in 1..gen, gen \in 0..MaxRuns, stopped' = stopped \cup {g},
         bus' = Bus!Cancelled(bus, g) \/ bus' = bus,
         UNCHANGED <<gen, source, sent>>
  PROVE  BusStep
<1>1. g \in Bus!Gens /\ g <= gen
  BY EngineAssumption DEF Bus!Gens
<1>2. CASE bus' = bus
  <2>1. Bus!CancelToken(g)
    BY <1>1, <1>2 DEF Bus!CancelToken
  <2> QED BY <1>1, <2>1 DEF BusStep, Bus!Next
<1>3. CASE bus' = Bus!Cancelled(bus, g)
  <2>1. Bus!CancelGeneration(g)
    BY <1>1, <1>3, NobodyNotified DEF Bus!CancelGeneration
  <2> QED BY <1>1, <2>1 DEF BusStep, Bus!Next
<1> QED BY <1>2, <1>3

\* The forwarder of the sections feeds the bus what it expects: items before
\* the end of their section, one success at most, none after a failure.
LEMMA ForwardFeedsBus ==
  ASSUME Inv, NEW g \in RunIds, Forward(g)
  PROVE  BusStep
<1> DEFINE ev == Head(Line)
           s == ev.sec
           k == KeyOf(ev)
           isLimit == ev.kind = "Failed" /\ ev.val = "limit"
           stop == isLimit \/ gen \in stopped
<1>1. /\ gen \in RunIds /\ g = gen /\ Ready(gen, "sections") /\ Take(gen, "sections")
      /\ stopped' = IF isLimit THEN stopped \cup {gen} ELSE stopped
      /\ bus' = BusHears(ev, stop)
      /\ sent' = IF BusItem(ev) THEN [sent EXCEPT ![s][k] = ev.val] ELSE sent
      /\ source' = CASE ev.kind = "Finished" -> [source EXCEPT ![s] = "finished"]
                     [] ev.kind = "Failed" -> [source EXCEPT ![s] = "failed"]
                     [] OTHER -> source
      /\ gen' = gen
  BY DEF Forward, Line
<1>2. ev \in SectionEvents /\ s \in Sections /\ Line # <<>> /\ Line[1] = ev
  BY <1>1, LineTaken
<1> HIDE DEF ev
<1>3. /\ gen > 0 /\ gen \in Bus!Gens /\ gen <= gen /\ CurrentInv /\ TypeInv
      /\ bus[s].gen = gen
  BY <1>1, <1>2 DEF Inv, TypeInv, RunIds, BusInv, Bus!Gens
<1>4. source[s] \in {"open", "failed"} /\ (ev.kind = "Finished" => source[s] = "open")
  <2>1. 1 \in 1..Len(Line)
    BY <1>1, <1>2 DEF Inv, TypeInv, Line, Lanes
  <2> QED BY <1>2, <1>3, <2>1, LineIsOpen DEF CurrentInv
<1>5. CASE BusItem(ev)
  <2>1. ev.kind \notin {"Finished", "Failed"} /\ k \in Keys /\ ev.val \in Qualities
    BY <1>2, <1>5 DEF BusItem, KeyOf, Keys, SectionEvents
  <2>2. bus' = Bus!Heard(bus, s, gen, Bus!AfterItem(bus[s], k, ev.val, gen \in stopped))
    <3>1. stop = (gen \in stopped)
      BY <2>1
    <3> HIDE DEF stop, k
    <3>2. bus' = [bus EXCEPT ![s] = Bus!AfterItem(bus[s], KeyOf(ev), ev.val, stop)]
      BY <1>1, <1>5, <2>1 DEF BusHears, BusItem
    <3> QED BY <1>3, <3>1, <3>2 DEF Bus!Heard, k
  <2>3. Bus!ObserveItem(s, gen, k, ev.val)
    BY <1>1, <1>3, <1>4, <1>5, <2>1, <2>2 DEF Bus!ObserveItem
  <2> HIDE DEF s, k
  <2> QED BY <1>2, <1>3, <2>1, <2>3 DEF BusStep, Bus!Next
<1>6. CASE ev.kind = "Finished"
  <2>1. ~BusItem(ev) /\ ~isLimit
    BY <1>6 DEF BusItem
  <2>2. bus' = Bus!Heard(bus, s, gen, Bus!AfterFinished(bus[s], gen \in stopped))
    <3>1. stop = (gen \in stopped)
      BY <2>1
    <3> HIDE DEF stop
    <3>2. bus' = [bus EXCEPT ![s] = Bus!AfterFinished(bus[s], stop)]
      BY <1>1, <1>6, <2>1 DEF BusHears
    <3> QED BY <1>3, <3>1, <3>2 DEF Bus!Heard
  <2>3. Bus!ObserveFinished(s, gen)
    BY <1>1, <1>3, <1>4, <1>6, <2>1, <2>2, NobodyNotified DEF Bus!ObserveFinished
  <2> HIDE DEF s
  <2> QED BY <1>2, <1>3, <2>3 DEF BusStep, Bus!Next
<1>7. CASE ev.kind = "Failed"
  <2>1. ~BusItem(ev)
    BY <1>7 DEF BusItem
  <2>2. bus' = Bus!Heard(bus, s, gen, Bus!Silenced(bus[s]))
    <3>1. bus' = [bus EXCEPT ![s] = Bus!Silenced(bus[s])]
      BY <1>1, <1>7, <2>1 DEF BusHears
    <3> QED BY <1>3, <3>1 DEF Bus!Heard
  <2>3. stopped' \in {stopped, stopped \cup {gen}}
    BY <1>1
  <2>4. source' = [source EXCEPT ![s] = "failed"] /\ sent' = sent
    BY <1>1, <1>7, <2>1
  <2>5. Bus!ObserveFailed(s, gen)
    BY <1>1, <1>3, <1>4, <2>2, <2>3, <2>4, NobodyNotified DEF Bus!ObserveFailed
  <2> HIDE DEF s
  <2> QED BY <1>2, <1>3, <2>5 DEF BusStep, Bus!Next
<1>8. CASE ~BusItem(ev) /\ ev.kind \notin {"Finished", "Failed"}
  <2>1. bus' = bus /\ ~isLimit
    BY <1>1, <1>8 DEF BusHears
  <2> QED BY <1>1, <1>8, <2>1, BusRests
<1> QED BY <1>5, <1>6, <1>7, <1>8

LEMMA WorkersFeedBus ==
  ASSUME Inv, NEW g \in RunIds, NEW w \in Workers, WorkerStep(g, w)
  PROVE  BusStep
<1>1. CASE w \in Sections /\ CommandLimit(g, w)
  <2>1. worker[g][w].pc = "scan"
    BY <1>1 DEF CommandLimit, Scanning
  <2>2. g \in 1..gen /\ gen \in 0..MaxRuns
    <3>1. ~(g > gen)
      BY <2>1 DEF Inv, RunsInv, Gone
    <3> QED BY <3>1 DEF Inv, TypeInv, RunIds
  <2>3. /\ stopped' = stopped \cup {g} /\ bus' = Bus!Cancelled(bus, g)
        /\ UNCHANGED <<gen, source, sent>>
    BY <1>1 DEF CommandLimit, HaltLimited, HaltBus
  <2> QED BY <2>2, <2>3, BusStopped
<1>2. CASE ~(w \in Sections /\ CommandLimit(g, w))
  <2>1. OnlyWorkers
    BY <1>2 DEF WorkerStep, Snapshot, WalkDone, HomeWalked, Find, Attribute, End,
       Send, Drop
  <2> QED BY <2>1, BusRests DEF OnlyWorkers
<1> QED BY <1>1, <1>2

LEMMA ForwardersFeedBus ==
  ASSUME Inv, NEW g \in RunIds, NEW l \in Lanes, ForwarderStep(g, l)
  PROVE  BusStep
<1>0. gen \in 0..MaxRuns /\ (hold[g][l] # Nothing => g \in 1..gen)
      /\ (g = gen => g \in 1..gen)
  BY HeldBy DEF Inv, TypeInv, RunIds
<1>1. CASE Forward(g)
  BY <1>1, ForwardFeedsBus
<1>2. CASE ForwardExhausted(g)
  <2>1. /\ g = gen /\ stopped' = stopped \cup {g} /\ bus' = Bus!Cancelled(bus, g)
        /\ UNCHANGED <<gen, source, sent>>
    BY <1>2 DEF ForwardExhausted, HaltBus
  <2> QED BY <1>0, <2>1, BusStopped
<1>3. CASE ForwardHome(g) \/ (HomeClosed(g) /\ g = gen)
  <2>1. g = gen /\ UNCHANGED <<gen, bus, source, sent>>
        /\ (stopped' = stopped \/ stopped' = stopped \cup {g})
    BY <1>3 DEF ForwardHome, HomeClosed, LimitedDiscovery
  <2> QED BY <1>0, <2>1, BusStopped, BusRests
<1>4. CASE HomeClosed(g) /\ g # gen
  BY <1>4, BusRests DEF HomeClosed, HomeLost, LimitedDiscovery
<1>5. CASE l = "home" /\ HomeLooks(g)
  <2>1. /\ g \in 1..gen /\ UNCHANGED <<gen, stopped, source, sent>>
        /\ bus' = IF g \in stopped THEN Bus!Cancelled(bus, g) ELSE bus
    BY <1>0, <1>5, TagAssumption DEF HomeLooks
  <2>2. CASE g \in stopped
    <3>1. stopped' = stopped \cup {g} /\ bus' = Bus!Cancelled(bus, g)
      BY <2>1, <2>2
    <3> QED BY <1>0, <2>1, <3>1, BusStopped
  <2>3. CASE g \notin stopped
    BY <2>1, <2>3, BusRests
  <2> QED BY <2>2, <2>3
<1>6. CASE Discard(g, l) \/ Publish(g, l)
  BY <1>6, BusRests DEF Discard, Publish
<1>7. CASE Withdraw(g, l)
  <2>1. /\ g \in 1..gen /\ stopped' = stopped \cup {g} /\ UNCHANGED <<gen, bus, source, sent>>
    BY <1>0, <1>7, TagAssumption DEF Withdraw, Publishing
  <2> QED BY <1>0, <2>1, BusStopped
<1>8. CASE GiveUp(g, l)
  <2>1. /\ g \in 1..gen /\ g \in stopped /\ bus' = Bus!Cancelled(bus, g)
        /\ UNCHANGED <<gen, stopped, source, sent>>
    BY <1>0, <1>8, TagAssumption DEF GiveUp, Publishing, Congested, Inv, WorkersInv
  <2>2. stopped' = stopped \cup {g}
    BY <2>1
  <2> QED BY <1>0, <2>1, <2>2, BusStopped
<1> QED BY <1>1, <1>2, <1>3, <1>4, <1>5, <1>6, <1>7, <1>8 DEF ForwarderStep

LEMMA UsersFeedBus ==
  ASSUME Inv, NEW c \in Channels,
         \/ \E b \in Separations : StartRun(c, b)
         \/ Receive(c) \/ ReportLimit(c) \/ CloseReceiver(c)
  PROVE  BusStep
<1>0. gen \in 0..MaxRuns
  BY DEF Inv, TypeInv
<1>1. ASSUME NEW b \in Separations, StartRun(c, b)
      PROVE  BusStep
  <2>1. Bus!Begin
    BY <1>1, NobodyNotified DEF StartRun, Bus!Begin
  <2> QED BY <2>1 DEF BusStep, Bus!Next
<1>2. CASE Receive(c) \/ CloseReceiver(c)
  BY <1>2, BusRests DEF Receive, CloseReceiver
<1>3. CASE ReportLimit(c)
  <2>1. chan[c].seen \in Messages
    BY <1>3 DEF ReportLimit, Inv, TypeInv, ChannelStates
  <2>2. CASE IsCurrent(chan[c].seen)
    <3>1. /\ stopped' = stopped \cup {gen} /\ bus' = Bus!Cancelled(bus, gen)
          /\ UNCHANGED <<gen, source, sent>>
      BY <1>3, <2>2 DEF ReportLimit, HaltBus
    <3>2. gen \in 1..gen
      BY <1>0, <2>1, <2>2 DEF Messages, RunIds, IsCurrent
    <3> QED BY <1>0, <3>1, <3>2, BusStopped
  <2>3. CASE ~IsCurrent(chan[c].seen)
    BY <1>3, <2>3, BusRests DEF ReportLimit
  <2> QED BY <2>2, <2>3
<1> QED BY <1>1, <1>2, <1>3

\* Every step of the engine is a step of the environment that ScanBus
\* assumes, or leaves the bus alone: what is proved of snapshots in ScanBus
\* holds of the engine's bus.
THEOREM EngineFeedsBus == Spec => BusSpec
<1>1. Init => Bus!Init
  BY DEF Init, Bus!Init, Bus!Registered, Bus!NoItems
<1>2. ASSUME Inv, [Next]_vars
      PROVE  BusStep
  <2>1. CASE Cancel
    <3>1. /\ gen \in 1..gen /\ gen \in 0..MaxRuns
          /\ stopped' = stopped \cup {gen} /\ bus' = Bus!Cancelled(bus, gen)
          /\ UNCHANGED <<gen, source, sent>>
      BY <1>2, <2>1 DEF Cancel, HaltBus, Inv, TypeInv
    <3> QED BY <3>1, BusStopped
  <2>2. CASE UNCHANGED vars
    BY <2>2, BusRests DEF vars
  <2>3. CASE \E g \in RunIds, w \in Workers : WorkerStep(g, w) \/ Panic(g, w)
    BY <1>2, <2>3, WorkersFeedBus, BusRests DEF Panic, OnlyWorkers
  <2>4. CASE \E g \in RunIds, l \in Lanes : ForwarderStep(g, l)
    BY <1>2, <2>4, ForwardersFeedBus
  <2>5. CASE \E c \in Channels :
               \/ \E isSeparate \in Separations : StartRun(c, isSeparate)
               \/ Receive(c) \/ ReportLimit(c) \/ CloseReceiver(c)
    BY <1>2, <2>5, UsersFeedBus
  <2> QED BY <1>2, <2>1, <2>2, <2>3, <2>4, <2>5 DEF Next
<1> QED BY <1>1, <1>2, Invariant, PTL DEF Spec, BusSpec, Bus!Spec, BusStep
=============================================================================
