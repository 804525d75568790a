---------------------------- MODULE CleanupBatch ----------------------------
(***************************************************************************)
(* One batch of cleanup actions (src/src/cleanup.rs), from the dialog that *)
(* shows it to its report.  The planned actions pass a first preflight     *)
(* against the findings on screen; the user confirms; then the batch       *)
(* checks them again, reads Homebrew's graph, and runs what is left one    *)
(* action after the other.  At the end it reads the graph again and says   *)
(* which packages are gone.                                                *)
(*                                                                         *)
(* All that time the machine changes under the batch: packages come and    *)
(* go, targets are replaced, commands fail half way, and the user may ask  *)
(* the batch to stop.                                                      *)
(*                                                                         *)
(* Abstracted: a physical target (path, device, inode, ...) is the action  *)
(* that names it, and the targets that are no longer what they were form   *)
(* the set changed; names of packages are unique and numbered in their     *)
(* lexical order; inventories, probes and wording are left out.            *)
(***************************************************************************)
EXTENDS Integers, FiniteSets, Sequences

CONSTANTS
  Packages,      \* Homebrew's formulas and casks, numbered in lexical order
  Needs,         \* <<d, p>>: package d, if installed, depends on p
  Plan,          \* the planned actions, in the order they are planned:
                 \* the remedy of a finding, and whether it deletes its path
  Clash,         \* <<a, b>>: two actions whose physical targets overlap
  MaxSurprises   \* bound on what the world does to the targets meanwhile

Kinds == {"brew", "tool", "launcher", "plain", "autoremove", "aside"}

NoPackage == 0

ASSUME PackageAssumption ==
  /\ Packages \subseteq Nat \ {NoPackage}
  /\ IsFiniteSet(Packages)
  /\ Needs \subseteq Packages \X Packages

Actions == 1..Len(Plan)

\* Asides (copy, reveal, probe) are not destructive: they have no target.
Destructive == {a \in Actions : Plan[a].kind # "aside"}

ASSUME PlanAssumption ==
  /\ Plan \in Seq([kind : Kinds, finding : Nat, deletes : BOOLEAN, owner : Nat,
                   command : Nat, package : Packages \cup {NoPackage}])
  /\ \A a \in Actions : Plan[a].kind = "brew" <=> Plan[a].package \in Packages
  /\ Clash \subseteq Destructive \X Destructive
  /\ MaxSurprises \in Nat

VARIABLES
  installed,   \* the packages on the machine
  scanned,     \* the packages the findings on screen tell of
  arrived,     \* those installed anew since the batch read the graph
  changed,     \* actions whose target is not what the dialog captured
  surprises,   \* how often the world intervened
  stop,        \* the user asked the batch to stop
  pc,          \* where the batch is
  ok,          \* the actions that passed the last preflight
  waiting,     \* those the loop has not come to
  current,     \* the action announced or running, 0 when none is
  executed, failed, cancelled, refused,   \* what became of the others
  failedKeys,  \* owners none of whose actions may run any more
  removedBrew, \* packages the batch uninstalled
  brewTouched, \* an uninstall of a package succeeded
  before,      \* Homebrew's graph before the loop
  after,       \* and after it
  verdicts     \* what the report says of each package of the batch

machine == <<installed, scanned, arrived, changed, surprises>>
outcome == <<executed, failed, cancelled, refused>>
books == <<failedKeys, removedBrew, brewTouched>>
report == <<after, verdicts>>
vars == <<machine, stop, pc, ok, waiting, current, outcome, books, before,
          report>>

-----------------------------------------------------------------------------
(* The planned actions.                                                    *)

Brew(a) == Plan[a].kind = "brew"
Owner(a) == Plan[a].owner
SameFinding(a, b) == Plan[a].finding = Plan[b].finding
BothDelete(a, b) == Plan[a].deletes /\ Plan[b].deletes
Targets(as) == {Plan[a].package : a \in {b \in as : Brew(b)}}

\* Actions that nothing but their physical target protects have no Guard.
Guarded(a) == Plan[a].kind \in {"brew", "tool", "launcher"}

Phase(a) ==
  CASE Plan[a].kind = "brew"       -> 0
    [] Plan[a].kind = "tool"       -> 1
    [] Plan[a].kind = "launcher"   -> 2
    [] Plan[a].kind = "plain"      -> 3
    [] Plan[a].kind = "autoremove" -> 4
    [] Plan[a].kind = "aside"      -> 5

-----------------------------------------------------------------------------
(* Homebrew's graph, as a set of installed packages.                       *)

Dependents(p, graph) == {d \in graph : <<d, p>> \in Needs}

\* filter_brew_dependencies: what is left of a selection once every package
\* that something outside of what is left still needs has been refused.
Removable(selected, graph) ==
  UNION {s \in SUBSET (selected \cap graph) :
           \A p \in s : Dependents(p, graph) \subseteq s}

\* Mistaken variant: packages come before what depends on them.
ReadyUpward(remaining) ==
  LET free == {p \in remaining : \A q \in remaining : <<p, q>> \notin Needs}
  IN IF free # {} \/ remaining = {}
       THEN free
       ELSE {CHOOSE p \in remaining : \A q \in remaining : p <= q}

\* Packages nothing that remains depends on; a cycle is broken at its first.
Ready(remaining) ==
  LET free == {p \in remaining : Dependents(p, remaining) = {}}
  IN IF free # {} \/ remaining = {}
       THEN free
       ELSE {CHOOSE p \in remaining : \A q \in remaining : p <= q}

\* The round of removal_preview's ordering that takes a package out.
Round(p, removing) ==
  LET left[n \in Nat] ==
        IF n = 0 THEN removing ELSE left[n - 1] \ Ready(left[n - 1])
  IN Cardinality({n \in 0..Cardinality(removing) : p \in left[n]})

\* Does order_actions put a before b?  By phase, by the preview's order, and
\* as planned.
Precedes(a, b) ==
  LET ra == Round(Plan[a].package, Targets(ok))
      rb == Round(Plan[b].package, Targets(ok))
      sameBrew == Brew(a) /\ Brew(b)
  IN \/ Phase(a) < Phase(b)
     \/ /\ Phase(a) = Phase(b)
        /\ \/ sameBrew /\ ra < rb
           \/ sameBrew /\ ra = rb /\ Plan[a].package < Plan[b].package
           \/ (sameBrew => Plan[a].package = Plan[b].package) /\ a < b

Turn(a) == a \in waiting /\ \A b \in waiting \ {a} : Precedes(a, b)

Unread == [read |-> FALSE, packages |-> {}]
Graphs == [read : BOOLEAN, packages : SUBSET Packages]
Consistent == {s \in SUBSET Packages :
                 \A e \in Needs : e[1] \in s => e[2] \in s}

Init ==
  /\ installed \in Consistent
  /\ scanned = installed
  /\ arrived = {} /\ changed = {} /\ surprises = 0
  /\ stop = FALSE
  /\ pc = "idle"
  /\ ok = {} /\ waiting = {} /\ current = 0
  /\ executed = {} /\ failed = {} /\ cancelled = {} /\ refused = {}
  /\ failedKeys = {} /\ removedBrew = {} /\ brewTouched = FALSE
  /\ before = Unread /\ after = Unread /\ verdicts = <<>>

-----------------------------------------------------------------------------
(* The world around the batch.                                             *)

Surprise ==
  /\ pc # "done"
  /\ surprises < MaxSurprises
  /\ surprises' = surprises + 1
  /\ UNCHANGED <<scanned, stop, pc, ok, waiting, current, outcome, books,
                 before, report>>

\* Someone uninstalls a package, which nothing needs then.
Depart(p) ==
  /\ Surprise
  /\ p \in installed /\ Dependents(p, installed) = {}
  /\ installed' = installed \ {p}
  /\ changed' = changed \cup {a \in Actions : Plan[a].package = p}
  /\ UNCHANGED arrived

\* Someone installs a package and what it needs.
Arrive(new) ==
  /\ Surprise
  /\ new # {} /\ new \cap installed = {}
  /\ installed \cup new \in Consistent
  /\ installed' = installed \cup new
  /\ arrived' = arrived \cup new
  /\ UNCHANGED changed

\* Someone moves, replaces or removes the target of an action.
Replace(a) ==
  /\ Surprise
  /\ changed' = changed \cup {a}
  /\ UNCHANGED <<installed, arrived>>

World ==
  \/ \E p \in Packages : Depart(p)
  \/ \E new \in SUBSET Packages : Arrive(new)
  \/ \E a \in Destructive \ changed : Replace(a)

AskStop ==
  /\ pc \in {"recheck", "refresh", "loop", "announced", "running"}
  /\ ~stop
  /\ stop' = TRUE
  /\ UNCHANGED <<machine, pc, ok, waiting, current, outcome, books, before,
                 report>>

-----------------------------------------------------------------------------
(* The dialog.                                                             *)

Collide(a, b) == <<a, b>> \in Clash \/ <<b, a>> \in Clash

\* Mistaken variant: whatever does not delete may overlap.
OverlapsDeleting(a, kept) == \E b \in kept : Collide(a, b) /\ BothDelete(a, b)

\* The steps of one finding may share their target, as the unloading of a
\* service and the trashing of its file do, unless both delete it.
Overlaps(a, kept) ==
  \E b \in kept : Collide(a, b) /\ (~SameFinding(a, b) \/ BothDelete(a, b))

\* preflight_static's verdict on an action, after those it kept before.
\* gone: actions whose finding is no longer there; unfit: those it does not
\* authorise any more, or whose target cannot be identified.
Keeps(a, kept, gone, unfit) ==
  /\ a \notin gone \cup unfit
  /\ \A b \in 1..(a - 1) : Plan[b].command = Plan[a].command => b \in gone
  /\ Plan[a].kind # "autoremove"
  /\ ~Overlaps(a, kept)
  /\ Brew(a) =>
       /\ Plan[a].package \in installed \cap scanned
       /\ Dependents(Plan[a].package, scanned) \subseteq Targets(Actions)

Fit(as, graph) ==
  {a \in as : Brew(a) => Plan[a].package \in Removable(Targets(as), graph)}

\* kept is the outcome of the pass over the plan, action after action.
OpenDialog(gone, unfit) ==
  /\ pc = "idle"
  /\ \A a \in gone, b \in Actions : SameFinding(a, b) => b \in gone
  /\ surprises + Cardinality(gone \cup unfit) <= MaxSurprises
  /\ surprises' = surprises + Cardinality(gone \cup unfit)
  /\ pc' = "dialog"
  /\ \E kept \in SUBSET Actions :
       /\ kept = {a \in Actions : Keeps(a, {b \in kept : b < a}, gone, unfit)}
       /\ ok' = Fit(kept, scanned)
  /\ refused' = Actions \ ok'
  /\ changed' = {}
  /\ UNCHANGED <<installed, scanned, arrived, stop, waiting, current,
                 executed, failed, cancelled, books, before, report>>

Confirm ==
  /\ pc = "dialog" /\ ok # {}
  /\ pc' = "recheck"
  /\ UNCHANGED <<machine, stop, ok, waiting, current, outcome, books, before,
                 report>>

\* The user declines, or there is nothing to confirm.
Decline ==
  /\ pc = "dialog"
  /\ pc' = "idle"
  /\ ok' = {} /\ refused' = {}
  /\ UNCHANGED <<machine, stop, waiting, current, executed, failed,
                 cancelled, books, before, report>>

-----------------------------------------------------------------------------
(* run_confirmed_batch, up to the loop.                                    *)

\* Mistaken variant: the report of a preflight replaces the earlier one.
RefuseAfresh(as) == refused' = as

Refuse(as) == refused' = refused \cup as

\* Every confirmed action is compared with the current findings (lost: those
\* they no longer authorise) and with the targets the dialog captured.
Recheck(lost) ==
  /\ pc = "recheck"
  /\ surprises + Cardinality(lost) <= MaxSurprises
  /\ surprises' = surprises + Cardinality(lost)
  /\ pc' = "refresh"
  /\ ok' = ok \ (lost \cup changed)
  /\ Refuse(ok \ ok')
  /\ UNCHANGED <<installed, scanned, arrived, changed, stop, waiting, current,
                 executed, failed, cancelled, books, before, report>>

\* preflight_refresh: brew info, when a package is to go, and the guards
\* (stale: the actions whose guard no longer holds).
Refresh(answers, stale) ==
  LET graph == IF answers /\ Targets(ok) # {}
                 THEN [read |-> TRUE, packages |-> installed]
                 ELSE Unread
      held == {a \in ok \ stale : Brew(a) => Plan[a].package \in graph.packages}
  IN /\ pc = "refresh"
     /\ stale \subseteq {a \in ok : Guarded(a)}
     /\ surprises + Cardinality(stale) <= MaxSurprises
     /\ surprises' = surprises + Cardinality(stale)
     /\ pc' = "loop"
     /\ before' = graph
     /\ arrived' = {}
     /\ ok' = Fit(held, graph.packages)
     /\ waiting' = ok'
     /\ Refuse(ok \ ok')
     /\ UNCHANGED <<installed, scanned, changed, stop, current, executed,
                    failed, cancelled, books, report>>

-----------------------------------------------------------------------------
(* The loop over the ordered actions.                                      *)

\* Mistaken variant: a failure has no consequence for what is left.
BarNothing(a) == UNCHANGED failedKeys

Bar(a) == failedKeys' = failedKeys \cup {Owner(a)}

\* Mistaken variant: the order alone is trusted.
RetainedIgnored(p) == {}

\* Dependents of a package that the batch did not uninstall before it.
Retained(p) == Dependents(p, before.packages) \ removedBrew

\* The loop comes to action a, and does not get as far as announcing it.
Skip(a) ==
  /\ pc = "loop" /\ Turn(a)
  /\ waiting' = waiting \ {a}
  /\ UNCHANGED <<machine, stop, pc, ok, current, executed, removedBrew,
                 brewTouched, before, report>>

SkipStopped(a) ==
  /\ stop
  /\ Skip(a)
  /\ cancelled' = cancelled \cup {a}
  /\ UNCHANGED <<failed, refused, failedKeys>>

SkipOwner(a) ==
  /\ ~stop /\ Owner(a) \in failedKeys
  /\ Skip(a)
  /\ failed' = failed \cup {a}
  /\ UNCHANGED <<cancelled, refused, failedKeys>>

SkipRetained(a) ==
  /\ ~stop /\ Owner(a) \notin failedKeys
  /\ Brew(a) /\ Retained(Plan[a].package) # {}
  /\ Skip(a)
  /\ Refuse({a})
  /\ Bar(a)
  /\ UNCHANGED <<failed, cancelled>>

\* ActionStarted is sent; the user may stop the batch before it is taken.
Announce(a) ==
  /\ pc = "loop" /\ Turn(a)
  /\ ~stop /\ Owner(a) \notin failedKeys
  /\ Brew(a) => Retained(Plan[a].package) = {}
  /\ pc' = "announced"
  /\ waiting' = waiting \ {a}
  /\ current' = a
  /\ UNCHANGED <<machine, stop, ok, outcome, books, before, report>>

\* Mistaken variant: the stop is looked at once, before the announcement.
StoppedUnseen == FALSE

StoppedMeanwhile == stop

Resume ==
  /\ pc' = "loop"
  /\ current' = 0
  /\ UNCHANGED <<stop, ok, waiting, before, report>>

CancelAnnounced ==
  /\ pc = "announced" /\ StoppedMeanwhile
  /\ cancelled' = cancelled \cup {current}
  /\ Resume
  /\ UNCHANGED <<machine, executed, failed, refused, books>>

RefuseChanged ==
  /\ pc = "announced" /\ ~StoppedMeanwhile /\ current \in changed
  /\ Refuse({current})
  /\ Bar(current)
  /\ Resume
  /\ UNCHANGED <<machine, executed, failed, cancelled, removedBrew, brewTouched>>

Launch ==
  /\ pc = "announced" /\ ~StoppedMeanwhile /\ current \notin changed
  /\ pc' = "running"
  /\ UNCHANGED <<machine, stop, ok, waiting, current, outcome, books, before,
                 report>>

\* What a command leaves behind: its package is gone, and possibly targets of
\* other actions on the same installation.
Removes(a) ==
  /\ installed' = installed \ {Plan[a].package}
  /\ \E more \in SUBSET {b \in Destructive : Owner(b) = Owner(a)} :
       changed' = changed \cup more
                    \cup {b \in Actions : Brew(a) /\ Plan[b].package = Plan[a].package}
  /\ UNCHANGED <<scanned, arrived, surprises>>

\* Mistaken variant: a successful uninstall does not ask for a fresh graph.
TouchesNothing(a) == FALSE

Touches(a) == Brew(a)

Succeed ==
  /\ pc = "running"
  /\ IF current \in Destructive THEN Removes(current) ELSE UNCHANGED machine
  /\ executed' = executed \cup {current}
  /\ removedBrew' = removedBrew \cup Targets({current})
  /\ brewTouched' = (brewTouched \/ Touches(current))
  /\ Resume
  /\ UNCHANGED <<failed, cancelled, refused, failedKeys>>

\* A command that fails may have done its work, or nothing.
Fail ==
  /\ pc = "running"
  /\ \/ UNCHANGED machine
     \/ current \in Destructive /\ Removes(current)
  /\ failed' = failed \cup {current}
  /\ Bar(current)
  /\ Resume
  /\ UNCHANGED <<executed, cancelled, refused, removedBrew, brewTouched>>

-----------------------------------------------------------------------------
(* The report.                                                             *)

\* Homebrew's graph is read again if the batch touched it (brew info may fail
\* again), and every package of the batch is looked up in it.
Verify(answers) ==
  /\ pc = "loop" /\ waiting = {}
  /\ pc' = "done"
  /\ after' = CASE ~brewTouched            -> before
                [] brewTouched /\ answers  -> [read |-> TRUE, packages |-> installed]
                [] brewTouched /\ ~answers -> Unread
  /\ verdicts' = [p \in Targets(ok) |->
                    IF p \in after'.packages THEN "StillPresent"
                                             ELSE "RemovedAsExpected"]
  /\ UNCHANGED <<machine, stop, ok, waiting, current, outcome, books, before>>

Done == pc = "done" /\ UNCHANGED vars

Dialog ==
  \/ \E gone, unfit \in SUBSET Actions : OpenDialog(gone, unfit)
  \/ Confirm
  \/ Decline

Batch ==
  \/ \E lost \in SUBSET ok : Recheck(lost)
  \/ \E answers \in BOOLEAN, stale \in SUBSET ok : Refresh(answers, stale)
  \/ \E a \in Actions : SkipStopped(a) \/ SkipOwner(a) \/ SkipRetained(a) \/ Announce(a)
  \/ CancelAnnounced \/ RefuseChanged \/ Launch
  \/ Succeed \/ Fail
  \/ \E answers \in BOOLEAN : Verify(answers)

Next == World \/ AskStop \/ Dialog \/ Batch \/ Done

Spec == Init /\ [][Next]_vars

-----------------------------------------------------------------------------
(* Properties.                                                             *)

\* Every variable has its type.
TypeOK ==
  /\ installed \subseteq Packages /\ scanned \subseteq Packages
  /\ arrived \subseteq Packages /\ removedBrew \subseteq Packages
  /\ changed \subseteq Actions /\ ok \subseteq Actions
  /\ waiting \subseteq Actions
  /\ current \in IF pc \in {"announced", "running"} THEN Actions ELSE {0}
  /\ executed \subseteq Actions /\ failed \subseteq Actions
  /\ cancelled \subseteq Actions /\ refused \subseteq Actions
  /\ surprises \in 0..MaxSurprises
  /\ stop \in BOOLEAN /\ brewTouched \in BOOLEAN
  /\ pc \in {"idle", "dialog", "recheck", "refresh", "loop", "announced",
             "running", "done"}
  /\ failedKeys \subseteq {Owner(a) : a \in Actions}
  /\ before \in Graphs /\ after \in Graphs
  /\ DOMAIN verdicts \subseteq Packages
  /\ \A p \in DOMAIN verdicts :
       verdicts[p] \in {"StillPresent", "RemovedAsExpected"}

\* What still lies before the batch.
Pending ==
  CASE pc = "idle"                             -> Actions
    [] pc \in {"dialog", "recheck", "refresh"} -> ok
    [] pc \in {"loop", "announced", "running", "done"} ->
         waiting \cup ({current} \ {0})

\* At every moment each planned action is accounted for exactly once: it is
\* pending, executed, failed, cancelled or refused (the four lists of the
\* CleanupReport, through two preflights and every early `continue`).
AccountedOnce ==
  /\ Actions = Pending \cup executed \cup failed \cup cancelled \cup refused
  /\ executed \cap failed = {}
  /\ (executed \cup failed) \cap cancelled = {}
  /\ (executed \cup failed \cup cancelled) \cap refused = {}
  /\ (executed \cup failed \cup cancelled \cup refused) \cap Pending = {}

\* No command starts once the user has asked to stop, not even the one whose
\* ActionStarted was already sent.
StopHolds == [][stop /\ pc # "running" => pc' # "running"]_vars

\* When the batch starts to uninstall a package, nothing that was installed
\* when it read the graph still needs it, however the commands before it
\* ended.
NoDependentStranded ==
  [][pc = "announced" /\ pc' = "running" /\ Brew(current) =>
       Dependents(Plan[current].package, installed \ arrived) = {}]_vars

\* Steps on one installation run in order or not at all: one that was executed
\* has no earlier step, in the order the loop takes them, that was not.
OwnerInOrder ==
  \A a \in executed, b \in ok :
    b # a /\ Owner(b) = Owner(a) /\ Precedes(b, a) => b \in executed

\* Homebrew's packages do not need each other in circles.
Acyclic ==
  \A s \in SUBSET Packages : s # {} => \E p \in s : Dependents(p, s) = {}

\* The order of the loop and its check for retained dependents agree: as long
\* as nothing has failed or was refused in the loop, no package is refused
\* for a dependent that the batch has yet to uninstall.  (Around a circle,
\* where the order breaks it, the first package is refused: for Acyclic Needs.)
RefusalIsEarned ==
  [][pc = "loop" /\ refused' # refused => failedKeys # {}]_vars

\* A physical target is acted upon on behalf of one finding, and deleted once:
\* what was executed with overlapping targets are steps of one remedy, at most
\* one of which deletes them.
TargetHitOnce ==
  \A a, b \in executed :
    a # b /\ <<a, b>> \in Clash => SameFinding(a, b) /\ ~BothDelete(a, b)

\* A package whose uninstall succeeded is not reported as still present,
\* unless somebody installed it again.
RemovalIsSeen ==
  pc = "done" =>
    \A a \in executed : Brew(a) /\ verdicts[Plan[a].package] = "StillPresent" =>
      Plan[a].package \in arrived

\* As verify is documented, "removed targets must be gone": a package the
\* report calls removed is not installed, unless somebody installed it again.
RemovedMeansGone ==
  pc = "done" =>
    \A p \in DOMAIN verdicts :
      verdicts[p] = "RemovedAsExpected" => p \notin installed \ arrived

=============================================================================
