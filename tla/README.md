# macaudit in TLA+

macaudit explores disk usage on macOS and audits what is installed on the
host: Homebrew, global tools, Docker, Git projects, application data. One Rust
engine (`src/src/`) serves a terminal interface, a command line, and a SwiftUI
application over UniFFI (`src/crates/macaudit-ffi`, `src/swift`, `src/apps`).
It can also clean up what it found. This directory models the parts of it
where order, failure and concurrency decide what is right, checks the models
with TLC on small instances, and proves with TLAPS what is proved of them.

Paths below start at the root of the repository, `src/`.

## 1. Inventory

| Component | Keeps | Operations | What is hard | What makes it correct |
|---|---|---|---|---|
| Attribution bus, `src/src/attribution/bus.rs` | per section: registered run, token, terminal flag, items, last snapshot | `begin`, `observe_checked`, `cancel_generation`, `cancel_all`, `wait_for` | waiters race with endings; events of superseded runs; memory refused half way | snapshots whole and stable; no lost wake-up; a wait returns what it should |
| Engine, `src/src/engine.rs` | `active` run and its metadata, worker counts, admission permits | `start_run`, `spawn_set`, `cancel`, `resource_limited`, `finding_resource_limited`, forwarders, `publish_run_event`, `spawn_one`, `run_request_to_completion` | bounded queues in a row; receivers that do not drain or go away; runs that overlap while the older one retires; permits shared by them | cancellation always retires; nothing of one run reaches another; no ending lost; a verdict is earned and stands |
| Run metadata, `src/src/engine.rs` | completeness of the disk and host contexts and of Home discovery, ended sections, reasons | `observe_run`, `observe_discovery`, `refresh_*`, `mark_*` | events in any order, repeated, after a cancellation | "Complete" only when everything was; one verdict |
| Scanners, `src/src/scan/`, `src/src/attribution/` | a walk, tool output | `scan` | dependencies among sections, walks that outlive their run, panics | every section ends in one of two ways |
| Disk walk, `src/src/scan/walk/mod.rs` | visited directories, hard links, the largest files, counters of what was left out | `scan_dir`, `scan_listed`, `offer_top`, `walk_impl` | siblings are scanned in parallel and meet in shared tables; memory, entries or patience may end at any point | a complete walk has what one thread would have found, each file once; what was left out is said |
| Git pipe, `src/src/scan/pipe.rs`, `src/src/scan/git.rs` | bounded queue with a byte budget; probing tasks | `send`, `recv`, `GitScanner::scan` | several walk threads send at once and must not block; a refusal must not be silent | bounded; nothing lost unsaid; ends when the walk does |
| Memory budget and inventory, `src/src/inventory.rs` | atomic counter, reclaimers; the arena of directories and its totals | `reserve`, `grow`, `resize`, `absorb`, drop; `add_directory`, `update_rollup`, `transfer_file_charge` | concurrent charges; reclaiming while charging; totals in any order | use never exceeds the limit; nothing counted twice; totals add up |
| Subprocess runner, `src/src/runner.rs` | permits, one child each | `run`, `execute_owned`, `capture_output` | exit, cancellation and output limit at once | each child reaped once; permits return |
| Cleanup, `src/src/cleanup.rs`, `src/src/remedy.rs` | a confirmed batch, its progress and report | `preflight_static`, `preflight_refresh`, `run_confirmed_batch`, `verify` | the machine changes between confirmation and execution; the user stops in the middle; one action fails | nothing runs that was not confirmed and still valid; dependents before dependencies; the report is true |
| Homebrew graph, `src/src/brewgraph.rs` | packages and dependencies | `dependents`, `removal_preview` | graph algorithms | nothing blocked is removed |
| TUI, `src/src/ui/` | `AppState`: findings, marks, confirmation, batch | `begin_scan`, `apply`, `reconcile_run`, `handle_confirm`, `apply_exec` | reconciliation with the engine against late events; marks of findings that changed | no stale mark is executed; every section ends on the screen |
| FFI session, `src/crates/macaudit-ffi/src/` | `Session`, revisions, page caches, operations | `start_run`, `apply`, `changes`, `dispatch`, `cancel`, operations under `run_gate` | callbacks without locks; pages of an older revision | revisions grow; pages are of one revision; no operation across runs |
| Swift store, `src/apps/MacAudit/Sources/AuditStore.swift` | a view of the session | callbacks | late callbacks | stale generations are ignored |
| Network enrichment, `src/src/net/` | caches, catalogue | `enrich` | time-outs, stale cache | enrichment of the right run |
| Size cache, `src/src/size_cache.rs` | sizes by path | lookup, store | staleness | a stale size is not used |
| CLI, output, configuration | none | parsing, formatting | none | not modelled |

How they interact. A *run* has one cancellation token. `start_run` cancels the
previous run's token, installs fresh metadata, registers every section on the
bus, and spawns one task per section, plus one for Home when the selected root
is another directory. The tasks of the sections share one queue of 32 events;
Home discovery has a queue of one event. A forwarder task per queue takes each
event, folds it into the metadata and the bus under the `active` mutex, and
publishes it on the receiver's channel. The TUI loop, the FFI pump and
`run_request_to_completion` are receivers. The attribution scanners wait on
the bus for the sections they need. Locks are taken in the order `run_gate`,
`session`, `active`, then the bus or the worker counts.

The hazards that follow are listed in `PROJECT.json`, each at its line with
the properties that watch it.

## 2. Modules

| Module | Models | Composes |
|---|---|---|
| `ScanBus` | the bus, every method | |
| `ScanBus_proofs` | theorems about `ScanBus` | `ScanBus` |
| `RunMetadata` | the metadata functions of the engine, as operators | |
| `RunEngine` | runs, workers, forwarders, cancellation, receivers | `RunMetadata`, and `ScanBus` by INSTANCE |
| `RunEngine_proofs` | theorems about `RunEngine`, its refinement of `ScanBus` among them, after lemmas about the metadata | `RunEngine` |
| `CleanupBatch` | one batch of cleanup actions and the machine around it | |
| `CleanupBatch_proofs` | theorems about `CleanupBatch` | `CleanupBatch` |
| `EngineFeed` | the engine as a front end sees it: workers, stop reasons, recorded endings, events on their way; steps without a system of their own | |
| `FfiSession` | the session behind UniFFI: pump, dispatch thread, correlation, enrichment, clients | `EngineFeed` |
| `FfiSession_proofs` | theorems about `FfiSession` | `FfiSession` |
| `Terminal` | the terminal's state and its event loop | `EngineFeed` |
| `Terminal_proofs` | theorems about `Terminal` | `Terminal` |
| `MemoryBudget` | the budget: charge, exchange, reclaim, give back; steps without a system of their own | |
| `RepoPipe` | the walk's discoveries on their way to the Git section, the admission of audits, the inventory's growth | `MemoryBudget` |
| `Sums_proofs` | lemmas about sums over finite sets | |
| `RepoPipe_proofs` | theorems about `RepoPipe` and the budget under it | `RepoPipe`, `Sums_proofs` |
| `DiskWalk` | the parallel walk and the inventory it fills | |
| `DiskWalk_proofs` | theorems about `DiskWalk` | `DiskWalk`, `Sums_proofs` |
| `MCScanBus`, `MCRunEngine`, `MCCleanupBatch`, `MCFfiSession`, `MCTerminal`, `MCRepoPipe`, `MCDiskWalk` | values for TLC | |

### ScanBus

`bus[s]` is the `SectionState` of section `s`: `gen` is `registered_gen`,
`acc` both accumulators (findings by id, trees by root: one function from keys
to items), `valid` is `last_valid`. `stopped` stands for the tokens: all
sections of a run share the run's token. Each method holds the mutex, so it is
one action; `wait_for` is three, because other threads run between
`notified()`, the look at the entries and the sleep: `Register`, `Look`,
`Wake`. `woken` is the permission that `notify_waiters` leaves with every
`Notified` created before it. `source` and `sent` are history: how a section's
worker ended, and the latest item it sent for each key.

Memory credits appear as the one thing they can do, `ObserveExhausted`: the
entry becomes terminal and the token is cancelled. `Collected` does not look
at whether the token is cancelled, exactly like the code.

### RunMetadata and RunEngine

`RunMetadata` holds no variables. `ObserveRun`, `ObserveDiscovery`,
`RefreshHost`, `SetDiscoveryCoverage`, `RefreshDiscovery`, `MarkLimited` and
the others keep the names of the functions they translate. What they abstract:
of the coverage flags only `resource_limited` (`limited`) and the presence of
host coverage (`covered`) are kept, since they alone feed back into control;
of the stop reasons only `Cancelled` and `ResourceLimited`, which no code path
removes; texts are left out. `Stop` is the Running-to-Cancelled step that
`cancel`, `refresh_context` and `mark_context_resource_limited` share; `Limit`
is what a resource limit does to the context it belongs to.

`RunEngine` has one action for each critical section and for each place where
a task can be suspended:

| Code | Actions |
|---|---|
| `spawn_one` and the scanners | `Snapshot`, `WalkDone`, `HomeWalked`, `Find`, `Attribute`, `CommandLimit`, `End`, `Panic`, `Send`, `Drop` |
| forwarder of the sections | `Discard`, `Forward`, `ForwardExhausted`, then publishing |
| forwarder of Home discovery | `Discard`, `ForwardHome`, `HomeLooks`, `HomeClosed`, then publishing |
| `publish_run_event` | `Publish`, `Withdraw`, `GiveUp` |
| users | `StartRun`, `Cancel`, `Receive`, `ReportLimit`, `CloseReceiver` |

A worker has at most one event to send (`out`): a task that waits for room in
the queue does nothing else. `Snapshot` is the exception, `try_send` from the
walk's threads. `Drop` is `deliver_event` seeing the token first. `Publish` is
allowed when there is room whether or not the run is cancelled, because the
`select!` is biased towards the reservation; `GiveUp` needs a cancelled token
and a full channel. A closed receiver is noticed by the next publication:
`Withdraw` cancels the token, and the bus is told in the next step.
`ForwardHome` updates the metadata under the lock; the look at the token and
`cancel_generation` come after it is released, `HomeLooks`.

Simplifications, each harmless to the properties:

- the token is read once in a critical section;
- `spawn_set` runs after `start_run` has released `active`; nothing of the new
  run exists in between, so `StartRun` does both. A concurrent `start_run` in
  that window would leave the superseded run without its Home worker
  (`src/src/engine.rs:568`), which has no effect on the current one; the
  front ends call `start_run` from one place each;
- a worker dies (`Panic`) in its scanner, once what its task waits for before
  that (dependencies, the disk, a permit) has come. It then says nothing more:
  the guard lowers a count and no event is sent. For Home the forwarder records a
  failure (`HomeClosed`); for a section nobody does, its context stays
  Running, its bus entry open, and those that wait for it wait until the run is
  cancelled. `Mute` are these sections and `Orphaned` these runs, and the
  properties say exactly what they are exempt from. A disk that dies before it
  started leaves the audits unstarted too;
- the faults, the endings and the events of the other sections that a run may
  have are functions of whether Home is walked by a worker of its own
  (`Faults`, `Outcomes` and `Chatter` in the configurations), so that one run
  of TLC covers both kinds without their product;
- `Started` and `Progress` only take a place in the queue;
- the findings of an attribution scanner, which never are the cause of gaps,
  are not sent: only its footprints are;
- the admission of host audits is in `RepoPipe`.

### CleanupBatch

One batch, from the dialog to its report. `ok` is the report of the last
preflight, `waiting` the actions the loop has not taken yet, `current` the one
in hand; `executed`, `failed`, `cancelled`, `refused` are the lists of
`CleanupReport`; `failedKeys`, `removedBrew` and `brewTouched` are the loop's
own variables, `before` and `after` the two readings of Homebrew's graph
(`Unread` is `None`), `verdicts` the verified Homebrew targets.

| Code | Actions |
|---|---|
| `preflight_static` at the dialog, `handle_confirm` | `OpenDialog`, `Confirm`, `Decline` |
| `preflight_static` again, inside `run_confirmed_batch` | `Recheck` |
| `preflight_refresh`: guards, fresh graph | `Refresh` |
| head of the loop and its three early `continue`s | `SkipStopped`, `SkipOwner`, `SkipRetained`, `Announce` |
| after `ActionStarted` was sent | `Resume` to `CancelAnnounced`, `RefuseChanged` or `Launch` |
| the command returns | `Succeed`, `Fail` |
| fresh graph and `verify` | `Verify` |
| the user's stop key | `AskStop` |
| everything else on the machine | `Depart`, `Arrive`, `Replace` |

A step ends where the code awaits: at the announcement, at the command, at
`brew info`. Between two steps the world may take one of its own, and the user
may ask to stop. `Turn` takes from `waiting` the action that `order_actions`
puts first: phases, then the rounds of `removal_preview` for packages. The
loop works through a set because that order is total on what is `ok`; the
proofs use that it is asymmetric.

A command can succeed, fail having done nothing, or fail having done its work
(`Fail`). `brew info` can fail or time out, before and after; before, every
Homebrew action is refused.

Abstracted: a physical target (canonical path, device, inode, kind) is the
action that names it, and `changed` holds the actions whose target is no
longer what the dialog captured, so that comparing identities is a membership
test; `Clash` says which targets overlap. As in the code, an overlap only counts
between two findings, or when both steps delete (`Overlaps`), so that a service can be
unloaded and its file then trashed. Packages have distinct names,
numbered in lexical order, which is how the code breaks ties. Inventories,
probes, the retained list and summaries are left out of the report; of the
verification only Homebrew's part is there. `brew autoremove` is a kind of
step that every preflight refuses. The terminal interface drops a dialog or a batch
that belongs to another run; that is part of its state (`Terminal`).

A scan offers the uninstall of leaf packages only
(`src/src/scan/brew.rs:266`), so a batch with a package and what it depends on
needs a dependency that appeared in between, or findings that come from
elsewhere (the tests and the fake host). The code handles both, and the
instance has such a batch.

### EngineFeed

What the terminal and the FFI session share: the engine, reduced to what they
can observe of it. `engine` is the current run: which workers live, whether
its token is cancelled, whether a context has `Cancelled` or `ResourceLimited`
among its stop reasons, which ends were recorded, and what the sections have
yet to send. `queue`, `held` and `chan` are an event on its way: in the queue
of the sections, in the forwarder's hand, in the channel to the front end.
`late` is the event that the forwarder of a superseded run still has.
`Send`, `Record`, `Deliver` and `DeliverLate` are the steps of workers and
forwarders, `Supersede` is `start_run`, `Halted` a resource limit that a front
end reports, `CalledOff` is `cancel`.

Two faults of the engine matter to its front ends and differ in one point. A
finding that the bus has no memory for halts the run, and the forwarder
publishes a failure in its place (fault "bus"). A walk that ran out of memory
delivers a limited tree: `observe_run` adds `ResourceLimited` to the disk's
reasons, but the run goes on (fault "walk").

No worker dies here. Neither front end settles a section whose worker died,
since reconciliation asks for a reason to have stopped or for a verdict: it stays
on the screen as scanning until the run is cancelled, and correlation waits with
it. `CorrelationComes`, `Converges` and `Settles` therefore speak of runs whose workers
all report; what a death does to a run is in `RunEngine`.

`RunEngine` has the whole of the engine, with dependencies, verdicts and Home
discovery; the two are not related by a refinement.

### FfiSession

`session` is the `Session`, over the engine of `EngineFeed`.

Two locks shape everything. The session mutex is held for each step, and is
not a variable. `run_gate` is held over several steps by the pump, while it
puts a tree in its cache, and by a page query, between the comparison of its
cursor and the reading of rows; it is the variable `gate`. Other holders take
it and let it go within one step.

| Code | Actions |
|---|---|
| engine: workers, forwarder | `Work`, `Forward`, `Publish`, `PublishLate` |
| `pump` | `PumpTake`, `PumpStore`, `PumpAfter` (`after_terminal`), `Tick` |
| the task that enriches | `EnrichLook`, `EnrichApply` |
| `dispatch`, one step per lock it takes or call it makes | `Wake`, `TellBegin`, `ReadRows`, `TellRows`, `Starve`, `ReadState`, `TellState` |
| `Engine::start_run`, `cancel_scan` | `StartRun`, `CancelScan` |
| `findings_page_for_run` | `AskPage`, `GivePage` |
| `plan`, `execute`, the end of a batch | `PlanBegin`, `PlanEnd`, `Execute`, `BatchEnds` |

A row is the revision it was last written at, which is all the dispatch thread
and the cursors compare. `told` is what the listener was told of the run it was
last told to start. `labelled` is history: the rows that were not scanned again
after they were correlated.

Left out: `Started`, `Progress` and durations; `selected_root`; pages of
directories and of footprints, which read caches under the same gate. The calls
of one round of the dispatch thread are merged by phase (rows, then endings and
announcements), and `emit`'s comparison with its call: a listener that is called
for a superseded run between them compares generations itself. Clients call one
at a time. That `correlate_now` fails
and that the copy for enrichment fails have the same effect and are one case.

### Terminal

`app` is `AppState`: the run it expects, what it retains of each item, the
status of each section, `scan_cancelled`, a pending resource limit, the mode.
`loop` is where the event loop is, with its locals: what the last event asked
for (`pending_*`), whether the run has been correlated, whether a cleanup runs
and has changed anything. An iteration is five steps, because the engine runs
on other threads between them:

| Code | Actions |
|---|---|
| `current_run`; later `is_empty`, and `reconcile_run` | `Look`, `Judge` |
| the branches of `select!` | `Receive`, `ReceiveEnriched`, `ReceiveExec`, `Key`, `Tick` |
| correlation, the start of enrichment | `Correlate` |
| `pending_cancel_scan`, `pending_resource_limit` | `StopScan` |
| `pending_rescan`, `pending_execute` | `Rescan`, `Execute` |
| engine | `Work`, `Forward`, `Publish`, `PublishLate` |
| `run_confirmed_batch`, as far as the loop hears of it | `BatchExecutes`, `BatchFinishes` |

`seen` is the metadata the loop looked at; what it judges by it may be old.
`enrich[g]` holds the rows that the enrichment of run `g` has yet to ship,
whatever has become of the run. `stale` is history: a cleanup ran and what is
shown was not scanned since.

Left out: marks and choices of remedies, which `begin_scan` drops;
overlays other than confirmation, cleanup and report; changing the root, which
is a rescan; quitting.

### MemoryBudget and RepoPipe

`MemoryBudget` has the counter (`used`, `peak`), the bytes of each
`Reservation` (`held`), and the charge each holder has in progress (`call`):
`Load` reads the counter, `Exchange` is the compare-and-exchange, which decides
again on the value it found when it failed, `Raise` the peak and the end of the
charge, `Reclaim` what a reclaimer frees, `Retry` the second attempt. The only
reclaimer of the program empties the query registry unless somebody has it
locked (`Shared::register_query_reclaimer`); `Disposable` stands for it.

`RepoPipe` runs those steps with four holders: the pipe, the inventory, the
replacement an inventory is copied to while it grows, and the disposable cache.
Around them:

| Code | Actions |
|---|---|
| `repo_channel_with_budget`, the ends of the pipe | `Open`, `Released` in the actions that drop an end |
| `spawn_one`: the wait for the disk, the permit, a run cancelled before | `StartDisk`, `Admit`, `AdmitDiscovery`, `Leave`, `GiveUpWalk`, `GiveUpGit` |
| `RepoSender::send`, called by `on_child_dir` on a thread of the walk | `Visit`, `TakePlace`, `LockPipe`, `Grown`, `Send`, `Refused` |
| the end of `FsScanner::scan` | `CloseWalk`, `Report` |
| `GitScanner::scan` | `StartGit`, `Receive`, `Spawn`, `StopReceiving`, `ProbeEnds`, `EndGit` |
| `grow_arena` | `GrowArena`, `Replace`, `Absorb`, `DropArena` |

Whether Home is walked by the disk's own scanner or by a separate worker is
chosen in `Init`. Left out: what else makes a walk incomplete (`DiskWalk`);
what Git answers; a panic of the disk's, the Git section's or an audit's task, so that
`PipelineDrains` speaks of tasks that return; the two attempts of
`Reservation::resize`, of which `grow_arena` uses the one that gives back.

### DiskWalk

The constants are a tree: what each directory lists and in which order, the
identity of directories and files, which directories are excluded, mount points or
skipped by the visitor, and what opening each may come to. `scan[d]` is where the
scan of `d` is; every directory whose scan was called advances independently,
which is more than any number of threads can do. `seenDirs`, `links` and `top`
are the tables behind mutexes; `channel` is the aggregator's, `arena` its totals
of the directories added.

| Code | Actions |
|---|---|
| `scan_dir` | `TurnBack`, `List`, `Fail`, `Leave` |
| `scan_listed`, the entries one by one | `Begin`, `PassBy`, `Descend`, `NoRoom`, `CountFile`, `FirstLink`, `NextLink`, `LinkForgotten`, `EndListing` |
| `InventoryCollector::publish`, its refusal, the children's return | `Publish`, `Unpublished`, `RollUp` |
| the aggregator, `complete`, the end of `walk_impl` | `Aggregate`, `CloseUpdates`, `EndAggregator`, `Conclude` |
| the token, or the deadline | `Cancel` |

Left out: apparent sizes, which are added as allocated ones are; files over the
threshold, kept like the largest but never replaced; the count of entries, so
that the limit may be passed at any directory; `top_min`, a filter that never
lets less through than the heap would take; files that are not downloaded, whose
effect on the result is that of such directories; a root that cannot be read,
where nothing is shared yet.

A file may take no space: it is counted, is never among the largest, and takes no
memory of their table (`IsEmpty`).

`PathAssumption` says that entries are paths: one way leads from the root to each,
and the tree ends. A directory that has two paths is therefore two members of `Dirs`
with one `Node`. `LinkAssumption` says that an inode has no more links than its
`nlink` tells, when a directory with two paths is read by one of them, as
`seenDirs` sees to. Two definitions were corrected by the attempt to prove
something about them. `PassBy` gave the reason for which an entry is passed by as a CASE
whose guards overlap, which means any of them: it is now the first that applies,
in the order of the code. And `InventoryIsExact` asked that a directory which was left out
as an alias had been walked by its other path: that one may have been skipped by
the visitor, who is asked after the identity was noted.

## 3. What is checked

| Run | Shows |
|---|---|
| `bus` | Two runs, two sections, two waiters with different dependencies. Snapshots are exactly what the section sent in the current run; once published they stand; a returned wait is justified; no wake-up is lost. |
| `engine_one_run` | One run of the walk and a section that waits for it, either with Home as its root and every kind of event, result and failure, or with a separate Home discovery that can be limited; any worker may die. Verdicts are earned and stand; endings are delivered, but for those of sections that died; what a retired run still calls Running belongs to such a section, and nothing is Running once the user or a limit stopped the run. Liveness: cancelled runs retire, drained runs retire unless they wait for a section that died. And the refinement `BusSpec`: the steps of the engine are steps of `ScanBus`, so what is proved of `ScanBus` under its environment holds here. |
| `engine_two_runs` | A run superseded by another one, on the same channel or another. Types and bounds of the queues; nothing that belongs to the first run stops the second. |
| `cleanup` | A library and a program that needs it, planned in the order that does not work; a service that is unloaded and whose file is then deleted, which are two steps of one finding and share their target; a launcher that overlaps with that file; two packages outside the plan that may come and need the others. Every action is accounted for once; no dependent is stranded; no action is refused for an order the batch chose itself; a removal is seen; steps on one installation are in order; a target is acted upon for one finding and deleted once, while the two steps of one finding both run; stops hold. |
| `cleanup_report` | A violation: when the graph cannot be read after the batch, packages that are still installed are reported as removed. |
| `ffi_one_run` | One run, enrichment, every way of running out of memory, cancellation. A section is announced as done only after all its rows; an announced cache can be read; correlation comes and leaves no row behind; in the end listener and session agree and every section is over, also when the engine dropped its endings. |
| `ffi_two_runs` | Two runs with enrichment, clients that scan, page, plan and execute. Caches, batches and continuations are of the current run; a continuation whose rows are not those of the page before has another revision than its cursor. |
| `ffi_limited_walk` | A violation: after a walk that ran out of memory the session can take the run for a stopped one and never correlate it. |
| `ffi_stale_page` | A violation: a continuation is compared with the revision under one lock and filled under the next, and enrichment rewrites a row in between. |
| `terminal` | Two runs, a row that is correlated and a tree, memory that runs out in the walk and in the terminal, cancellations, rescans and cleanups. Nothing of another run is shown; a section shown as done has all its rows although its end may be known from the metadata first; nothing older than a cleanup can be marked; in the end every section is over, as the engine recorded it, and all rows are correlated. |
| `pipe` | Two threads, two repositories, one place, one probe, one permit and an audit that wants it, an inventory that grows. The counter is what is held; the pipe keeps within its limit and stays charged while an end lives; a complete walk lost nothing; the section ends and the memory returns. |
| `walk` | A tree in which a directory has two paths and a file two links, scanned in every order with every fault. Partial totals add up; a complete result is exact; the walk ends with a channel of one place. |

Bounds. The queue of the sections and the channels hold one event instead of
32: the interesting case, a full queue, then happens all the time, and no code
depends on the number beyond "full or not". A worker sends at most four
events, one of each kind that matters. `engine_one_run` gives the two kinds of run
different faults, as the simplifications say; deaths are in both, so that either
section, Home and a disk that never started are among the dead. Two runs suffice for what one run can do to
another: the code compares run ids for equality only, and only the latest run
is current. Liveness with two runs exceeds the time we give a run; its safety is
`engine_two_runs`. TLC uses one item value on the bus; the theorems hold for any
number. In `CleanupBatch` the world does at most `MaxSurprises` = 2 things to
the machine, actions that the dialog cannot authorise included: one is enough
to invalidate what was confirmed, two can undo or compound it (a package
leaves and comes back with a dependent). Four packages give an
order with a shared dependency, a chain, and an outsider. The theorems hold
for any plan, any graph and any bound.

In `FfiSession` the channel has one place instead of 32, so that it is full all the
time. `ffi_one_run` has two sections, one row that is correlated and belongs to
one of them, and a cache that belongs to the other: every order of rows, endings and caches. `ffi_two_runs` has one
section with a correlated row and a cache; the second run is what events, enrichment,
plans and cursors can be late for. No memory is refused there and nobody cancels, which
would exceed the time of a run: its three properties are proved for every fault and every client.
`ffi_stale_page` needs one run and one row.
More rows than `FlushThreshold` = 1 would need a second row, which these runs cannot
afford: the theorems hold for any number of rows and any threshold. `terminal` has
two sections, one row that is correlated, a tree, a channel of one place, and
two runs, of which the second is what events, enrichment and metadata can be late for. A finding that the bus refuses
is a fault of `ffi_one_run` only. In `RepoPipe` a second
thread is what `try_lock` and the places compete for, a second repository what
the limits refuse; the limit of the budget lets the arena grow or the pipe, not
always both. `PipeLimits` has a limit of the pipe that takes both
repositories and one that does not. In `DiskWalk` the tree has one of each thing that can
meet itself by two paths; `TopN` = 2 of three files makes the heap full and replaced; a fourth file is empty.

Fairness. Workers and forwarders are tasks that tokio polls when they can go
on, and scanners return. `RunEngine` assumes less: as long as some worker or forwarder
of a run can go on, some worker or forwarder of that run does (weak fairness on their disjunction, per
run). It is enough because what they have to do in a run is bounded.
That a worker dies is never assumed. Users and receivers are not fair: `CancelledRetires` holds although
nobody drains the channel, as `docs/stateless-validation.md:76` promises.
`DrainedRetires` has the fairness of the receivers as its hypothesis, and ends in a retired run or in one
that waits for a section that died. In
`ScanBus` weak fairness is on `Look` and `Wake` of each waiter. A deadlock of
a retired system is impossible here because its user can always press cancel,
so deadlock checking stays on but has little to say: liveness says it.
`CleanupBatch` has no fairness: commands have no time limit and the user need
not answer, and its properties are about order and truth. In `FfiSession` the
workers, the forwarders, each branch of the pump, enrichment, the dispatch
thread and a page that was begun go on; clients need not call. The pump's
`select!` is biased to its ticks, which come every 100 ms and are skipped when
late, so events are taken between them. In `Terminal` the loop goes on and
ticks; `select!` is not biased and picks at random among the branches that are
ready, so that an event in the channel is not passed over for ever: strong
fairness on `Receive`, which is enabled and disabled as the loop goes round.
Keys, enrichment and cleanups need not come. In `RepoPipe` the threads of the walk,
the section, the charges and the audits that have a permit go on; that a waiting
audit gets one, that the inventory grows and that anyone cancels is not assumed.
In `DiskWalk` the pool goes on with every directory and so does the aggregator.
`pipe` and `walk` stop when they are done, so they are not checked for deadlock:
`PipelineDrains` and `WalkEnds` say more.

Findings. Three runs end in a violation.

`verify` takes the packages of the refreshed graph as the
inventory after the batch and, with no graph, an empty one
(`src/src/cleanup.rs:1319`); a target that is not in it is `RemovedAsExpected`
(`src/src/cleanup.rs:1334`). After a `brew info` that fails at the end of a
batch, every Homebrew target is thus reported as removed, also those whose
action failed or was cancelled, although "removed targets must be gone"
(`src/src/cleanup.rs:869`). The counterexample needs no other surprise.

`reconcile_retired` settles a run that has no workers and has `Cancelled` or
`ResourceLimited` among the reasons of a context
(`src/crates/macaudit-ffi/src/session.rs:183`). The second need not mean that
the run was stopped: a walk that ran out of memory delivers a limited tree,
whose coverage becomes a reason (`src/src/engine.rs:1531`), and goes on to
finish. When the last worker has ended and its end is still in the forwarder's
hand or in the channel, a tick of the pump sets `cancelled` and settles the
sections; the endings that follow are refused
(`session.rs:103`), and `after_terminal`, which hangs on them, is not called:
the run is never correlated nor enriched, although "Correlate once the
correlated sections are terminal" (`session.rs:760`). `ffi_one_run` checks that
correlation comes when no walk is limited. The terminal's reconciliation has
the same rule, but its correlation looks at statuses and not at endings, so that
`Settles` holds with limited walks; what it loses is the enrichment of such a
run, since `apply_enriched` asks `scan_cancelled`.

`findings_page_for_run` compares run and
revision under the session lock, lets it go and takes it again for the rows
(`src/crates/macaudit-ffi/src/lib.rs:598` and `:606`). It holds `run_gate`, which stops the
pump and other clients; enrichment, on by default, takes the session lock only
(`session.rs:837`). In between it can rewrite a row: the continuation is then filled from a
revision that `:603` would have refused, although pages are "run/revision/request-fenced"
(`src/apps/MacAudit/README.md:70`). Its `metadata` has the old revision, the page itself and
its next cursor have the new one, which the application takes over without a
comparison (`src/apps/MacAudit/Sources/AuditFindingsBrowser.swift:259`). What enrichment changes
today leaves the order of rows alone, so the effect is newer rows after
older ones. What does hold, and is checked in `ffi_two_runs` and proved, is that such
a page is of the right run and betrays itself by its revision (`PageTellsItsRevision`).

Every property has a mutant in `PROJECT.json`: a mistaken variant of one
definition, in the module next to the original, that TLC refutes under the
same configuration.

## 4. What is proved

`ScanBus_proofs`, for every set of sections, keys, values, waiters, every
dependency function and every number of runs, from `BusAssumption` and
`SnapshotAssumption` alone:

- `TypeCorrect`: the type invariant;
- `SnapshotsAreWhole`: `SnapshotIsWhole`. It is not inductive. The
  strengthening `SectionInv` adds that each entry is registered for the
  current run, that an entry whose section is not over and not stopped has
  accumulated exactly `sent`, and that a finished section of a live run
  is terminal with its snapshot;
- `SnapshotsStand`: the action property, from the same invariant: only a
  section that has not finished can be given a snapshot;
- `WaitersAreJustified`: `ReturnedIsJustified`, with `Justified` added for each waiter.

`CleanupBatch_proofs`, for every set of packages, dependencies, plan, overlap
and bound, from the assumptions `PackageAssumption` and `PlanAssumption`:

- `TypeCorrect`;
- `EachAccountedOnce`: `AccountedOnce` with `Located`, which says where the
  actions of a started batch are: those of `ok` are waiting, in hand or in one
  of the lists;
- `StopIsKept`: only `Launch` starts a command, and it looks at the stop
  first;
- `DependentsGoFirst` and `SuccessIsSeen`, from `GraphInv`: what is installed
  and did not arrive meanwhile was in the graph the batch read and has not been
  removed by it. The check for retained dependents is thus made against
  everything the batch could know of;
- `OwnersInOrder`, from `OwnersInv`: when an action that is over was not
  executed, its installation is barred, and what waits comes after what is over.
  It needs that the order of the loop is asymmetric;
- `TargetsHitOnce`, from `ApartInv`: what a preflight keeps and has targets in common is
  of one finding and not deleted twice;
- `RefusalsAreEarned`: `RefusalIsEarned`, under the hypothesis `Acyclic`, that packages do
  not need each other in circles. `Closed` says that what needed a package of the
  batch when the graph was read is in the batch. As long as nothing is barred and
  nothing stopped, what the loop has passed is executed and uninstalled (`OwnersInv`,
  `GraphInv`), so a dependent that is retained is still waiting; but it is
  taken out in an earlier round (`DependentsFirst`), so the loop would have come to it
  first. The rounds are a recursive function; that it exists and that each
  round shrinks what is left is shown with least elements (`LeastNumber`, `NumbersAll`),
  without the library's induction. The hypothesis is needed: around a
  circle the order takes the least package first, which its dependent then bars. TLC
  shows it with two packages that need each other, and the preview says so too:
  "removal order not guaranteed" (`src/src/brewgraph.rs:1021`).

`FfiSession_proofs`, for every set of sections, findings, caches, clients'
bound and batch size, from `FeedAssumption`, `EventAssumption` and `SessionAssumption`:

- `RowsMoveWithRevision`, the step all others rest on: from `Basics` (types, no
  row newer than its session, a limited section has failed) every step makes
  the session a new run's or one that `Follows` it: a row that changes is newer
  than every row before, and then the revision clients compare has moved;
- `CachesStayCurrent` and `BatchStaysInItsRun`, from `Basics` alone;
- `PagesTellTheirRevision`: `PageTellsItsRevision`, with enrichment and every fault. `CursorInv`
  says that a cursor whose run and revision are the session's was issued for the rows that
  the session still has; `PageInv` that a page that was begun is of the session's run, since
  the gate keeps away whoever begins one;
- `RowsComeBeforeEndings`, from `ListenerInv`. An ending reaches the listener three
  lock periods after the session had it; `ReadyToTell`, `ToldSoFar`, `EndingIsDue` and `EndingWasTold`
  say, for each phase of the dispatch thread, which rows have been told by then;
- `AnnouncedIsThere`, from `StoredInv` (a version that the session announces is in its
  cache or in the pump's hand, unless the section ran out of memory) and `AnnouncedInv`
  (the listener knows of no version that the session has not announced);
- `CorrelationIsWhole`: `CorrelatedWhole`, for runs of at least one section without a
  walk that runs out of memory (such a walk leaves a reason to have stopped and stops
  nothing, and the pump then settles sections whose rows are still on their way).
  `EndsLast` says at each place between worker and session that nothing is behind an
  end, `NothingFollows` that a section that is over has nothing to come, `DueInv` that the
  pump is about to correlate as soon as it may, `LabelInv` that once it has, nothing it
  reads is left without a label. They hold of runs that nobody stopped; `GensInv` and
  `TaskInv` say of late events and of enrichment tasks whose they are;
- `TypeCorrect`.

`RunEngine_proofs`, for every set of sections, dependency function, set of channels,
faults, qualities, capacities and number of runs, from `EngineAssumption`,
`MetadataAssumption` and `TagAssumption` (the last says that a section is not
called "heard", and the like). The first part has lemmas about the
metadata: `Consistent` says that every ending counts as it was recorded, and that
nothing says Running in a context all of whose endings are there; each function
keeps it, whatever the events and their order. `Invariant` proves `Inv`,
whose parts for the current run are needed for these reasons:

- `EngineTypeCorrect`, from `TypeInv`, `EventsInv` and `WorkersInv`: types and bounds, which event
  a worker can have in hand at which point of its life, which events a queue can have;
- `CompletionEarned`: `CompleteIsEarned` asks for facts that nobody looks at when the
  verdict is given. `AheadInv` says that what a section's success rests on (the tree of
  the walk, the dependencies of an attribution) is known, or is in the queue before the
  success; `OrderInv` that no success follows a failure and endings come last; `TreesInv`
  that no tree follows one that was cut short; `HistoryInv` ties the metadata to what
  was forwarded;
- `EndingsArrive`, from `EndsInv`: the end of a worker that is gone is recorded or in the
  queue, and, unless the run is stopped, delivered, in the forwarder's hand or in the queue.
  Workers that died are not gone: theirs is the exception, `Mute`;
- `RetiredRunIsSettled`: with `EndsInv` a run without tasks has recorded the ending of every
  section but those of `Mute`, and with `Consistent` nothing is Running then that no
  such section had to end; `HomeInv` does the same for Home discovery. `Halted` says that a stop
  by the user or a limit settles everything and that no later event unsettles it;
- `StopsAreOwn`, from itself, types and who may hold the token of which run;
- `VerdictsStand`, the action property, from `LiveInv`: unless the run is stopped a verdict
  comes with the last ending, so that nothing that would change it can follow;
- `EngineFeedsBus`: `Spec => BusSpec`, action by action. `ForwardFeedsBus` is the step
  that needs the invariant: the bus hears an end or an item of a section only while
  its environment in `ScanBus` may send it.

`Terminal_proofs`, for every set of sections, findings and keys, from `FeedAssumption`,
`EventAssumption`, `TerminalAssumption` and `NothingAssumption`:

- `StateTypeCorrect`, from `Basics`: what is shown is of the run that is shown, and what was asked for
  is answered before the loop looks again;
- `DoneShowsAll`: `DoneIsWhole` with `InOrder`: at each place between a worker and
  the screen an end is behind all that its section sent. It is claimed of runs that
  are not stopped and have no refusal pending. The metadata that the loop judges
  by was read earlier: `SeenInv` says what of it still holds;
- `CleanedRescanned`, from `CleanupInv`: while what is shown is stale, the batch has yet to say
  that it executed, or the loop remembers it, or has asked for the rescan.

`RepoPipe_proofs`, for every number of repositories, threads, audits, places, probes and bytes,
from `BudgetAssumption` and `PipeAssumption`. Its sums are folds of the community
modules over finite sets; `Sums_proofs` shows that the order in which a fold
takes its elements does not matter and how a sum changes with one element. The
library's induction theorems cannot be used here; the lemmas use that a set of
finite sets has a least member, which is first order.

- `CounterAccounts`, from `BudgetInv`: `Accounted` is not inductive, because the exchange
  uses a decision made on a value read earlier. A decided charge fits the value it
  was decided on, and the peak has seen the counter or is about to be raised to it;
- `StateTypeCorrect`: the bound on the places needs `PlacesInv`, the number of threads between
  `reserve` and `send`, and the one on audits the permits;
- `ReservationFollowsPipe`: the lock makes the one charge in progress that of the thread that has it
  (`LockInv`), whose repository is not yet charged and is nobody else's (`WalkersInv`);
- `CompleteLosesNothing`: unless limited or cancelled, each repository is with the walk, with a
  thread, in the queue or with the section (`NothingLost`), and the section
  stops receiving only when the pipe is empty and closed (`SectionInv`).

`DiskWalk_proofs`, for every tree, all identities of directories and links, every fault, number of
largest files and capacity of the channel, from `WalkAssumption`, `PathAssumption`,
`LinkAssumption` and `ResultAssumption`. `Line` is a function over the tree; that it
is the way up from each directory, and that what is below a directory is the
directory and what is below its children, follows because any set of directories has a
topmost one (`Topmost`). Totals are sums over sets of directories (`Sums_proofs`), so that
what several steps add in any order is the same sum.

- `WalkTypes`: `TypeOK`, from `Sound`: where each scan is in its listing, that a directory is
  scanned at most once and only under one that is waiting for it (`Shape`), who may
  have sent what to the aggregator (`Sent`), that identities are noted by those who
  walk them (`Marked`), and that the links seen of an inode are distinct files of it (`Linkage`), whose number
  `LinkAssumption` bounds;
- `WalkRollup`: `RollupHolds`, from `Kept`. Each directory is sent twice, first with its own totals and
  then with everything below. `Tallied` says what a scan's total is at each place
  of its way, `Queue` that the messages in the channel hold what their scans had, and in
  which order the two of one directory come, `Lasting` that as long as memory lasts
  no message is lost. The aggregator subtracts what the first message added
  before it adds the second, all the way up to the root: the sum over what is under each
  directory stays, whatever was added to it in between, and no subtraction saturates;
- `WalkExact`: `ResultIsExact`, from `Exact`. An error that any scan had is in the totals or will
  be (`Closing`, `Clean`), so that a result that is complete had none; nothing was then
  passed by but what the marks account for (`Passed`, `MarksAre`). Of each inode the
  table has the least of the links that were seen (`Leasts`), and `top` the
  largest of the files that are plain and not empty (`TopIs`). `Conclude` moves each inode with several links to
  the directory of its least path, by subtracting and adding up to the root: it saturates nowhere, the root's total stays
  (`SettledBalances`), and every directory ends with the files whose least path is under
  it (`OwnersAre`, `KidsAddUp`, `NamedAre`). The links that were set apart are then offered to `top`
  (`LargestOffered`). `ConcludeExact` puts this together for the one step that gives a result.

The type invariants of `ScanBus`, `CleanupBatch` and `FfiSession` are proved and
therefore not among the properties of their runs. Each inductive invariant was
checked with TLC, on the runs of its component, before it was proved (`Closed` of
`CleanupBatch_proofs` was proved at once).

What only TLC shows: the liveness properties (`WaiterReturns`, `CancelledRetires`,
`DrainedRetires`, `Converges`, `Settles`, `PipelineDrains`, `WalkEnds`), which are out of
the prover's reach with ENABLED, and the three violations. Every other property of the
runs is proved.

## 5. Not modelled, and what is left

- `CommandRunner` (`src/src/runner.rs`): a select over what the operating system
  reports of a child. Its control is small and its interest in what signals and
  pipes do, which the source takes from the system.
- Marks, navigation, filters and drawing of the terminal. To be looked at there:
  `apply_exec` seems to add the refusals of the dialog to a list that already has
  them (`src/src/ui/marking.rs:132`, `:304`).
- Pages of trees and the search in names (`queries.rs`, `name_search.rs`):
  functions of a frozen inventory, and two slots for those that are heavy.
- The parsers of the section scanners, the fake host, formatting, configuration,
  the byte layout of the arena, the Swift views: many formats, little state.
  They are most of the repository's lines.
