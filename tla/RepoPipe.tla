------------------------------ MODULE RepoPipe ------------------------------
(***************************************************************************)
(* How the walk of Home feeds the Git section: the pipe of discoveries     *)
(* (src/src/scan/pipe.rs), the visitor that sends into it                  *)
(* (src/src/scan/fs.rs), the section that probes what comes out            *)
(* (src/src/scan/git.rs), the admission of audits (src/src/engine.rs), and *)
(* the memory budget they share with the disk inventory                    *)
(* (src/src/inventory.rs, module MemoryBudget).                            *)
(*                                                                         *)
(* Abstracted: the walk is the set of repositories it comes by, in any     *)
(* order, on several threads; a path is its size; what Git says of a       *)
(* repository is whether the probe failed.                                 *)
(***************************************************************************)
EXTENDS MemoryBudget, SequencesExt

CONSTANTS
  Repos,        \* what the walk comes by
  Size,         \* the bytes charged for each path
  Walkers,      \* the threads of the walk
  Home,         \* the discovery of Home, when a worker of its own does it
  Audits,       \* other sections that need a permit
  Slots,        \* audit_slots
  Probes,       \* MAX_CONCURRENCY
  Capacity,     \* MAX_QUEUED_REPOS
  PipeLimits,   \* MAX_PIPE_BYTES, or what a test gives for it
  QueueBytes,   \* queue_bytes(Capacity)
  Pipe,         \* the pipe's Reservation
  Arena, Spare, \* the disk inventory's, and its replacement's while it grows
  Cache,        \* something disposable
  CacheBytes, ArenaBytes,   \* what these two begin with
  ArenaStep,
  MaxArena,     \* bound on what the inventory grows to
  Nobody

ASSUME PipeAssumption ==
  /\ Holders = {Pipe, Arena, Spare, Cache} /\ Cardinality(Holders) = 4
  /\ Disposable = {Cache}
  /\ Size \in [Repos -> Nat]
  /\ Slots \in Nat \ {0} /\ Probes \in Nat \ {0} /\ Capacity \in Nat \ {0}
  /\ {QueueBytes, CacheBytes, ArenaBytes, ArenaStep, MaxArena} \cup PipeLimits \subseteq Nat
  /\ \A limit \in PipeLimits : QueueBytes <= limit
  /\ CacheBytes + ArenaBytes <= Limit
  /\ Nobody \notin Walkers \cup Repos /\ Home \notin Audits

VARIABLES
  token,      \* was the run cancelled?
  admission,  \* who waits for, has, or had a permit; did the disk start?
  walk,       \* the worker that walks Home
  unseen,     \* repositories no thread has come by
  walker,     \* per thread: where it is in send, and with what
  limited,    \* FsVisitor.resource_limited
  pipe,       \* the channel and the mutex around its reservation
  charged,    \* the discoveries that were charged to the pipe
  git,        \* the Git section
  probing,    \* its tasks
  done,       \* what it has dealt with
  arena       \* where the disk inventory is in grow_arena

flow == <<pipe, charged>>
section == <<git, probing, done>>
walking == <<walk, unseen, walker, limited>>
vars == <<budget, token, admission, walking, flow, section, arena>>

-----------------------------------------------------------------------------
(* The channel.                                                            *)

Idle == [at |-> "idle", repo |-> Nobody]

\* Mistaken variant: a place is taken when something is queued.
HasFreeSlot == pipe.receiver /\ Len(pipe.queue) < Capacity

\* mpsc: a place is taken by what is queued and by what has reserved one.
HasPlace == pipe.receiver /\ Len(pipe.queue) + pipe.places < Capacity

\* recv returns None.
Closed == pipe.queue = <<>> /\ ~pipe.sender

\* An end of the pipe goes away, and with the last one the reservation.
Released(sender, receiver) ==
  /\ pipe' = [pipe EXCEPT !.sender = sender, !.receiver = receiver,
                          !.queue = IF receiver THEN @ ELSE <<>>]
  /\ IF sender \/ receiver
       THEN UNCHANGED <<used, held>>
       ELSE Drop(Pipe)
  /\ UNCHANGED <<peak, call, charged>>

\* repo_channel_with_budget: without memory for the queue there is no queue.
Open ==
  /\ pipe.state = "opening" /\ Returned(Pipe)
  /\ LET ok == Answered(Pipe, "granted")
     IN  pipe' = [pipe EXCEPT !.state = IF ok THEN "open" ELSE "closed",
                              !.sender = ok, !.receiver = ok]
  /\ call' = Taken(Pipe)
  /\ UNCHANGED <<used, peak, held, token, admission, walking, charged,
                 section, arena>>

-----------------------------------------------------------------------------
(* Admission: spawn_one.                                                   *)

Ready == pipe.state # "opening"
Admitted == {x \in DOMAIN admission.of : admission.of[x] = "in"}
Admissible(x) ==
  /\ admission.started /\ ~token
  /\ admission.of[x] = "waiting" /\ Cardinality(Admitted) < Slots

\* The selected disk's scanner was polled; when it is the one that walks
\* Home it does so without admission.
StartDisk ==
  /\ Ready /\ ~admission.started /\ ~token
  /\ admission' = [admission EXCEPT !.started = TRUE]
  /\ walk' = IF walk.separate THEN walk ELSE [walk EXCEPT !.phase = "walking"]
  /\ UNCHANGED <<budget, token, unseen, walker, limited, flow, section, arena>>

\* An audit other than discovery is admitted and, some time later, over; one
\* that still waits when the run is cancelled never comes in.
Admit(a) ==
  /\ Ready /\ Admissible(a)
  /\ admission' = [admission EXCEPT !.of[a] = "in"]
  /\ UNCHANGED <<budget, token, walking, flow, section, arena>>

Leave(a) ==
  /\ admission.of[a] = "in"
  /\ admission' = [admission EXCEPT !.of[a] = "out"]
  /\ UNCHANGED <<budget, token, walking, flow, section, arena>>

AdmitDiscovery ==
  /\ Ready /\ walk.separate /\ Admissible(Home)
  /\ admission' = [admission EXCEPT !.of[Home] = "in"]
  /\ walk' = [walk EXCEPT !.phase = "walking"]
  /\ UNCHANGED <<budget, token, unseen, walker, limited, flow, section, arena>>

\* The run is cancelled before the walk begins: its context is dropped.
GiveUpWalk ==
  /\ Ready /\ token /\ walk.phase = "waiting"
  /\ walk' = [walk EXCEPT !.phase = "over"]
  /\ admission' = [admission EXCEPT !.of[Home] = "out"]
  /\ Released(FALSE, pipe.receiver)
  /\ UNCHANGED <<token, unseen, walker, limited, section, arena>>

Cancel ==
  /\ Ready /\ ~token /\ token' = TRUE
  /\ UNCHANGED <<budget, admission, walking, flow, section, arena>>

-----------------------------------------------------------------------------
(* RepoSender::send, on a thread of the walk.                              *)

At(w, at) == walker' = [walker EXCEPT ![w].at = at]

\* on_child_dir comes by a .git directory.
Visit(w, r) ==
  /\ walk.phase = "walking" /\ walker[w].at = "idle" /\ r \in unseen
  /\ unseen' = unseen \ {r}
  /\ walker' = [walker EXCEPT ![w] = [at |-> "slot", repo |-> r]]
  /\ UNCHANGED <<budget, token, admission, walk, limited, flow, section, arena>>

TakePlace(w) ==
  /\ walker[w].at = "slot"
  /\ IF HasPlace
       THEN At(w, "lock") /\ pipe' = [pipe EXCEPT !.places = @ + 1]
       ELSE At(w, "refused") /\ UNCHANGED pipe
  /\ UNCHANGED <<budget, token, admission, walk, unseen, limited, charged,
                 section, arena>>

\* Mistaken variant: the pipe's own limit is for the queue alone.
WithinQueue(r) == held[Pipe] <= pipe.limit

WithinPipe(r) == held[Pipe] + Size[r] <= pipe.limit

\* try_lock does not wait for another thread's send.
LockPipe(w) ==
  /\ walker[w].at = "lock"
  /\ LET r == walker[w].repo
     IN  IF pipe.lock = Nobody /\ WithinPipe(r)
           THEN /\ At(w, "grow") /\ Ask(Pipe, Size[r])
                /\ pipe' = [pipe EXCEPT !.lock = w]
           ELSE /\ At(w, "refused")
                /\ pipe' = [pipe EXCEPT !.places = @ - 1]
                /\ UNCHANGED budget
  /\ UNCHANGED <<token, admission, walk, unseen, limited, charged, section, arena>>

Grown(w) ==
  /\ walker[w].at = "grow" /\ Returned(Pipe)
  /\ IF Answered(Pipe, "granted")
       THEN /\ At(w, "send") /\ charged' = charged \cup {walker[w].repo}
            /\ pipe' = [pipe EXCEPT !.lock = Nobody]
       ELSE /\ At(w, "refused") /\ UNCHANGED charged
            /\ pipe' = [pipe EXCEPT !.lock = Nobody, !.places = @ - 1]
  /\ call' = Taken(Pipe)
  /\ UNCHANGED <<used, peak, held, token, admission, walk, unseen, limited,
                 section, arena>>

\* A receiver that is gone takes nothing and says nothing.
Send(w) ==
  /\ walker[w].at = "send"
  /\ pipe' = [pipe EXCEPT !.places = @ - 1,
                          !.queue = IF pipe.receiver
                                      THEN Append(@, walker[w].repo) ELSE @]
  /\ walker' = [walker EXCEPT ![w] = Idle]
  /\ UNCHANGED <<budget, token, admission, walk, unseen, limited, charged,
                 section, arena>>

\* Mistaken variant: a discovery that is refused is forgotten.
Forgotten == limited

\* What the visitor makes of a refusal.
Noted == limited \/ ~token

Refused(w) ==
  /\ walker[w].at = "refused"
  /\ limited' = Noted
  /\ walker' = [walker EXCEPT ![w] = Idle]
  /\ UNCHANGED <<budget, token, admission, walk, unseen, flow, section, arena>>

-----------------------------------------------------------------------------
(* The end of the walk: FsScanner::scan.                                   *)

\* Mistaken variant: a sender is left behind.
KeepsSender == TRUE

\* The visitor had the only sender, and is dropped.
DropsSender == FALSE

\* The walk has come by everything, or saw that the run was cancelled.  (What
\* else can make it incomplete is in DiskWalk.)
CloseWalk ==
  /\ walk.phase = "walking"
  /\ \A w \in Walkers : walker[w].at = "idle"
  /\ unseen = {} \/ token
  /\ walk' = [walk EXCEPT !.phase = "report", !.whole = unseen = {} /\ ~limited]
  /\ Released(DropsSender /\ pipe.sender, pipe.receiver)
  /\ UNCHANGED <<token, admission, unseen, walker, limited, section, arena>>

\* The coverage that is sent, and the end of the worker.
Report ==
  /\ walk.phase = "report"
  /\ walk' = [walk EXCEPT !.phase = "over",
                          !.verdict = IF walk.whole /\ ~token
                                        THEN "complete" ELSE "incomplete"]
  /\ admission' = [admission EXCEPT !.of[Home] = "out"]
  /\ UNCHANGED <<budget, token, unseen, walker, limited, flow, section, arena>>

-----------------------------------------------------------------------------
(* GitScanner::scan.                                                       *)

StartGit ==
  /\ Ready /\ git.phase = "waiting" /\ ~token
  /\ git' = [git EXCEPT !.phase = "receiving"]
  /\ UNCHANGED <<budget, token, admission, walking, flow, probing, done, arena>>

\* The run was cancelled before: the receiver goes with the context.
GiveUpGit ==
  /\ Ready /\ git.phase = "waiting" /\ token
  /\ git' = [git EXCEPT !.phase = "ended", !.result = "cancelled"]
  /\ Released(pipe.sender, FALSE)
  /\ UNCHANGED <<token, admission, walking, probing, done, arena>>

\* The next discovery; one in a package manager's checkout is left aside.
Receive ==
  /\ git.phase = "receiving" /\ ~token /\ pipe.queue # <<>>
  /\ LET r == Head(pipe.queue)
     IN  \/ done' = done \cup {r} /\ UNCHANGED git
         \/ /\ git' = [git EXCEPT !.phase = "holding", !.repo = r]
            /\ UNCHANGED done
  /\ pipe' = [pipe EXCEPT !.queue = Tail(@)]
  /\ UNCHANGED <<budget, token, admission, walking, charged, probing, arena>>

\* A permit of the section's own semaphore, and a task.
Spawn ==
  /\ git.phase = "holding" /\ ~token /\ Cardinality(probing) < Probes
  /\ probing' = probing \cup {git.repo}
  /\ git' = [git EXCEPT !.phase = "receiving", !.repo = Nobody]
  /\ UNCHANGED <<budget, token, admission, walking, flow, done, arena>>

\* The pipe has closed, or the run is cancelled.
StopReceiving ==
  /\ \/ git.phase = "receiving" /\ (Closed \/ token)
     \/ git.phase = "holding" /\ token
  /\ git' = [git EXCEPT !.phase = "draining", !.repo = Nobody]
  /\ UNCHANGED <<budget, token, admission, walking, flow, probing, done, arena>>

\* A task ends; only the end of the section hears of a failure.
ProbeEnds(r, ok) ==
  /\ r \in probing
  /\ probing' = probing \ {r} /\ done' = done \cup {r}
  /\ git' = [git EXCEPT !.failed = @ \/ ~ok]
  /\ UNCHANGED <<budget, token, admission, walking, flow, arena>>

EndGit ==
  /\ git.phase = "draining" /\ probing = {}
  /\ git' = [git EXCEPT !.phase = "ended",
                        !.result = IF token THEN "cancelled"
                                   ELSE IF git.failed THEN "failed" ELSE "ok"]
  /\ Released(pipe.sender, FALSE)
  /\ UNCHANGED <<token, admission, walking, probing, done, arena>>

-----------------------------------------------------------------------------
(* The disk inventory: grow_arena.  A replacement is charged in whole      *)
(* before what it replaces is given back.                                  *)

GrowArena ==
  /\ arena = "idle" /\ held[Arena] + ArenaStep <= MaxArena
  /\ Ask(Spare, held[Arena] + ArenaStep)
  /\ arena' = "asked"
  /\ UNCHANGED <<token, admission, walking, flow, section>>

\* A refusal stops the disk's walk, and what it has stays.
Replace ==
  /\ arena = "asked" /\ Returned(Spare)
  /\ call' = Taken(Spare)
  /\ IF Answered(Spare, "granted")
       THEN Drop(Arena) /\ arena' = "absorb"
       ELSE UNCHANGED <<used, held>> /\ arena' = "stopped"
  /\ UNCHANGED <<peak, token, admission, walking, flow, section>>

Absorb ==
  /\ arena = "absorb" /\ Absorbed(Arena, Spare) /\ arena' = "idle"
  /\ UNCHANGED <<peak, call, token, admission, walking, flow, section>>

\* The inventory is no longer needed.
DropArena ==
  /\ arena \in {"idle", "stopped"} /\ Drop(Arena) /\ arena' = "gone"
  /\ UNCHANGED <<peak, call, token, admission, walking, flow, section>>

Charge(h) ==
  /\ ChargeStep(h)
  /\ UNCHANGED <<token, admission, walking, flow, section, arena>>

-----------------------------------------------------------------------------
Init ==
  /\ held = [h \in Holders |-> CASE h = Cache -> CacheBytes
                                 [] h = Arena -> ArenaBytes
                                 [] OTHER -> 0]
  /\ used = CacheBytes + ArenaBytes /\ peak = used
  /\ call = [h \in Holders |->
               IF h = Pipe THEN [NoCall EXCEPT !.at = "load", !.asked = QueueBytes]
               ELSE NoCall]
  /\ token = FALSE
  /\ admission = [started |-> FALSE,
                  of |-> [x \in Audits \cup {Home} |-> "waiting"]]
  /\ walk \in [separate : BOOLEAN, phase : {"waiting"}, whole : {FALSE},
               verdict : {"none"}]
  /\ unseen = Repos /\ walker = [w \in Walkers |-> Idle] /\ limited = FALSE
  /\ pipe \in [state : {"opening"}, sender : {FALSE}, receiver : {FALSE},
              queue : {<<>>}, places : {0}, lock : {Nobody}, limit : PipeLimits]
  /\ charged = {}
  /\ git = [phase |-> "waiting", repo |-> Nobody, failed |-> FALSE, result |-> "none"]
  /\ probing = {} /\ done = {}
  /\ arena = "idle"

WalkSteps ==
  \/ Open \/ StartDisk \/ AdmitDiscovery \/ GiveUpWalk \/ CloseWalk \/ Report

SendStep(w) ==
  \/ \E r \in Repos : Visit(w, r)
  \/ TakePlace(w) \/ LockPipe(w) \/ Grown(w) \/ Send(w) \/ Refused(w)

GitSteps ==
  \/ StartGit \/ GiveUpGit \/ Receive \/ Spawn \/ StopReceiving \/ EndGit
  \/ \E r \in Repos, ok \in BOOLEAN : ProbeEnds(r, ok)

ArenaSteps == GrowArena \/ Replace \/ Absorb \/ DropArena

Next ==
  \/ WalkSteps \/ GitSteps \/ ArenaSteps \/ Cancel
  \/ \E w \in Walkers : SendStep(w)
  \/ \E a \in Audits : Admit(a) \/ Leave(a)
  \/ \E h \in Holders : Charge(h)

Spec == Init /\ [][Next]_vars

\* Every task and thread goes on; the inventory and the user need not.
FairSpec ==
  /\ Spec
  /\ WF_vars(WalkSteps) /\ WF_vars(GitSteps)
  /\ \A w \in Walkers : WF_vars(SendStep(w))
  /\ \A a \in Audits : WF_vars(Leave(a))
  /\ \A h \in Holders : WF_vars(Charge(h))

-----------------------------------------------------------------------------
(* Properties.                                                             *)

CallsAt == {"none", "load", "exchange", "raise", "reclaim", "granted", "refused"}

\* Types.
TypeOK ==
  /\ held \in [Holders -> 0..Limit]
  /\ call \in [Holders -> [at : CallsAt, asked : Nat, seen : 0..Limit, again : BOOLEAN]]
  /\ unseen \cup charged \cup probing \cup done \subseteq Repos
  /\ walker \in [Walkers -> [at : {"idle", "slot", "lock", "grow", "send", "refused"},
                             repo : Repos \cup {Nobody}]]
  /\ pipe.queue \in Seq(Repos) /\ pipe.places \in 0..Capacity
  /\ pipe.lock \in Walkers \cup {Nobody}
  /\ Len(pipe.queue) + pipe.places <= Capacity
  /\ Cardinality(Admitted) <= Slots /\ Cardinality(probing) <= Probes
  /\ limited \in BOOLEAN /\ token \in BOOLEAN

\* The counter is what the reservations hold and what has been exchanged but
\* not yet entered, never more than the limit; the peak has seen it all.
Entering == {h \in Holders : call[h].at = "raise"}
Accounted ==
  /\ used = SumFunctionOnSet(held, Holders) + SumFunctionOnSet([h \in Holders |-> call[h].asked], Entering)
  /\ used <= Limit /\ peak <= Limit
  /\ Entering = {} => used <= peak

\* While an end of the pipe lives, the queue and every discovery that was
\* accepted stay charged, within the pipe's limit; afterwards nothing is.
PipeIsCharged ==
  IF pipe.sender \/ pipe.receiver
    THEN /\ held[Pipe] <= pipe.limit
         /\ call[Pipe].at # "granted" =>
              held[Pipe] = QueueBytes + SumFunctionOnSet(Size, charged)
    ELSE pipe.state # "opening" => held[Pipe] = 0

\* A walk that says it was complete has handed over every repository: the
\* Git section has dealt with it, is at it, or will be.
NothingLostUnsaid ==
  walk.verdict = "complete" /\ git.result # "cancelled" /\ ~token =>
    /\ Repos = done \cup probing \cup ToSet(pipe.queue) \cup ({git.repo} \ {Nobody})
    /\ git.result = "ok" => done = Repos

\* The section ends and the pipe's memory is given back.
Drained == git.phase = "ended" /\ walk.phase = "over" /\ held[Pipe] = 0
PipelineDrains == <>[]Drained
=============================================================================
