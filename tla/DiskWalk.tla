------------------------------ MODULE DiskWalk ------------------------------
(***************************************************************************)
(* The parallel walk of a tree (src/src/scan/walk/mod.rs) and the disk     *)
(* inventory it fills (src/src/inventory.rs).  Every directory is scanned  *)
(* by some thread while others scan its siblings; directories, hard links  *)
(* and the largest files meet in shared tables; totals go twice, first a   *)
(* directory's own and then those of everything below it, through a        *)
(* bounded channel to the thread that rolls them up in the arena.          *)
(*                                                                         *)
(* Abstracted: apparent sizes, which are added up as allocated ones are;   *)
(* the files over a threshold, which are kept like the largest ones but    *)
(* never replaced; the number of entries, of which there may be too many   *)
(* at any directory; memory, which may be refused at any request; paths,   *)
(* which are compared by their rank; what the visitor does besides         *)
(* choosing what to enter (RepoPipe has the rest).                         *)
(***************************************************************************)
EXTENDS Integers, SequencesExt

CONSTANTS
  Dirs, Root, Files,
  Listing,      \* the entries of each directory, in the order they are listed
  Node,         \* (dev, ino) of each directory entry
  Inode,        \* (dev, ino) of each file entry
  NLink,        \* of each inode
  Alloc,        \* of each inode
  Rank,         \* the order of the files' paths
  Excluded, MountPoints, Skipped,   \* directories that are not entered
  NoTop,        \* directories whose files are not among the largest
  Results,      \* what listing each directory may come to
  Faults,       \* "memory", "cancel", "entries"
  TopN,
  ChannelCap,
  Nobody

Entries == Dirs \cup Files
Inodes == {Inode[f] : f \in Files}
Outcomes == {"ok", "partial", "unreadable", "nomem", "dataless", "device", "deep"}

ASSUME WalkAssumption ==
  /\ Root \in Dirs /\ Listing \in [Dirs -> Seq(Entries)]
  /\ \A d \in Dirs : IsInjective(Listing[d])
  /\ Excluded \cup MountPoints \cup Skipped \subseteq Dirs \ {Root}
  /\ Results \in [Dirs -> SUBSET Outcomes] /\ Results[Root] = {"ok"}
  /\ TopN \in Nat /\ ChannelCap \in Nat \ {0}
  /\ \A i \in Inodes : Alloc[i] \in Nat /\ NLink[i] \in Nat \ {0}

VARIABLES
  scan,        \* per directory: where its scan is
  cancelled,   \* the walk's token or deadline
  stopped,     \* Walk.stopped
  limited,     \* Walk.resource_limited
  unwalked,    \* Walk.excluded, aliases, mounts and dataless
  seenDirs,    \* Walk.seen_dirs
  links,       \* Walk.links
  top,         \* Walk.top
  channel,     \* InventoryCollector.updates
  collector,   \* are there senders, and is the aggregator joined?
  arena,       \* the totals in the inventory, of the directories added
  result       \* what walk returns, or Nobody

shared == <<stopped, limited, unwalked, seenDirs, links, top>>
inventory == <<channel, collector, arena>>
vars == <<scan, cancelled, shared, inventory, result>>

-----------------------------------------------------------------------------
(* The tree.                                                               *)

Listed(d) == ToSet(Listing[d])
Up(d) == CHOOSE p \in Dirs : d \in Listed(p)
In(f) == CHOOSE d \in Dirs : f \in Listed(d)

\* Entries are paths: one way leads from the root to each, and it ends.
ASSUME PathAssumption ==
  /\ IsFiniteSet(Dirs) /\ IsFiniteSet(Files) /\ Dirs \cap Files = {}
  /\ \A d \in Dirs : Root \notin Listed(d)
  /\ \A e \in Entries \ {Root} : \E d \in Dirs : \A p \in Dirs : e \in Listed(p) <=> p = d
  /\ \A s \in SUBSET Dirs : s # {} => \E c \in s : \A p \in s : c \notin Listed(p)
  /\ \A f, g \in Files : Rank[f] \in Int /\ (Rank[f] = Rank[g] => f = g)

\* An inode has no more links than it says, when a directory that has two
\* paths is read by one of them.
ASSUME LinkAssumption ==
  \A i \in Inodes : \A fs \in SUBSET {f \in Files : Inode[f] = i} :
    (\A f, g \in fs : Node[In(f)] = Node[In(g)] => In(f) = In(g)) =>
      Cardinality(fs) <= NLink[i]

\* A directory and the directories it is in.
Line[d \in Dirs] == IF d = Root THEN {Root} ELSE {d} \cup Line[Up(d)]
Under(d) == {x \in Dirs : d \in Line[x]}

-----------------------------------------------------------------------------
(* Totals: DirNode.                                                        *)

Totals == [alloc : Nat, files : Nat, dirs : Nat, errors : Nat]
Zero == [alloc |-> 0, files |-> 0, dirs |-> 0, errors |-> 0]
ASSUME ResultAssumption == Nobody \notin Files \cup [root : Totals, complete : BOOLEAN]

Plus(s, t) ==
  [alloc |-> s.alloc + t.alloc, files |-> s.files + t.files,
   dirs |-> s.dirs + t.dirs, errors |-> s.errors + t.errors]

\* saturating_sub.
Minus(s, t) ==
  [k \in DOMAIN s |-> IF s[k] < t[k] THEN 0 ELSE s[k] - t[k]]

File(i) == [Zero EXCEPT !.alloc = Alloc[i], !.files = 1]
Subdir(t) == [t EXCEPT !.dirs = @ + 1]

\* The roll-up of a directory's own totals and those its children returned.
RolledUp(d) == FoldSet(LAMBDA c, t : Plus(t, Subdir(scan[c].total)),
                       scan[d].total, scan[d].kids)

-----------------------------------------------------------------------------
(* The inventory.                                                          *)

\* Mistaken variant: only the directory itself and the one above it learn.
RollupOnce(a, d, totals) ==
  [x \in DOMAIN a |->
     IF x = d THEN totals
     ELSE IF d # Root /\ x = Up(d) THEN Plus(Minus(a[x], a[d]), totals)
     ELSE a[x]]

\* update_rollup: the difference goes to every directory above.
Rollup(a, d, totals) ==
  [x \in DOMAIN a |->
     IF x = d THEN totals
     ELSE IF x \in Line[d] THEN Plus(Minus(a[x], a[d]), totals)
     ELSE a[x]]

\* Mistaken variant: the file is taken from its directory and given to the
\* other, but not from and to those above.
TransferredHere(a, from, to, i) ==
  [x \in DOMAIN a |->
     LET less == IF x = from THEN Minus(a[x], File(i)) ELSE a[x]
     IN  IF x = to THEN Plus(less, File(i)) ELSE less]

\* transfer_file_charge.
Transferred(a, from, to, i) ==
  [x \in DOMAIN a |->
     LET less == IF x \in Line[from] THEN Minus(a[x], File(i)) ELSE a[x]
     IN  IF x \in Line[to] THEN Plus(less, File(i)) ELSE less]

\* The loop over the links once all totals are in.
Settled(a) ==
  FoldSet(LAMBDA i, b : Transferred(b, In(links[i].charged), In(links[i].owner), i),
          a, {i \in DOMAIN links : links[i].owner # links[i].charged})

-----------------------------------------------------------------------------
(* The largest files: offer_top.                                           *)

SizeOf(f) == Alloc[Inode[f]]
IsEmpty(f) == SizeOf(f) = 0

\* The least of a full heap: by size, then by path.
Least(files) ==
  CHOOSE f \in files : \A g \in files :
    \/ SizeOf(f) < SizeOf(g)
    \/ SizeOf(f) = SizeOf(g) /\ Rank[f] <= Rank[g]

\* Mistaken variant: the heap grows without a bound.
OfferedAll(files, f) == files \cup {f}

Offered(files, f) ==
  IF IsEmpty(f) THEN files
  ELSE IF Cardinality(files) < TopN THEN files \cup {f}
  ELSE IF files # {} /\ SizeOf(f) > SizeOf(Least(files))
         THEN (files \ {Least(files)}) \cup {f}
  ELSE files

\* The links are offered at the end, when their owners are known.
LinkTops == {links[i].top : i \in DOMAIN links} \ {Nobody}
WithLinks(offers) == FoldSet(LAMBDA f, t : Offered(t, f), top, offers)

-----------------------------------------------------------------------------
(* Stopping.                                                               *)

\* stop_requested: whoever asks first sets the flag.
Stop == stopped \/ cancelled

\* Memory is refused or not.
Memory == IF "memory" \in Faults THEN BOOLEAN ELSE {TRUE}

\* What every refusal does.
OutOfMemory == stopped' = TRUE /\ limited' = TRUE

Cancel ==
  /\ "cancel" \in Faults /\ ~cancelled /\ result = Nobody
  /\ cancelled' = TRUE
  /\ UNCHANGED <<scan, shared, inventory, result>>

-----------------------------------------------------------------------------
(* scan_dir.                                                               *)

Unscanned == [at |-> "none", next |-> 1, kids |-> {}, total |-> Zero]
Goes(d, at) == scan' = [scan EXCEPT ![d].at = at]
Returns(d, errors) ==
  scan' = [scan EXCEPT ![d].at = "done", ![d].total.errors = errors]

\* A walk that stopped returns before it looks.
TurnBack(d) ==
  /\ scan[d].at \in {"called", "listed"} /\ Stop
  /\ stopped' = TRUE
  /\ Returns(d, scan[d].total.errors)
  /\ UNCHANGED <<cancelled, limited, unwalked, seenDirs, links, top,
                 inventory, result>>

\* The directory is opened and listed, with or without some of its entries.
List(d, outcome) ==
  /\ scan[d].at = "called" /\ ~Stop
  /\ outcome \in Results[d] \cap {"ok", "partial"}
  /\ scan' = [scan EXCEPT ![d].at = "listed",
                          ![d].total.errors = IF outcome = "ok" THEN 0 ELSE 1]
  /\ UNCHANGED <<cancelled, shared, inventory, result>>

\* It cannot be, and the inventory is told.
Fail(d, outcome) ==
  /\ scan[d].at = "called" /\ ~Stop
  /\ outcome \in Results[d] \cap {"unreadable", "nomem", "dataless"}
  /\ scan' = [scan EXCEPT ![d].at = "tellError", ![d].total.errors = 1]
  /\ IF outcome = "nomem" THEN OutOfMemory ELSE UNCHANGED <<stopped, limited>>
  /\ unwalked' = [unwalked EXCEPT !.dataless = @ + IF outcome = "dataless" THEN 1 ELSE 0]
  /\ UNCHANGED <<cancelled, seenDirs, links, top, inventory, result>>

\* It is on another device, or too deep.
Leave(d, outcome) ==
  /\ scan[d].at = "called" /\ ~Stop
  /\ outcome \in Results[d] \cap {"device", "deep"}
  /\ Returns(d, 0)
  /\ IF outcome = "deep" THEN OutOfMemory ELSE UNCHANGED <<stopped, limited>>
  /\ unwalked' = [unwalked EXCEPT !.mounts = @ + IF outcome = "device" THEN 1 ELSE 0]
  /\ UNCHANGED <<cancelled, seenDirs, links, top, inventory, result>>

-----------------------------------------------------------------------------
(* scan_listed.                                                            *)

\* The entries are counted, which may be one too many for the walk, and
\* memory is set aside for the subdirectories.
Begin(d) ==
  /\ scan[d].at = "listed" /\ ~Stop
  /\ \/ /\ Goes(d, "looking")
        /\ stopped' \in IF "entries" \in Faults THEN BOOLEAN ELSE {FALSE}
        /\ UNCHANGED limited
     \/ /\ FALSE \in Memory
        /\ Returns(d, scan[d].total.errors + 1) /\ OutOfMemory
  /\ UNCHANGED <<cancelled, unwalked, seenDirs, links, top, inventory, result>>

Entry(d) == Listing[d][scan[d].next]
IsAt(d, kinds) ==
  /\ scan[d].at = "looking" /\ scan[d].next <= Len(Listing[d]) /\ Entry(d) \in kinds
Onward(d) == [scan EXCEPT ![d].next = @ + 1]

\* The loop ends before its time.
Breaks(d) == Goes(d, "tellOwn") /\ OutOfMemory

Seen(c) == Node[c] \in seenDirs

\* An entry that is not entered is counted for what it is; one the visitor
\* skips is not counted at all.
PassBy(d) ==
  /\ IsAt(d, Dirs)
  /\ LET c == Entry(d)
         kind == IF c \in Excluded THEN "excluded"
                 ELSE IF c \in MountPoints THEN "mounts"
                 ELSE IF Seen(c) THEN "aliases" ELSE "none"
     IN  /\ kind # "none"
         /\ unwalked' = [unwalked EXCEPT ![kind] = @ + 1]
  /\ scan' = Onward(d)
  /\ UNCHANGED <<cancelled, stopped, limited, seenDirs, links, top,
                 inventory, result>>

Enterable(d) ==
  /\ IsAt(d, Dirs)
  /\ Entry(d) \notin Excluded \cup MountPoints /\ ~Seen(Entry(d))

\* The directory is marked, and added to the inventory.
Descend(d) ==
  /\ Enterable(d)
  /\ LET c == Entry(d)
     IN  /\ seenDirs' = seenDirs \cup {Node[c]}
         /\ IF c \in Skipped
              THEN scan' = Onward(d) /\ UNCHANGED arena
              ELSE /\ scan' = [Onward(d) EXCEPT ![d].kids = @ \cup {c}]
                   /\ arena' = [x \in DOMAIN arena \cup {c} |->
                                 IF x = c THEN Zero ELSE arena[x]]
  /\ UNCHANGED <<cancelled, stopped, limited, unwalked, links, top,
                 channel, collector, result>>

\* No memory to mark it, or to add it.
NoRoom(d) ==
  /\ Enterable(d) /\ FALSE \in Memory
  /\ seenDirs' \in {seenDirs, seenDirs \cup {Node[Entry(d)]}}
  /\ Breaks(d)
  /\ UNCHANGED <<cancelled, unwalked, links, top, inventory, result>>

Counted(d, f) == [Onward(d) EXCEPT ![d].total = Plus(@, File(Inode[f]))]
Linked(f) == NLink[Inode[f]] > 1

\* A file with one link.
CountFile(d) ==
  /\ IsAt(d, Files) /\ ~Linked(Entry(d))
  /\ LET f == Entry(d)
     IN  /\ scan' = Counted(d, f)
         /\ \/ /\ top' = IF d \in NoTop THEN top ELSE Offered(top, f)
               /\ UNCHANGED <<stopped, limited>>
            \/ /\ d \notin NoTop /\ ~IsEmpty(f) /\ Cardinality(top) < TopN /\ FALSE \in Memory
               /\ OutOfMemory /\ UNCHANGED top
  /\ UNCHANGED <<cancelled, unwalked, seenDirs, links, inventory, result>>

\* The first link that is met has the file charged to its directory.
FirstLink(d) ==
  /\ IsAt(d, Files) /\ Linked(Entry(d))
  /\ LET f == Entry(d)
         i == Inode[f]
         new == [seen |-> 1, charged |-> f, owner |-> f,
                 top |-> IF d \in NoTop THEN Nobody ELSE f]
     IN  /\ i \notin DOMAIN links
         /\ links' = [j \in DOMAIN links \cup {i} |-> IF j = i THEN new ELSE links[j]]
         /\ scan' = Counted(d, f)
  /\ UNCHANGED <<cancelled, stopped, limited, unwalked, seenDirs, top,
                 inventory, result>>

\* A further link may take over: the owner is the least path of all, and
\* the one among the largest files the least of those that may be there.
NextLink(d) ==
  /\ IsAt(d, Files) /\ Linked(Entry(d))
  /\ LET f == Entry(d)
         i == Inode[f]
         Lesser(g) == g = Nobody \/ Rank[f] < Rank[g]
     IN  /\ i \in DOMAIN links
         /\ links' = [links EXCEPT
              ![i].seen = @ + 1,
              ![i].owner = IF Lesser(@) THEN f ELSE @,
              ![i].top = IF d \notin NoTop /\ Lesser(@) THEN f ELSE @]
         /\ scan' = Onward(d)
  /\ UNCHANGED <<cancelled, stopped, limited, unwalked, seenDirs, top,
                 inventory, result>>

\* No memory to remember a link, which may have been seen already.
LinkForgotten(d) ==
  /\ IsAt(d, Files) /\ Linked(Entry(d)) /\ FALSE \in Memory
  /\ LET i == Inode[Entry(d)]
     IN  links' = IF i \in DOMAIN links THEN [links EXCEPT ![i].seen = @ + 1]
                  ELSE links
  /\ Breaks(d)
  /\ UNCHANGED <<cancelled, unwalked, seenDirs, top, inventory, result>>

\* The loop is through.
EndListing(d) ==
  /\ scan[d].at = "looking" /\ scan[d].next > Len(Listing[d])
  /\ Goes(d, "tellOwn")
  /\ UNCHANGED <<cancelled, shared, inventory, result>>

\* What follows when the totals have been sent.
After(d) ==
  CASE scan[d].at = "tellOwn" ->
         [x \in Dirs |->
            IF x = d THEN [scan[d] EXCEPT !.at = "below"]
            ELSE IF x \in scan[d].kids THEN [scan[x] EXCEPT !.at = "called"]
            ELSE scan[x]]
    [] OTHER -> [scan EXCEPT ![d].at = "done"]

\* publish: the sender waits for room, or has no memory to send.
Telling == {"tellOwn", "tellTotal", "tellError"}
Publish(d) ==
  /\ scan[d].at \in Telling /\ Len(channel) < ChannelCap
  /\ channel' = Append(channel, [dir |-> d, totals |-> scan[d].total,
                                 last |-> scan[d].at # "tellOwn"])
  /\ scan' = After(d)
  /\ UNCHANGED <<cancelled, shared, collector, arena, result>>

\* An error that could not be told is in the totals above all the same.
Unpublished(d) ==
  /\ scan[d].at \in Telling /\ FALSE \in Memory
  /\ IF scan[d].at = "tellError" THEN UNCHANGED <<stopped, limited>>
     ELSE OutOfMemory
  /\ scan' = After(d)
  /\ UNCHANGED <<cancelled, unwalked, seenDirs, links, top, inventory, result>>

\* Every child has returned.
RollUp(d) ==
  /\ scan[d].at = "below" /\ \A c \in scan[d].kids : scan[c].at = "done"
  /\ scan' = [scan EXCEPT ![d].at = "tellTotal", ![d].total = RolledUp(d)]
  /\ UNCHANGED <<cancelled, shared, inventory, result>>

-----------------------------------------------------------------------------
(* The aggregator and the end of the walk.                                 *)

Aggregate ==
  /\ channel # <<>>
  /\ arena' = Rollup(arena, Head(channel).dir, Head(channel).totals)
  /\ channel' = Tail(channel)
  /\ UNCHANGED <<scan, cancelled, shared, collector, result>>

\* Mistaken variant: the collector joins the thread it still sends to.
StillSending == "sending"

\* complete: the last sender is dropped before the join.
NotSending == "closed"

CloseUpdates ==
  /\ collector = "sending" /\ scan[Root].at = "done"
  /\ collector' = NotSending
  /\ UNCHANGED <<scan, cancelled, shared, channel, arena, result>>

\* The aggregator finds the channel empty and without senders.
EndAggregator ==
  /\ collector = "closed" /\ channel = <<>>
  /\ collector' = "joined"
  /\ UNCHANGED <<scan, cancelled, shared, channel, arena, result>>

\* walk_impl: the links settle, and the walk says whether it was complete.
Conclude ==
  /\ result = Nobody /\ collector = "joined"
  /\ \E refused \in SUBSET {f \in LinkTops : ~IsEmpty(f)} :
       /\ refused # {} => FALSE \in Memory /\ Cardinality(top) < TopN
       /\ top' = WithLinks(LinkTops \ refused)
       /\ stopped' = (stopped \/ refused # {})
       /\ limited' = (limited \/ refused # {})
  /\ arena' = Settled(arena)
  /\ result' = [root |-> scan[Root].total,
                complete |-> /\ ~stopped' /\ scan[Root].total.errors = 0
                             /\ unwalked.dataless = 0 /\ unwalked.excluded = 0]
  /\ UNCHANGED <<scan, cancelled, unwalked, seenDirs, links, channel, collector>>

-----------------------------------------------------------------------------
\* The root is listed before anything is shared.
Init ==
  /\ scan = [d \in Dirs |-> IF d = Root THEN [Unscanned EXCEPT !.at = "listed"]
                            ELSE Unscanned]
  /\ cancelled = FALSE /\ stopped = FALSE /\ limited = FALSE
  /\ unwalked = [excluded |-> 0, aliases |-> 0, mounts |-> 0, dataless |-> 0]
  /\ seenDirs = {Node[Root]} /\ links = <<>> /\ top = {}
  /\ channel = <<>> /\ collector = "sending" /\ arena = [d \in {Root} |-> Zero]
  /\ result = Nobody

ScanStep(d) ==
  \/ TurnBack(d)
  \/ \E outcome \in Outcomes : List(d, outcome) \/ Fail(d, outcome) \/ Leave(d, outcome)
  \/ Begin(d) \/ PassBy(d) \/ Descend(d) \/ NoRoom(d)
  \/ CountFile(d) \/ FirstLink(d) \/ NextLink(d) \/ LinkForgotten(d)
  \/ EndListing(d) \/ Publish(d) \/ Unpublished(d) \/ RollUp(d)

EndSteps == CloseUpdates \/ EndAggregator \/ Conclude

Next == (\E d \in Dirs : ScanStep(d)) \/ Aggregate \/ EndSteps \/ Cancel

Spec == Init /\ [][Next]_vars

\* Some thread of the pool goes on with every directory.
FairSpec ==
  /\ Spec
  /\ \A d \in Dirs : WF_vars(ScanStep(d))
  /\ WF_vars(Aggregate) /\ WF_vars(EndSteps)

-----------------------------------------------------------------------------
(* Properties.                                                             *)

\* Types, the bounds of the channel and of the largest files, which are never
\* empty ones.
TypeOK ==
  /\ \A d \in Dirs :
       /\ scan[d].at \in Telling \cup {"none", "called", "listed", "looking",
                                      "below", "done"}
       /\ scan[d].kids \subseteq Listed(d) \cap DOMAIN arena
       /\ scan[d].total \in Totals
  /\ Root \in DOMAIN arena /\ arena \in [DOMAIN arena -> Totals]
  /\ Len(channel) <= ChannelCap
  /\ {stopped, limited, cancelled} \subseteq BOOLEAN
  /\ top \subseteq {f \in Files : ~IsEmpty(f)} /\ Cardinality(top) <= TopN
  /\ \A i \in DOMAIN links : links[i].seen \in 1..NLink[i]

\* What a set of files takes, each inode once.
InodesOf(files) == {Inode[f] : f \in files}
AllocOf(files) == FoldSet(LAMBDA i, n : Alloc[i] + n, 0, InodesOf(files))

\* The files whose totals the aggregator has received.
IsQueued(d) == \E k \in DOMAIN channel : channel[k].dir = d /\ ~channel[k].last
Received(d) ==
  IF scan[d].at \in {"looking", "tellOwn"} \/ IsQueued(d) THEN {}
  ELSE {f \in Listed(d) \cap Files :
          /\ scan[d].next > Len(Listing[d])
          /\ Linked(f) => links[Inode[f]].charged = f}

\* As long as memory lasts, a directory of a partial inventory has what was
\* received of it and of every directory under it, whatever came first.
RollupHolds ==
  ~limited /\ result = Nobody =>
    \A d \in DOMAIN arena :
      LET files == UNION {Received(x) : x \in Under(d)}
      IN  arena[d].alloc = AllocOf(files) /\ arena[d].files = Cardinality(files)

Walked == DOMAIN arena
Met == {f \in Files : In(f) \in Walked /\ scan[In(f)].next > 1}
Owners == {f \in Met : \A g \in Met : Inode[g] = Inode[f] => Rank[f] <= Rank[g]}

\* A complete walk has passed by no directory, and its inventory is what one
\* thread would make of it: each file once, in the directory of its least
\* path, and every directory with all that is under it.
InventoryIsExact ==
  /\ \A d \in Walked :
       LET owned == {f \in Owners : In(f) \in Under(d)}
       IN  arena[d] = [alloc |-> AllocOf(owned), files |-> Cardinality(owned),
                       dirs |-> Cardinality(Under(d) \cap Walked) - 1, errors |-> 0]
  /\ arena[Root] = result.root
  /\ \A d \in Walked, c \in Dirs \ (Walked \cup MountPoints \cup Skipped) :
       c \in Listed(d) /\ scan[d].next > 1 => \E x \in Walked \cup Skipped : Node[x] = Node[c]

\* The largest files are the largest of those that may be named and are not
\* empty, and a file with several links is named by the least of them.
Nameable == {f \in Met : In(f) \notin NoTop}
Named == {f \in Nameable : \A g \in Nameable : Inode[g] = Inode[f] => Rank[f] <= Rank[g]}
LargestAreNamed ==
  LET full == {f \in Named : ~IsEmpty(f)}
  IN  /\ top \subseteq full
      /\ full # top => Cardinality(top) = TopN
      /\ \A f \in top, g \in full \ top : SizeOf(f) >= SizeOf(g)

ResultIsExact ==
  result # Nobody /\ result.complete => InventoryIsExact /\ LargestAreNamed

\* Every walk ends, however small the channel.
WalkEnds == <>(result # Nobody)
=============================================================================
