--------------------------- MODULE RepoPipe_proofs ---------------------------
(***************************************************************************)
(* Proofs about RepoPipe, for any repositories, threads, audits, limits    *)
(* and sizes: the types and bounds, what the memory budget counts, what    *)
(* the pipe is charged with, and that no discovery of a walk that calls    *)
(* itself complete is lost.                                                *)
(*                                                                         *)
(* Inv is the inductive invariant, one conjunct per thing that is shared:  *)
(* the budget, the places of the channel, the threads of the walk, the     *)
(* ends of the pipe, its lock, its charge, and the way of a discovery.     *)
(***************************************************************************)
EXTENDS RepoPipe, Sums_proofs

-----------------------------------------------------------------------------
(* The inductive invariant.                                                *)

Calls == [at : CallsAt, asked : Nat, seen : 0..Limit, again : BOOLEAN]
Asked == [h \in Holders |-> call[h].asked]

\* A charge that was decided fits what it saw, and the counter is never above
\* the peak and what will raise it.
BudgetInv ==
  /\ used \in 0..Limit /\ peak \in 0..Limit
  /\ held \in [Holders -> 0..Limit] /\ call \in [Holders -> Calls]
  /\ used = SumFunctionOnSet(held, Holders) + SumFunctionOnSet(Asked, Entering)
  /\ \A h \in Holders : call[h].at \in {"exchange", "raise"} =>
       call[h].seen + call[h].asked <= Limit
  /\ used <= peak \/ \E h \in Entering : used <= call[h].seen + call[h].asked

Phases == {"waiting", "walking", "report", "over"}
GitPhases == {"waiting", "receiving", "holding", "draining", "ended"}
WalkerStates == [at : {"idle", "slot", "lock", "grow", "send", "refused"},
                 repo : Repos \cup {Nobody}]
Placed == {w \in Walkers : walker[w].at \in {"lock", "grow", "send"}}

AdmissionTypes ==
  /\ token \in BOOLEAN /\ limited \in BOOLEAN
  /\ admission \in [started : BOOLEAN,
                    of : [Audits \cup {Home} -> {"waiting", "in", "out"}]]
  /\ IsFiniteSet(Admitted) /\ Cardinality(Admitted) <= Slots

WalkTypes ==
  /\ walk \in [separate : BOOLEAN, phase : Phases, whole : BOOLEAN,
               verdict : {"none", "complete", "incomplete"}]
  /\ unseen \subseteq Repos /\ walker \in [Walkers -> WalkerStates]

PipeTypes ==
  /\ pipe \in [state : {"opening", "open", "closed"}, sender : BOOLEAN,
               receiver : BOOLEAN, queue : Seq(Repos), places : Nat,
               lock : Walkers \cup {Nobody}, limit : PipeLimits]
  /\ charged \subseteq Repos /\ IsFiniteSet(charged)

GitTypes ==
  /\ git \in [phase : GitPhases, repo : Repos \cup {Nobody}, failed : BOOLEAN,
              result : {"none", "ok", "failed", "cancelled"}]
  /\ probing \subseteq Repos /\ IsFiniteSet(probing) /\ Cardinality(probing) <= Probes
  /\ done \subseteq Repos

FlowTypes == AdmissionTypes /\ WalkTypes /\ PipeTypes /\ GitTypes

\* A place is reserved by each thread between its slot and its send.
PlacesInv ==
  /\ IsFiniteSet(Placed) /\ pipe.places = Cardinality(Placed)
  /\ Len(pipe.queue) + pipe.places <= Capacity

\* A thread is in send with a repository of its own, only while the walk
\* walks and, with a place, only while the walk's end of the pipe lives.
WalkersInv ==
  /\ \A w \in Walkers : walker[w].at # "idle" =>
       /\ walk.phase = "walking"
       /\ walker[w].repo \in Repos \ unseen
       /\ walker[w].at \in {"slot", "lock", "grow"} => walker[w].repo \notin charged
       /\ walker[w].at \in {"lock", "grow", "send"} => pipe.sender
  /\ \A w, v \in Walkers :
       /\ w # v /\ walker[w].at # "idle" /\ walker[v].at # "idle"
       => walker[w].repo # walker[v].repo
  /\ unseen \cap charged = {}

\* Before the pipe is open nothing happens, and how its ends go.
EndsInv ==
  /\ pipe.state = "opening" =>
       /\ ~pipe.sender /\ ~pipe.receiver /\ charged = {}
       /\ walk.phase = "waiting" /\ git.phase = "waiting" /\ ~token
       /\ ~admission.started
  /\ pipe.sender \/ pipe.receiver => pipe.state = "open"
  /\ pipe.state = "open" /\ ~pipe.sender => walk.phase \in {"report", "over"}
  /\ pipe.state = "open" /\ ~pipe.receiver => git.phase = "ended"
  /\ ~pipe.receiver => pipe.queue = <<>>
  /\ walk.phase # "waiting" => admission.started \/ token
  /\ walk.separate /\ admission.of[Home] = "waiting" => walk.phase = "waiting"
  /\ walk.phase \in {"report", "over"} => ~pipe.sender

\* The one charge of the pipe that may be in progress is that of the queue,
\* or of the thread that has the lock.
LockInv ==
  /\ \A w \in Walkers : walker[w].at = "grow" <=> pipe.lock = w
  /\ pipe.state = "opening" =>
       call[Pipe].at # "none" /\ call[Pipe].asked = QueueBytes
  /\ pipe.state # "opening" =>
       /\ (call[Pipe].at # "none" <=> pipe.lock # Nobody)
       /\ pipe.lock # Nobody => call[Pipe].asked = Size[walker[pipe.lock].repo]

\* What the pipe holds.
ChargedInv ==
  /\ pipe.state = "opening" =>
       held[Pipe] = IF call[Pipe].at = "granted" THEN QueueBytes ELSE 0
  /\ pipe.sender \/ pipe.receiver =>
       /\ held[Pipe] = QueueBytes + SumFunctionOnSet(Size, charged)
                        + (IF call[Pipe].at = "granted" THEN call[Pipe].asked ELSE 0)
       /\ held[Pipe] <= pipe.limit
       /\ call[Pipe].at \notin {"none", "granted"} =>
            held[Pipe] + call[Pipe].asked <= pipe.limit
  /\ ~pipe.sender /\ ~pipe.receiver /\ pipe.state # "opening" => held[Pipe] = 0

\* In a run that is neither limited nor cancelled every repository is
\* somewhere between the walk and the section's results.
Walked == {walker[w].repo : w \in {v \in Walkers : walker[v].at # "idle"}}
Somewhere ==
  done \cup probing \cup ToSet(pipe.queue) \cup ({git.repo} \ {Nobody})

NothingLost == ~limited /\ ~token => Repos \subseteq unseen \cup Walked \cup Somewhere

\* How far the section and the walk are: without a cancellation the section
\* stops receiving when nothing can come any more.
SectionInv ==
  /\ (git.phase = "holding" <=> git.repo # Nobody)
  /\ git.phase \in {"draining", "ended"} /\ ~token => ~pipe.sender /\ pipe.queue = <<>>
  /\ git.phase \in {"waiting", "ended"} => probing = {}
  /\ git.result # "none" => git.phase = "ended"
  /\ walk.whole => unseen = {} /\ ~limited /\ walk.phase \in {"report", "over"}
  /\ walk.verdict = "complete" => walk.whole

Inv ==
  /\ BudgetInv /\ FlowTypes /\ PlacesInv /\ WalkersInv /\ EndsInv /\ LockInv
  /\ ChargedInv /\ NothingLost /\ SectionInv

-----------------------------------------------------------------------------
(* The budget.                                                             *)

LEMMA OneMore ==
  ASSUME NEW s, NEW x, NEW n \in Nat, IsFiniteSet(s), Cardinality(s) <= n
  PROVE  IsFiniteSet(s \cup {x}) /\ Cardinality(s \cup {x}) <= n + 1
<1>1. Cardinality(s) \in Nat
  BY FS_CardinalityType
<1>2. IsFiniteSet(s \cup {x}) /\ (Cardinality(s \cup {x}) = Cardinality(s) \/ Cardinality(s \cup {x}) = Cardinality(s) + 1)
  BY FS_AddElement
<1> QED BY <1>1, <1>2

LEMMA FourOf ==
  ASSUME NEW a, NEW b, NEW c, NEW d, Cardinality({a, b, c, d}) = 4
  PROVE  IsFiniteSet({a, b, c, d}) /\ a # b /\ a # c /\ a # d /\ b # c /\ b # d /\ c # d
<1>1. \A x, y, z : IsFiniteSet({x, y, z}) /\ Cardinality({x, y, z}) <= 3
  <2> TAKE x, y, z
  <2>1. IsFiniteSet({}) /\ Cardinality({}) = 0
    BY FS_EmptySet
  <2> DEFINE s1 == {} \cup {x}
             s2 == s1 \cup {y}
             s3 == s2 \cup {z}
  <2>2. IsFiniteSet(s1) /\ Cardinality(s1) <= 1
    <3> DEFINE s0 == {}
               n == 0
    <3>1. IsFiniteSet(s0) /\ Cardinality(s0) <= n /\ n \in Nat
      BY <2>1
    <3> HIDE DEF s0, n
    <3>2. IsFiniteSet(s0 \cup {x}) /\ Cardinality(s0 \cup {x}) <= n + 1
      BY <3>1, OneMore
    <3> QED BY <3>2 DEF s0, n
  <2>3. IsFiniteSet(s2) /\ Cardinality(s2) <= 2
    <3> DEFINE n == 1
    <3>1. IsFiniteSet(s1) /\ Cardinality(s1) <= n /\ n \in Nat
      BY <2>2
    <3> HIDE DEF s1, n
    <3>2. IsFiniteSet(s1 \cup {y}) /\ Cardinality(s1 \cup {y}) <= n + 1
      BY <3>1, OneMore
    <3> QED BY <3>2 DEF s1, n
  <2>4. IsFiniteSet(s3) /\ Cardinality(s3) <= 3
    <3> DEFINE n == 2
    <3>1. IsFiniteSet(s2) /\ Cardinality(s2) <= n /\ n \in Nat
      BY <2>3
    <3> HIDE DEF s2, n
    <3>2. IsFiniteSet(s2 \cup {z}) /\ Cardinality(s2 \cup {z}) <= n + 1
      BY <3>1, OneMore
    <3> QED BY <3>2 DEF s2, n
  <2>5. s3 = {x, y, z}
    OBVIOUS
  <2> QED BY <2>4, <2>5
<1>2. ASSUME NEW x, NEW y, NEW z, {a, b, c, d} = {x, y, z} PROVE FALSE
  <2> DEFINE t == {x, y, z}
             u == {a, b, c, d}
  <2>1. Cardinality(t) <= 3
    BY <1>1
  <2>2. Cardinality(u) = 4 /\ t = u
    BY <1>2
  <2> HIDE DEF t, u
  <2> QED BY <2>1, <2>2
<1>3. a # b
  <2>1. a = b => {a, b, c, d} = {b, c, d}
    OBVIOUS
  <2> QED BY <1>2, <2>1
<1>4. a # c
  <2>1. a = c => {a, b, c, d} = {b, c, d}
    OBVIOUS
  <2> QED BY <1>2, <2>1
<1>5. a # d
  <2>1. a = d => {a, b, c, d} = {b, c, d}
    OBVIOUS
  <2> QED BY <1>2, <2>1
<1>6. b # c
  <2>1. b = c => {a, b, c, d} = {a, c, d}
    OBVIOUS
  <2> QED BY <1>2, <2>1
<1>7. b # d
  <2>1. b = d => {a, b, c, d} = {a, c, d}
    OBVIOUS
  <2> QED BY <1>2, <2>1
<1>8. c # d
  <2>1. c = d => {a, b, c, d} = {a, b, d}
    OBVIOUS
  <2> QED BY <1>2, <2>1
<1>9. IsFiniteSet({a, b, c, d})
  <2>1. IsFiniteSet({b, c, d} \cup {a}) /\ {b, c, d} \cup {a} = {a, b, c, d}
    BY <1>1, FS_AddElement
  <2> QED BY <2>1
<1> QED BY <1>3, <1>4, <1>5, <1>6, <1>7, <1>8, <1>9

LEMMA HoldersAre ==
  /\ IsFiniteSet(Holders) /\ Holders = {Pipe, Arena, Spare, Cache}
  /\ {Pipe, Arena, Spare, Cache} \subseteq Holders
  /\ Pipe # Arena /\ Pipe # Spare /\ Pipe # Cache
  /\ Arena # Spare /\ Arena # Cache /\ Spare # Cache
  /\ Disposable = {Cache} /\ Limit \in Nat
<1>1. Holders = {Pipe, Arena, Spare, Cache} /\ Cardinality({Pipe, Arena, Spare, Cache}) = 4
      /\ Disposable = {Cache}
  BY PipeAssumption
<1> QED BY <1>1, FourOf, BudgetAssumption

LEMMA EnteringFinite == IsFiniteSet(Entering) /\ Entering \subseteq Holders
BY HoldersAre, FS_Subset DEF Entering

\* Calls that neither begin nor end entering the counter leave what is
\* entering as it is.
LEMMA EnteringKept ==
  ASSUME BudgetInv, \A h \in Holders : (call'[h].at = "raise") = (call[h].at = "raise"),
         \A h \in Holders : call[h].at = "raise" => call'[h].asked = call[h].asked
  PROVE  /\ Entering' = Entering
         /\ SumFunctionOnSet(Asked', Entering') = SumFunctionOnSet(Asked, Entering)
<1>1. Entering' = Entering
  BY DEF Entering
<1>2. \A h \in Entering : Asked'[h] = Asked[h]
  BY DEF Entering, Asked
<1>3. SumFunctionOnSet(Asked', Entering) = SumFunctionOnSet(Asked, Entering)
  <2> DEFINE f == Asked'
             g == Asked
             E == Entering
  <2>1. IsFiniteSet(E) /\ \A h \in E : f[h] = g[h]
    BY <1>2, EnteringFinite
  <2> HIDE DEF f, g, E
  <2>2. SumFunctionOnSet(f, E) = SumFunctionOnSet(g, E)
    BY <2>1, SumSame
  <2> QED BY <2>2 DEF f, g, E
<1> QED BY <1>1, <1>3

LEMMA EnteringNat ==
  ASSUME BudgetInv
  PROVE  SumFunctionOnSet(Asked, Entering) \in Nat /\ SumFunctionOnSet(held, Holders) \in Nat
<1>1. \A h \in Entering : Asked[h] \in Nat
  BY DEF BudgetInv, Calls, Asked, Entering
<1>2. \A h \in Holders : held[h] \in Nat
  BY HoldersAre DEF BudgetInv
<1>3. SumFunctionOnSet(Asked, Entering) \in Nat
  BY <1>1, EnteringFinite, SumNat
<1>4. SumFunctionOnSet(held, Holders) \in Nat
  BY <1>2, HoldersAre, SumNat
<1> QED BY <1>3, <1>4

\* What is held, one by one and two by two, is within the counter.
LEMMA HeldBound ==
  ASSUME BudgetInv, NEW h \in Holders
  PROVE  held[h] \in Nat /\ held[h] <= used
<1>1. \A x \in Holders : held[x] \in Nat
  BY HoldersAre DEF BudgetInv
<1>2. held[h] <= SumFunctionOnSet(held, Holders)
  BY <1>1, HoldersAre, SumBound
<1> QED BY <1>1, <1>2, EnteringNat DEF BudgetInv

\* A step that does not enter the counter keeps the account, when used goes
\* down by as much as is given back.
LEMMA GivenBack ==
  ASSUME BudgetInv, peak' = peak, call' \in [Holders -> Calls],
         \A h \in Holders : (call'[h].at = "raise") = (call[h].at = "raise"),
         \A h \in Holders : call[h].at = "raise" => call'[h] = call[h],
         \A h \in Holders : call'[h].at = "exchange" =>
           call'[h].seen + call'[h].asked <= Limit,
         held' \in [Holders -> Nat], used' \in Nat, used' <= used,
         used' + SumFunctionOnSet(held, Holders) = used + SumFunctionOnSet(held', Holders)
  PROVE  BudgetInv'
<1>1. /\ Entering' = Entering
      /\ SumFunctionOnSet(Asked', Entering') = SumFunctionOnSet(Asked, Entering)
  BY EnteringKept
<1>2. used' \in 0..Limit /\ peak' \in 0..Limit
  BY HoldersAre DEF BudgetInv
<1>3. SumFunctionOnSet(held', Holders) \in Nat
  <2> DEFINE f == held'
  <2>1. \A h \in Holders : f[h] \in Nat
    OBVIOUS
  <2> HIDE DEF f
  <2>2. SumFunctionOnSet(f, Holders) \in Nat
    BY <2>1, HoldersAre, SumNat
  <2> QED BY <2>2 DEF f
<1>4. used' = SumFunctionOnSet(held', Holders) + SumFunctionOnSet(Asked', Entering')
  <2> DEFINE a == SumFunctionOnSet(held, Holders)
             b == SumFunctionOnSet(held', Holders)
             c == SumFunctionOnSet(Asked, Entering)
  <2>1. a \in Nat /\ b \in Nat /\ c \in Nat
    BY <1>3, EnteringNat
  <2>2. used = a + c /\ used' + a = used + b
    BY DEF BudgetInv
  <2> HIDE DEF a, b, c
  <2>3. used' = b + c
    BY <2>1, <2>2
  <2> QED BY <1>1, <2>3 DEF b, c
<1>5. held' \in [Holders -> 0..Limit]
  <2>1. ASSUME NEW h \in Holders PROVE held'[h] \in 0..Limit
    <3> DEFINE f == held'
    <3>1. \A x \in Holders : f[x] \in Nat
      OBVIOUS
    <3> HIDE DEF f
    <3>2. f[h] <= SumFunctionOnSet(f, Holders)
      BY <3>1, HoldersAre, SumBound
    <3>3. held'[h] \in Nat /\ held'[h] <= SumFunctionOnSet(held', Holders)
      BY <3>1, <3>2 DEF f
    <3> QED BY <1>1, <1>2, <1>3, <1>4, <3>3, EnteringNat, HoldersAre
  <2> QED BY <2>1
<1>6. \A h \in Holders : call'[h].at \in {"exchange", "raise"} =>
        call'[h].seen + call'[h].asked <= Limit
  BY DEF BudgetInv
<1>7. used' <= peak' \/ \E h \in Entering' : used' <= call'[h].seen + call'[h].asked
  <2>1. CASE used <= peak
    BY <2>1, <1>2, HoldersAre DEF BudgetInv
  <2>2. ASSUME NEW h \in Entering, used <= call[h].seen + call[h].asked PROVE <1>7!2
    <3>1. h \in Holders /\ call[h].at = "raise" /\ call'[h] = call[h]
      BY DEF Entering
    <3>2. call[h].seen + call[h].asked \in Int /\ used \in Int
      BY <3>1, HoldersAre DEF BudgetInv, Calls
    <3> QED BY <2>2, <3>1, <3>2, <1>1
  <2> QED BY <2>1, <2>2 DEF BudgetInv
<1> QED BY <1>2, <1>4, <1>5, <1>6, <1>7 DEF BudgetInv

-----------------------------------------------------------------------------
(* The budget's operations.                                                *)

\* A call moves, the bytes do not.
LEMMA CallMoves ==
  ASSUME BudgetInv, UNCHANGED <<used, peak, held>>, NEW h \in Holders, NEW c \in Calls,
         call' = [call EXCEPT ![h] = c], call[h].at # "raise", c.at # "raise",
         c.at = "exchange" => c.seen + c.asked <= Limit
  PROVE  BudgetInv'
<1>1. call' \in [Holders -> Calls]
  BY DEF BudgetInv
<1>2. \A x \in Holders : x # h => call'[x] = call[x]
  BY DEF BudgetInv
<1>3. call'[h] = c
  BY DEF BudgetInv
<1>4. held' \in [Holders -> Nat] /\ used' \in Nat /\ used' <= used /\ peak' = peak
  BY HoldersAre DEF BudgetInv
<1>5. used' + SumFunctionOnSet(held, Holders) = used + SumFunctionOnSet(held', Holders)
  OBVIOUS
<1>6. \A x \in Holders : (call'[x].at = "raise") = (call[x].at = "raise")
  BY <1>2, <1>3
<1>7. \A x \in Holders : call[x].at = "raise" => call'[x] = call[x]
  BY <1>2
<1>8. \A x \in Holders : call'[x].at = "exchange" => call'[x].seen + call'[x].asked <= Limit
  BY <1>2, <1>3 DEF BudgetInv
<1> QED BY <1>1, <1>4, <1>5, <1>6, <1>7, <1>8, GivenBack

\* Bytes are given back, calls may end.
LEMMA Lowers ==
  ASSUME BudgetInv, peak' = peak, NEW d \in Holders, NEW h \in Holders,
         used' = used - held[d], held' = [held EXCEPT ![d] = 0],
         call' = call \/ (call' = [call EXCEPT ![h] = NoCall] /\ call[h].at # "raise")
  PROVE  BudgetInv'
<1>1. held[d] \in Nat /\ held[d] <= used /\ used \in Nat
  <2>1. used \in Nat
    BY HoldersAre DEF BudgetInv
  <2> QED BY <2>1, HeldBound
<1>2. held' \in [Holders -> Nat] /\ used' \in Nat /\ used' <= used
  BY <1>1, HoldersAre DEF BudgetInv
<1>3. used' + SumFunctionOnSet(held, Holders) = used + SumFunctionOnSet(held', Holders)
  <2> DEFINE g == held'
             a == SumFunctionOnSet(held, Holders)
             b == SumFunctionOnSet(g, Holders)
  <2>1. \A y \in Holders : held[y] \in Nat /\ g[y] \in Nat
    BY <1>2, HoldersAre DEF BudgetInv
  <2>2. \A y \in Holders \ {d} : g[y] = held[y]
    BY DEF BudgetInv
  <2>3. g[d] = 0
    BY DEF BudgetInv
  <2> HIDE DEF g
  <2>4. b + held[d] = a + g[d]
    BY <2>1, <2>2, HoldersAre, SumChange
  <2>5. a \in Nat /\ b \in Nat
    BY <2>1, HoldersAre, SumNat
  <2> HIDE DEF a, b
  <2>6. used' + a = used + b
    BY <1>1, <2>3, <2>4, <2>5
  <2> QED BY <2>6 DEF a, b, g
<1>4. NoCall \in Calls /\ NoCall.at = "none"
  BY HoldersAre DEF NoCall, Calls, CallsAt
<1>5. call' \in [Holders -> Calls]
  BY <1>4 DEF BudgetInv
<1>6. \A x \in Holders : call'[x] = call[x] \/ (call'[x] = NoCall /\ call[x].at # "raise")
  BY DEF BudgetInv
<1>7. \A x \in Holders : (call'[x].at = "raise") = (call[x].at = "raise")
  BY <1>4, <1>6
<1>8. \A x \in Holders : call[x].at = "raise" => call'[x] = call[x]
  BY <1>6
<1>9. \A x \in Holders : call'[x].at = "exchange" => call'[x].seen + call'[x].asked <= Limit
  BY <1>4, <1>6 DEF BudgetInv
<1> QED BY <1>2, <1>3, <1>5, <1>7, <1>8, <1>9, GivenBack

LEMMA AskKeeps ==
  ASSUME BudgetInv, NEW h \in Holders, NEW n \in Nat, Ask(h, n)
  PROVE  BudgetInv'
<1> DEFINE c == [NoCall EXCEPT !.at = "load", !.asked = n]
<1>1. NoCall \in Calls
  BY HoldersAre DEF NoCall, Calls, CallsAt
<1>2. c \in Calls /\ c.at = "load"
  BY <1>1 DEF Calls, CallsAt
<1> HIDE DEF c
<1> QED BY <1>2, CallMoves DEF Ask, c

LEMMA TakenKeeps ==
  ASSUME BudgetInv, UNCHANGED <<used, peak, held>>, NEW h \in Holders,
         Returned(h), call' = Taken(h)
  PROVE  BudgetInv'
<1>1. NoCall \in Calls /\ NoCall.at = "none"
  BY HoldersAre DEF NoCall, Calls, CallsAt
<1> QED BY <1>1, CallMoves DEF Taken, Returned

LEMMA DecidedIs ==
  ASSUME BudgetInv, NEW c \in Calls
  PROVE  /\ Decided(c) \in Calls /\ Decided(c).at # "raise"
         /\ Decided(c).at = "exchange" => Decided(c).seen + Decided(c).asked <= Limit
         /\ Decided(c).asked = c.asked /\ Decided(c).at # "granted" /\ Decided(c).at # "none"
BY HoldersAre DEF Decided, Calls, CallsAt, BudgetInv

LEMMA ExchangeKeeps ==
  ASSUME BudgetInv, NEW h \in Holders, Exchange(h)
  PROVE  BudgetInv'
<1> DEFINE c == call[h]
<1>1. c \in Calls /\ c.at = "exchange" /\ c.seen + c.asked <= Limit
  BY DEF Exchange, BudgetInv
<1>2. CASE ~Unmoved(c)
  <2>1. call' = [call EXCEPT ![h] = Decided(c)] /\ UNCHANGED <<used, peak, held>>
    BY <1>2 DEF Exchange
  <2> HIDE DEF c
  <2>2. call[h].at # "raise"
    BY <1>1 DEF c
  <2> QED BY <1>1, <2>1, <2>2, DecidedIs, CallMoves
<1>3. CASE Unmoved(c)
  <2>1. /\ used' = c.seen + c.asked /\ used = c.seen
        /\ call' = [call EXCEPT ![h].at = "raise"] /\ UNCHANGED <<peak, held>>
    BY <1>3 DEF Exchange, Unmoved
  <2>2. call'[h] = [c EXCEPT !.at = "raise"] /\ \A x \in Holders : x # h => call'[x] = call[x]
    BY <2>1 DEF BudgetInv
  <2>3. /\ call'[h].at = "raise" /\ call'[h].seen = c.seen /\ call'[h].asked = c.asked
        /\ call'[h] \in Calls /\ c.asked \in Nat /\ c.seen \in 0..Limit
    BY <1>1, <2>2 DEF Calls, CallsAt
  <2>4. call' \in [Holders -> Calls]
    BY <2>1, <2>2, <2>3 DEF BudgetInv
  <2>5. h \notin Entering /\ Entering' = Entering \cup {h}
    BY <1>1, <2>2, <2>3 DEF Entering
  <2>6. SumFunctionOnSet(Asked', Entering') = SumFunctionOnSet(Asked, Entering) + c.asked
    <3> DEFINE f == Asked'
               g == Asked
               E == Entering
    <3>1. \A x \in E : f[x] = g[x]
      BY <2>2, <2>5 DEF Asked, Entering
    <3>2. \A x \in E \cup {h} : f[x] \in Nat
      BY <2>4, <2>5 DEF Calls, Asked, Entering
    <3>3. IsFiniteSet(E) /\ h \notin E
      BY <2>5, EnteringFinite
    <3>4. f[h] = c.asked
      BY <2>3 DEF Asked
    <3> HIDE DEF f, g, E
    <3>5. SumFunctionOnSet(f, E \cup {h}) = SumFunctionOnSet(f, E) + f[h]
      BY <3>2, <3>3, SumAdd
    <3>6. SumFunctionOnSet(f, E) = SumFunctionOnSet(g, E)
      BY <3>1, <3>3, SumSame
    <3>7. SumFunctionOnSet(f, E \cup {h}) = SumFunctionOnSet(g, E) + c.asked
      BY <3>4, <3>5, <3>6
    <3> QED BY <3>7, <2>5 DEF f, g, E
  <2>7. used' = SumFunctionOnSet(held', Holders) + SumFunctionOnSet(Asked', Entering')
    <3> DEFINE a == SumFunctionOnSet(held, Holders)
               b == SumFunctionOnSet(Asked, Entering)
    <3>1. a \in Nat /\ b \in Nat /\ used = a + b
      BY EnteringNat DEF BudgetInv
    <3>2. SumFunctionOnSet(held', Holders) = a
      BY <2>1
    <3> HIDE DEF a, b
    <3>3. used' = a + (b + c.asked)
      BY <2>1, <2>3, <3>1
    <3>4. SumFunctionOnSet(Asked', Entering') = b + c.asked
      BY <2>6 DEF b
    <3> QED BY <3>2, <3>3, <3>4
  <2>8. used' \in 0..Limit /\ peak' \in 0..Limit /\ held' \in [Holders -> 0..Limit]
    BY <1>1, <2>1, <2>3, HoldersAre DEF BudgetInv
  <2>9. \A x \in Holders : call'[x].at \in {"exchange", "raise"} =>
          call'[x].seen + call'[x].asked <= Limit
    BY <1>1, <2>2, <2>3 DEF BudgetInv
  <2>10. h \in Entering' /\ used' <= call'[h].seen + call'[h].asked
    BY <2>1, <2>3, <2>5, HoldersAre
  <2> QED BY <2>4, <2>7, <2>8, <2>9, <2>10 DEF BudgetInv
<1> QED BY <1>2, <1>3

LEMMA RaiseKeeps ==
  ASSUME BudgetInv, NEW h \in Holders, Raise(h)
  PROVE  BudgetInv'
<1> DEFINE c == call[h]
           next == c.seen + c.asked
<1>1. c \in Calls /\ c.at = "raise" /\ next <= Limit /\ c.asked \in Nat /\ next \in Nat
  BY HoldersAre DEF Raise, BudgetInv, Calls
<1>2. /\ peak' = (IF next > peak THEN next ELSE peak) /\ used' = used
      /\ held' = [held EXCEPT ![h] = @ + c.asked]
      /\ call' = [call EXCEPT ![h].at = "granted"]
  BY DEF Raise
<1>3. call'[h] = [c EXCEPT !.at = "granted"] /\ \A x \in Holders : x # h => call'[x] = call[x]
  BY <1>2 DEF BudgetInv
<1>4. call'[h].at = "granted" /\ call'[h] \in Calls
  BY <1>1, <1>3 DEF Calls, CallsAt
<1>5. call' \in [Holders -> Calls]
  BY <1>2, <1>3, <1>4 DEF BudgetInv
<1>6. h \in Entering /\ Entering' = Entering \ {h}
  BY <1>1, <1>3, <1>4 DEF Entering
<1>7. SumFunctionOnSet(Asked, Entering) = c.asked + SumFunctionOnSet(Asked', Entering')
  <2> DEFINE f == Asked'
             g == Asked
             E == Entering
             r == E \ {h}
  <2>1. \A x \in r : f[x] = g[x]
    BY <1>3 DEF Asked, Entering
  <2>2. \A x \in E : g[x] \in Nat
    BY DEF Calls, Asked, Entering, BudgetInv
  <2>3. IsFiniteSet(E) /\ h \in E
    BY <1>6, EnteringFinite
  <2>4. g[h] = c.asked
    BY DEF Asked
  <2>5. IsFiniteSet(r)
    BY <2>3, FS_Subset
  <2> HIDE DEF f, g, E
  <2>6. SumFunctionOnSet(g, E) = g[h] + SumFunctionOnSet(g, r)
    BY <2>2, <2>3, SumRemove
  <2> HIDE DEF r
  <2>7. SumFunctionOnSet(f, r) = SumFunctionOnSet(g, r)
    BY <2>1, <2>5, SumSame
  <2>8. SumFunctionOnSet(g, E) = c.asked + SumFunctionOnSet(f, r)
    BY <2>4, <2>6, <2>7
  <2> QED BY <2>8, <1>6 DEF f, g, E, r
<1>8. /\ SumFunctionOnSet(held', Holders) = SumFunctionOnSet(held, Holders) + c.asked
      /\ SumFunctionOnSet(held', Holders) \in Nat /\ held' \in [Holders -> Nat]
  <2> DEFINE g == held'
             a == SumFunctionOnSet(held, Holders)
             b == SumFunctionOnSet(g, Holders)
  <2>1. g[h] = held[h] + c.asked /\ held[h] \in Nat
    BY <1>2, HoldersAre DEF BudgetInv
  <2>2. \A y \in Holders \ {h} : g[y] = held[y]
    BY <1>2 DEF BudgetInv
  <2>3. \A y \in Holders : held[y] \in Nat /\ g[y] \in Nat
    BY <1>1, <1>2, HoldersAre DEF BudgetInv
  <2>4. held' \in [Holders -> Nat]
    BY <2>3, <1>2 DEF BudgetInv
  <2> HIDE DEF g
  <2>5. b + held[h] = a + g[h]
    BY <2>2, <2>3, HoldersAre, SumChange
  <2>6. a \in Nat /\ b \in Nat
    BY <2>3, HoldersAre, SumNat
  <2> HIDE DEF a, b
  <2>7. b = a + c.asked
    BY <1>1, <2>1, <2>5, <2>6
  <2> QED BY <2>4, <2>6, <2>7 DEF a, b, g
<1>9. SumFunctionOnSet(Asked', Entering') \in Nat
  <2> DEFINE f == Asked'
             E == Entering'
  <2>1. \A x \in E : f[x] \in Nat
    BY <1>5 DEF Calls, Asked, Entering
  <2>2. IsFiniteSet(E)
    BY <1>6, EnteringFinite, FS_Subset
  <2> HIDE DEF f, E
  <2>3. SumFunctionOnSet(f, E) \in Nat
    BY <2>1, <2>2, SumNat
  <2> QED BY <2>3 DEF f, E
<1>10. used' = SumFunctionOnSet(held', Holders) + SumFunctionOnSet(Asked', Entering')
  <2> DEFINE a == SumFunctionOnSet(held, Holders)
             b == SumFunctionOnSet(Asked', Entering')
             k == c.asked
  <2>1. used = a + (k + b) /\ a \in Nat /\ b \in Nat /\ k \in Nat
    BY <1>1, <1>7, <1>9, EnteringNat DEF BudgetInv
  <2>2. SumFunctionOnSet(held', Holders) = a + k
    BY <1>8
  <2> HIDE DEF a, b, k
  <2>3. used' = (a + k) + b
    BY <1>2, <2>1
  <2> QED BY <2>2, <2>3 DEF b
<1>11. used' \in 0..Limit /\ peak' \in 0..Limit
  BY <1>1, <1>2, HoldersAre DEF BudgetInv
<1>12. held' \in [Holders -> 0..Limit]
  <2>1. ASSUME NEW x \in Holders PROVE held'[x] \in 0..Limit
    <3> DEFINE g == held'
    <3>1. \A y \in Holders : g[y] \in Nat
      BY <1>8
    <3> HIDE DEF g
    <3>2. g[x] <= SumFunctionOnSet(g, Holders)
      BY <3>1, HoldersAre, SumBound
    <3>3. held'[x] \in Nat /\ held'[x] <= SumFunctionOnSet(held', Holders)
      BY <3>1, <3>2 DEF g
    <3> QED BY <1>8, <1>9, <1>10, <1>11, <3>3, HoldersAre
  <2> QED BY <1>8, <2>1
<1>13. \A x \in Holders : call'[x].at \in {"exchange", "raise"} =>
         call'[x].seen + call'[x].asked <= Limit
  BY <1>3, <1>4 DEF BudgetInv
<1>14. used' <= peak' \/ \E x \in Entering' : used' <= call'[x].seen + call'[x].asked
  <2>1. used \in Int /\ peak \in Int
    BY HoldersAre DEF BudgetInv
  <2>2. CASE used <= peak \/ used <= next
    BY <2>1, <2>2, <1>1, <1>2
  <2>3. ASSUME NEW x \in Entering, x # h, used <= call[x].seen + call[x].asked PROVE <1>14!2
    <3>1. x \in Entering' /\ call'[x] = call[x]
      BY <2>3, <1>3, <1>6 DEF Entering
    <3> QED BY <2>3, <3>1, <1>2
  <2> QED BY <2>2, <2>3 DEF BudgetInv
<1> QED BY <1>5, <1>10, <1>11, <1>12, <1>13, <1>14, Zenon DEF BudgetInv

LEMMA ChargeKeeps ==
  ASSUME BudgetInv, NEW h \in Holders, ChargeStep(h)
  PROVE  BudgetInv'
<1>1. CASE Load(h)
  <2> DEFINE c == Decided(call[h])
  <2>1. call[h] \in Calls /\ call[h].at = "load"
    BY <1>1 DEF Load, BudgetInv
  <2>2. c \in Calls /\ c.at # "raise" /\ (c.at = "exchange" => c.seen + c.asked <= Limit)
    BY <2>1, DecidedIs
  <2>3. call' = [call EXCEPT ![h] = c] /\ UNCHANGED <<used, peak, held>>
    BY <1>1 DEF Load
  <2> HIDE DEF c
  <2> QED BY <2>1, <2>2, <2>3, CallMoves
<1>2. CASE Retry(h)
  <2> DEFINE c == [call[h] EXCEPT !.at = "load", !.again = TRUE]
  <2>1. call[h] \in Calls /\ call[h].at = "reclaim"
    BY <1>2 DEF Retry, BudgetInv
  <2>2. c \in Calls /\ c.at = "load"
    BY <2>1 DEF Calls, CallsAt
  <2>3. call' = [call EXCEPT ![h] = c] /\ UNCHANGED <<used, peak, held>>
    BY <1>2 DEF Retry, BudgetInv
  <2> HIDE DEF c
  <2> QED BY <2>1, <2>2, <2>3, CallMoves
<1>3. ASSUME NEW d \in Disposable, Reclaim(h, d) PROVE BudgetInv'
  <2>1. d \in Holders
    BY BudgetAssumption
  <2> QED BY <1>3, <2>1, Lowers DEF Reclaim
<1> QED BY <1>1, <1>2, <1>3, ExchangeKeeps, RaiseKeeps DEF ChargeStep

LEMMA DropLowers ==
  ASSUME BudgetInv, NEW d \in Holders, Drop(d)
  PROVE  used' = used - held[d] /\ held' = [held EXCEPT ![d] = 0]
<1>1. held[d] - held[d] = 0
  BY HeldBound
<1>2. held' = [held EXCEPT ![d] = held[d] - held[d]]
  BY DEF Drop, Lowered, BudgetInv
<1> QED BY <1>1, <1>2 DEF Drop, Lowered

LEMMA ReleasedKeeps ==
  ASSUME BudgetInv, NEW s, NEW r, Released(s, r)
  PROVE  BudgetInv'
<1>1. UNCHANGED <<peak, call>> /\ (UNCHANGED <<used, held>> \/ Drop(Pipe))
  BY DEF Released
<1>2. CASE UNCHANGED <<used, held>>
  BY <1>1, <1>2 DEF BudgetInv, Entering, Asked
<1>3. CASE Drop(Pipe)
  BY <1>1, <1>3, DropLowers, Lowers, HoldersAre
<1> QED BY <1>1, <1>2, <1>3

LEMMA AbsorbKeeps ==
  ASSUME BudgetInv, Absorbed(Arena, Spare), UNCHANGED <<peak, call>>
  PROVE  BudgetInv'
<1> DEFINE m == [held EXCEPT ![Spare] = 0]
           f == held'
           s == held[Spare]
<1>1. held \in [Holders -> Nat] /\ s \in Nat /\ used \in Nat
  BY HoldersAre DEF BudgetInv
<1>2. m \in [Holders -> Nat] /\ m[Spare] = 0 /\ \A y \in Holders \ {Spare} : m[y] = held[y]
  BY <1>1, HoldersAre
<1>3. f = [held EXCEPT ![Arena] = held[Arena] + held[Spare], ![Spare] = 0]
  BY DEF Absorbed
<1>4. f[Arena] = m[Arena] + s /\ \A y \in Holders \ {Arena} : f[y] = m[y]
  BY <1>1, <1>2, <1>3, HoldersAre
<1>5. f \in [Holders -> Nat]
  BY <1>1, <1>3, HoldersAre
<1>6. SumFunctionOnSet(f, Holders) = SumFunctionOnSet(held, Holders)
  <2> DEFINE a == SumFunctionOnSet(held, Holders)
             b == SumFunctionOnSet(m, Holders)
             c == SumFunctionOnSet(f, Holders)
             i == m[Arena]
  <2> HIDE DEF m, f
  <2>1. \A y \in Holders : held[y] \in Nat /\ m[y] \in Nat /\ f[y] \in Nat
    BY <1>1, <1>2, <1>5
  <2>2. b + held[Spare] = a + m[Spare]
    BY <2>1, <1>2, HoldersAre, SumChange
  <2>3. c + m[Arena] = b + f[Arena]
    BY <2>1, <1>4, HoldersAre, SumChange
  <2>4. a \in Nat /\ b \in Nat /\ c \in Nat
    BY <2>1, HoldersAre, SumNat
  <2>5. b + s = a /\ c + i = b + (i + s) /\ i \in Nat
    BY <2>1, <2>2, <2>3, <2>4, <1>2, <1>4, HoldersAre
  <2> HIDE DEF a, b, c, i, s
  <2>6. c = a
    BY <1>1, <2>4, <2>5
  <2> QED BY <2>6 DEF a, c
<1>7. used' = used
  BY DEF Absorbed
<1>8. used' + SumFunctionOnSet(held, Holders) = used + SumFunctionOnSet(held', Holders)
  BY <1>6, <1>7
<1>9. used' \in Nat /\ used' <= used
  BY <1>1, <1>7
<1>10. call' \in [Holders -> Calls] /\ held' \in [Holders -> Nat]
  BY <1>5 DEF BudgetInv
<1>11. \A h \in Holders : call'[h].at = "exchange" => call'[h].seen + call'[h].asked <= Limit
  BY DEF BudgetInv
<1> QED BY <1>8, <1>9, <1>10, <1>11, GivenBack

LEMMA BudgetUnchanged ==
  ASSUME BudgetInv, UNCHANGED budget
  PROVE  BudgetInv'
BY DEF BudgetInv, Entering, Asked, budget

\* A step of anything: who asks asks for something, and whoever has an answer
\* takes it.
LEMMA BudgetStep ==
  ASSUME Inv, [Next]_vars
  PROVE  BudgetInv'
<1>1. BudgetInv
  BY DEF Inv
<1>2. CASE UNCHANGED vars
  BY <1>1, <1>2, BudgetUnchanged DEF vars
<1>3. CASE WalkSteps
  <2>1. CASE Open
    BY <1>1, <2>1, TakenKeeps, HoldersAre DEF Open
  <2>2. CASE StartDisk \/ AdmitDiscovery \/ Report
    BY <1>1, <2>2, BudgetUnchanged DEF StartDisk, AdmitDiscovery, Report
  <2>3. CASE GiveUpWalk
    BY <1>1, <2>3, ReleasedKeeps DEF GiveUpWalk
  <2>4. CASE CloseWalk
    <3> DEFINE s == DropsSender /\ pipe.sender
    <3>1. Released(s, pipe.receiver)
      BY <2>4 DEF CloseWalk
    <3> HIDE DEF s
    <3> QED BY <1>1, <3>1, ReleasedKeeps
  <2> QED BY <1>3, <2>1, <2>2, <2>3, <2>4 DEF WalkSteps
<1>4. CASE GitSteps
  <2>1. CASE \/ StartGit \/ Receive \/ Spawn \/ StopReceiving
             \/ \E r \in Repos, ok \in BOOLEAN : ProbeEnds(r, ok)
    BY <1>1, <2>1, BudgetUnchanged DEF StartGit, Receive, Spawn, StopReceiving, ProbeEnds
  <2>2. CASE GiveUpGit
    BY <1>1, <2>2, ReleasedKeeps DEF GiveUpGit
  <2>3. CASE EndGit
    BY <1>1, <2>3, ReleasedKeeps DEF EndGit
  <2> QED BY <1>4, <2>1, <2>2, <2>3 DEF GitSteps
<1>5. CASE ArenaSteps
  <2>1. CASE GrowArena
    <3> DEFINE n == held[Arena] + ArenaStep
    <3>1. n \in Nat
      BY <1>1, HeldBound, HoldersAre, PipeAssumption
    <3>2. Ask(Spare, n)
      BY <2>1 DEF GrowArena
    <3> HIDE DEF n
    <3> QED BY <1>1, <3>1, <3>2, AskKeeps, HoldersAre
  <2>2. CASE Replace
    <3>1. call' = [call EXCEPT ![Spare] = NoCall] /\ call[Spare].at # "raise" /\ UNCHANGED peak
      BY <2>2 DEF Replace, Returned, Taken
    <3>2. CASE Drop(Arena)
      BY <1>1, <3>1, <3>2, DropLowers, Lowers, HoldersAre
    <3>3. CASE UNCHANGED <<used, held>>
      BY <1>1, <2>2, <3>1, <3>3, TakenKeeps, HoldersAre DEF Replace
    <3> QED BY <2>2, <3>2, <3>3 DEF Replace
  <2>3. CASE Absorb
    BY <1>1, <2>3, AbsorbKeeps DEF Absorb
  <2>4. CASE DropArena
    BY <1>1, <2>4, DropLowers, Lowers, HoldersAre DEF DropArena
  <2> QED BY <1>5, <2>1, <2>2, <2>3, <2>4 DEF ArenaSteps
<1>6. CASE Cancel \/ \E a \in Audits : Admit(a) \/ Leave(a)
  BY <1>1, <1>6, BudgetUnchanged DEF Cancel, Admit, Leave
<1>7. ASSUME NEW w \in Walkers, SendStep(w) PROVE BudgetInv'
  <2>1. CASE (\E r \in Repos : Visit(w, r)) \/ TakePlace(w) \/ Send(w) \/ Refused(w)
    BY <1>1, <2>1, BudgetUnchanged DEF Visit, TakePlace, Send, Refused
  <2>2. CASE LockPipe(w)
    <3> DEFINE n == Size[walker[w].repo]
    <3>1. n \in Nat
      <4>1. walker[w].repo \in Repos
        BY <2>2 DEF LockPipe, Inv, WalkersInv
      <4> QED BY <4>1, PipeAssumption
    <3>2. Ask(Pipe, n) \/ UNCHANGED budget
      BY <2>2 DEF LockPipe
    <3> HIDE DEF n
    <3> QED BY <1>1, <3>1, <3>2, AskKeeps, BudgetUnchanged, HoldersAre
  <2>3. CASE Grown(w)
    BY <1>1, <2>3, TakenKeeps, HoldersAre DEF Grown
  <2> QED BY <1>7, <2>1, <2>2, <2>3 DEF SendStep
<1>8. ASSUME NEW h \in Holders, Charge(h) PROVE BudgetInv'
  BY <1>1, <1>8, ChargeKeeps DEF Charge
<1> QED BY <1>2, <1>3, <1>4, <1>5, <1>6, <1>7, <1>8 DEF Next

-----------------------------------------------------------------------------
(* Types of what is not the budget.                                        *)

\* One more in a set that has room.
LEMMA HasRoom ==
  ASSUME NEW s, NEW x, NEW n \in Nat, IsFiniteSet(s), Cardinality(s) < n
  PROVE  IsFiniteSet(s \cup {x}) /\ Cardinality(s \cup {x}) <= n
<1>1. Cardinality(s) \in Nat
  BY FS_CardinalityType
<1>2. IsFiniteSet(s \cup {x}) /\ (Cardinality(s \cup {x}) = Cardinality(s) \/ Cardinality(s \cup {x}) = Cardinality(s) + 1)
  BY FS_AddElement
<1> QED BY <1>1, <1>2

LEMMA Fewer ==
  ASSUME NEW s, NEW t, t \subseteq s, NEW n \in Nat, IsFiniteSet(s), Cardinality(s) <= n
  PROVE  IsFiniteSet(t) /\ Cardinality(t) <= n
<1>1. IsFiniteSet(t) /\ Cardinality(t) <= Cardinality(s)
  BY FS_Subset
<1>2. Cardinality(t) \in Nat /\ Cardinality(s) \in Nat
  BY <1>1, FS_CardinalityType
<1> QED BY <1>1, <1>2

\* Admission moves one audit at a time.
LEMMA Moved ==
  ASSUME AdmissionTypes, token' \in BOOLEAN, limited' \in BOOLEAN,
         NEW x \in Audits \cup {Home}, NEW at \in {"in", "out"},
         admission' = [admission EXCEPT !.of[x] = at],
         at = "in" => Cardinality(Admitted) < Slots
  PROVE  AdmissionTypes'
<1>1. /\ admission' \in [started : BOOLEAN,
                         of : [Audits \cup {Home} -> {"waiting", "in", "out"}]]
      /\ admission'.of = [admission.of EXCEPT ![x] = at]
  BY DEF AdmissionTypes
<1>2. DOMAIN admission.of = Audits \cup {Home} /\ DOMAIN admission'.of = Audits \cup {Home}
  BY <1>1 DEF AdmissionTypes
<1>3. Slots \in Nat
  BY PipeAssumption
<1>4. CASE at = "in"
  <2>1. Admitted' = Admitted \cup {x}
    BY <1>1, <1>2, <1>4 DEF Admitted
  <2> QED BY <1>1, <1>3, <1>4, <2>1, HasRoom DEF AdmissionTypes
<1>5. CASE at = "out"
  <2>1. Admitted' \subseteq Admitted
    BY <1>1, <1>2, <1>5 DEF Admitted
  <2> QED BY <1>1, <1>3, <2>1, Fewer DEF AdmissionTypes
<1> QED BY <1>4, <1>5

LEMMA AdmissionUnchanged ==
  ASSUME AdmissionTypes, token' \in BOOLEAN, limited' \in BOOLEAN, admission' = admission
  PROVE  AdmissionTypes'
BY DEF AdmissionTypes, Admitted

LEMMA AdmissionStep ==
  ASSUME Inv, [Next]_vars
  PROVE  AdmissionTypes'
<1>1. AdmissionTypes /\ token \in BOOLEAN /\ limited \in BOOLEAN
  BY DEF Inv, FlowTypes, AdmissionTypes
<1>2. CASE UNCHANGED vars
  BY <1>1, <1>2, AdmissionUnchanged DEF vars, walking
<1>3. CASE WalkSteps
  <2>1. CASE Open \/ CloseWalk
    BY <1>1, <2>1, AdmissionUnchanged DEF Open, CloseWalk, walking
  <2>2. CASE StartDisk
    <3>1. /\ admission' = [admission EXCEPT !.started = TRUE]
          /\ UNCHANGED <<token, limited>>
      BY <2>2 DEF StartDisk
    <3>2. /\ admission' \in [started : BOOLEAN,
                             of : [Audits \cup {Home} -> {"waiting", "in", "out"}]]
          /\ admission'.of = admission.of
      BY <1>1, <3>1 DEF AdmissionTypes
    <3>3. Admitted' = Admitted
      BY <3>2 DEF Admitted
    <3> QED BY <1>1, <3>1, <3>2, <3>3 DEF AdmissionTypes
  <2>3. CASE AdmitDiscovery
    BY <1>1, <2>3, Moved DEF AdmitDiscovery, Admissible
  <2>4. CASE GiveUpWalk
    BY <1>1, <2>4, Moved DEF GiveUpWalk
  <2>5. CASE Report
    BY <1>1, <2>5, Moved DEF Report
  <2> QED BY <1>3, <2>1, <2>2, <2>3, <2>4, <2>5 DEF WalkSteps
<1>4. CASE GitSteps
  BY <1>1, <1>4, AdmissionUnchanged
     DEF GitSteps, StartGit, GiveUpGit, Receive, Spawn, StopReceiving, EndGit, ProbeEnds,
         walking
<1>5. CASE ArenaSteps
  BY <1>1, <1>5, AdmissionUnchanged
     DEF ArenaSteps, GrowArena, Replace, Absorb, DropArena, walking
<1>6. CASE Cancel
  BY <1>1, <1>6, AdmissionUnchanged DEF Cancel, walking
<1>7. ASSUME NEW a \in Audits, Admit(a) \/ Leave(a) PROVE AdmissionTypes'
  BY <1>1, <1>7, Moved DEF Admit, Leave, Admissible, walking
<1>8. ASSUME NEW w \in Walkers, SendStep(w) PROVE AdmissionTypes'
  <2>1. CASE Refused(w)
    <3>1. limited' = (limited \/ ~token) /\ UNCHANGED <<token, admission>>
      BY <2>1 DEF Refused, Noted
    <3> QED BY <1>1, <3>1, AdmissionUnchanged
  <2>2. CASE ~Refused(w)
    BY <1>1, <1>8, <2>2, AdmissionUnchanged
       DEF SendStep, Visit, TakePlace, LockPipe, Grown, Send
  <2> QED BY <2>1, <2>2
<1>9. ASSUME NEW h \in Holders, Charge(h) PROVE AdmissionTypes'
  BY <1>1, <1>9, AdmissionUnchanged DEF Charge, walking
<1> QED BY <1>2, <1>3, <1>4, <1>5, <1>6, <1>7, <1>8, <1>9 DEF Next

LEMMA WalkStep ==
  ASSUME Inv, [Next]_vars
  PROVE  WalkTypes'
<1>1. WalkTypes /\ AdmissionTypes
  BY DEF Inv, FlowTypes
<1>2. CASE UNCHANGED <<walk, unseen, walker>>
  BY <1>1, <1>2 DEF WalkTypes
<1>3. CASE StartDisk \/ AdmitDiscovery \/ GiveUpWalk
  BY <1>1, <1>3 DEF WalkTypes, StartDisk, AdmitDiscovery, GiveUpWalk, Phases
<1>4. CASE CloseWalk
  <2> DEFINE b == unseen = {} /\ ~limited
  <2>1. walk' = [walk EXCEPT !.phase = "report", !.whole = b] /\ UNCHANGED <<unseen, walker>>
    BY <1>4 DEF CloseWalk
  <2>2. b \in BOOLEAN
    OBVIOUS
  <2> HIDE DEF b
  <2> QED BY <1>1, <2>1, <2>2 DEF WalkTypes, Phases
<1>5. CASE Report
  <2> DEFINE v == IF walk.whole /\ ~token THEN "complete" ELSE "incomplete"
  <2>1. walk' = [walk EXCEPT !.phase = "over", !.verdict = v] /\ UNCHANGED <<unseen, walker>>
    BY <1>5 DEF Report
  <2>2. v \in {"complete", "incomplete"}
    OBVIOUS
  <2> HIDE DEF v
  <2> QED BY <1>1, <2>1, <2>2 DEF WalkTypes, Phases
<1>6. ASSUME NEW w \in Walkers, SendStep(w) PROVE WalkTypes'
  <2>1. CASE \E r \in Repos : Visit(w, r)
    <3>1. PICK r \in Repos : Visit(w, r)
      BY <2>1
    <3>2. [at |-> "slot", repo |-> r] \in WalkerStates
      BY DEF WalkerStates
    <3> QED BY <1>1, <3>1, <3>2 DEF WalkTypes, Visit
  <2>2. ASSUME NEW at \in {"lock", "refused", "grow", "send"}, At(w, at),
               UNCHANGED <<walk, unseen>>
        PROVE WalkTypes'
    BY <1>1, <2>2 DEF WalkTypes, At, WalkerStates
  <2>3. CASE Send(w) \/ Refused(w)
    <3>1. Idle \in WalkerStates
      BY DEF Idle, WalkerStates
    <3> QED BY <1>1, <2>3, <3>1 DEF WalkTypes, Send, Refused
  <2>4. CASE TakePlace(w)
    BY <2>4, <2>2 DEF TakePlace
  <2>5. CASE LockPipe(w)
    BY <2>5, <2>2 DEF LockPipe
  <2>6. CASE Grown(w)
    BY <2>6, <2>2 DEF Grown
  <2> QED BY <1>6, <2>1, <2>3, <2>4, <2>5, <2>6 DEF SendStep
<1>7. CASE GitSteps
  BY <1>2, <1>7
     DEF GitSteps, StartGit, GiveUpGit, Receive, Spawn, StopReceiving, EndGit, ProbeEnds,
         walking
<1>8. CASE ArenaSteps
  BY <1>2, <1>8 DEF ArenaSteps, GrowArena, Replace, Absorb, DropArena, walking
<1>9. CASE \/ Cancel \/ Open \/ \E a \in Audits : Admit(a) \/ Leave(a)
           \/ \E h \in Holders : Charge(h)
  BY <1>2, <1>9 DEF Cancel, Open, Admit, Leave, Charge, walking
<1>10. CASE UNCHANGED vars
  BY <1>2, <1>10 DEF vars, walking
<1> QED BY <1>3, <1>4, <1>5, <1>6, <1>7, <1>8, <1>9, <1>10 DEF Next, WalkSteps

LEMMA GitStep ==
  ASSUME Inv, [Next]_vars
  PROVE  GitTypes'
<1>1. GitTypes /\ PipeTypes
  BY DEF Inv, FlowTypes
<1>2. CASE UNCHANGED <<git, probing, done>>
  BY <1>1, <1>2 DEF GitTypes
<1>3. CASE StartGit \/ StopReceiving \/ GiveUpGit
  BY <1>1, <1>3 DEF StartGit, StopReceiving, GiveUpGit, GitTypes, GitPhases
<1>4. CASE Receive
  <2>1. Head(pipe.queue) \in Repos
    BY <1>1, <1>4 DEF Receive, PipeTypes
  <2> QED BY <1>1, <1>4, <2>1 DEF Receive, GitTypes, GitPhases
<1>5. CASE Spawn
  <2>1. git.repo \in Repos
    BY <1>1, <1>5 DEF Spawn, Inv, SectionInv, GitTypes
  <2>2. IsFiniteSet(probing') /\ Cardinality(probing') <= Probes
    BY <1>1, <1>5, HasRoom, PipeAssumption DEF Spawn, GitTypes
  <2> QED BY <1>1, <1>5, <2>1, <2>2 DEF Spawn, GitTypes, GitPhases
<1>6. CASE EndGit
  <2> DEFINE v == IF token THEN "cancelled" ELSE IF git.failed THEN "failed" ELSE "ok"
  <2>1. git' = [git EXCEPT !.phase = "ended", !.result = v] /\ UNCHANGED <<probing, done>>
    BY <1>6 DEF EndGit
  <2>2. v \in {"cancelled", "failed", "ok"}
    OBVIOUS
  <2> HIDE DEF v
  <2> QED BY <1>1, <2>1, <2>2 DEF GitTypes, GitPhases
<1>7. ASSUME NEW r \in Repos, NEW ok \in BOOLEAN, ProbeEnds(r, ok) PROVE GitTypes'
  <2> DEFINE b == git.failed \/ ~ok
  <2>1. git' = [git EXCEPT !.failed = b] /\ probing' = probing \ {r} /\ done' = done \cup {r}
    BY <1>7 DEF ProbeEnds
  <2>2. b \in BOOLEAN
    OBVIOUS
  <2>3. IsFiniteSet(probing') /\ Cardinality(probing') <= Probes
    BY <1>1, <2>1, Fewer, PipeAssumption DEF GitTypes
  <2> HIDE DEF b
  <2> QED BY <1>1, <2>1, <2>2, <2>3 DEF GitTypes
<1>8. CASE WalkSteps
  BY <1>2, <1>8
     DEF WalkSteps, Open, StartDisk, AdmitDiscovery, GiveUpWalk, CloseWalk, Report, section
<1>9. CASE ArenaSteps
  BY <1>2, <1>9 DEF ArenaSteps, GrowArena, Replace, Absorb, DropArena, section
<1>10. CASE \/ Cancel \/ \E a \in Audits : Admit(a) \/ Leave(a)
            \/ \E h \in Holders : Charge(h)
  BY <1>2, <1>10 DEF Cancel, Admit, Leave, Charge, section
<1>11. ASSUME NEW w \in Walkers, SendStep(w) PROVE GitTypes'
  BY <1>2, <1>11 DEF SendStep, Visit, TakePlace, LockPipe, Grown, Send, Refused, section
<1>12. CASE UNCHANGED vars
  BY <1>2, <1>12 DEF vars, section
<1> QED BY <1>3, <1>4, <1>5, <1>6, <1>7, <1>8, <1>9, <1>10, <1>11, <1>12
        DEF Next, GitSteps

-----------------------------------------------------------------------------
(* The channel: its places are those of the threads that reserved one.     *)

HasOne(w) == walker[w].at \in {"lock", "grow", "send"}

LEMMA PlaceKept ==
  ASSUME WalkTypes, NEW w \in Walkers, NEW x, walker' = [walker EXCEPT ![w] = x],
         x.at \in {"lock", "grow", "send"} <=> HasOne(w)
  PROVE  Placed' = Placed
<1>1. walker'[w] = x /\ \A v \in Walkers : v # w => walker'[v] = walker[v]
  BY DEF WalkTypes
<1> QED BY <1>1 DEF Placed, HasOne

LEMMA PlaceTaken ==
  ASSUME WalkTypes, IsFiniteSet(Placed), NEW w \in Walkers, NEW x,
         walker' = [walker EXCEPT ![w] = x],
         x.at \in {"lock", "grow", "send"}, ~HasOne(w)
  PROVE  IsFiniteSet(Placed') /\ Cardinality(Placed') = Cardinality(Placed) + 1
<1>1. walker'[w] = x /\ \A v \in Walkers : v # w => walker'[v] = walker[v]
  BY DEF WalkTypes
<1>2. Placed' = Placed \cup {w} /\ w \notin Placed
  BY <1>1 DEF Placed, HasOne
<1> QED BY <1>2, FS_AddElement

LEMMA PlaceGiven ==
  ASSUME WalkTypes, IsFiniteSet(Placed), NEW w \in Walkers, NEW x,
         walker' = [walker EXCEPT ![w] = x],
         x.at \notin {"lock", "grow", "send"}, HasOne(w)
  PROVE  /\ IsFiniteSet(Placed') /\ Cardinality(Placed') = Cardinality(Placed) - 1
         /\ Cardinality(Placed) \in Nat \ {0}
<1>1. walker'[w] = x /\ \A v \in Walkers : v # w => walker'[v] = walker[v]
  BY DEF WalkTypes
<1>2. Placed' = Placed \ {w} /\ w \in Placed
  BY <1>1 DEF Placed, HasOne
<1>3. IsFiniteSet(Placed') /\ Cardinality(Placed') = Cardinality(Placed) - 1
  BY <1>2, FS_RemoveElement
<1>4. Cardinality(Placed) \in Nat /\ Cardinality(Placed') \in Nat
  BY <1>3, FS_CardinalityType
<1> QED BY <1>3, <1>4

ChannelInv == PipeTypes /\ PlacesInv

\* The ends and the queue when one of them is let go.
LEMMA ReleasedChannel ==
  ASSUME ChannelInv, NEW s \in BOOLEAN, NEW r \in BOOLEAN, Released(s, r), Placed' = Placed
  PROVE  ChannelInv'
<1> DEFINE q == IF r THEN pipe.queue ELSE <<>>
<1>1. pipe' = [pipe EXCEPT !.sender = s, !.receiver = r, !.queue = q] /\ charged' = charged
  BY DEF Released
<1>2. q \in Seq(Repos) /\ Len(q) <= Len(pipe.queue)
  BY DEF ChannelInv, PipeTypes
<1>3. pipe.places \in Nat /\ Len(pipe.queue) \in Nat /\ Capacity \in Nat /\ Len(q) \in Nat
  BY <1>2, PipeAssumption DEF ChannelInv, PipeTypes
<1> HIDE DEF q
<1>4. PipeTypes'
  BY <1>1, <1>2 DEF ChannelInv, PipeTypes
<1>5. pipe'.queue = q /\ pipe'.places = pipe.places
  BY <1>1 DEF ChannelInv, PipeTypes
<1>6. PlacesInv'
  BY <1>2, <1>3, <1>5 DEF ChannelInv, PlacesInv
<1> QED BY <1>4, <1>6 DEF ChannelInv

LEMMA ChannelUnchanged ==
  ASSUME ChannelInv, UNCHANGED <<pipe, charged, walker>>
  PROVE  ChannelInv'
BY DEF ChannelInv, PipeTypes, PlacesInv, Placed

LEMMA ChannelStep ==
  ASSUME Inv, [Next]_vars
  PROVE  ChannelInv'
<1>1. ChannelInv /\ PipeTypes /\ PlacesInv /\ WalkTypes /\ FlowTypes
  BY DEF Inv, FlowTypes, ChannelInv
<1>2. pipe.queue \in Seq(Repos) /\ Len(pipe.queue) \in Nat /\ pipe.places \in Nat
      /\ Capacity \in Nat
  BY <1>1, PipeAssumption DEF PipeTypes
<1>3. CASE UNCHANGED vars
  BY <1>1, <1>3, ChannelUnchanged DEF vars, walking, flow
<1>4. CASE WalkSteps
  <2>1. CASE Open
    <3> DEFINE ok == Answered(Pipe, "granted")
               st == IF ok THEN "open" ELSE "closed"
    <3>1. /\ pipe' = [pipe EXCEPT !.state = st, !.sender = ok, !.receiver = ok]
          /\ UNCHANGED <<charged, walker>>
      BY <2>1 DEF Open, walking
    <3>2. ok \in BOOLEAN /\ st \in {"open", "closed"}
      BY DEF Answered
    <3> HIDE DEF ok, st
    <3>3. PipeTypes'
      BY <1>1, <3>1, <3>2 DEF PipeTypes
    <3>4. pipe'.queue = pipe.queue /\ pipe'.places = pipe.places
      BY <1>1, <3>1 DEF PipeTypes
    <3> QED BY <1>1, <3>1, <3>3, <3>4 DEF ChannelInv, PlacesInv, Placed
  <2>2. CASE StartDisk \/ AdmitDiscovery \/ Report
    BY <1>1, <2>2, ChannelUnchanged DEF StartDisk, AdmitDiscovery, Report, flow
  <2>3. CASE GiveUpWalk
    <3>1. Released(FALSE, pipe.receiver) /\ walker' = walker
      BY <2>3 DEF GiveUpWalk
    <3> QED BY <1>1, <3>1, ReleasedChannel DEF Placed, PipeTypes
  <2>4. CASE CloseWalk
    <3>1. Released(FALSE, pipe.receiver) /\ walker' = walker
      BY <2>4 DEF CloseWalk, DropsSender
    <3> QED BY <1>1, <3>1, ReleasedChannel DEF Placed, PipeTypes
  <2> QED BY <1>4, <2>1, <2>2, <2>3, <2>4 DEF WalkSteps
<1>5. CASE GitSteps
  <2>1. CASE \/ StartGit \/ Spawn \/ StopReceiving
             \/ \E r \in Repos, ok \in BOOLEAN : ProbeEnds(r, ok)
    BY <1>1, <2>1, ChannelUnchanged DEF StartGit, Spawn, StopReceiving, ProbeEnds, flow, walking
  <2>2. CASE GiveUpGit \/ EndGit
    <3>1. Released(pipe.sender, FALSE) /\ walker' = walker
      BY <2>2 DEF GiveUpGit, EndGit, walking
    <3> QED BY <1>1, <3>1, ReleasedChannel DEF Placed, PipeTypes
  <2>3. CASE Receive
    <3> DEFINE q == Tail(pipe.queue)
    <3>1. pipe' = [pipe EXCEPT !.queue = q] /\ UNCHANGED <<charged, walker>>
      BY <2>3 DEF Receive, walking
    <3>2. q \in Seq(Repos) /\ Len(q) <= Len(pipe.queue) /\ Len(q) \in Nat
      BY <1>2, <2>3 DEF Receive
    <3> HIDE DEF q
    <3>3. PipeTypes'
      BY <1>1, <3>1, <3>2 DEF PipeTypes
    <3>4. pipe'.queue = q /\ pipe'.places = pipe.places
      BY <1>1, <3>1 DEF PipeTypes
    <3> QED BY <1>1, <1>2, <3>1, <3>2, <3>3, <3>4 DEF ChannelInv, PlacesInv, Placed
  <2> QED BY <1>5, <2>1, <2>2, <2>3 DEF GitSteps
<1>6. CASE ArenaSteps
  BY <1>1, <1>6, ChannelUnchanged
     DEF ArenaSteps, GrowArena, Replace, Absorb, DropArena, flow, walking
<1>7. CASE \/ Cancel \/ \E a \in Audits : Admit(a) \/ Leave(a)
           \/ \E h \in Holders : Charge(h)
  BY <1>1, <1>7, ChannelUnchanged DEF Cancel, Admit, Leave, Charge, flow, walking
<1>8. ASSUME NEW w \in Walkers, SendStep(w) PROVE ChannelInv'
  <2>1. walker[w] \in WalkerStates
    BY <1>1 DEF WalkTypes
  <2>2. ASSUME NEW r \in Repos, Visit(w, r) PROVE ChannelInv'
    <3> DEFINE x == [at |-> "slot", repo |-> r]
    <3>1. /\ walker' = [walker EXCEPT ![w] = x] /\ x.at = "slot" /\ ~HasOne(w)
          /\ UNCHANGED <<pipe, charged>>
      BY <2>2 DEF Visit, flow, HasOne
    <3> HIDE DEF x
    <3>2. Placed' = Placed
      BY <1>1, <3>1, PlaceKept
    <3> QED BY <1>1, <3>1, <3>2 DEF ChannelInv, PipeTypes, PlacesInv
  <2>3. CASE TakePlace(w)
    <3>1. CASE HasPlace
      <4> DEFINE x == [walker[w] EXCEPT !.at = "lock"]
      <4>1. /\ walker' = [walker EXCEPT ![w] = x] /\ UNCHANGED charged
            /\ pipe' = [pipe EXCEPT !.places = @ + 1] /\ ~HasOne(w)
        BY <2>3, <3>1, <1>1 DEF TakePlace, At, HasOne, WalkTypes
      <4>2. x.at = "lock"
        BY <2>1 DEF WalkerStates
      <4> HIDE DEF x
      <4>3. IsFiniteSet(Placed') /\ Cardinality(Placed') = Cardinality(Placed) + 1
        BY <1>1, <4>1, <4>2, PlaceTaken DEF PlacesInv
      <4>4. PipeTypes'
        BY <1>1, <1>2, <4>1 DEF PipeTypes
      <4>5. pipe'.queue = pipe.queue /\ pipe'.places = pipe.places + 1
        BY <1>1, <4>1 DEF PipeTypes
      <4>6. Len(pipe.queue) + pipe.places < Capacity
        BY <3>1 DEF HasPlace
      <4> QED BY <1>1, <1>2, <4>3, <4>4, <4>5, <4>6 DEF ChannelInv, PlacesInv
    <3>2. CASE ~HasPlace
      <4> DEFINE x == [walker[w] EXCEPT !.at = "refused"]
      <4>1. /\ walker' = [walker EXCEPT ![w] = x] /\ UNCHANGED <<pipe, charged>> /\ ~HasOne(w)
        BY <2>3, <3>2, <1>1 DEF TakePlace, At, HasOne, WalkTypes
      <4>2. x.at = "refused"
        BY <2>1 DEF WalkerStates
      <4> HIDE DEF x
      <4>3. Placed' = Placed
        BY <1>1, <4>1, <4>2, PlaceKept
      <4> QED BY <1>1, <4>1, <4>3 DEF ChannelInv, PipeTypes, PlacesInv
    <3> QED BY <3>1, <3>2
  <2>4. ASSUME NEW x, walker' = [walker EXCEPT ![w] = x],
               x.at \notin {"lock", "grow", "send"}, HasOne(w),
               NEW q \in Seq(Repos), Len(q) + pipe.places <= Capacity + 1,
               NEW k \in Walkers \cup {Nobody},
               pipe' = [pipe EXCEPT !.places = @ - 1, !.lock = k, !.queue = q],
               charged' = charged
        PROVE  ChannelInv'
    <3>1. /\ IsFiniteSet(Placed') /\ Cardinality(Placed') = Cardinality(Placed) - 1
          /\ Cardinality(Placed) \in Nat \ {0}
      BY <1>1, <2>4, PlaceGiven DEF PlacesInv
    <3>2. pipe.places - 1 \in Nat
      BY <1>1, <3>1 DEF PlacesInv
    <3>3. PipeTypes'
      BY <1>1, <3>2, <2>4 DEF PipeTypes
    <3>4. pipe'.queue = q /\ pipe'.places = pipe.places - 1
      BY <1>1, <2>4 DEF PipeTypes
    <3>5. Len(q) \in Nat
      OBVIOUS
    <3> QED BY <1>1, <1>2, <3>1, <3>2, <3>3, <3>4, <3>5, <2>4 DEF ChannelInv, PlacesInv
  <2>5. ASSUME NEW x, walker' = [walker EXCEPT ![w] = x],
               x.at \in {"lock", "grow", "send"}, HasOne(w),
               NEW k \in Walkers \cup {Nobody},
               pipe' = [pipe EXCEPT !.lock = k],
               charged' \subseteq Repos, IsFiniteSet(charged')
        PROVE  ChannelInv'
    <3>1. Placed' = Placed
      BY <1>1, <2>5, PlaceKept
    <3>2. PipeTypes'
      BY <1>1, <2>5 DEF PipeTypes
    <3>3. pipe'.queue = pipe.queue /\ pipe'.places = pipe.places
      BY <1>1, <2>5 DEF PipeTypes
    <3> QED BY <1>1, <3>1, <3>2, <3>3 DEF ChannelInv, PlacesInv
  <2>6. pipe = [pipe EXCEPT !.lock = pipe.lock] /\ pipe.lock \in Walkers \cup {Nobody}
        /\ Len(pipe.queue) + pipe.places <= Capacity + 1
    BY <1>1, <1>2 DEF PipeTypes, PlacesInv
  <2>7. CASE LockPipe(w)
    <3>1. CASE pipe.lock = Nobody /\ WithinPipe(walker[w].repo)
      <4> DEFINE x == [walker[w] EXCEPT !.at = "grow"]
      <4>1. /\ walker' = [walker EXCEPT ![w] = x] /\ UNCHANGED charged
            /\ pipe' = [pipe EXCEPT !.lock = w] /\ HasOne(w)
        BY <2>7, <3>1, <1>1 DEF LockPipe, At, HasOne, WalkTypes
      <4>2. x.at = "grow"
        BY <2>1 DEF WalkerStates
      <4> HIDE DEF x
      <4>3. charged' \subseteq Repos /\ IsFiniteSet(charged')
        BY <1>1, <4>1 DEF PipeTypes
      <4> QED BY <4>1, <4>2, <4>3, <2>5
    <3>2. CASE ~(pipe.lock = Nobody /\ WithinPipe(walker[w].repo))
      <4> DEFINE x == [walker[w] EXCEPT !.at = "refused"]
      <4>1. /\ walker' = [walker EXCEPT ![w] = x] /\ UNCHANGED charged
            /\ pipe' = [pipe EXCEPT !.places = @ - 1] /\ HasOne(w)
        BY <2>7, <3>2, <1>1 DEF LockPipe, At, HasOne, WalkTypes
      <4>2. x.at = "refused"
        BY <2>1 DEF WalkerStates
      <4>3. pipe' = [pipe EXCEPT !.places = @ - 1, !.lock = pipe.lock, !.queue = pipe.queue]
        BY <4>1, <1>1 DEF PipeTypes
      <4> HIDE DEF x
      <4> QED BY <1>2, <2>6, <4>1, <4>2, <4>3, <2>4
    <3> QED BY <3>1, <3>2
  <2>8. CASE Grown(w)
    <3>1. CASE Answered(Pipe, "granted")
      <4> DEFINE x == [walker[w] EXCEPT !.at = "send"]
      <4>1. /\ walker' = [walker EXCEPT ![w] = x] /\ charged' = charged \cup {walker[w].repo}
            /\ pipe' = [pipe EXCEPT !.lock = Nobody] /\ HasOne(w)
        BY <2>8, <3>1, <1>1 DEF Grown, At, HasOne, WalkTypes
      <4>2. x.at = "send"
        BY <2>1 DEF WalkerStates
      <4> HIDE DEF x
      <4>3. walker[w].repo \in Repos
        BY <2>8 DEF Grown, Inv, WalkersInv
      <4>4. charged' \subseteq Repos /\ IsFiniteSet(charged')
        BY <1>1, <4>1, <4>3, FS_AddElement DEF PipeTypes
      <4> QED BY <4>1, <4>2, <4>4, <2>5
    <3>2. CASE ~Answered(Pipe, "granted")
      <4> DEFINE x == [walker[w] EXCEPT !.at = "refused"]
      <4>1. /\ walker' = [walker EXCEPT ![w] = x] /\ UNCHANGED charged
            /\ pipe' = [pipe EXCEPT !.lock = Nobody, !.places = @ - 1] /\ HasOne(w)
        BY <2>8, <3>2, <1>1 DEF Grown, At, HasOne, WalkTypes
      <4>2. x.at = "refused"
        BY <2>1 DEF WalkerStates
      <4>3. pipe' = [pipe EXCEPT !.places = @ - 1, !.lock = Nobody, !.queue = pipe.queue]
        BY <4>1, <1>1 DEF PipeTypes
      <4> HIDE DEF x
      <4> QED BY <1>2, <2>6, <4>1, <4>2, <4>3, <2>4
    <3> QED BY <3>1, <3>2
  <2>9. CASE Send(w)
    <3> DEFINE q == IF pipe.receiver THEN Append(pipe.queue, walker[w].repo) ELSE pipe.queue
    <3>1. /\ walker' = [walker EXCEPT ![w] = Idle] /\ UNCHANGED charged
          /\ pipe' = [pipe EXCEPT !.places = @ - 1, !.queue = q] /\ HasOne(w)
      BY <2>9 DEF Send, HasOne
    <3>2. walker[w].repo \in Repos
      BY <2>9 DEF Send, Inv, WalkersInv
    <3>3. q \in Seq(Repos) /\ Len(q) <= Len(pipe.queue) + 1 /\ Len(q) \in Nat
      BY <1>2, <3>2
    <3>4. Len(q) + pipe.places <= Capacity + 1
      BY <1>1, <1>2, <3>3 DEF PlacesInv
    <3> HIDE DEF q
    <3>5. pipe' = [pipe EXCEPT !.places = @ - 1, !.lock = pipe.lock, !.queue = q]
      BY <3>1, <1>1 DEF PipeTypes
    <3>6. Idle.at \notin {"lock", "grow", "send"}
      BY DEF Idle
    <3> QED BY <2>6, <3>1, <3>3, <3>4, <3>5, <3>6, <2>4
  <2>10. CASE Refused(w)
    <3>1. walker' = [walker EXCEPT ![w] = Idle] /\ UNCHANGED <<pipe, charged>> /\ ~HasOne(w)
      BY <2>10 DEF Refused, HasOne, flow
    <3>2. Idle.at \notin {"lock", "grow", "send"}
      BY DEF Idle
    <3>3. Placed' = Placed
      BY <1>1, <3>1, <3>2, PlaceKept
    <3> QED BY <1>1, <3>1, <3>3 DEF ChannelInv, PipeTypes, PlacesInv
  <2> QED BY <1>8, <2>2, <2>3, <2>7, <2>8, <2>9, <2>10 DEF SendStep
<1> QED BY <1>3, <1>4, <1>5, <1>6, <1>7, <1>8 DEF Next

-----------------------------------------------------------------------------
(* The threads of the walk.                                                *)

\* What becomes of the pipe's ends.
LEMMA ReleasedEnds ==
  ASSUME PipeTypes, NEW s \in BOOLEAN, NEW r \in BOOLEAN, Released(s, r)
  PROVE  /\ pipe'.sender = s /\ pipe'.receiver = r /\ pipe'.state = pipe.state
         /\ pipe'.queue = (IF r THEN pipe.queue ELSE <<>>) /\ charged' = charged
         /\ pipe'.lock = pipe.lock /\ pipe'.limit = pipe.limit /\ UNCHANGED call
BY DEF Released, PipeTypes

\* Only threads of a walk that walks are in send.
LEMMA AllIdle ==
  ASSUME WalkersInv, walk.phase # "walking", NEW w \in Walkers
  PROVE  walker[w].at = "idle"
BY DEF WalkersInv

LEMMA WalkersIdle ==
  ASSUME WalkersInv, walker' = walker, unseen' = unseen, charged' = charged,
         \A w \in Walkers : walker[w].at = "idle"
  PROVE  WalkersInv'
BY DEF WalkersInv

LEMMA WalkersStep ==
  ASSUME Inv, [Next]_vars
  PROVE  WalkersInv'
<1>1. WalkersInv /\ WalkTypes /\ PipeTypes /\ EndsInv
  BY DEF Inv, FlowTypes
<1>2. ASSUME UNCHANGED <<walker, walk, unseen, charged>>, pipe'.sender = pipe.sender
      PROVE  WalkersInv'
  BY <1>1, <1>2 DEF WalkersInv
<1>3. CASE UNCHANGED vars
  BY <1>2, <1>3 DEF vars, walking, flow
<1>4. CASE WalkSteps
  <2>1. CASE Open
    BY <1>1, <2>1, AllIdle, WalkersIdle DEF Open, EndsInv, walking
  <2>2. CASE StartDisk \/ AdmitDiscovery
    <3>1. /\ UNCHANGED <<walker, unseen, charged, pipe>>
          /\ walk' = walk \/ walk'.phase = "walking"
      BY <1>1, <2>2 DEF StartDisk, AdmitDiscovery, flow, WalkTypes
    <3> QED BY <1>1, <3>1 DEF WalkersInv
  <2>3. CASE Report
    BY <1>1, <2>3, AllIdle, WalkersIdle DEF Report, flow
  <2>4. CASE GiveUpWalk
    BY <1>1, <2>4, AllIdle, WalkersIdle DEF GiveUpWalk, Released
  <2>5. CASE CloseWalk
    BY <1>1, <2>5, WalkersIdle DEF CloseWalk, Released
  <2> QED BY <1>4, <2>1, <2>2, <2>3, <2>4, <2>5 DEF WalkSteps
<1>5. CASE GitSteps
  <2>1. CASE \/ StartGit \/ Spawn \/ StopReceiving
             \/ \E r \in Repos, ok \in BOOLEAN : ProbeEnds(r, ok)
    BY <1>2, <2>1 DEF StartGit, Spawn, StopReceiving, ProbeEnds, flow, walking
  <2>2. CASE GiveUpGit \/ EndGit
    <3>1. Released(pipe.sender, FALSE) /\ UNCHANGED walking
      BY <2>2 DEF GiveUpGit, EndGit
    <3>2. pipe'.sender = pipe.sender /\ charged' = charged
      BY <1>1, <3>1, ReleasedEnds DEF PipeTypes
    <3> QED BY <1>2, <3>1, <3>2 DEF walking
  <2>3. CASE Receive
    <3>1. pipe'.sender = pipe.sender /\ UNCHANGED <<walking, charged>>
      BY <1>1, <2>3 DEF Receive, PipeTypes
    <3> QED BY <1>2, <3>1 DEF walking
  <2> QED BY <1>5, <2>1, <2>2, <2>3 DEF GitSteps
<1>6. CASE ArenaSteps
  BY <1>2, <1>6 DEF ArenaSteps, GrowArena, Replace, Absorb, DropArena, flow, walking
<1>7. CASE \/ Cancel \/ \E a \in Audits : Admit(a) \/ Leave(a)
           \/ \E h \in Holders : Charge(h)
  BY <1>2, <1>7 DEF Cancel, Admit, Leave, Charge, flow, walking
<1>8. ASSUME NEW w \in Walkers, SendStep(w) PROVE WalkersInv'
  <2>1. walker[w] \in WalkerStates
    BY <1>1 DEF WalkTypes
  <2>2. ASSUME NEW r \in Repos, Visit(w, r) PROVE WalkersInv'
    <3>1. /\ walker'[w].at = "slot" /\ walker'[w].repo = r
          /\ \A v \in Walkers : v # w => walker'[v] = walker[v]
          /\ unseen' = unseen \ {r} /\ r \in unseen /\ walk.phase = "walking"
          /\ UNCHANGED <<walk, pipe, charged>>
      BY <1>1, <2>2 DEF Visit, WalkTypes, flow
    <3> QED BY <1>1, <3>1 DEF WalkersInv
  <2>3. ASSUME NEW at \in {"refused", "lock", "grow"}, walker[w].at # "idle",
               at = "lock" => pipe.receiver \/ pipe.sender,
               at = "lock" => walker[w].at = "slot", at = "grow" => walker[w].at = "lock",
               At(w, at), UNCHANGED <<walk, unseen, charged>>, pipe'.sender = pipe.sender
        PROVE WalkersInv'
    <3>1. /\ walker'[w].at = at /\ walker'[w].repo = walker[w].repo
          /\ \A v \in Walkers : v # w => walker'[v] = walker[v]
      BY <1>1, <2>1, <2>3 DEF At, WalkTypes, WalkerStates
    <3>2. at = "lock" => pipe.sender
      BY <1>1, <2>3 DEF EndsInv, WalkersInv, PipeTypes
    <3> QED BY <1>1, <2>3, <3>1, <3>2 DEF WalkersInv
  <2>4. CASE TakePlace(w)
    <3>1. pipe'.sender = pipe.sender /\ UNCHANGED <<walk, unseen, charged>>
      BY <1>1, <2>4 DEF TakePlace, PipeTypes
    <3> QED BY <2>3, <2>4, <3>1 DEF TakePlace, HasPlace
  <2>5. CASE LockPipe(w)
    <3>1. pipe'.sender = pipe.sender /\ UNCHANGED <<walk, unseen, charged>>
      BY <1>1, <2>5 DEF LockPipe, PipeTypes
    <3> QED BY <2>3, <2>5, <3>1 DEF LockPipe
  <2>6. CASE Grown(w) /\ ~Answered(Pipe, "granted")
    <3>1. pipe'.sender = pipe.sender /\ UNCHANGED <<walk, unseen, charged>>
      BY <1>1, <2>6 DEF Grown, PipeTypes
    <3> QED BY <2>3, <2>6, <3>1 DEF Grown
  <2>7. CASE Grown(w) /\ Answered(Pipe, "granted")
    <3>1. /\ walker'[w].at = "send" /\ walker'[w].repo = walker[w].repo
          /\ \A v \in Walkers : v # w => walker'[v] = walker[v]
          /\ walker[w].at = "grow"
          /\ charged' = charged \cup {walker[w].repo} /\ UNCHANGED <<walk, unseen>>
      BY <1>1, <2>1, <2>7 DEF Grown, At, WalkTypes, WalkerStates
    <3>2. pipe'.sender = pipe.sender
      BY <1>1, <2>7 DEF Grown, PipeTypes
    <3> QED BY <1>1, <3>1, <3>2 DEF WalkersInv
  <2>8. CASE Send(w) \/ Refused(w)
    <3>1. /\ walker'[w].at = "idle"
          /\ \A v \in Walkers : v # w => walker'[v] = walker[v]
          /\ UNCHANGED <<walk, unseen, charged>>
      BY <1>1, <2>8 DEF Send, Refused, WalkTypes, Idle, flow
    <3>2. pipe'.sender = pipe.sender
      BY <1>1, <2>8 DEF Send, Refused, PipeTypes, flow
    <3> QED BY <1>1, <3>1, <3>2 DEF WalkersInv
  <2> QED BY <1>8, <2>2, <2>4, <2>5, <2>6, <2>7, <2>8 DEF SendStep
<1> QED BY <1>3, <1>4, <1>5, <1>6, <1>7, <1>8 DEF Next

-----------------------------------------------------------------------------
(* The ends of the pipe.                                                   *)

LEMMA EndsStep ==
  ASSUME Inv, [Next]_vars
  PROVE  EndsInv'
<1>1. WalkersInv /\ WalkTypes /\ PipeTypes /\ EndsInv /\ AdmissionTypes /\ GitTypes
  BY DEF Inv, FlowTypes
<1>2. ASSUME UNCHANGED <<charged, walk, git, token, admission>>,
             pipe'.state = pipe.state, pipe'.sender = pipe.sender,
             pipe'.receiver = pipe.receiver, ~pipe.receiver => pipe'.queue = pipe.queue
      PROVE  EndsInv'
  BY <1>1, <1>2 DEF EndsInv
<1>3. CASE UNCHANGED vars
  BY <1>2, <1>3 DEF vars, walking, flow, section
<1>4. CASE WalkSteps
  <2>1. CASE Open
    <3> DEFINE ok == Answered(Pipe, "granted")
               st == IF ok THEN "open" ELSE "closed"
    <3>1. /\ pipe' = [pipe EXCEPT !.state = st, !.sender = ok, !.receiver = ok]
          /\ UNCHANGED <<walk, git, token, admission>> /\ pipe.state = "opening"
      BY <2>1 DEF Open, walking, section
    <3>2. ok \in BOOLEAN /\ st \in {"open", "closed"} /\ (ok => st = "open") /\ (~ok => st = "closed")
      BY DEF Answered
    <3> HIDE DEF ok, st
    <3>3. pipe'.state = st /\ pipe'.sender = ok /\ pipe'.receiver = ok /\ pipe'.queue = pipe.queue
      BY <1>1, <3>1 DEF PipeTypes
    <3> QED BY <1>1, <3>1, <3>2, <3>3 DEF EndsInv
  <2>2. CASE StartDisk
    <3>1. /\ walk' = walk \/ (walk'.phase = "walking" /\ ~walk.separate /\ walk'.separate = walk.separate)
          /\ ~token /\ ~admission.started /\ pipe.state # "opening"
          /\ UNCHANGED <<charged, pipe, git, token>>
      BY <1>1, <2>2 DEF StartDisk, flow, section, WalkTypes, Ready
    <3>2. admission'.started = TRUE /\ admission'.of = admission.of
      BY <1>1, <2>2 DEF StartDisk, AdmissionTypes
    <3>3. walk.phase = "waiting"
      BY <1>1, <3>1 DEF EndsInv
    <3> QED BY <1>1, <3>1, <3>2, <3>3 DEF EndsInv
  <2>3. CASE AdmitDiscovery
    <3>1. /\ walk'.phase = "walking" /\ walk.separate
          /\ admission.of[Home] = "waiting" /\ pipe.state # "opening" /\ admission.started
          /\ UNCHANGED <<charged, pipe, git, token>>
      BY <1>1, <2>3 DEF AdmitDiscovery, flow, section, WalkTypes, Ready, Admissible
    <3>2. admission'.started = admission.started /\ admission'.of[Home] = "in"
      BY <1>1, <2>3 DEF AdmitDiscovery, AdmissionTypes
    <3>3. walk.phase = "waiting"
      BY <1>1, <3>1 DEF EndsInv
    <3> QED BY <1>1, <3>1, <3>2, <3>3 DEF EndsInv
  <2>4. CASE GiveUpWalk
    <3>1. /\ walk'.phase = "over" /\ pipe.state # "opening" /\ token
          /\ Released(FALSE, pipe.receiver) /\ UNCHANGED <<git, token>>
      BY <1>1, <2>4 DEF GiveUpWalk, section, WalkTypes, Ready
    <3>2. admission'.started = admission.started /\ admission'.of[Home] = "out"
      BY <1>1, <2>4 DEF GiveUpWalk, AdmissionTypes
    <3>3. pipe.receiver \in BOOLEAN
      BY <1>1 DEF PipeTypes
    <3> QED BY <1>1, <3>1, <3>2, <3>3, ReleasedEnds DEF EndsInv
  <2>5. CASE CloseWalk
    <3>1. /\ walk'.phase = "report" /\ walk'.separate = walk.separate /\ walk.phase = "walking"
          /\ Released(FALSE, pipe.receiver) /\ UNCHANGED <<git, token, admission>>
      BY <1>1, <2>5 DEF CloseWalk, section, WalkTypes, DropsSender
    <3>2. pipe.receiver \in BOOLEAN
      BY <1>1 DEF PipeTypes
    <3> QED BY <1>1, <3>1, <3>2, ReleasedEnds DEF EndsInv
  <2>6. CASE Report
    <3>1. /\ walk'.phase = "over" /\ walk.phase = "report" /\ UNCHANGED <<charged, pipe, git, token>>
      BY <1>1, <2>6 DEF Report, section, WalkTypes, flow
    <3>2. admission'.started = admission.started /\ admission'.of[Home] = "out"
      BY <1>1, <2>6 DEF Report, AdmissionTypes
    <3> QED BY <1>1, <3>1, <3>2 DEF EndsInv
  <2> QED BY <1>4, <2>1, <2>2, <2>3, <2>4, <2>5, <2>6 DEF WalkSteps
<1>5. CASE GitSteps
  <2>1. CASE \E r \in Repos, ok \in BOOLEAN : ProbeEnds(r, ok)
    <3>1. git'.phase = git.phase /\ UNCHANGED <<charged, pipe, walk, token, admission>>
      BY <1>1, <2>1 DEF ProbeEnds, flow, walking, GitTypes
    <3> QED BY <1>1, <3>1 DEF EndsInv
  <2>2. CASE StartGit \/ Spawn \/ StopReceiving
    <3>1. git.phase # "ended" /\ pipe.state # "opening" /\ UNCHANGED <<charged, pipe, walk, token, admission>>
      BY <1>1, <2>2 DEF StartGit, Spawn, StopReceiving, flow, walking, EndsInv, Ready
    <3> QED BY <1>1, <3>1 DEF EndsInv
  <2>3. CASE GiveUpGit \/ EndGit
    <3>1. /\ Released(pipe.sender, FALSE) /\ UNCHANGED <<walk, token, admission>>
          /\ git'.phase = "ended" /\ pipe.state # "opening"
      BY <1>1, <2>3 DEF GiveUpGit, EndGit, GitTypes, walking, EndsInv, Ready
    <3>2. pipe.sender \in BOOLEAN
      BY <1>1 DEF PipeTypes
    <3> QED BY <1>1, <3>1, <3>2, ReleasedEnds DEF EndsInv
  <2>4. CASE Receive
    <3>1. /\ pipe'.sender = pipe.sender /\ pipe'.receiver = pipe.receiver
          /\ pipe'.state = pipe.state /\ UNCHANGED <<walk, charged, token, admission>>
          /\ pipe.receiver /\ git.phase # "ended" /\ pipe.state # "opening"
      BY <1>1, <2>4 DEF Receive, PipeTypes, EndsInv, walking
    <3> QED BY <1>1, <3>1 DEF EndsInv
  <2> QED BY <1>5, <2>1, <2>2, <2>3, <2>4 DEF GitSteps
<1>6. CASE ArenaSteps
  BY <1>2, <1>6 DEF ArenaSteps, GrowArena, Replace, Absorb, DropArena, flow, walking, section
<1>7. CASE Cancel
  BY <1>1, <1>7 DEF Cancel, EndsInv, flow, walking, section, Ready
<1>8. ASSUME NEW a \in Audits, Admit(a) \/ Leave(a) PROVE EndsInv'
  <2>1. admission'.started = admission.started /\ admission'.of[Home] = admission.of[Home]
    BY <1>1, <1>8, PipeAssumption DEF Admit, Leave, AdmissionTypes
  <2>2. UNCHANGED <<charged, pipe, walk, token, git>>
    BY <1>8 DEF Admit, Leave, flow, walking, section
  <2> QED BY <1>1, <2>1, <2>2 DEF EndsInv
<1>9. ASSUME NEW h \in Holders, Charge(h) PROVE EndsInv'
  BY <1>2, <1>9 DEF Charge, flow, walking, section
<1>10. ASSUME NEW w \in Walkers, SendStep(w) PROVE EndsInv'
  <2>1. /\ pipe'.state = pipe.state /\ pipe'.sender = pipe.sender
        /\ pipe'.receiver = pipe.receiver /\ (~pipe.receiver => pipe'.queue = pipe.queue)
    BY <1>1, <1>10
       DEF SendStep, Visit, TakePlace, LockPipe, Grown, Send, Refused, PipeTypes, flow
  <2>2. UNCHANGED <<walk, git, token, admission>>
    BY <1>10 DEF SendStep, Visit, TakePlace, LockPipe, Grown, Send, Refused, section
  <2>3. pipe.state # "opening"
    BY <1>1, <1>10
       DEF SendStep, Visit, TakePlace, LockPipe, Grown, Send, Refused, WalkersInv, EndsInv
  <2> QED BY <1>1, <2>1, <2>2, <2>3 DEF EndsInv
<1> QED BY <1>3, <1>4, <1>5, <1>6, <1>7, <1>8, <1>9, <1>10 DEF Next

-----------------------------------------------------------------------------
(* The lock and the charge of the pipe.                                    *)

\* What a charge step of any holder does to the pipe's reservation.
LEMMA PipeCharges ==
  ASSUME BudgetInv, NEW h \in Holders, ChargeStep(h)
  PROVE  /\ call'[Pipe].asked = call[Pipe].asked
         /\ call'[Pipe].at = "none" <=> call[Pipe].at = "none"
         /\ \/ /\ held'[Pipe] = held[Pipe]
               /\ call'[Pipe].at = "granted" <=> call[Pipe].at = "granted"
            \/ /\ held'[Pipe] = held[Pipe] + call[Pipe].asked
               /\ call[Pipe].at = "raise" /\ call'[Pipe].at = "granted"
<1>1. call \in [Holders -> Calls] /\ held \in [Holders -> 0..Limit] /\ Pipe \in Holders
  BY HoldersAre DEF BudgetInv
<1>2. ASSUME NEW c \in Calls, call' = [call EXCEPT ![h] = c], held'[Pipe] = held[Pipe],
             c.asked = call[h].asked, c.at \notin {"none", "granted"},
             call[h].at \notin {"none", "granted"}
      PROVE  /\ call'[Pipe].asked = call[Pipe].asked
             /\ call'[Pipe].at = "none" <=> call[Pipe].at = "none"
             /\ call'[Pipe].at = "granted" <=> call[Pipe].at = "granted"
  BY <1>1, <1>2
<1>3. call[h] \in Calls
  BY <1>1
<1>4. CASE Load(h)
  <2>1. /\ call' = [call EXCEPT ![h] = Decided(call[h])] /\ call[h].at = "load"
        /\ held'[Pipe] = held[Pipe]
    BY <1>4 DEF Load
  <2> QED BY <1>2, <1>3, <2>1, DecidedIs
<1>5. CASE Retry(h)
  <2> DEFINE c == [call[h] EXCEPT !.at = "load", !.again = TRUE]
  <2>1. /\ call' = [call EXCEPT ![h] = c] /\ call[h].at = "reclaim"
        /\ held'[Pipe] = held[Pipe]
    BY <1>5, <1>1 DEF Retry
  <2>2. c \in Calls /\ c.at = "load" /\ c.asked = call[h].asked
    BY <1>3 DEF Calls, CallsAt
  <2> HIDE DEF c
  <2> QED BY <1>2, <2>1, <2>2
<1>6. CASE Exchange(h)
  <2>1. CASE Unmoved(call[h])
    <3> DEFINE c == [call[h] EXCEPT !.at = "raise"]
    <3>1. /\ call' = [call EXCEPT ![h] = c] /\ call[h].at = "exchange"
          /\ held'[Pipe] = held[Pipe]
      BY <1>6, <1>1, <2>1 DEF Exchange
    <3>2. c \in Calls /\ c.at = "raise" /\ c.asked = call[h].asked
      BY <1>3 DEF Calls, CallsAt
    <3> HIDE DEF c
    <3> QED BY <1>2, <3>1, <3>2
  <2>2. CASE ~Unmoved(call[h])
    <3>1. /\ call' = [call EXCEPT ![h] = Decided(call[h])] /\ call[h].at = "exchange"
          /\ held'[Pipe] = held[Pipe]
      BY <1>6, <2>2 DEF Exchange
    <3> QED BY <1>2, <1>3, <3>1, DecidedIs
  <2> QED BY <2>1, <2>2
<1>7. CASE Raise(h)
  <2>1. /\ call' = [call EXCEPT ![h] = [call[h] EXCEPT !.at = "granted"]]
        /\ held' = [held EXCEPT ![h] = held[h] + call[h].asked] /\ call[h].at = "raise"
    BY <1>7, <1>1 DEF Raise
  <2>2. CASE h = Pipe
    <3>1. call'[Pipe] = [call[Pipe] EXCEPT !.at = "granted"]
      BY <1>1, <2>1, <2>2
    <3>2. call'[Pipe].at = "granted" /\ call'[Pipe].asked = call[Pipe].asked
      BY <1>1, <3>1 DEF Calls
    <3>3. held'[Pipe] = held[Pipe] + call[Pipe].asked
      BY <1>1, <2>1, <2>2
    <3> QED BY <2>1, <2>2, <3>2, <3>3
  <2>3. CASE h # Pipe
    BY <1>1, <2>1, <2>3
  <2> QED BY <2>2, <2>3
<1>8. ASSUME NEW d \in Disposable, Reclaim(h, d)
      PROVE  held'[Pipe] = held[Pipe] /\ call' = call
  <2>1. d # Pipe
    BY HoldersAre
  <2> QED BY <1>1, <1>8, <2>1 DEF Reclaim
<1> QED BY <1>4, <1>5, <1>6, <1>7, <1>8 DEF ChargeStep

\* The inventory has reservations of its own.
LEMMA ArenaKeepsPipe ==
  ASSUME BudgetInv, ArenaSteps
  PROVE  call'[Pipe] = call[Pipe] /\ held'[Pipe] = held[Pipe]
<1>1. call \in [Holders -> Calls] /\ held \in [Holders -> 0..Limit]
      /\ Pipe \in Holders /\ Pipe # Arena /\ Pipe # Spare
  BY HoldersAre DEF BudgetInv
<1>2. CASE GrowArena
  BY <1>1, <1>2 DEF GrowArena, Ask
<1>3. CASE Replace
  BY <1>1, <1>3 DEF Replace, Taken, Drop, Lowered
<1>4. CASE Absorb
  BY <1>1, <1>4 DEF Absorb, Absorbed
<1>5. CASE DropArena
  BY <1>1, <1>5 DEF DropArena, Drop, Lowered
<1> QED BY <1>2, <1>3, <1>4, <1>5 DEF ArenaSteps

LEMMA LockStep ==
  ASSUME Inv, [Next]_vars
  PROVE  LockInv'
<1>1. LockInv /\ WalkersInv /\ WalkTypes /\ PipeTypes /\ EndsInv /\ BudgetInv
      /\ Nobody \notin Walkers /\ Pipe \in Holders
  BY PipeAssumption, HoldersAre DEF Inv, FlowTypes
<1>2. ASSUME walker' = walker, pipe'.lock = pipe.lock, pipe'.state = pipe.state,
             call'[Pipe].asked = call[Pipe].asked,
             call'[Pipe].at = "none" <=> call[Pipe].at = "none"
      PROVE  LockInv'
  BY <1>1, <1>2 DEF LockInv
<1>3. CASE UNCHANGED vars
  BY <1>2, <1>3 DEF vars, walking, flow, budget
<1>4. CASE WalkSteps
  <2>1. CASE Open
    <3> DEFINE ok == Answered(Pipe, "granted")
               st == IF ok THEN "open" ELSE "closed"
    <3>1. /\ pipe' = [pipe EXCEPT !.state = st, !.sender = ok, !.receiver = ok]
          /\ walker' = walker /\ pipe.state = "opening" /\ call' = [call EXCEPT ![Pipe] = NoCall]
      BY <2>1 DEF Open, walking, Taken
    <3>2. st \in {"open", "closed"}
      OBVIOUS
    <3> HIDE DEF ok, st
    <3>3. pipe'.state = st /\ pipe'.lock = pipe.lock
      BY <1>1, <3>1 DEF PipeTypes
    <3>4. call'[Pipe].at = "none"
      BY <1>1, <3>1 DEF BudgetInv, NoCall
    <3>5. walk.phase # "walking"
      BY <1>1, <3>1 DEF EndsInv
    <3>6. \A w \in Walkers : walker[w].at = "idle"
      BY <1>1, <3>5, AllIdle
    <3>7. pipe.lock = Nobody
      BY <1>1, <3>6 DEF LockInv, PipeTypes
    <3> QED BY <1>1, <3>1, <3>2, <3>3, <3>4, <3>6, <3>7 DEF LockInv
  <2>2. CASE StartDisk \/ AdmitDiscovery \/ Report
    BY <1>2, <2>2 DEF StartDisk, AdmitDiscovery, Report, flow, budget
  <2>3. CASE GiveUpWalk \/ CloseWalk
    <3>1. Released(FALSE, pipe.receiver) /\ walker' = walker /\ pipe.receiver \in BOOLEAN
      BY <1>1, <2>3 DEF GiveUpWalk, CloseWalk, DropsSender, PipeTypes
    <3>2. pipe'.lock = pipe.lock /\ pipe'.state = pipe.state /\ call' = call
      BY <1>1, <3>1, ReleasedEnds
    <3> QED BY <1>2, <3>1, <3>2
  <2> QED BY <1>4, <2>1, <2>2, <2>3 DEF WalkSteps
<1>5. CASE GitSteps
  <2>1. CASE \/ StartGit \/ Spawn \/ StopReceiving
             \/ \E r \in Repos, ok \in BOOLEAN : ProbeEnds(r, ok)
    BY <1>2, <2>1 DEF StartGit, Spawn, StopReceiving, ProbeEnds, flow, walking, budget
  <2>2. CASE GiveUpGit \/ EndGit
    <3>1. Released(pipe.sender, FALSE) /\ walker' = walker /\ pipe.sender \in BOOLEAN
      BY <1>1, <2>2 DEF GiveUpGit, EndGit, walking, PipeTypes
    <3>2. pipe'.lock = pipe.lock /\ pipe'.state = pipe.state /\ call' = call
      BY <1>1, <3>1, ReleasedEnds
    <3> QED BY <1>2, <3>1, <3>2
  <2>3. CASE Receive
    <3>1. pipe'.lock = pipe.lock /\ pipe'.state = pipe.state /\ call' = call /\ walker' = walker
      BY <1>1, <2>3 DEF Receive, PipeTypes, walking, budget
    <3> QED BY <1>2, <3>1
  <2> QED BY <1>5, <2>1, <2>2, <2>3 DEF GitSteps
<1>6. CASE ArenaSteps
  <2>1. call'[Pipe] = call[Pipe]
    BY <1>1, <1>6, ArenaKeepsPipe
  <2>2. UNCHANGED <<walker, pipe>>
    BY <1>6 DEF ArenaSteps, GrowArena, Replace, Absorb, DropArena, flow, walking
  <2> QED BY <1>2, <2>1, <2>2
<1>7. CASE Cancel \/ \E a \in Audits : Admit(a) \/ Leave(a)
  BY <1>2, <1>7 DEF Cancel, Admit, Leave, flow, walking, budget
<1>8. ASSUME NEW h \in Holders, Charge(h) PROVE LockInv'
  <2>1. UNCHANGED <<walker, pipe>> /\ ChargeStep(h)
    BY <1>8 DEF Charge, flow, walking
  <2> QED BY <1>1, <1>2, <2>1, PipeCharges
<1>9. ASSUME NEW w \in Walkers, SendStep(w) PROVE LockInv'
  <2>1. walker[w] \in WalkerStates
    BY <1>1 DEF WalkTypes
  <2>2. walker[w].at # "idle" => pipe.state # "opening"
    BY <1>1 DEF WalkersInv, EndsInv
  <2>3. ASSUME walker[w].at # "grow", walker'[w].at # "grow",
               \A v \in Walkers : v # w => walker'[v] = walker[v],
               pipe'.lock = pipe.lock, pipe'.state = pipe.state, call' = call
        PROVE  LockInv'
    BY <1>1, <2>3 DEF LockInv, PipeTypes
  <2>4. CASE \E r \in Repos : Visit(w, r)
    <3>1. walker[w].at = "idle" /\ walker'[w].at = "slot"
          /\ \A v \in Walkers : v # w => walker'[v] = walker[v]
      BY <1>1, <2>4 DEF Visit, WalkTypes
    <3> QED BY <2>3, <2>4, <3>1 DEF Visit, flow, budget
  <2>5. CASE TakePlace(w)
    <3>1. walker[w].at = "slot" /\ walker'[w].at # "grow"
          /\ \A v \in Walkers : v # w => walker'[v] = walker[v]
      BY <1>1, <2>1, <2>5 DEF TakePlace, At, WalkTypes, WalkerStates
    <3>2. pipe'.lock = pipe.lock /\ pipe'.state = pipe.state /\ call' = call
      BY <1>1, <2>5 DEF TakePlace, PipeTypes, budget
    <3> QED BY <2>3, <3>1, <3>2
  <2>6. CASE Send(w) \/ Refused(w)
    <3>1. walker[w].at # "grow" /\ walker'[w].at # "grow"
          /\ \A v \in Walkers : v # w => walker'[v] = walker[v]
      BY <1>1, <2>6 DEF Send, Refused, WalkTypes, Idle
    <3>2. pipe'.lock = pipe.lock /\ pipe'.state = pipe.state /\ call' = call
      BY <1>1, <2>6 DEF Send, Refused, PipeTypes, budget, flow
    <3> QED BY <2>3, <3>1, <3>2
  <2>7. CASE LockPipe(w) /\ ~(pipe.lock = Nobody /\ WithinPipe(walker[w].repo))
    <3>1. walker[w].at = "lock" /\ walker'[w].at = "refused"
          /\ \A v \in Walkers : v # w => walker'[v] = walker[v]
      BY <1>1, <2>1, <2>7 DEF LockPipe, At, WalkTypes, WalkerStates
    <3>2. pipe'.lock = pipe.lock /\ pipe'.state = pipe.state /\ call' = call
      BY <1>1, <2>7 DEF LockPipe, PipeTypes, budget
    <3> QED BY <2>3, <3>1, <3>2
  <2>8. CASE LockPipe(w) /\ pipe.lock = Nobody /\ WithinPipe(walker[w].repo)
    <3>1. walker[w].at = "lock" /\ walker'[w].at = "grow" /\ walker'[w].repo = walker[w].repo
          /\ \A v \in Walkers : v # w => walker'[v] = walker[v]
      BY <1>1, <2>1, <2>8 DEF LockPipe, At, WalkTypes, WalkerStates
    <3>2. pipe'.lock = w /\ pipe'.state = pipe.state
      BY <1>1, <2>8 DEF LockPipe, PipeTypes
    <3>3. call' = [call EXCEPT ![Pipe] = [NoCall EXCEPT !.at = "load", !.asked = Size[walker[w].repo]]]
      BY <2>8 DEF LockPipe, Ask
    <3>4. call'[Pipe].at = "load" /\ call'[Pipe].asked = Size[walker[w].repo]
      BY <1>1, <3>3 DEF NoCall, BudgetInv
    <3> QED BY <1>1, <2>2, <2>8, <3>1, <3>2, <3>4 DEF LockInv
  <2>9. CASE Grown(w)
    <3>1. walker[w].at = "grow" /\ walker'[w].at # "grow"
          /\ \A v \in Walkers : v # w => walker'[v] = walker[v]
      BY <1>1, <2>1, <2>9 DEF Grown, At, WalkTypes, WalkerStates
    <3>2. pipe'.lock = Nobody /\ pipe'.state = pipe.state
      BY <1>1, <2>9 DEF Grown, PipeTypes
    <3>3. call'[Pipe].at = "none"
      BY <1>1, <2>9 DEF Grown, Taken, NoCall, BudgetInv
    <3> QED BY <1>1, <2>2, <3>1, <3>2, <3>3 DEF LockInv
  <2> QED BY <1>9, <2>4, <2>5, <2>6, <2>7, <2>8, <2>9 DEF SendStep
<1> QED BY <1>3, <1>4, <1>5, <1>6, <1>7, <1>8, <1>9 DEF Next

\* Everything the pipe's charge is about stays as it is.
LEMMA ChargedKept ==
  ASSUME ChargedInv, charged' = charged, held'[Pipe] = held[Pipe],
         pipe'.state = pipe.state, pipe'.sender = pipe.sender,
         pipe'.receiver = pipe.receiver, pipe'.limit = pipe.limit,
         call'[Pipe].asked = call[Pipe].asked,
         call'[Pipe].at = "granted" <=> call[Pipe].at = "granted",
         call'[Pipe].at = "none" <=> call[Pipe].at = "none"
  PROVE  ChargedInv'
<1>1. call'[Pipe].at = "granted" <=> call[Pipe].at = "granted"
  OBVIOUS
<1>2. CASE call[Pipe].at = "granted"
  BY <1>2 DEF ChargedInv
<1>3. CASE call[Pipe].at # "granted"
  BY <1>3 DEF ChargedInv
<1> QED BY <1>2, <1>3

\* An end that goes takes the reservation with it when it is the last.
LEMMA ChargedReleased ==
  ASSUME ChargedInv, PipeTypes, EndsInv, BudgetInv, NEW s \in BOOLEAN, NEW r \in BOOLEAN,
         Released(s, r), s => pipe.sender, r => pipe.receiver, pipe.state # "opening"
  PROVE  ChargedInv'
<1>1. /\ pipe'.sender = s /\ pipe'.receiver = r /\ pipe'.state = pipe.state
      /\ charged' = charged /\ pipe'.limit = pipe.limit /\ UNCHANGED call
  BY ReleasedEnds
<1>2. CASE s \/ r
  <2>1. held' = held
    BY <1>2 DEF Released
  <2>2. CASE call[Pipe].at = "granted"
    BY <1>1, <1>2, <2>1, <2>2 DEF ChargedInv
  <2>3. CASE call[Pipe].at # "granted"
    BY <1>1, <1>2, <2>1, <2>3 DEF ChargedInv
  <2> QED BY <2>2, <2>3
<1>3. CASE ~(s \/ r)
  <2>1. Drop(Pipe)
    BY <1>3 DEF Released
  <2>2. held'[Pipe] = 0
    BY <2>1, DropLowers, HoldersAre DEF BudgetInv
  <2> QED BY <1>1, <1>3, <2>2 DEF ChargedInv
<1> QED BY <1>2, <1>3

LEMMA ChargedNat ==
  ASSUME PipeTypes
  PROVE  SumFunctionOnSet(Size, charged) \in Nat /\ QueueBytes \in Nat /\ pipe.limit \in Nat
         /\ QueueBytes <= pipe.limit
<1>1. \A x \in charged : Size[x] \in Nat
  BY PipeAssumption DEF PipeTypes
<1>2. SumFunctionOnSet(Size, charged) \in Nat
  BY <1>1, SumNat DEF PipeTypes
<1>3. pipe.limit \in PipeLimits
  BY DEF PipeTypes
<1> QED BY <1>2, <1>3, PipeAssumption

LEMMA ChargedStep ==
  ASSUME Inv, [Next]_vars
  PROVE  ChargedInv'
<1>1. ChargedInv /\ LockInv /\ WalkersInv /\ WalkTypes /\ PipeTypes /\ EndsInv /\ BudgetInv
      /\ Pipe \in Holders
  BY HoldersAre DEF Inv, FlowTypes
<1>2. CASE UNCHANGED vars
  BY <1>1, <1>2, ChargedKept DEF vars, flow, budget
<1>3. CASE WalkSteps
  <2>1. CASE Open
    <3> DEFINE ok == Answered(Pipe, "granted")
               st == IF ok THEN "open" ELSE "closed"
    <3>1. /\ pipe' = [pipe EXCEPT !.state = st, !.sender = ok, !.receiver = ok]
          /\ pipe.state = "opening" /\ call' = [call EXCEPT ![Pipe] = NoCall]
          /\ held' = held /\ charged' = charged
      BY <2>1 DEF Open, Taken
    <3>2. st \in {"open", "closed"} /\ ok \in BOOLEAN
          /\ held[Pipe] = IF ok THEN QueueBytes ELSE 0
      BY <1>1, <3>1 DEF Answered, ChargedInv
    <3> HIDE DEF ok, st
    <3>3. pipe'.state = st /\ pipe'.sender = ok /\ pipe'.receiver = ok /\ pipe'.limit = pipe.limit
      BY <1>1, <3>1 DEF PipeTypes
    <3>4. call'[Pipe].at = "none"
      BY <1>1, <3>1 DEF BudgetInv, NoCall
    <3>5. SumFunctionOnSet(Size, charged') = 0
      BY <1>1, <3>1, SumEmpty DEF EndsInv
    <3>6. CASE ok
      BY <1>1, <3>1, <3>2, <3>3, <3>4, <3>5, <3>6, ChargedNat DEF ChargedInv
    <3>7. CASE ~ok
      BY <3>1, <3>2, <3>3, <3>7 DEF ChargedInv
    <3> QED BY <3>6, <3>7
  <2>2. CASE StartDisk \/ AdmitDiscovery \/ Report
    BY <1>1, <2>2, ChargedKept DEF StartDisk, AdmitDiscovery, Report, flow, budget
  <2>3. CASE GiveUpWalk \/ CloseWalk
    <3>1. Released(FALSE, pipe.receiver) /\ pipe.receiver \in BOOLEAN
      BY <1>1, <2>3 DEF GiveUpWalk, CloseWalk, DropsSender, PipeTypes
    <3>2. pipe.state # "opening"
      BY <1>1, <2>3 DEF GiveUpWalk, CloseWalk, Ready, EndsInv
    <3> QED BY <1>1, <3>1, <3>2, ChargedReleased
  <2> QED BY <1>3, <2>1, <2>2, <2>3 DEF WalkSteps
<1>4. CASE GitSteps
  <2>1. CASE \/ StartGit \/ Spawn \/ StopReceiving
             \/ \E r \in Repos, ok \in BOOLEAN : ProbeEnds(r, ok)
    BY <1>1, <2>1, ChargedKept
       DEF StartGit, Spawn, StopReceiving, ProbeEnds, flow, walking, budget
  <2>2. CASE GiveUpGit \/ EndGit
    <3>1. Released(pipe.sender, FALSE) /\ pipe.sender \in BOOLEAN
      BY <1>1, <2>2 DEF GiveUpGit, EndGit, PipeTypes
    <3>2. pipe.state # "opening"
      BY <1>1, <2>2 DEF GiveUpGit, EndGit, Ready, EndsInv
    <3> QED BY <1>1, <3>1, <3>2, ChargedReleased
  <2>3. CASE Receive
    <3>1. /\ pipe'.sender = pipe.sender /\ pipe'.receiver = pipe.receiver
          /\ pipe'.state = pipe.state /\ pipe'.limit = pipe.limit /\ UNCHANGED <<budget, charged>>
      BY <1>1, <2>3 DEF Receive, PipeTypes
    <3> QED BY <1>1, <3>1, ChargedKept DEF budget
  <2> QED BY <1>4, <2>1, <2>2, <2>3 DEF GitSteps
<1>5. CASE ArenaSteps
  <2>1. call'[Pipe] = call[Pipe] /\ held'[Pipe] = held[Pipe]
    BY <1>1, <1>5, ArenaKeepsPipe
  <2>2. UNCHANGED <<charged, pipe>>
    BY <1>5 DEF ArenaSteps, GrowArena, Replace, Absorb, DropArena, flow
  <2> QED BY <1>1, <2>1, <2>2, ChargedKept
<1>6. CASE Cancel \/ \E a \in Audits : Admit(a) \/ Leave(a)
  BY <1>1, <1>6, ChargedKept DEF Cancel, Admit, Leave, flow, budget
<1>7. ASSUME NEW h \in Holders, Charge(h) PROVE ChargedInv'
  <2>1. UNCHANGED <<charged, pipe>> /\ ChargeStep(h)
    BY <1>7 DEF Charge, flow
  <2>2. /\ call'[Pipe].asked = call[Pipe].asked
        /\ call'[Pipe].at = "none" <=> call[Pipe].at = "none"
        /\ \/ /\ held'[Pipe] = held[Pipe]
              /\ call'[Pipe].at = "granted" <=> call[Pipe].at = "granted"
           \/ /\ held'[Pipe] = held[Pipe] + call[Pipe].asked
              /\ call[Pipe].at = "raise" /\ call'[Pipe].at = "granted"
    BY <1>1, <2>1, PipeCharges
  <2>3. CASE held'[Pipe] = held[Pipe] /\ (call'[Pipe].at = "granted" <=> call[Pipe].at = "granted")
    BY <1>1, <2>1, <2>2, <2>3, ChargedKept
  <2>4. CASE /\ held'[Pipe] = held[Pipe] + call[Pipe].asked
             /\ call[Pipe].at = "raise" /\ call'[Pipe].at = "granted"
    <3>1. call[Pipe].asked \in Nat /\ held[Pipe] \in Nat
      BY <1>1, HoldersAre DEF BudgetInv, Calls
    <3>2. CASE pipe.state = "opening"
      BY <1>1, <2>1, <2>2, <2>4, <3>1, <3>2, ChargedNat DEF ChargedInv, LockInv, EndsInv
    <3>3. CASE pipe.state # "opening"
      <4>1. pipe.lock \in Walkers
        BY <1>1, <2>4, <3>3 DEF LockInv, PipeTypes
      <4>2. walker[pipe.lock].at = "grow"
        BY <1>1, <4>1 DEF LockInv
      <4>3. pipe.sender
        BY <1>1, <4>1, <4>2 DEF WalkersInv
      <4>4. held[Pipe] = QueueBytes + SumFunctionOnSet(Size, charged)
            /\ held[Pipe] + call[Pipe].asked <= pipe.limit
        BY <1>1, <2>4, <4>3, ChargedNat DEF ChargedInv
      <4> QED BY <1>1, <2>1, <2>2, <2>4, <3>1, <3>3, <4>3, <4>4, ChargedNat DEF ChargedInv
    <3> QED BY <3>2, <3>3
  <2> QED BY <2>2, <2>3, <2>4
<1>8. ASSUME NEW w \in Walkers, SendStep(w) PROVE ChargedInv'
  <2>1. /\ pipe'.state = pipe.state /\ pipe'.sender = pipe.sender
        /\ pipe'.receiver = pipe.receiver /\ pipe'.limit = pipe.limit
    BY <1>1, <1>8
       DEF SendStep, Visit, TakePlace, LockPipe, Grown, Send, Refused, PipeTypes, flow
  <2>2. CASE \/ \E r \in Repos : Visit(w, r)
             \/ TakePlace(w) \/ Send(w) \/ Refused(w)
             \/ LockPipe(w) /\ ~(pipe.lock = Nobody /\ WithinPipe(walker[w].repo))
    <3>1. UNCHANGED <<budget, charged>>
      BY <2>2 DEF Visit, TakePlace, LockPipe, Send, Refused, flow
    <3> QED BY <1>1, <2>1, <3>1, ChargedKept DEF budget
  <2>3. CASE LockPipe(w) /\ pipe.lock = Nobody /\ WithinPipe(walker[w].repo)
    <3> DEFINE n == Size[walker[w].repo]
    <3>1. /\ call' = [call EXCEPT ![Pipe] = [NoCall EXCEPT !.at = "load", !.asked = n]]
          /\ held' = held /\ charged' = charged /\ call[Pipe].at = "none"
          /\ held[Pipe] + n <= pipe.limit /\ walker[w].at = "lock"
      BY <2>3 DEF LockPipe, Ask, WithinPipe
    <3>2. call'[Pipe].at = "load" /\ call'[Pipe].asked = n
      BY <1>1, <3>1 DEF NoCall, BudgetInv
    <3>3. pipe.sender /\ pipe.state # "opening"
      BY <1>1, <3>1 DEF WalkersInv, EndsInv
    <3> HIDE DEF n
    <3> QED BY <1>1, <2>1, <3>1, <3>2, <3>3, ChargedNat DEF ChargedInv
  <2>4. CASE Grown(w)
    <3> DEFINE r == walker[w].repo
    <3>1. call' = [call EXCEPT ![Pipe] = NoCall] /\ held' = held /\ walker[w].at = "grow"
      BY <2>4 DEF Grown, Taken
    <3>2. call'[Pipe].at = "none"
      BY <1>1, <3>1 DEF NoCall, BudgetInv
    <3>3. pipe.sender /\ pipe.state # "opening" /\ pipe.lock = w /\ r \in Repos /\ r \notin charged
      BY <1>1, <3>1 DEF WalkersInv, EndsInv, LockInv
    <3>4. call[Pipe].asked = Size[r]
      BY <1>1, <3>3, PipeAssumption DEF LockInv
    <3>5. CASE Answered(Pipe, "granted")
      <4>1. charged' = charged \cup {r} /\ call[Pipe].at = "granted"
        BY <2>4, <3>5 DEF Grown, Answered
      <4>2. \A x \in charged \cup {r} : Size[x] \in Nat
        BY <1>1, <3>3, PipeAssumption DEF PipeTypes
      <4>3. SumFunctionOnSet(Size, charged \cup {r}) = SumFunctionOnSet(Size, charged) + Size[r]
        <5> HIDE DEF r
        <5>1. IsFiniteSet(charged)
          BY <1>1 DEF PipeTypes
        <5> QED BY <3>3, <4>2, <5>1, SumAdd
      <4>4. held[Pipe] = QueueBytes + SumFunctionOnSet(Size, charged) + call[Pipe].asked
            /\ held[Pipe] <= pipe.limit
        BY <1>1, <3>3, <4>1 DEF ChargedInv
      <4>5. Size[r] \in Nat
        BY <4>2
      <4> HIDE DEF r
      <4>6. held[Pipe] = QueueBytes + SumFunctionOnSet(Size, charged')
        BY <1>1, <3>4, <4>1, <4>3, <4>4, <4>5, ChargedNat
      <4>7. QueueBytes + SumFunctionOnSet(Size, charged') \in Nat
        <5>1. SumFunctionOnSet(Size, charged') \in Nat
          BY <1>1, <4>1, <4>3, <4>5, ChargedNat
        <5> QED BY <1>1, <5>1, ChargedNat
      <4> QED BY <1>1, <2>1, <3>1, <3>2, <3>3, <4>4, <4>6, <4>7 DEF ChargedInv
    <3>6. CASE ~Answered(Pipe, "granted")
      <4>1. charged' = charged /\ call[Pipe].at # "granted"
        BY <2>4, <3>6 DEF Grown, Answered
      <4> QED BY <1>1, <2>1, <3>1, <3>2, <3>3, <4>1 DEF ChargedInv
    <3> QED BY <3>5, <3>6
  <2> QED BY <1>8, <2>2, <2>3, <2>4 DEF SendStep
<1> QED BY <1>2, <1>3, <1>4, <1>5, <1>6, <1>7, <1>8 DEF Next

-----------------------------------------------------------------------------
(* The way of a discovery.                                                 *)

LEMMA ToSetAppend ==
  ASSUME NEW S, NEW q \in Seq(S), NEW x \in S
  PROVE  ToSet(Append(q, x)) = ToSet(q) \cup {x}
<1>1. ToSet(Append(q, x)) \subseteq ToSet(q) \cup {x}
  BY DEF ToSet
<1>2. \A i \in DOMAIN q : i \in DOMAIN Append(q, x) /\ Append(q, x)[i] = q[i]
  OBVIOUS
<1>3. Len(q) + 1 \in DOMAIN Append(q, x) /\ Append(q, x)[Len(q) + 1] = x
  OBVIOUS
<1> QED BY <1>1, <1>2, <1>3 DEF ToSet

LEMMA ToSetTail ==
  ASSUME NEW S, NEW q \in Seq(S), q # <<>>
  PROVE  ToSet(q) \subseteq ToSet(Tail(q)) \cup {Head(q)}
<1>1. ASSUME NEW i \in DOMAIN q, i # 1
      PROVE  i - 1 \in DOMAIN Tail(q) /\ Tail(q)[i - 1] = q[i]
  BY <1>1
<1>2. Head(q) = q[1]
  OBVIOUS
<1> QED BY <1>1, <1>2 DEF ToSet

LEMMA SectionStep ==
  ASSUME Inv, [Next]_vars
  PROVE  SectionInv'
<1>1. SectionInv /\ WalkersInv /\ WalkTypes /\ PipeTypes /\ EndsInv /\ GitTypes
      /\ AdmissionTypes /\ Nobody \notin Repos
  BY PipeAssumption DEF Inv, FlowTypes
<1>2. ASSUME UNCHANGED <<git, probing, token, unseen, limited, walk>>,
             pipe'.sender = pipe.sender, pipe'.queue = pipe.queue
      PROVE  SectionInv'
  BY <1>1, <1>2 DEF SectionInv
<1>3. CASE UNCHANGED vars
  BY <1>2, <1>3 DEF vars, walking, flow, section
<1>4. CASE WalkSteps
  <2>1. CASE Open
    <3>1. UNCHANGED <<git, probing, token, unseen, limited, walk>> /\ git.phase = "waiting"
      BY <1>1, <2>1 DEF Open, walking, section, EndsInv
    <3> QED BY <1>1, <3>1 DEF SectionInv
  <2>2. CASE StartDisk \/ AdmitDiscovery
    <3>1. /\ walk' = walk \/ (walk'.phase = "walking" /\ walk'.whole = walk.whole
                              /\ walk'.verdict = walk.verdict)
          /\ UNCHANGED <<git, probing, token, unseen, limited, pipe>>
      BY <1>1, <2>2 DEF StartDisk, AdmitDiscovery, flow, section, WalkTypes
    <3>2. walk.phase = "waiting" \/ walk' = walk
      BY <1>1, <2>2 DEF StartDisk, AdmitDiscovery, Admissible, EndsInv, WalkTypes
    <3> QED BY <1>1, <3>1, <3>2 DEF SectionInv
  <2>3. CASE GiveUpWalk
    <3>1. /\ walk'.phase = "over" /\ walk'.whole = walk.whole /\ walk'.verdict = walk.verdict
          /\ walk.phase = "waiting" /\ token
          /\ UNCHANGED <<git, probing, token, unseen, limited>>
      BY <1>1, <2>3 DEF GiveUpWalk, section, WalkTypes
    <3> QED BY <1>1, <3>1 DEF SectionInv
  <2>4. CASE CloseWalk
    <3>1. /\ walk'.phase = "report" /\ (walk'.whole <=> unseen = {} /\ ~limited)
          /\ walk'.verdict = walk.verdict /\ walk.phase = "walking"
          /\ UNCHANGED <<git, probing, token, unseen, limited>>
          /\ Released(FALSE, pipe.receiver) /\ pipe.receiver \in BOOLEAN
      BY <1>1, <2>4 DEF CloseWalk, section, WalkTypes, DropsSender, PipeTypes
    <3>2. ~pipe'.sender /\ (pipe'.queue = pipe.queue \/ pipe'.queue = <<>>)
      BY <1>1, <3>1, ReleasedEnds
    <3> QED BY <1>1, <3>1, <3>2 DEF SectionInv
  <2>5. CASE Report
    <3>1. /\ walk'.phase = "over" /\ walk'.whole = walk.whole
          /\ (walk'.verdict = "complete" => walk.whole) /\ walk.phase = "report"
          /\ UNCHANGED <<git, probing, token, unseen, limited, pipe>>
      BY <1>1, <2>5 DEF Report, section, flow, WalkTypes
    <3> QED BY <1>1, <3>1 DEF SectionInv
  <2> QED BY <1>4, <2>1, <2>2, <2>3, <2>4, <2>5 DEF WalkSteps
<1>5. CASE GitSteps
  <2>1. UNCHANGED <<token, unseen, limited, walk>>
    BY <1>5 DEF GitSteps, StartGit, GiveUpGit, Receive, Spawn, StopReceiving, EndGit,
                ProbeEnds, walking
  <2>2. CASE StartGit
    <3>1. git'.phase = "receiving" /\ git'.repo = git.repo /\ git'.result = git.result
          /\ git.phase = "waiting"
      BY <1>1, <2>2 DEF StartGit, GitTypes
    <3> QED BY <1>1, <2>1, <3>1 DEF SectionInv
  <2>3. CASE GiveUpGit
    <3>1. git'.phase = "ended" /\ git'.repo = git.repo /\ token /\ probing' = probing
          /\ git.phase = "waiting"
      BY <1>1, <2>3 DEF GiveUpGit, GitTypes
    <3>2. probing = {}
      BY <1>1, <2>3 DEF GiveUpGit, SectionInv
    <3> QED BY <1>1, <2>1, <3>1, <3>2 DEF SectionInv
  <2>4. CASE Receive
    <3>1. Head(pipe.queue) \in Repos
      BY <1>1, <2>4 DEF Receive, PipeTypes
    <3>2. \/ git' = git /\ git.phase = "receiving"
          \/ git'.phase = "holding" /\ git'.repo \in Repos /\ git'.result = git.result
             /\ git.phase = "receiving"
      BY <1>1, <2>4, <3>1 DEF Receive, GitTypes
    <3> QED BY <1>1, <2>1, <3>2 DEF SectionInv
  <2>5. CASE Spawn
    <3>1. git'.phase = "receiving" /\ git'.repo = Nobody /\ git'.result = git.result
          /\ git.phase = "holding"
      BY <1>1, <2>5 DEF Spawn, GitTypes
    <3> QED BY <1>1, <2>1, <3>1 DEF SectionInv
  <2>6. CASE StopReceiving
    <3>1. git'.phase = "draining" /\ git'.repo = Nobody /\ git'.result = git.result
          /\ git.phase \in {"receiving", "holding"} /\ (Closed \/ token) /\ pipe' = pipe
      BY <1>1, <2>6 DEF StopReceiving, GitTypes, flow
    <3> QED BY <1>1, <2>1, <3>1 DEF SectionInv, Closed
  <2>7. CASE EndGit
    <3>1. git'.phase = "ended" /\ git'.repo = git.repo /\ probing' = {}
          /\ git.phase = "draining" /\ Released(pipe.sender, FALSE) /\ pipe.sender \in BOOLEAN
      BY <1>1, <2>7 DEF EndGit, GitTypes, PipeTypes
    <3>2. pipe'.sender = pipe.sender /\ pipe'.queue = <<>>
      BY <1>1, <3>1, ReleasedEnds
    <3> QED BY <1>1, <2>1, <3>1, <3>2 DEF SectionInv
  <2>8. CASE \E r \in Repos, ok \in BOOLEAN : ProbeEnds(r, ok)
    <3>1. git'.phase = git.phase /\ git'.repo = git.repo /\ git'.result = git.result
          /\ probing' \subseteq probing /\ pipe' = pipe
      BY <1>1, <2>8 DEF ProbeEnds, GitTypes, flow
    <3> QED BY <1>1, <2>1, <3>1 DEF SectionInv
  <2> QED BY <1>5, <2>2, <2>3, <2>4, <2>5, <2>6, <2>7, <2>8 DEF GitSteps
<1>6. CASE ArenaSteps
  BY <1>2, <1>6 DEF ArenaSteps, GrowArena, Replace, Absorb, DropArena, flow, walking, section
<1>7. CASE Cancel
  BY <1>1, <1>7 DEF Cancel, SectionInv, flow, walking, section
<1>8. CASE (\E a \in Audits : Admit(a) \/ Leave(a)) \/ \E h \in Holders : Charge(h)
  BY <1>2, <1>8 DEF Admit, Leave, Charge, flow, walking, section
<1>9. ASSUME NEW w \in Walkers, SendStep(w) PROVE SectionInv'
  <2>1. UNCHANGED <<git, probing, token, walk>> /\ unseen' \subseteq unseen
        /\ pipe'.sender = pipe.sender
    BY <1>1, <1>9
       DEF SendStep, Visit, TakePlace, LockPipe, Grown, Send, Refused, PipeTypes, flow, section
  <2>2. walk.phase = "walking"
    BY <1>1, <1>9
       DEF SendStep, Visit, TakePlace, LockPipe, Grown, Send, Refused, WalkersInv
  <2>3. pipe'.queue = pipe.queue \/ pipe.sender
    BY <1>1, <1>9
       DEF SendStep, Visit, TakePlace, LockPipe, Grown, Send, Refused, PipeTypes, flow, WalkersInv
  <2> QED BY <1>1, <2>1, <2>2, <2>3 DEF SectionInv
<1> QED BY <1>3, <1>4, <1>5, <1>6, <1>7, <1>8, <1>9 DEF Next

LEMMA LostStep ==
  ASSUME Inv, [Next]_vars
  PROVE  NothingLost'
<1>1. NothingLost /\ SectionInv /\ WalkersInv /\ WalkTypes /\ PipeTypes /\ EndsInv /\ GitTypes
      /\ AdmissionTypes /\ Nobody \notin Repos
  BY PipeAssumption DEF Inv, FlowTypes
<1>2. ASSUME UNCHANGED <<limited, token, unseen, walker, done, probing, git>>,
             pipe'.queue = pipe.queue
      PROVE  NothingLost'
  BY <1>1, <1>2 DEF NothingLost, Walked, Somewhere
<1>3. CASE UNCHANGED vars
  BY <1>2, <1>3 DEF vars, walking, flow, section
<1>4. CASE WalkSteps
  <2>1. UNCHANGED <<limited, token, unseen, walker, done, probing, git>>
    BY <1>4 DEF WalkSteps, Open, StartDisk, AdmitDiscovery, GiveUpWalk, CloseWalk, Report,
                walking, section
  <2>2. CASE Open \/ StartDisk \/ AdmitDiscovery \/ Report
    <3>1. pipe'.queue = pipe.queue
      BY <1>1, <2>2 DEF Open, StartDisk, AdmitDiscovery, Report, flow, PipeTypes
    <3> QED BY <1>2, <2>1, <3>1
  <2>3. CASE GiveUpWalk \/ CloseWalk
    <3>1. Released(FALSE, pipe.receiver) /\ pipe.receiver \in BOOLEAN
      BY <1>1, <2>3 DEF GiveUpWalk, CloseWalk, DropsSender, PipeTypes
    <3>2. pipe'.queue = IF pipe.receiver THEN pipe.queue ELSE <<>>
      BY <1>1, <3>1, ReleasedEnds
    <3>3. pipe'.queue = pipe.queue
      BY <1>1, <3>2 DEF EndsInv
    <3> QED BY <1>2, <2>1, <3>3
  <2> QED BY <1>4, <2>2, <2>3 DEF WalkSteps
<1>5. CASE GitSteps
  <2>1. UNCHANGED <<token, unseen, limited, walker>>
    BY <1>5 DEF GitSteps, StartGit, GiveUpGit, Receive, Spawn, StopReceiving, EndGit,
                ProbeEnds, walking
  <2>2. Walked' = Walked
    BY <2>1 DEF Walked
  <2>3. CASE StartGit
    <3>1. git'.repo = git.repo /\ UNCHANGED <<pipe, probing, done>>
      BY <1>1, <2>3 DEF StartGit, GitTypes, flow
    <3> QED BY <1>1, <2>1, <2>2, <3>1 DEF NothingLost, Somewhere
  <2>4. CASE GiveUpGit
    BY <2>1, <2>4 DEF GiveUpGit, NothingLost
  <2>5. CASE Receive
    <3> DEFINE r == Head(pipe.queue)
    <3>1. r \in Repos /\ pipe'.queue = Tail(pipe.queue) /\ probing' = probing
          /\ pipe.queue # <<>> /\ pipe.queue \in Seq(Repos)
      BY <1>1, <2>5 DEF Receive, PipeTypes
    <3>2. ToSet(pipe.queue) \subseteq ToSet(pipe'.queue) \cup {r}
      <4>1. ToSet(pipe.queue) \subseteq ToSet(Tail(pipe.queue)) \cup {Head(pipe.queue)}
        BY <3>1, ToSetTail
      <4> QED BY <3>1, <4>1
    <3>3. git.repo = Nobody
      BY <1>1, <2>5 DEF Receive, SectionInv
    <3>4. (done' = done \cup {r} /\ git'.repo = git.repo) \/ (done' = done /\ git'.repo = r)
      BY <1>1, <2>5 DEF Receive, GitTypes
    <3> HIDE DEF r
    <3> QED BY <1>1, <2>1, <2>2, <3>1, <3>2, <3>3, <3>4 DEF NothingLost, Somewhere
  <2>6. CASE Spawn
    <3>1. git'.repo = Nobody /\ probing' = probing \cup {git.repo} /\ UNCHANGED <<pipe, done>>
      BY <1>1, <2>6 DEF Spawn, GitTypes, flow
    <3> QED BY <1>1, <2>1, <2>2, <3>1 DEF NothingLost, Somewhere
  <2>7. CASE StopReceiving
    <3>1. UNCHANGED <<pipe, done, probing>> /\ (token \/ git'.repo = git.repo)
      BY <1>1, <2>7 DEF StopReceiving, GitTypes, flow, SectionInv
    <3> QED BY <1>1, <2>1, <2>2, <3>1 DEF NothingLost, Somewhere
  <2>8. CASE EndGit
    <3>1. git'.repo = git.repo /\ UNCHANGED <<done, probing>> /\ git.phase = "draining"
          /\ Released(pipe.sender, FALSE) /\ pipe.sender \in BOOLEAN
      BY <1>1, <2>8 DEF EndGit, GitTypes, PipeTypes
    <3>2. pipe'.queue = <<>>
      BY <1>1, <3>1, ReleasedEnds
    <3>3. token \/ pipe'.queue = pipe.queue
      BY <1>1, <3>1, <3>2 DEF SectionInv
    <3> QED BY <1>1, <2>1, <2>2, <3>1, <3>3 DEF NothingLost, Somewhere
  <2>9. CASE \E r \in Repos, ok \in BOOLEAN : ProbeEnds(r, ok)
    <3>1. PICK r \in Repos, ok \in BOOLEAN : ProbeEnds(r, ok)
      BY <2>9
    <3>2. git'.repo = git.repo /\ probing' = probing \ {r} /\ done' = done \cup {r} /\ pipe' = pipe
      BY <1>1, <3>1 DEF ProbeEnds, GitTypes, flow
    <3> QED BY <1>1, <2>1, <2>2, <3>2 DEF NothingLost, Somewhere
  <2> QED BY <1>5, <2>3, <2>4, <2>5, <2>6, <2>7, <2>8, <2>9 DEF GitSteps
<1>6. CASE ArenaSteps
  BY <1>2, <1>6 DEF ArenaSteps, GrowArena, Replace, Absorb, DropArena, flow, walking, section
<1>7. CASE Cancel
  BY <1>7 DEF Cancel, NothingLost
<1>8. CASE (\E a \in Audits : Admit(a) \/ Leave(a)) \/ \E h \in Holders : Charge(h)
  BY <1>2, <1>8 DEF Admit, Leave, Charge, flow, walking, section
<1>9. ASSUME NEW w \in Walkers, SendStep(w) PROVE NothingLost'
  <2>1. UNCHANGED <<git, probing, done, token>>
    BY <1>9 DEF SendStep, Visit, TakePlace, LockPipe, Grown, Send, Refused, section
  <2>2. walker[w] \in WalkerStates
    BY <1>1 DEF WalkTypes
  <2>3. CASE \E r \in Repos : Visit(w, r)
    <3>1. PICK r \in Repos : Visit(w, r)
      BY <2>3
    <3>2. /\ walker'[w].at = "slot" /\ walker'[w].repo = r /\ walker[w].at = "idle"
          /\ \A v \in Walkers : v # w => walker'[v] = walker[v]
          /\ unseen' = unseen \ {r} /\ UNCHANGED <<pipe, limited>>
      BY <1>1, <3>1 DEF Visit, WalkTypes, flow
    <3>3. Walked \cup {r} \subseteq Walked'
      BY <3>2 DEF Walked
    <3> QED BY <1>1, <2>1, <3>2, <3>3 DEF NothingLost, Somewhere
  <2>4. ASSUME NEW at \in {"lock", "refused", "grow", "send"}, At(w, at), walker[w].at # "idle",
               UNCHANGED <<unseen, limited>>, pipe'.queue = pipe.queue
        PROVE NothingLost'
    <3>1. /\ walker'[w].at = at /\ walker'[w].repo = walker[w].repo
          /\ \A v \in Walkers : v # w => walker'[v] = walker[v]
      BY <1>1, <2>2, <2>4 DEF At, WalkTypes, WalkerStates
    <3>2. Walked \subseteq Walked'
      BY <2>4, <3>1 DEF Walked
    <3> QED BY <1>1, <2>1, <2>4, <3>2 DEF NothingLost, Somewhere
  <2>5. CASE TakePlace(w)
    <3>1. pipe'.queue = pipe.queue
      BY <1>1, <2>5 DEF TakePlace, PipeTypes
    <3> QED BY <2>4, <2>5, <3>1 DEF TakePlace
  <2>6. CASE LockPipe(w)
    <3>1. pipe'.queue = pipe.queue
      BY <1>1, <2>6 DEF LockPipe, PipeTypes
    <3> QED BY <2>4, <2>6, <3>1 DEF LockPipe
  <2>7. CASE Grown(w)
    <3>1. pipe'.queue = pipe.queue
      BY <1>1, <2>7 DEF Grown, PipeTypes
    <3> QED BY <2>4, <2>7, <3>1 DEF Grown
  <2>8. CASE Send(w)
    <3> DEFINE r == walker[w].repo
    <3>1. /\ walker'[w].at = "idle"
          /\ \A v \in Walkers : v # w => walker'[v] = walker[v]
          /\ UNCHANGED <<unseen, limited>> /\ walker[w].at = "send"
      BY <1>1, <2>8 DEF Send, WalkTypes, Idle
    <3>2. pipe'.queue = (IF pipe.receiver THEN Append(pipe.queue, r) ELSE pipe.queue)
          /\ pipe.queue \in Seq(Repos) /\ r \in Repos
      BY <1>1, <2>8 DEF Send, PipeTypes, WalkersInv
    <3>3. pipe.receiver \/ token
      BY <1>1, <3>1 DEF WalkersInv, EndsInv, SectionInv
    <3>4. Walked \subseteq Walked' \cup {r}
      BY <3>1 DEF Walked
    <3>5. pipe.receiver => ToSet(pipe'.queue) = ToSet(pipe.queue) \cup {r}
      <4> HIDE DEF r
      <4> QED BY <3>2, ToSetAppend
    <3> HIDE DEF r
    <3> QED BY <1>1, <2>1, <3>1, <3>3, <3>4, <3>5 DEF NothingLost, Somewhere
  <2>9. CASE Refused(w)
    <3>1. (limited' <=> limited \/ ~token) /\ token' = token
      BY <1>1, <2>1, <2>9 DEF Refused, Noted, AdmissionTypes
    <3>2. ~(~limited' /\ ~token')
      BY <3>1
    <3> QED BY <3>2 DEF NothingLost
  <2> QED BY <1>9, <2>3, <2>5, <2>6, <2>7, <2>8, <2>9 DEF SendStep
<1> QED BY <1>3, <1>4, <1>5, <1>6, <1>7, <1>8, <1>9 DEF Next

-----------------------------------------------------------------------------
(* The theorems.                                                           *)

LEMMA BudgetStart ==
  ASSUME Init
  PROVE  BudgetInv
<1>1. /\ held \in [Holders -> 0..Limit] /\ held[Cache] = CacheBytes /\ held[Arena] = ArenaBytes
      /\ held[Pipe] = 0 /\ held[Spare] = 0
      /\ CacheBytes \in Nat /\ ArenaBytes \in Nat /\ CacheBytes + ArenaBytes <= Limit
  <2>1. /\ CacheBytes \in Nat /\ ArenaBytes \in Nat /\ CacheBytes + ArenaBytes <= Limit
        /\ QueueBytes \in Nat
    BY PipeAssumption
  <2>2. CacheBytes \in 0..Limit /\ ArenaBytes \in 0..Limit /\ 0 \in 0..Limit
    BY <2>1, HoldersAre
  <2> QED BY <2>1, <2>2, HoldersAre DEF Init
<1>2. NoCall \in Calls /\ NoCall.at = "none"
  BY HoldersAre DEF NoCall, Calls, CallsAt
<1>3. call \in [Holders -> Calls] /\ \A h \in Holders : call[h].at \in {"none", "load"}
  <2> DEFINE c == [NoCall EXCEPT !.at = "load", !.asked = QueueBytes]
  <2>1. QueueBytes \in Nat
    BY PipeAssumption
  <2>2. c \in Calls /\ c.at = "load"
    BY <1>2, <2>1 DEF Calls, CallsAt
  <2>3. call = [h \in Holders |-> IF h = Pipe THEN c ELSE NoCall]
    BY DEF Init
  <2> HIDE DEF c
  <2> QED BY <1>2, <2>2, <2>3
<1>4. Entering = {}
  BY <1>3 DEF Entering
<1>5. SumFunctionOnSet(held, Holders) = CacheBytes + ArenaBytes
  <2> DEFINE H1 == Holders \ {Cache}
             H2 == H1 \ {Arena}
             H3 == H2 \ {Pipe}
             H4 == H3 \ {Spare}
  <2>1. \A x \in Holders : held[x] \in Nat
    BY <1>1, HoldersAre
  <2>2. IsFiniteSet(H1) /\ IsFiniteSet(H2) /\ IsFiniteSet(H3)
        /\ H1 \subseteq Holders /\ H2 \subseteq Holders /\ H3 \subseteq Holders
    BY HoldersAre, FS_Subset
  <2>3. Cache \in Holders /\ Arena \in H1 /\ Pipe \in H2 /\ Spare \in H3 /\ H4 = {}
    BY HoldersAre
  <2>4. SumFunctionOnSet(held, Holders) = held[Cache] + SumFunctionOnSet(held, H1)
    BY <2>1, HoldersAre, SumRemove
  <2>5. SumFunctionOnSet(held, H1) = held[Arena] + SumFunctionOnSet(held, H2)
    <3> HIDE DEF H1
    <3> QED BY <2>1, <2>2, <2>3, SumRemove
  <2>6. SumFunctionOnSet(held, H2) = held[Pipe] + SumFunctionOnSet(held, H3)
    <3> HIDE DEF H2
    <3> QED BY <2>1, <2>2, <2>3, SumRemove
  <2>7. SumFunctionOnSet(held, H3) = held[Spare] + SumFunctionOnSet(held, H4)
    <3> HIDE DEF H3
    <3> QED BY <2>1, <2>2, <2>3, SumRemove
  <2>8. SumFunctionOnSet(held, H4) = 0
    BY <2>3, SumEmpty
  <2> HIDE DEF H1, H2, H3, H4
  <2> QED BY <1>1, <2>4, <2>5, <2>6, <2>7, <2>8
<1>6. SumFunctionOnSet(Asked, Entering) = 0
  BY <1>4, SumEmpty
<1>7. used = CacheBytes + ArenaBytes /\ peak = used
  BY DEF Init
<1> QED BY <1>1, <1>3, <1>5, <1>6, <1>7, HoldersAre DEF BudgetInv

LEMMA FlowStart ==
  ASSUME Init
  PROVE  FlowTypes /\ PlacesInv
<1>1. Slots \in Nat \ {0} /\ Probes \in Nat \ {0} /\ Capacity \in Nat \ {0}
  BY PipeAssumption
<1>2. IsFiniteSet({}) /\ Cardinality({}) = 0
  BY FS_EmptySet
<1>3. Admitted = {}
  BY DEF Init, Admitted
<1>4. AdmissionTypes
  <2>1. /\ token \in BOOLEAN /\ limited \in BOOLEAN
        /\ admission \in [started : BOOLEAN,
                          of : [Audits \cup {Home} -> {"waiting", "in", "out"}]]
    BY DEF Init
  <2> QED BY <1>1, <1>2, <1>3, <2>1 DEF AdmissionTypes
<1>5. WalkTypes
  BY DEF Init, WalkTypes, Phases, WalkerStates, Idle
<1>6. PipeTypes
  <2>1. pipe \in [state : {"opening"}, sender : {FALSE}, receiver : {FALSE},
                 queue : {<<>>}, places : {0}, lock : {Nobody}, limit : PipeLimits]
        /\ charged = {}
    BY DEF Init
  <2>2. pipe = [state |-> pipe.state, sender |-> pipe.sender, receiver |-> pipe.receiver,
                queue |-> pipe.queue, places |-> pipe.places, lock |-> pipe.lock,
                limit |-> pipe.limit]
    BY <2>1
  <2>3. /\ pipe.state = "opening" /\ pipe.sender = FALSE /\ pipe.receiver = FALSE
        /\ pipe.places = 0 /\ pipe.lock = Nobody /\ pipe.limit \in PipeLimits
    BY <2>1
  <2>4. pipe.queue \in Seq(Repos)
    <3>1. pipe.queue = <<>>
      BY <2>1
    <3> QED BY <3>1
  <2>5. pipe \in [state : {"opening", "open", "closed"}, sender : BOOLEAN,
                 receiver : BOOLEAN, queue : Seq(Repos), places : Nat,
                 lock : Walkers \cup {Nobody}, limit : PipeLimits]
    <3> DEFINE a == pipe.state
               b == pipe.sender
               c == pipe.receiver
               d == pipe.queue
               x == pipe.places
               y == pipe.lock
               z == pipe.limit
               Q == Seq(Repos)
               L == Walkers \cup {Nobody}
    <3>1. /\ a \in {"opening", "open", "closed"} /\ b \in BOOLEAN /\ c \in BOOLEAN
          /\ d \in Q /\ x \in Nat /\ y \in L /\ z \in PipeLimits
      <4>1. d \in Q
        BY <2>4
      <4> HIDE DEF Q
      <4>2. a \in {"opening", "open", "closed"} /\ b \in BOOLEAN /\ c \in BOOLEAN
        BY <2>3
      <4>3. x \in Nat /\ y \in L /\ z \in PipeLimits
        BY <2>3
      <4> QED BY <4>1, <4>2, <4>3
    <3>2. pipe = [state |-> a, sender |-> b, receiver |-> c, queue |-> d, places |-> x,
                  lock |-> y, limit |-> z]
      BY <2>2
    <3> HIDE DEF a, b, c, d, x, y, z, Q, L
    <3>3. pipe \in [state : {"opening", "open", "closed"}, sender : BOOLEAN, receiver : BOOLEAN,
                   queue : Q, places : Nat, lock : L, limit : PipeLimits]
      BY <3>1, <3>2
    <3> QED BY <3>3 DEF Q, L
  <2> QED BY <1>2, <2>1, <2>5 DEF PipeTypes
<1>7. GitTypes
  BY <1>1, <1>2 DEF Init, GitTypes, GitPhases
<1>8. Placed = {}
  BY DEF Init, Placed, Idle
<1>9. PlacesInv
  <2>1. pipe.queue = <<>> /\ pipe.places = 0
    BY DEF Init
  <2> QED BY <1>1, <1>2, <1>8, <2>1 DEF PlacesInv
<1> QED BY <1>4, <1>5, <1>6, <1>7, <1>9 DEF FlowTypes

LEMMA Start ==
  ASSUME Init
  PROVE  Inv
<1>1. \A w \in Walkers : walker[w].at = "idle"
  BY DEF Init, Idle
<1>2. /\ pipe.state = "opening" /\ ~pipe.sender /\ ~pipe.receiver /\ pipe.lock = Nobody
      /\ walk.phase = "waiting" /\ ~walk.whole /\ walk.verdict = "none"
      /\ pipe.queue = <<>>
  BY DEF Init
<1>3. WalkersInv
  BY <1>1 DEF Init, WalkersInv
<1>4. EndsInv
  BY <1>2 DEF Init, EndsInv
<1>5. call[Pipe].at = "load" /\ call[Pipe].asked = QueueBytes /\ held[Pipe] = 0
  BY HoldersAre DEF Init, NoCall
<1>6. LockInv
  BY <1>1, <1>2, <1>5, PipeAssumption DEF LockInv
<1>7. ChargedInv
  BY <1>2, <1>5 DEF ChargedInv
<1>8. NothingLost
  BY DEF Init, NothingLost
<1>9. SectionInv
  BY <1>2 DEF Init, SectionInv
<1> QED BY <1>3, <1>4, <1>6, <1>7, <1>8, <1>9, BudgetStart, FlowStart DEF Inv

\* The inductive invariant holds in every state.
THEOREM Invariant == Spec => []Inv
<1>1. Init => Inv
  BY Start
<1>2. Inv /\ [Next]_vars => Inv'
  <2> SUFFICES ASSUME Inv, [Next]_vars PROVE Inv'
    OBVIOUS
  <2> QED BY BudgetStep, AdmissionStep, WalkStep, GitStep, ChannelStep, WalkersStep,
             EndsStep, LockStep, ChargedStep, SectionStep, LostStep
          DEF Inv, FlowTypes, ChannelInv
<1> QED BY <1>1, <1>2, PTL DEF Spec

\* Every state has its types; the channel never has more than Capacity places
\* taken, Slots audits admitted or Probes probes at work.
THEOREM StateTypeCorrect == Spec => []TypeOK
<1>1. Inv => TypeOK
  <2> SUFFICES ASSUME Inv PROVE TypeOK
    OBVIOUS
  <2>1. pipe.places \in 0..Capacity
    <3>1. Len(pipe.queue) \in Nat /\ pipe.places \in Nat /\ Capacity \in Nat
      BY PipeAssumption DEF Inv, FlowTypes, PipeTypes
    <3> QED BY <3>1 DEF Inv, PlacesInv
  <2>2. held \in [Holders -> 0..Limit]
        /\ call \in [Holders -> [at : CallsAt, asked : Nat, seen : 0..Limit, again : BOOLEAN]]
    BY DEF Inv, BudgetInv, Calls
  <2>3. unseen \cup charged \cup probing \cup done \subseteq Repos
        /\ Cardinality(Admitted) <= Slots /\ Cardinality(probing) <= Probes
        /\ limited \in BOOLEAN /\ token \in BOOLEAN
    BY DEF Inv, FlowTypes, AdmissionTypes, WalkTypes, PipeTypes, GitTypes
  <2>4. walker \in [Walkers -> [at : {"idle", "slot", "lock", "grow", "send", "refused"},
                                repo : Repos \cup {Nobody}]]
    BY DEF Inv, FlowTypes, WalkTypes, WalkerStates
  <2>5. pipe.queue \in Seq(Repos) /\ pipe.lock \in Walkers \cup {Nobody}
        /\ Len(pipe.queue) + pipe.places <= Capacity
    BY DEF Inv, FlowTypes, PipeTypes, PlacesInv
  <2> QED BY <2>1, <2>2, <2>3, <2>4, <2>5 DEF TypeOK
<1> QED BY <1>1, Invariant, PTL

\* The memory budget: the counter is exactly what the reservations hold and
\* what has been exchanged but not yet entered, however charges, retries and
\* reclaimers interleave; it never exceeds the limit, nor the peak it keeps.
THEOREM CounterAccounts == Spec => []Accounted
<1>1. Inv => Accounted
  <2> SUFFICES ASSUME Inv PROVE Accounted
    OBVIOUS
  <2>1. BudgetInv
    BY DEF Inv
  <2>2. used <= Limit /\ peak <= Limit
    BY <2>1, HoldersAre DEF BudgetInv
  <2> QED BY <2>1, <2>2 DEF BudgetInv, Accounted, Asked
<1> QED BY <1>1, Invariant, PTL

\* The pipe: while an end lives its reservation is the queue and every
\* discovery accepted, within the limit; when both are gone it is empty.
THEOREM ReservationFollowsPipe == Spec => []PipeIsCharged
<1>1. Inv => PipeIsCharged
  <2> SUFFICES ASSUME Inv PROVE PipeIsCharged
    OBVIOUS
  <2>1. ChargedInv /\ PipeTypes
    BY DEF Inv, FlowTypes
  <2>2. QueueBytes + SumFunctionOnSet(Size, charged) \in Nat
    BY <2>1, ChargedNat
  <2> QED BY <2>1, <2>2 DEF ChargedInv, PipeIsCharged
<1> QED BY <1>1, Invariant, PTL

\* A walk that reports itself complete has lost no repository: each is with
\* the Git section, which ends well only when it has dealt with them all.
THEOREM CompleteLosesNothing == Spec => []NothingLostUnsaid
<1>1. Inv => NothingLostUnsaid
  <2> SUFFICES ASSUME Inv, walk.verdict = "complete", git.result # "cancelled", ~token
               PROVE  /\ Repos = Somewhere
                      /\ git.result = "ok" => done = Repos
    BY DEF NothingLostUnsaid, Somewhere
  <2>1. SectionInv /\ NothingLost /\ WalkersInv /\ PipeTypes /\ GitTypes
    BY DEF Inv, FlowTypes
  <2>2. unseen = {} /\ ~limited /\ walk.phase \in {"report", "over"}
    BY <2>1 DEF SectionInv
  <2>3. Walked = {}
    BY <2>1, <2>2, AllIdle DEF Walked
  <2>4. ToSet(pipe.queue) \subseteq Repos
    BY <2>1 DEF PipeTypes, ToSet
  <2>5. Repos = Somewhere
    BY <2>1, <2>2, <2>3, <2>4 DEF NothingLost, Somewhere, GitTypes
  <2>6. git.result = "ok" => done = Repos
    <3> SUFFICES ASSUME git.result = "ok" PROVE done = Repos
      OBVIOUS
    <3>1. git.phase = "ended" /\ probing = {} /\ git.repo = Nobody /\ pipe.queue = <<>>
      BY <2>1 DEF SectionInv
    <3>2. ToSet(pipe.queue) = {}
      BY <3>1 DEF ToSet
    <3> QED BY <2>5, <3>1, <3>2 DEF Somewhere
  <2> QED BY <2>5, <2>6
<1> QED BY <1>1, Invariant, PTL
=============================================================================
