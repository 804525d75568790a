-------------------------- MODULE DiskWalk_proofs --------------------------
(***************************************************************************)
(* Theorems about DiskWalk, for any tree, links, failures, number of       *)
(* largest files and capacity of the channel.                              *)
(*                                                                         *)
(* The tree and its sums come first; then what each step does to a scan,   *)
(* the types and the shape of the tree that is walked (Sound); the totals  *)
(* and the messages that carry them (Kept), from which RollupHolds         *)
(* follows; errors, marks, links and the largest files, which make a       *)
(* complete result exact (Exact).                                          *)
(***************************************************************************)
EXTENDS DiskWalk, SequenceTheorems, Sums_proofs

-----------------------------------------------------------------------------
(* The tree.                                                               *)

LEMMA UpIs ==
  ASSUME NEW c \in Dirs
  PROVE  /\ c # Root => Up(c) \in Dirs /\ c \in Listed(Up(c))
         /\ \A p \in Dirs : c \in Listed(p) => c # Root /\ Up(c) = p
<1>1. \A p \in Dirs : c \in Listed(p) => c # Root
  BY PathAssumption
<1>2. c # Root => \E d \in Dirs : \A p \in Dirs : c \in Listed(p) <=> p = d
  BY PathAssumption DEF Entries
<1> QED BY <1>1, <1>2 DEF Up

LEMMA InIs ==
  ASSUME NEW f \in Files
  PROVE  /\ In(f) \in Dirs /\ f \in Listed(In(f))
         /\ \A d \in Dirs : f \in Listed(d) => In(f) = d
<1>1. f # Root
  BY PathAssumption, WalkAssumption
<1>2. \E d \in Dirs : \A p \in Dirs : f \in Listed(p) <=> p = d
  BY <1>1, PathAssumption DEF Entries
<1> QED BY <1>2 DEF In

\* Among any directories there is one whose directory is not among them.
LEMMA Topmost ==
  ASSUME NEW S, S \subseteq Dirs, S # {}
  PROVE  \E c \in S : c # Root => Up(c) \notin S
<1>1. PICK c \in S : \A p \in S : c \notin Listed(p)
  BY PathAssumption
<1> QED BY <1>1, UpIs

\* Line is defined: the least set that is closed under Up.
LEMMA LineIs ==
  /\ Line \in [Dirs -> SUBSET Dirs]
  /\ \A d \in Dirs : Line[d] = IF d = Root THEN {Root} ELSE {d} \cup Line[Up(d)]
<1> DEFINE Closed(A) == \A x \in A : x # Root => Up(x) \in A
           L == [d \in Dirs |-> {y \in Dirs : \A A \in SUBSET Dirs : d \in A /\ Closed(A) => y \in A}]
<1>1. Closed(Dirs)
  BY UpIs
<1>2. \A d \in Dirs : d \in L[d] /\ Closed(L[d]) /\ L[d] \in SUBSET Dirs
  <2>1. ASSUME NEW d \in Dirs, NEW x \in L[d], x # Root PROVE Up(x) \in L[d]
    BY <2>1, UpIs
  <2> QED BY <2>1
<1>3. \A d \in Dirs, A \in SUBSET Dirs : d \in A /\ Closed(A) => L[d] \subseteq A
  OBVIOUS
<1>4. ASSUME NEW d \in Dirs, d # Root PROVE L[d] = {d} \cup L[Up(d)]
  <2>1. Up(d) \in Dirs
    BY <1>4, UpIs
  <2>2. Closed({d} \cup L[Up(d)])
    BY <1>2, <2>1
  <2>3. {d} \cup L[Up(d)] \in SUBSET Dirs
    BY <2>1
  <2>4. L[d] \subseteq {d} \cup L[Up(d)]
    <3> DEFINE A == {d} \cup L[Up(d)]
    <3>1. d \in A /\ A \in SUBSET Dirs /\ Closed(A)
      BY <2>2, <2>3
    <3> HIDE DEF A, L, Closed
    <3> QED BY <1>3, <3>1 DEF A
  <2>5. Up(d) \in L[d]
    BY <1>2, <1>4
  <2>6. L[Up(d)] \subseteq L[d]
    <3> HIDE DEF L, Closed
    <3> QED BY <1>2, <1>3, <2>1, <2>5
  <2> HIDE DEF L, Closed
  <2> QED BY <1>2, <2>4, <2>6
<1>5. L[Root] = {Root}
  <2>1. Root \in Dirs /\ {Root} \in SUBSET Dirs /\ Closed({Root})
    BY WalkAssumption
  <2> HIDE DEF L, Closed
  <2> QED BY <1>2, <1>3, <2>1
<1>6. L = [d \in Dirs |-> IF d = Root THEN {Root} ELSE {d} \cup L[Up(d)]]
  <2>1. \A d \in Dirs : L[d] = IF d = Root THEN {Root} ELSE {d} \cup L[Up(d)]
    <3> HIDE DEF L
    <3> QED BY <1>4, <1>5
  <2>2. L = [d \in Dirs |-> L[d]]
    OBVIOUS
  <2> HIDE DEF L
  <2> QED BY <2>1, <2>2
<1> DEFINE P(g) == g = [d \in Dirs |-> IF d = Root THEN {Root} ELSE {d} \cup g[Up(d)]]
<1>7. Line = CHOOSE g : P(g)
  BY DEF Line
<1>8. P(Line)
  <2>1. P(L)
    BY <1>6
  <2> HIDE DEF L, P
  <2> QED BY <1>7, <2>1
<1>9. \A d \in Dirs : Line[d] = IF d = Root THEN {Root} ELSE {d} \cup Line[Up(d)]
  BY <1>8
<1>10. Line = [d \in Dirs |-> Line[d]]
  <2>1. DOMAIN Line = Dirs /\ Line = [d \in DOMAIN Line |-> Line[d]]
    BY <1>8
  <2> QED BY <2>1
<1>11. ASSUME NEW d \in Dirs PROVE Line[d] \in SUBSET Dirs
  <2> DEFINE S == {x \in Dirs : Line[x] \notin SUBSET Dirs}
  <2>1. SUFFICES ASSUME S # {} PROVE FALSE
    OBVIOUS
  <2>2. PICK c \in S : c # Root => Up(c) \notin S
    <3>1. S \subseteq Dirs
      OBVIOUS
    <3> HIDE DEF S
    <3> QED BY <2>1, <3>1, Topmost
  <2>3. CASE c = Root
    BY <1>9, <2>3, WalkAssumption
  <2>4. CASE c # Root
    BY <1>9, <2>2, <2>4, UpIs
  <2> QED BY <2>3, <2>4
<1> QED BY <1>9, <1>10, <1>11

LEMMA UnderIs ==
  ASSUME NEW d \in Dirs
  PROVE  /\ d \in Under(d) /\ Under(d) \subseteq Dirs /\ IsFiniteSet(Under(d))
         /\ \A x \in Under(d) : x # d => x # Root /\ Up(x) \in Under(d)
         /\ \A x \in Dirs : x # Root /\ Up(x) \in Under(d) => x \in Under(d)
<1>1. d \in Under(d)
  BY LineIs DEF Under
<1>2. IsFiniteSet(Under(d))
  BY PathAssumption, FS_Subset DEF Under
<1>3. ASSUME NEW x \in Under(d), x # d PROVE x # Root /\ Up(x) \in Under(d)
  <2>1. x \in Dirs /\ d \in Line[x]
    BY DEF Under
  <2>2. x # Root
    BY <1>3, <2>1, LineIs
  <2> QED BY <1>3, <2>1, <2>2, LineIs, UpIs DEF Under
<1>4. ASSUME NEW x \in Dirs, x # Root, Up(x) \in Under(d) PROVE x \in Under(d)
  BY <1>4, LineIs DEF Under
<1> QED BY <1>1, <1>2, <1>3, <1>4 DEF Under

\* What is below something below.
LEMMA UnderTransitive ==
  ASSUME NEW d \in Dirs, NEW y \in Under(d)
  PROVE  Under(y) \subseteq Under(d)
<1> DEFINE S == {x \in Under(y) : x \notin Under(d)}
<1>1. SUFFICES ASSUME S # {} PROVE FALSE
  OBVIOUS
<1>2. y \in Dirs
  BY UnderIs
<1>3. PICK c \in S : c # Root => Up(c) \notin S
  <2>1. S \subseteq Dirs
    BY <1>2, UnderIs
  <2> HIDE DEF S
  <2> QED BY <1>1, <2>1, Topmost
<1>4. c # y /\ c \in Dirs
  BY <1>2, UnderIs
<1>5. c # Root /\ Up(c) \in Under(y)
  BY <1>2, <1>4, UnderIs
<1>6. Up(c) \in Under(d)
  BY <1>3, <1>5
<1> QED BY <1>4, <1>5, <1>6, UnderIs

\* No directory is below one that is in it.
LEMMA UpNotUnder ==
  ASSUME NEW c \in Dirs, c # Root
  PROVE  Up(c) \notin Under(c)
<1>1. SUFFICES ASSUME Up(c) \in Under(c) PROVE FALSE
  OBVIOUS
<1>2. \A x \in Under(c) : x # Root /\ Up(x) \in Under(c)
  BY <1>1, UnderIs
<1> QED BY <1>2, Topmost, UnderIs

Below(d) == {c \in Dirs : c # Root /\ Up(c) = d}

\* What is below a directory is what is below the directories in it.
LEMMA UnderSplits ==
  ASSUME NEW d \in Dirs
  PROVE  /\ Below(d) = Listed(d) \cap Dirs
         /\ \A c \in Below(d) : c \in Under(d) /\ d \notin Under(c)
         /\ \A x \in Under(d) : x # d => \E c \in Below(d) : x \in Under(c)
         /\ \A c, e \in Below(d) : c # e => Under(c) \cap Under(e) = {}
<1>1. Below(d) = Listed(d) \cap Dirs
  BY UpIs DEF Below
<1>2. \A c \in Below(d) : c \in Under(d) /\ d \notin Under(c)
  BY UnderIs, UpNotUnder DEF Below
<1>3. ASSUME NEW x \in Under(d), x # d PROVE \E c \in Below(d) : x \in Under(c)
  <2> DEFINE S == {y \in Under(d) : y # d /\ ~(\E c \in Below(d) : y \in Under(c))}
  <2>1. SUFFICES ASSUME S # {} PROVE FALSE
    BY <1>3
  <2>2. PICK y \in S : y # Root => Up(y) \notin S
    <3>1. S \subseteq Dirs
      BY UnderIs
    <3> HIDE DEF S
    <3> QED BY <2>1, <3>1, Topmost
  <2>3. y \in Dirs /\ y # Root /\ Up(y) \in Under(d)
    BY UnderIs
  <2>4. CASE Up(y) = d
    BY <2>3, <2>4, UnderIs DEF Below
  <2>5. CASE Up(y) # d
    <3>1. PICK c \in Below(d) : Up(y) \in Under(c)
      BY <2>2, <2>3, <2>5
    <3>2. y \in Under(c)
      BY <2>3, <3>1, UnderIs DEF Below
    <3> QED BY <3>1, <3>2
  <2> QED BY <2>4, <2>5
<1>4. ASSUME NEW c \in Below(d), NEW e \in Below(d), c # e
      PROVE  Under(c) \cap Under(e) = {}
  <2> DEFINE S == Under(c) \cap Under(e)
  <2>1. SUFFICES ASSUME S # {} PROVE FALSE
    OBVIOUS
  <2>2. c \in Dirs /\ e \in Dirs
    BY DEF Below
  <2>3. PICK x \in S : x # Root => Up(x) \notin S
    <3>1. S \subseteq Dirs
      BY <2>2, UnderIs
    <3> HIDE DEF S
    <3> QED BY <2>1, <3>1, Topmost
  <2>4. x = c \/ x = e
    BY <2>2, <2>3, UnderIs
  <2>5. \A a, b \in Below(d) : a \in Under(b) => a = b
    <3>1. ASSUME NEW a \in Below(d), NEW b \in Below(d), a \in Under(b), a # b PROVE FALSE
      <4>1. a \in Dirs /\ b \in Dirs /\ Up(a) = d /\ Up(b) = d /\ b # Root
        BY DEF Below
      <4>2. Up(a) \in Under(b)
        BY <3>1, <4>1, UnderIs
      <4> QED BY <4>1, <4>2, UpNotUnder
    <3> QED BY <3>1
  <2> QED BY <1>4, <2>4, <2>5
<1> QED BY <1>1, <1>2, <1>3, <1>4

-----------------------------------------------------------------------------
(* What is folded: totals, transfers and offers.                           *)

Rolled(f, b, S) == FoldSet(LAMBDA c, t : Plus(t, Subdir(f[c].total)), b, S)

LEMMA TotalsClosed ==
  ASSUME NEW s \in Totals, NEW t \in Totals
  PROVE  Plus(s, t) \in Totals /\ Minus(s, t) \in Totals /\ Subdir(t) \in Totals
<1>1. Plus(s, t) \in Totals
  BY DEF Plus, Totals
<1>2. Subdir(t) \in Totals
  BY DEF Subdir, Totals
<1>3. /\ Minus(s, t).alloc \in Nat /\ Minus(s, t).files \in Nat
      /\ Minus(s, t).dirs \in Nat /\ Minus(s, t).errors \in Nat
  BY DEF Minus, Totals
<1>4. Minus(s, t) \in Totals
  <2>1. DOMAIN s = {"alloc", "files", "dirs", "errors"}
    BY DEF Totals
  <2> QED BY <1>3, <2>1 DEF Minus, Totals
<1> QED BY <1>1, <1>2, <1>4

\* What holds of a directory's own totals, and when those of a child are
\* added, holds of the roll-up.
LEMMA RolledInduction ==
  ASSUME NEW f, NEW S, IsFiniteSet(S), NEW b \in Totals, \A c \in S : f[c].total \in Totals,
         NEW Q, <<{}, b>> \in Q,
         \A s \in SUBSET S, c \in S, t \in Totals :
           <<s, t>> \in Q /\ c \notin s => <<s \cup {c}, Plus(t, Subdir(f[c].total))>> \in Q
  PROVE  Rolled(f, b, S) \in Totals /\ <<S, Rolled(f, b, S)>> \in Q
<1> DEFINE op == [p \in S \X Totals |-> Plus(p[2], Subdir(f[p[1]].total))]
           P(g) == g = [s \in SUBSET S |-> IF s = {} THEN b
                          ELSE Plus(g[s \ {Pick(s)}], Subdir(f[Pick(s)].total))]
           h == CHOOSE g : P(g)
<1>1. op \in [S \X Totals -> Totals]
  BY TotalsClosed
<1>2. \A c \in S, t \in Totals : op[<<c, t>>] = Plus(t, Subdir(f[c].total))
  OBVIOUS
<1> HIDE DEF op
<1>3. P(h)
  <2>1. PICK g \in [SUBSET S -> Totals] : Folding(op, b, S, g)
    BY <1>1, FoldingExists
  <2>2. \A s \in SUBSET S : g[s] = IF s = {} THEN b
                          ELSE Plus(g[s \ {Pick(s)}], Subdir(f[Pick(s)].total))
    <3>1. ASSUME NEW s \in SUBSET S, s # {}
          PROVE  Pick(s) \in S /\ g[s \ {Pick(s)}] \in Totals
      <4>1. Pick(s) \in s /\ s \ {Pick(s)} \in SUBSET S
        BY <3>1, PickIn
      <4> QED BY <4>1
    <3> QED BY <1>2, <2>1, <3>1 DEF Folding
  <2>3. P(g)
    BY <2>2
  <2> HIDE DEF P
  <2> QED BY <2>3
<1>4. Rolled(f, b, S) = h[S]
  BY DEF Rolled, FoldSet, MapThenFoldSet, Pick
<1> HIDE DEF h
<1>5. Follows(op, b, S, Totals, h)
  <2>1. ASSUME NEW s \in SUBSET S, s # {}, h[s \ {Pick(s)}] \in Totals
        PROVE  h[s] = op[<<Pick(s), h[s \ {Pick(s)}]>>]
    <3>1. Pick(s) \in S
      BY <2>1, PickIn
    <3> QED BY <1>2, <1>3, <2>1, <3>1
  <2>2. h[{}] = b
    BY <1>3
  <2> QED BY <2>1, <2>2 DEF Follows
<1>6. Inductive(op, b, S, Totals, Q)
  BY <1>2 DEF Inductive
<1>7. h[S] \in Totals /\ <<S, h[S]>> \in Q
  BY <1>1, <1>5, <1>6, FoldingInduction
<1> QED BY <1>4, <1>7

\* The transfer of the links of S.
Settling(l, b, S) ==
  FoldSet(LAMBDA i, a : Transferred(a, In(l[i].charged), In(l[i].owner), i), b, S)

LEMMA FileTotals ==
  ASSUME NEW i \in Inodes
  PROVE  File(i) \in Totals
BY WalkAssumption DEF File, Zero, Totals

LEMMA TransferredClosed ==
  ASSUME NEW D, NEW a \in [D -> Totals], NEW from, NEW to, NEW i \in Inodes
  PROVE  Transferred(a, from, to, i) \in [D -> Totals]
<1>1. ASSUME NEW x \in D PROVE Transferred(a, from, to, i)[x] \in Totals
  <2> DEFINE less == IF x \in Line[from] THEN Minus(a[x], File(i)) ELSE a[x]
  <2>1. a[x] \in Totals /\ File(i) \in Totals
    BY FileTotals
  <2>2. less \in Totals
    BY <2>1, TotalsClosed
  <2>3. (IF x \in Line[to] THEN Plus(less, File(i)) ELSE less) \in Totals
    <3> HIDE DEF less
    <3> QED BY <2>1, <2>2, TotalsClosed
  <2> HIDE DEF less
  <2>4. Transferred(a, from, to, i)[x] = IF x \in Line[to] THEN Plus(less, File(i)) ELSE less
    BY DEF Transferred, less
  <2> QED BY <2>3, <2>4
<1>2. /\ DOMAIN Transferred(a, from, to, i) = D
      /\ Transferred(a, from, to, i) = [x \in D |-> Transferred(a, from, to, i)[x]]
  BY DEF Transferred
<1> QED BY <1>1, <1>2

LEMMA SettlingInduction ==
  ASSUME NEW l, NEW S, IsFiniteSet(S), S \subseteq Inodes, NEW D, NEW W, W = [D -> Totals],
         NEW b \in W, NEW Q, <<{}, b>> \in Q,
         \A s \in SUBSET S, i \in S, a \in W :
           <<s, a>> \in Q /\ i \notin s =>
             <<s \cup {i}, Transferred(a, In(l[i].charged), In(l[i].owner), i)>> \in Q
  PROVE  Settling(l, b, S) \in W /\ <<S, Settling(l, b, S)>> \in Q
<1> DEFINE op == [p \in S \X W |-> Transferred(p[2], In(l[p[1]].charged), In(l[p[1]].owner), p[1])]
           P(g) == g = [s \in SUBSET S |-> IF s = {} THEN b ELSE Transferred(g[s \ {Pick(s)}], In(l[Pick(s)].charged), In(l[Pick(s)].owner), Pick(s))]
           h == CHOOSE g : P(g)
<1>1. op \in [S \X W -> W]
  BY TransferredClosed
<1>2. \A x \in S, w \in W : op[<<x, w>>] = Transferred(w, In(l[x].charged), In(l[x].owner), x)
  OBVIOUS
<1> HIDE DEF op
<1>3. P(h)
  <2>1. PICK g \in [SUBSET S -> W] : Folding(op, b, S, g)
    BY <1>1, FoldingExists
  <2>2. \A s \in SUBSET S : g[s] = IF s = {} THEN b ELSE Transferred(g[s \ {Pick(s)}], In(l[Pick(s)].charged), In(l[Pick(s)].owner), Pick(s))
    <3>1. ASSUME NEW s \in SUBSET S, s # {}
          PROVE  Pick(s) \in S /\ g[s \ {Pick(s)}] \in W
      <4>1. Pick(s) \in s /\ s \ {Pick(s)} \in SUBSET S
        BY <3>1, PickIn
      <4> QED BY <4>1
    <3> QED BY <1>2, <2>1, <3>1 DEF Folding
  <2>3. P(g)
    BY <2>2
  <2> HIDE DEF P
  <2> QED BY <2>3
<1>4. Settling(l, b, S) = h[S]
  BY DEF Settling, FoldSet, MapThenFoldSet, Pick
<1> HIDE DEF h
<1>5. Follows(op, b, S, W, h)
  <2>1. ASSUME NEW s \in SUBSET S, s # {}, h[s \ {Pick(s)}] \in W
        PROVE  h[s] = op[<<Pick(s), h[s \ {Pick(s)}]>>]
    <3>1. Pick(s) \in S
      BY <2>1, PickIn
    <3> QED BY <1>2, <1>3, <2>1, <3>1
  <2>2. h[{}] = b
    BY <1>3
  <2> QED BY <2>1, <2>2 DEF Follows
<1>6. Inductive(op, b, S, W, Q)
  BY <1>2 DEF Inductive
<1>7. h[S] \in W /\ <<S, h[S]>> \in Q
  BY <1>1, <1>5, <1>6, FoldingInduction
<1> QED BY <1>4, <1>7

\* The files that may be among the largest.
Solid == {f \in Files : ~IsEmpty(f)}

\* The offer of the files of S.
Offering(b, S) == FoldSet(LAMBDA f, t : Offered(t, f), b, S)

LEMMA OfferingInduction ==
  ASSUME NEW S, IsFiniteSet(S), S \subseteq Files, NEW W, W = SUBSET Solid, NEW b \in W,
         NEW Q, <<{}, b>> \in Q,
         \A s \in SUBSET S, f \in S, t \in W :
           <<s, t>> \in Q /\ f \notin s => <<s \cup {f}, Offered(t, f)>> \in Q
  PROVE  Offering(b, S) \in W /\ <<S, Offering(b, S)>> \in Q
<1> DEFINE op == [p \in S \X W |-> Offered(p[2], p[1])]
           P(g) == g = [s \in SUBSET S |-> IF s = {} THEN b ELSE Offered(g[s \ {Pick(s)}], Pick(s))]
           h == CHOOSE g : P(g)
<1>1. op \in [S \X W -> W]
  BY DEF Offered, Solid
<1>2. \A x \in S, w \in W : op[<<x, w>>] = Offered(w, x)
  OBVIOUS
<1> HIDE DEF op
<1>3. P(h)
  <2>1. PICK g \in [SUBSET S -> W] : Folding(op, b, S, g)
    BY <1>1, FoldingExists
  <2>2. \A s \in SUBSET S : g[s] = IF s = {} THEN b ELSE Offered(g[s \ {Pick(s)}], Pick(s))
    <3>1. ASSUME NEW s \in SUBSET S, s # {}
          PROVE  Pick(s) \in S /\ g[s \ {Pick(s)}] \in W
      <4>1. Pick(s) \in s /\ s \ {Pick(s)} \in SUBSET S
        BY <3>1, PickIn
      <4> QED BY <4>1
    <3> QED BY <1>2, <2>1, <3>1 DEF Folding
  <2>3. P(g)
    BY <2>2
  <2> HIDE DEF P
  <2> QED BY <2>3
<1>4. Offering(b, S) = h[S]
  BY DEF Offering, FoldSet, MapThenFoldSet, Pick
<1> HIDE DEF h
<1>5. Follows(op, b, S, W, h)
  <2>1. ASSUME NEW s \in SUBSET S, s # {}, h[s \ {Pick(s)}] \in W
        PROVE  h[s] = op[<<Pick(s), h[s \ {Pick(s)}]>>]
    <3>1. Pick(s) \in S
      BY <2>1, PickIn
    <3> QED BY <1>2, <1>3, <2>1, <3>1
  <2>2. h[{}] = b
    BY <1>3
  <2> QED BY <2>1, <2>2 DEF Follows
<1>6. Inductive(op, b, S, W, Q)
  BY <1>2 DEF Inductive
<1>7. h[S] \in W /\ <<S, h[S]>> \in Q
  BY <1>1, <1>5, <1>6, FoldingInduction
<1> QED BY <1>4, <1>7

-----------------------------------------------------------------------------
(* The largest files.                                                      *)

\* Smaller: before in the order of a heap.
Smaller(f, g) == \/ SizeOf(f) < SizeOf(g)
                 \/ SizeOf(f) = SizeOf(g) /\ Rank[f] <= Rank[g]

LEMMA InodesAre ==
  /\ IsFiniteSet(Files) /\ IsFiniteSet(Inodes)
  /\ \A f \in Files : Inode[f] \in Inodes /\ SizeOf(f) \in Nat /\ Rank[f] \in Int
  /\ \A i \in Inodes : Alloc[i] \in Nat /\ NLink[i] \in Nat \ {0}
<1>1. IsFiniteSet(Files)
  BY PathAssumption
<1>2. IsFiniteSet(Inodes)
  <2> DEFINE h == [f \in Files |-> Inode[f]]
  <2>1. h \in Surjection(Files, Inodes)
    BY DEF Surjection, Inodes
  <2> QED BY <1>1, <2>1, FS_Surjection
<1> QED BY <1>1, <1>2, WalkAssumption, PathAssumption DEF Inodes, SizeOf

LEMMA LeastIs ==
  ASSUME NEW files \in SUBSET Files, files # {}
  PROVE  Least(files) \in files /\ \A g \in files : Smaller(Least(files), g)
<1> DEFINE Has(t) == \E f \in t : \A g \in t : Smaller(f, g)
           T == {t \in SUBSET Files : t # {} => Has(t)}
<1>1. ASSUME NEW t \in T, t \subseteq files, NEW x \in files \ t PROVE t \cup {x} \in T
  <2>1. Smaller(x, x)
    BY InodesAre DEF Smaller
  <2>2. CASE t = {}
    BY <2>1, <2>2
  <2>3. CASE t # {}
    <3>1. PICK f \in t : \A g \in t : Smaller(f, g)
      BY <2>3
    <3>2. CASE Smaller(f, x)
      BY <3>1, <3>2
    <3>3. CASE ~Smaller(f, x)
      <4>1. \A g \in t : Smaller(x, g)
        BY <3>1, <3>3, InodesAre DEF Smaller
      <4> QED BY <2>1, <4>1
    <3> QED BY <3>2, <3>3
  <2> QED BY <2>2, <2>3
<1>2. {} \in T
  OBVIOUS
<1>3. IsFiniteSet(files)
  BY InodesAre, FS_Subset
<1>4. files \in T
  <2> HIDE DEF T
  <2> QED BY <1>1, <1>2, <1>3, GrowInduction
<1>5. Has(files)
  BY <1>4
<1> QED BY <1>5 DEF Least, Smaller

LEMMA OfferedFits ==
  ASSUME NEW files \in SUBSET Solid, Cardinality(files) <= TopN, NEW f \in Files
  PROVE  Offered(files, f) \in SUBSET Solid /\ Cardinality(Offered(files, f)) <= TopN
<1>0. Solid \subseteq Files /\ (IsEmpty(f) \/ f \in Solid)
  BY DEF Solid
<1>1. IsFiniteSet(files) /\ Cardinality(files) \in Nat /\ TopN \in Nat
  BY <1>0, InodesAre, FS_Subset, FS_CardinalityType, WalkAssumption
<1>5. CASE IsEmpty(f)
  BY <1>5 DEF Offered
<1>2. CASE ~IsEmpty(f) /\ Cardinality(files) < TopN
  <2>1. Offered(files, f) = files \cup {f}
    BY <1>2 DEF Offered
  <2>2. files \cup {f} \in SUBSET Solid
    BY <1>0, <1>2
  <2>3. /\ f \in files => files \cup {f} = files
        /\ f \notin files => Cardinality(files \cup {f}) = Cardinality(files) + 1
    BY <1>1, FS_AddElement
  <2> QED BY <1>1, <1>2, <2>1, <2>2, <2>3
<1>3. CASE ~IsEmpty(f) /\ ~(Cardinality(files) < TopN) /\ files # {} /\ SizeOf(f) > SizeOf(Least(files))
  <2> DEFINE r == files \ {Least(files)}
  <2>1. Least(files) \in files
    BY <1>0, <1>3, LeastIs
  <2>2. IsFiniteSet(r) /\ Cardinality(r) = Cardinality(files) - 1
    BY <1>1, <2>1, FS_RemoveElement
  <2>3. Cardinality(r \cup {f}) <= Cardinality(r) + 1
    <3>1. Cardinality(r) \in Nat
      BY <2>2, FS_CardinalityType
    <3>2. f \in r => r \cup {f} = r
      OBVIOUS
    <3>3. f \notin r => Cardinality(r \cup {f}) = Cardinality(r) + 1
      BY <2>2, FS_AddElement
    <3> HIDE DEF r
    <3> QED BY <3>1, <3>2, <3>3
  <2>4. Offered(files, f) = r \cup {f}
    BY <1>3 DEF Offered
  <2>5. IsFiniteSet(r \cup {f}) /\ Cardinality(r \cup {f}) \in Nat
    BY <2>2, FS_AddElement, FS_CardinalityType
  <2>6. r \cup {f} \in SUBSET Solid
    BY <1>0, <1>3
  <2>7. Cardinality(r \cup {f}) <= TopN
    <3> HIDE DEF r
    <3> QED BY <1>1, <2>2, <2>3, <2>5
  <2> QED BY <2>4, <2>6, <2>7
<1>4. CASE ~IsEmpty(f) /\ ~(Cardinality(files) < TopN) /\ ~(files # {} /\ SizeOf(f) > SizeOf(Least(files)))
  BY <1>4 DEF Offered
<1> QED BY <1>2, <1>3, <1>4, <1>5

-----------------------------------------------------------------------------
(* The scans.                                                              *)

Early == {"none", "called", "listed", "tellError"}
Reading == {"looking", "tellOwn"}
Told == {"below", "tellTotal", "done"}
Summed == {"tellTotal", "done"}
Places == Early \cup Reading \cup Told
ScanStates == [at : Places, next : Nat \ {0}, kids : SUBSET Dirs, total : Totals]
Messages == [dir : Dirs, totals : Totals, last : BOOLEAN]
LinkStates == [seen : Nat \ {0}, charged : Files, owner : Files, top : Files \cup {Nobody}]

Types ==
  /\ scan \in [Dirs -> ScanStates]
  /\ DOMAIN arena \in SUBSET Dirs /\ Root \in DOMAIN arena /\ arena \in [DOMAIN arena -> Totals]
  /\ channel \in Seq(Messages) /\ Len(channel) <= ChannelCap
  /\ stopped \in BOOLEAN /\ limited \in BOOLEAN /\ cancelled \in BOOLEAN
  /\ unwalked \in [excluded : Nat, aliases : Nat, mounts : Nat, dataless : Nat]
  /\ DOMAIN links \in SUBSET Inodes /\ links \in [DOMAIN links -> LinkStates]
  /\ top \in SUBSET Solid /\ Cardinality(top) <= TopN

\* The entries of a directory that the walk is past.
Past(d) == {Listing[d][k] : k \in 1..(scan[d].next - 1)}

\* A directory is entered from its own, when that has told its own totals,
\* and is done before that is summed.
Shape ==
  /\ \A d \in Dirs : scan[d].next <= Len(Listing[d]) + 1
  /\ \A d \in Dirs : scan[d].kids \subseteq Past(d) \cap DOMAIN arena
  /\ \A d \in Dirs : scan[d].at \in Early => scan[d].next = 1
  /\ \A d \in DOMAIN arena : d # Root => d \in scan[Up(d)].kids
  /\ \A d \in Dirs : d # Root /\ scan[d].at # "none" =>
       d \in scan[Up(d)].kids /\ scan[Up(d)].at \in Told
  /\ \A d \in Dirs : scan[d].at \in Told => \A c \in scan[d].kids : scan[c].at # "none"
  /\ \A d \in Dirs : scan[d].at \in Summed => \A c \in scan[d].kids : scan[c].at = "done"
  /\ scan[Root].at \notin {"none", "called"}

LEMMA ListingIs ==
  ASSUME NEW d \in Dirs
  PROVE  /\ Listing[d] \in Seq(Entries) /\ Len(Listing[d]) \in Nat
         /\ \A k \in 1..Len(Listing[d]) : Listing[d][k] \in Listed(d)
         /\ \A e \in Listed(d) : \E k \in 1..Len(Listing[d]) : Listing[d][k] = e
         /\ \A j, k \in 1..Len(Listing[d]) : Listing[d][j] = Listing[d][k] => j = k
         /\ Listed(d) \subseteq Entries
<1>1. Listing[d] \in Seq(Entries) /\ IsInjective(Listing[d])
  BY WalkAssumption
<1>2. Len(Listing[d]) \in Nat /\ DOMAIN Listing[d] = 1..Len(Listing[d])
  BY <1>1
<1>3. Listed(d) = {Listing[d][k] : k \in 1..Len(Listing[d])}
  BY <1>2 DEF Listed, ToSet
<1>4. \A k \in 1..Len(Listing[d]) : Listing[d][k] \in Entries
  BY <1>1, <1>2
<1> QED BY <1>1, <1>2, <1>3, <1>4 DEF IsInjective

\* Where an entry is.
LEMMA PastIs ==
  ASSUME Types, Shape, NEW d \in Dirs
  PROVE  /\ Past(d) \subseteq Listed(d) /\ (scan[d].next = 1 => Past(d) = {})
         /\ (scan[d].next > Len(Listing[d]) => Past(d) = Listed(d))
         /\ scan[d].next \in Nat \ {0} /\ scan[d].next <= Len(Listing[d]) + 1
         /\ \A c \in Past(d) \cap Dirs : c # Root /\ Up(c) = d /\ c # d
         /\ \A f \in Past(d) \cap Files : In(f) = d
<1>1. scan[d].next \in Nat \ {0} /\ scan[d].next <= Len(Listing[d]) + 1
  BY DEF Types, Shape, ScanStates
<1>2. Past(d) \subseteq Listed(d)
  BY <1>1, ListingIs DEF Past
<1>3. scan[d].next = 1 => Past(d) = {}
  BY DEF Past
<1>4. scan[d].next > Len(Listing[d]) => Past(d) = Listed(d)
  BY <1>1, <1>2, ListingIs DEF Past
<1>5. ASSUME NEW c \in Past(d) \cap Dirs PROVE c # Root /\ Up(c) = d /\ c # d
  BY <1>2, UpIs, UpNotUnder, UnderIs
<1>6. \A f \in Past(d) \cap Files : In(f) = d
  BY <1>2, InIs
<1> QED BY <1>1, <1>2, <1>3, <1>4, <1>5, <1>6

\* The kinds of steps of a scan.  It turns to something else, ...
Turns == {<<"called", "done">>, <<"listed", "done">>, <<"called", "listed">>,
          <<"called", "tellError">>, <<"listed", "looking">>, <<"looking", "tellOwn">>}
WithErrors(t, e) == [t EXCEPT !.errors = e]
GoesWith(d, at, e) == scan' = [scan EXCEPT ![d].at = at, ![d].total.errors = e]
Puts(d, state) == scan' = [scan EXCEPT ![d] = state]
State(at, next, kids, total) == [at |-> at, next |-> next, kids |-> kids, total |-> total]
TurnsTo(d, at, total) ==
  /\ <<scan[d].at, at>> \in Turns
  /\ Puts(d, State(at, scan[d].next, scan[d].kids, total))
  /\ total \in Totals /\ total = WithErrors(scan[d].total, total.errors)
  /\ UNCHANGED <<arena, channel, collector, result, top, cancelled>>

\* ... passes an entry, ...
Passes(d, kids, total) ==
  /\ scan[d].at = "looking" /\ scan[d].next <= Len(Listing[d])
  /\ Puts(d, State("looking", scan[d].next + 1, scan[d].kids \cup kids, total))
  /\ total \in Totals /\ kids \subseteq {Entry(d)} \cap Dirs
  /\ arena' = [x \in DOMAIN arena \cup kids |-> IF x \in kids THEN Zero ELSE arena[x]]
  /\ UNCHANGED <<channel, collector, result, cancelled>>

\* ... tells its totals, ...
Tells(d) ==
  /\ scan[d].at \in Telling /\ scan' = After(d)
  /\ UNCHANGED <<arena, links, top, seenDirs, collector, result, cancelled>>

\* ... or is summed.
LEMMA ScanIs ==
  ASSUME Types, NEW d \in Dirs
  PROVE  /\ scan[d] = State(scan[d].at, scan[d].next, scan[d].kids, scan[d].total)
         /\ scan[d].at \in Places /\ scan[d].next \in Nat \ {0}
         /\ scan[d].kids \in SUBSET Dirs /\ scan[d].total \in Totals
         /\ \A e \in Nat : WithErrors(scan[d].total, e) \in Totals
                         /\ WithErrors(scan[d].total, e).errors = e
         /\ DOMAIN scan = Dirs
<1>1. scan[d] \in ScanStates
  BY DEF Types
<1>2. /\ scan[d].at \in Places /\ scan[d].next \in Nat \ {0}
      /\ scan[d].kids \in SUBSET Dirs /\ scan[d].total \in Totals
  BY <1>1 DEF ScanStates
<1>3. scan[d] = State(scan[d].at, scan[d].next, scan[d].kids, scan[d].total)
  BY <1>1 DEF ScanStates, State
<1>4. \A t \in Totals, e \in Nat : WithErrors(t, e) \in Totals /\ WithErrors(t, e).errors = e
  BY DEF Totals, WithErrors
<1> QED BY <1>1, <1>2, <1>3, <1>4 DEF Types

LEMMA Excepts ==
  ASSUME Types, NEW d \in Dirs, NEW at
  PROVE  /\ [scan EXCEPT ![d].at = at] =
              [scan EXCEPT ![d] = State(at, scan[d].next, scan[d].kids, scan[d].total)]
         /\ Goes(d, at) => Puts(d, State(at, scan[d].next, scan[d].kids, scan[d].total))
<1> DEFINE s == scan[d]
<1>1. s = State(s.at, s.next, s.kids, s.total)
  BY ScanIs
<1>2. [s EXCEPT !.at = at] = State(at, s.next, s.kids, s.total)
  <2> HIDE DEF s
  <2> QED BY <1>1 DEF State
<1>3. [scan EXCEPT ![d].at = at] = [scan EXCEPT ![d] = [s EXCEPT !.at = at]]
  OBVIOUS
<1>4. [scan EXCEPT ![d].at = at] = [scan EXCEPT ![d] = State(at, s.next, s.kids, s.total)]
  BY <1>2, <1>3
<1> QED BY <1>4 DEF Goes, Puts

LEMMA ExceptsErrors ==
  ASSUME Types, NEW d \in Dirs, NEW at, NEW e, GoesWith(d, at, e)
  PROVE  Puts(d, State(at, scan[d].next, scan[d].kids, WithErrors(scan[d].total, e)))
<1> DEFINE s == scan[d]
           r == State(at, s.next, s.kids, s.total)
           f == [scan EXCEPT ![d] = r]
           t == [s.total EXCEPT !.errors = e]
<1>1. [scan EXCEPT ![d].at = at] = f
  BY Excepts
<1>2. f[d] = r /\ DOMAIN f = DOMAIN scan
  <2> HIDE DEF r
  <2> QED BY ScanIs
<1>3. [scan EXCEPT ![d].at = at, ![d].total.errors = e] =
        [f EXCEPT ![d] = [r EXCEPT !.total = [@ EXCEPT !.errors = e]]]
  <2> HIDE DEF r, f
  <2> QED BY <1>1, <1>2
<1>4. r.total = s.total /\ [r EXCEPT !.total = t] = State(at, s.next, s.kids, t)
  <2> HIDE DEF s, t
  <2> QED BY DEF State
<1>5. \A v : [f EXCEPT ![d] = v] = [scan EXCEPT ![d] = v]
  <2> HIDE DEF r
  <2> QED OBVIOUS
<1>6. [r EXCEPT !.total = [@ EXCEPT !.errors = e]] = State(at, s.next, s.kids, t)
  <2> HIDE DEF r, s
  <2> QED BY <1>4
<1> HIDE DEF f, r, t
<1>7. [scan EXCEPT ![d].at = at, ![d].total.errors = e] =
        [scan EXCEPT ![d] = State(at, s.next, s.kids, t)]
  BY <1>3, <1>5, <1>6
<1>8. Puts(d, State(at, s.next, s.kids, t))
  BY <1>7 DEF Puts, GoesWith
<1> QED BY <1>8 DEF t, WithErrors

LEMMA Turned ==
  ASSUME Types, NEW d \in Dirs, NEW at, <<scan[d].at, at>> \in Turns, Goes(d, at),
         UNCHANGED <<arena, channel, collector, result, top, cancelled>>
  PROVE  TurnsTo(d, at, scan[d].total)
<1>1. scan[d].total \in Totals
  BY ScanIs
<1>2. scan[d].total = WithErrors(scan[d].total, scan[d].total.errors)
  BY <1>1 DEF Totals, WithErrors
<1> QED BY <1>1, <1>2, Excepts DEF TurnsTo

LEMMA TurnedWith ==
  ASSUME Types, NEW d \in Dirs, NEW at, <<scan[d].at, at>> \in Turns, NEW e \in Nat,
         GoesWith(d, at, e),
         UNCHANGED <<arena, channel, collector, result, top, cancelled>>
  PROVE  TurnsTo(d, at, WithErrors(scan[d].total, e))
BY ScanIs, ExceptsErrors DEF TurnsTo

LEMMA TurnBackTurns ==
  ASSUME Types, NEW d \in Dirs, TurnBack(d)
  PROVE  /\ TurnsTo(d, "done", WithErrors(scan[d].total, scan[d].total.errors))
         /\ scan[d].at \in {"called", "listed"} /\ stopped'
         /\ UNCHANGED <<links, seenDirs, limited, unwalked>>
<1>1. scan[d].total.errors \in Nat
  BY ScanIs DEF Totals
<1>2. GoesWith(d, "done", scan[d].total.errors)
  BY DEF TurnBack, Returns, GoesWith
<1> QED BY <1>1, <1>2, TurnedWith DEF TurnBack, Turns, shared, inventory

LEMMA ListTurns ==
  ASSUME Types, NEW d \in Dirs, NEW outcome, List(d, outcome)
  PROVE  /\ TurnsTo(d, "listed", WithErrors(scan[d].total, IF outcome = "ok" THEN 0 ELSE 1))
         /\ UNCHANGED shared
<1> DEFINE e == IF outcome = "ok" THEN 0 ELSE 1
<1>1. e \in Nat
  OBVIOUS
<1>2. GoesWith(d, "listed", e)
  BY DEF List, GoesWith
<1> HIDE DEF e
<1>3. TurnsTo(d, "listed", WithErrors(scan[d].total, e)) /\ UNCHANGED shared
  BY <1>1, <1>2, TurnedWith DEF List, Turns, shared, inventory
<1> QED BY <1>3 DEF e

LEMMA FailTurns ==
  ASSUME Types, NEW d \in Dirs, NEW outcome, Fail(d, outcome)
  PROVE  /\ TurnsTo(d, "tellError", WithErrors(scan[d].total, 1))
         /\ UNCHANGED <<links, seenDirs>> /\ (limited => limited')
         /\ stopped' \in BOOLEAN /\ limited' \in BOOLEAN
         /\ unwalked' \in [excluded : Nat, aliases : Nat, mounts : Nat, dataless : Nat]
<1>1. TurnsTo(d, "tellError", WithErrors(scan[d].total, 1))
  <2>1. GoesWith(d, "tellError", 1)
    BY DEF Fail, GoesWith
  <2> QED BY <2>1, TurnedWith DEF Fail, Turns, shared, inventory
<1>2. unwalked' \in [excluded : Nat, aliases : Nat, mounts : Nat, dataless : Nat]
  BY DEF Types, Fail
<1> QED BY <1>1, <1>2 DEF Types, Fail, OutOfMemory, inventory

LEMMA LeaveTurns ==
  ASSUME Types, NEW d \in Dirs, NEW outcome, Leave(d, outcome)
  PROVE  /\ TurnsTo(d, "done", WithErrors(scan[d].total, 0))
         /\ UNCHANGED <<links, seenDirs>> /\ (limited => limited')
         /\ scan[d].at = "called"
         /\ stopped' \in BOOLEAN /\ limited' \in BOOLEAN
         /\ unwalked' \in [excluded : Nat, aliases : Nat, mounts : Nat, dataless : Nat]
<1>1. TurnsTo(d, "done", WithErrors(scan[d].total, 0))
  <2>1. GoesWith(d, "done", 0)
    BY DEF Leave, Returns, GoesWith
  <2> QED BY <2>1, TurnedWith DEF Leave, Turns, shared, inventory
<1>2. unwalked' \in [excluded : Nat, aliases : Nat, mounts : Nat, dataless : Nat]
  BY DEF Types, Leave
<1> QED BY <1>1, <1>2 DEF Types, Leave, OutOfMemory, inventory

LEMMA BeginTurns ==
  ASSUME Types, NEW d \in Dirs, Begin(d)
  PROVE  /\ \/ TurnsTo(d, "looking", scan[d].total) /\ UNCHANGED limited
            \/ TurnsTo(d, "done", WithErrors(scan[d].total, scan[d].total.errors + 1)) /\ limited'
         /\ scan[d].at = "listed"
         /\ UNCHANGED <<links, seenDirs, unwalked>>
         /\ stopped' \in BOOLEAN /\ limited' \in BOOLEAN
<1>1. CASE Goes(d, "looking") /\ UNCHANGED limited /\ stopped' \in BOOLEAN
  BY <1>1, Turned DEF Types, Begin, Turns, inventory
<1>2. CASE Returns(d, scan[d].total.errors + 1) /\ OutOfMemory
  <2>1. scan[d].total.errors + 1 \in Nat
    <3>1. scan[d].total.errors \in Nat
      BY ScanIs DEF Totals
    <3> QED BY <3>1
  <2>2. GoesWith(d, "done", scan[d].total.errors + 1)
    BY <1>2 DEF Returns, GoesWith
  <2> DEFINE e == scan[d].total.errors + 1
  <2>3. e \in Nat /\ GoesWith(d, "done", e)
    BY <2>1, <2>2
  <2>4. scan[d].at = "listed" /\ UNCHANGED <<arena, channel, collector, result, top, cancelled>>
    BY DEF Begin, inventory
  <2> HIDE DEF e
  <2>5. TurnsTo(d, "done", WithErrors(scan[d].total, e))
    BY <2>3, <2>4, TurnedWith DEF Turns
  <2> QED BY <1>2, <2>4, <2>5 DEF e, Begin, OutOfMemory
<1> QED BY <1>1, <1>2 DEF Begin

LEMMA NoRoomTurns ==
  ASSUME Types, NEW d \in Dirs, NoRoom(d)
  PROVE  /\ TurnsTo(d, "tellOwn", scan[d].total) /\ limited' /\ stopped'
         /\ limited' \in BOOLEAN /\ stopped' \in BOOLEAN
         /\ seenDirs \subseteq seenDirs' /\ UNCHANGED <<unwalked, links>>
BY Turned DEF NoRoom, Enterable, IsAt, Breaks, OutOfMemory, Turns, inventory

LEMMA ForgottenTurns ==
  ASSUME Types, NEW d \in Dirs, LinkForgotten(d)
  PROVE  /\ TurnsTo(d, "tellOwn", scan[d].total) /\ limited' /\ stopped'
         /\ limited' \in BOOLEAN /\ stopped' \in BOOLEAN
         /\ UNCHANGED <<unwalked, seenDirs>>
BY Turned DEF LinkForgotten, IsAt, Breaks, OutOfMemory, Turns, inventory

LEMMA EndListingTurns ==
  ASSUME Types, NEW d \in Dirs, EndListing(d)
  PROVE  /\ TurnsTo(d, "tellOwn", scan[d].total) /\ scan[d].next > Len(Listing[d])
         /\ UNCHANGED shared
BY Turned DEF EndListing, Turns, shared, inventory

Keeps(d, c) == scan' = [Onward(d) EXCEPT ![d].kids = @ \cup {c}]

LEMMA Onwards ==
  ASSUME Types, NEW d \in Dirs, scan[d].at = "looking"
  PROVE  LET next == scan[d].next + 1
         IN  /\ scan' = Onward(d) => Puts(d, State("looking", next, scan[d].kids, scan[d].total))
             /\ \A c : Keeps(d, c) =>
                       Puts(d, State("looking", next, scan[d].kids \cup {c}, scan[d].total))
             /\ \A f : scan' = Counted(d, f) =>
                       Puts(d, State("looking", next, scan[d].kids, Plus(scan[d].total, File(Inode[f]))))
<1> DEFINE s == scan[d]
           o == State("looking", s.next + 1, s.kids, s.total)
<1>1. s = State("looking", s.next, s.kids, s.total) /\ DOMAIN scan = Dirs
  BY ScanIs
<1>2. [s EXCEPT !.next = @ + 1] = o
  <2> HIDE DEF s
  <2> QED BY <1>1 DEF State
<1>3. ASSUME NEW c PROVE [o EXCEPT !.kids = @ \cup {c}] = State("looking", s.next + 1, s.kids \cup {c}, s.total)
  <2>1. o.kids = s.kids
    <3> HIDE DEF s
    <3> QED BY DEF State
  <2>2. ASSUME NEW v PROVE [o EXCEPT !.kids = v] = State("looking", s.next + 1, v, s.total)
    <3> HIDE DEF s
    <3> QED BY DEF State
  <2> HIDE DEF o, s
  <2> QED BY <2>1, <2>2
<1>4. ASSUME NEW u PROVE [o EXCEPT !.total = Plus(@, u)] = State("looking", s.next + 1, s.kids, Plus(s.total, u))
  <2>1. o.total = s.total
    <3> HIDE DEF s
    <3> QED BY DEF State
  <2>2. ASSUME NEW v PROVE [o EXCEPT !.total = v] = State("looking", s.next + 1, s.kids, v)
    <3> HIDE DEF s
    <3> QED BY DEF State
  <2> HIDE DEF o, s
  <2> QED BY <2>1, <2>2
<1>5. Onward(d) = [scan EXCEPT ![d] = o]
  BY <1>2 DEF Onward
<1>6. Onward(d)[d] = o /\ DOMAIN Onward(d) = Dirs
  <2> HIDE DEF o
  <2> QED BY <1>1, <1>5
<1>7. ASSUME NEW v PROVE [Onward(d) EXCEPT ![d] = v] = [scan EXCEPT ![d] = v]
  <2> HIDE DEF o
  <2> QED BY <1>1, <1>5
<1>8. ASSUME NEW c, Keeps(d, c)
      PROVE  Puts(d, State("looking", s.next + 1, s.kids \cup {c}, s.total))
  <2> HIDE DEF o, s
  <2>1. scan' = [Onward(d) EXCEPT ![d] = [o EXCEPT !.kids = @ \cup {c}]]
    BY <1>6, <1>8 DEF Keeps
  <2>2. Puts(d, [o EXCEPT !.kids = @ \cup {c}])
    BY <1>7, <2>1 DEF Puts
  <2> QED BY <1>3, <2>2
<1>9. ASSUME NEW f, scan' = Counted(d, f)
      PROVE  Puts(d, State("looking", s.next + 1, s.kids, Plus(s.total, File(Inode[f]))))
  <2> HIDE DEF o, s
  <2>1. scan' = [Onward(d) EXCEPT ![d] = [o EXCEPT !.total = Plus(@, File(Inode[f]))]]
    BY <1>6, <1>9 DEF Counted
  <2>2. Puts(d, [o EXCEPT !.total = Plus(@, File(Inode[f]))])
    BY <1>7, <2>1 DEF Puts
  <2> QED BY <1>4, <2>2
<1>10. scan' = Onward(d) => Puts(d, o)
  <2> HIDE DEF o
  <2> QED BY <1>5 DEF Puts
<1> QED BY <1>8, <1>9, <1>10

LEMMA ArenaSame ==
  ASSUME Types, UNCHANGED arena
  PROVE  arena' = [x \in DOMAIN arena \cup {} |-> IF x \in {} THEN Zero ELSE arena[x]]
BY DEF Types

LEMMA PassByPasses ==
  ASSUME Types, NEW d \in Dirs, PassBy(d)
  PROVE  /\ Passes(d, {}, scan[d].total) /\ Entry(d) \in Dirs
         /\ UNCHANGED <<stopped, limited, seenDirs, links, top>>
         /\ unwalked' \in [excluded : Nat, aliases : Nat, mounts : Nat, dataless : Nat]
<1>1. scan[d].at = "looking" /\ scan[d].next <= Len(Listing[d]) /\ Entry(d) \in Dirs
  BY DEF PassBy, IsAt
<1>2. Puts(d, State("looking", scan[d].next + 1, scan[d].kids \cup {}, scan[d].total))
  <2>1. scan[d].kids \cup {} = scan[d].kids
    OBVIOUS
  <2> QED BY <1>1, <2>1, Onwards DEF PassBy
<1>3. Passes(d, {}, scan[d].total)
  BY <1>1, <1>2, ScanIs, ArenaSame DEF PassBy, Passes, inventory
<1>4. unwalked' \in [excluded : Nat, aliases : Nat, mounts : Nat, dataless : Nat]
  BY DEF Types, PassBy
<1> QED BY <1>1, <1>3, <1>4 DEF PassBy

LEMMA DescendPasses ==
  ASSUME Types, NEW d \in Dirs, Descend(d)
  PROVE  /\ Passes(d, IF Entry(d) \in Skipped THEN {} ELSE {Entry(d)}, scan[d].total)
         /\ Entry(d) \in Dirs /\ Entry(d) \notin Excluded \cup MountPoints /\ ~Seen(Entry(d))
         /\ seenDirs' = seenDirs \cup {Node[Entry(d)]}
         /\ UNCHANGED <<stopped, limited, unwalked, links, top>>
<1> DEFINE c == Entry(d)
<1>1. /\ scan[d].at = "looking" /\ scan[d].next <= Len(Listing[d]) /\ c \in Dirs
      /\ c \notin Excluded \cup MountPoints /\ ~Seen(c)
  BY DEF Descend, Enterable, IsAt
<1>2. CASE c \in Skipped
  <2>1. scan' = Onward(d) /\ UNCHANGED arena
    BY <1>2 DEF Descend
  <2>2. Puts(d, State("looking", scan[d].next + 1, scan[d].kids \cup {}, scan[d].total))
    <3>1. scan[d].kids \cup {} = scan[d].kids
      OBVIOUS
    <3> QED BY <1>1, <2>1, <3>1, Onwards
  <2>3. Passes(d, {}, scan[d].total)
    BY <1>1, <2>1, <2>2, ScanIs, ArenaSame DEF Passes, Descend
  <2> QED BY <1>1, <1>2, <2>3 DEF Descend
<1>3. CASE c \notin Skipped
  <2>1. /\ Keeps(d, c)
        /\ arena' = [x \in DOMAIN arena \cup {c} |-> IF x = c THEN Zero ELSE arena[x]]
    BY <1>3 DEF Descend, Keeps
  <2>2. Puts(d, State("looking", scan[d].next + 1, scan[d].kids \cup {c}, scan[d].total))
    BY <1>1, <2>1, Onwards
  <2>3. arena' = [x \in DOMAIN arena \cup {c} |-> IF x \in {c} THEN Zero ELSE arena[x]]
    BY <2>1
  <2>4. Passes(d, {c}, scan[d].total)
    BY <1>1, <2>2, <2>3, ScanIs DEF Passes, Descend
  <2> QED BY <1>1, <1>3, <2>4 DEF Descend
<1> QED BY <1>2, <1>3

LEMMA EntryIs ==
  ASSUME Types, Shape, NEW d \in Dirs, scan[d].at = "looking", scan[d].next <= Len(Listing[d])
  PROVE  /\ Entry(d) \in Listed(d) /\ Entry(d) \notin Past(d)
         /\ Entry(d) \in Dirs => Entry(d) # Root /\ Up(Entry(d)) = d /\ Entry(d) # d
         /\ Entry(d) \in Files => In(Entry(d)) = d
<1>1. scan[d].next \in 1..Len(Listing[d])
  BY ScanIs, ListingIs
<1>2. Entry(d) \in Listed(d)
  BY <1>1, ListingIs DEF Entry
<1>3. Entry(d) \notin Past(d)
  <2>1. SUFFICES ASSUME NEW k \in 1..(scan[d].next - 1), Entry(d) = Listing[d][k] PROVE FALSE
    BY DEF Past
  <2>2. k \in 1..Len(Listing[d]) /\ k # scan[d].next
    BY <1>1, ListingIs
  <2> QED BY <1>1, <2>1, <2>2, ListingIs DEF Entry
<1> QED BY <1>2, <1>3, UpIs, UpNotUnder, UnderIs, InIs

LEMMA CountedPasses ==
  ASSUME Types, NEW d \in Dirs, IsAt(d, Files), scan' = Counted(d, Entry(d)),
         UNCHANGED <<arena, channel, collector, result, cancelled>>
  PROVE  Passes(d, {}, Plus(scan[d].total, File(Inode[Entry(d)])))
<1>1. scan[d].at = "looking" /\ scan[d].next <= Len(Listing[d]) /\ Entry(d) \in Files
  BY DEF IsAt
<1>2. Puts(d, State("looking", scan[d].next + 1, scan[d].kids, Plus(scan[d].total, File(Inode[Entry(d)]))))
  BY <1>1, Onwards
<1>3. scan[d].kids \cup {} = scan[d].kids
  OBVIOUS
<1>4. Plus(scan[d].total, File(Inode[Entry(d)])) \in Totals
  BY <1>1, ScanIs, InodesAre, FileTotals, TotalsClosed
<1> QED BY <1>1, <1>2, <1>3, <1>4, ArenaSame DEF Passes

LEMMA CountFilePasses ==
  ASSUME Types, NEW d \in Dirs, CountFile(d)
  PROVE  /\ Passes(d, {}, Plus(scan[d].total, File(Inode[Entry(d)])))
         /\ Entry(d) \in Files /\ ~Linked(Entry(d))
         /\ \/ top' = (IF d \in NoTop THEN top ELSE Offered(top, Entry(d))) /\ UNCHANGED <<stopped, limited>>
            \/ top' = top /\ OutOfMemory
         /\ UNCHANGED <<unwalked, seenDirs, links>>
         /\ top' \in SUBSET Solid /\ Cardinality(top') <= TopN
<1>1. Passes(d, {}, Plus(scan[d].total, File(Inode[Entry(d)])))
  BY CountedPasses DEF CountFile, inventory
<1>2. Entry(d) \in Files
  BY DEF CountFile, IsAt
<1>3. top \in SUBSET Solid /\ Cardinality(top) <= TopN
  BY DEF Types
<1>4. Offered(top, Entry(d)) \in SUBSET Solid /\ Cardinality(Offered(top, Entry(d))) <= TopN
  BY <1>2, <1>3, OfferedFits
<1> QED BY <1>1, <1>2, <1>3, <1>4 DEF CountFile

NewLink(d, f) == [seen |-> 1, charged |-> f, owner |-> f, top |-> IF d \in NoTop THEN Nobody ELSE f]

LEMMA FirstLinkPasses ==
  ASSUME Types, NEW d \in Dirs, FirstLink(d)
  PROVE  LET f == Entry(d)
             i == Inode[f]
         IN  /\ Passes(d, {}, Plus(scan[d].total, File(i)))
             /\ f \in Files /\ Linked(f) /\ i \in Inodes /\ i \notin DOMAIN links
             /\ DOMAIN links' = DOMAIN links \cup {i} /\ links'[i] = NewLink(d, f)
             /\ \A j \in DOMAIN links : links'[j] = links[j]
             /\ links' \in [DOMAIN links' -> LinkStates]
             /\ UNCHANGED <<stopped, limited, unwalked, seenDirs, top>>
<1> DEFINE f == Entry(d)
           i == Inode[f]
<1>1. Passes(d, {}, Plus(scan[d].total, File(i)))
  BY CountedPasses DEF FirstLink, inventory
<1>2. f \in Files /\ Linked(f) /\ i \in Inodes
  BY InodesAre DEF FirstLink, IsAt
<1>3. NewLink(d, f) \in LinkStates
  BY <1>2 DEF NewLink, LinkStates
<1>4. /\ i \notin DOMAIN links
      /\ links' = [j \in DOMAIN links \cup {i} |-> IF j = i THEN NewLink(d, f) ELSE links[j]]
  BY DEF FirstLink, NewLink
<1>5. links \in [DOMAIN links -> LinkStates]
  BY DEF Types
<1> HIDE DEF f, i
<1>6. /\ DOMAIN links' = DOMAIN links \cup {i} /\ links'[i] = NewLink(d, f)
      /\ \A j \in DOMAIN links : links'[j] = links[j]
      /\ links' \in [DOMAIN links' -> LinkStates]
  BY <1>3, <1>4, <1>5
<1>7. UNCHANGED <<stopped, limited, unwalked, seenDirs, top>>
  BY DEF FirstLink
<1> QED BY <1>1, <1>2, <1>4, <1>6, <1>7 DEF f, i

\* What a further link does to its inode's.
Taken(l, d, f) ==
  LET Lesser(g) == g = Nobody \/ Rank[f] < Rank[g]
  IN  [seen |-> l.seen + 1, charged |-> l.charged,
       owner |-> IF Lesser(l.owner) THEN f ELSE l.owner,
       top |-> IF d \notin NoTop /\ Lesser(l.top) THEN f ELSE l.top]

LEMMA NextLinkPasses ==
  ASSUME Types, NEW d \in Dirs, NextLink(d)
  PROVE  LET f == Entry(d)
             i == Inode[f]
         IN  /\ Passes(d, {}, scan[d].total)
             /\ f \in Files /\ Linked(f) /\ i \in DOMAIN links
             /\ links' = [links EXCEPT ![i] = Taken(links[i], d, f)]
             /\ Taken(links[i], d, f) \in LinkStates
             /\ UNCHANGED <<stopped, limited, unwalked, seenDirs, top>>
<1> DEFINE f == Entry(d)
           i == Inode[f]
           l == links[i]
<1>1. scan[d].at = "looking" /\ scan[d].next <= Len(Listing[d]) /\ f \in Files /\ Linked(f)
  BY DEF NextLink, IsAt
<1>2. i \in DOMAIN links /\ l \in LinkStates
  BY DEF NextLink, Types
<1>3. Passes(d, {}, scan[d].total)
  <2>1. scan[d].kids \cup {} = scan[d].kids
    OBVIOUS
  <2> QED BY <1>1, <2>1, Onwards, ScanIs, ArenaSame DEF NextLink, Passes, inventory
<1>4. Taken(l, d, f) \in LinkStates
  <2> HIDE DEF l, f, i
  <2> QED BY <1>1, <1>2 DEF Taken, LinkStates
<1>5. links' = [links EXCEPT ![i] = Taken(l, d, f)]
  <2>1. ASSUME NEW a, NEW b
        PROVE  [l EXCEPT !.seen = @ + 1, !.owner = a, !.top = b] =
                 [seen |-> l.seen + 1, charged |-> l.charged, owner |-> a, top |-> b]
    <3> HIDE DEF l
    <3>1. l = [seen |-> l.seen, charged |-> l.charged, owner |-> l.owner, top |-> l.top]
      BY <1>2 DEF LinkStates
    <3> DEFINE l1 == [l EXCEPT !.seen = @ + 1]
               l2 == [l1 EXCEPT !.owner = a]
    <3>2. l1 = [seen |-> l.seen + 1, charged |-> l.charged, owner |-> l.owner, top |-> l.top]
      BY <3>1
    <3>3. l2 = [seen |-> l.seen + 1, charged |-> l.charged, owner |-> a, top |-> l.top]
      <4> HIDE DEF l1
      <4> QED BY <3>2
    <3>4. [l2 EXCEPT !.top = b] = [seen |-> l.seen + 1, charged |-> l.charged, owner |-> a, top |-> b]
      <4> HIDE DEF l2
      <4> QED BY <3>3
    <3> QED BY <3>4
  <2> DEFINE Lesser(g) == g = Nobody \/ Rank[f] < Rank[g]
             a == IF Lesser(l.owner) THEN f ELSE l.owner
             b == IF d \notin NoTop /\ Lesser(l.top) THEN f ELSE l.top
  <2>2. links' = [links EXCEPT ![i] = [l EXCEPT !.seen = @ + 1, !.owner = a, !.top = b]]
    BY <1>2 DEF NextLink
  <2>3. Taken(l, d, f) = [seen |-> l.seen + 1, charged |-> l.charged, owner |-> a, top |-> b]
    BY DEF Taken
  <2> HIDE DEF a, b, l
  <2> QED BY <2>1, <2>2, <2>3
<1>6. UNCHANGED <<stopped, limited, unwalked, seenDirs, top>>
  BY DEF NextLink
<1> QED BY <1>1, <1>2, <1>3, <1>4, <1>5, <1>6

LEMMA ForgottenLinks ==
  ASSUME Types, NEW d \in Dirs, LinkForgotten(d)
  PROVE  LET i == Inode[Entry(d)]
         IN  /\ scan[d].next <= Len(Listing[d]) /\ Entry(d) \in Files /\ Linked(Entry(d))
             /\ \/ links' = links /\ i \notin DOMAIN links
                \/ /\ i \in DOMAIN links
                   /\ links' = [links EXCEPT ![i] = [links[i] EXCEPT !.seen = @ + 1]]
                   /\ links'[i] \in LinkStates
                   /\ links'[i].seen = links[i].seen + 1 /\ links'[i].charged = links[i].charged
                   /\ links'[i].owner = links[i].owner /\ links'[i].top = links[i].top
<1> DEFINE i == Inode[Entry(d)]
           l == links[i]
<1>1. scan[d].next <= Len(Listing[d]) /\ Entry(d) \in Files /\ Linked(Entry(d))
  BY DEF LinkForgotten, IsAt
<1>2. CASE i \notin DOMAIN links
  BY <1>1, <1>2 DEF LinkForgotten
<1>3. CASE i \in DOMAIN links
  <2>1. l \in LinkStates
    BY <1>3 DEF Types
  <2>2. links' = [links EXCEPT ![i] = [l EXCEPT !.seen = @ + 1]]
    BY <1>3 DEF LinkForgotten
  <2>3. links'[i] = [l EXCEPT !.seen = @ + 1]
    <3> HIDE DEF l, i
    <3> QED BY <1>3, <2>2
  <2>4. LET m == [l EXCEPT !.seen = @ + 1]
        IN  /\ m \in LinkStates /\ m.seen = l.seen + 1 /\ m.charged = l.charged
            /\ m.owner = l.owner /\ m.top = l.top
    <3> HIDE DEF l
    <3> QED BY <2>1 DEF LinkStates
  <2> DEFINE m == [l EXCEPT !.seen = @ + 1]
  <2>5. /\ m \in LinkStates /\ m.seen = l.seen + 1 /\ m.charged = l.charged
        /\ m.owner = l.owner /\ m.top = l.top
    BY <2>4
  <2>6. links' = [links EXCEPT ![i] = m] /\ links'[i] = m
    BY <2>2, <2>3
  <2> HIDE DEF m
  <2>7. /\ links'[i] \in LinkStates
        /\ links'[i].seen = links[i].seen + 1 /\ links'[i].charged = links[i].charged
        /\ links'[i].owner = links[i].owner /\ links'[i].top = links[i].top
    <3> HIDE DEF i
    <3> QED BY <2>5, <2>6
  <2> QED BY <1>1, <1>3, <2>6, <2>7 DEF m
<1> QED BY <1>2, <1>3

LEMMA TellIs ==
  ASSUME Types, NEW d \in Dirs, Publish(d) \/ Unpublished(d)
  PROVE  /\ Tells(d) /\ UNCHANGED unwalked /\ (limited => limited')
         /\ stopped' \in BOOLEAN /\ limited' \in BOOLEAN
         /\ \/ channel' = channel /\ (limited' \/ (scan[d].at = "tellError" /\ UNCHANGED limited))
            \/ /\ Len(channel) < ChannelCap /\ UNCHANGED limited
               /\ channel' = Append(channel, [dir |-> d, totals |-> scan[d].total,
                                              last |-> scan[d].at # "tellOwn"])
<1>1. CASE Publish(d)
  BY <1>1 DEF Types, Publish, Tells, shared
<1>2. CASE Unpublished(d) /\ scan[d].at = "tellError"
  BY <1>2 DEF Types, Unpublished, Tells, inventory
<1>3. CASE Unpublished(d) /\ scan[d].at # "tellError"
  BY <1>3 DEF Types, Unpublished, Tells, OutOfMemory, inventory
<1> QED BY <1>1, <1>2, <1>3

\* What a directory and the directories in it are after it tells its totals.
LEMMA AfterIs ==
  ASSUME Types, Shape, NEW d \in Dirs, Tells(d)
  PROVE  /\ scan' \in [Dirs -> ScanStates]
         /\ \A x \in Dirs : /\ scan'[x].next = scan[x].next /\ scan'[x].kids = scan[x].kids
                            /\ scan'[x].total = scan[x].total
         /\ scan'[d].at = IF scan[d].at = "tellOwn" THEN "below" ELSE "done"
         /\ \A x \in Dirs \ {d} :
              scan'[x].at = IF scan[d].at = "tellOwn" /\ x \in scan[d].kids THEN "called" ELSE scan[x].at
<1> DEFINE Moved(x, at) == [scan[x] EXCEPT !.at = at]
<1>1. ASSUME NEW x \in Dirs, NEW at \in Places
      PROVE  /\ Moved(x, at) \in ScanStates /\ Moved(x, at).at = at
             /\ Moved(x, at).next = scan[x].next /\ Moved(x, at).kids = scan[x].kids
             /\ Moved(x, at).total = scan[x].total
  <2> DEFINE s == scan[x]
  <2>1. s \in ScanStates
    BY DEF Types
  <2> HIDE DEF s
  <2>2. LET r == [s EXCEPT !.at = at]
             IN  /\ r \in ScanStates /\ r.at = at /\ r.next = s.next /\ r.kids = s.kids
                 /\ r.total = s.total
    BY <2>1 DEF ScanStates
  <2> QED BY <2>2 DEF s
<1>2. {"below", "called", "done"} \subseteq Places /\ scan \in [Dirs -> ScanStates]
  BY DEF Places, Early, Reading, Told, Types
<1>5. DOMAIN scan = Dirs /\ \A x \in Dirs : scan[x] \in ScanStates
  BY <1>2
<1>3. CASE scan[d].at = "tellOwn"
  <2>1. scan' = [x \in Dirs |-> IF x = d THEN [scan[d] EXCEPT !.at = "below"]
            ELSE IF x \in scan[d].kids THEN [scan[x] EXCEPT !.at = "called"]
            ELSE scan[x]]
    BY <1>3 DEF Tells, After
  <2>2. scan' = [x \in Dirs |-> IF x = d THEN Moved(d, "below")
            ELSE IF x \in scan[d].kids THEN Moved(x, "called") ELSE scan[x]]
    BY <2>1
  <2> HIDE DEF Moved
  <2>3. scan' \in [Dirs -> ScanStates]
    BY <1>1, <1>2, <1>5, <2>2
  <2>4. \A x \in Dirs : scan'[x] = IF x = d THEN Moved(d, "below")
            ELSE IF x \in scan[d].kids THEN Moved(x, "called") ELSE scan[x]
    BY <2>2
  <2> QED BY <1>1, <1>2, <1>3, <2>3, <2>4
<1>4. CASE scan[d].at # "tellOwn"
  <2>1. scan' = [scan EXCEPT ![d].at = "done"]
    BY <1>4 DEF Tells, After
  <2>2. scan' = [scan EXCEPT ![d] = Moved(d, "done")]
    BY <2>1
  <2> HIDE DEF Moved
  <2>3. scan'[d] = Moved(d, "done") /\ \A x \in Dirs \ {d} : scan'[x] = scan[x]
    BY <1>2, <2>2
  <2>4. scan' \in [Dirs -> ScanStates]
    BY <1>1, <1>2, <2>2
  <2> QED BY <1>1, <1>2, <1>4, <2>3, <2>4
<1> QED BY <1>3, <1>4

\* What a directory is after it turns, or passes an entry, and the others are.
LEMMA PutIs ==
  ASSUME Types, NEW d \in Dirs, NEW at \in Places, NEW next \in Nat \ {0},
         NEW kids \in SUBSET Dirs, NEW total \in Totals, Puts(d, State(at, next, kids, total))
  PROVE  /\ scan' \in [Dirs -> ScanStates] /\ \A x \in Dirs \ {d} : scan'[x] = scan[x]
         /\ scan'[d].at = at /\ scan'[d].next = next /\ scan'[d].kids = kids /\ scan'[d].total = total
<1> DEFINE s == State(at, next, kids, total)
<1>1. s \in ScanStates /\ s.at = at /\ s.next = next /\ s.kids = kids /\ s.total = total
  BY DEF State, ScanStates
<1> HIDE DEF s
<1>2. scan' = [scan EXCEPT ![d] = s] /\ scan \in [Dirs -> ScanStates]
  BY DEF Puts, Types, s
<1> QED BY <1>1, <1>2

LEMMA RolledUpIs ==
  ASSUME Types, NEW d \in Dirs
  PROVE  RolledUp(d) = Rolled(scan, scan[d].total, scan[d].kids)
BY DEF RolledUp, Rolled

LEMMA RollUpIs ==
  ASSUME Types, NEW d \in Dirs, RollUp(d)
  PROVE  /\ scan' \in [Dirs -> ScanStates] /\ \A x \in Dirs \ {d} : scan'[x] = scan[x]
         /\ scan'[d].at = "tellTotal" /\ scan'[d].next = scan[d].next
         /\ scan'[d].kids = scan[d].kids /\ scan'[d].total = RolledUp(d)
         /\ RolledUp(d) \in Totals
<1>1. IsFiniteSet(scan[d].kids) /\ scan[d].total \in Totals /\ \A c \in scan[d].kids : scan[c].total \in Totals
  BY ScanIs, PathAssumption, FS_Subset
<1>2. Rolled(scan, scan[d].total, scan[d].kids) \in Totals
  <2> DEFINE Q == (SUBSET scan[d].kids) \X Totals
             b == scan[d].total
             S == scan[d].kids
  <2>1. <<{}, b>> \in Q
    BY <1>1
  <2>2. \A s \in SUBSET S, c \in S, t \in Totals :
          <<s, t>> \in Q /\ c \notin s => <<s \cup {c}, Plus(t, Subdir(scan[c].total))>> \in Q
    BY <1>1, TotalsClosed
  <2> HIDE DEF Q, b, S
  <2>3. Rolled(scan, b, S) \in Totals
    BY <1>1, <2>1, <2>2, RolledInduction DEF b, S
  <2> QED BY <2>3 DEF b, S
<1>3. RolledUp(d) \in Totals
  BY <1>2, RolledUpIs
<1> DEFINE s == scan[d]
           t == RolledUp(d)
<1>4. s = State(s.at, s.next, s.kids, s.total)
  BY ScanIs
<1>5. scan' = [scan EXCEPT ![d] = [s EXCEPT !.at = "tellTotal", !.total = t]]
  BY DEF RollUp
<1>6. [s EXCEPT !.at = "tellTotal", !.total = t] = State("tellTotal", s.next, s.kids, t)
  <2> HIDE DEF s, t
  <2>1. [s EXCEPT !.at = "tellTotal"] = State("tellTotal", s.next, s.kids, s.total)
    BY <1>4 DEF State
  <2> DEFINE r == [s EXCEPT !.at = "tellTotal"]
  <2>2. [r EXCEPT !.total = t] = State("tellTotal", s.next, s.kids, t)
    <3>1. r = State("tellTotal", s.next, s.kids, s.total)
      BY <2>1
    <3> HIDE DEF r
    <3> QED BY <3>1 DEF State
  <2> QED BY <2>2
<1>7. Puts(d, State("tellTotal", s.next, s.kids, t))
  BY <1>5, <1>6 DEF Puts
<1>8. "tellTotal" \in Places /\ s.next \in Nat \ {0} /\ s.kids \in SUBSET Dirs
  BY ScanIs DEF Places, Told
<1> HIDE DEF s, t
<1>9. t \in Totals
  BY <1>3 DEF t
<1>10. /\ scan' \in [Dirs -> ScanStates] /\ \A x \in Dirs \ {d} : scan'[x] = scan[x]
       /\ scan'[d].at = "tellTotal" /\ scan'[d].next = s.next
       /\ scan'[d].kids = s.kids /\ scan'[d].total = t
  BY <1>7, <1>8, <1>9, PutIs
<1> QED BY <1>9, <1>10 DEF s, t

LEMMA ScanStepKinds ==
  ASSUME Types, NEW d \in Dirs, ScanStep(d)
  PROVE  \/ \E at, total : TurnsTo(d, at, total)
         \/ \E kids, total : Passes(d, kids, total)
         \/ Tells(d) /\ (Publish(d) \/ Unpublished(d))
         \/ RollUp(d)
BY TurnBackTurns, ListTurns, FailTurns, LeaveTurns, BeginTurns, NoRoomTurns, ForgottenTurns,
   EndListingTurns, PassByPasses, DescendPasses, CountFilePasses, FirstLinkPasses, NextLinkPasses,
   TellIs DEF ScanStep

LEMMA TurnIs ==
  ASSUME Types, NEW d \in Dirs, NEW at, NEW total, TurnsTo(d, at, total)
  PROVE  /\ scan' \in [Dirs -> ScanStates] /\ \A x \in Dirs \ {d} : scan'[x] = scan[x]
         /\ scan'[d].at = at /\ scan'[d].next = scan[d].next /\ scan'[d].kids = scan[d].kids
         /\ scan'[d].total = total /\ at \in Places
         /\ total.alloc = scan[d].total.alloc /\ total.files = scan[d].total.files
         /\ total.dirs = scan[d].total.dirs
         /\ <<scan[d].at, at>> \in Turns /\ UNCHANGED <<arena, channel>>
<1>1. at \in Places /\ total \in Totals /\ Puts(d, State(at, scan[d].next, scan[d].kids, total))
  BY DEF TurnsTo, Turns, Places, Early, Reading, Told
<1>2. total = WithErrors(scan[d].total, total.errors) /\ scan[d].total \in Totals
  BY ScanIs DEF TurnsTo
<1>3. /\ total.alloc = scan[d].total.alloc /\ total.files = scan[d].total.files
      /\ total.dirs = scan[d].total.dirs
  BY <1>2 DEF WithErrors, Totals
<1>4. scan[d].next \in Nat \ {0} /\ scan[d].kids \in SUBSET Dirs
  BY ScanIs
<1>5. /\ scan' \in [Dirs -> ScanStates] /\ \A x \in Dirs \ {d} : scan'[x] = scan[x]
      /\ scan'[d].at = at /\ scan'[d].next = scan[d].next /\ scan'[d].kids = scan[d].kids
      /\ scan'[d].total = total
  <2> DEFINE next == scan[d].next
             kids == scan[d].kids
  <2>1. next \in Nat \ {0} /\ kids \in SUBSET Dirs /\ Puts(d, State(at, next, kids, total))
    BY <1>1, <1>4
  <2> HIDE DEF next, kids
  <2>2. /\ scan' \in [Dirs -> ScanStates] /\ \A x \in Dirs \ {d} : scan'[x] = scan[x]
        /\ scan'[d].at = at /\ scan'[d].next = next /\ scan'[d].kids = kids
        /\ scan'[d].total = total
    BY <1>1, <2>1, PutIs
  <2> QED BY <2>2 DEF next, kids
<1> QED BY <1>1, <1>3, <1>5 DEF TurnsTo

LEMMA PassIs ==
  ASSUME Types, NEW d \in Dirs, NEW kids, NEW total, Passes(d, kids, total)
  PROVE  /\ scan' \in [Dirs -> ScanStates] /\ \A x \in Dirs \ {d} : scan'[x] = scan[x]
         /\ scan'[d].at = "looking" /\ scan'[d].next = scan[d].next + 1
         /\ scan'[d].kids = scan[d].kids \cup kids /\ scan'[d].total = total /\ total \in Totals
         /\ scan[d].at = "looking" /\ kids \subseteq {Entry(d)} \cap Dirs
         /\ scan[d].next <= Len(Listing[d])
         /\ DOMAIN arena' = DOMAIN arena \cup kids
         /\ arena' \in [DOMAIN arena' -> Totals]
         /\ \A x \in DOMAIN arena \ kids : arena'[x] = arena[x]
         /\ \A x \in kids : arena'[x] = Zero
         /\ UNCHANGED channel
<1>1. /\ Puts(d, State("looking", scan[d].next + 1, scan[d].kids \cup kids, total))
      /\ total \in Totals /\ kids \subseteq {Entry(d)} \cap Dirs
      /\ arena' = [x \in DOMAIN arena \cup kids |-> IF x \in kids THEN Zero ELSE arena[x]]
  BY DEF Passes
<1>2. scan[d].next + 1 \in Nat \ {0} /\ scan[d].kids \cup kids \in SUBSET Dirs /\ "looking" \in Places
  BY <1>1, ScanIs DEF Places, Reading
<1>3. Zero \in Totals /\ arena \in [DOMAIN arena -> Totals]
  BY DEF Zero, Totals, Types
<1>4. arena' \in [DOMAIN arena' -> Totals]
  BY <1>1, <1>3
<1>5. /\ scan' \in [Dirs -> ScanStates] /\ \A x \in Dirs \ {d} : scan'[x] = scan[x]
      /\ scan'[d].at = "looking" /\ scan'[d].next = scan[d].next + 1
      /\ scan'[d].kids = scan[d].kids \cup kids /\ scan'[d].total = total
  <2>1. PICK next, all : next = scan[d].next + 1 /\ all = scan[d].kids \cup kids
    OBVIOUS
  <2>2. /\ next \in Nat \ {0} /\ all \in SUBSET Dirs /\ "looking" \in Places
        /\ total \in Totals /\ Puts(d, State("looking", next, all, total))
    BY <1>1, <1>2, <2>1
  <2>3. /\ scan' \in [Dirs -> ScanStates] /\ \A x \in Dirs \ {d} : scan'[x] = scan[x]
        /\ scan'[d].at = "looking" /\ scan'[d].next = next
        /\ scan'[d].kids = all /\ scan'[d].total = total
    BY <2>2, PutIs
  <2> QED BY <2>1, <2>3
<1> QED BY <1>1, <1>4, <1>5 DEF Passes

\* In parts.
LEMMA PassScan ==
  ASSUME Types, NEW d \in Dirs, NEW kids, NEW total, Passes(d, kids, total)
  PROVE  /\ \A x \in Dirs : x # d => scan'[x] = scan[x]
         /\ scan'[d].next = scan[d].next + 1 /\ scan'[d].total = total
<1>1. /\ \A x \in Dirs \ {d} : scan'[x] = scan[x]
      /\ scan'[d].next = scan[d].next + 1 /\ scan'[d].total = total
  BY PassIs
<1> QED BY <1>1

LEMMA PassArena ==
  ASSUME Types, NEW d \in Dirs, NEW kids, NEW total, Passes(d, kids, total)
  PROVE  DOMAIN arena' = DOMAIN arena \cup kids
BY PassIs

-----------------------------------------------------------------------------
(* Types.                                                                  *)

LEMMA TypesInit ==
  ASSUME Init
  PROVE  Types
<1>1. Zero \in Totals
  BY DEF Zero, Totals
<1>2. \A at \in Places : [Unscanned EXCEPT !.at = at] \in ScanStates
  BY <1>1 DEF Unscanned, ScanStates
<1>3. Unscanned \in ScanStates /\ "listed" \in Places
  BY <1>1 DEF Unscanned, ScanStates, Places, Early
<1>4. scan \in [Dirs -> ScanStates]
  BY <1>2, <1>3 DEF Init
<1>5. channel \in Seq(Messages) /\ Len(channel) <= ChannelCap
  BY WalkAssumption DEF Init
<1>6. DOMAIN arena \in SUBSET Dirs /\ Root \in DOMAIN arena /\ arena \in [DOMAIN arena -> Totals]
  BY <1>1, WalkAssumption DEF Init
<1>7. DOMAIN links \in SUBSET Inodes /\ links \in [DOMAIN links -> LinkStates]
  BY DEF Init
<1>8. top \in SUBSET Solid /\ Cardinality(top) <= TopN
  BY FS_EmptySet, WalkAssumption DEF Init
<1> QED BY <1>4, <1>5, <1>6, <1>7, <1>8 DEF Types, Init

Flags ==
  /\ stopped \in BOOLEAN /\ limited \in BOOLEAN
  /\ unwalked \in [excluded : Nat, aliases : Nat, mounts : Nat, dataless : Nat]
Shared ==
  /\ Flags
  /\ DOMAIN links \in SUBSET Inodes /\ links \in [DOMAIN links -> LinkStates]
  /\ top \in SUBSET Solid /\ Cardinality(top) <= TopN

LEMMA TypesTurn ==
  ASSUME Types, NEW d \in Dirs, NEW at, NEW total, TurnsTo(d, at, total), Flags',
         DOMAIN links' \in SUBSET Inodes /\ links' \in [DOMAIN links' -> LinkStates]
  PROVE  Types'
<1>1. scan' \in [Dirs -> ScanStates]
  BY TurnIs
<1> QED BY <1>1 DEF Types, TurnsTo, Flags

LEMMA TypesPass ==
  ASSUME Types, NEW d \in Dirs, NEW kids, NEW total, Passes(d, kids, total), Shared'
  PROVE  Types'
<1>1. /\ scan' \in [Dirs -> ScanStates] /\ DOMAIN arena' = DOMAIN arena \cup kids
      /\ arena' \in [DOMAIN arena' -> Totals] /\ kids \subseteq Dirs
  BY PassIs
<1> QED BY <1>1 DEF Types, Passes, Shared, Flags

LEMMA TypesScan ==
  ASSUME Types, NEW d \in Dirs, ScanStep(d)
  PROVE  Types'
<1> USE DEF Types
<1>1. CASE TurnBack(d)
  BY <1>1, TurnBackTurns, TypesTurn DEF Flags
<1>2. ASSUME NEW outcome, List(d, outcome) PROVE Types'
  BY <1>2, ListTurns, TypesTurn DEF Flags, shared
<1>3. ASSUME NEW outcome, Fail(d, outcome) PROVE Types'
  BY <1>3, FailTurns, TypesTurn DEF Flags
<1>4. ASSUME NEW outcome, Leave(d, outcome) PROVE Types'
  BY <1>4, LeaveTurns, TypesTurn DEF Flags
<1>5. CASE Begin(d)
  BY <1>5, BeginTurns, TypesTurn DEF Flags
<1>6. CASE PassBy(d)
  BY <1>6, PassByPasses, TypesPass DEF Shared, Flags
<1>7. CASE Descend(d)
  BY <1>7, DescendPasses, TypesPass DEF Shared, Flags
<1>8. CASE NoRoom(d)
  BY <1>8, NoRoomTurns, TypesTurn DEF Flags
<1>9. CASE CountFile(d)
  BY <1>9, CountFilePasses, TypesPass DEF Shared, Flags, OutOfMemory
<1>10. CASE FirstLink(d)
  BY <1>10, FirstLinkPasses, TypesPass DEF Shared, Flags
<1>11. CASE NextLink(d)
  <2> DEFINE i == Inode[Entry(d)]
  <2>1. links' \in [DOMAIN links -> LinkStates]
    <3> DEFINE l == Taken(links[i], d, Entry(d))
    <3>1. i \in DOMAIN links /\ l \in LinkStates /\ links' = [links EXCEPT ![i] = l]
      BY <1>11, NextLinkPasses
    <3> HIDE DEF l, i
    <3> QED BY <3>1
  <2>2. DOMAIN links' = DOMAIN links
    BY <2>1
  <2> QED BY <1>11, <2>1, <2>2, NextLinkPasses, TypesPass DEF Shared, Flags
<1>12. CASE LinkForgotten(d)
  <2> DEFINE i == Inode[Entry(d)]
  <2>1. links' \in [DOMAIN links -> LinkStates]
    <3>1. CASE links' = links
      BY <3>1
    <3>2. CASE links' # links
      <4> DEFINE l == [links[i] EXCEPT !.seen = @ + 1]
      <4>1. i \in DOMAIN links /\ links'[i] \in LinkStates /\ links' = [links EXCEPT ![i] = l]
        BY <1>12, <3>2, ForgottenLinks
      <4> HIDE DEF l, i
      <4> QED BY <4>1
    <3> QED BY <3>1, <3>2
  <2>2. DOMAIN links' = DOMAIN links
    BY <2>1
  <2> QED BY <1>12, <2>1, <2>2, ForgottenTurns, TypesTurn DEF Flags
<1>13. CASE EndListing(d)
  BY <1>13, EndListingTurns, TypesTurn DEF Flags, shared
<1>14. CASE Publish(d) \/ Unpublished(d)
  <2> DEFINE m == [dir |-> d, totals |-> scan[d].total, last |-> scan[d].at # "tellOwn"]
  <2>1. m \in Messages
    BY ScanIs DEF Messages
  <2>2. channel' \in Seq(Messages) /\ Len(channel') <= ChannelCap
    <3>1. channel' = channel \/ (channel' = Append(channel, m) /\ Len(channel) < ChannelCap)
      BY <1>14, TellIs
    <3>2. ChannelCap \in Nat /\ Len(channel) \in Nat
      BY WalkAssumption
    <3> HIDE DEF m
    <3> QED BY <2>1, <3>1, <3>2
  <2>3. scan' \in [Dirs -> ScanStates]
    <3>1. \A x \in Dirs, at \in Places : [scan[x] EXCEPT !.at = at] \in ScanStates
      <4>1. \A s \in ScanStates, at \in Places : [s EXCEPT !.at = at] \in ScanStates
        BY DEF ScanStates
      <4> QED BY <4>1
    <3>2. {"below", "called", "done"} \subseteq Places
      BY DEF Places, Early, Told
    <3>3. scan' = After(d)
      BY <1>14 DEF Publish, Unpublished
    <3>4. CASE scan[d].at = "tellOwn"
      BY <3>1, <3>2, <3>3, <3>4 DEF After
    <3>5. CASE scan[d].at # "tellOwn"
      <4>1. scan' = [scan EXCEPT ![d] = [scan[d] EXCEPT !.at = "done"]]
        BY <3>3, <3>5 DEF After
      <4> QED BY <3>1, <3>2, <4>1
    <3> QED BY <3>4, <3>5
  <2> QED BY <1>14, <2>2, <2>3, TellIs DEF Tells
<1>15. CASE RollUp(d)
  BY <1>15, RollUpIs DEF RollUp, shared, inventory
<1> QED BY <1>1, <1>2, <1>3, <1>4, <1>5, <1>6, <1>7, <1>8, <1>9, <1>10, <1>11, <1>12, <1>13, <1>14, <1>15 DEF ScanStep

LEMMA RollupClosed ==
  ASSUME NEW D, NEW a \in [D -> Totals], NEW d \in D, NEW totals \in Totals
  PROVE  /\ Rollup(a, d, totals) \in [D -> Totals] /\ DOMAIN Rollup(a, d, totals) = D
         /\ \A x \in D : Rollup(a, d, totals)[x] =
              IF x = d THEN totals ELSE IF x \in Line[d] THEN Plus(Minus(a[x], a[d]), totals) ELSE a[x]
<1>1. ASSUME NEW x \in D PROVE a[x] \in Totals /\ Plus(Minus(a[x], a[d]), totals) \in Totals
  <2>1. a[x] \in Totals /\ a[d] \in Totals
    OBVIOUS
  <2>2. Minus(a[x], a[d]) \in Totals
    BY <2>1, TotalsClosed
  <2> QED BY <2>1, <2>2, TotalsClosed
<1> QED BY <1>1 DEF Rollup

\* Messages are of directories in the inventory.
Sent == \A k \in DOMAIN channel : channel[k].dir \in DOMAIN arena

LEMMA SettledIs ==
  Settled(arena) = Settling(links, arena, {i \in DOMAIN links : links[i].owner # links[i].charged})
BY DEF Settled, Settling

LEMMA SettledClosed ==
  ASSUME Types
  PROVE  Settled(arena) \in [DOMAIN arena -> Totals]
<1> DEFINE S == {i \in DOMAIN links : links[i].owner # links[i].charged}
           D == DOMAIN arena
           W == [D -> Totals]
           Q == (SUBSET S) \X W
<1>1. S \subseteq Inodes /\ IsFiniteSet(S) /\ arena \in W
  BY InodesAre, FS_Subset DEF Types
<1>2. <<{}, arena>> \in Q
  BY <1>1
<1>3. \A s \in SUBSET S, i \in S, a \in W :
        <<s, a>> \in Q /\ i \notin s =>
             <<s \cup {i}, Transferred(a, In(links[i].charged), In(links[i].owner), i)>> \in Q
  BY <1>1, TransferredClosed
<1> HIDE DEF S, D, Q
<1>4. Settling(links, arena, S) \in W
  BY <1>1, <1>2, <1>3, SettlingInduction
<1> QED BY <1>4, SettledIs DEF S, W, D

LEMMA WithLinksIs ==
  ASSUME NEW offers
  PROVE  WithLinks(offers) = Offering(top, offers)
BY DEF WithLinks, Offering

LEMMA LinkTopsAre ==
  ASSUME Types
  PROVE  LinkTops \subseteq Files /\ IsFiniteSet(LinkTops)
<1>1. LinkTops \subseteq Files
  BY DEF Types, LinkTops, LinkStates
<1> QED BY <1>1, InodesAre, FS_Subset

LEMMA WithLinksFits ==
  ASSUME Types, NEW offers, offers \subseteq LinkTops
  PROVE  WithLinks(offers) \in SUBSET Solid /\ Cardinality(WithLinks(offers)) <= TopN
<1> DEFINE W == SUBSET Solid
           Q == {p \in (SUBSET offers) \X W : Cardinality(p[2]) <= TopN}
<1>1. offers \subseteq Files /\ IsFiniteSet(offers) /\ top \in W /\ Cardinality(top) <= TopN
  BY LinkTopsAre, FS_Subset DEF Types
<1>2. <<{}, top>> \in Q
  BY <1>1
<1>3. \A s \in SUBSET offers, f \in offers, t \in W :
        <<s, t>> \in Q /\ f \notin s => <<s \cup {f}, Offered(t, f)>> \in Q
  BY <1>1, OfferedFits
<1>4. Offering(top, offers) \in W /\ <<offers, Offering(top, offers)>> \in Q
  <2> HIDE DEF Q
  <2> QED BY <1>1, <1>2, <1>3, OfferingInduction
<1> QED BY <1>4, WithLinksIs

LEMMA ChannelParts ==
  ASSUME Types, channel # <<>>
  PROVE  /\ Head(channel) = channel[1] /\ Head(channel) \in Messages /\ 1 \in DOMAIN channel
         /\ Tail(channel) \in Seq(Messages) /\ Len(Tail(channel)) = Len(channel) - 1
         /\ DOMAIN channel = 1..Len(channel) /\ Len(channel) \in Nat \ {0}
         /\ DOMAIN Tail(channel) = 1..(Len(channel) - 1)
         /\ \A k \in 1..(Len(channel) - 1) : k + 1 \in DOMAIN channel /\ Tail(channel)[k] = channel[k + 1]
<1>1. channel \in Seq(Messages)
  BY DEF Types
<1>2. Len(channel) \in Nat \ {0} /\ DOMAIN channel = 1..Len(channel)
  BY <1>1
<1>3. Head(channel) = channel[1] /\ 1 \in DOMAIN channel /\ channel[1] \in Messages
  BY <1>1, <1>2
<1>4. Tail(channel) \in Seq(Messages) /\ Len(Tail(channel)) = Len(channel) - 1
  BY <1>1
<1>5. \A k \in 1..(Len(channel) - 1) : k + 1 \in DOMAIN channel /\ Tail(channel)[k] = channel[k + 1]
  BY <1>1, <1>2
<1> QED BY <1>2, <1>3, <1>4, <1>5

LEMMA AggregateIs ==
  ASSUME Types, Sent, Aggregate
  PROVE  LET m == Head(channel)
         IN  /\ m \in Messages /\ m.dir \in DOMAIN arena /\ m.totals \in Totals
             /\ arena' \in [DOMAIN arena -> Totals] /\ DOMAIN arena' = DOMAIN arena
             /\ \A x \in DOMAIN arena :
                  arena'[x] = IF x = m.dir THEN m.totals
                              ELSE IF x \in Line[m.dir] THEN Plus(Minus(arena[x], arena[m.dir]), m.totals)
                              ELSE arena[x]
<1> DEFINE m == Head(channel)
<1>1. m \in Messages /\ m.dir \in DOMAIN arena /\ m.totals \in Totals
  BY ChannelParts DEF Aggregate, Sent, Messages
<1>2. arena' = Rollup(arena, m.dir, m.totals) /\ arena \in [DOMAIN arena -> Totals]
  BY DEF Aggregate, Types
<1> HIDE DEF m
<1>3. /\ Rollup(arena, m.dir, m.totals) \in [DOMAIN arena -> Totals]
      /\ DOMAIN Rollup(arena, m.dir, m.totals) = DOMAIN arena
      /\ \A x \in DOMAIN arena :
                  Rollup(arena, m.dir, m.totals)[x] = IF x = m.dir THEN m.totals
                              ELSE IF x \in Line[m.dir] THEN Plus(Minus(arena[x], arena[m.dir]), m.totals)
                              ELSE arena[x]
  BY <1>1, <1>2, RollupClosed
<1> QED BY <1>1, <1>2, <1>3 DEF m

LEMMA TypesNext ==
  ASSUME Types, Sent, [Next]_vars
  PROVE  Types'
<1>1. CASE \E d \in Dirs : ScanStep(d)
  BY <1>1, TypesScan
<1>2. CASE Aggregate
  <2>1. arena' \in [DOMAIN arena -> Totals] /\ DOMAIN arena' = DOMAIN arena
    BY <1>2, AggregateIs
  <2>2. channel' \in Seq(Messages) /\ Len(channel') = Len(channel) - 1 /\ Len(channel) \in Nat
    BY <1>2, ChannelParts DEF Aggregate
  <2>3. ChannelCap \in Nat
    BY WalkAssumption
  <2>4. Len(channel') <= ChannelCap
    BY <2>2, <2>3 DEF Types
  <2> QED BY <1>2, <2>1, <2>2, <2>4 DEF Types, Aggregate, shared
<1>3. CASE CloseUpdates
  BY <1>3 DEF Types, CloseUpdates, shared
<1>4. CASE EndAggregator
  BY <1>4 DEF Types, EndAggregator, shared
<1>5. CASE Conclude
  <2>1. PICK refused \in SUBSET {f \in LinkTops : ~IsEmpty(f)} :
         /\ top' = WithLinks(LinkTops \ refused)
         /\ stopped' = (stopped \/ refused # {})
         /\ limited' = (limited \/ refused # {})
    BY <1>5 DEF Conclude
  <2>2. top' \in SUBSET Solid /\ Cardinality(top') <= TopN
    BY <2>1, WithLinksFits
  <2>3. arena' \in [DOMAIN arena -> Totals] /\ DOMAIN arena' = DOMAIN arena
    BY <1>5, SettledClosed DEF Conclude
  <2>4. UNCHANGED <<scan, cancelled, unwalked, links, channel>>
    BY <1>5 DEF Conclude
  <2>5. stopped' \in BOOLEAN /\ limited' \in BOOLEAN
    BY <2>1 DEF Types
  <2> QED BY <2>2, <2>3, <2>4, <2>5 DEF Types
<1>6. CASE Cancel
  BY <1>6 DEF Types, Cancel, shared, inventory
<1>7. CASE UNCHANGED vars
  BY <1>7 DEF Types, vars, shared, inventory
<1> QED BY <1>1, <1>2, <1>3, <1>4, <1>5, <1>6, <1>7 DEF Next, EndSteps

LEMMA PastSame ==
  ASSUME NEW x, scan'[x].next = scan[x].next
  PROVE  Past(x)' = Past(x)
BY DEF Past

LEMMA PastGrows ==
  ASSUME Types, NEW d \in Dirs, scan'[d].next = scan[d].next + 1
  PROVE  Past(d)' = Past(d) \cup {Entry(d)}
<1>1. scan[d].next \in Nat \ {0}
  BY ScanIs
<1>2. 1..(scan[d].next + 1 - 1) = 1..(scan[d].next - 1) \cup {scan[d].next}
  BY <1>1
<1> QED BY <1>1, <1>2 DEF Past, Entry

LEMMA ShapeInit ==
  ASSUME Init
  PROVE  Shape
<1>1. Root \in Dirs /\ \A d \in Dirs : Len(Listing[d]) \in Nat
  BY WalkAssumption, ListingIs
<1>2. \A d \in Dirs : /\ scan[d].at = IF d = Root THEN "listed" ELSE "none"
                      /\ scan[d].next = 1 /\ scan[d].kids = {}
  BY DEF Init, Unscanned
<1>3. DOMAIN arena = {Root}
  BY DEF Init
<1> QED BY <1>1, <1>2, <1>3 DEF Shape, Early, Told, Summed

LEMMA KidIs ==
  ASSUME Types, Shape, NEW d \in Dirs, NEW c \in scan[d].kids
  PROVE  /\ c \in Dirs /\ c \in DOMAIN arena /\ c # Root /\ Up(c) = d /\ c # d
         /\ scan[d].at \notin Early /\ c \in Past(d) /\ c \in Listed(d)
<1>1. c \in Past(d) /\ c \in DOMAIN arena /\ c \in Dirs
  BY ScanIs DEF Shape
<1>2. scan[d].at \notin Early
  BY <1>1, PastIs DEF Shape
<1> QED BY <1>1, <1>2, PastIs

\* A directory that is scanned is in the inventory.
LEMMA ScannedIs ==
  ASSUME Types, Shape, NEW d \in Dirs, scan[d].at # "none"
  PROVE  d \in DOMAIN arena
<1>1. d # Root => d \in scan[Up(d)].kids /\ Up(d) \in Dirs
  BY UpIs DEF Shape
<1> QED BY <1>1, KidIs DEF Types

LEMMA ShapeTurn ==
  ASSUME Types, Shape, NEW d \in Dirs, NEW at, NEW total, TurnsTo(d, at, total)
  PROVE  Shape'
<1>1. /\ \A x \in Dirs \ {d} : scan'[x] = scan[x]
      /\ scan'[d].at = at /\ scan'[d].next = scan[d].next /\ scan'[d].kids = scan[d].kids
      /\ <<scan[d].at, at>> \in Turns /\ arena' = arena
  BY TurnIs
<1>2. /\ scan[d].at \in {"called", "listed", "looking"}
      /\ at # "none" /\ at # "called" /\ (at = "done" => scan[d].at \in Early)
      /\ (at \in Early => scan[d].at \in Early) /\ at \notin {"below", "tellTotal"}
  BY <1>1 DEF Turns, Early
<1>3. \A x \in Dirs : /\ scan'[x].next = scan[x].next /\ scan'[x].kids = scan[x].kids
                      /\ Past(x)' = Past(x)
  BY <1>1, PastSame
<1>4. \A c \in scan[d].kids : scan[d].at \notin Early /\ c # d /\ Up(c) = d /\ c # Root
  BY KidIs
<1>5. \A d_1 \in Dirs : scan'[d_1].at \in Early => scan'[d_1].next = 1
  BY <1>1, <1>2, <1>3 DEF Shape
<1>6. ASSUME NEW x \in Dirs, x # Root, scan'[x].at # "none"
      PROVE  x \in scan'[Up(x)].kids /\ scan'[Up(x)].at \in Told
  <2>1. scan[x].at # "none" /\ Up(x) \in Dirs
    BY <1>1, <1>2, <1>6, UpIs
  <2>2. x \in scan[Up(x)].kids /\ scan[Up(x)].at \in Told
    BY <1>6, <2>1 DEF Shape
  <2>3. Up(x) # d
    BY <1>2, <2>2 DEF Told
  <2> QED BY <1>1, <2>1, <2>2, <2>3
<1>7. ASSUME NEW x \in Dirs, scan'[x].at \in Told, NEW c \in scan'[x].kids
      PROVE  scan'[c].at # "none" /\ (scan'[x].at \in Summed => scan'[c].at = "done")
  <2>1. x # d
    BY <1>1, <1>2, <1>4, <1>7 DEF Told
  <2>2. scan[c].at # "none" /\ (scan[x].at \in Summed => scan[c].at = "done") /\ c \in Dirs
    BY <1>1, <1>7, <2>1, KidIs DEF Shape
  <2>3. scan'[x].at = scan[x].at
    BY <1>1, <2>1
  <2>4. CASE c = d
    BY <1>1, <1>2, <2>2, <2>3, <2>4
  <2>5. CASE c # d
    BY <1>1, <2>2, <2>3, <2>5
  <2> QED BY <2>4, <2>5
<1>8. scan'[Root].at \notin {"none", "called"}
  BY <1>1, <1>2, WalkAssumption DEF Shape
<1>9. /\ \A x \in Dirs : scan'[x].next <= Len(Listing[x]) + 1
      /\ \A x \in Dirs : scan'[x].kids \subseteq Past(x)' \cap DOMAIN arena'
      /\ \A x \in DOMAIN arena' : x # Root => x \in scan'[Up(x)].kids
  <2>1. \A x \in DOMAIN arena : x # Root => Up(x) \in Dirs
    BY UpIs DEF Types
  <2> QED BY <1>1, <1>3, <2>1 DEF Shape
<1>10. \A x \in Dirs : scan'[x].at \in Summed => scan'[x].at \in Told
  BY DEF Summed, Told
<1> QED BY <1>5, <1>6, <1>7, <1>8, <1>9, <1>10 DEF Shape

LEMMA ShapePass ==
  ASSUME Types, Shape, NEW d \in Dirs, NEW kids, NEW total, Passes(d, kids, total)
  PROVE  Shape'
<1>1. /\ \A x \in Dirs \ {d} : scan'[x] = scan[x]
      /\ scan'[d].at = "looking" /\ scan'[d].next = scan[d].next + 1
      /\ scan'[d].kids = scan[d].kids \cup kids
      /\ scan[d].at = "looking" /\ kids \subseteq {Entry(d)} \cap Dirs
      /\ scan[d].next <= Len(Listing[d]) /\ DOMAIN arena' = DOMAIN arena \cup kids
  BY PassIs
<1>2. Past(d)' = Past(d) \cup {Entry(d)} /\ \A x \in Dirs \ {d} : Past(x)' = Past(x)
  BY <1>1, PastGrows, PastSame
<1>3. \A c \in kids : c # Root /\ Up(c) = d /\ c # d
  BY <1>1, EntryIs
<1>4. "looking" \notin Early /\ "looking" \notin Told /\ "looking" \notin Summed
  BY DEF Early, Told, Summed
<1>5. \A x \in Dirs : scan'[x].next <= Len(Listing[x]) + 1
  BY <1>1, ScanIs, ListingIs DEF Shape
<1>6. \A x \in Dirs : scan'[x].kids \subseteq Past(x)' \cap DOMAIN arena'
  BY <1>1, <1>2 DEF Shape
<1>7. \A x \in Dirs : scan'[x].at \in Early => scan'[x].next = 1
  BY <1>1, <1>4 DEF Shape
<1>8. \A x \in DOMAIN arena' : x # Root => x \in scan'[Up(x)].kids
  <2>1. ASSUME NEW x \in DOMAIN arena, x # Root PROVE x \in scan'[Up(x)].kids
    <3>1. Up(x) \in Dirs /\ x \in scan[Up(x)].kids
      BY <2>1, UpIs DEF Types, Shape
    <3> QED BY <1>1, <3>1
  <2> QED BY <1>1, <1>3, <2>1
<1>9. ASSUME NEW x \in Dirs, x # Root, scan'[x].at # "none"
      PROVE  x \in scan'[Up(x)].kids /\ scan'[Up(x)].at \in Told
  <2>1. scan[x].at # "none" /\ Up(x) \in Dirs
    BY <1>1, <1>9, UpIs
  <2>2. x \in scan[Up(x)].kids /\ scan[Up(x)].at \in Told
    BY <1>9, <2>1 DEF Shape
  <2>3. Up(x) # d
    BY <1>1, <1>4, <2>2
  <2> QED BY <1>1, <2>1, <2>2, <2>3
<1>10. ASSUME NEW x \in Dirs, scan'[x].at \in Told, NEW c \in scan'[x].kids
      PROVE  scan'[c].at # "none" /\ (scan'[x].at \in Summed => scan'[c].at = "done")
  <2>1. x # d
    BY <1>1, <1>4, <1>10
  <2>2. scan[c].at # "none" /\ (scan[x].at \in Summed => scan[c].at = "done") /\ c \in Dirs
    BY <1>1, <1>10, <2>1, KidIs DEF Shape
  <2>3. scan'[x].at = scan[x].at
    BY <1>1, <2>1
  <2> QED BY <1>1, <2>2, <2>3
<1>11. scan'[Root].at \notin {"none", "called"}
  BY <1>1, WalkAssumption DEF Shape
<1>12. \A x \in Dirs : scan'[x].at \in Summed => scan'[x].at \in Told
  BY DEF Summed, Told
<1> QED BY <1>5, <1>6, <1>7, <1>8, <1>9, <1>10, <1>11, <1>12 DEF Shape

LEMMA ShapeTell ==
  ASSUME Types, Shape, NEW d \in Dirs, Tells(d)
  PROVE  Shape'
<1>1. /\ \A x \in Dirs : /\ scan'[x].next = scan[x].next /\ scan'[x].kids = scan[x].kids
      /\ scan'[d].at = IF scan[d].at = "tellOwn" THEN "below" ELSE "done"
      /\ \A x \in Dirs \ {d} :
           scan'[x].at = IF scan[d].at = "tellOwn" /\ x \in scan[d].kids THEN "called" ELSE scan[x].at
      /\ arena' = arena /\ scan[d].at \in Telling
  BY AfterIs DEF Tells
<1>2. \A x \in Dirs : Past(x)' = Past(x)
  BY <1>1, PastSame
<1>3. \A c \in scan[d].kids : c \in Dirs /\ c # d /\ Up(c) = d /\ c # Root
  BY KidIs
<1>4. ASSUME scan[d].at = "tellOwn", NEW c \in scan[d].kids
      PROVE  scan[c].at = "none" /\ scan'[c].at = "called" /\ scan[c].next = 1 /\ scan[c].kids = {}
  <2>1. c \in Dirs /\ Up(c) = d /\ c # Root /\ c # d
    BY <1>3
  <2>2. scan[c].at = "none"
    BY <1>4, <2>1 DEF Shape, Told
  <2>3. scan[c].next = 1 /\ scan[c].kids = {}
    BY <2>1, <2>2, PastIs DEF Shape, Early
  <2> QED BY <1>1, <1>4, <2>1, <2>2, <2>3
<1>5. /\ \A x \in Dirs : scan'[x].next <= Len(Listing[x]) + 1
      /\ \A x \in Dirs : scan'[x].kids \subseteq Past(x)' \cap DOMAIN arena'
  BY <1>1, <1>2 DEF Shape
<1>6. \A x \in DOMAIN arena' : x # Root => x \in scan'[Up(x)].kids
  <2>1. \A x \in DOMAIN arena : x # Root => Up(x) \in Dirs /\ x \in scan[Up(x)].kids
    BY UpIs DEF Types, Shape
  <2> QED BY <1>1, <2>1
<1>7. \A x \in Dirs : scan'[x].at \in Early => scan'[x].next = 1
  <2>1. scan'[d].at \notin Early
    BY <1>1 DEF Early
  <2>2. ASSUME NEW x \in Dirs \ {d}, scan'[x].at \in Early PROVE scan'[x].next = 1
    BY <1>1, <1>4, <2>2 DEF Shape
  <2> QED BY <2>1, <2>2
<1>8. \A x \in Dirs : scan[x].at \in Told => scan'[x].at = scan[x].at \/ (x = d /\ scan[d].at = "tellTotal" /\ scan'[d].at = "done")
  <2>1. ASSUME NEW x \in Dirs \ {d}, scan[x].at \in Told PROVE scan'[x].at = scan[x].at
    BY <1>1, <1>4, <2>1 DEF Told
  <2>2. scan[d].at \in Told => scan[d].at = "tellTotal" /\ scan'[d].at = "done"
    BY <1>1 DEF Told, Telling
  <2> QED BY <2>1, <2>2
<1>9. ASSUME NEW x \in Dirs, x # Root, scan'[x].at # "none"
      PROVE  x \in scan'[Up(x)].kids /\ scan'[Up(x)].at \in Told
  <2>1. Up(x) \in Dirs
    BY <1>9, UpIs
  <2>2. CASE scan[d].at = "tellOwn" /\ x \in scan[d].kids
    BY <1>1, <1>3, <2>2 DEF Told
  <2>3. CASE ~(scan[d].at = "tellOwn" /\ x \in scan[d].kids)
    <3>1. scan[x].at # "none"
      BY <1>1, <1>9, <2>3 DEF Telling
    <3>2. x \in scan[Up(x)].kids /\ scan[Up(x)].at \in Told
      BY <1>9, <3>1 DEF Shape
    <3> QED BY <1>1, <1>8, <2>1, <3>2 DEF Told
  <2> QED BY <2>2, <2>3
<1>10. ASSUME NEW x \in Dirs, scan'[x].at \in Told, NEW c \in scan'[x].kids
      PROVE  scan'[c].at # "none" /\ (scan'[x].at \in Summed => scan'[c].at = "done")
  <2>1. c \in scan[x].kids /\ c \in Dirs /\ c # x /\ Up(c) = x /\ scan[x].at \notin Early
    BY <1>1, <1>10, KidIs
  <2>2. CASE x = d /\ scan[d].at = "tellOwn"
    BY <1>1, <1>4, <2>1, <2>2 DEF Summed
  <2>3. CASE x = d /\ scan[d].at # "tellOwn"
    <3>1. scan[d].at = "tellTotal"
      BY <1>1, <2>1, <2>3 DEF Telling, Early
    <3>2. scan[c].at = "done"
      BY <2>1, <2>3, <3>1 DEF Shape, Summed
    <3> QED BY <1>1, <2>1, <2>3, <3>1, <3>2
  <2>4. CASE x # d
    <3>1. scan[x].at = scan'[x].at
      <4>1. CASE scan[d].at = "tellOwn" /\ x \in scan[d].kids
        BY <1>1, <1>10, <2>4, <4>1 DEF Told
      <4> QED BY <1>1, <2>4, <4>1
    <3>2. scan[c].at # "none" /\ (scan[x].at \in Summed => scan[c].at = "done")
      BY <1>10, <2>1, <3>1 DEF Shape
    <3>3. CASE c = d
      BY <1>1, <2>1, <3>1, <3>2, <3>3 DEF Telling
    <3>4. CASE c # d
      <4>1. c \notin scan[d].kids
        BY <1>3, <2>1, <2>4
      <4> QED BY <1>1, <2>1, <3>1, <3>2, <3>4, <4>1
    <3> QED BY <3>3, <3>4
  <2> QED BY <2>2, <2>3, <2>4
<1>11. scan'[Root].at \notin {"none", "called"}
  <2>1. Root \in Dirs /\ Root \notin scan[d].kids
    BY <1>3, WalkAssumption
  <2> QED BY <1>1, <2>1 DEF Shape
<1>12. \A x \in Dirs : scan'[x].at \in Summed => scan'[x].at \in Told
  BY DEF Summed, Told
<1> QED BY <1>5, <1>6, <1>7, <1>9, <1>10, <1>11, <1>12 DEF Shape

LEMMA ShapeRollUp ==
  ASSUME Types, Shape, NEW d \in Dirs, RollUp(d)
  PROVE  Shape'
<1>1. /\ \A x \in Dirs \ {d} : scan'[x] = scan[x]
      /\ scan'[d].at = "tellTotal" /\ scan'[d].next = scan[d].next
      /\ scan'[d].kids = scan[d].kids /\ arena' = arena
      /\ scan[d].at = "below" /\ \A c \in scan[d].kids : scan[c].at = "done"
  BY RollUpIs DEF RollUp, inventory
<1>2. \A x \in Dirs : /\ scan'[x].next = scan[x].next /\ scan'[x].kids = scan[x].kids
                      /\ Past(x)' = Past(x)
  BY <1>1, PastSame
<1>3. \A c \in scan[d].kids : c \in Dirs /\ c # d
  BY KidIs
<1>4. \A x \in Dirs : /\ scan'[x].at \in Early => scan[x].at \in Early
                      /\ scan'[x].at # "none" => scan[x].at # "none"
                      /\ scan[x].at # "none" => scan'[x].at # "none"
                      /\ scan[x].at \in Told => scan'[x].at \in Told
                      /\ scan'[x].at \in Told => scan[x].at \in Told
                      /\ scan'[x].at = "done" <=> scan[x].at = "done"
  BY <1>1 DEF Early, Told
<1>5. /\ \A x \in Dirs : scan'[x].next <= Len(Listing[x]) + 1
      /\ \A x \in Dirs : scan'[x].kids \subseteq Past(x)' \cap DOMAIN arena'
      /\ \A x \in Dirs : scan'[x].at \in Early => scan'[x].next = 1
  BY <1>1, <1>2, <1>4 DEF Shape
<1>6. \A x \in Dirs : x # Root => Up(x) \in Dirs
  BY UpIs
<1>7. /\ \A x \in DOMAIN arena' : x # Root => x \in scan'[Up(x)].kids
      /\ \A x \in Dirs : x # Root /\ scan'[x].at # "none" =>
           x \in scan'[Up(x)].kids /\ scan'[Up(x)].at \in Told
  BY <1>1, <1>2, <1>4, <1>6 DEF Shape, Types
<1>8. \A x \in Dirs : scan'[x].at \in Told => \A c \in scan'[x].kids : scan'[c].at # "none"
  BY <1>2, <1>4, KidIs DEF Shape
<1>9. \A x \in Dirs : scan'[x].at \in Summed => \A c \in scan'[x].kids : scan'[c].at = "done"
  <2>1. ASSUME NEW x \in Dirs, scan'[x].at \in Summed, NEW c \in scan[x].kids PROVE scan[c].at = "done"
    BY <1>1, <2>1 DEF Shape
  <2> QED BY <1>2, <1>4, <2>1, KidIs
<1>10. scan'[Root].at \notin {"none", "called"}
  BY <1>1, WalkAssumption DEF Shape
<1> QED BY <1>5, <1>7, <1>8, <1>9, <1>10 DEF Shape

\* When no directory's scan goes on.
LEMMA ShapeStill ==
  ASSUME Types, Shape, UNCHANGED scan, DOMAIN arena' = DOMAIN arena
  PROVE  Shape'
<1>1. \A x : Past(x)' = Past(x)
  BY PastSame
<1> QED BY <1>1 DEF Shape

LEMMA ScanStepShape ==
  ASSUME Types, Shape, NEW d \in Dirs, ScanStep(d)
  PROVE  Shape'
BY ScanStepKinds, ShapeTurn, ShapePass, ShapeTell, ShapeRollUp

\* The steps besides those of the scans.
LEMMA OtherSteps ==
  ASSUME Types, Sent, Aggregate \/ EndSteps \/ Cancel \/ UNCHANGED vars
  PROVE  /\ UNCHANGED <<scan, seenDirs, links>> /\ DOMAIN arena' = DOMAIN arena
         /\ \/ channel' = channel
            \/ channel # <<>> /\ channel' = Tail(channel)
<1>1. CASE Aggregate
  BY <1>1, AggregateIs DEF Aggregate, shared
<1>2. CASE CloseUpdates
  BY <1>2 DEF CloseUpdates, shared
<1>3. CASE EndAggregator
  BY <1>3 DEF EndAggregator, shared
<1>4. CASE Conclude
  <2>1. DOMAIN arena' = DOMAIN arena
    BY <1>4, SettledClosed DEF Conclude
  <2> QED BY <1>4, <2>1 DEF Conclude
<1>5. CASE Cancel
  BY <1>5 DEF Cancel, shared, inventory
<1>6. CASE UNCHANGED vars
  BY <1>6 DEF vars, shared, inventory
<1> QED BY <1>1, <1>2, <1>3, <1>4, <1>5, <1>6 DEF EndSteps

LEMMA NextSplits ==
  ASSUME [Next]_vars
  PROVE  (\E d \in Dirs : ScanStep(d)) \/ (Aggregate \/ EndSteps \/ Cancel \/ UNCHANGED vars)
BY DEF Next

LEMMA ShapeNext ==
  ASSUME Types, Shape, Sent, [Next]_vars
  PROVE  Shape'
BY NextSplits, ScanStepShape, OtherSteps, ShapeStill

LEMMA SentNext ==
  ASSUME Types, Shape, Sent, [Next]_vars
  PROVE  Sent'
<1>1. ASSUME NEW d \in Dirs, ScanStep(d) PROVE Sent'
  <2>1. ASSUME channel' = channel, DOMAIN arena \subseteq DOMAIN arena' PROVE Sent'
    BY <2>1 DEF Sent
  <2>2. ASSUME NEW at, NEW total, TurnsTo(d, at, total) PROVE Sent'
    BY <2>1, <2>2, TurnIs
  <2>3. ASSUME NEW kids, NEW total, Passes(d, kids, total) PROVE Sent'
    BY <2>1, <2>3, PassIs
  <2>4. CASE RollUp(d)
    BY <2>1, <2>4 DEF RollUp, inventory
  <2>5. CASE Tells(d) /\ (Publish(d) \/ Unpublished(d))
    <3> DEFINE m == [dir |-> d, totals |-> scan[d].total, last |-> scan[d].at # "tellOwn"]
    <3>1. channel' = channel \/ channel' = Append(channel, m)
      BY <2>5, TellIs
    <3>2. d \in DOMAIN arena /\ arena' = arena
      BY <2>5, ScannedIs DEF Tells, Telling
    <3>3. m.dir = d /\ channel \in Seq(Messages)
      BY DEF Types
    <3>4. CASE channel' = Append(channel, m)
      <4>1. DOMAIN channel' = 1..(Len(channel) + 1) /\ DOMAIN channel = 1..Len(channel) /\ Len(channel) \in Nat
        BY <3>3, <3>4
      <4>2. channel'[Len(channel) + 1] = m /\ \A k \in 1..Len(channel) : channel'[k] = channel[k]
        <5> HIDE DEF m
        <5> QED BY <3>3, <3>4
      <4> HIDE DEF m
      <4> QED BY <3>2, <3>3, <4>1, <4>2 DEF Sent
    <3> QED BY <2>1, <3>1, <3>2, <3>4
  <2> QED BY <1>1, <2>2, <2>3, <2>4, <2>5, ScanStepKinds
<1>2. CASE Aggregate \/ EndSteps \/ Cancel \/ UNCHANGED vars
  <2>1. DOMAIN arena' = DOMAIN arena /\ (channel' = channel \/ (channel # <<>> /\ channel' = Tail(channel)))
    BY <1>2, OtherSteps
  <2>2. CASE channel' = channel
    BY <2>1, <2>2 DEF Sent
  <2>3. CASE channel # <<>> /\ channel' = Tail(channel)
    BY <2>1, <2>3, ChannelParts DEF Sent
  <2> QED BY <2>1, <2>2, <2>3
<1> QED BY <1>1, <1>2, NextSplits

-----------------------------------------------------------------------------
(* Marked directories.                                                     *)

\* The directories of the inventory are marked, each by its own mark.
Marked ==
  /\ \A d, e \in DOMAIN arena : Node[d] = Node[e] => d = e
  /\ \A d \in DOMAIN arena : Node[d] \in seenDirs

LEMMA MarkedNext ==
  ASSUME Types, Shape, Sent, Marked, [Next]_vars
  PROVE  Marked'
<1>1. ASSUME DOMAIN arena' = DOMAIN arena, seenDirs \subseteq seenDirs' PROVE Marked'
  BY <1>1 DEF Marked
<1>2. ASSUME NEW d \in Dirs, ScanStep(d), ~Descend(d) PROVE DOMAIN arena' = DOMAIN arena /\ seenDirs \subseteq seenDirs'
  <2>1. ASSUME NEW total, Passes(d, {}, total) PROVE DOMAIN arena' = DOMAIN arena
    <3>1. DOMAIN arena' = DOMAIN arena \cup {}
      BY <2>1, PassArena
    <3> QED BY <3>1
  <2>2. CASE PassBy(d) \/ CountFile(d) \/ FirstLink(d) \/ NextLink(d)
    BY <2>1, <2>2, PassByPasses, CountFilePasses, FirstLinkPasses, NextLinkPasses
  <2>3. CASE TurnBack(d) \/ Begin(d) \/ NoRoom(d) \/ LinkForgotten(d) \/ EndListing(d)
    BY <2>3 DEF TurnBack, Begin, NoRoom, LinkForgotten, EndListing, shared, inventory
  <2>4. CASE \E outcome : List(d, outcome) \/ Fail(d, outcome) \/ Leave(d, outcome)
    BY <2>4 DEF List, Fail, Leave, shared, inventory
  <2>5. CASE Publish(d) \/ Unpublished(d) \/ RollUp(d)
    BY <2>5 DEF Publish, Unpublished, RollUp, shared, inventory
  <2> QED BY <1>2, <2>2, <2>3, <2>4, <2>5 DEF ScanStep
<1>3. ASSUME NEW d \in Dirs, Descend(d) PROVE Marked'
  <2> DEFINE c == Entry(d)
             kids == IF c \in Skipped THEN {} ELSE {c}
  <2>1. Passes(d, kids, scan[d].total) /\ ~Seen(c) /\ seenDirs' = seenDirs \cup {Node[c]}
    BY <1>3, DescendPasses
  <2>2. DOMAIN arena' = DOMAIN arena \cup kids
    <3> HIDE DEF kids
    <3> QED BY <2>1, PassIs
  <2> QED BY <2>1, <2>2 DEF Marked, Seen
<1>4. CASE Aggregate \/ EndSteps \/ Cancel \/ UNCHANGED vars
  BY <1>1, <1>4, OtherSteps
<1> QED BY <1>1, <1>2, <1>3, <1>4, NextSplits

-----------------------------------------------------------------------------
(* Links.                                                                  *)

\* The files of an inode that were seen, or were in a directory when its
\* listing broke off.
AtEnd == {"tellOwn"} \cup Told
Reached(i) ==
  {f \in Files : Inode[f] = i /\ (f \in Past(In(f)) \/ scan[In(f)].at \in AtEnd)}

LinkSound(i) ==
  LET l == links[i]
  IN  /\ Inode[l.charged] = i /\ Linked(l.charged) /\ l.charged \in Past(In(l.charged))
      /\ Inode[l.owner] = i /\ l.owner \in Past(In(l.owner))
      /\ l.seen <= Cardinality(Reached(i))

Linkage ==
  /\ \A i \in DOMAIN links : LinkSound(i)
  /\ \A d \in Dirs : \A f \in Past(d) \cap Files : Linked(f) => Inode[f] \in DOMAIN links

LEMMA ScanMonotone ==
  ASSUME Types, Shape, NEW d \in Dirs, ScanStep(d)
  PROVE  \A x \in Dirs : /\ Past(x) \subseteq Past(x)'
                         /\ scan[x].at \in AtEnd => scan'[x].at \in AtEnd
<1> USE DEF AtEnd, Told
<1>1. ASSUME NEW at, NEW total, TurnsTo(d, at, total), NEW x \in Dirs
      PROVE  Past(x)' = Past(x) /\ (scan[x].at \in AtEnd => scan'[x].at \in AtEnd)
  <2>1. scan'[x].next = scan[x].next
    BY <1>1, TurnIs
  <2>2. scan[d].at \notin AtEnd
    BY <1>1 DEF TurnsTo, Turns
  <2> QED BY <1>1, <2>1, <2>2, TurnIs, PastSame
<1>2. ASSUME NEW kids, NEW total, Passes(d, kids, total), NEW x \in Dirs
      PROVE  Past(x) \subseteq Past(x)' /\ (scan[x].at \in AtEnd => scan'[x].at \in AtEnd)
  <2>1. scan[d].at \notin AtEnd
    BY <1>2 DEF Passes
  <2>2. x # d => Past(x)' = Past(x)
    <3>1. x # d => scan'[x].next = scan[x].next
      BY <1>2, PassScan
    <3> QED BY <3>1, PastSame
  <2>3. Past(d)' = Past(d) \cup {Entry(d)}
    BY <1>2, PassIs, PastGrows
  <2> QED BY <1>2, <2>1, <2>2, <2>3, PassIs
<1>3. ASSUME Tells(d), NEW x \in Dirs
      PROVE  Past(x)' = Past(x) /\ (scan[x].at \in AtEnd => scan'[x].at \in AtEnd)
  <2>1. Past(x)' = Past(x)
    BY <1>3, AfterIs, PastSame
  <2>2. ASSUME scan[d].at = "tellOwn", x \in scan[d].kids PROVE scan[x].at \notin AtEnd
    <3>1. x \in Dirs /\ x # Root /\ Up(x) = d
      BY <2>2, KidIs
    <3>2. scan[x].at = "none"
      BY <2>2, <3>1 DEF Shape
    <3> QED BY <3>2
  <2> QED BY <1>3, <2>1, <2>2, AfterIs
<1>4. ASSUME RollUp(d), NEW x \in Dirs
      PROVE  Past(x)' = Past(x) /\ (scan[x].at \in AtEnd => scan'[x].at \in AtEnd)
  BY <1>4, RollUpIs, PastSame
<1> QED BY <1>1, <1>2, <1>3, <1>4, ScanStepKinds

LEMMA ReachedGrows ==
  ASSUME Types, Shape, NEW d \in Dirs, ScanStep(d), NEW i
  PROVE  /\ Reached(i) \subseteq Reached(i)' /\ IsFiniteSet(Reached(i)) /\ IsFiniteSet(Reached(i)')
         /\ Cardinality(Reached(i)) <= Cardinality(Reached(i)')
         /\ Cardinality(Reached(i)) \in Nat
         /\ \A f \in Reached(i)' : f \notin Reached(i) => Cardinality(Reached(i)) + 1 <= Cardinality(Reached(i)')
<1>1. Reached(i) \subseteq Reached(i)'
  BY ScanMonotone, InIs DEF Reached
<1>2. IsFiniteSet(Reached(i)) /\ IsFiniteSet(Reached(i)')
  BY InodesAre, FS_Subset DEF Reached
<1>3. Cardinality(Reached(i)) <= Cardinality(Reached(i)') /\ Cardinality(Reached(i)) \in Nat /\ Cardinality(Reached(i)') \in Nat
  BY <1>1, <1>2, FS_Subset, FS_CardinalityType
<1>4. ASSUME NEW f \in Reached(i)', f \notin Reached(i)
      PROVE  Cardinality(Reached(i)) + 1 <= Cardinality(Reached(i)')
  <2>1. Cardinality(Reached(i) \cup {f}) = Cardinality(Reached(i)) + 1
    BY <1>2, <1>4, FS_AddElement
  <2>2. Reached(i) \cup {f} \subseteq Reached(i)'
    BY <1>1, <1>4
  <2>3. Cardinality(Reached(i) \cup {f}) <= Cardinality(Reached(i)')
    BY <1>2, <2>2, FS_Subset
  <2> QED BY <2>1, <2>3
<1> QED BY <1>1, <1>2, <1>3, <1>4

LEMMA LinkSoundStays ==
  ASSUME Types, Shape, NEW d \in Dirs, ScanStep(d), NEW i \in DOMAIN links, LinkSound(i),
         links'[i] = links[i]
  PROVE  LinkSound(i)'
<1>1. links[i].charged \in Files /\ links[i].owner \in Files /\ links[i].seen \in Nat
  BY DEF Types, LinkStates
<1>2. In(links[i].charged) \in Dirs /\ In(links[i].owner) \in Dirs
  BY <1>1, InIs
<1>3. links[i].seen <= Cardinality(Reached(i)')
  BY <1>1, ReachedGrows, FS_CardinalityType DEF LinkSound
<1> QED BY <1>2, <1>3, ScanMonotone DEF LinkSound

\* A link that is met, which is past then or in a listing that broke off.
LEMMA LinkMet ==
  ASSUME Types, Shape, NEW d \in Dirs, ScanStep(d), IsAt(d, Files), NEW f, f = Entry(d),
         f \in Past(d)' \/ scan'[d].at \in AtEnd
  PROVE  /\ f \in Files /\ In(f) = d
         /\ f \notin Reached(Inode[f]) /\ f \in Reached(Inode[f])'
         /\ Cardinality(Reached(Inode[f])) + 1 <= Cardinality(Reached(Inode[f])')
         /\ Cardinality(Reached(Inode[f])) \in Nat
<1>1. scan[d].at = "looking" /\ f \in Files /\ In(f) = d /\ f \notin Past(d)
  BY EntryIs DEF IsAt
<1>2. f \notin Reached(Inode[f])
  BY <1>1 DEF Reached, AtEnd, Told
<1>3. f \in Reached(Inode[f])'
  BY <1>1 DEF Reached
<1> QED BY <1>1, <1>2, <1>3, ReachedGrows

LEMMA LinkageSame ==
  ASSUME Types, Shape, Linkage, NEW d \in Dirs, ScanStep(d), links' = links,
         \A x \in Dirs : \A f \in Past(x)' \cap Files : Linked(f) => f \in Past(x)
  PROVE  Linkage'
<1>1. \A i \in DOMAIN links : LinkSound(i)'
  BY LinkSoundStays DEF Linkage
<1>2. \A x \in Dirs : \A f \in Past(x)' \cap Files : Linked(f) => Inode[f] \in DOMAIN links
  BY DEF Linkage
<1> QED BY <1>1, <1>2 DEF Linkage

LEMMA LinkagePass ==
  ASSUME Types, Shape, Linkage, NEW d \in Dirs, ScanStep(d), links' = links,
         NEW kids, NEW total, Passes(d, kids, total),
         Entry(d) \in Dirs \/ ~Linked(Entry(d))
  PROVE  Linkage'
<1>1. \A x \in Dirs \ {d} : Past(x)' = Past(x)
  <2>1. \A x \in Dirs \ {d} : scan'[x].next = scan[x].next
    BY PassIs
  <2> QED BY <2>1, PastSame
<1>2. Past(d)' = Past(d) \cup {Entry(d)}
  BY PassIs, PastGrows
<1>3. Entry(d) \in Dirs => Entry(d) \notin Files
  BY PathAssumption
<1>4. \A x \in Dirs : \A f \in Past(x)' \cap Files : Linked(f) => f \in Past(x)
  BY <1>1, <1>2, <1>3
<1> QED BY <1>4, LinkageSame

LEMMA LinkageTurn ==
  ASSUME Types, Shape, Linkage, NEW d \in Dirs, ScanStep(d), links' = links,
         \A x \in Dirs : scan'[x].next = scan[x].next
  PROVE  Linkage'
<1>1. \A x \in Dirs : Past(x)' = Past(x)
  BY PastSame
<1> QED BY <1>1, LinkageSame

LEMMA LinkageFirst ==
  ASSUME Types, Shape, Linkage, NEW d \in Dirs, ScanStep(d), FirstLink(d)
  PROVE  Linkage'
<1>0. PICK f, i : f = Entry(d) /\ i = Inode[f]
  OBVIOUS
<1>1. /\ Passes(d, {}, Plus(scan[d].total, File(i)))
      /\ f \in Files /\ Linked(f) /\ i \notin DOMAIN links
      /\ DOMAIN links' = DOMAIN links \cup {i} /\ links'[i] = NewLink(d, f)
      /\ \A j \in DOMAIN links : links'[j] = links[j]
  BY <1>0, FirstLinkPasses
<1>2. Past(d)' = Past(d) \cup {f} /\ \A x \in Dirs \ {d} : Past(x)' = Past(x)
  <2>1. scan'[d].next = scan[d].next + 1 /\ \A x \in Dirs \ {d} : scan'[x].next = scan[x].next
    BY <1>1, PassScan
  <2> QED BY <1>0, <2>1, PastSame, PastGrows
<1>3. /\ In(f) = d /\ f \in Past(d)'
      /\ Cardinality(Reached(i)) + 1 <= Cardinality(Reached(i)') /\ Cardinality(Reached(i)) \in Nat
  BY <1>0, <1>2, LinkMet DEF FirstLink
<1>4. LinkSound(i)'
  <2>1. links'[i].charged = f /\ links'[i].owner = f /\ links'[i].seen = 1
    BY <1>1 DEF NewLink
  <2>2. 1 <= Cardinality(Reached(i)')
    <3>1. IsFiniteSet(Reached(i)')
      BY ReachedGrows
    <3>2. Cardinality(Reached(i)') \in Nat
      BY <3>1, FS_CardinalityType
    <3> QED BY <1>3, <3>2
  <2> QED BY <1>0, <1>1, <1>3, <2>1, <2>2 DEF LinkSound, Linked
<1>5. \A j \in DOMAIN links' : LinkSound(j)'
  BY <1>1, <1>4, LinkSoundStays DEF Linkage
<1>6. \A x \in Dirs : \A g \in Past(x)' \cap Files : Linked(g) => Inode[g] \in DOMAIN links'
  BY <1>0, <1>1, <1>2 DEF Linkage
<1> QED BY <1>5, <1>6 DEF Linkage

LEMMA LinkageNext ==
  ASSUME Types, Shape, Linkage, NEW d \in Dirs, ScanStep(d), NextLink(d)
  PROVE  Linkage'
<1>0. PICK f, i, l, t : f = Entry(d) /\ i = Inode[f] /\ l = links[i] /\ t = Taken(l, d, f)
  OBVIOUS
<1>1. /\ Passes(d, {}, scan[d].total)
      /\ f \in Files /\ Linked(f) /\ i \in DOMAIN links
      /\ links' = [links EXCEPT ![i] = t]
  BY <1>0, NextLinkPasses
<1>2. Past(d)' = Past(d) \cup {f} /\ \A x \in Dirs \ {d} : Past(x)' = Past(x)
  <2>1. scan'[d].next = scan[d].next + 1 /\ \A x \in Dirs \ {d} : scan'[x].next = scan[x].next
    BY <1>1, PassScan
  <2> QED BY <1>0, <2>1, PastSame, PastGrows
<1>3. /\ In(f) = d /\ f \in Past(d)'
      /\ Cardinality(Reached(i)) + 1 <= Cardinality(Reached(i)') /\ Cardinality(Reached(i)) \in Nat
  BY <1>0, <1>2, LinkMet DEF NextLink
<1>4. links'[i] = t /\ DOMAIN links' = DOMAIN links /\ \A j \in DOMAIN links \ {i} : links'[j] = links[j]
  BY <1>1 DEF Types
<1>5. t.seen = l.seen + 1 /\ t.charged = l.charged /\ t.owner \in {f, l.owner}
  BY <1>0 DEF Taken
<1>6. /\ Inode[l.charged] = i /\ Linked(l.charged) /\ l.charged \in Past(In(l.charged))
      /\ Inode[l.owner] = i /\ l.owner \in Past(In(l.owner))
      /\ l.seen <= Cardinality(Reached(i)) /\ l.seen \in Nat
      /\ In(l.charged) \in Dirs /\ In(l.owner) \in Dirs
  <2>1. LinkSound(i) /\ l \in LinkStates
    BY <1>0, <1>1 DEF Linkage, Types
  <2>2. l.charged \in Files /\ l.owner \in Files /\ l.seen \in Nat
    BY <2>1 DEF LinkStates
  <2> QED BY <1>0, <2>1, <2>2, InIs DEF LinkSound
<1>7. LinkSound(i)'
  <2>1. t.seen <= Cardinality(Reached(i)')
    <3>1. IsFiniteSet(Reached(i)')
      BY ReachedGrows
    <3>2. Cardinality(Reached(i)') \in Nat
      BY <3>1, FS_CardinalityType
    <3> QED BY <1>3, <1>5, <1>6, <3>2
  <2>2. /\ t.charged \in Past(In(t.charged))' /\ Inode[t.charged] = i /\ Linked(t.charged)
        /\ t.owner \in Past(In(t.owner))' /\ Inode[t.owner] = i
    <3> QED BY <1>0, <1>1, <1>3, <1>5, <1>6, ScanMonotone
  <2> QED BY <1>4, <2>1, <2>2 DEF LinkSound, Linked
<1>8. \A j \in DOMAIN links' : LinkSound(j)'
  BY <1>4, <1>7, LinkSoundStays DEF Linkage
<1>9. \A x \in Dirs : \A g \in Past(x)' \cap Files : Linked(g) => Inode[g] \in DOMAIN links'
  BY <1>0, <1>1, <1>2, <1>4 DEF Linkage
<1> QED BY <1>8, <1>9 DEF Linkage

LEMMA LinkageForgotten ==
  ASSUME Types, Shape, Linkage, NEW d \in Dirs, ScanStep(d), LinkForgotten(d)
  PROVE  Linkage'
<1>0. PICK f, i : f = Entry(d) /\ i = Inode[f]
  OBVIOUS
<1>1. \A x \in Dirs : scan'[x].next = scan[x].next
  BY ForgottenTurns, TurnIs
<1>2. \A x \in Dirs : Past(x)' = Past(x)
  BY <1>1, PastSame
<1>3. CASE links' = links
  BY <1>1, <1>3, LinkageTurn
<1>4. CASE links' # links
  <2>1. /\ i \in DOMAIN links
        /\ links' = [links EXCEPT ![i] = [links[i] EXCEPT !.seen = @ + 1]]
        /\ links'[i].seen = links[i].seen + 1 /\ links'[i].charged = links[i].charged
        /\ links'[i].owner = links[i].owner
    BY <1>0, <1>4, ForgottenLinks
  <2>2. DOMAIN links' = DOMAIN links /\ \A j \in DOMAIN links \ {i} : links'[j] = links[j]
    <3> QED BY <2>1 DEF Types
  <2>3. scan'[d].at \in AtEnd
    BY ForgottenTurns, TurnIs DEF AtEnd
  <2>4. Cardinality(Reached(i)) + 1 <= Cardinality(Reached(i)') /\ Cardinality(Reached(i)) \in Nat
    BY <1>0, <2>3, LinkMet DEF LinkForgotten
  <2>5. LinkSound(i) /\ links[i].seen \in Nat /\ In(links[i].charged) \in Dirs /\ In(links[i].owner) \in Dirs
    <3>1. links[i] \in LinkStates
      BY <2>1 DEF Types
    <3>2. links[i].charged \in Files /\ links[i].owner \in Files /\ links[i].seen \in Nat
      BY <3>1 DEF LinkStates
    <3> QED BY <2>1, <3>2, InIs DEF Linkage
  <2>6. LinkSound(i)'
    <3>1. links'[i].seen <= Cardinality(Reached(i)')
      <4>1. IsFiniteSet(Reached(i)')
        BY ReachedGrows
      <4>2. Cardinality(Reached(i)') \in Nat /\ links[i].seen <= Cardinality(Reached(i))
        BY <2>5, <4>1, FS_CardinalityType DEF LinkSound
      <4> QED BY <2>1, <2>4, <2>5, <4>2
    <3> QED BY <1>2, <2>1, <2>5, <3>1 DEF LinkSound, Linked
  <2>7. \A j \in DOMAIN links' : LinkSound(j)'
    <3> QED BY <2>2, <2>6, LinkSoundStays DEF Linkage
  <2> QED BY <1>2, <2>2, <2>7 DEF Linkage
<1> QED BY <1>3, <1>4

LEMMA LinkageStep ==
  ASSUME Types, Shape, Sent, Linkage, [Next]_vars
  PROVE  Linkage'
<1>1. ASSUME NEW d \in Dirs, ScanStep(d) PROVE Linkage'
  <2>1. ASSUME NEW at, NEW total, TurnsTo(d, at, total) PROVE \A x \in Dirs : scan'[x].next = scan[x].next
    BY <2>1, TurnIs
  <2>2. CASE TurnBack(d) \/ Begin(d) \/ NoRoom(d) \/ EndListing(d)
    <3>1. links' = links /\ \E at, total : TurnsTo(d, at, total)
      BY <2>2, TurnBackTurns, BeginTurns, NoRoomTurns, EndListingTurns DEF shared
    <3> QED BY <1>1, <2>1, <3>1, LinkageTurn
  <2>3. CASE \E outcome : List(d, outcome) \/ Fail(d, outcome) \/ Leave(d, outcome)
    <3>1. links' = links /\ \E at, total : TurnsTo(d, at, total)
      BY <2>3, ListTurns, FailTurns, LeaveTurns DEF shared
    <3> QED BY <1>1, <2>1, <3>1, LinkageTurn
  <2>4. CASE PassBy(d) \/ Descend(d) \/ CountFile(d)
    <3>1. /\ links' = links /\ (Entry(d) \in Dirs \/ ~Linked(Entry(d)))
          /\ \E kids, total : Passes(d, kids, total)
      BY <2>4, PassByPasses, DescendPasses, CountFilePasses
    <3> QED BY <1>1, <3>1, LinkagePass
  <2>5. CASE FirstLink(d)
    BY <1>1, <2>5, LinkageFirst
  <2>6. CASE NextLink(d)
    BY <1>1, <2>6, LinkageNext
  <2>7. CASE LinkForgotten(d)
    BY <1>1, <2>7, LinkageForgotten
  <2>8. CASE Publish(d) \/ Unpublished(d)
    <3>1. links' = links /\ \A x \in Dirs : scan'[x].next = scan[x].next
      BY <2>8, TellIs, AfterIs DEF Tells
    <3> QED BY <1>1, <3>1, LinkageTurn
  <2>9. CASE RollUp(d)
    <3>1. links' = links /\ \A x \in Dirs : scan'[x].next = scan[x].next
      BY <2>9, RollUpIs DEF RollUp, shared
    <3> QED BY <1>1, <3>1, LinkageTurn
  <2> QED BY <1>1, <2>2, <2>3, <2>4, <2>5, <2>6, <2>7, <2>8, <2>9 DEF ScanStep
<1>2. CASE Aggregate \/ EndSteps \/ Cancel \/ UNCHANGED vars
  <2>1. UNCHANGED <<scan, links>>
    BY <1>2, OtherSteps
  <2>2. \A x : Past(x)' = Past(x)
    BY <2>1, PastSame
  <2>3. \A i : Reached(i)' = Reached(i)
    BY <2>1, <2>2 DEF Reached
  <2> QED BY <2>1, <2>2, <2>3 DEF Linkage, LinkSound, Linked
<1> QED BY <1>1, <1>2, NextSplits

-----------------------------------------------------------------------------
(* Types: the theorem.                                                     *)

\* What every state of a walk is like, whatever it counted.
Sound == Types /\ Shape /\ Sent /\ Marked /\ Linkage

LEMMA SoundInit ==
  ASSUME Init
  PROVE  Sound
<1>1. Types /\ Shape
  BY TypesInit, ShapeInit
<1>2. Sent /\ Marked
  BY DEF Init, Sent, Marked
<1>3. Linkage
  <2>1. \A d \in Dirs : Past(d) = {}
    BY DEF Init, Unscanned, Past
  <2> QED BY <2>1 DEF Init, Linkage
<1> QED BY <1>1, <1>2, <1>3 DEF Sound

LEMMA SoundNext ==
  ASSUME Sound, [Next]_vars
  PROVE  Sound'
BY TypesNext, ShapeNext, SentNext, MarkedNext, LinkageStep DEF Sound

\* The directories files are reached in are in the inventory.
LEMMA ReachedIn ==
  ASSUME Types, Shape, NEW i, NEW f \in Reached(i)
  PROVE  f \in Files /\ Inode[f] = i /\ In(f) \in DOMAIN arena
<1>1. f \in Files /\ Inode[f] = i /\ In(f) \in Dirs
  BY InIs DEF Reached
<1>2. scan[In(f)].at # "none"
  BY <1>1, PastIs DEF Reached, Shape, Early, AtEnd, Told
<1> QED BY <1>1, <1>2, ScannedIs

\* No more links of an inode are reached than there are.
LEMMA ReachedFits ==
  ASSUME Types, Shape, Marked, NEW i \in Inodes
  PROVE  Cardinality(Reached(i)) <= NLink[i]
<1>1. Reached(i) \in SUBSET {f \in Files : Inode[f] = i}
  BY DEF Reached
<1>2. \A f, g \in Reached(i) : Node[In(f)] = Node[In(g)] => In(f) = In(g)
  BY ReachedIn DEF Marked
<1> QED BY <1>1, <1>2, LinkAssumption

LEMMA SoundTypes ==
  ASSUME Sound
  PROVE  TypeOK
<1>1. \A d \in Dirs :
       /\ scan[d].at \in Telling \cup {"none", "called", "listed", "looking", "below", "done"}
       /\ scan[d].kids \subseteq Listed(d) \cap DOMAIN arena
       /\ scan[d].total \in Totals
  BY ScanIs, KidIs DEF Sound, Places, Early, Reading, Told, Telling
<1>2. ASSUME NEW i \in DOMAIN links PROVE links[i].seen \in 1..NLink[i]
  <2>1. links[i].seen \in Nat \ {0} /\ i \in Inodes
    BY DEF Sound, Types, LinkStates
  <2>2. links[i].seen <= Cardinality(Reached(i)) /\ Cardinality(Reached(i)) <= NLink[i]
    BY <2>1, ReachedFits DEF Sound, Linkage, LinkSound
  <2>3. IsFiniteSet(Reached(i))
    BY InodesAre, FS_Subset DEF Reached
  <2>4. Cardinality(Reached(i)) \in Nat /\ NLink[i] \in Nat
    BY <2>1, <2>3, FS_CardinalityType, InodesAre
  <2> QED BY <2>1, <2>2, <2>4
<1> QED BY <1>1, <1>2 DEF TypeOK, Sound, Types, Solid

\* Whatever fails, whatever is cancelled: the scans are in order, the channel
\* is never over its capacity, no more files are among the largest than there
\* may be, and no more links of an inode are seen than it has.
THEOREM WalkTypes == Spec => []TypeOK
<1>1. Init => Sound
  BY SoundInit
<1>2. Sound /\ [Next]_vars => Sound'
  BY SoundNext
<1>3. Sound => TypeOK
  BY SoundTypes
<1> QED BY <1>1, <1>2, <1>3, PTL DEF Spec

-----------------------------------------------------------------------------
(* Sums over the tree.                                                     *)

\* What the directories under d have.
Total(g, d) == SumFunctionOnSet(g, Under(d))

LEMMA TotalNat ==
  ASSUME NEW g, NEW d \in Dirs, \A x \in Under(d) : g[x] \in Nat
  PROVE  Total(g, d) \in Nat
BY UnderIs, SumNat DEF Total

LEMMA TotalSame ==
  ASSUME NEW g, NEW h, NEW d \in Dirs, \A x \in Under(d) : g[x] = h[x]
  PROVE  Total(g, d) = Total(h, d)
BY UnderIs, SumSame DEF Total

\* A directory, and nothing below it.
LEMMA TotalAlone ==
  ASSUME NEW g, NEW d \in Dirs, g[d] \in Nat, \A x \in Under(d) : x # d => g[x] = 0
  PROVE  Total(g, d) = g[d]
<1>1. d \in Under(d) /\ IsFiniteSet(Under(d))
  BY UnderIs
<1>2. \A x \in Under(d) : g[x] \in Nat
  OBVIOUS
<1>3. SumFunctionOnSet(g, {d}) = SumFunctionOnSet(g, Under(d))
  BY <1>1, <1>2, SumPart
<1>4. SumFunctionOnSet(g, {d}) = SumFunctionOnSet(g, {}) + g[d]
  <2>1. IsFiniteSet({}) /\ {d} = {} \cup {d}
    BY FS_EmptySet
  <2> QED BY <1>1, <1>2, <2>1, SumAdd
<1> QED BY <1>3, <1>4, SumEmpty DEF Total

\* A directory and those in it, when those that are not of kids have nothing.
LEMMA TotalSplits ==
  ASSUME NEW g, NEW d \in Dirs, \A x \in Under(d) : g[x] \in Nat,
         NEW kids, kids \subseteq Below(d),
         \A x \in Under(d) : x # d /\ (\A c \in kids : x \notin Under(c)) => g[x] = 0
  PROVE  Total(g, d) = g[d] + SumFunctionOnSet([c \in kids |-> Total(g, c)], kids)
<1> DEFINE U == [c \in kids |-> Under(c)]
           all == UNION {U[c] : c \in kids}
           h == [c \in kids |-> Total(g, c)]
<1>1. IsFiniteSet(kids) /\ \A c \in kids : c \in Dirs /\ Under(c) \subseteq Under(d) /\ IsFiniteSet(Under(c))
  <2>1. kids \subseteq Dirs
    BY DEF Below
  <2>2. \A c \in kids : c \in Under(d)
    BY UnderSplits
  <2> QED BY <2>1, <2>2, PathAssumption, FS_Subset, UnderIs, UnderTransitive
<1>2. \A c, e \in kids : c # e => U[c] \cap U[e] = {}
  BY UnderSplits
<1>3. /\ IsFiniteSet(all)
      /\ SumFunctionOnSet(g, all) = SumFunctionOnSet(h, kids)
  <2>1. \A c \in kids : IsFiniteSet(U[c]) /\ \A y \in U[c] : g[y] \in Nat
    BY <1>1
  <2>2. \A c \in kids : h[c] = SumFunctionOnSet(g, U[c])
    BY DEF Total
  <2> HIDE DEF U, h
  <2>3. Family(g, kids, U, h)
    BY <1>2, <2>1, <2>2 DEF Family
  <2> QED BY <1>1, <2>3, SumFamily
<1>5. d \notin all /\ all \subseteq Under(d) /\ d \in Under(d)
  BY <1>1, UnderSplits, UnderIs
<1>6. \A x \in Under(d) \ (all \cup {d}) : g[x] = 0
  OBVIOUS
<1> HIDE DEF all, U
<1>7. SumFunctionOnSet(g, all \cup {d}) = SumFunctionOnSet(g, Under(d))
  BY <1>5, <1>6, UnderIs, SumPart
<1>8. SumFunctionOnSet(g, all \cup {d}) = SumFunctionOnSet(g, all) + g[d]
  BY <1>3, <1>5, SumAdd
<1>9. SumFunctionOnSet(g, all) \in Nat /\ g[d] \in Nat
  BY <1>3, <1>5, SumNat
<1> QED BY <1>3, <1>7, <1>8, <1>9 DEF Total

\* What one directory's part changes.
LEMMA TotalChange ==
  ASSUME NEW g, NEW h, NEW y \in Dirs, NEW d \in Under(y),
         \A x \in Under(y) : g[x] \in Nat /\ h[x] \in Nat,
         \A x \in Under(y) : x # d => h[x] = g[x]
  PROVE  Total(h, y) + g[d] = Total(g, y) + h[d]
BY UnderIs, SumChange DEF Total

\* What is under a directory is at most what is under one above it.
LEMMA TotalPart ==
  ASSUME NEW g, NEW y \in Dirs, NEW d \in Under(y), \A x \in Under(y) : g[x] \in Nat
  PROVE  Total(g, d) <= Total(g, y)
BY UnderIs, UnderTransitive, SumPart DEF Total

-----------------------------------------------------------------------------
(* The roll-up.                                                            *)

Fields == {"alloc", "files", "dirs", "errors"}

LEMMA TotalsFields ==
  ASSUME NEW s \in Totals, NEW t \in Totals, NEW k \in Fields
  PROVE  /\ s[k] \in Nat
         /\ Plus(s, t)[k] = s[k] + t[k]
         /\ Minus(s, t)[k] = IF s[k] < t[k] THEN 0 ELSE s[k] - t[k]
         /\ Subdir(t)[k] = IF k = "dirs" THEN t[k] + 1 ELSE t[k]
<1>1. s.alloc \in Nat /\ s.files \in Nat /\ s.dirs \in Nat /\ s.errors \in Nat /\ DOMAIN s = Fields
  BY DEF Totals, Fields
<1>2. k = "alloc" \/ k = "files" \/ k = "dirs" \/ k = "errors"
  BY DEF Fields
<1>3. s[k] \in Nat
  BY <1>1, <1>2
<1>4. Plus(s, t)[k] = s[k] + t[k]
  BY <1>2 DEF Plus
<1>5. Minus(s, t)[k] = IF s[k] < t[k] THEN 0 ELSE s[k] - t[k]
  BY <1>1 DEF Minus
<1>6. Subdir(t)[k] = IF k = "dirs" THEN t[k] + 1 ELSE t[k]
  BY <1>2 DEF Subdir, Totals
<1> QED BY <1>3, <1>4, <1>5, <1>6

LEMMA RolledIs ==
  ASSUME NEW f, NEW S, IsFiniteSet(S), NEW b \in Totals, \A c \in S : f[c].total \in Totals,
         NEW k \in Fields, NEW g, \A c \in S : g[c] = f[c].total[k]
  PROVE  Rolled(f, b, S)[k] = b[k] + SumFunctionOnSet(g, S) + IF k = "dirs" THEN Cardinality(S) ELSE 0
<1> DEFINE Extra(s) == IF k = "dirs" THEN Cardinality(s) ELSE 0
           Q == {p \in (SUBSET S) \X Totals : p[2][k] = b[k] + SumFunctionOnSet(g, p[1]) + Extra(p[1])}
<1>1. \A c \in S : g[c] = f[c].total[k] /\ g[c] \in Nat
  BY TotalsFields
<1>2. \A s \in SUBSET S : SumFunctionOnSet(g, s) \in Nat /\ Cardinality(s) \in Nat /\ IsFiniteSet(s)
  BY <1>1, FS_Subset, FS_CardinalityType, SumNat
<1>3. b[k] \in Nat
  BY TotalsFields
<1>4. <<{}, b>> \in Q
  <2>1. SumFunctionOnSet(g, {}) = 0 /\ Cardinality({}) = 0
    BY SumEmpty, FS_EmptySet
  <2> QED BY <1>3, <2>1
<1>5. ASSUME NEW s \in SUBSET S, NEW c \in S, NEW t \in Totals, <<s, t>> \in Q, c \notin s
      PROVE  <<s \cup {c}, Plus(t, Subdir(f[c].total))>> \in Q
  <2> DEFINE u == Plus(t, Subdir(f[c].total))
  <2>1. u \in Totals /\ Subdir(f[c].total) \in Totals
    BY TotalsClosed
  <2>2. u[k] = t[k] + (IF k = "dirs" THEN g[c] + 1 ELSE g[c]) /\ t[k] \in Nat
    BY <1>1, <2>1, TotalsFields
  <2>3. t[k] = b[k] + SumFunctionOnSet(g, s) + Extra(s)
    BY <1>5
  <2>4. SumFunctionOnSet(g, s \cup {c}) = SumFunctionOnSet(g, s) + g[c]
    BY <1>1, <1>2, <1>5, SumAdd
  <2>5. Cardinality(s \cup {c}) = Cardinality(s) + 1
    BY <1>2, <1>5, FS_AddElement
  <2>6. u[k] = b[k] + SumFunctionOnSet(g, s \cup {c}) + Extra(s \cup {c})
    <3> HIDE DEF u
    <3> QED BY <1>1, <1>2, <1>3, <2>2, <2>3, <2>4, <2>5
  <2> HIDE DEF u, Extra
  <2> QED BY <2>1, <2>6 DEF u
<1> HIDE DEF Q
<1>6. <<S, Rolled(f, b, S)>> \in Q
  BY <1>4, <1>5, RolledInduction
<1> QED BY <1>6 DEF Q

-----------------------------------------------------------------------------
(* What the totals count.                                                  *)

\* The files that the totals of a directory have: those the walk is past, and
\* of an inode with several links the one it is charged to.
Counting(d) == {f \in Past(d) \cap Files : Linked(f) => links[Inode[f]].charged = f}

Weight(k) == [f \in Files |-> IF k = "alloc" THEN SizeOf(f) ELSE 1]
Sums == {"alloc", "files", "dirs"}
Own(k, d) == IF k = "dirs" THEN Cardinality(scan[d].kids)
             ELSE SumFunctionOnSet(Weight(k), Counting(d))
Owns(k) == [d \in Dirs |-> Own(k, d)]

LEMMA WeightNat ==
  ASSUME NEW k, NEW f \in Files
  PROVE  Weight(k)[f] = (IF k = "alloc" THEN SizeOf(f) ELSE 1) /\ Weight(k)[f] \in Nat
BY InodesAre DEF Weight

LEMMA OwnNat ==
  ASSUME Types, NEW k, NEW d \in Dirs
  PROVE  /\ IsFiniteSet(scan[d].kids) /\ IsFiniteSet(Counting(d)) /\ Counting(d) \subseteq Files
         /\ Own(k, d) \in Nat /\ Owns(k)[d] = Own(k, d)
         /\ (scan[d].next = 1 => Counting(d) = {})
         /\ (scan[d].kids = {} /\ scan[d].next = 1 => Own(k, d) = 0)
<1>1. IsFiniteSet(scan[d].kids) /\ IsFiniteSet(Counting(d)) /\ Counting(d) \subseteq Files
  BY ScanIs, PathAssumption, FS_Subset DEF Counting
<1>2. Cardinality(scan[d].kids) \in Nat
  BY <1>1, FS_CardinalityType
<1>3. SumFunctionOnSet(Weight(k), Counting(d)) \in Nat
  BY <1>1, WeightNat, SumNat
<1>4. scan[d].next = 1 => Counting(d) = {}
  BY DEF Counting, Past
<1>5. Cardinality({}) = 0 /\ SumFunctionOnSet(Weight(k), {}) = 0
  BY FS_EmptySet, SumEmpty
<1>6. Own(k, d) \in Nat
  BY <1>2, <1>3 DEF Own
<1>7. scan[d].kids = {} /\ scan[d].next = 1 => Own(k, d) = 0
  BY <1>4, <1>5 DEF Own
<1> QED BY <1>1, <1>4, <1>6, <1>7 DEF Owns

\* A directory that has not been looked into has nothing.
LEMMA OwnEarly ==
  ASSUME Types, Shape, NEW k, NEW d \in Dirs, scan[d].next = 1
  PROVE  scan[d].kids = {} /\ Counting(d) = {} /\ Own(k, d) = 0
<1>1. scan[d].kids = {}
  BY PastIs DEF Shape
<1> QED BY <1>1, OwnNat

\* The charge stays.
LEMMA ChargedStays ==
  ASSUME Types, NEW d \in Dirs, ScanStep(d)
  PROVE  /\ DOMAIN links \subseteq DOMAIN links'
         /\ \A i \in DOMAIN links : links'[i].charged = links[i].charged
<1>1. CASE FirstLink(d)
  BY <1>1, FirstLinkPasses
<1>2. CASE NextLink(d)
  <2>1. PICK i, t : /\ i \in DOMAIN links /\ t = Taken(links[i], d, Entry(d))
                    /\ links' = [links EXCEPT ![i] = t]
    BY <1>2, NextLinkPasses
  <2>2. t.charged = links[i].charged
    BY <2>1 DEF Taken
  <2> QED BY <2>1, <2>2 DEF Types
<1>3. CASE LinkForgotten(d)
  <2>1. PICK i : \/ links' = links
                 \/ /\ i \in DOMAIN links
                    /\ links' = [links EXCEPT ![i] = [links[i] EXCEPT !.seen = @ + 1]]
                    /\ links'[i].charged = links[i].charged
    BY <1>3, ForgottenLinks
  <2> QED BY <2>1 DEF Types
<1>4. CASE links' = links
  BY <1>4
<1>5. CASE PassBy(d) \/ Descend(d) \/ CountFile(d)
  BY <1>4, <1>5 DEF PassBy, Descend, CountFile
<1>6. CASE TurnBack(d) \/ Begin(d) \/ NoRoom(d) \/ EndListing(d)
  BY <1>4, <1>6 DEF TurnBack, Begin, NoRoom, EndListing, shared
<1>7. CASE \E outcome : List(d, outcome) \/ Fail(d, outcome) \/ Leave(d, outcome)
  BY <1>4, <1>7 DEF List, Fail, Leave, shared
<1>8. CASE Publish(d) \/ Unpublished(d) \/ RollUp(d)
  BY <1>4, <1>8 DEF Publish, Unpublished, RollUp, shared
<1> QED BY <1>1, <1>2, <1>3, <1>5, <1>6, <1>7, <1>8 DEF ScanStep

LEMMA OwnSame ==
  ASSUME Types, Shape, Linkage, NEW x \in Dirs, scan'[x].next = scan[x].next, scan'[x].kids = scan[x].kids,
         \A i \in DOMAIN links : links'[i].charged = links[i].charged
  PROVE  Counting(x)' = Counting(x) /\ \A k : Own(k, x)' = Own(k, x)
<1>1. Past(x)' = Past(x)
  BY PastSame
<1>2. \A f \in Past(x) \cap Files : Linked(f) => Inode[f] \in DOMAIN links
  BY DEF Linkage
<1>3. Counting(x)' = Counting(x)
  BY <1>1, <1>2 DEF Counting, Linked
<1> QED BY <1>3 DEF Own, Weight, SizeOf

\* What an entry adds.
LEMMA OwnPasses ==
  ASSUME Types, Shape, Linkage, NEW d \in Dirs, ScanStep(d), NEW kids, NEW total, Passes(d, kids, total)
  PROVE  \/ Counting(d)' = Counting(d) /\ total = scan[d].total
         \/ \E f \in Files : /\ Counting(d)' = Counting(d) \cup {f} /\ f \notin Past(d)
                             /\ total = Plus(scan[d].total, File(Inode[f]))
<1>0. PICK f : f = Entry(d)
  OBVIOUS
<1>1. Past(d)' = Past(d) \cup {f} /\ f \notin Past(d) /\ scan[d].at = "looking" /\ scan[d].next <= Len(Listing[d])
  BY <1>0, PassScan, PastGrows, EntryIs DEF Passes
<1>2. \A i \in DOMAIN links : links'[i].charged = links[i].charged
  BY ChargedStays
<1>3. \A g \in Past(d) \cap Files : Linked(g) => Inode[g] \in DOMAIN links
  BY DEF Linkage
<1>4. Counting(d)' = Counting(d) \cup {g \in {f} \cap Files : Linked(g) => links'[Inode[g]].charged = g}
  BY <1>1, <1>2, <1>3 DEF Counting, Linked
<1>5. ASSUME NEW ks, NEW t, Passes(d, ks, t)
      PROVE  t = total
  BY <1>5, PassScan
<1>6. CASE PassBy(d) \/ Descend(d)
  <2>1. f \notin Files /\ total = scan[d].total
    BY <1>0, <1>5, <1>6, PassByPasses, DescendPasses, PathAssumption
  <2> QED BY <1>4, <2>1
<1>7. CASE CountFile(d)
  <2>1. f \in Files /\ ~Linked(f) /\ total = Plus(scan[d].total, File(Inode[f]))
    BY <1>0, <1>5, <1>7, CountFilePasses
  <2> QED BY <1>1, <1>4, <2>1
<1>8. CASE FirstLink(d)
  <2>1. /\ f \in Files /\ total = Plus(scan[d].total, File(Inode[f]))
        /\ links'[Inode[f]] = NewLink(d, f)
    BY <1>0, <1>5, <1>8, FirstLinkPasses
  <2>2. links'[Inode[f]].charged = f
    BY <2>1 DEF NewLink
  <2> QED BY <1>1, <1>4, <2>1, <2>2
<1>9. CASE NextLink(d)
  <2>1. f \in Files /\ Linked(f) /\ total = scan[d].total /\ Inode[f] \in DOMAIN links
    BY <1>0, <1>5, <1>9, NextLinkPasses
  <2>2. links[Inode[f]].charged \in Past(In(links[Inode[f]].charged))
    BY <2>1 DEF Linkage, LinkSound
  <2>3. In(f) = d
    BY <1>0, <1>1, <2>1, EntryIs
  <2>4. links[Inode[f]].charged # f
    BY <1>1, <2>2, <2>3
  <2> QED BY <1>2, <1>4, <2>1, <2>4
<1>10. CASE PassBy(d) \/ Descend(d) \/ CountFile(d) \/ FirstLink(d) \/ NextLink(d)
  BY <1>6, <1>7, <1>8, <1>9, <1>10
<1>11. ~(\E at, t : TurnsTo(d, at, t)) /\ ~Tells(d) /\ ~RollUp(d)
  <2>1. scan'[d].next # scan[d].next
    BY PassScan, ScanIs
  <2> QED BY <2>1, TurnIs, AfterIs, RollUpIs
<1>12. ~(TurnBack(d) \/ Begin(d) \/ NoRoom(d) \/ LinkForgotten(d) \/ EndListing(d))
  BY <1>11, TurnBackTurns, BeginTurns, NoRoomTurns, ForgottenTurns, EndListingTurns
<1>13. ~(\E outcome : List(d, outcome) \/ Fail(d, outcome) \/ Leave(d, outcome))
  BY <1>11, ListTurns, FailTurns, LeaveTurns
<1>14. ~(Publish(d) \/ Unpublished(d) \/ RollUp(d))
  BY <1>11, TellIs
<1> QED BY <1>10, <1>12, <1>13, <1>14 DEF ScanStep

LEMMA OwnGrows ==
  ASSUME Types, Shape, Linkage, NEW d \in Dirs, ScanStep(d), NEW kids, NEW total, Passes(d, kids, total),
         NEW k \in {"alloc", "files"}
  PROVE  total[k] = scan[d].total[k] + (Own(k, d)' - Own(k, d)) /\ total.dirs = scan[d].total.dirs
<1>1. scan[d].total \in Totals /\ scan[d].total[k] \in Nat
  BY ScanIs, TotalsFields DEF Fields
<1>2. /\ Own(k, d) = SumFunctionOnSet(Weight(k), Counting(d))
      /\ Own(k, d)' = SumFunctionOnSet(Weight(k), Counting(d)')
      /\ Own(k, d) \in Nat
  BY OwnNat DEF Own, Weight, SizeOf
<1>3. CASE Counting(d)' = Counting(d) /\ total = scan[d].total
  BY <1>1, <1>2, <1>3
<1>4. ASSUME NEW f \in Files, Counting(d)' = Counting(d) \cup {f}, f \notin Past(d),
             total = Plus(scan[d].total, File(Inode[f]))
      PROVE  total[k] = scan[d].total[k] + (Own(k, d)' - Own(k, d)) /\ total.dirs = scan[d].total.dirs
  <2>1. f \notin Counting(d) /\ Counting(d) \subseteq Files /\ IsFiniteSet(Counting(d))
    BY <1>4, OwnNat DEF Counting
  <2>2. SumFunctionOnSet(Weight(k), Counting(d) \cup {f}) = SumFunctionOnSet(Weight(k), Counting(d)) + Weight(k)[f]
    BY <2>1, WeightNat, SumAdd
  <2>3. File(Inode[f]) \in Totals /\ File(Inode[f])[k] = Weight(k)[f] /\ File(Inode[f])["dirs"] = 0
    <3>1. File(Inode[f]) = [alloc |-> Alloc[Inode[f]], files |-> 1, dirs |-> 0, errors |-> 0]
      <4>1. \A a : [[Zero EXCEPT !.alloc = a] EXCEPT !.files = 1] =
                   [alloc |-> a, files |-> 1, dirs |-> 0, errors |-> 0]
        <5>1. \A a : [Zero EXCEPT !.alloc = a] = [alloc |-> a, files |-> 0, dirs |-> 0, errors |-> 0]
          BY DEF Zero
        <5>2. \A a : [[alloc |-> a, files |-> 0, dirs |-> 0, errors |-> 0] EXCEPT !.files = 1] =
                   [alloc |-> a, files |-> 1, dirs |-> 0, errors |-> 0]
          OBVIOUS
        <5> QED BY <5>1, <5>2
      <4> QED BY <4>1 DEF File
    <3> QED BY <3>1, InodesAre, FileTotals, WeightNat DEF SizeOf
  <2>4. total[k] = scan[d].total[k] + Weight(k)[f] /\ total["dirs"] = scan[d].total["dirs"] + 0
    BY <1>1, <1>4, <2>3, TotalsFields DEF Fields
  <2>5. scan[d].total["dirs"] \in Nat
    BY <1>1, TotalsFields DEF Fields
  <2>6. Weight(k)[f] \in Nat
    BY WeightNat
  <2> QED BY <1>1, <1>2, <1>4, <2>2, <2>4, <2>5, <2>6
<1> QED BY <1>3, <1>4, OwnPasses

\* Below a directory that has not told its own totals nothing was entered, ...
LEMMA BelowNone ==
  ASSUME Types, Shape, NEW d \in Dirs, scan[d].at \notin Told \/ scan[d].next = 1,
         NEW x \in Under(d), x # d
  PROVE  scan[x].at = "none" /\ scan[x].next = 1
<1> DEFINE S == {y \in Under(d) : y # d /\ scan[y].at # "none"}
<1>1. S = {}
  <2>1. SUFFICES ASSUME S # {} PROVE FALSE
    OBVIOUS
  <2>2. PICK c \in S : c # Root => Up(c) \notin S
    <3>1. S \subseteq Dirs
      BY UnderIs
    <3> HIDE DEF S
    <3> QED BY <2>1, <3>1, Topmost
  <2>3. c \in Dirs /\ c # Root /\ Up(c) \in Under(d) /\ c \in scan[Up(c)].kids /\ scan[Up(c)].at \in Told
    BY UnderIs DEF Shape
  <2>4. Up(c) = d
    BY <2>2, <2>3 DEF Told
  <2>5. scan[d].kids # {} /\ scan[d].at \in Told
    BY <2>3, <2>4
  <2> QED BY <2>5, OwnEarly
<1>2. scan[x].at = "none" /\ x \in Dirs
  BY <1>1, UnderIs
<1> QED BY <1>2 DEF Shape, Early

\* ... and below one that is summed all is done.
LEMMA BelowDone ==
  ASSUME Types, Shape, NEW d \in Dirs, scan[d].at \in Summed, NEW x \in Under(d), x # d
  PROVE  scan[x].at = "done" \/ (scan[x].at = "none" /\ scan[x].next = 1)
<1> DEFINE S == {y \in Under(d) : y # d /\ scan[y].at \notin {"none", "done"}}
<1>1. S = {}
  <2>1. SUFFICES ASSUME S # {} PROVE FALSE
    OBVIOUS
  <2>2. PICK c \in S : c # Root => Up(c) \notin S
    <3>1. S \subseteq Dirs
      BY UnderIs
    <3> HIDE DEF S
    <3> QED BY <2>1, <3>1, Topmost
  <2>3. c \in Dirs /\ c # Root /\ Up(c) \in Under(d) /\ c \in scan[Up(c)].kids /\ scan[Up(c)].at \in Told /\ Up(c) \in Dirs
    BY UnderIs, UpIs DEF Shape
  <2>4. scan[Up(c)].at \in Summed
    BY <2>2, <2>3 DEF Told, Summed
  <2>5. scan[c].at = "done"
    BY <2>3, <2>4 DEF Shape
  <2> QED BY <2>5
<1>2. scan[x].at \in {"none", "done"} /\ x \in Dirs
  BY <1>1, UnderIs
<1> QED BY <1>2 DEF Shape, Early

LEMMA OwnsNat ==
  ASSUME Types, NEW k, NEW d \in Dirs
  PROVE  Total(Owns(k), d) \in Nat /\ \A x \in Under(d) : Owns(k)[x] = Own(k, x) /\ Own(k, x) \in Nat /\ Owns(k)[x] \in Nat
<1>1. \A x \in Under(d) : Owns(k)[x] = Own(k, x) /\ Own(k, x) \in Nat
  BY OwnNat, UnderIs
<1> QED BY <1>1, TotalNat

LEMMA OwnsZero ==
  ASSUME Types, Shape, NEW k, NEW d \in Dirs, scan[d].next = 1
  PROVE  Total(Owns(k), d) = 0 /\ Own(k, d) = 0
<1>1. Owns(k)[d] = 0 /\ Own(k, d) = 0
  BY OwnEarly, OwnNat
<1>2. \A x \in Under(d) : x # d => Owns(k)[x] = 0
  BY BelowNone, OwnEarly, OwnNat, UnderIs
<1>3. Total(Owns(k), d) = Owns(k)[d]
  BY <1>1, <1>2, TotalAlone
<1> QED BY <1>1, <1>3

\* A directory's totals are its own until it is summed, and those of all
\* under it then.
TotalOf(k, d) ==
  IF scan[d].at \in Summed THEN Total(Owns(k), d)
  ELSE IF k = "dirs" THEN 0 ELSE Own(k, d)
Tallied == \A d \in Dirs, k \in Sums : scan[d].total[k] = TotalOf(k, d)

LEMMA TalliedInit ==
  ASSUME Init
  PROVE  Tallied
<1>1. Types /\ Shape
  BY TypesInit, ShapeInit
<1>2. ASSUME NEW d \in Dirs, NEW k \in Sums PROVE scan[d].total[k] = TotalOf(k, d)
  <2>1. scan[d].next = 1 /\ scan[d].total = Zero /\ scan[d].at \notin Summed
    BY DEF Init, Unscanned, Summed
  <2>2. Zero[k] = 0
    BY DEF Zero, Sums
  <2> QED BY <1>1, <2>1, <2>2, OwnEarly DEF TotalOf
<1> QED BY <1>2 DEF Tallied

LEMMA OwnsSame ==
  ASSUME NEW k, \A x \in Dirs : Own(k, x)' = Own(k, x)
  PROVE  Owns(k)' = Owns(k) /\ \A d : Total(Owns(k), d)' = Total(Owns(k), d)
<1>1. Owns(k)' = Owns(k)
  BY DEF Owns
<1> QED BY <1>1 DEF Total

LEMMA ScanOwns ==
  ASSUME Types, Shape, Linkage, NEW d \in Dirs, ScanStep(d),
         \A x \in Dirs : scan'[x].next = scan[x].next /\ scan'[x].kids = scan[x].kids
  PROVE  \A k : /\ Owns(k)' = Owns(k) /\ \A x \in Dirs : Own(k, x)' = Own(k, x)
                /\ \A x : Total(Owns(k), x)' = Total(Owns(k), x)
<1>1. \A x \in Dirs : \A k : Own(k, x)' = Own(k, x)
  BY ChargedStays, OwnSame
<1> QED BY <1>1, OwnsSame

LEMMA TalliedTurn ==
  ASSUME Types, Shape, Linkage, Tallied, NEW d \in Dirs, ScanStep(d),
         NEW at, NEW total, TurnsTo(d, at, total)
  PROVE  Tallied'
<1>1. /\ \A x \in Dirs \ {d} : scan'[x] = scan[x]
      /\ scan'[d].at = at /\ scan'[d].next = scan[d].next /\ scan'[d].kids = scan[d].kids
      /\ scan'[d].total = total
      /\ total.alloc = scan[d].total.alloc /\ total.files = scan[d].total.files
      /\ total.dirs = scan[d].total.dirs
      /\ <<scan[d].at, at>> \in Turns
  BY TurnIs
<1>2. scan[d].at \notin Summed /\ (at \in Summed => scan[d].at \in Early)
  BY <1>1 DEF Turns, Summed, Early
<1>3. \A x \in Dirs : scan'[x].next = scan[x].next /\ scan'[x].kids = scan[x].kids
  BY <1>1
<1>4. \A k : /\ \A x \in Dirs : Own(k, x)' = Own(k, x)
             /\ \A x : Total(Owns(k), x)' = Total(Owns(k), x)
  BY <1>3, ScanOwns
<1>5. ASSUME NEW k \in Sums PROVE scan'[d].total[k] = TotalOf(k, d)'
  <2>1. total[k] = scan[d].total[k]
    BY <1>1 DEF Sums
  <2>2. scan[d].total[k] = IF k = "dirs" THEN 0 ELSE Own(k, d)
    BY <1>2 DEF Tallied, TotalOf
  <2>3. at \in Summed => Total(Owns(k), d) = 0 /\ Own(k, d) = 0
    BY <1>2, OwnsZero DEF Shape
  <2> QED BY <1>1, <1>4, <2>1, <2>2, <2>3 DEF TotalOf
<1>6. ASSUME NEW x \in Dirs, x # d, NEW k \in Sums PROVE scan'[x].total[k] = TotalOf(k, x)'
  <2>1. scan'[x] = scan[x]
    BY <1>1, <1>6
  <2>2. scan[x].total[k] = TotalOf(k, x)
    BY DEF Tallied
  <2> QED BY <1>4, <2>1, <2>2 DEF TotalOf
<1> QED BY <1>5, <1>6 DEF Tallied

LEMMA TalliedPass ==
  ASSUME Types, Shape, Linkage, Tallied, Types', NEW d \in Dirs, ScanStep(d),
         NEW kids, NEW total, Passes(d, kids, total)
  PROVE  Tallied'
<1>1. /\ \A x \in Dirs \ {d} : scan'[x] = scan[x]
      /\ scan'[d].at = "looking" /\ scan[d].at = "looking" /\ scan'[d].total = total
  BY PassIs
<1>2. \A i \in DOMAIN links : links'[i].charged = links[i].charged
  BY ChargedStays
<1>3. \A x \in Dirs \ {d} : \A k : Own(k, x)' = Own(k, x)
  BY <1>1, <1>2, OwnSame
<1>4. ASSUME NEW k \in Sums PROVE scan'[d].total[k] = TotalOf(k, d)'
  <2>1. scan[d].total[k] = (IF k = "dirs" THEN 0 ELSE Own(k, d))
    BY <1>1 DEF Tallied, TotalOf, Summed
  <2>2. TotalOf(k, d)' = (IF k = "dirs" THEN 0 ELSE Own(k, d)')
    BY <1>1 DEF TotalOf, Summed
  <2>3. CASE k = "dirs"
    <3>1. total["dirs"] = scan[d].total["dirs"]
      BY OwnGrows
    <3> QED BY <1>1, <2>1, <2>2, <2>3, <3>1
  <2>4. CASE k # "dirs"
    <3>1. k \in {"alloc", "files"}
      BY <2>4 DEF Sums
    <3>2. total[k] = scan[d].total[k] + (Own(k, d)' - Own(k, d))
      BY <3>1, OwnGrows
    <3>3. Own(k, d) \in Nat
      BY OwnNat
    <3>4. Own(k, d)' \in Nat
      <4>1. Counting(d)' \subseteq Files /\ IsFiniteSet(Counting(d)')
        <5>1. Counting(d)' \subseteq Files
          BY DEF Counting
        <5> QED BY <5>1, PathAssumption, FS_Subset
      <4>2. PICK s : s = Counting(d)'
        OBVIOUS
      <4>3. SumFunctionOnSet(Weight(k), s) \in Nat
        BY <4>1, <4>2, WeightNat, SumNat
      <4> QED BY <2>4, <4>2, <4>3 DEF Own, Weight, SizeOf
    <3> QED BY <1>1, <2>1, <2>2, <2>4, <3>2, <3>3, <3>4
  <2> QED BY <2>3, <2>4
<1>5. ASSUME NEW x \in Dirs, x # d, NEW k \in Sums PROVE scan'[x].total[k] = TotalOf(k, x)'
  <2>1. scan'[x] = scan[x] /\ scan[x].total[k] = TotalOf(k, x)
    BY <1>1, <1>5 DEF Tallied
  <2>2. CASE scan[x].at \notin Summed
    BY <1>3, <1>5, <2>1, <2>2 DEF TotalOf
  <2>3. CASE scan[x].at \in Summed
    <3>1. d \notin Under(x)
      BY <1>1, <1>5, <2>3, BelowDone
    <3>2. \A y \in Under(x) : Owns(k)'[y] = Owns(k)[y]
      BY <1>3, <3>1, UnderIs DEF Owns
    <3>3. Total(Owns(k), x)' = Total(Owns(k), x)
      <4>1. PICK g, h : g = Owns(k) /\ h = Owns(k)'
        OBVIOUS
      <4>2. Total(g, x) = Total(h, x)
        BY <3>2, <4>1, TotalSame
      <4> QED BY <4>1, <4>2 DEF Total
    <3> QED BY <2>1, <2>3, <3>3 DEF TotalOf
  <2> QED BY <2>2, <2>3
<1> QED BY <1>4, <1>5 DEF Tallied

LEMMA TalliedTell ==
  ASSUME Types, Shape, Linkage, Tallied, NEW d \in Dirs, ScanStep(d), Tells(d)
  PROVE  Tallied'
<1>1. /\ \A x \in Dirs : /\ scan'[x].next = scan[x].next /\ scan'[x].kids = scan[x].kids
                         /\ scan'[x].total = scan[x].total
      /\ scan'[d].at = IF scan[d].at = "tellOwn" THEN "below" ELSE "done"
      /\ \A x \in Dirs \ {d} :
           scan'[x].at = IF scan[d].at = "tellOwn" /\ x \in scan[d].kids THEN "called" ELSE scan[x].at
      /\ scan[d].at \in Telling
  BY AfterIs DEF Tells
<1>2. \A k : /\ \A x \in Dirs : Own(k, x)' = Own(k, x)
             /\ \A x : Total(Owns(k), x)' = Total(Owns(k), x)
  BY <1>1, ScanOwns
<1>3. ASSUME NEW x \in Dirs, NEW k \in Sums PROVE scan'[x].total[k] = TotalOf(k, x)'
  <2>1. scan'[x].total[k] = TotalOf(k, x)
    BY <1>1 DEF Tallied
  <2>2. CASE scan'[x].at \in Summed <=> scan[x].at \in Summed
    BY <1>2, <2>1, <2>2 DEF TotalOf
  <2>3. CASE ~(scan'[x].at \in Summed <=> scan[x].at \in Summed)
    <3>1. x = d /\ scan[d].at = "tellError"
      <4>1. ASSUME scan[d].at = "tellOwn", x \in scan[d].kids PROVE scan[x].at = "none"
        BY <4>1, KidIs DEF Shape, Told
      <4> QED BY <1>1, <2>3, <4>1 DEF Summed, Telling
    <3>2. scan[d].next = 1
      BY <3>1 DEF Shape, Early
    <3>3. Total(Owns(k), d) = 0 /\ Own(k, d) = 0
      BY <3>2, OwnsZero
    <3> QED BY <1>2, <2>1, <3>1, <3>3 DEF TotalOf
  <2> QED BY <2>2, <2>3
<1> QED BY <1>3 DEF Tallied

\* The sum of a directory whose directories are all done.
LEMMA SummedIs ==
  ASSUME Types, Shape, Tallied, NEW d \in Dirs, scan[d].at = "below",
         \A c \in scan[d].kids : scan[c].at = "done", NEW k \in Sums
  PROVE  RolledUp(d)[k] = Total(Owns(k), d)
<1> DEFINE kids == scan[d].kids
           h == [c \in kids |-> Total(Owns(k), c)]
<1>1. IsFiniteSet(kids) /\ kids \subseteq Below(d) /\ \A c \in kids : c \in Dirs
  BY KidIs, OwnNat DEF Below
<1>2. \A x \in Under(d) : x # d /\ (\A c \in kids : x \notin Under(c)) => Owns(k)[x] = 0
  <2>1. ASSUME NEW x \in Under(d), x # d, \A c \in kids : x \notin Under(c)
        PROVE  Owns(k)[x] = 0
    <3>1. PICK e \in Below(d) : x \in Under(e)
      BY <2>1, UnderSplits
    <3>2. e \in Dirs /\ e # Root /\ Up(e) = d /\ e \notin kids
      BY <2>1, <3>1 DEF Below
    <3>3. scan[e].at = "none"
      BY <3>2 DEF Shape
    <3>4. scan[x].next = 1 /\ x \in Dirs
      BY <3>1, <3>2, <3>3, BelowNone, UnderIs DEF Shape, Early, Told
    <3> QED BY <3>4, OwnEarly, OwnNat
  <2> QED BY <2>1
<1>3. Total(Owns(k), d) = Owns(k)[d] + SumFunctionOnSet(h, kids)
  <2> HIDE DEF kids
  <2>1. \A x \in Under(d) : Owns(k)[x] \in Nat
    BY OwnsNat
  <2> QED BY <1>1, <1>2, <2>1, TotalSplits
<1>4. \A c \in kids : scan[c].total \in Totals /\ scan[c].total[k] = Total(Owns(k), c)
  BY <1>1, ScanIs DEF Tallied, TotalOf, Summed
<1>5. scan[d].total \in Totals /\ scan[d].total[k] = IF k = "dirs" THEN 0 ELSE Own(k, d)
  BY ScanIs DEF Tallied, TotalOf, Summed
<1>7. \A c \in kids : h[c] = scan[c].total[k]
  BY <1>4
<1>6. RolledUp(d)[k] = scan[d].total[k] + SumFunctionOnSet(h, kids)
                              + IF k = "dirs" THEN Cardinality(kids) ELSE 0
  <2>1. k \in Fields
    BY DEF Fields, Sums
  <2> HIDE DEF kids
  <2> DEFINE b == scan[d].total
  <2>2. RolledUp(d) = Rolled(scan, b, kids)
    BY RolledUpIs DEF kids
  <2> HIDE DEF b, h
  <2>3. Rolled(scan, b, kids)[k] = b[k] + SumFunctionOnSet(h, kids)
                              + IF k = "dirs" THEN Cardinality(kids) ELSE 0
    BY <1>1, <1>4, <1>5, <1>7, <2>1, RolledIs DEF b
  <2> QED BY <2>2, <2>3 DEF b
<1>8. Owns(k)[d] = Own(k, d) /\ Own(k, d) \in Nat
  BY OwnNat
<1>9. SumFunctionOnSet(h, kids) \in Nat
  <2>1. \A c \in kids : h[c] \in Nat
    BY <1>1, OwnsNat
  <2> HIDE DEF h, kids
  <2> QED BY <1>1, <2>1, SumNat
<1>10. Cardinality(kids) \in Nat /\ (k = "dirs" => Own(k, d) = Cardinality(kids))
  BY <1>1, FS_CardinalityType DEF Own
<1> HIDE DEF h, kids
<1> QED BY <1>3, <1>5, <1>6, <1>7, <1>8, <1>9, <1>10

LEMMA TalliedRollUp ==
  ASSUME Types, Shape, Linkage, Tallied, NEW d \in Dirs, ScanStep(d), RollUp(d)
  PROVE  Tallied'
<1>1. /\ \A x \in Dirs \ {d} : scan'[x] = scan[x]
      /\ scan'[d].at = "tellTotal" /\ scan'[d].next = scan[d].next
      /\ scan'[d].kids = scan[d].kids /\ scan'[d].total = RolledUp(d)
      /\ scan[d].at = "below" /\ \A c \in scan[d].kids : scan[c].at = "done"
  BY RollUpIs DEF RollUp
<1>2. \A x \in Dirs : scan'[x].next = scan[x].next /\ scan'[x].kids = scan[x].kids
  BY <1>1
<1>3. \A k : /\ \A x \in Dirs : Own(k, x)' = Own(k, x)
             /\ \A x : Total(Owns(k), x)' = Total(Owns(k), x)
  BY <1>2, ScanOwns
<1>4. \A k \in Sums : scan'[d].total[k] = TotalOf(k, d)'
  BY <1>1, <1>3, SummedIs DEF TotalOf, Summed
<1>5. \A x \in Dirs \ {d}, k \in Sums : scan'[x].total[k] = TotalOf(k, x)'
  BY <1>1, <1>3 DEF Tallied, TotalOf
<1> QED BY <1>4, <1>5 DEF Tallied

LEMMA TalliedStep ==
  ASSUME Types, Shape, Linkage, Sent, Tallied, [Next]_vars
  PROVE  Tallied'
<1>1. ASSUME NEW d \in Dirs, ScanStep(d) PROVE Tallied'
  <2>1. Types'
    BY <1>1, TypesScan
  <2> QED BY <1>1, <2>1, ScanStepKinds, TalliedTurn, TalliedPass, TalliedTell, TalliedRollUp
<1>2. CASE Aggregate \/ EndSteps \/ Cancel \/ UNCHANGED vars
  <2>1. UNCHANGED <<scan, links>>
    BY <1>2, OtherSteps
  <2>2. \A k : \A x \in Dirs : Own(k, x)' = Own(k, x)
    BY <2>1 DEF Own, Counting, Past, Linked, Weight, SizeOf
  <2>3. \A k : \A x : Total(Owns(k), x)' = Total(Owns(k), x)
    BY <2>2, OwnsSame
  <2> QED BY <2>1, <2>2, <2>3 DEF Tallied, TotalOf
<1> QED BY <1>1, <1>2, NextSplits

-----------------------------------------------------------------------------
(* The queue.                                                              *)

Message(d) == [dir |-> d, totals |-> scan[d].total, last |-> scan[d].at # "tellOwn"]

\* How a step of a scan moves one: not at all as far as its totals are told,
\* to its end when nothing was read, or on as it tells its totals.
Rests(x) ==
  /\ scan[x].at \in Told /\ scan'[x].at \in Told
  /\ scan'[x].next = scan[x].next /\ scan'[x].kids = scan[x].kids
  /\ (scan'[x].at = "done" <=> scan[x].at = "done")
  /\ (scan[x].at = "done" => scan'[x].total = scan[x].total)
Stays(x) == scan[x].at \notin Told /\ scan'[x].at \notin Told
Quits(x) ==
  /\ scan[x].at \in Early /\ scan[x].next = 1 /\ scan'[x].next = 1
  /\ scan'[x].kids = scan[x].kids /\ scan'[x].at = "done"
Speaks(x, from, to) ==
  /\ scan[x].at = from /\ scan'[x].at = to
  /\ scan'[x].next = scan[x].next /\ scan'[x].kids = scan[x].kids
  /\ scan'[x].total = scan[x].total

LEMMA ScanMoves ==
  ASSUME Types, Shape, NEW d \in Dirs, ScanStep(d), NEW x \in Dirs
  PROVE  \/ Stays(x) \/ Rests(x) \/ (x = d /\ Quits(x))
         \/ /\ x = d /\ (Publish(d) \/ Unpublished(d))
            /\ Speaks(x, "tellOwn", "below") \/ Speaks(x, "tellTotal", "done")
<1>0. scan[x].at \in Places /\ scan[d].at \in Places
  BY ScanIs
<1>1. ASSUME scan'[x] = scan[x] PROVE Stays(x) \/ Rests(x)
  BY <1>1 DEF Stays, Rests
<1>2. ASSUME NEW at, NEW total, TurnsTo(d, at, total)
      PROVE  Stays(x) \/ Rests(x) \/ (x = d /\ Quits(x))
  <2>1. /\ \A y \in Dirs \ {d} : scan'[y] = scan[y]
        /\ scan'[d].at = at /\ scan'[d].next = scan[d].next /\ scan'[d].kids = scan[d].kids
        /\ <<scan[d].at, at>> \in Turns
    BY <1>2, TurnIs
  <2>2. scan[d].at \notin Told /\ (at \in Told => at = "done" /\ scan[d].at \in Early)
    BY <2>1 DEF Turns, Told, Early
  <2>3. scan[d].at \in Early => scan[d].next = 1
    BY DEF Shape
  <2> QED BY <1>1, <2>1, <2>2, <2>3 DEF Stays, Quits
<1>3. ASSUME NEW kids, NEW total, Passes(d, kids, total)
      PROVE  Stays(x) \/ Rests(x)
  <2>1. /\ \A y \in Dirs \ {d} : scan'[y] = scan[y]
        /\ scan'[d].at = "looking" /\ scan[d].at = "looking"
    BY <1>3, PassIs
  <2> QED BY <1>1, <2>1 DEF Stays, Told
<1>4. CASE RollUp(d)
  <2>1. /\ \A y \in Dirs \ {d} : scan'[y] = scan[y]
        /\ scan'[d].at = "tellTotal" /\ scan'[d].next = scan[d].next
        /\ scan'[d].kids = scan[d].kids /\ scan[d].at = "below"
    BY <1>4, RollUpIs DEF RollUp
  <2>2. x = d => Rests(x)
    BY <2>1 DEF Rests, Told
  <2> QED BY <1>1, <2>1, <2>2
<1>5. CASE Tells(d) /\ (Publish(d) \/ Unpublished(d))
  <2>1. /\ \A y \in Dirs : /\ scan'[y].next = scan[y].next /\ scan'[y].kids = scan[y].kids
                           /\ scan'[y].total = scan[y].total
        /\ scan'[d].at = IF scan[d].at = "tellOwn" THEN "below" ELSE "done"
        /\ \A y \in Dirs \ {d} :
             scan'[y].at = IF scan[d].at = "tellOwn" /\ y \in scan[d].kids THEN "called" ELSE scan[y].at
        /\ scan[d].at \in Telling
    BY <1>5, AfterIs DEF Tells
  <2>2. CASE x # d
    <3>1. CASE scan[d].at = "tellOwn" /\ x \in scan[d].kids
      <4>1. x # Root /\ Up(x) = d
        BY <3>1, KidIs
      <4>2. scan[x].at = "none"
        BY <3>1, <4>1 DEF Shape, Told
      <4> QED BY <2>1, <2>2, <3>1, <4>2 DEF Stays, Told
    <3>2. CASE ~(scan[d].at = "tellOwn" /\ x \in scan[d].kids)
      BY <2>1, <2>2, <3>2 DEF Stays, Rests
    <3> QED BY <3>1, <3>2
  <2>3. CASE x = d /\ scan[d].at = "tellError"
    <3>1. scan[d].next = 1
      BY <2>3 DEF Shape, Early
    <3> QED BY <2>1, <2>3, <3>1 DEF Quits, Early
  <2>4. CASE x = d /\ scan[d].at # "tellError"
    BY <1>5, <2>1, <2>4 DEF Speaks, Telling
  <2> QED BY <2>2, <2>3, <2>4
<1> QED BY <1>2, <1>3, <1>4, <1>5, ScanStepKinds

\* What a step of a scan does to the queue.
LEMMA QueueMoves ==
  ASSUME Types, Shape, NEW d \in Dirs, ScanStep(d)
  PROVE  /\ limited => limited'
         /\ \/ channel' = channel
            \/ Publish(d) /\ channel' = Append(channel, Message(d)) /\ scan[d].at \in Telling
         /\ ~limited' /\ scan[d].at \in {"tellOwn", "tellTotal"} /\ (Publish(d) \/ Unpublished(d)) =>
              channel' = Append(channel, Message(d))
<1>1. CASE Publish(d) \/ Unpublished(d)
  <2>1. scan[d].at \in Telling /\ (Unpublished(d) => channel' = channel)
    BY <1>1 DEF Publish, Unpublished, inventory
  <2> QED BY <1>1, <2>1, TellIs DEF Message
<1>2. CASE RollUp(d)
  <2>1. scan[d].at = "below" /\ UNCHANGED <<limited, channel>>
    BY <1>2 DEF RollUp, shared, inventory
  <2> QED BY <2>1
<1>3. CASE PassBy(d) \/ Descend(d) \/ CountFile(d) \/ FirstLink(d) \/ NextLink(d)
  <2>1. scan[d].at = "looking"
    BY <1>3 DEF PassBy, Descend, Enterable, CountFile, FirstLink, NextLink, IsAt
  <2>2. channel' = channel
    BY <1>3 DEF PassBy, Descend, CountFile, FirstLink, NextLink, inventory
  <2>3. limited => limited'
    <3>1. CASE CountFile(d)
      BY <3>1 DEF CountFile, OutOfMemory
    <3> QED BY <1>3, <3>1 DEF PassBy, Descend, FirstLink, NextLink
  <2> QED BY <2>1, <2>2, <2>3
<1>4. CASE TurnBack(d) \/ Begin(d) \/ NoRoom(d) \/ LinkForgotten(d) \/ EndListing(d)
  <2>1. scan[d].at \in {"called", "listed", "looking"}
    BY <1>4 DEF TurnBack, Begin, NoRoom, LinkForgotten, EndListing, Enterable, IsAt
  <2>2. channel' = channel
    BY <1>4 DEF TurnBack, Begin, NoRoom, LinkForgotten, EndListing, inventory
  <2>3. limited => limited'
    BY <1>4 DEF TurnBack, Begin, NoRoom, LinkForgotten, EndListing, Breaks, OutOfMemory, shared
  <2> QED BY <2>1, <2>2, <2>3
<1>5. CASE \E outcome : List(d, outcome) \/ Fail(d, outcome) \/ Leave(d, outcome)
  <2>1. scan[d].at = "called" /\ channel' = channel /\ (limited => limited')
    BY <1>5 DEF List, Fail, Leave, OutOfMemory, inventory, shared
  <2> QED BY <2>1
<1> QED BY <1>1, <1>2, <1>3, <1>4, <1>5 DEF ScanStep

LEMMA Appends ==
  ASSUME Types, NEW m, channel' = Append(channel, m)
  PROVE  /\ DOMAIN channel = 1..Len(channel) /\ Len(channel) \in Nat
         /\ DOMAIN channel' = DOMAIN channel \cup {Len(channel) + 1}
         /\ channel'[Len(channel) + 1] = m
         /\ \A k \in DOMAIN channel : channel'[k] = channel[k] /\ k < Len(channel) + 1
<1>1. channel \in Seq(Messages)
  BY DEF Types
<1>2. DOMAIN channel = 1..Len(channel) /\ Len(channel) \in Nat
  BY <1>1
<1>3. DOMAIN channel' = 1..(Len(channel) + 1)
  BY <1>1, <1>2
<1>4. channel'[Len(channel) + 1] = m /\ \A k \in DOMAIN channel : channel'[k] = channel[k]
  BY <1>1, <1>2
<1> QED BY <1>2, <1>3, <1>4

\* Messages say what their directories have; own totals come before those of
\* anything below, and all that is below comes before the last totals.
LastQueued(d) == \E k \in DOMAIN channel : channel[k].dir = d /\ channel[k].last
Holds(m) ==
  IF m.last THEN scan[m.dir].at = "done" /\ m.totals = scan[m.dir].total
  ELSE /\ scan[m.dir].at \in Told
       /\ \A k \in Sums : m.totals[k] = IF k = "dirs" THEN 0 ELSE Own(k, m.dir)
InOrder(m, n) ==
  /\ n.last \/ m.dir \notin Under(n.dir)
  /\ m.last => n.dir \notin Under(m.dir)
Queue ==
  /\ \A k \in DOMAIN channel : Holds(channel[k])
  /\ \A j, k \in DOMAIN channel : j < k => InOrder(channel[j], channel[k])

LEMMA RestsOwn ==
  ASSUME Types, Shape, Linkage, NEW d \in Dirs, ScanStep(d), NEW x \in Dirs, ~Stays(x)
  PROVE  \A k : Own(k, x)' = Own(k, x)
<1>1. scan'[x].next = scan[x].next /\ scan'[x].kids = scan[x].kids
  BY ScanMoves DEF Rests, Quits, Speaks
<1> QED BY <1>1, ChargedStays, OwnSame

LEMMA HoldsStill ==
  ASSUME Types, Shape, Linkage, NEW d \in Dirs, ScanStep(d), NEW m \in Messages, Holds(m)
  PROVE  Holds(m)'
<1>1. m.dir \in Dirs /\ scan[m.dir].at \in Told
  BY DEF Messages, Holds, Told
<1>2. \/ Rests(m.dir) \/ Speaks(m.dir, "tellTotal", "done")
  BY <1>1, ScanMoves DEF Stays, Quits, Early, Told, Speaks
<1>3. \A k : Own(k, m.dir)' = Own(k, m.dir)
  BY <1>1, RestsOwn DEF Stays
<1> QED BY <1>2, <1>3 DEF Holds, Rests, Speaks, Told

LEMMA QueueScan ==
  ASSUME Types, Shape, Linkage, Tallied, Queue, NEW d \in Dirs, ScanStep(d)
  PROVE  Queue'
<1>1. \A k \in DOMAIN channel : channel[k] \in Messages /\ channel[k].dir \in Dirs /\ Holds(channel[k])
  <2>1. \A k \in DOMAIN channel : channel[k] \in Messages
    BY DEF Types
  <2> QED BY <2>1 DEF Messages, Queue
<1>2. ASSUME NEW k \in DOMAIN channel PROVE scan[channel[k].dir].at \in Told /\ channel[k].dir \in Dirs
  BY <1>1 DEF Holds, Told
<1>3. \A m \in Messages : Holds(m) => Holds(m)'
  BY HoldsStill
<1>4. CASE channel' = channel
  BY <1>1, <1>3, <1>4 DEF Queue, InOrder
<1>5. CASE Publish(d) /\ channel' = Append(channel, Message(d)) /\ scan[d].at \in Telling
  <2>0. PICK m : m = Message(d)
    OBVIOUS
  <2> DEFINE n == Len(channel) + 1
  <2>1. m.dir = d /\ m.totals = scan[d].total /\ (m.last <=> scan[d].at # "tellOwn")
    BY <2>0 DEF Message
  <2>2. /\ DOMAIN channel' = DOMAIN channel \cup {n} /\ channel'[n] = m
        /\ \A k \in DOMAIN channel : channel'[k] = channel[k] /\ k < n /\ k \in Nat
        /\ n \in Nat
    BY <1>5, <2>0, Appends
  <2>3. Holds(m)'
    <3>1. scan'[d].at = (IF scan[d].at = "tellOwn" THEN "below" ELSE "done") /\ scan'[d].total = scan[d].total
      BY <1>5, TellIs, AfterIs
    <3>2. scan[d].at = "tellOwn" => \A k \in Sums : scan[d].total[k] = IF k = "dirs" THEN 0 ELSE Own(k, d)'
      <4>1. scan[d].at = "tellOwn" => ~Stays(d)
        BY <3>1 DEF Stays, Told
      <4> QED BY <4>1, RestsOwn DEF Tallied, TotalOf, Summed
    <3> QED BY <2>1, <3>1, <3>2 DEF Holds, Told
  <2>4. ASSUME NEW j \in DOMAIN channel PROVE InOrder(channel[j], m)
    <3> DEFINE e == channel[j].dir
    <3>1. scan[e].at \in Told /\ e \in Dirs
      BY <1>2
    <3>2. CASE scan[d].at = "tellOwn" /\ e \in Under(d)
      <4>1. scan[d].at \notin Told
        BY <3>2 DEF Told
      <4>2. e # d => scan[e].at = "none"
        BY <3>2, <4>1, BelowNone
      <4> QED BY <3>1, <4>1, <4>2 DEF Told
    <3>3. CASE channel[j].last /\ d \in Under(e)
      <4>1. scan[e].at = "done"
        BY <1>1, <3>3 DEF Holds
      <4>2. scan[d].at \in {"none", "done"}
        BY <3>1, <3>3, <4>1, BelowDone DEF Summed
      <4> QED BY <1>5, <4>2 DEF Telling
    <3> QED BY <2>1, <3>2, <3>3 DEF InOrder
  <2>5. PICK c : c = channel'
    OBVIOUS
  <2>8. ASSUME NEW k \in DOMAIN c PROVE Holds(c[k])'
    <3>1. c[k] = m \/ (k \in DOMAIN channel /\ c[k] = channel[k])
      BY <2>2, <2>5
    <3> QED BY <1>1, <1>3, <2>3, <3>1
  <2>6. ASSUME NEW j \in DOMAIN channel', NEW k \in DOMAIN channel', j < k
        PROVE  InOrder(channel'[j], channel'[k])
    <3>1. j \in DOMAIN channel
      BY <2>2, <2>6
    <3>2. CASE k = n
      BY <2>2, <2>4, <3>1, <3>2
    <3>3. CASE k \in DOMAIN channel
      BY <2>2, <2>6, <3>1, <3>3 DEF Queue
    <3> QED BY <2>2, <3>2, <3>3
  <2>7. \A a, b : InOrder(a, b) => InOrder(a, b)'
    BY DEF InOrder
  <2> QED BY <2>5, <2>6, <2>8 DEF Queue, InOrder
<1> QED BY <1>4, <1>5, QueueMoves

LEMMA QueueStep ==
  ASSUME Types, Shape, Linkage, Sent, Tallied, Queue, [Next]_vars
  PROVE  Queue'
<1>1. ASSUME NEW d \in Dirs, ScanStep(d) PROVE Queue'
  BY <1>1, QueueScan
<1>2. CASE Aggregate \/ EndSteps \/ Cancel \/ UNCHANGED vars
  <2>1. UNCHANGED <<scan, links>> /\ (channel' = channel \/ (channel # <<>> /\ channel' = Tail(channel)))
    BY <1>2, OtherSteps
  <2>2. ASSUME NEW m, Holds(m) PROVE Holds(m)'
    <3>1. \A k : Own(k, m.dir)' = Own(k, m.dir)
      BY <2>1 DEF Own, Counting, Past, Linked, Weight, SizeOf
    <3> QED BY <2>1, <2>2, <3>1 DEF Holds
  <2>3. CASE channel' = channel
    BY <2>2, <2>3 DEF Queue, InOrder
  <2>4. CASE channel # <<>> /\ channel' = Tail(channel)
    <3>1. /\ DOMAIN channel' = 1..(Len(channel) - 1) /\ Len(channel) \in Nat \ {0}
          /\ \A k \in DOMAIN channel' : k + 1 \in DOMAIN channel /\ channel'[k] = channel[k + 1]
      BY <2>4, ChannelParts
    <3>4. PICK c : c = channel'
      OBVIOUS
    <3>2. \A k \in DOMAIN c : Holds(c[k])'
      BY <2>2, <3>1, <3>4 DEF Queue
    <3>3. \A j, k \in DOMAIN channel' : j < k => InOrder(channel'[j], channel'[k])
      BY <3>1 DEF Queue
    <3> QED BY <3>2, <3>3, <3>4 DEF Queue, InOrder
  <2> QED BY <2>1, <2>3, <2>4
<1> QED BY <1>1, <1>2, NextSplits

-----------------------------------------------------------------------------
(* As long as memory lasts.                                                *)

LEMMA ToEnd ==
  ASSUME Types, Shape, NEW d \in Dirs, ScanStep(d), NEW x \in Dirs, scan'[x].at = "tellOwn"
  PROVE  /\ scan'[x].next = scan[x].next
         /\ scan[x].at = "tellOwn" \/ (x = d /\ scan[d].at = "looking")
<1>1. ASSUME NEW at, NEW total, TurnsTo(d, at, total)
      PROVE  scan'[x].next = scan[x].next /\ (scan[x].at = "tellOwn" \/ (x = d /\ scan[d].at = "looking"))
  <2>1. /\ \A y \in Dirs \ {d} : scan'[y] = scan[y]
        /\ scan'[d].at = at /\ scan'[d].next = scan[d].next /\ <<scan[d].at, at>> \in Turns
    BY <1>1, TurnIs
  <2> QED BY <2>1 DEF Turns
<1>2. ASSUME NEW kids, NEW total, Passes(d, kids, total)
      PROVE  scan'[x].next = scan[x].next /\ (scan[x].at = "tellOwn" \/ (x = d /\ scan[d].at = "looking"))
  <2>1. (\A y \in Dirs \ {d} : scan'[y] = scan[y]) /\ scan'[d].at = "looking"
    BY <1>2, PassIs
  <2> QED BY <2>1
<1>3. CASE RollUp(d)
  BY <1>3, RollUpIs
<1>4. CASE Tells(d)
  <2>1. /\ \A y \in Dirs : scan'[y].next = scan[y].next
        /\ scan'[d].at = IF scan[d].at = "tellOwn" THEN "below" ELSE "done"
        /\ \A y \in Dirs \ {d} :
             scan'[y].at = IF scan[d].at = "tellOwn" /\ y \in scan[d].kids THEN "called" ELSE scan[y].at
    BY <1>4, AfterIs
  <2> QED BY <2>1
<1> QED BY <1>1, <1>2, <1>3, <1>4, ScanStepKinds

\* Only a listing that was read to its end is told.
LEMMA ReadToEnd ==
  ASSUME Types, Shape, NEW d \in Dirs, ScanStep(d), ~limited', scan[d].at = "looking", scan'[d].at = "tellOwn"
  PROVE  scan[d].next = Len(Listing[d]) + 1
<1>1. ~(\E kids, total : Passes(d, kids, total))
  BY PassIs
<1>2. ~(PassBy(d) \/ Descend(d) \/ CountFile(d) \/ FirstLink(d) \/ NextLink(d))
  BY <1>1, PassByPasses, DescendPasses, CountFilePasses, FirstLinkPasses, NextLinkPasses
<1>3. ~(NoRoom(d) \/ LinkForgotten(d))
  BY NoRoomTurns, ForgottenTurns
<1>4. ~(TurnBack(d) \/ Begin(d) \/ Publish(d) \/ Unpublished(d) \/ RollUp(d))
  BY DEF TurnBack, Begin, Publish, Unpublished, RollUp, Telling
<1>5. ~(\E outcome : List(d, outcome) \/ Fail(d, outcome) \/ Leave(d, outcome))
  BY DEF List, Fail, Leave
<1>6. EndListing(d)
  BY <1>2, <1>3, <1>4, <1>5 DEF ScanStep
<1>7. scan[d].next > Len(Listing[d])
  BY <1>6, EndListingTurns
<1> QED BY <1>7, PastIs, ListingIs

Ends == \A d \in Dirs :
          /\ scan[d].at \in {"tellOwn", "below", "tellTotal"} => scan[d].next = Len(Listing[d]) + 1
          /\ scan[d].at = "done" => scan[d].next \in {1, Len(Listing[d]) + 1}

LEMMA EndsScan ==
  ASSUME Types, Shape, Ends, NEW d \in Dirs, ScanStep(d), ~limited'
  PROVE  Ends'
<1>1. ASSUME NEW x \in Dirs
      PROVE  /\ scan'[x].at \in {"tellOwn", "below", "tellTotal"} => scan'[x].next = Len(Listing[x]) + 1
             /\ scan'[x].at = "done" => scan'[x].next \in {1, Len(Listing[x]) + 1}
  <2>1. CASE scan'[x].at = "tellOwn"
    BY <2>1, ToEnd, ReadToEnd DEF Ends
  <2>2. CASE scan'[x].at \in Told
    <3>1. ~Stays(x)
      BY <2>2 DEF Stays
    <3>2. CASE Rests(x)
      BY <3>2 DEF Rests, Ends, Told
    <3>3. CASE Quits(x)
      BY <3>3 DEF Quits
    <3>4. CASE Speaks(x, "tellOwn", "below") \/ Speaks(x, "tellTotal", "done")
      BY <3>4 DEF Speaks, Ends
    <3> QED BY <3>1, <3>2, <3>3, <3>4, ScanMoves
  <2> QED BY <2>1, <2>2 DEF Told
<1> QED BY <1>1 DEF Ends

LEMMA QueuedSame ==
  ASSUME channel' = channel
  PROVE  \A x : IsQueued(x)' = IsQueued(x) /\ LastQueued(x)' = LastQueued(x)
BY DEF IsQueued, LastQueued

LEMMA QueuedMore ==
  ASSUME Types, NEW d \in Dirs, channel' = Append(channel, Message(d))
  PROVE  \A x : /\ IsQueued(x)' <=> IsQueued(x) \/ (x = d /\ scan[d].at = "tellOwn")
                /\ LastQueued(x)' <=> LastQueued(x) \/ (x = d /\ scan[d].at # "tellOwn")
<1>0. PICK m : m = Message(d)
  OBVIOUS
<1>1. m.dir = d /\ (m.last <=> scan[d].at # "tellOwn")
  BY <1>0 DEF Message
<1>2. /\ DOMAIN channel' = DOMAIN channel \cup {Len(channel) + 1} /\ channel'[Len(channel) + 1] = m
      /\ \A k \in DOMAIN channel : channel'[k] = channel[k]
  BY <1>0, Appends
<1> QED BY <1>1, <1>2 DEF IsQueued, LastQueued

\* While the own totals of a directory are queued, those of all that was read
\* below are, too.
Hushed ==
  \A k \in DOMAIN channel : ~channel[k].last =>
    \A x \in Under(channel[k].dir) : scan[x].next > 1 =>
      /\ scan[x].at \in Told => IsQueued(x)
      /\ scan[x].at = "done" => LastQueued(x)

LEMMA HushedScan ==
  ASSUME Types, Shape, Linkage, Tallied, Queue, Hushed, NEW d \in Dirs, ScanStep(d), ~limited'
  PROVE  Hushed'
<1>1. \A x : (IsQueued(x) => IsQueued(x)') /\ (LastQueued(x) => LastQueued(x)')
  BY QueueMoves, QueuedSame, QueuedMore
<1>2. ASSUME Speaks(d, "tellOwn", "below") \/ Speaks(d, "tellTotal", "done"), Publish(d) \/ Unpublished(d)
      PROVE  channel' = Append(channel, Message(d))
  BY <1>2, QueueMoves DEF Speaks
<1>3. ASSUME NEW y \in Dirs, ~(\E j \in DOMAIN channel : channel[j].dir = y /\ ~channel[j].last) => scan[d].at = "tellOwn" /\ y = d,
             NEW x \in Under(y), scan'[x].next > 1,
             scan[y].at \notin Told => y = d /\ channel' = Append(channel, Message(d)) /\ scan[d].at = "tellOwn"
      PROVE  /\ scan'[x].at \in Told => IsQueued(x)'
             /\ scan'[x].at = "done" => LastQueued(x)'
  <2>0. x \in Dirs
    BY UnderIs
  <2>1. CASE Stays(x)
    BY <2>1 DEF Stays, Told
  <2>2. CASE Quits(x)
    BY <1>3, <2>2 DEF Quits
  <2>3. CASE Rests(x)
    <3>1. CASE scan[y].at \in Told
      <4>1. \E j \in DOMAIN channel : channel[j].dir = y /\ ~channel[j].last
        BY <1>3, <3>1 DEF Told
      <4> QED BY <1>1, <1>3, <2>3, <4>1 DEF Hushed, Rests
    <3>2. CASE scan[y].at \notin Told
      <4>1. x # y => scan[x].at = "none"
        BY <3>2, BelowNone
      <4> QED BY <2>3, <3>2, <4>1 DEF Rests, Told
    <3> QED BY <3>1, <3>2
  <2>4. CASE x = d /\ (Publish(d) \/ Unpublished(d)) /\ Speaks(x, "tellOwn", "below")
    BY <1>2, <2>4, QueuedMore DEF Speaks
  <2>5. CASE x = d /\ (Publish(d) \/ Unpublished(d)) /\ Speaks(x, "tellTotal", "done")
    <3>1. LastQueued(x)'
      BY <1>2, <2>5, QueuedMore DEF Speaks
    <3>2. scan[x].at \in Told /\ scan[x].next > 1
      BY <1>3, <2>5 DEF Speaks, Told
    <3>3. CASE scan[y].at \in Told
      <4>1. \E j \in DOMAIN channel : channel[j].dir = y /\ ~channel[j].last
        BY <1>3, <3>3 DEF Told
      <4> QED BY <1>1, <3>1, <3>2, <4>1 DEF Hushed
    <3>4. CASE scan[y].at \notin Told
      <4>1. x # y => scan[x].at = "none"
        BY <3>4, BelowNone
      <4> QED BY <3>2, <3>4, <4>1 DEF Told
    <3> QED BY <3>3, <3>4
  <2> QED BY <2>0, <2>1, <2>2, <2>3, <2>4, <2>5, ScanMoves
<1>4. ASSUME NEW k \in DOMAIN channel, ~channel[k].last
      PROVE  channel[k].dir \in Dirs /\ scan[channel[k].dir].at \in Told
  <2>1. channel[k] \in Messages
    BY DEF Types
  <2> QED BY <1>4, <2>1 DEF Messages, Queue, Holds
<1>5. CASE channel' = channel
  BY <1>3, <1>4, <1>5 DEF Hushed
<1>6. CASE channel' = Append(channel, Message(d))
  <2>0. PICK m : m = Message(d)
    OBVIOUS
  <2>1. m.dir = d /\ (m.last <=> scan[d].at # "tellOwn")
    BY <2>0 DEF Message
  <2>2. /\ DOMAIN channel' = DOMAIN channel \cup {Len(channel) + 1} /\ channel'[Len(channel) + 1] = m
        /\ \A k \in DOMAIN channel : channel'[k] = channel[k]
    BY <1>6, <2>0, Appends
  <2>3. ASSUME NEW k \in DOMAIN channel', ~channel'[k].last
        PROVE  \A x \in Under(channel'[k].dir) : scan'[x].next > 1 =>
                 /\ scan'[x].at \in Told => IsQueued(x)'
                 /\ scan'[x].at = "done" => LastQueued(x)'
    <3>1. CASE k \in DOMAIN channel
      BY <1>3, <1>4, <2>2, <2>3, <3>1
    <3>2. CASE k = Len(channel) + 1
      BY <1>3, <1>6, <2>1, <2>2, <2>3, <3>2
    <3> QED BY <2>2, <3>1, <3>2
  <2> QED BY <2>3 DEF Hushed
<1> QED BY <1>5, <1>6, QueueMoves

\* What the inventory has heard of a directory: what it has itself, and how
\* many directories are entered from it, which its last totals say.
Heard(d) == scan[d].at \in Told /\ ~IsQueued(d)
Closed(d) == scan[d].at = "done" /\ ~LastQueued(d)
Got(k, d) == IF (IF k = "dirs" THEN Closed(d) ELSE Heard(d)) THEN Own(k, d) ELSE 0
Gots(k) == [d \in Dirs |-> Got(k, d)]

LEMMA GotsNat ==
  ASSUME Types, NEW k, NEW d \in Dirs
  PROVE  Total(Gots(k), d) \in Nat /\ \A x \in Under(d) : x \in Dirs /\ Gots(k)[x] = Got(k, x) /\ Gots(k)[x] \in Nat
<1>1. \A x \in Under(d) : x \in Dirs /\ Gots(k)[x] = Got(k, x) /\ Gots(k)[x] \in Nat
  BY OwnNat, UnderIs DEF Gots, Got
<1> QED BY <1>1, TotalNat

\* The inventory has what was heard.
Fits == \A d \in DOMAIN arena, k \in Sums : arena[d][k] = Total(Gots(k), d)

LEMMA FitsInit ==
  ASSUME Init
  PROVE  Fits
<1>1. Types
  BY TypesInit
<1>2. \A d \in Dirs : scan[d].at \notin Told
  BY DEF Init, Unscanned, Told
<1>3. ASSUME NEW k PROVE Gots(k)[Root] = 0 /\ (\A x \in Under(Root) : Gots(k)[x] = 0) /\ Root \in Dirs
  BY <1>2, UnderIs, WalkAssumption DEF Gots, Got, Heard, Closed, Told
<1>4. ASSUME NEW k PROVE Total(Gots(k), Root) = 0
  BY <1>3, TotalAlone
<1>5. \A k \in Sums : Zero[k] = 0
  BY DEF Sums, Zero
<1> QED BY <1>4, <1>5 DEF Init, Fits

\* A step of a scan tells nothing by itself.
LEMMA GotScan ==
  ASSUME Types, Shape, Linkage, NEW d \in Dirs, ScanStep(d), ~limited', NEW x \in Dirs, NEW k
  PROVE  Got(k, x)' = Got(k, x)
<1>1. CASE Stays(x)
  BY <1>1 DEF Stays, Got, Heard, Closed, Told
<1>2. CASE Quits(x)
  <2>1. Own(k, x)' = Own(k, x)
    BY <1>2, RestsOwn DEF Stays, Quits, Told
  <2>2. Own(k, x) = 0
    BY <1>2, OwnEarly DEF Quits
  <2> QED BY <2>1, <2>2 DEF Got
<1>3. CASE Rests(x)
  <2>1. Own(k, x)' = Own(k, x)
    BY <1>3, RestsOwn DEF Stays, Rests
  <2>2. CASE channel' = channel
    BY <1>3, <2>1, <2>2, QueuedSame DEF Got, Heard, Closed, Rests
  <2>3. CASE channel' = Append(channel, Message(d)) /\ Publish(d) /\ scan[d].at \in Telling
    <3>1. x # d
      <4>1. scan[d].at \in Told => scan[d].at = "tellTotal"
        BY <2>3 DEF Told, Telling
      <4>2. scan[d].at = "tellTotal" => scan'[d].at = "done"
        BY <2>3, TellIs, AfterIs
      <4> QED BY <1>3, <4>1, <4>2 DEF Rests
    <3>2. IsQueued(x)' = IsQueued(x) /\ LastQueued(x)' = LastQueued(x)
      <4>1. (IsQueued(x)' <=> IsQueued(x)) /\ (LastQueued(x)' <=> LastQueued(x))
        BY <2>3, <3>1, QueuedMore
      <4> QED BY <4>1 DEF IsQueued, LastQueued
    <3> QED BY <1>3, <2>1, <3>2 DEF Got, Heard, Closed, Rests
  <2> QED BY <2>2, <2>3, QueueMoves
<1>4. CASE x = d /\ (Publish(d) \/ Unpublished(d)) /\ (Speaks(x, "tellOwn", "below") \/ Speaks(x, "tellTotal", "done"))
  <2>1. Own(k, x)' = Own(k, x)
    BY <1>4, RestsOwn DEF Stays, Speaks, Told
  <2>2. channel' = Append(channel, Message(d))
    BY <1>4, QueueMoves DEF Speaks
  <2>3. /\ IsQueued(x)' <=> IsQueued(x) \/ scan[d].at = "tellOwn"
        /\ LastQueued(x)' <=> LastQueued(x) \/ scan[d].at # "tellOwn"
    BY <1>4, <2>2, QueuedMore
  <2> QED BY <1>4, <2>1, <2>3 DEF Got, Heard, Closed, Speaks, Told
<1> QED BY <1>1, <1>2, <1>3, <1>4, ScanMoves

Enters(kids) ==
  /\ DOMAIN arena' = DOMAIN arena \cup kids
  /\ \A x \in DOMAIN arena \ kids : arena'[x] = arena[x]
  /\ \A c \in kids : c \in Dirs /\ arena'[c] = Zero /\ scan[c].at = "none"

LEMMA ArenaMoves ==
  ASSUME Types, Shape, NEW d \in Dirs, ScanStep(d)
  PROVE  \E kids : Enters(kids)
<1>1. arena' = arena => Enters({})
  BY DEF Enters
<1>2. ASSUME NEW at, NEW total, TurnsTo(d, at, total) PROVE arena' = arena
  BY <1>2, TurnIs
<1>3. Tells(d) \/ RollUp(d) => arena' = arena
  BY DEF Tells, RollUp, inventory
<1>4. ASSUME NEW kids, NEW total, Passes(d, kids, total) PROVE Enters(kids)
  <2>1. /\ DOMAIN arena' = DOMAIN arena \cup kids
        /\ \A x \in DOMAIN arena \ kids : arena'[x] = arena[x]
        /\ \A x \in kids : arena'[x] = Zero
        /\ kids \subseteq {Entry(d)} \cap Dirs /\ scan[d].at = "looking" /\ scan[d].next <= Len(Listing[d])
    BY <1>4, PassIs
  <2>2. ASSUME NEW c \in kids PROVE c \in Dirs /\ scan[c].at = "none"
    <3>1. c = Entry(d) /\ c \in Dirs
      BY <2>1
    <3>2. c # Root /\ Up(c) = d
      BY <2>1, <3>1, EntryIs
    <3>3. scan[d].at \notin Told
      BY <2>1 DEF Told
    <3> QED BY <3>1, <3>2, <3>3 DEF Shape
  <2> QED BY <2>1, <2>2 DEF Enters
<1> QED BY <1>1, <1>2, <1>3, <1>4, ScanStepKinds

LEMMA FitsScan ==
  ASSUME Types, Shape, Linkage, Fits, NEW d \in Dirs, ScanStep(d), ~limited'
  PROVE  Fits'
<1>1. \A k : Gots(k)' = Gots(k)
  BY GotScan DEF Gots
<1>2. \A k, x : Total(Gots(k), x)' = Total(Gots(k), x)
  BY <1>1 DEF Total
<1>3. PICK kids : Enters(kids)
  BY ArenaMoves
<1>4. ASSUME NEW c \in kids, NEW k \in Sums PROVE Total(Gots(k), c) = 0
  <2>1. c \in Dirs /\ scan[c].at = "none"
    BY <1>3 DEF Enters
  <2>2. \A x \in Under(c) : x \in Dirs /\ scan[x].at = "none"
    BY <2>1, BelowNone, UnderIs DEF Told
  <2>3. \A x \in Under(c) : Gots(k)[x] = 0
    BY <2>2 DEF Gots, Got, Heard, Closed, Told
  <2>4. Gots(k)[c] = 0
    BY <2>1, <2>3, UnderIs
  <2> QED BY <2>1, <2>3, <2>4, TotalAlone
<1>5. \A k \in Sums : Zero[k] = 0
  BY DEF Sums, Zero
<1>6. ASSUME NEW x \in DOMAIN arena', NEW k \in Sums PROVE arena'[x][k] = Total(Gots(k), x)
  BY <1>3, <1>4, <1>5 DEF Enters, Fits
<1> QED BY <1>2, <1>6 DEF Fits

\* Taking the first message from the queue.
LEMMA QueuedLess ==
  ASSUME Types, Queue, channel # <<>>, channel' = Tail(channel), NEW m, m = Head(channel)
  PROVE  /\ m \in Messages /\ Holds(m) /\ 1 \in DOMAIN channel /\ channel[1] = m
         /\ \A x : x # m.dir => (IsQueued(x)' <=> IsQueued(x)) /\ (LastQueued(x)' <=> LastQueued(x))
         /\ m.last => ~LastQueued(m.dir)' /\ \A x \in Under(m.dir) : ~IsQueued(x)'
         /\ ~m.last => ~IsQueued(m.dir)' /\ (LastQueued(m.dir)' <=> LastQueued(m.dir))
<1>1. /\ Head(channel) = channel[1] /\ Head(channel) \in Messages /\ 1 \in DOMAIN channel
      /\ DOMAIN channel = 1..Len(channel) /\ Len(channel) \in Nat \ {0}
      /\ DOMAIN channel' = 1..(Len(channel) - 1)
      /\ \A k \in 1..(Len(channel) - 1) : k + 1 \in DOMAIN channel /\ channel'[k] = channel[k + 1]
  BY ChannelParts
<1>2. \A k \in DOMAIN channel : k # 1 => k - 1 \in DOMAIN channel' /\ channel'[k - 1] = channel[k]
  <2>1. ASSUME NEW k \in DOMAIN channel, k # 1 PROVE k - 1 \in 1..(Len(channel) - 1) /\ (k - 1) + 1 = k
    BY <1>1, <2>1
  <2> QED BY <1>1, <2>1
<1>3. \A k \in DOMAIN channel' : InOrder(m, channel'[k])
  <2>1. ASSUME NEW k \in DOMAIN channel' PROVE k + 1 \in DOMAIN channel /\ 1 < k + 1 /\ channel'[k] = channel[k + 1]
    BY <1>1
  <2> QED BY <1>1, <2>1 DEF Queue
<1>4. m \in Messages /\ m = channel[1] /\ m.dir \in Dirs /\ m.last \in BOOLEAN /\ Holds(m)
  BY <1>1 DEF Messages, Queue
<1>5. \A x : /\ IsQueued(x)' => IsQueued(x)
             /\ LastQueued(x)' => LastQueued(x)
  BY <1>1 DEF IsQueued, LastQueued
<1>6. ASSUME NEW x, x # m.dir \/ m.last, IsQueued(x) PROVE IsQueued(x)'
  <2>1. PICK k \in DOMAIN channel : channel[k].dir = x /\ ~channel[k].last
    BY <1>6 DEF IsQueued
  <2>2. k # 1
    BY <1>4, <1>6, <2>1
  <2> QED BY <1>2, <2>1, <2>2 DEF IsQueued
<1>7. ASSUME NEW x, x # m.dir \/ ~m.last, LastQueued(x) PROVE LastQueued(x)'
  <2>1. PICK k \in DOMAIN channel : channel[k].dir = x /\ channel[k].last
    BY <1>7 DEF LastQueued
  <2>2. k # 1
    BY <1>4, <1>7, <2>1
  <2> QED BY <1>2, <2>1, <2>2 DEF LastQueued
<1>8. m.dir \in Under(m.dir)
  BY <1>4, UnderIs
<1>9. m.last => ~LastQueued(m.dir)' /\ \A x \in Under(m.dir) : ~IsQueued(x)'
  BY <1>3, <1>8 DEF InOrder, IsQueued, LastQueued
<1>10. ~m.last => ~IsQueued(m.dir)'
  BY <1>3, <1>8 DEF InOrder, IsQueued
<1> QED BY <1>1, <1>4, <1>5, <1>6, <1>7, <1>9, <1>10

LEMMA HushedTail ==
  ASSUME Types, Queue, Hushed, channel # <<>>, channel' = Tail(channel), UNCHANGED scan
  PROVE  Hushed'
<1>0. PICK m : m = Head(channel)
  OBVIOUS
<1>1. ASSUME NEW k \in DOMAIN channel', ~channel'[k].last, NEW x \in Under(channel'[k].dir), scan[x].next > 1
      PROVE  /\ scan[x].at \in Told => IsQueued(x)'
             /\ scan[x].at = "done" => LastQueued(x)'
  <2>1. /\ k + 1 \in DOMAIN channel /\ channel'[k] = channel[k + 1] /\ 1 \in DOMAIN channel /\ 1 < k + 1
        /\ m = channel[1]
    BY <1>0, ChannelParts
  <2>2. InOrder(m, channel'[k])
    BY <2>1 DEF Queue
  <2>3. x # m.dir
    BY <1>1, <2>2 DEF InOrder
  <2>4. /\ scan[x].at \in Told => IsQueued(x)
        /\ scan[x].at = "done" => LastQueued(x)
    BY <1>1, <2>1 DEF Hushed
  <2> QED BY <1>0, <2>3, <2>4, QueuedLess
<1> QED BY <1>1 DEF Hushed

\* What the aggregator takes is what it has then heard of all that is below.
LEMMA HeardIs ==
  ASSUME Types, Shape, Linkage, Tallied, Queue, Hushed, channel # <<>>, channel' = Tail(channel),
         UNCHANGED <<scan, links>>, NEW m, m = Head(channel), NEW k \in Sums
  PROVE  /\ m.totals[k] = Total(Gots(k), m.dir)'
         /\ \A x \in Dirs : x # m.dir => Gots(k)'[x] = Gots(k)[x]
         /\ \A x \in Dirs : Gots(k)'[x] \in Nat
<1> DEFINE d == m.dir
<1>1. /\ m \in Messages /\ Holds(m) /\ d \in Dirs /\ 1 \in DOMAIN channel /\ channel[1] = m
      /\ \A x : x # d => (IsQueued(x)' <=> IsQueued(x)) /\ (LastQueued(x)' <=> LastQueued(x))
      /\ m.last => ~LastQueued(d)' /\ \A x \in Under(d) : ~IsQueued(x)'
      /\ ~m.last => ~IsQueued(d)' /\ (LastQueued(d)' <=> LastQueued(d))
  BY QueuedLess DEF Messages
<1>2. \A x \in Dirs : Own(k, x)' = Own(k, x) /\ Own(k, x) \in Nat
  <2>1. \A x : Own(k, x)' = Own(k, x)
    BY DEF Own, Counting, Past, Linked, Weight, SizeOf
  <2> QED BY <2>1, OwnNat
<1>3. PICK g : g = Gots(k)'
  OBVIOUS
<1>4. \A x \in Dirs : /\ g[x] = Got(k, x)'
                      /\ g[x] = IF (IF k = "dirs" THEN scan[x].at = "done" /\ ~LastQueued(x)'
                                                 ELSE scan[x].at \in Told /\ ~IsQueued(x)')
                                THEN Own(k, x) ELSE 0
                      /\ g[x] \in Nat
  BY <1>2, <1>3 DEF Gots, Got, Heard, Closed
<1>5. ASSUME NEW x \in Dirs, x # d PROVE g[x] = Gots(k)[x]
  <2>1. Gots(k)[x] = IF (IF k = "dirs" THEN scan[x].at = "done" /\ ~LastQueued(x)
                                       ELSE scan[x].at \in Told /\ ~IsQueued(x))
                     THEN Own(k, x) ELSE 0
    BY DEF Gots, Got, Heard, Closed
  <2> QED BY <1>1, <1>4, <1>5, <2>1
<1>6. CASE m.last
  <2>1. scan[d].at = "done" /\ m.totals = scan[d].total
    BY <1>1, <1>6 DEF Holds
  <2>2. ASSUME NEW x \in Under(d) PROVE g[x] = Owns(k)[x]
    <3>1. x \in Dirs
      BY <1>1, UnderIs
    <3>2. scan[x].at = "done" \/ (scan[x].at = "none" /\ scan[x].next = 1)
      BY <1>1, <2>1, BelowDone DEF Summed
    <3>3. scan[x].next = 1 => Own(k, x) = 0
      BY <3>1, OwnEarly
    <3>4. CASE scan[x].at = "done"
      <4>1. ~IsQueued(x)'
        BY <1>1, <1>6
      <4>2. ~LastQueued(x)'
        <5>1. CASE x = d
          BY <1>1, <1>6, <5>1
        <5>2. CASE x # d
          <6>1. ASSUME NEW j \in DOMAIN channel, channel[j].dir = x PROVE FALSE
            <7>1. j # 1 /\ j \in Nat /\ j > 1
              BY <1>1, <5>2, <6>1, ChannelParts
            <7>2. InOrder(m, channel[j])
              BY <1>1, <7>1 DEF Queue
            <7> QED BY <1>6, <6>1, <7>2 DEF InOrder
          <6>2. ~LastQueued(x)
            BY <6>1 DEF LastQueued
          <6> QED BY <1>1, <5>2, <6>2
        <5> QED BY <5>1, <5>2
      <4> QED BY <1>4, <3>1, <3>4, <4>1, <4>2 DEF Owns, Told
    <3>5. CASE scan[x].at = "none" /\ scan[x].next = 1
      BY <1>4, <3>1, <3>3, <3>5 DEF Owns, Told
    <3> QED BY <3>2, <3>4, <3>5
  <2>3. Total(g, d) = Total(Owns(k), d)
    BY <1>1, <2>2, TotalSame
  <2>4. scan[d].total[k] = Total(Owns(k), d)
    BY <1>1, <2>1 DEF Tallied, TotalOf, Summed
  <2> QED BY <1>3, <1>4, <1>5, <2>1, <2>3, <2>4 DEF Total
<1>7. CASE ~m.last
  <2>1. scan[d].at \in Told /\ m.totals[k] = IF k = "dirs" THEN 0 ELSE Own(k, d)
    BY <1>1, <1>7 DEF Holds
  <2>2. ASSUME NEW x \in Under(d) PROVE x # d \/ k = "dirs" => g[x] = 0
    <3>1. x \in Dirs
      BY <1>1, UnderIs
    <3>2. scan[x].next \in Nat \ {0} /\ (scan[x].next = 1 => Own(k, x) = 0)
      BY <3>1, OwnEarly, ScanIs
    <3>3. scan[x].next > 1 => /\ scan[x].at \in Told => IsQueued(x)
                              /\ scan[x].at = "done" => LastQueued(x)
      BY <1>1, <1>7 DEF Hushed
    <3>4. CASE scan[x].next = 1
      BY <1>4, <3>1, <3>2, <3>4
    <3>5. CASE scan[x].next > 1
      BY <1>1, <1>4, <1>7, <3>1, <3>3, <3>5
    <3> QED BY <3>2, <3>4, <3>5
  <2>3. g[d] = m.totals[k]
    BY <1>1, <1>4, <1>7, <2>1, <2>2, UnderIs
  <2>4. Total(g, d) = g[d]
    BY <1>1, <1>4, <2>2, TotalAlone
  <2> QED BY <1>3, <1>4, <1>5, <2>3, <2>4 DEF Total
<1> QED BY <1>6, <1>7

LEMMA FitsAggregate ==
  ASSUME Types, Shape, Linkage, Tallied, Sent, Queue, Hushed, Fits, Aggregate
  PROVE  Fits'
<1>1. PICK m : m = Head(channel)
  OBVIOUS
<1>2. /\ m \in Messages /\ m.dir \in DOMAIN arena /\ m.totals \in Totals
      /\ DOMAIN arena' = DOMAIN arena
      /\ \A x \in DOMAIN arena :
           arena'[x] = IF x = m.dir THEN m.totals
                       ELSE IF x \in Line[m.dir] THEN Plus(Minus(arena[x], arena[m.dir]), m.totals)
                       ELSE arena[x]
  BY <1>1, AggregateIs
<1>3. channel # <<>> /\ channel' = Tail(channel) /\ UNCHANGED <<scan, links>>
  BY DEF Aggregate, shared
<1> DEFINE d == m.dir
<1>4. d \in Dirs /\ DOMAIN arena \subseteq Dirs /\ \A x \in DOMAIN arena : arena[x] \in Totals
  BY <1>2 DEF Types
<1>5. ASSUME NEW k \in Sums, NEW x \in DOMAIN arena PROVE arena'[x][k] = Total(Gots(k), x)'
  <2>0. PICK g, h : g = Gots(k) /\ h = Gots(k)'
    OBVIOUS
  <2>1. \A y : Total(Gots(k), y)' = Total(h, y)
    BY <2>0 DEF Total
  <2>2. /\ m.totals[k] = Total(h, d)
        /\ \A y \in Dirs : y # d => h[y] = g[y]
        /\ \A y \in Dirs : h[y] \in Nat
    BY <1>1, <1>3, <2>0, <2>1, HeardIs
  <2>3. \A y \in Dirs : g[y] \in Nat
    BY <2>0, OwnNat DEF Gots, Got
  <2>4. \A y \in DOMAIN arena : arena[y][k] = Total(g, y)
    BY <2>0 DEF Fits
  <2>5. CASE x = d
    BY <1>2, <2>1, <2>2, <2>5
  <2>6. CASE x # d /\ x \notin Line[d]
    <3>1. d \notin Under(x)
      BY <2>6 DEF Under
    <3>2. \A y \in Under(x) : g[y] = h[y]
      BY <1>4, <2>2, <3>1, UnderIs
    <3>3. Total(g, x) = Total(h, x)
      BY <1>4, <3>2, TotalSame
    <3> QED BY <1>2, <2>1, <2>4, <2>6, <3>3
  <2>7. CASE x # d /\ x \in Line[d]
    <3>1. d \in Under(x) /\ x \in Dirs
      BY <1>4, <2>7 DEF Under
    <3>2. \A y \in Under(x) \cup Under(d) : g[y] \in Nat /\ h[y] \in Nat /\ (y # d => h[y] = g[y])
      BY <1>4, <2>2, <2>3, <3>1, UnderIs
    <3>3. Total(h, x) + g[d] = Total(g, x) + h[d]
      BY <3>1, <3>2, TotalChange
    <3>4. Total(h, d) + g[d] = Total(g, d) + h[d]
      <4>1. d \in Under(d)
        BY <1>4, UnderIs
      <4> QED BY <1>4, <3>2, <4>1, TotalChange
    <3>5. Total(g, d) <= Total(g, x)
      BY <3>1, <3>2, TotalPart
    <3>6. /\ Total(g, d) \in Nat /\ Total(g, x) \in Nat /\ Total(h, d) \in Nat /\ Total(h, x) \in Nat
          /\ g[d] \in Nat /\ h[d] \in Nat
      BY <1>4, <2>2, <2>3, <3>1, <3>2, TotalNat
    <3>7. arena'[x][k] = (arena[x][k] - arena[d][k]) + m.totals[k]
      <4>1. k \in Fields
        BY DEF Fields, Sums
      <4>2. Minus(arena[x], arena[d]) \in Totals
        BY <1>2, <1>4, TotalsClosed
      <4>3. Minus(arena[x], arena[d])[k] = arena[x][k] - arena[d][k]
        <5>1. ~(arena[x][k] < arena[d][k])
          BY <1>2, <2>4, <3>5, <3>6
        <5> QED BY <1>2, <1>4, <4>1, <5>1, TotalsFields
      <4>4. arena'[x] = Plus(Minus(arena[x], arena[d]), m.totals)
        BY <1>2, <2>7
      <4> HIDE DEF d
      <4> QED BY <1>2, <4>1, <4>2, <4>3, <4>4, TotalsFields
    <3>8. arena[x][k] = Total(g, x) /\ arena[d][k] = Total(g, d)
      BY <1>2, <2>4
    <3> HIDE DEF d
    <3> QED BY <2>1, <2>2, <3>3, <3>4, <3>6, <3>7, <3>8
  <2> QED BY <2>5, <2>6, <2>7
<1>6. PICK a : a = arena'
  OBVIOUS
<1> QED BY <1>2, <1>5, <1>6 DEF Fits

Lasting == ~limited => Ends /\ Hushed /\ (result = Nobody => Fits)

LEMMA LastingInit ==
  ASSUME Init
  PROVE  Tallied /\ Queue /\ Lasting
<1>1. Tallied /\ Fits
  BY TalliedInit, FitsInit
<1>2. channel = <<>> /\ DOMAIN channel = {}
  BY DEF Init
<1>3. \A d \in Dirs : scan[d].at \in {"none", "listed"}
  BY DEF Init, Unscanned
<1>4. Ends
  BY <1>3 DEF Ends
<1> QED BY <1>1, <1>2, <1>4 DEF Queue, Lasting, Hushed

LEMMA ScanResult ==
  ASSUME Types, NEW d \in Dirs, ScanStep(d)
  PROVE  result' = result
BY ScanStepKinds DEF TurnsTo, Passes, Tells, RollUp

LEMMA LastingStep ==
  ASSUME Types, Shape, Sent, Linkage, Tallied, Queue, Lasting, [Next]_vars
  PROVE  Lasting'
<1>1. ASSUME NEW d \in Dirs, ScanStep(d), ~limited' PROVE Ends' /\ Hushed' /\ (result' = Nobody => Fits')
  <2>1. ~limited
    BY <1>1, QueueMoves
  <2>2. Ends /\ Hushed /\ (result = Nobody => Fits)
    BY <2>1 DEF Lasting
  <2> QED BY <1>1, <2>2, EndsScan, HushedScan, FitsScan, ScanResult
<1>2. ASSUME Aggregate, ~limited' PROVE Ends' /\ Hushed' /\ (result' = Nobody => Fits')
  <2>1. /\ channel # <<>> /\ channel' = Tail(channel)
        /\ UNCHANGED <<scan, links, limited, result>>
    BY <1>2 DEF Aggregate, shared
  <2>2. Ends /\ Hushed /\ (result = Nobody => Fits)
    BY <1>2, <2>1 DEF Lasting
  <2>3. Ends'
    BY <2>1, <2>2 DEF Ends
  <2> QED BY <1>2, <2>1, <2>2, <2>3, HushedTail, FitsAggregate
<1>3. ASSUME UNCHANGED <<scan, links, channel>>, limited => limited',
             result' # Nobody \/ UNCHANGED <<arena, result>>, ~limited'
      PROVE  Ends' /\ Hushed' /\ (result' = Nobody => Fits')
  <2>1. Ends /\ Hushed /\ (result = Nobody => Fits)
    BY <1>3 DEF Lasting
  <2>2. Ends'
    BY <1>3, <2>1 DEF Ends
  <2>3. Hushed'
    BY <1>3, <2>1 DEF Hushed, IsQueued, LastQueued
  <2>4. ASSUME result' = Nobody PROVE Fits'
    <3>1. \A k, x : Own(k, x)' = Own(k, x)
      BY <1>3 DEF Own, Counting, Past, Linked, Weight, SizeOf
    <3>2. \A x : IsQueued(x)' = IsQueued(x) /\ LastQueued(x)' = LastQueued(x)
      BY <1>3, QueuedSame
    <3>3. \A k : Gots(k)' = Gots(k)
      BY <1>3, <3>1, <3>2 DEF Gots, Got, Heard, Closed
    <3> QED BY <1>3, <2>1, <2>4, <3>3 DEF Fits, Total
  <2> QED BY <2>2, <2>3, <2>4
<1>4. ASSUME EndSteps \/ Cancel \/ UNCHANGED vars
      PROVE  /\ UNCHANGED <<scan, links, channel>> /\ (limited => limited')
             /\ result' # Nobody \/ UNCHANGED <<arena, result>>
  <2>1. CASE CloseUpdates \/ EndAggregator
    BY <2>1 DEF CloseUpdates, EndAggregator, shared
  <2>2. CASE Conclude
    <3>1. UNCHANGED <<scan, links, channel>>
      BY <2>2 DEF Conclude
    <3>2. limited => limited'
      BY <2>2 DEF Conclude
    <3>3. result' # Nobody
      <4>1. scan[Root].total \in Totals
        BY ScanIs, WalkAssumption
      <4>2. PICK b \in BOOLEAN : result' = [root |-> scan[Root].total, complete |-> b]
        BY <2>2 DEF Conclude
      <4> QED BY <4>1, <4>2, ResultAssumption
    <3> QED BY <3>1, <3>2, <3>3
  <2>3. CASE Cancel \/ UNCHANGED vars
    BY <2>3 DEF Cancel, vars, shared, inventory
  <2> QED BY <1>4, <2>1, <2>2, <2>3 DEF EndSteps
<1>5. ASSUME ~limited' PROVE Ends' /\ Hushed' /\ (result' = Nobody => Fits')
  BY <1>1, <1>2, <1>3, <1>4, <1>5, NextSplits
<1> QED BY <1>5 DEF Lasting

Kept == Sound /\ Tallied /\ Queue /\ Lasting

LEMMA KeptInit ==
  ASSUME Init
  PROVE  Kept
BY SoundInit, LastingInit DEF Kept

LEMMA KeptNext ==
  ASSUME Kept, [Next]_vars
  PROVE  Kept'
<1>1. Types /\ Shape /\ Sent /\ Linkage /\ Tallied /\ Queue /\ Lasting
  BY DEF Kept, Sound
<1> QED BY <1>1, SoundNext, TalliedStep, QueueStep, LastingStep DEF Kept

-----------------------------------------------------------------------------
(* Sets of files.                                                          *)

LEMMA AllocIsSum ==
  ASSUME NEW files
  PROVE  AllocOf(files) = SumFunctionOnSet(Alloc, InodesOf(files))
BY DEF AllocOf, SumFunctionOnSet, FoldFunctionOnSet, FoldSet, MapThenFoldSet

\* When no two files are of one inode, the sizes of the files add up.
LEMMA AllocOfFiles ==
  ASSUME NEW files, files \subseteq Files, \A f, g \in files : Inode[f] = Inode[g] => f = g
  PROVE  /\ AllocOf(files) = SumFunctionOnSet(Weight("alloc"), files)
         /\ Cardinality(files) = SumFunctionOnSet(Weight("files"), files)
<1>1. IsFiniteSet(files) /\ IsFiniteSet(InodesOf(files)) /\ InodesOf(files) \subseteq Inodes
  <2>1. InodesOf(files) \subseteq Inodes
    BY DEF InodesOf, Inodes
  <2> QED BY <2>1, InodesAre, FS_Subset
<1> DEFINE U == [i \in InodesOf(files) |-> {f \in files : Inode[f] = i}]
           w == Weight("alloc")
<1>2. ASSUME NEW i \in InodesOf(files)
      PROVE  \E f \in files : U[i] = {f} /\ Alloc[i] = w[f] /\ Inode[f] = i
  <2>1. PICK f \in files : Inode[f] = i
    BY DEF InodesOf
  <2> QED BY <2>1, WeightNat DEF SizeOf
<1>3. \A f \in files : f \in U[Inode[f]] /\ Inode[f] \in InodesOf(files)
  BY DEF InodesOf
<1>4. \A f \in files : w[f] \in Nat
  BY WeightNat
<1> HIDE DEF w
<1>5. \A f : SumFunctionOnSet(w, {f}) = SumFunctionOnSet(w, {}) + w[f] \/ w[f] \notin Nat
  <2>1. \A f : {} \cup {f} = {f} /\ f \notin {} /\ IsFiniteSet({})
    BY FS_EmptySet
  <2> QED BY <2>1, SumAdd
<1>6. \A f \in files : SumFunctionOnSet(w, {f}) = w[f] /\ IsFiniteSet({f})
  <2>1. ASSUME NEW f \in files PROVE SumFunctionOnSet(w, {f}) = w[f]
    <3>1. SumFunctionOnSet(w, {}) = 0 /\ w[f] \in Nat
      BY <1>4, SumEmpty
    <3> QED BY <1>5, <3>1
  <2> QED BY <2>1, FS_Singleton
<1>7. files = UNION {U[i] : i \in InodesOf(files)}
  <2>1. \A i \in InodesOf(files) : U[i] \subseteq files
    OBVIOUS
  <2> HIDE DEF U
  <2> QED BY <1>3, <2>1
<1>8. Family(w, InodesOf(files), U, Alloc)
  <2>1. \A i \in InodesOf(files) : /\ IsFiniteSet(U[i]) /\ (\A y \in U[i] : w[y] \in Nat)
                                   /\ Alloc[i] = SumFunctionOnSet(w, U[i])
    BY <1>2, <1>4, <1>6
  <2>2. \A i, j \in InodesOf(files) : i # j => U[i] \cap U[j] = {}
    OBVIOUS
  <2> HIDE DEF U
  <2> QED BY <2>1, <2>2 DEF Family
<1>9. SumFunctionOnSet(w, files) = SumFunctionOnSet(Alloc, InodesOf(files))
  <2> HIDE DEF U
  <2> QED BY <1>1, <1>7, <1>8, SumFamily
<1>10. \A f \in files : Weight("files")[f] = 1
  BY WeightNat
<1> QED BY <1>1, <1>9, <1>10, AllocIsSum, SumOfOnes DEF w

-----------------------------------------------------------------------------
(* The roll-up.                                                            *)

\* Counted files are of different inodes.
LEMMA CountedOnce ==
  ASSUME Sound, NEW f \in Files, NEW g \in Files, f \in Counting(In(f)), g \in Counting(In(g)),
         In(f) \in DOMAIN arena, In(g) \in DOMAIN arena, Inode[f] = Inode[g]
  PROVE  f = g
<1>1. CASE Linked(f)
  <2>1. Linked(g)
    BY <1>1 DEF Linked
  <2> QED BY <1>1, <2>1 DEF Counting
<1>2. CASE ~Linked(f)
  <2> DEFINE fs == {f, g}
             i == Inode[f]
  <2>1. NLink[i] \in Nat \ {0} /\ i \in Inodes
    BY InodesAre
  <2>2. NLink[i] = 1
    BY <1>2, <2>1 DEF Linked
  <2>3. \A x, y \in fs : Node[In(x)] = Node[In(y)] => In(x) = In(y)
    BY DEF Sound, Marked
  <2>4. fs \in SUBSET {x \in Files : Inode[x] = i}
    OBVIOUS
  <2>5. Cardinality(fs) <= NLink[i]
    <3> HIDE DEF fs
    <3> QED BY <2>1, <2>3, <2>4, LinkAssumption
  <2>6. f # g => Cardinality({f, g}) = 2
    <3>1. ASSUME f # g PROVE Cardinality({f} \cup {g}) = Cardinality({f}) + 1
      BY <3>1, FS_Singleton, FS_AddElement
    <3>2. Cardinality({f}) = 1 /\ {f} \cup {g} = {f, g}
      BY FS_Singleton
    <3> QED BY <3>1, <3>2
  <2> QED BY <2>2, <2>5, <2>6
<1> QED BY <1>1, <1>2

LEMMA ReceivedIs ==
  ASSUME Types, Shape, Ends, NEW d \in Dirs
  PROVE  /\ Received(d) = IF Heard(d) THEN Counting(d) ELSE {}
         /\ Received(d) \subseteq Listed(d) \cap Files /\ IsFiniteSet(Received(d))
         /\ \A k \in {"alloc", "files"} : Gots(k)[d] = SumFunctionOnSet(Weight(k), Received(d))
<1>1. scan[d].at \in Places /\ scan[d].next \in Nat \ {0} /\ Len(Listing[d]) \in Nat
  BY ScanIs, ListingIs
<1>2. Past(d) \subseteq Listed(d) /\ (scan[d].next = 1 => Past(d) = {}) /\ (scan[d].next > Len(Listing[d]) => Past(d) = Listed(d))
  BY PastIs
<1>3. Len(Listing[d]) = 0 => Listed(d) = {}
  BY ListingIs
<1>4. Received(d) = IF Heard(d) THEN Counting(d) ELSE {}
  <2>1. CASE scan[d].at \in {"looking", "tellOwn"} \/ IsQueued(d)
    BY <2>1 DEF Received, Heard, Told
  <2>2. CASE scan[d].at \in Early /\ ~IsQueued(d)
    <3>1. scan[d].next = 1
      BY <2>2 DEF Shape
    <3>2. Received(d) = {}
      BY <1>1, <1>3, <2>2, <3>1 DEF Received, Early
    <3> QED BY <2>2, <3>2 DEF Heard, Told, Early
  <2>3. CASE scan[d].at \in Told /\ ~IsQueued(d)
    <3>1. scan[d].next = 1 \/ scan[d].next = Len(Listing[d]) + 1
      BY <2>3 DEF Ends, Told
    <3>2. Received(d) = {f \in Listed(d) \cap Files :
                           /\ scan[d].next > Len(Listing[d])
                           /\ Linked(f) => links[Inode[f]].charged = f}
      BY <2>3 DEF Received, Told
    <3>3. CASE scan[d].next = Len(Listing[d]) + 1
      BY <1>1, <1>2, <2>3, <3>2, <3>3 DEF Heard, Counting
    <3>4. CASE scan[d].next = 1 /\ Len(Listing[d]) # 0
      BY <1>1, <1>2, <2>3, <3>2, <3>4 DEF Heard, Counting
    <3> QED BY <3>1, <3>3, <3>4
  <2> QED BY <1>1, <2>1, <2>2, <2>3 DEF Places, Reading
<1>5. Counting(d) \subseteq Listed(d) \cap Files /\ IsFiniteSet(Counting(d)) /\ IsFiniteSet({})
  BY <1>2, OwnNat, FS_EmptySet DEF Counting
<1>6. \A k \in {"alloc", "files"} : Gots(k)[d] = SumFunctionOnSet(Weight(k), Received(d))
  <2>1. \A k \in {"alloc", "files"} : Gots(k)[d] = IF Heard(d) THEN SumFunctionOnSet(Weight(k), Counting(d)) ELSE 0
    BY DEF Gots, Got, Own
  <2> QED BY <1>4, <2>1, SumEmpty
<1> QED BY <1>4, <1>5, <1>6

LEMMA KeptRollup ==
  ASSUME Kept
  PROVE  RollupHolds
<1>1. Sound /\ Types /\ Shape /\ Lasting
  BY DEF Kept, Sound
<1>2. ASSUME ~limited, result = Nobody, NEW d \in DOMAIN arena
      PROVE  LET files == UNION {Received(x) : x \in Under(d)}
             IN  arena[d].alloc = AllocOf(files) /\ arena[d].files = Cardinality(files)
  <2> DEFINE files == UNION {Received(x) : x \in Under(d)}
             U == [x \in Under(d) |-> Received(x)]
  <2>1. Ends /\ Fits
    BY <1>1, <1>2 DEF Lasting
  <2>2. d \in Dirs /\ IsFiniteSet(Under(d)) /\ Under(d) \subseteq Dirs
    BY <1>1, UnderIs DEF Types
  <2>3. ASSUME NEW x \in Under(d)
        PROVE  /\ Received(x) = IF Heard(x) THEN Counting(x) ELSE {}
               /\ Received(x) \subseteq Listed(x) \cap Files /\ IsFiniteSet(Received(x))
               /\ \A k \in {"alloc", "files"} : Gots(k)[x] = SumFunctionOnSet(Weight(k), Received(x))
    BY <1>1, <2>1, <2>2, ReceivedIs
  <2>4. \A x \in Under(d) : \A f \in Received(x) : f \in Files /\ In(f) = x
    BY <2>2, <2>3, InIs
  <2>5. ASSUME NEW f \in files, NEW g \in files, Inode[f] = Inode[g] PROVE f = g
    <3>1. ASSUME NEW h \in files PROVE h \in Files /\ h \in Counting(In(h)) /\ In(h) \in DOMAIN arena
      <4>1. PICK x \in Under(d) : h \in Received(x)
        OBVIOUS
      <4>2. h \in Files /\ In(h) = x /\ Heard(x) /\ h \in Counting(x) /\ x \in Dirs
        BY <2>2, <2>3, <2>4, <4>1
      <4>3. scan[x].at # "none"
        BY <4>2 DEF Heard, Told
      <4> QED BY <1>1, <4>2, <4>3, ScannedIs
    <3> HIDE DEF files
    <3> QED BY <1>1, <2>5, <3>1, CountedOnce
  <2>6. files \subseteq Files
    BY <2>4
  <2>7. ASSUME NEW k \in {"alloc", "files"}
        PROVE  SumFunctionOnSet(Weight(k), files) = arena[d][k]
    <3>1. k \in Sums
      BY DEF Sums
    <3>2. \A x \in Under(d) : /\ IsFiniteSet(U[x]) /\ (\A y \in U[x] : Weight(k)[y] \in Nat)
                              /\ Gots(k)[x] = SumFunctionOnSet(Weight(k), U[x])
      BY <2>3, <2>4, WeightNat
    <3>3. \A x, y \in Under(d) : x # y => U[x] \cap U[y] = {}
      BY <2>4
    <3>4. files = UNION {U[x] : x \in Under(d)}
      OBVIOUS
    <3> HIDE DEF U, files
    <3>5. Family(Weight(k), Under(d), U, Gots(k))
      BY <3>2, <3>3 DEF Family
    <3>6. SumFunctionOnSet(Weight(k), files) = SumFunctionOnSet(Gots(k), Under(d))
      BY <2>2, <3>4, <3>5, SumFamily
    <3> QED BY <2>1, <3>1, <3>6 DEF Fits, Total
  <2> HIDE DEF files
  <2>8. /\ AllocOf(files) = SumFunctionOnSet(Weight("alloc"), files)
        /\ Cardinality(files) = SumFunctionOnSet(Weight("files"), files)
    BY <2>5, <2>6, AllocOfFiles
  <2>9. arena[d].alloc = AllocOf(files) /\ arena[d].files = Cardinality(files)
    BY <2>7, <2>8
  <2> QED BY <2>9 DEF files
<1> QED BY <1>2 DEF RollupHolds

\* As long as memory lasts, a directory of a partial inventory has what was
\* received of it and of all under it (RollupHolds), for every tree, however
\* its directories are scanned and their totals interleave in the channel.
THEOREM WalkRollup == Spec => []RollupHolds
<1>1. Init => Kept
  BY KeptInit
<1>2. Kept /\ [Next]_vars => Kept'
  BY KeptNext
<1>3. Kept => RollupHolds
  BY KeptRollup
<1> QED BY <1>1, <1>2, <1>3, PTL DEF Spec

-----------------------------------------------------------------------------
(* The end of a walk.                                                      *)

\* Who is short of memory stops.
Halts == limited => stopped

LEMMA HaltsNext ==
  ASSUME Halts, [Next]_vars
  PROVE  Halts'
<1>1. ASSUME NEW d \in Dirs, ScanStep(d) PROVE Halts'
  <2>1. CASE TurnBack(d)
    BY <2>1 DEF TurnBack, Halts
  <2>2. CASE Begin(d)
    BY <2>2 DEF Begin, OutOfMemory, Halts, Stop
  <2>3. CASE NoRoom(d) \/ LinkForgotten(d)
    BY <2>3 DEF NoRoom, LinkForgotten, Breaks, OutOfMemory, Halts
  <2>4. CASE PassBy(d) \/ Descend(d) \/ FirstLink(d) \/ NextLink(d)
    BY <2>4 DEF PassBy, Descend, FirstLink, NextLink, Halts
  <2>5. CASE CountFile(d)
    <3>1. (UNCHANGED <<stopped, limited>>) \/ OutOfMemory
      BY <2>5 DEF CountFile
    <3> QED BY <3>1 DEF OutOfMemory, Halts
  <2>6. CASE EndListing(d) \/ Publish(d) \/ RollUp(d)
    BY <2>6 DEF EndListing, Publish, RollUp, shared, Halts
  <2>7. CASE Unpublished(d)
    BY <2>7 DEF Unpublished, OutOfMemory, Halts
  <2>8. CASE \E outcome : List(d, outcome) \/ Fail(d, outcome) \/ Leave(d, outcome)
    <3>1. (UNCHANGED <<stopped, limited>>) \/ OutOfMemory
      BY <2>8 DEF List, Fail, Leave, shared
    <3> QED BY <3>1 DEF OutOfMemory, Halts
  <2> QED BY <1>1, <2>1, <2>2, <2>3, <2>4, <2>5, <2>6, <2>7, <2>8 DEF ScanStep
<1>2. CASE Aggregate \/ CloseUpdates \/ EndAggregator
  BY <1>2 DEF Aggregate, CloseUpdates, EndAggregator, shared, Halts
<1>3. CASE Conclude
  BY <1>3 DEF Conclude, Halts
<1>4. CASE Cancel \/ UNCHANGED vars
  BY <1>4 DEF Cancel, vars, shared, Halts
<1> QED BY <1>1, <1>2, <1>3, <1>4, NextSplits DEF EndSteps

\* Everything is under the root.
LEMMA RootIsAbove == Under(Root) = Dirs
<1> DEFINE S == {x \in Dirs : x \notin Under(Root)}
<1>1. Root \in Dirs /\ Root \in Under(Root) /\ Under(Root) \subseteq Dirs
  BY UnderIs, WalkAssumption
<1>2. ASSUME S # {} PROVE FALSE
  <2>1. PICK c \in S : c # Root => Up(c) \notin S
    <3>1. S \subseteq Dirs
      OBVIOUS
    <3> HIDE DEF S
    <3> QED BY <1>2, <3>1, Topmost
  <2>2. c # Root /\ Up(c) \in Dirs
    BY <1>1, <2>1, UpIs
  <2> QED BY <1>1, <2>1, <2>2, UnderIs
<1> QED BY <1>1, <1>2

\* When the root is done nothing is scanned any more.
LEMMA AllDone ==
  ASSUME Types, Shape, scan[Root].at = "done"
  PROVE  /\ \A x \in Dirs : scan[x].at = "done" \/ (scan[x].at = "none" /\ scan[x].next = 1)
         /\ \A d \in Dirs : ~ScanStep(d)
<1>1. \A x \in Dirs : scan[x].at = "done" \/ (scan[x].at = "none" /\ scan[x].next = 1)
  BY BelowDone, RootIsAbove, WalkAssumption DEF Summed
<1>2. ASSUME NEW d \in Dirs PROVE ~ScanStep(d)
  <2>1. scan[d].at \in {"done", "none"}
    BY <1>1
  <2>2. ~(TurnBack(d) \/ Begin(d) \/ EndListing(d) \/ RollUp(d))
    BY <2>1 DEF TurnBack, Begin, EndListing, RollUp
  <2>3. ~(PassBy(d) \/ Descend(d) \/ NoRoom(d) \/ CountFile(d) \/ FirstLink(d) \/ NextLink(d) \/ LinkForgotten(d))
    BY <2>1 DEF PassBy, Descend, NoRoom, Enterable, CountFile, FirstLink, NextLink, LinkForgotten, IsAt
  <2>4. ~(Publish(d) \/ Unpublished(d))
    BY <2>1 DEF Publish, Unpublished, Telling
  <2>5. ~(\E outcome : List(d, outcome) \/ Fail(d, outcome) \/ Leave(d, outcome))
    BY <2>1 DEF List, Fail, Leave
  <2> QED BY <2>2, <2>3, <2>4, <2>5 DEF ScanStep
<1> QED BY <1>1, <1>2

Closing ==
  /\ collector \in {"sending", "closed", "joined"}
  /\ collector # "sending" => scan[Root].at = "done"
  /\ collector = "joined" => channel = <<>>
  /\ result # Nobody => collector = "joined"

LEMMA ScanCollector ==
  ASSUME Types, NEW d \in Dirs, ScanStep(d)
  PROVE  collector' = collector
BY ScanStepKinds DEF TurnsTo, Passes, Tells, RollUp, inventory

LEMMA ClosingNext ==
  ASSUME Types, Shape, Closing, [Next]_vars
  PROVE  Closing'
<1>1. ASSUME NEW d \in Dirs, ScanStep(d) PROVE Closing'
  <2>1. scan[Root].at # "done"
    BY <1>1, AllDone
  <2>2. collector' = collector /\ result' = result
    BY <1>1, ScanCollector, ScanResult
  <2> QED BY <2>1, <2>2 DEF Closing
<1>2. CASE Aggregate
  BY <1>2 DEF Aggregate, Closing
<1>3. CASE CloseUpdates
  BY <1>3 DEF CloseUpdates, NotSending, Closing
<1>4. CASE EndAggregator
  BY <1>4 DEF EndAggregator, Closing
<1>5. CASE Conclude
  BY <1>5 DEF Conclude, Closing
<1>6. CASE Cancel \/ UNCHANGED vars
  BY <1>6 DEF Cancel, vars, inventory, Closing
<1> QED BY <1>1, <1>2, <1>3, <1>4, <1>5, <1>6, NextSplits DEF EndSteps

\* The last step of a walk, and nothing after it.
LEMMA LastStep ==
  ASSUME Types, Shape, Closing, [Next]_vars
  PROVE  /\ result # Nobody => UNCHANGED vars
         /\ result' # result => Conclude
<1>1. ASSUME NEW d \in Dirs, ScanStep(d) PROVE result' = result /\ result = Nobody
  <2>1. scan[Root].at # "done"
    BY <1>1, AllDone
  <2> QED BY <1>1, <2>1, ScanResult DEF Closing
<1>2. CASE Aggregate
  BY <1>2 DEF Aggregate, Closing
<1>3. CASE CloseUpdates
  BY <1>3 DEF CloseUpdates, Closing
<1>4. CASE EndAggregator
  BY <1>4 DEF EndAggregator, Closing
<1>5. CASE Conclude
  BY <1>5 DEF Conclude
<1>6. CASE Cancel \/ UNCHANGED vars
  BY <1>6 DEF Cancel, vars
<1> QED BY <1>1, <1>2, <1>3, <1>4, <1>5, <1>6, NextSplits DEF EndSteps

-----------------------------------------------------------------------------
(* Errors.                                                                 *)

Errors(d) == scan[d].total.errors
NoErrors == \A d \in Dirs : Errors(d) = 0

\* An error stays, and is in the sum of the directory above.
Faulty ==
  /\ \A d \in Dirs : scan[d].at \in {"none", "called"} => Errors(d) = 0
  /\ \A d \in Dirs : scan[d].at \in Summed /\ Errors(d) = 0 => \A c \in scan[d].kids : Errors(c) = 0

LEMMA ErrorsNat ==
  ASSUME Types, NEW d \in Dirs
  PROVE  Errors(d) \in Nat
BY ScanIs DEF Errors, Totals

LEMMA FileErrors ==
  ASSUME Types, NEW d \in Dirs, NEW f \in Files
  PROVE  Plus(scan[d].total, File(Inode[f])).errors = Errors(d)
<1>1. scan[d].total \in Totals /\ scan[d].total.errors \in Nat
  BY ScanIs DEF Totals
<1>2. File(Inode[f]).errors = 0
  BY DEF File, Zero
<1> QED BY <1>1, <1>2 DEF Plus, Errors

LEMMA SumErrors ==
  ASSUME Types, Shape, NEW d \in Dirs
  PROVE  /\ RolledUp(d).errors \in Nat /\ Errors(d) <= RolledUp(d).errors
         /\ RolledUp(d).errors = 0 => \A c \in scan[d].kids : Errors(c) = 0
<1> DEFINE kids == scan[d].kids
           b == scan[d].total
           h == [c \in kids |-> scan[c].total["errors"]]
<1>1. IsFiniteSet(kids) /\ b \in Totals /\ \A c \in kids : c \in Dirs /\ scan[c].total \in Totals
  BY OwnNat, ScanIs
<1>2. \A c \in kids : h[c] = scan[c].total["errors"] /\ h[c] \in Nat
  BY <1>1, TotalsFields DEF Fields
<1>3. RolledUp(d) = Rolled(scan, b, kids)
  BY RolledUpIs
<1> HIDE DEF b, h, kids
<1>4. Rolled(scan, b, kids)["errors"] = b["errors"] + SumFunctionOnSet(h, kids) + IF "errors" = "dirs" THEN Cardinality(kids) ELSE 0
  <2>1. "errors" \in Fields
    BY DEF Fields
  <2> QED BY <1>1, <1>2, <2>1, RolledIs
<1>5. SumFunctionOnSet(h, kids) \in Nat /\ b["errors"] \in Nat
  <2>1. "errors" \in Fields
    BY DEF Fields
  <2> QED BY <1>1, <1>2, <2>1, SumNat, TotalsFields
<1>6. \A c \in kids : h[c] <= SumFunctionOnSet(h, kids)
  BY <1>1, <1>2, SumBound
<1>7. RolledUp(d).errors = b["errors"] + SumFunctionOnSet(h, kids)
  BY <1>3, <1>4, <1>5
<1>8. Errors(d) = b["errors"]
  BY DEF Errors, b
<1>9. ASSUME RolledUp(d).errors = 0, NEW c \in kids PROVE Errors(c) = 0
  <2>1. h[c] = 0
    BY <1>2, <1>5, <1>6, <1>7, <1>9
  <2> QED BY <1>2, <2>1 DEF Errors
<1> QED BY <1>5, <1>7, <1>8, <1>9 DEF kids

LEMMA TurnScan ==
  ASSUME Types, NEW d \in Dirs, NEW at, NEW total, TurnsTo(d, at, total)
  PROVE  (\A x \in Dirs : x # d => scan'[x] = scan[x]) /\ scan'[d].total = total
<1>1. DOMAIN scan = Dirs /\ Puts(d, State(at, scan[d].next, scan[d].kids, total))
  BY ScanIs DEF TurnsTo
<1> QED BY <1>1 DEF Puts, State

LEMMA ErrorsStay ==
  ASSUME Types, Shape, Faulty, NEW d \in Dirs, ScanStep(d)
  PROVE  /\ Errors(d)' \in Nat /\ Errors(d) <= Errors(d)'
         /\ \A x \in Dirs : x # d => Errors(x)' = Errors(x)
<1>0. Errors(d) \in Nat /\ scan[d].total \in Totals
  BY ErrorsNat, ScanIs
<1>1. ASSUME NEW at, NEW e \in Nat, TurnsTo(d, at, WithErrors(scan[d].total, e)), Errors(d) <= e
      PROVE  /\ Errors(d)' \in Nat /\ Errors(d) <= Errors(d)'
             /\ \A x \in Dirs : x # d => Errors(x)' = Errors(x)
  <2>0. PICK t : t = WithErrors(scan[d].total, e)
    OBVIOUS
  <2>1. (\A x \in Dirs : x # d => scan'[x] = scan[x]) /\ scan'[d].total = t
    <3>1. TurnsTo(d, at, t)
      BY <1>1, <2>0
    <3> QED BY <3>1, TurnScan
  <2>2. Errors(d)' = e
    <3>1. t.errors = e
      BY <2>0, ScanIs
    <3> QED BY <2>1, <3>1 DEF Errors
  <2> QED BY <1>1, <2>1, <2>2 DEF Errors
<1>2. ASSUME NEW at, TurnsTo(d, at, scan[d].total)
      PROVE  /\ Errors(d)' \in Nat /\ Errors(d) <= Errors(d)'
             /\ \A x \in Dirs : x # d => Errors(x)' = Errors(x)
  <2>0. PICK t : t = scan[d].total
    OBVIOUS
  <2>1. (\A x \in Dirs : x # d => scan'[x] = scan[x]) /\ scan'[d].total = t
    <3>1. TurnsTo(d, at, t)
      BY <1>2, <2>0
    <3> QED BY <3>1, TurnScan
  <2> QED BY <1>0, <2>0, <2>1 DEF Errors
<1>3. ASSUME NEW kids, NEW total, Passes(d, kids, total), total.errors = Errors(d)
      PROVE  /\ Errors(d)' \in Nat /\ Errors(d) <= Errors(d)'
             /\ \A x \in Dirs : x # d => Errors(x)' = Errors(x)
  <2>1. scan'[d].total = total /\ \A x \in Dirs : x # d => scan'[x] = scan[x]
    BY <1>3, PassScan
  <2> QED BY <1>0, <1>3, <2>1 DEF Errors
<1>4. CASE TurnBack(d)
  <2>1. TurnsTo(d, "done", WithErrors(scan[d].total, Errors(d)))
    BY <1>4, TurnBackTurns DEF Errors
  <2> QED BY <1>0, <1>1, <2>1
<1>5. CASE \E outcome : List(d, outcome) \/ Fail(d, outcome) \/ Leave(d, outcome)
  <2>1. Errors(d) = 0
    BY <1>5 DEF List, Fail, Leave, Faulty
  <2>2. PICK outcome : List(d, outcome) \/ Fail(d, outcome) \/ Leave(d, outcome)
    BY <1>5
  <2>3. PICK n \in Nat : n = IF outcome = "ok" THEN 0 ELSE 1
    OBVIOUS
  <2>4. \/ TurnsTo(d, "listed", WithErrors(scan[d].total, n))
        \/ TurnsTo(d, "tellError", WithErrors(scan[d].total, 1))
        \/ TurnsTo(d, "done", WithErrors(scan[d].total, 0))
    BY <2>2, <2>3, ListTurns, FailTurns, LeaveTurns
  <2>5. 0 \in Nat /\ 1 \in Nat /\ 0 <= 0 /\ 0 <= 1 /\ 0 <= n
    BY <2>3
  <2> QED BY <1>1, <2>1, <2>4, <2>5
<1>6. CASE Begin(d)
  <2>1. Errors(d) + 1 \in Nat /\ Errors(d) <= Errors(d) + 1
    BY <1>0
  <2>2. \/ TurnsTo(d, "looking", scan[d].total)
        \/ TurnsTo(d, "done", WithErrors(scan[d].total, Errors(d) + 1))
    BY <1>6, BeginTurns DEF Errors
  <2> QED BY <1>1, <1>2, <2>1, <2>2
<1>7. CASE NoRoom(d) \/ LinkForgotten(d) \/ EndListing(d)
  BY <1>2, <1>7, NoRoomTurns, ForgottenTurns, EndListingTurns
<1>8. CASE PassBy(d) \/ Descend(d) \/ NextLink(d)
  <2>1. PICK kids : Passes(d, kids, scan[d].total)
    BY <1>8, PassByPasses, DescendPasses, NextLinkPasses
  <2> QED BY <1>3, <2>1 DEF Errors
<1>9. CASE CountFile(d) \/ FirstLink(d)
  <2>1. PICK f \in Files : Passes(d, {}, Plus(scan[d].total, File(Inode[f])))
    BY <1>9, CountFilePasses, FirstLinkPasses
  <2> QED BY <1>3, <2>1, FileErrors
<1>10. CASE Publish(d) \/ Unpublished(d)
  <2>1. \A x \in Dirs : scan'[x].total = scan[x].total
    BY <1>10, TellIs, AfterIs
  <2> QED BY <1>0, <2>1 DEF Errors
<1>11. CASE RollUp(d)
  <2>1. scan'[d].total = RolledUp(d) /\ \A x \in Dirs \ {d} : scan'[x] = scan[x]
    BY <1>11, RollUpIs
  <2> QED BY <2>1, SumErrors DEF Errors
<1> QED BY <1>4, <1>5, <1>6, <1>7, <1>8, <1>9, <1>10, <1>11 DEF ScanStep

LEMMA NoErrorsBefore ==
  ASSUME Types, Shape, Faulty, NEW d \in Dirs, ScanStep(d), NoErrors'
  PROVE  NoErrors
<1>1. ASSUME NEW x \in Dirs PROVE Errors(x) = 0
  <2>1. Errors(x)' = 0 /\ Errors(x) \in Nat
    BY ErrorsNat DEF NoErrors
  <2> QED BY <2>1, ErrorsStay
<1> QED BY <1>1 DEF NoErrors

LEMMA FaultyScan ==
  ASSUME Types, Shape, Faulty, NEW d \in Dirs, ScanStep(d)
  PROVE  Faulty'
<1>1. ASSUME NEW x \in Dirs, scan'[x].at \in {"none", "called"} PROVE Errors(x)' = 0
  <2>1. x # d
    <3>1. ASSUME NEW at, NEW total, TurnsTo(d, at, total) PROVE scan'[d].at \notin {"none", "called"}
      BY <3>1, TurnIs DEF Turns
    <3>2. ASSUME NEW kids, NEW total, Passes(d, kids, total) PROVE scan'[d].at \notin {"none", "called"}
      BY <3>2, PassIs
    <3>3. Tells(d) \/ RollUp(d) => scan'[d].at \notin {"none", "called"}
      BY AfterIs, RollUpIs
    <3> QED BY <1>1, <3>1, <3>2, <3>3, ScanStepKinds
  <2>2. scan[x].at \in {"none", "called"}
    <3>1. Stays(x)
      BY <1>1, <2>1, ScanMoves DEF Rests, Told
    <3>2. scan'[x].at = scan[x].at \/ scan[x].at = "none"
      <4>1. ASSUME NEW at, NEW total, TurnsTo(d, at, total) PROVE scan'[x] = scan[x]
        BY <2>1, <4>1, TurnIs
      <4>2. ASSUME NEW kids, NEW total, Passes(d, kids, total) PROVE scan'[x] = scan[x]
        BY <2>1, <4>2, PassIs
      <4>3. RollUp(d) => scan'[x] = scan[x]
        BY <2>1, RollUpIs
      <4>4. ASSUME Tells(d) PROVE scan'[x].at = scan[x].at \/ scan[x].at = "none"
        <5>1. scan'[x].at = IF scan[d].at = "tellOwn" /\ x \in scan[d].kids THEN "called" ELSE scan[x].at
          BY <2>1, <4>4, AfterIs
        <5>2. ASSUME scan[d].at = "tellOwn", x \in scan[d].kids PROVE scan[x].at = "none"
          BY <5>2, KidIs DEF Shape, Told
        <5> QED BY <5>1, <5>2
      <4> QED BY <1>1, <4>1, <4>2, <4>3, <4>4, ScanStepKinds
    <3> QED BY <1>1, <3>2
  <2> QED BY <2>1, <2>2, ErrorsStay DEF Faulty
<1>2. ASSUME NEW x \in Dirs, scan'[x].at \in Summed, Errors(x)' = 0, NEW c \in scan'[x].kids PROVE Errors(c)' = 0
  <2>0. scan'[x].at \in Told
    BY <1>2 DEF Summed, Told
  <2>1. scan'[x].kids = scan[x].kids /\ scan'[x].next = scan[x].next
    BY <2>0, ScanMoves DEF Stays, Rests, Quits, Speaks
  <2>2. c \in scan[x].kids /\ c \in Dirs
    BY <1>2, <2>1, KidIs
  <2>3. CASE scan[x].at \in Summed
    <3>1. scan[c].at = "done"
      BY <2>2, <2>3 DEF Shape
    <3>2. c # d
      <4>1. ~(Quits(c) \/ Speaks(c, "tellOwn", "below") \/ Speaks(c, "tellTotal", "done"))
        BY <3>1 DEF Quits, Speaks, Early
      <4>2. scan[d].at # "done"
        <5>1. ASSUME scan[d].at = "done" PROVE FALSE
          <6>1. \A at : <<"done", at>> \notin Turns
            BY DEF Turns
          <6> QED BY <5>1, <6>1, ScanStepKinds DEF TurnsTo, Passes, Tells, Telling, RollUp
        <5> QED BY <5>1
      <4> QED BY <3>1, <4>2
    <3>3. Errors(x) = 0
      <4>1. Errors(x) \in Nat
        BY ErrorsNat
      <4> QED BY <1>2, <4>1, ErrorsStay
    <3> QED BY <2>2, <2>3, <3>2, <3>3, ErrorsStay DEF Faulty
  <2>4. CASE scan[x].at \notin Summed
    <3>1. CASE scan[x].next = 1
      BY <2>2, <3>1, OwnEarly
    <3>2. CASE scan[x].next # 1
      <4>1. scan[x].at \notin Early
        BY <3>2 DEF Shape
      <4>2. RollUp(d) /\ x = d
        <5>1. ASSUME NEW at, NEW total, TurnsTo(d, at, total) PROVE FALSE
          <6>1. /\ \A y \in Dirs \ {d} : scan'[y] = scan[y]
                /\ scan'[d].at = at /\ <<scan[d].at, at>> \in Turns
            BY <5>1, TurnIs
          <6> QED BY <1>2, <2>4, <4>1, <6>1 DEF Turns, Summed, Early
        <5>2. ASSUME NEW kids, NEW total, Passes(d, kids, total) PROVE FALSE
          <6>1. (\A y \in Dirs \ {d} : scan'[y] = scan[y]) /\ scan'[d].at = "looking"
            BY <5>2, PassIs
          <6> QED BY <1>2, <2>4, <6>1 DEF Summed
        <5>3. ASSUME Tells(d) PROVE FALSE
          <6>1. /\ scan'[d].at = IF scan[d].at = "tellOwn" THEN "below" ELSE "done"
                /\ \A y \in Dirs \ {d} :
                     scan'[y].at = IF scan[d].at = "tellOwn" /\ y \in scan[d].kids THEN "called" ELSE scan[y].at
                /\ scan[d].at \in Telling
            BY <5>3, AfterIs DEF Tells
          <6> QED BY <1>2, <2>4, <4>1, <6>1 DEF Telling, Summed, Early
        <5>4. ASSUME RollUp(d), x # d PROVE FALSE
          BY <1>2, <2>4, <5>4, RollUpIs
        <5> QED BY <5>1, <5>2, <5>3, <5>4, ScanStepKinds
      <4>3. scan'[d].total = RolledUp(d)
        BY <4>2, RollUpIs
      <4>4. Errors(c) = 0 /\ c # d
        <5>1. RolledUp(d).errors = 0
          BY <1>2, <4>2, <4>3 DEF Errors
        <5> QED BY <2>2, <4>2, <5>1, SumErrors, KidIs
      <4> QED BY <2>2, <4>4, ErrorsStay
    <3> QED BY <3>1, <3>2
  <2> QED BY <2>3, <2>4
<1> QED BY <1>1, <1>2 DEF Faulty

\* A walk without errors tells of none.
Clean ==
  result = Nobody /\ NoErrors =>
    /\ \A k \in DOMAIN channel : channel[k].totals.errors = 0
    /\ \A d \in DOMAIN arena : arena[d].errors = 0

LEMMA CleanStep ==
  ASSUME Types, Shape, Sent, Closing, Faulty, Clean, [Next]_vars
  PROVE  Faulty' /\ Clean'
<1>1. ASSUME NEW d \in Dirs, ScanStep(d) PROVE Clean'
  <2>1. SUFFICES ASSUME result' = Nobody, NoErrors'
                 PROVE  /\ \A k \in DOMAIN channel' : channel'[k].totals.errors = 0
                        /\ \A x \in DOMAIN arena' : arena'[x].errors = 0
    BY DEF Clean
  <2>2. result = Nobody /\ NoErrors
    BY <1>1, <2>1, ScanResult, NoErrorsBefore
  <2>3. /\ \A k \in DOMAIN channel : channel[k].totals.errors = 0
        /\ \A x \in DOMAIN arena : arena[x].errors = 0
    BY <2>2 DEF Clean
  <2>4. \A x \in DOMAIN arena' : arena'[x].errors = 0
    <3>1. PICK kids : Enters(kids)
      BY <1>1, ArenaMoves
    <3> QED BY <2>3, <3>1 DEF Enters, Zero
  <2>5. CASE channel' = channel
    BY <2>3, <2>4, <2>5
  <2>6. CASE channel' = Append(channel, Message(d))
    <3>0. PICK m : m = Message(d)
      OBVIOUS
    <3>1. m.totals.errors = 0
      BY <2>2, <3>0 DEF Message, NoErrors, Errors
    <3>2. /\ DOMAIN channel' = DOMAIN channel \cup {Len(channel) + 1} /\ channel'[Len(channel) + 1] = m
          /\ \A k \in DOMAIN channel : channel'[k] = channel[k]
      BY <2>6, <3>0, Appends
    <3> QED BY <2>3, <2>4, <3>1, <3>2
  <2> QED BY <1>1, <2>5, <2>6, QueueMoves
<1>2. ASSUME UNCHANGED scan PROVE Faulty' /\ (NoErrors' <=> NoErrors)
  BY <1>2 DEF Faulty, NoErrors, Errors
<1>3. CASE Aggregate
  <2>0. UNCHANGED <<scan, result>>
    BY <1>3 DEF Aggregate
  <2>1. SUFFICES ASSUME result = Nobody, NoErrors
                 PROVE  /\ \A k \in DOMAIN channel' : channel'[k].totals.errors = 0
                        /\ \A x \in DOMAIN arena' : arena'[x].errors = 0
    BY <1>2, <2>0 DEF Clean
  <2>2. /\ \A k \in DOMAIN channel : channel[k].totals.errors = 0
        /\ \A x \in DOMAIN arena : arena[x].errors = 0
    BY <2>1 DEF Clean
  <2>3. PICK m : m = Head(channel)
    OBVIOUS
  <2>4. /\ m \in Messages /\ m.dir \in DOMAIN arena /\ m.totals \in Totals
        /\ DOMAIN arena' = DOMAIN arena
        /\ \A x \in DOMAIN arena :
             arena'[x] = IF x = m.dir THEN m.totals
                         ELSE IF x \in Line[m.dir] THEN Plus(Minus(arena[x], arena[m.dir]), m.totals)
                         ELSE arena[x]
    BY <1>3, <2>3, AggregateIs
  <2>5. channel # <<>> /\ channel' = Tail(channel)
    BY <1>3 DEF Aggregate
  <2>6. m = channel[1] /\ 1 \in DOMAIN channel /\ \A k \in DOMAIN channel' : k + 1 \in DOMAIN channel /\ channel'[k] = channel[k + 1]
    BY <2>3, <2>5, ChannelParts
  <2>7. m.totals["errors"] = 0
    BY <2>2, <2>6
  <2>8. ASSUME NEW x \in DOMAIN arena PROVE arena'[x]["errors"] = 0
    <3>1. arena[x] \in Totals /\ arena[m.dir] \in Totals /\ "errors" \in Fields
      BY <2>4 DEF Types, Fields
    <3>2. Minus(arena[x], arena[m.dir]) \in Totals
      BY <3>1, TotalsClosed
    <3>3. Minus(arena[x], arena[m.dir])["errors"] = 0
      <4>1. arena[x]["errors"] = 0 /\ arena[m.dir]["errors"] = 0
        BY <2>2, <2>4
      <4> QED BY <3>1, <4>1, TotalsFields
    <3>4. Plus(Minus(arena[x], arena[m.dir]), m.totals)["errors"] = 0
      BY <2>4, <2>7, <3>1, <3>2, <3>3, TotalsFields
    <3> QED BY <2>2, <2>4, <2>7, <3>4
  <2> QED BY <2>2, <2>4, <2>6, <2>8
<1>4. CASE EndSteps \/ Cancel \/ UNCHANGED vars
  <2>1. UNCHANGED <<scan, channel>> /\ (result' # Nobody \/ UNCHANGED <<arena, result>>)
    <3>1. CASE CloseUpdates \/ EndAggregator
      BY <3>1 DEF CloseUpdates, EndAggregator
    <3>2. CASE Conclude
      <4>1. scan[Root].total \in Totals
        BY ScanIs, WalkAssumption
      <4>2. PICK b \in BOOLEAN : result' = [root |-> scan[Root].total, complete |-> b]
        BY <3>2 DEF Conclude
      <4>3. result' # Nobody
        BY <4>1, <4>2, ResultAssumption
      <4> QED BY <3>2, <4>3 DEF Conclude
    <3>3. CASE Cancel \/ UNCHANGED vars
      BY <3>3 DEF Cancel, vars, inventory
    <3> QED BY <1>4, <3>1, <3>2, <3>3 DEF EndSteps
  <2> QED BY <1>2, <2>1 DEF Clean
<1>5. CASE Aggregate \/ EndSteps \/ Cancel \/ UNCHANGED vars
  <2>1. UNCHANGED scan
    BY <1>5, OtherSteps
  <2> QED BY <1>2, <1>3, <1>4, <1>5, <2>1
<1> QED BY <1>1, <1>5, FaultyScan, NextSplits

LEMMA RootClean ==
  ASSUME Types, Shape, Faulty, scan[Root].at = "done", Errors(Root) = 0
  PROVE  NoErrors
<1> DEFINE S == {x \in Dirs : Errors(x) # 0}
<1>1. ASSUME S # {} PROVE FALSE
  <2>1. PICK c \in S : c # Root => Up(c) \notin S
    <3>1. S \subseteq Dirs
      OBVIOUS
    <3> HIDE DEF S
    <3> QED BY <1>1, <3>1, Topmost
  <2>2. c \in Dirs /\ c # Root /\ Up(c) \in Dirs /\ Errors(Up(c)) = 0
    BY <2>1, UpIs
  <2>3. scan[c].at = "done"
    BY <2>1, <2>2, AllDone DEF Faulty
  <2>4. c \in scan[Up(c)].kids /\ scan[Up(c)].at \in Told
    BY <2>2, <2>3 DEF Shape
  <2>5. scan[Up(c)].at = "done"
    BY <2>2, <2>4, AllDone DEF Told
  <2> QED BY <2>1, <2>2, <2>4, <2>5 DEF Faulty, Summed
<1> QED BY <1>1 DEF NoErrors

-----------------------------------------------------------------------------
(* What is not entered.                                                    *)

\* A directory the walk is past was excluded, which is counted, or is a mount
\* point, or its mark is there; and marks are of directories that are in the
\* inventory or were skipped.
Excludes == unwalked.excluded # 0
Passed ==
  \A d \in Dirs : \A c \in Past(d) \cap Dirs :
    /\ c \in Excluded => Excludes
    /\ c \notin Excluded \cup MountPoints => Node[c] \in seenDirs
MarksAre == ~limited => seenDirs \subseteq {Node[x] : x \in DOMAIN arena \cup Skipped}

LEMMA MarksGrow ==
  ASSUME Types, NEW d \in Dirs, ScanStep(d)
  PROVE  seenDirs \subseteq seenDirs' /\ (Excludes => Excludes')
<1>0. unwalked \in [excluded : Nat, aliases : Nat, mounts : Nat, dataless : Nat]
  BY DEF Types
<1>1. CASE UNCHANGED <<seenDirs, unwalked>>
  BY <1>1 DEF Excludes
<1>2. CASE TurnBack(d) \/ Begin(d) \/ CountFile(d) \/ FirstLink(d) \/ NextLink(d) \/ LinkForgotten(d)
  BY <1>1, <1>2 DEF TurnBack, Begin, CountFile, FirstLink, NextLink, LinkForgotten
<1>3. CASE EndListing(d) \/ Publish(d) \/ Unpublished(d) \/ RollUp(d)
  BY <1>1, <1>3 DEF EndListing, Publish, Unpublished, RollUp, shared
<1>4. CASE Descend(d) \/ NoRoom(d)
  BY <1>4 DEF Descend, NoRoom, Excludes
<1>5. CASE PassBy(d)
  <2>1. PICK kind \in {"excluded", "mounts", "aliases"} : unwalked' = [unwalked EXCEPT ![kind] = @ + 1] /\ seenDirs' = seenDirs
    <3> DEFINE c == Entry(d)
               kind == IF c \in Excluded THEN "excluded"
                       ELSE IF c \in MountPoints THEN "mounts"
                       ELSE IF Seen(c) THEN "aliases" ELSE "none"
    <3>1. kind # "none" /\ unwalked' = [unwalked EXCEPT ![kind] = @ + 1] /\ seenDirs' = seenDirs
      BY <1>5 DEF PassBy
    <3>2. kind # "none" => kind \in {"excluded", "mounts", "aliases"}
      <4> HIDE DEF c
      <4> QED OBVIOUS
    <3> HIDE DEF kind
    <3> QED BY <3>1, <3>2
  <2>2. unwalked'.excluded = unwalked.excluded \/ unwalked'.excluded = unwalked.excluded + 1
    BY <1>0, <2>1
  <2>3. unwalked.excluded \in Nat
    BY <1>0
  <2> QED BY <2>1, <2>2, <2>3 DEF Excludes
<1>6. ASSUME NEW outcome, List(d, outcome) \/ Fail(d, outcome) \/ Leave(d, outcome)
      PROVE  seenDirs \subseteq seenDirs' /\ (Excludes => Excludes')
  <2>1. CASE List(d, outcome)
    BY <1>1, <2>1 DEF List, shared
  <2>2. CASE Fail(d, outcome)
    <3>1. seenDirs' = seenDirs /\ unwalked'.excluded = unwalked.excluded
      BY <1>0, <2>2 DEF Fail
    <3> QED BY <3>1 DEF Excludes
  <2>3. CASE Leave(d, outcome)
    <3>1. seenDirs' = seenDirs /\ unwalked'.excluded = unwalked.excluded
      BY <1>0, <2>3 DEF Leave
    <3> QED BY <3>1 DEF Excludes
  <2> QED BY <1>6, <2>1, <2>2, <2>3
<1> QED BY <1>2, <1>3, <1>4, <1>5, <1>6 DEF ScanStep

\* What more the walk is past after a step.
LEMMA PastMore ==
  ASSUME Types, Shape, NEW d \in Dirs, ScanStep(d), NEW x \in Dirs, NEW c \in Past(x)', c \notin Past(x)
  PROVE  /\ x = d /\ c = Entry(d) /\ Past(d)' = Past(d) \cup {c}
         /\ PassBy(d) \/ Descend(d) \/ CountFile(d) \/ FirstLink(d) \/ NextLink(d)
<1>1. PICK e : e = Entry(d)
  OBVIOUS
<1>2. ASSUME NEW y \in Dirs, scan'[y].next = scan[y].next PROVE Past(y)' = Past(y)
  BY <1>2, PastSame
<1>3. PICK kids, total : Passes(d, kids, total)
  <2>1. ASSUME NEW at, NEW total, TurnsTo(d, at, total) PROVE FALSE
    BY <1>2, <2>1, TurnIs
  <2>2. ~Tells(d) /\ ~RollUp(d)
    BY <1>2, AfterIs, RollUpIs
  <2> QED BY <2>1, <2>2, ScanStepKinds
<1>4. (\A y \in Dirs : y # d => scan'[y] = scan[y]) /\ scan'[d].next = scan[d].next + 1
  BY <1>3, PassScan
<1>5. x = d /\ Past(d)' = Past(d) \cup {e}
  BY <1>1, <1>2, <1>4, PastGrows
<1>6. scan[d].at = "looking" /\ scan'[d].at = "looking"
  BY <1>3, PassIs
<1>7. ~(\E at, t : TurnsTo(d, at, t))
  <2>1. ASSUME NEW at, NEW t, TurnsTo(d, at, t) PROVE FALSE
    <3>1. scan'[d].at = at /\ <<scan[d].at, at>> \in Turns
      BY <2>1, TurnIs
    <3> QED BY <1>6, <3>1 DEF Turns
  <2> QED BY <2>1
<1>8. ~(TurnBack(d) \/ Begin(d) \/ Publish(d) \/ Unpublished(d) \/ RollUp(d))
  BY <1>6 DEF TurnBack, Begin, Publish, Unpublished, RollUp, Telling
<1>9. ~(\E outcome : List(d, outcome) \/ Fail(d, outcome) \/ Leave(d, outcome))
  BY <1>6 DEF List, Fail, Leave
<1>10. ~(NoRoom(d) \/ EndListing(d) \/ LinkForgotten(d))
  BY <1>7, NoRoomTurns, EndListingTurns, ForgottenTurns
<1> QED BY <1>1, <1>5, <1>8, <1>9, <1>10 DEF ScanStep

LEMMA PassedScan ==
  ASSUME Types, Shape, Passed, NEW d \in Dirs, ScanStep(d)
  PROVE  Passed'
<1>1. seenDirs \subseteq seenDirs' /\ (Excludes => Excludes')
  BY MarksGrow
<1>2. PICK e : e = Entry(d)
  OBVIOUS
<1>3. ASSUME NEW x \in Dirs, NEW c \in Past(x)' \cap Dirs, c \notin Past(x)
      PROVE  c = e /\ x = d /\ (PassBy(d) \/ Descend(d))
  <2>1. /\ x = d /\ c = e
        /\ PassBy(d) \/ Descend(d) \/ CountFile(d) \/ FirstLink(d) \/ NextLink(d)
    BY <1>2, <1>3, PastMore
  <2>2. e \notin Files
    BY <1>3, <2>1, PathAssumption
  <2> QED BY <1>2, <2>1, <2>2 DEF CountFile, FirstLink, NextLink, IsAt
<1>4. ASSUME PassBy(d) PROVE (e \in Excluded => Excludes') /\ (e \notin Excluded \cup MountPoints => Node[e] \in seenDirs)
  <2>0. unwalked \in [excluded : Nat, aliases : Nat, mounts : Nat, dataless : Nat]
    BY DEF Types
  <2>1. ASSUME e \in Excluded PROVE Excludes'
    <3>1. unwalked' = [unwalked EXCEPT !["excluded"] = @ + 1]
      <4> DEFINE c == Entry(d)
                 kind == IF c \in Excluded THEN "excluded"
                       ELSE IF c \in MountPoints THEN "mounts"
                       ELSE IF Seen(c) THEN "aliases" ELSE "none"
      <4>1. unwalked' = [unwalked EXCEPT ![kind] = @ + 1]
        BY <1>4 DEF PassBy
      <4>2. kind = "excluded"
        BY <1>2, <2>1
      <4> HIDE DEF kind
      <4> QED BY <4>1, <4>2
    <3>2. unwalked'.excluded = unwalked.excluded + 1 /\ unwalked.excluded \in Nat
      BY <2>0, <3>1
    <3> QED BY <3>2 DEF Excludes
  <2>2. e \notin Excluded \cup MountPoints => Node[e] \in seenDirs
    BY <1>2, <1>4 DEF PassBy, Seen
  <2> QED BY <2>1, <2>2
<1>5. ASSUME Descend(d) PROVE e \notin Excluded /\ Node[e] \in seenDirs'
  BY <1>2, <1>5, DescendPasses
<1>6. ASSUME NEW x \in Dirs, NEW c \in Past(x)' \cap Dirs
      PROVE  (c \in Excluded => Excludes') /\ (c \notin Excluded \cup MountPoints => Node[c] \in seenDirs')
  <2>1. CASE c \in Past(x)
    BY <1>1, <1>6, <2>1 DEF Passed
  <2>2. CASE c \notin Past(x)
    BY <1>1, <1>3, <1>4, <1>5, <1>6, <2>2
  <2> QED BY <2>1, <2>2
<1> QED BY <1>6 DEF Passed

LEMMA MarksScan ==
  ASSUME Types, Shape, MarksAre, NEW d \in Dirs, ScanStep(d)
  PROVE  MarksAre'
<1>1. SUFFICES ASSUME ~limited' PROVE seenDirs' \subseteq {Node[x] : x \in DOMAIN arena' \cup Skipped}
  BY DEF MarksAre
<1>2. seenDirs \subseteq {Node[x] : x \in DOMAIN arena \cup Skipped}
  BY <1>1, QueueMoves DEF MarksAre
<1>3. DOMAIN arena \subseteq DOMAIN arena'
  BY ArenaMoves DEF Enters
<1>4. CASE seenDirs' = seenDirs
  BY <1>2, <1>3, <1>4
<1>5. CASE Descend(d)
  <2>1. PICK c : c = Entry(d)
    OBVIOUS
  <2>2. seenDirs' = seenDirs \cup {Node[c]} /\ (c \in Skipped \/ c \in DOMAIN arena')
    BY <1>5, <2>1 DEF Descend
  <2> QED BY <1>2, <1>3, <2>2
<1>6. CASE NoRoom(d)
  BY <1>1, <1>6, NoRoomTurns
<1>7. CASE TurnBack(d) \/ Begin(d) \/ PassBy(d) \/ CountFile(d) \/ FirstLink(d) \/ NextLink(d) \/ LinkForgotten(d)
  BY <1>4, <1>7 DEF TurnBack, Begin, PassBy, CountFile, FirstLink, NextLink, LinkForgotten
<1>8. CASE EndListing(d) \/ Publish(d) \/ Unpublished(d) \/ RollUp(d)
  BY <1>4, <1>8 DEF EndListing, Publish, Unpublished, RollUp, shared
<1>9. CASE \E outcome : List(d, outcome) \/ Fail(d, outcome) \/ Leave(d, outcome)
  BY <1>4, <1>9 DEF List, Fail, Leave, shared
<1> QED BY <1>5, <1>6, <1>7, <1>8, <1>9 DEF ScanStep

LEMMA PassedStep ==
  ASSUME Types, Shape, Sent, Passed, MarksAre, [Next]_vars
  PROVE  Passed' /\ MarksAre'
<1>1. ASSUME NEW d \in Dirs, ScanStep(d) PROVE Passed' /\ MarksAre'
  BY <1>1, PassedScan, MarksScan
<1>2. CASE Aggregate \/ EndSteps \/ Cancel \/ UNCHANGED vars
  <2>1. UNCHANGED <<scan, seenDirs>> /\ DOMAIN arena' = DOMAIN arena
    BY <1>2, OtherSteps
  <2>2. unwalked' = unwalked /\ (limited => limited')
    <3>1. CASE Aggregate
      BY <3>1 DEF Aggregate, shared
    <3>2. CASE CloseUpdates \/ EndAggregator
      BY <3>2 DEF CloseUpdates, EndAggregator, shared
    <3>3. CASE Conclude
      BY <3>3 DEF Conclude
    <3>4. CASE Cancel \/ UNCHANGED vars
      BY <3>4 DEF Cancel, vars, shared
    <3> QED BY <1>2, <3>1, <3>2, <3>3, <3>4 DEF EndSteps
  <2>3. \A x : Past(x)' = Past(x)
    BY <2>1 DEF Past
  <2> QED BY <2>1, <2>2, <2>3 DEF Passed, MarksAre, Excludes
<1> QED BY <1>1, <1>2, NextSplits

-----------------------------------------------------------------------------
(* The least links.                                                        *)

\* The files that the walk is past, and those of them that may be named.
Read == {f \in Files : f \in Past(In(f))}
ReadNamed == {f \in Read : In(f) \notin NoTop}

\* The owner of an inode is the least of its files, and the one that is
\* offered the least of those that may be named.
LinkLeast(i) ==
  LET l == links[i]
  IN  /\ \A f \in Read : Inode[f] = i => Rank[l.owner] <= Rank[f]
      /\ \A f \in ReadNamed : Inode[f] = i => l.top # Nobody /\ Rank[l.top] <= Rank[f]
      /\ l.top # Nobody => l.top \in ReadNamed /\ Inode[l.top] = i
Leasts == \A i \in DOMAIN links : LinkLeast(i)

LEMMA ReadMore ==
  ASSUME Types, Shape, NEW d \in Dirs, ScanStep(d)
  PROVE  /\ Read \subseteq Read' /\ ReadNamed \subseteq ReadNamed'
         /\ \A f \in Read' : f \notin Read =>
              f = Entry(d) /\ In(f) = d /\ (CountFile(d) \/ FirstLink(d) \/ NextLink(d))
<1>1. \A x \in Dirs : Past(x) \subseteq Past(x)'
  BY ScanMonotone
<1>2. \A f \in Files : In(f) \in Dirs
  BY InIs
<1>3. Read \subseteq Read'
  BY <1>1, <1>2 DEF Read
<1>4. ReadNamed \subseteq ReadNamed'
  BY <1>3 DEF ReadNamed
<1>5. ASSUME NEW f \in Read', f \notin Read
      PROVE  f = Entry(d) /\ In(f) = d /\ (CountFile(d) \/ FirstLink(d) \/ NextLink(d))
  <2>1. PICK x \in Dirs : x = In(f) /\ f \in Files /\ f \in Past(x)' /\ f \notin Past(x)
    BY <1>2, <1>5 DEF Read
  <2>2. /\ x = d /\ f = Entry(d)
        /\ PassBy(d) \/ Descend(d) \/ CountFile(d) \/ FirstLink(d) \/ NextLink(d)
    BY <2>1, PastMore
  <2>3. f \notin Dirs
    BY <2>1, PathAssumption
  <2> QED BY <2>1, <2>2, <2>3 DEF PassBy, Descend, Enterable, IsAt
<1> QED BY <1>3, <1>4, <1>5

\* A linked file is read when it is met.
LEMMA ReadNow ==
  ASSUME Types, Shape, NEW d \in Dirs, ScanStep(d), NEW f, f = Entry(d),
         CountFile(d) \/ FirstLink(d) \/ NextLink(d)
  PROVE  /\ f \in Files /\ In(f) = d /\ f \in Read' /\ f \notin Read
         /\ (f \in ReadNamed' <=> d \notin NoTop)
<1>1. PICK kids, total : Passes(d, kids, total)
  BY CountFilePasses, FirstLinkPasses, NextLinkPasses
<1>2. f \in Files
  BY DEF CountFile, FirstLink, NextLink, IsAt
<1>3. f \in Past(d)'
  BY <1>1, PassScan, PastGrows
<1>4. f \notin Past(d) /\ In(f) = d
  BY <1>1, <1>2, EntryIs DEF Passes
<1> QED BY <1>2, <1>3, <1>4 DEF Read, ReadNamed

LEMMA LeastStays ==
  ASSUME Types, Shape, NEW d \in Dirs, ScanStep(d), NEW i \in DOMAIN links, LinkLeast(i),
         links'[i].owner = links[i].owner, links'[i].top = links[i].top,
         \A f \in Read' : f \notin Read => Inode[f] # i
  PROVE  LinkLeast(i)'
<1>1. \A f \in Read' : Inode[f] = i => f \in Read
  OBVIOUS
<1>2. \A f \in ReadNamed' : Inode[f] = i => f \in ReadNamed
  BY <1>1 DEF ReadNamed
<1>3. ReadNamed \subseteq ReadNamed'
  BY ReadMore
<1> QED BY <1>1, <1>2, <1>3 DEF LinkLeast

LEMMA LeastsFirst ==
  ASSUME Types, Shape, Linkage, Leasts, NEW d \in Dirs, ScanStep(d), FirstLink(d)
  PROVE  Leasts'
<1>0. PICK f, i : f = Entry(d) /\ i = Inode[f]
  OBVIOUS
<1>1. /\ f \in Files /\ Linked(f) /\ i \notin DOMAIN links
      /\ DOMAIN links' = DOMAIN links \cup {i} /\ links'[i] = NewLink(d, f)
      /\ \A j \in DOMAIN links : links'[j] = links[j]
  BY <1>0, FirstLinkPasses
<1>2. /\ In(f) = d /\ f \in Read' /\ (f \in ReadNamed' <=> d \notin NoTop)
  BY <1>0, ReadNow
<1>3. \A g \in Read' : g \notin Read => g = f
  BY <1>0, ReadMore
<1>4. ASSUME NEW j \in DOMAIN links PROVE LinkLeast(j)'
  <2>1. LinkLeast(j) /\ j # i
    BY <1>1 DEF Leasts
  <2> QED BY <1>0, <1>1, <1>3, <2>1, LeastStays
<1>5. LinkLeast(i)'
  <2>1. \A g \in Read : Inode[g] # i
    <3>1. ASSUME NEW g \in Read, Inode[g] = i PROVE FALSE
      <4>1. g \in Files /\ g \in Past(In(g)) /\ In(g) \in Dirs /\ Linked(g)
        BY <1>0, <1>1, <3>1, InIs DEF Read, Linked
      <4> QED BY <1>1, <3>1, <4>1 DEF Linkage
    <3> QED BY <3>1
  <2>2. \A g \in Read' : Inode[g] = i => g = f
    BY <1>3, <2>1
  <2>3. links'[i].owner = f /\ links'[i].top = IF d \in NoTop THEN Nobody ELSE f
    BY <1>1 DEF NewLink
  <2>4. f # Nobody /\ Rank[f] <= Rank[f]
    BY <1>1, ResultAssumption, InodesAre
  <2>5. \A g \in ReadNamed' : g \in Read' /\ In(g) \notin NoTop
    BY DEF ReadNamed
  <2> QED BY <1>0, <1>2, <2>2, <2>3, <2>4, <2>5 DEF LinkLeast
<1> QED BY <1>1, <1>4, <1>5 DEF Leasts

LEMMA LeastsNext ==
  ASSUME Types, Shape, Linkage, Leasts, NEW d \in Dirs, ScanStep(d), NextLink(d)
  PROVE  Leasts'
<1>0. PICK f, i, t : f = Entry(d) /\ i = Inode[f] /\ t = Taken(links[i], d, f)
  OBVIOUS
<1>1. /\ f \in Files /\ Linked(f) /\ i \in DOMAIN links
      /\ links' = [links EXCEPT ![i] = t]
  BY <1>0, NextLinkPasses
<1>2. /\ In(f) = d /\ f \in Read' /\ (f \in ReadNamed' <=> d \notin NoTop)
  BY <1>0, ReadNow
<1>3. \A g \in Read' : g \notin Read => g = f
  BY <1>0, ReadMore
<1>4. DOMAIN links' = DOMAIN links /\ links'[i] = t /\ \A j \in DOMAIN links \ {i} : links'[j] = links[j]
  BY <1>1
<1>5. ASSUME NEW j \in DOMAIN links, j # i PROVE LinkLeast(j)'
  <2>1. LinkLeast(j)
    BY DEF Leasts
  <2> QED BY <1>0, <1>3, <1>4, <1>5, <2>1, LeastStays
<1>6. LinkLeast(i)'
  <2> DEFINE o == links[i].owner
             p == links[i].top
  <2>1. links[i] \in LinkStates /\ o \in Files /\ p \in Files \cup {Nobody}
    BY <1>1 DEF Types, LinkStates
  <2>2. t.owner = IF o = Nobody \/ Rank[f] < Rank[o] THEN f ELSE o
    BY <1>0 DEF Taken
  <2>3. t.top = IF d \notin NoTop /\ (p = Nobody \/ Rank[f] < Rank[p]) THEN f ELSE p
    BY <1>0 DEF Taken
  <2>4. /\ \A g \in Read : Inode[g] = i => Rank[o] <= Rank[g]
        /\ \A g \in ReadNamed : Inode[g] = i => p # Nobody /\ Rank[p] <= Rank[g]
        /\ p # Nobody => p \in ReadNamed /\ Inode[p] = i
    BY <1>1 DEF Leasts, LinkLeast
  <2>5. \A g \in Files : Rank[g] \in Int
    BY InodesAre
  <2>6. f # Nobody /\ o # Nobody
    BY <1>1, <2>1, ResultAssumption
  <2>7. \A g \in Read' : g \in Files
    BY DEF Read
  <2>8. \A g \in ReadNamed' : g \in Read' /\ In(g) \notin NoTop
    BY DEF ReadNamed
  <2>9. \A g \in Read : In(g) \notin NoTop => g \in ReadNamed
    BY DEF ReadNamed
  <2>10. ReadNamed \subseteq ReadNamed'
    BY ReadMore
  <2> HIDE DEF o, p
  <2>11. ASSUME NEW g \in Read', Inode[g] = i PROVE Rank[t.owner] <= Rank[g]
    BY <1>1, <1>3, <2>1, <2>2, <2>4, <2>5, <2>6, <2>7, <2>11
  <2>12. ASSUME NEW g \in ReadNamed', Inode[g] = i PROVE t.top # Nobody /\ Rank[t.top] <= Rank[g]
    <3>1. CASE g = f
      <4>1. d \notin NoTop
        BY <1>2, <2>8, <2>12, <3>1
      <4> QED BY <1>1, <2>1, <2>3, <2>5, <2>6, <3>1, <4>1
    <3>2. CASE g # f
      <4>1. g \in Read /\ g \in ReadNamed /\ g \in Files
        BY <1>3, <2>7, <2>8, <2>9, <2>12, <3>2
      <4>2. p # Nobody /\ Rank[p] <= Rank[g] /\ p \in Files
        BY <2>1, <2>4, <2>12, <4>1
      <4> QED BY <1>1, <2>3, <2>5, <2>6, <4>1, <4>2
    <3> QED BY <3>1, <3>2
  <2>13. t.top # Nobody => t.top \in ReadNamed' /\ Inode[t.top] = i
    BY <1>0, <1>2, <2>3, <2>4, <2>10
  <2> QED BY <1>4, <2>11, <2>12, <2>13 DEF LinkLeast
<1> QED BY <1>4, <1>5, <1>6 DEF Leasts

LEMMA LeastsStep ==
  ASSUME Types, Shape, Sent, Linkage, Leasts, [Next]_vars
  PROVE  Leasts'
<1>1. ASSUME NEW d \in Dirs, ScanStep(d), ~FirstLink(d), ~NextLink(d),
             DOMAIN links' = DOMAIN links,
             \A i \in DOMAIN links : links'[i].owner = links[i].owner /\ links'[i].top = links[i].top
      PROVE  Leasts'
  <2>1. ASSUME NEW f \in Read', f \notin Read PROVE Inode[f] \notin DOMAIN links
    <3>1. f = Entry(d) /\ CountFile(d)
      BY <1>1, <2>1, ReadMore
    <3>2. ~Linked(f) /\ f \in Files
      BY <3>1, CountFilePasses
    <3>3. ASSUME Inode[f] \in DOMAIN links PROVE Linked(f)
      BY <3>3 DEF Linkage, LinkSound, Linked
    <3> QED BY <3>2, <3>3
  <2>2. ASSUME NEW i \in DOMAIN links PROVE LinkLeast(i)'
    BY <1>1, <2>1, LeastStays DEF Leasts
  <2> QED BY <1>1, <2>2 DEF Leasts
<1>2. ASSUME NEW d \in Dirs, ScanStep(d) PROVE Leasts'
  <2>1. CASE FirstLink(d)
    BY <1>2, <2>1, LeastsFirst
  <2>2. CASE NextLink(d)
    BY <1>2, <2>2, LeastsNext
  <2>3. CASE LinkForgotten(d) /\ ~FirstLink(d) /\ ~NextLink(d)
    <3>1. PICK i : \/ links' = links
                   \/ /\ i \in DOMAIN links
                      /\ links' = [links EXCEPT ![i] = [links[i] EXCEPT !.seen = @ + 1]]
                      /\ links'[i].owner = links[i].owner /\ links'[i].top = links[i].top
      BY <2>3, ForgottenLinks
    <3>2. /\ DOMAIN links' = DOMAIN links
          /\ \A j \in DOMAIN links : links'[j].owner = links[j].owner /\ links'[j].top = links[j].top
      BY <3>1 DEF Types
    <3> QED BY <1>1, <1>2, <2>3, <3>2
  <2>4. CASE links' = links /\ ~FirstLink(d) /\ ~NextLink(d)
    BY <1>1, <1>2, <2>4
  <2>5. CASE PassBy(d) \/ Descend(d) \/ CountFile(d) \/ TurnBack(d) \/ Begin(d) \/ NoRoom(d)
    <3>1. links' = links
      BY <2>5 DEF PassBy, Descend, CountFile, TurnBack, Begin, NoRoom
    <3> QED BY <2>1, <2>2, <2>4, <3>1
  <2>6. CASE EndListing(d) \/ Publish(d) \/ Unpublished(d) \/ RollUp(d)
    <3>1. links' = links
      BY <2>6 DEF EndListing, Publish, Unpublished, RollUp, shared
    <3> QED BY <2>1, <2>2, <2>4, <3>1
  <2>7. CASE \E outcome : List(d, outcome) \/ Fail(d, outcome) \/ Leave(d, outcome)
    <3>1. links' = links
      BY <2>7 DEF List, Fail, Leave, shared
    <3> QED BY <2>1, <2>2, <2>4, <3>1
  <2> QED BY <1>2, <2>1, <2>2, <2>3, <2>5, <2>6, <2>7 DEF ScanStep
<1>3. CASE Aggregate \/ EndSteps \/ Cancel \/ UNCHANGED vars
  <2>1. UNCHANGED <<scan, links>>
    BY <1>3, OtherSteps
  <2>2. Read' = Read
    BY <2>1 DEF Read, Past
  <2> QED BY <2>1, <2>2 DEF Leasts, LinkLeast, ReadNamed
<1> QED BY <1>2, <1>3, NextSplits

-----------------------------------------------------------------------------
(* The largest files.                                                      *)

\* t has as many of the files O that are not empty as there is room for, and
\* none larger is left.
Filled(O, t) ==
  /\ t \subseteq O
  /\ O # t => Cardinality(t) = TopN
  /\ \A f \in t, g \in O \ t : SizeOf(f) >= SizeOf(g)
Largest(O, t) == Filled({f \in O : ~IsEmpty(f)}, t)

LEMMA OfferedFilled ==
  ASSUME NEW O, O \subseteq Files, NEW t, Filled(O, t), Cardinality(t) <= TopN,
         NEW f \in Files, f \notin O, ~IsEmpty(f)
  PROVE  Filled(O \cup {f}, Offered(t, f))
<1> DEFINE l == Least(t)
<1>1. t \subseteq Files /\ IsFiniteSet(t) /\ Cardinality(t) \in Nat /\ TopN \in Nat /\ f \notin t
  BY InodesAre, FS_Subset, FS_CardinalityType, WalkAssumption DEF Filled
<1>2. \A g \in Files : SizeOf(g) \in Nat
  BY InodesAre
<1>3. t # {} => l \in t /\ \A g \in t : SizeOf(l) <= SizeOf(g)
  <2>1. ASSUME t # {} PROVE l \in t /\ \A g \in t : Smaller(l, g)
    BY <1>1, <2>1, LeastIs
  <2> QED BY <1>1, <1>2, <2>1 DEF Smaller
<1>4. /\ \A x \in t, g \in O \ t : SizeOf(x) >= SizeOf(g)
      /\ O # t => Cardinality(t) = TopN
      /\ t \subseteq O
  BY DEF Filled
<1> HIDE DEF l
<1>5. CASE Cardinality(t) < TopN
  <2>1. O = t
    BY <1>1, <1>4, <1>5
  <2>2. Offered(t, f) = O \cup {f}
    BY <1>5, <2>1 DEF Offered
  <2> QED BY <2>2 DEF Filled
<1>6. CASE ~(Cardinality(t) < TopN) /\ t # {} /\ SizeOf(f) > SizeOf(l)
  <2> DEFINE s == t \ {l}
             u == s \cup {f}
  <2>1. Offered(t, f) = u
    BY <1>6 DEF Offered, l
  <2>2. Cardinality(u) = TopN
    <3>1. Cardinality(s) = Cardinality(t) - 1 /\ IsFiniteSet(s)
      BY <1>1, <1>3, <1>6, FS_RemoveElement
    <3>2. f \notin s
      BY <1>1
    <3>3. Cardinality(u) = Cardinality(s) + 1
      BY <3>1, <3>2, FS_AddElement
    <3> QED BY <1>1, <1>6, <3>1, <3>3
  <2>3. ASSUME NEW x \in u, NEW g \in (O \cup {f}) \ u PROVE SizeOf(x) >= SizeOf(g)
    <3>1. g \in Files /\ x \in Files /\ l \in Files /\ f \in Files
      BY <1>1, <1>3, <1>6
    <3>2. SizeOf(g) \in Nat /\ SizeOf(x) \in Nat /\ SizeOf(l) \in Nat /\ SizeOf(f) \in Nat
      BY <1>2, <3>1
    <3>3. g = l \/ g \in O \ t
      BY <2>3
    <3>4. SizeOf(l) >= SizeOf(g)
      BY <1>3, <1>4, <1>6, <3>2, <3>3
    <3>5. SizeOf(x) >= SizeOf(l)
      BY <1>3, <1>6, <2>3, <3>2
    <3> QED BY <3>2, <3>4, <3>5
  <2>4. u \subseteq O \cup {f}
    BY <1>4
  <2> HIDE DEF u
  <2> QED BY <2>1, <2>2, <2>3, <2>4 DEF Filled
<1>7. CASE ~(Cardinality(t) < TopN) /\ ~(t # {} /\ SizeOf(f) > SizeOf(l))
  <2>1. Offered(t, f) = t
    BY <1>7 DEF Offered, l
  <2>2. Cardinality(t) = TopN
    BY <1>1, <1>7
  <2>3. ASSUME NEW x \in t, NEW g \in (O \cup {f}) \ t PROVE SizeOf(x) >= SizeOf(g)
    <3>1. CASE g \in O
      BY <1>4, <3>1
    <3>2. CASE g = f
      <4>1. SizeOf(f) <= SizeOf(l) /\ SizeOf(l) <= SizeOf(x)
        BY <1>1, <1>2, <1>3, <1>7
      <4>2. SizeOf(f) \in Nat /\ SizeOf(l) \in Nat /\ SizeOf(x) \in Nat
        BY <1>1, <1>2, <1>3
      <4> QED BY <3>2, <4>1, <4>2
    <3> QED BY <3>1, <3>2
  <2> QED BY <1>4, <2>1, <2>2, <2>3 DEF Filled
<1> QED BY <1>5, <1>6, <1>7

LEMMA OfferedLargest ==
  ASSUME NEW O, O \subseteq Files, NEW t, Largest(O, t), Cardinality(t) <= TopN,
         NEW f \in Files, f \notin O
  PROVE  Largest(O \cup {f}, Offered(t, f))
<1>1. PICK P : P = {g \in O : ~IsEmpty(g)}
  OBVIOUS
<1>2. PICK R : R = {g \in O \cup {f} : ~IsEmpty(g)}
  OBVIOUS
<1>3. Filled(P, t) /\ P \subseteq Files /\ f \notin P
  BY <1>1 DEF Largest
<1>4. CASE IsEmpty(f)
  <2>1. R = P /\ Offered(t, f) = t
    BY <1>1, <1>2, <1>4 DEF Offered
  <2> QED BY <1>2, <1>3, <2>1 DEF Largest
<1>5. CASE ~IsEmpty(f)
  <2>1. R = P \cup {f}
    BY <1>1, <1>2, <1>5
  <2>2. Filled(P \cup {f}, Offered(t, f))
    BY <1>3, <1>5, OfferedFilled
  <2> QED BY <1>2, <2>1, <2>2 DEF Largest
<1> QED BY <1>4, <1>5

\* The files with one link that are offered as they are read.
Plain == {f \in ReadNamed : ~Linked(f)}
TopIs == ~limited /\ result = Nobody => Largest(Plain, top)

LEMMA TopsInit ==
  ASSUME Init
  PROVE  TopIs
<1>1. \A f \in Files : In(f) \in Dirs
  BY InIs
<1>2. \A x \in Dirs : scan[x].next = 1
  BY DEF Init, Unscanned
<1>3. \A x \in Dirs : Past(x) = {}
  BY <1>2 DEF Past
<1>4. Plain = {} /\ top = {}
  BY <1>1, <1>3 DEF Plain, ReadNamed, Read, Init
<1> QED BY <1>4 DEF TopIs, Largest, Filled

LEMMA TopsScan ==
  ASSUME Types, Shape, TopIs, NEW d \in Dirs, ScanStep(d)
  PROVE  TopIs'
<1> SUFFICES ASSUME ~limited', result' = Nobody
             PROVE  Largest(Plain, top)'
  BY DEF TopIs
<1>1. ~limited /\ result = Nobody
  BY QueueMoves, ScanResult
<1>2. Largest(Plain, top)
  BY <1>1 DEF TopIs
<1>3. Plain \subseteq Plain' /\ Plain \subseteq Files
  BY ReadMore DEF Plain, Linked, ReadNamed, Read
<1>4. \A f \in Plain' : f \notin Plain => f = Entry(d) /\ In(f) = d /\ d \notin NoTop /\ f \in Files /\ CountFile(d)
  <2>1. ASSUME NEW f \in Plain', f \notin Plain PROVE f = Entry(d) /\ In(f) = d /\ d \notin NoTop /\ f \in Files /\ CountFile(d)
    <3>1. f \in ReadNamed' /\ ~Linked(f)
      BY <2>1 DEF Plain, Linked
    <3>2. f \in Read' /\ In(f) \notin NoTop /\ f \in Files
      BY <3>1 DEF ReadNamed, Read
    <3>3. f \notin Read
      BY <2>1, <3>1, <3>2 DEF Plain, ReadNamed
    <3>4. f = Entry(d) /\ In(f) = d /\ (CountFile(d) \/ FirstLink(d) \/ NextLink(d))
      BY <3>2, <3>3, ReadMore
    <3> QED BY <3>1, <3>2, <3>4 DEF FirstLink, NextLink
  <2> QED BY <2>1
<1>5. CASE CountFile(d)
  <2>0. PICK f : f = Entry(d)
    OBVIOUS
  <2>1. /\ f \in Files /\ ~Linked(f)
        /\ \/ top' = (IF d \in NoTop THEN top ELSE Offered(top, f))
           \/ limited'
    BY <1>5, <2>0, CountFilePasses DEF OutOfMemory
  <2>2. f \in Read' /\ f \notin Read /\ (f \in ReadNamed' <=> d \notin NoTop)
    BY <1>5, <2>0, ReadNow
  <2>3. CASE d \in NoTop
    <3>1. Plain' = Plain
      BY <1>3, <1>4, <2>3
    <3> QED BY <1>2, <2>1, <2>3, <3>1 DEF Largest, Filled, IsEmpty, SizeOf
  <2>4. CASE d \notin NoTop
    <3>1. f \in Plain' /\ f \notin Plain
      BY <2>1, <2>2, <2>4 DEF Plain, ReadNamed, Linked
    <3>2. Plain' = Plain \cup {f}
      BY <1>3, <1>4, <2>0, <3>1
    <3>3. top' = Offered(top, f)
      BY <2>1, <2>4
    <3>4. Cardinality(top) <= TopN
      BY DEF Types
    <3>5. Largest(Plain \cup {f}, Offered(top, f))
      BY <1>2, <1>3, <2>1, <3>1, <3>4, OfferedLargest
    <3> QED BY <3>2, <3>3, <3>5 DEF Largest, Filled, IsEmpty, SizeOf
  <2> QED BY <2>3, <2>4
<1>6. CASE ~CountFile(d)
  <2>1. Plain' = Plain
    BY <1>3, <1>4, <1>6
  <2>2. top' = top
    <3>1. CASE PassBy(d) \/ Descend(d) \/ FirstLink(d) \/ NextLink(d) \/ TurnBack(d) \/ Begin(d)
      BY <3>1 DEF PassBy, Descend, FirstLink, NextLink, TurnBack, Begin
    <3>2. CASE EndListing(d) \/ Publish(d) \/ Unpublished(d) \/ RollUp(d) \/ NoRoom(d) \/ LinkForgotten(d)
      BY <3>2 DEF EndListing, Publish, Unpublished, RollUp, NoRoom, LinkForgotten, shared
    <3>3. CASE \E outcome : List(d, outcome) \/ Fail(d, outcome) \/ Leave(d, outcome)
      BY <3>3 DEF List, Fail, Leave, shared
    <3> QED BY <1>6, <3>1, <3>2, <3>3 DEF ScanStep
  <2> QED BY <1>2, <2>1, <2>2 DEF Largest, Filled, IsEmpty, SizeOf
<1> QED BY <1>5, <1>6

\* The largest of the files with one link are kept as they are read.
LEMMA TopsStep ==
  ASSUME Types, Shape, Sent, Closing, TopIs, [Next]_vars
  PROVE  TopIs'
<1>1. CASE Aggregate \/ EndSteps \/ Cancel \/ UNCHANGED vars
  <2>1. UNCHANGED scan
    BY <1>1, OtherSteps
  <2>2. Plain' = Plain
    BY <2>1 DEF Plain, Linked, ReadNamed, Read, Past
  <2>3. CASE Conclude
    <3>1. scan[Root].total \in Totals
      BY ScanIs, WalkAssumption
    <3>2. PICK b \in BOOLEAN : result' = [root |-> scan[Root].total, complete |-> b]
      BY <2>3 DEF Conclude
    <3>3. result' # Nobody
      BY <3>1, <3>2, ResultAssumption
    <3> QED BY <3>3 DEF TopIs
  <2>4. CASE ~Conclude
    <3>1. UNCHANGED <<limited, top, result>>
      BY <1>1, <2>4 DEF Aggregate, EndSteps, CloseUpdates, EndAggregator, Cancel, vars, shared
    <3> QED BY <2>2, <3>1 DEF TopIs, Largest, Filled, IsEmpty, SizeOf
  <2> QED BY <2>3, <2>4
<1> QED BY <1>1, TopsScan, NextSplits

-----------------------------------------------------------------------------
(* The links settle.                                                       *)

\* Every directory is done, and every message received.
Finished ==
  /\ Kept /\ Closing /\ collector = "joined"
  /\ ~limited /\ result = Nobody

LEMMA FinishedIs ==
  ASSUME Finished
  PROVE  /\ Types /\ Shape /\ Linkage /\ Marked /\ Tallied /\ Ends
         /\ scan[Root].at = "done" /\ channel = <<>>
         /\ \A d \in DOMAIN arena, k \in Sums : arena[d][k] = Total(Owns(k), d)
<1>1. Types /\ Shape /\ Linkage /\ Marked /\ Tallied /\ Ends /\ Fits
  BY DEF Finished, Kept, Sound, Lasting
<1>2. scan[Root].at = "done" /\ channel = <<>>
  BY DEF Finished, Closing
<1>3. ASSUME NEW x \in Dirs, NEW k PROVE Gots(k)[x] = Owns(k)[x]
  <2>1. scan[x].at = "done" \/ (scan[x].at = "none" /\ scan[x].next = 1)
    BY <1>1, <1>2, AllDone
  <2>2. ~IsQueued(x) /\ ~LastQueued(x)
    BY <1>2 DEF IsQueued, LastQueued
  <2>3. CASE scan[x].at = "done"
    BY <2>2, <2>3 DEF Gots, Got, Owns, Heard, Closed, Told
  <2>4. CASE scan[x].at = "none" /\ scan[x].next = 1
    <3>1. Own(k, x) = 0
      BY <1>1, <2>4, OwnEarly
    <3> QED BY <3>1 DEF Gots, Got, Owns
  <2> QED BY <2>1, <2>3, <2>4
<1>4. ASSUME NEW d \in DOMAIN arena, NEW k \in Sums PROVE arena[d][k] = Total(Owns(k), d)
  <2>1. d \in Dirs
    BY <1>1 DEF Types
  <2>2. \A x \in Under(d) : Gots(k)[x] = Owns(k)[x]
    BY <1>3, <2>1, UnderIs
  <2>3. Total(Gots(k), d) = Total(Owns(k), d)
    BY <2>1, <2>2, TotalSame
  <2> QED BY <1>1, <2>3 DEF Fits
<1> QED BY <1>1, <1>2, <1>4

\* Where a file counts: a link where it is charged, those of s at the owner.
Site(s, i) == IF i \in s THEN links[i].owner ELSE links[i].charged
Charges(s) == {f \in Read : ~Linked(f)} \cup {Site(s, i) : i \in DOMAIN links}
Assigned(s, d) == {f \in Charges(s) : In(f) \in Under(d)}

LEMMA SiteIs ==
  ASSUME Types, Shape, Linkage, NEW s, NEW i \in DOMAIN links
  PROVE  /\ Site(s, i) \in Files /\ Inode[Site(s, i)] = i /\ Linked(Site(s, i))
         /\ Site(s, i) \in Read /\ i \in Inodes
<1>1. LinkSound(i) /\ links[i] \in LinkStates /\ i \in Inodes
  BY DEF Linkage, Types
<1>2. /\ links[i].owner \in Files /\ Inode[links[i].owner] = i /\ Linked(links[i].owner)
      /\ links[i].owner \in Past(In(links[i].owner))
  BY <1>1 DEF LinkSound, LinkStates, Linked
<1>3. /\ links[i].charged \in Files /\ Inode[links[i].charged] = i /\ Linked(links[i].charged)
      /\ links[i].charged \in Past(In(links[i].charged))
  BY <1>1 DEF LinkSound, LinkStates, Linked
<1> QED BY <1>1, <1>2, <1>3 DEF Site, Read

LEMMA ChargesAre ==
  ASSUME Types, Shape, Linkage, NEW s
  PROVE  /\ Charges(s) \subseteq Read /\ Charges(s) \subseteq Files
         /\ \A f \in Charges(s) : Linked(f) => Inode[f] \in DOMAIN links /\ f = Site(s, Inode[f])
         /\ \A d : IsFiniteSet(Assigned(s, d)) /\ Assigned(s, d) \subseteq Files
<1>1. Charges(s) \subseteq Read /\ Read \subseteq Files
  BY SiteIs DEF Charges, Read
<1>2. \A f \in Charges(s) : Linked(f) => Inode[f] \in DOMAIN links /\ f = Site(s, Inode[f])
  BY SiteIs DEF Charges
<1>3. \A d : Assigned(s, d) \subseteq Files
  BY <1>1 DEF Assigned
<1> QED BY <1>1, <1>2, <1>3, InodesAre, FS_Subset

\* As the aggregator ends, each file counts where it was charged.
LEMMA ChargedFirst ==
  ASSUME Types, Shape, Linkage, NEW d \in Dirs, NEW k \in {"alloc", "files"}
  PROVE  Total(Owns(k), d) = SumFunctionOnSet(Weight(k), Assigned({}, d))
<1> DEFINE U == [x \in Under(d) |-> Counting(x)]
<1>1. IsFiniteSet(Under(d)) /\ Under(d) \subseteq Dirs
  BY UnderIs
<1>2. ASSUME NEW x \in Dirs
      PROVE  /\ IsFiniteSet(Counting(x)) /\ Counting(x) \subseteq Files
             /\ Owns(k)[x] = SumFunctionOnSet(Weight(k), Counting(x))
             /\ \A f \in Counting(x) : In(f) = x /\ Weight(k)[f] \in Nat
  <2>1. \A f \in Counting(x) : f \in Past(x) \cap Files
    BY DEF Counting
  <2>2. k # "dirs"
    OBVIOUS
  <2> QED BY <2>1, <2>2, OwnNat, PastIs, WeightNat DEF Owns, Own
<1>3. Family(Weight(k), Under(d), U, Owns(k))
  <2>1. \A x \in Under(d) : /\ IsFiniteSet(U[x]) /\ (\A y \in U[x] : Weight(k)[y] \in Nat)
                            /\ Owns(k)[x] = SumFunctionOnSet(Weight(k), U[x])
    BY <1>1, <1>2
  <2>2. \A x, y \in Under(d) : x # y => U[x] \cap U[y] = {}
    BY <1>1, <1>2
  <2> HIDE DEF U
  <2> QED BY <2>1, <2>2 DEF Family
<1>4. Assigned({}, d) = UNION {U[x] : x \in Under(d)}
  <2>1. ASSUME NEW x \in Under(d), NEW f \in Counting(x) PROVE f \in Assigned({}, d)
    <3>1. f \in Files /\ f \in Past(x) /\ In(f) = x /\ f \in Read
      BY <1>1, <1>2, <2>1 DEF Counting, Read
    <3>2. ASSUME Linked(f) PROVE f = Site({}, Inode[f]) /\ Inode[f] \in DOMAIN links
      BY <1>1, <2>1, <3>1, <3>2 DEF Counting, Site, Linkage
    <3> QED BY <2>1, <3>1, <3>2 DEF Assigned, Charges
  <2>2. ASSUME NEW f \in Assigned({}, d) PROVE In(f) \in Under(d) /\ f \in Counting(In(f))
    <3>1. f \in Charges({}) /\ In(f) \in Under(d) /\ f \in Read /\ f \in Files
      BY <2>2, ChargesAre DEF Assigned
    <3>2. ASSUME Linked(f) PROVE links[Inode[f]].charged = f
      BY <3>1, <3>2, ChargesAre DEF Site
    <3> QED BY <3>1, <3>2 DEF Counting, Read
  <2> QED BY <2>1, <2>2
<1> HIDE DEF U
<1> QED BY <1>1, <1>3, <1>4, SumFamily DEF Total

\* What moves is a file from the one to the other.
LEMMA AssignedHas ==
  ASSUME Types, Shape, Linkage, NEW s, NEW i \in DOMAIN links, i \notin s,
         links[i].owner # links[i].charged, NEW d \in Dirs,
         NEW c, c = links[i].charged, NEW o, o = links[i].owner
  PROVE  (c \in Assigned(s, d) <=> In(c) \in Under(d)) /\ o \notin Assigned(s, d)
<1>1. c = Site(s, i) /\ o = Site({i}, i) /\ c # o
  BY DEF Site
<1>2. Inode[c] = i /\ Inode[o] = i /\ Linked(o)
  BY <1>1, SiteIs
<1>3. c \in Charges(s)
  BY <1>1 DEF Charges
<1>4. o \notin Charges(s)
  BY <1>1, <1>2, ChargesAre
<1> QED BY <1>3, <1>4 DEF Assigned

LEMMA AssignedMoves ==
  ASSUME Types, Shape, Linkage, NEW s, NEW i \in DOMAIN links, i \notin s,
         links[i].owner # links[i].charged, NEW d \in Dirs,
         NEW c, c = links[i].charged, NEW o, o = links[i].owner,
         NEW A, A = Assigned(s, d), NEW B, B = Assigned(s \cup {i}, d)
  PROVE  B = (A \ {c}) \cup (IF In(o) \in Under(d) THEN {o} ELSE {})
<1> DEFINE t == s \cup {i}
<1>1. /\ c = Site(s, i) /\ o = Site(t, i) /\ c # o
      /\ \A j \in DOMAIN links \ {i} : Site(t, j) = Site(s, j)
  BY DEF Site
<1>2. Inode[c] = i /\ Linked(c) /\ Inode[o] = i /\ Linked(o)
  BY <1>1, SiteIs
<1> HIDE DEF t
<1>3. c \in Charges(s) /\ o \in Charges(t)
  BY <1>1 DEF Charges
<1>4. o \notin Charges(s) /\ c \notin Charges(t)
  BY <1>1, <1>2, ChargesAre
<1>5. \A f : f # c /\ f # o => (f \in Charges(s) <=> f \in Charges(t))
  <2>1. \A f : f # c /\ f \in Charges(s) => f \in Charges(t)
    BY <1>1 DEF Charges
  <2>2. \A f : f # o /\ f \in Charges(t) => f \in Charges(s)
    BY <1>1 DEF Charges
  <2> QED BY <2>1, <2>2
<1>6. Assigned(t, d) = (Assigned(s, d) \ {c}) \cup (IF In(o) \in Under(d) THEN {o} ELSE {})
  BY <1>3, <1>4, <1>5 DEF Assigned
<1> QED BY <1>6 DEF t

\* saturating_sub of one count.
Less(n, m) == IF n < m THEN 0 ELSE n - m

LEMMA FileIs ==
  ASSUME NEW i \in Inodes
  PROVE  /\ File(i)["alloc"] = Alloc[i] /\ File(i)["files"] = 1
         /\ File(i)["dirs"] = 0 /\ File(i)["errors"] = 0
         /\ Alloc[i] \in Nat
BY InodesAre DEF File, Zero

LEMMA TransferredAt ==
  ASSUME NEW a, NEW x \in DOMAIN a, x \in Dirs, a[x] \in Totals,
         NEW from, from \in Dirs, NEW to, to \in Dirs, NEW i \in Inodes, NEW k \in Fields,
         NEW b, b = Transferred(a, from, to, i)
  PROVE  b[x][k] =
           (IF from \in Under(x) THEN Less(a[x][k], File(i)[k]) ELSE a[x][k])
             + (IF to \in Under(x) THEN File(i)[k] ELSE 0)
<1> DEFINE less == IF x \in Line[from] THEN Minus(a[x], File(i)) ELSE a[x]
<1>1. a[x] \in Totals /\ File(i) \in Totals
  BY FileTotals
<1>2. less \in Totals
  BY <1>1, TotalsClosed
<1>3. b[x] = IF x \in Line[to] THEN Plus(less, File(i)) ELSE less
  BY <1>1 DEF Transferred
<1>4. /\ (x \in Line[from] <=> from \in Under(x)) /\ (x \in Line[to] <=> to \in Under(x))
  BY DEF Under
<1>5. less[k] = IF from \in Under(x) THEN Less(a[x][k], File(i)[k]) ELSE a[x][k]
  BY <1>1, <1>4, TotalsFields DEF Less
<1>6. less[k] \in Nat
  BY <1>2, TotalsFields
<1> HIDE DEF less
<1>7. Plus(less, File(i))[k] = less[k] + File(i)[k]
  BY <1>1, <1>2, TotalsFields
<1> QED BY <1>3, <1>4, <1>5, <1>6, <1>7

\* The inventory once the links of s have settled.
Balances(s, a) ==
  \A x \in DOMAIN arena :
    /\ \A k \in {"alloc", "files"} : a[x][k] = SumFunctionOnSet(Weight(k), Assigned(s, x))
    /\ a[x]["dirs"] = arena[x]["dirs"] /\ a[x]["errors"] = arena[x]["errors"]
    /\ x = Root => \A k \in {"alloc", "files"} : a[x][k] = arena[x][k]

LEMMA BalancesMore ==
  ASSUME Types, Shape, Linkage, NEW a \in [DOMAIN arena -> Totals], NEW s, Balances(s, a),
         NEW i \in DOMAIN links, i \notin s, links[i].owner # links[i].charged
  PROVE  Balances(s \cup {i}, Transferred(a, In(links[i].charged), In(links[i].owner), i))
<1>0. PICK c, o : c = links[i].charged /\ o = links[i].owner
  OBVIOUS
<1>1. PICK b : b = Transferred(a, In(c), In(o), i)
  OBVIOUS
<1>2. /\ DOMAIN arena \subseteq Dirs /\ i \in Inodes /\ c \in Files /\ o \in Files
      /\ Inode[c] = i /\ Inode[o] = i /\ In(c) \in Dirs /\ In(o) \in Dirs
  <2>1. c = Site(s, i) /\ o = Site({i}, i)
    BY <1>0 DEF Site
  <2>2. /\ i \in Inodes /\ c \in Files /\ o \in Files /\ Inode[c] = i /\ Inode[o] = i
        /\ In(c) \in Dirs /\ In(o) \in Dirs
    BY <2>1, SiteIs, InIs
  <2>3. DOMAIN arena \subseteq Dirs
    BY DEF Types
  <2> QED BY <2>2, <2>3
<1>3. ASSUME NEW x \in DOMAIN arena, NEW k \in Fields
      PROVE  b[x][k] = (IF In(c) \in Under(x) THEN Less(a[x][k], File(i)[k]) ELSE a[x][k])
                         + (IF In(o) \in Under(x) THEN File(i)[k] ELSE 0)
  <2>1. PICK from, to : from = In(c) /\ to = In(o)
    OBVIOUS
  <2>2. x \in DOMAIN a /\ x \in Dirs /\ a[x] \in Totals /\ from \in Dirs /\ to \in Dirs
    BY <1>2, <2>1
  <2>3. b = Transferred(a, from, to, i)
    BY <1>1, <2>1
  <2>4. b[x][k] =
           (IF from \in Under(x) THEN Less(a[x][k], File(i)[k]) ELSE a[x][k])
             + (IF to \in Under(x) THEN File(i)[k] ELSE 0)
    BY <1>2, <2>2, <2>3, TransferredAt
  <2> QED BY <2>1, <2>4
<1>4. ASSUME NEW x \in DOMAIN arena, NEW k \in Fields PROVE a[x][k] \in Nat
  BY TotalsFields
<1>5. ASSUME NEW x \in DOMAIN arena, NEW k \in {"dirs", "errors"} PROVE b[x][k] = arena[x][k]
  <2>1. k \in Fields /\ File(i)[k] = 0 /\ a[x][k] = arena[x][k]
    BY <1>2, FileIs DEF Fields, Balances
  <2> QED BY <1>3, <1>4, <2>1 DEF Less
<1>6. ASSUME NEW x \in DOMAIN arena, NEW k \in {"alloc", "files"}
      PROVE  /\ b[x][k] = SumFunctionOnSet(Weight(k), Assigned(s \cup {i}, x))
             /\ x = Root => b[x][k] = arena[x][k]
  <2> DEFINE A == Assigned(s, x)
             B == Assigned(s \cup {i}, x)
             C == A \ {c}
             w == Weight(k)
  <2>1. x \in Dirs /\ k \in Fields
    BY <1>2 DEF Fields
  <2>2. /\ c \in A <=> In(c) \in Under(x)
        /\ o \notin A
        /\ B = C \cup (IF In(o) \in Under(x) THEN {o} ELSE {})
    <3>1. (c \in A <=> In(c) \in Under(x)) /\ o \notin A
      BY <1>0, <2>1, AssignedHas
    <3> HIDE DEF A, B
    <3>2. A = Assigned(s, x) /\ B = Assigned(s \cup {i}, x)
      BY DEF A, B
    <3>3. B = (A \ {c}) \cup (IF In(o) \in Under(x) THEN {o} ELSE {})
      BY <1>0, <2>1, <3>2, AssignedMoves
    <3> QED BY <3>1, <3>3
  <2>3. IsFiniteSet(A) /\ A \subseteq Files
    BY ChargesAre
  <2>4. a[x][k] = SumFunctionOnSet(w, A)
    BY DEF Balances
  <2>5. w[c] = File(i)[k] /\ w[o] = File(i)[k] /\ File(i)[k] \in Nat
    BY <1>2, FileIs, WeightNat DEF SizeOf
  <2>6. \A f \in Files : w[f] \in Nat
    BY WeightNat
  <2>7. Root \in Dirs /\ Under(Root) = Dirs
    BY RootIsAbove, WalkAssumption
  <2> HIDE DEF A, B, w
  <2>8. IsFiniteSet(C) /\ C \subseteq Files /\ SumFunctionOnSet(w, C) \in Nat
    <3>1. IsFiniteSet(C) /\ C \subseteq Files
      BY <2>3, FS_Subset
    <3> HIDE DEF C
    <3> QED BY <2>6, <3>1, SumNat
  <2>9. a[x][k] = SumFunctionOnSet(w, C) + IF In(c) \in Under(x) THEN w[c] ELSE 0
    <3>1. CASE c \in A
      <4>1. SumFunctionOnSet(w, A) = w[c] + SumFunctionOnSet(w, A \ {c})
        BY <2>3, <2>6, <3>1, SumRemove
      <4> QED BY <1>2, <2>2, <2>4, <2>6, <2>8, <3>1, <4>1
    <3>2. CASE c \notin A
      <4>1. C = A
        BY <3>2
      <4>2. a[x][k] = SumFunctionOnSet(w, C)
        BY <2>4, <4>1
      <4> HIDE DEF C
      <4> QED BY <2>2, <2>8, <3>2, <4>2
    <3> QED BY <3>1, <3>2
  <2>10. (IF In(c) \in Under(x) THEN Less(a[x][k], File(i)[k]) ELSE a[x][k]) = SumFunctionOnSet(w, C)
    BY <2>5, <2>8, <2>9 DEF Less
  <2>11. SumFunctionOnSet(w, B) = SumFunctionOnSet(w, C) + IF In(o) \in Under(x) THEN w[o] ELSE 0
    <3>1. CASE In(o) \in Under(x)
      <4>1. B = C \cup {o} /\ o \notin C /\ \A y \in C \cup {o} : w[y] \in Nat
        BY <1>2, <2>2, <2>6, <2>8, <3>1
      <4>2. SumFunctionOnSet(w, C \cup {o}) = SumFunctionOnSet(w, C) + w[o]
        <5> HIDE DEF C
        <5> QED BY <2>8, <4>1, SumAdd
      <4> QED BY <3>1, <4>1, <4>2
    <3>2. CASE In(o) \notin Under(x)
      BY <2>2, <2>8, <3>2
    <3> QED BY <3>1, <3>2
  <2> HIDE DEF C
  <2>12. b[x][k] = SumFunctionOnSet(w, C) + (IF In(o) \in Under(x) THEN File(i)[k] ELSE 0)
    BY <1>3, <2>1, <2>10
  <2>13. b[x][k] = SumFunctionOnSet(w, B)
    BY <2>5, <2>11, <2>12
  <2>14. ASSUME x = Root PROVE b[x][k] = arena[x][k]
    <3>1. In(c) \in Under(x) /\ In(o) \in Under(x)
      BY <1>2, <2>7, <2>14
    <3>2. b[x][k] = a[x][k]
      BY <2>5, <2>9, <2>12, <3>1
    <3> QED BY <2>14, <3>2 DEF Balances
  <2> QED BY <2>13, <2>14 DEF B, w
<1>7. Balances(s \cup {i}, b)
  BY <1>5, <1>6 DEF Balances
<1> QED BY <1>0, <1>1, <1>7

\* The links to settle.
Moving == {i \in DOMAIN links : links[i].owner # links[i].charged}

LEMMA SettledBalances ==
  ASSUME Finished
  PROVE  Settled(arena) \in [DOMAIN arena -> Totals] /\ Balances(Moving, Settled(arena))
<1>1. /\ Types /\ Shape /\ Linkage
      /\ \A d \in DOMAIN arena, k \in Sums : arena[d][k] = Total(Owns(k), d)
  BY FinishedIs
<1> DEFINE W == [DOMAIN arena -> Totals]
           Q == {p \in (SUBSET Moving) \X W : Balances(p[1], p[2])}
<1>2. Moving \subseteq DOMAIN links /\ Moving \subseteq Inodes /\ IsFiniteSet(Moving)
  <2>1. Moving \subseteq DOMAIN links /\ DOMAIN links \subseteq Inodes
    BY <1>1 DEF Types, Moving
  <2> QED BY <2>1, InodesAre, FS_Subset
<1>3. arena \in W
  BY <1>1 DEF Types
<1>4. Balances({}, arena)
  <2>1. ASSUME NEW x \in DOMAIN arena, NEW k \in {"alloc", "files"}
        PROVE  arena[x][k] = SumFunctionOnSet(Weight(k), Assigned({}, x))
    <3>1. x \in Dirs /\ k \in Sums
      BY <1>1 DEF Types, Sums
    <3> QED BY <1>1, <3>1, ChargedFirst
  <2> QED BY <2>1 DEF Balances
<1>5. <<{}, arena>> \in Q
  BY <1>3, <1>4
<1>6. ASSUME NEW s \in SUBSET Moving, NEW i \in Moving, NEW a \in W, <<s, a>> \in Q, i \notin s
      PROVE  <<s \cup {i}, Transferred(a, In(links[i].charged), In(links[i].owner), i)>> \in Q
  <2>1. Balances(s, a)
    BY <1>6
  <2>2. i \in DOMAIN links /\ links[i].owner # links[i].charged /\ i \in Inodes
    BY <1>2 DEF Moving
  <2>3. Balances(s \cup {i}, Transferred(a, In(links[i].charged), In(links[i].owner), i))
    BY <1>1, <1>6, <2>1, <2>2, BalancesMore
  <2>4. Transferred(a, In(links[i].charged), In(links[i].owner), i) \in W
    BY <2>2, TransferredClosed
  <2>5. s \cup {i} \in SUBSET Moving
    OBVIOUS
  <2> QED BY <2>3, <2>4, <2>5
<1>7. Settling(links, arena, Moving) \in W /\ <<Moving, Settling(links, arena, Moving)>> \in Q
  <2>1. PICK w, q : w = W /\ q = Q
    OBVIOUS
  <2>2. \A s \in SUBSET Moving, i \in Moving, a \in w :
          <<s, a>> \in q /\ i \notin s =>
            <<s \cup {i}, Transferred(a, In(links[i].charged), In(links[i].owner), i)>> \in q
    BY <1>6, <2>1
  <2>3. w = [DOMAIN arena -> Totals] /\ arena \in w /\ <<{}, arena>> \in q
    BY <1>3, <1>5, <2>1
  <2>4. Settling(links, arena, Moving) \in w /\ <<Moving, Settling(links, arena, Moving)>> \in q
    <3> HIDE DEF W, Q
    <3> QED BY <1>2, <2>2, <2>3, SettlingInduction
  <2> QED BY <2>1, <2>4
<1> QED BY <1>7, SettledIs DEF Moving

-----------------------------------------------------------------------------
(* A complete walk.                                                        *)

\* Each directory that was walked, except the first, is a kid of one.
LEMMA KidsAddUp ==
  ASSUME Types, Shape, NEW d \in DOMAIN arena
  PROVE  Total(Owns("dirs"), d) = Cardinality(Under(d) \cap Walked) - 1
<1> DEFINE ones == [x \in Dirs |-> 1]
           U == [x \in Under(d) |-> scan[x].kids]
           all == UNION {U[x] : x \in Under(d)}
           S == Under(d) \cap Walked
<1>1. d \in Dirs /\ IsFiniteSet(Under(d)) /\ Under(d) \subseteq Dirs /\ d \in Under(d)
  BY UnderIs DEF Types
<1>2. ASSUME NEW x \in Dirs
      PROVE  /\ IsFiniteSet(scan[x].kids) /\ scan[x].kids \subseteq Dirs
             /\ Owns("dirs")[x] = SumFunctionOnSet(ones, scan[x].kids)
  <2>1. IsFiniteSet(scan[x].kids) /\ scan[x].kids \subseteq Dirs
    BY OwnNat, ScanIs
  <2>2. Owns("dirs")[x] = Cardinality(scan[x].kids)
    BY DEF Owns, Own
  <2>3. \A y \in scan[x].kids : ones[y] = 1
    BY <2>1
  <2> HIDE DEF ones
  <2> QED BY <2>1, <2>2, <2>3, SumOfOnes
<1>3. \A x, c : x \in Dirs /\ c \in scan[x].kids => c \in Walked /\ c \in Dirs /\ c # Root /\ Up(c) = x
  BY KidIs DEF Walked
<1>4. Family(ones, Under(d), U, Owns("dirs"))
  <2>1. \A x \in Under(d) : /\ IsFiniteSet(U[x]) /\ (\A y \in U[x] : ones[y] \in Nat)
                            /\ Owns("dirs")[x] = SumFunctionOnSet(ones, U[x])
    BY <1>1, <1>2
  <2>2. \A x, y \in Under(d) : x # y => U[x] \cap U[y] = {}
    BY <1>1, <1>3
  <2> HIDE DEF U, ones
  <2> QED BY <2>1, <2>2 DEF Family
<1>5. all = S \ {d}
  <2>1. ASSUME NEW x \in Under(d), NEW c \in scan[x].kids PROVE c \in S /\ c # d
    <3>1. c \in Walked /\ c \in Dirs /\ c # Root /\ Up(c) = x
      BY <1>1, <1>3
    <3>2. c \in Under(d)
      BY <1>1, <3>1, UnderIs
    <3>3. c # d
      BY <1>1, <3>1, UpNotUnder
    <3> QED BY <3>1, <3>2, <3>3
  <2>2. ASSUME NEW c \in S, c # d PROVE Up(c) \in Under(d) /\ c \in scan[Up(c)].kids
    <3>1. c # Root /\ Up(c) \in Under(d)
      BY <1>1, <2>2, UnderIs
    <3> QED BY <2>2, <3>1 DEF Shape, Walked
  <2>3. ASSUME NEW c \in all PROVE c \in S \ {d}
    <3>1. PICK x \in Under(d) : c \in scan[x].kids
      OBVIOUS
    <3> QED BY <2>1, <3>1
  <2>4. ASSUME NEW c \in S \ {d} PROVE c \in all
    <3>1. Up(c) \in Under(d) /\ c \in U[Up(c)]
      BY <2>2
    <3> HIDE DEF U
    <3> QED BY <3>1
  <2> QED BY <2>3, <2>4
<1>6. IsFiniteSet(S) /\ d \in S
  BY <1>1, FS_Subset DEF Walked
<1>7. Cardinality(S \ {d}) = Cardinality(S) - 1 /\ IsFiniteSet(S \ {d})
  <2> HIDE DEF S
  <2> QED BY <1>6, FS_RemoveElement
<1>8. SumFunctionOnSet(ones, all) = SumFunctionOnSet(Owns("dirs"), Under(d))
  <2>1. all = UNION {U[x] : x \in Under(d)}
    OBVIOUS
  <2> HIDE DEF U, ones, all
  <2> QED BY <1>1, <1>4, <2>1, SumFamily
<1>9. SumFunctionOnSet(ones, S \ {d}) = Cardinality(S \ {d})
  <2>1. \A x \in S \ {d} : ones[x] = 1
    BY <1>1
  <2> HIDE DEF S, ones
  <2> QED BY <1>7, <2>1, SumOfOnes
<1> HIDE DEF U, ones, all
<1> QED BY <1>5, <1>7, <1>8, <1>9 DEF Total

\* What the walk met it has read to the end.
LEMMA MetIsRead ==
  ASSUME Finished
  PROVE  /\ Met = Read
         /\ \A d \in Dirs : scan[d].next > 1 => Past(d) = Listed(d) /\ d \in Walked
<1>1. Types /\ Shape /\ Ends /\ scan[Root].at = "done"
  BY FinishedIs
<1>2. ASSUME NEW d \in Dirs, scan[d].next > 1 PROVE Past(d) = Listed(d) /\ d \in Walked
  <2>1. scan[d].next \in Nat \ {0} /\ Len(Listing[d]) \in Nat
    BY <1>1, ScanIs, ListingIs
  <2>2. scan[d].at = "done"
    BY <1>1, <1>2, AllDone
  <2>3. scan[d].next = Len(Listing[d]) + 1
    BY <1>1, <1>2, <2>1, <2>2 DEF Ends
  <2>4. scan[d].next > Len(Listing[d])
    BY <2>1, <2>3
  <2> QED BY <1>1, <2>2, <2>4, PastIs, ScannedIs DEF Walked
<1>3. ASSUME NEW f \in Files PROVE f \in Met <=> f \in Read
  <2>1. In(f) \in Dirs /\ f \in Listed(In(f))
    BY InIs
  <2>2. scan[In(f)].next \in Nat \ {0}
    BY <1>1, <2>1, ScanIs
  <2>3. ASSUME f \in Read PROVE scan[In(f)].next > 1
    <3>1. scan[In(f)].next # 1
      BY <1>1, <2>1, <2>3, PastIs DEF Read
    <3> QED BY <2>2, <3>1
  <2> QED BY <1>2, <2>1, <2>3 DEF Met, Read
<1>4. Met \subseteq Files /\ Read \subseteq Files
  BY DEF Met, Read
<1> QED BY <1>2, <1>3, <1>4

\* Of an inode with one link the walk has read one file.
LEMMA AloneRead ==
  ASSUME Finished, NEW f \in Read, ~Linked(f), NEW g \in Read, Inode[g] = Inode[f]
  PROVE  g = f
<1>1. Types /\ Shape /\ Sound
  BY FinishedIs DEF Finished, Kept
<1>2. ASSUME NEW h \in Read, Inode[h] = Inode[f]
      PROVE  h \in Files /\ h \in Counting(In(h)) /\ In(h) \in DOMAIN arena
  <2>1. h \in Files /\ h \in Past(In(h)) /\ In(h) \in Dirs
    BY InIs DEF Read
  <2>2. ~Linked(h)
    BY <1>2 DEF Linked
  <2>3. h \in Met
    BY MetIsRead
  <2> QED BY <2>1, <2>2, <2>3 DEF Counting, Met, Walked
<1> QED BY <1>1, <1>2, CountedOnce

\* Every file counts where its owner is.
LEMMA OwnersAre ==
  ASSUME Finished, Leasts
  PROVE  /\ Owners = Charges(Moving)
         /\ \A f, g \in Owners : Inode[f] = Inode[g] => f = g
<1>1. Types /\ Shape /\ Linkage /\ Met = Read /\ Read \subseteq Files
  BY FinishedIs, MetIsRead DEF Read
<1>2. ASSUME NEW i \in DOMAIN links PROVE Site(Moving, i) = links[i].owner
  BY <1>2 DEF Site, Moving
<1>3. \A f, g \in Files : Rank[f] \in Int /\ (Rank[f] = Rank[g] => f = g)
  BY PathAssumption
<1>4. ASSUME NEW f \in Charges(Moving) PROVE f \in Owners
  <2>1. f \in Read /\ f \in Files
    BY <1>1, ChargesAre
  <2>2. ASSUME NEW g \in Read, Inode[g] = Inode[f] PROVE Rank[f] <= Rank[g]
    <3>1. CASE Linked(f)
      <4>1. Inode[f] \in DOMAIN links /\ f = Site(Moving, Inode[f])
        BY <1>1, <1>4, <3>1, ChargesAre
      <4>2. f = links[Inode[f]].owner
        BY <1>2, <4>1
      <4> QED BY <2>2, <4>1, <4>2 DEF Leasts, LinkLeast
    <3>2. CASE ~Linked(f)
      <4>1. g = f
        BY <2>1, <2>2, <3>2, AloneRead
      <4> QED BY <1>3, <2>1, <4>1
    <3> QED BY <3>1, <3>2
  <2> QED BY <1>1, <2>1, <2>2 DEF Owners
<1>5. ASSUME NEW f \in Owners PROVE f \in Charges(Moving)
  <2>1. f \in Read /\ f \in Files /\ \A g \in Read : Inode[g] = Inode[f] => Rank[f] <= Rank[g]
    BY <1>1, <1>5 DEF Owners
  <2>2. CASE ~Linked(f)
    BY <2>1, <2>2 DEF Charges
  <2>3. CASE Linked(f)
    <3>1. PICK i : i = Inode[f]
      OBVIOUS
    <3>2. i \in DOMAIN links
      BY <1>1, <2>1, <2>3, <3>1, InIs DEF Linkage, Read
    <3>3. PICK o : o = links[i].owner /\ o = Site(Moving, i)
      BY <1>2, <3>2
    <3>4. o \in Files /\ o \in Read /\ Inode[o] = i
      BY <1>1, <3>2, <3>3, SiteIs
    <3>5. Rank[o] <= Rank[f]
      BY <2>1, <3>1, <3>2, <3>3 DEF Leasts, LinkLeast
    <3>6. o = f
      BY <1>3, <2>1, <3>1, <3>4, <3>5
    <3> QED BY <3>2, <3>3, <3>6 DEF Charges
  <2> QED BY <2>2, <2>3
<1>6. \A f, g \in Owners : Inode[f] = Inode[g] => f = g
  <2>1. Owners \subseteq Files /\ Owners \subseteq Met
    BY <1>1 DEF Owners
  <2>2. \A f, g \in Owners : Inode[f] = Inode[g] => Rank[f] <= Rank[g] /\ Rank[g] <= Rank[f]
    BY <2>1 DEF Owners
  <2> QED BY <1>3, <2>1, <2>2
<1> QED BY <1>4, <1>5, <1>6

-----------------------------------------------------------------------------
(* The largest files of a complete walk.                                   *)

LEMMA NamedAre ==
  ASSUME Finished, Leasts
  PROVE  Named = Plain \cup LinkTops /\ Plain \cap LinkTops = {}
<1>1. Types /\ Shape /\ Linkage /\ Met = Read /\ Read \subseteq Files
  BY FinishedIs, MetIsRead DEF Read
<1>2. Nameable = ReadNamed /\ ReadNamed \subseteq Read
  BY <1>1 DEF Nameable, ReadNamed
<1>3. \A f, g \in Files : Rank[f] \in Int /\ (Rank[f] = Rank[g] => f = g)
  BY PathAssumption
<1>4. ASSUME NEW f \in LinkTops
      PROVE  /\ f \in ReadNamed /\ Linked(f)
             /\ \A g \in ReadNamed : Inode[g] = Inode[f] => Rank[f] <= Rank[g]
  <2>1. PICK i \in DOMAIN links : f = links[i].top /\ f # Nobody
    BY DEF LinkTops
  <2>2. /\ f \in ReadNamed /\ Inode[f] = i
        /\ \A g \in ReadNamed : Inode[g] = i => Rank[f] <= Rank[g]
    BY <2>1 DEF Leasts, LinkLeast
  <2>3. Linked(f)
    BY <1>1, <2>2, SiteIs DEF Linked
  <2> QED BY <2>2, <2>3
<1>5. ASSUME NEW f \in Plain PROVE f \in Named
  <2>1. f \in ReadNamed /\ ~Linked(f) /\ f \in Read /\ f \in Files
    BY <1>1, <1>2 DEF Plain
  <2>2. ASSUME NEW g \in ReadNamed, Inode[g] = Inode[f] PROVE Rank[f] <= Rank[g]
    <3>1. g = f
      BY <1>2, <2>1, <2>2, AloneRead
    <3> QED BY <1>3, <2>1, <3>1
  <2> QED BY <1>2, <2>1, <2>2 DEF Named
<1>6. ASSUME NEW f \in Named, f \notin Plain PROVE f \in LinkTops
  <2>1. /\ f \in ReadNamed /\ f \in Read /\ f \in Files /\ Linked(f)
        /\ \A g \in ReadNamed : Inode[g] = Inode[f] => Rank[f] <= Rank[g]
    BY <1>1, <1>2, <1>6 DEF Named, Plain
  <2>2. PICK i : i = Inode[f]
    OBVIOUS
  <2>3. i \in DOMAIN links
    BY <1>1, <2>1, <2>2, InIs DEF Linkage, Read
  <2>4. PICK t : t = links[i].top
    OBVIOUS
  <2>5. t # Nobody /\ Rank[t] <= Rank[f] /\ t \in ReadNamed /\ Inode[t] = i
    BY <2>1, <2>2, <2>3, <2>4 DEF Leasts, LinkLeast
  <2>6. t = f
    BY <1>1, <1>2, <1>3, <2>1, <2>2, <2>5
  <2> QED BY <2>3, <2>4, <2>5, <2>6 DEF LinkTops
<1>7. \A f \in LinkTops : f \in Named
  BY <1>2, <1>4 DEF Named
<1>8. Plain \cap LinkTops = {}
  BY <1>4 DEF Plain
<1> QED BY <1>5, <1>6, <1>7, <1>8

LEMMA LargestOffered ==
  ASSUME Finished, Leasts, TopIs
  PROVE  Largest(Named, WithLinks(LinkTops))
<1>1. Types /\ Largest(Plain, top) /\ Plain \subseteq Files
  BY FinishedIs DEF Finished, TopIs, Plain, ReadNamed, Read
<1>2. LinkTops \subseteq Files /\ IsFiniteSet(LinkTops)
  BY <1>1, LinkTopsAre
<1>3. Named = Plain \cup LinkTops /\ Plain \cap LinkTops = {}
  BY NamedAre
<1> DEFINE Good(s, t) == Largest(Plain \cup s, t) /\ Cardinality(t) <= TopN
           Q == {p \in (SUBSET LinkTops) \X (SUBSET Solid) : Good(p[1], p[2])}
<1>4. top \in SUBSET Solid /\ Cardinality(top) <= TopN
  BY <1>1 DEF Types
<1>5. <<{}, top>> \in Q
  <2>1. Plain \cup {} = Plain
    OBVIOUS
  <2> QED BY <1>1, <1>4, <2>1
<1>6. ASSUME NEW s \in SUBSET LinkTops, NEW f \in LinkTops, NEW t \in SUBSET Solid,
             <<s, t>> \in Q, f \notin s
      PROVE  <<s \cup {f}, Offered(t, f)>> \in Q
  <2>1. Good(s, t)
    BY <1>6
  <2>2. Offered(t, f) \in SUBSET Solid /\ Cardinality(Offered(t, f)) <= TopN
    BY <1>2, <2>1, OfferedFits
  <2>3. PICK O : O = Plain \cup s
    OBVIOUS
  <2>4. O \subseteq Files /\ Largest(O, t) /\ f \in Files /\ f \notin O
    BY <1>1, <1>2, <1>3, <1>6, <2>1, <2>3
  <2>5. Largest(O \cup {f}, Offered(t, f))
    BY <2>1, <2>4, OfferedLargest
  <2>6. O \cup {f} = Plain \cup (s \cup {f})
    BY <2>3
  <2> QED BY <2>2, <2>5, <2>6
<1>7. PICK q, w : q = Q /\ w = SUBSET Solid
  OBVIOUS
<1>8. <<LinkTops, Offering(top, LinkTops)>> \in q
  <2>1. \A s \in SUBSET LinkTops, f \in LinkTops, t \in w :
          <<s, t>> \in q /\ f \notin s => <<s \cup {f}, Offered(t, f)>> \in q
    BY <1>6, <1>7
  <2>2. w = SUBSET Solid /\ top \in w /\ <<{}, top>> \in q
    BY <1>4, <1>5, <1>7
  <2> HIDE DEF Q
  <2> QED BY <1>2, <2>1, <2>2, OfferingInduction
<1>9. Good(LinkTops, Offering(top, LinkTops))
  BY <1>7, <1>8
<1> QED BY <1>3, <1>9, WithLinksIs

-----------------------------------------------------------------------------
(* The result.                                                             *)

\* What a directory must have.
Due(d) ==
  LET owned == {f \in Owners : In(f) \in Under(d)}
  IN  [alloc |-> AllocOf(owned), files |-> Cardinality(owned),
       dirs |-> Cardinality(Under(d) \cap Walked) - 1, errors |-> 0]


LEMMA SettledDue ==
  ASSUME Finished, Leasts, Clean, NoErrors, NEW a, a = Settled(arena), NEW d \in Walked
  PROVE  a[d] = Due(d)
<1>1. /\ Types /\ Shape /\ Linkage /\ d \in Dirs /\ result = Nobody
      /\ \A k \in Sums : arena[d][k] = Total(Owns(k), d)
  BY FinishedIs DEF Finished, Walked, Types
<1> DEFINE owned == {f \in Owners : In(f) \in Under(d)}
<1>2. a[d] \in Totals /\ Balances(Moving, a)
  BY SettledBalances DEF Walked
<1>3. owned = Assigned(Moving, d) /\ owned \subseteq Files /\ \A f, g \in owned : Inode[f] = Inode[g] => f = g
  <2>1. Owners = Charges(Moving) /\ \A f, g \in Owners : Inode[f] = Inode[g] => f = g
    BY OwnersAre
  <2> QED BY <1>1, <2>1, ChargesAre DEF Assigned
<1> HIDE DEF owned
<1>4. IsFiniteSet(owned) /\ Cardinality(owned) \in Nat
  BY <1>3, InodesAre, FS_Subset, FS_CardinalityType
<1>5. a[d]["alloc"] = AllocOf(owned) /\ a[d]["files"] = Cardinality(owned)
  <2>1. /\ AllocOf(owned) = SumFunctionOnSet(Weight("alloc"), owned)
        /\ Cardinality(owned) = SumFunctionOnSet(Weight("files"), owned)
    BY <1>3, AllocOfFiles
  <2>2. \A k \in {"alloc", "files"} : a[d][k] = SumFunctionOnSet(Weight(k), owned)
    BY <1>2, <1>3 DEF Balances, Walked
  <2> QED BY <2>1, <2>2
<1>6. a[d]["dirs"] = Cardinality(Under(d) \cap Walked) - 1
  <2>1. Total(Owns("dirs"), d) = Cardinality(Under(d) \cap Walked) - 1
    BY <1>1, KidsAddUp DEF Walked
  <2>2. a[d]["dirs"] = arena[d]["dirs"]
    BY <1>2 DEF Balances, Walked
  <2>3. arena[d]["dirs"] = Total(Owns("dirs"), d)
    BY <1>1 DEF Sums
  <2> QED BY <2>1, <2>2, <2>3
<1>7. a[d]["errors"] = 0
  <2>1. a[d]["errors"] = arena[d]["errors"]
    BY <1>2 DEF Balances, Walked
  <2>2. arena[d].errors = 0
    BY <1>1 DEF Clean, Walked
  <2> QED BY <2>1, <2>2
<1>8. a[d].alloc = AllocOf(owned) /\ a[d].files = Cardinality(owned)
      /\ a[d].dirs = Cardinality(Under(d) \cap Walked) - 1 /\ a[d].errors = 0
  BY <1>5, <1>6, <1>7
<1>9. a[d] = [alloc |-> a[d].alloc, files |-> a[d].files, dirs |-> a[d].dirs, errors |-> a[d].errors]
  BY <1>2 DEF Totals
<1> QED BY <1>8, <1>9 DEF Due, owned

LEMMA SettledRoot ==
  ASSUME Finished, Clean, NoErrors, NEW a, a = Settled(arena)
  PROVE  a[Root] = scan[Root].total
<1>1. /\ Types /\ Shape /\ Tallied /\ scan[Root].at = "done" /\ result = Nobody
      /\ \A k \in Sums : arena[Root][k] = Total(Owns(k), Root)
  BY FinishedIs DEF Finished, Types
<1>2. Root \in Dirs /\ Root \in DOMAIN arena
  BY <1>1, WalkAssumption DEF Types
<1>3. a[Root] \in Totals /\ Balances(Moving, a) /\ scan[Root].total \in Totals
  BY <1>1, <1>2, SettledBalances, ScanIs
<1>4. ASSUME NEW k \in Sums PROVE a[Root][k] = scan[Root].total[k]
  <2>1. scan[Root].total[k] = Total(Owns(k), Root)
    BY <1>1, <1>2 DEF Tallied, TotalOf, Summed
  <2>2. a[Root][k] = arena[Root][k]
    BY <1>2, <1>3 DEF Balances, Sums
  <2> QED BY <1>1, <2>1, <2>2
<1>5. a[Root]["errors"] = 0 /\ scan[Root].total.errors = 0
  <2>1. a[Root]["errors"] = arena[Root]["errors"]
    BY <1>2, <1>3 DEF Balances
  <2>2. arena[Root].errors = 0
    BY <1>1, <1>2 DEF Clean
  <2>3. scan[Root].total.errors = 0
    BY <1>2 DEF NoErrors, Errors
  <2> QED BY <2>1, <2>2, <2>3
<1>6. PICK t, u : t = a[Root] /\ u = scan[Root].total
  OBVIOUS
<1>7. t.alloc = u.alloc /\ t.files = u.files /\ t.dirs = u.dirs /\ t.errors = u.errors
  BY <1>4, <1>5, <1>6 DEF Sums
<1>8. t \in Totals /\ u \in Totals
  BY <1>3, <1>6
<1>9. t = u
  BY <1>7, <1>8 DEF Totals
<1> QED BY <1>6, <1>9

LEMMA NonePassedBy ==
  ASSUME Finished, Passed, MarksAre, ~Excludes,
         NEW d \in Walked, NEW c \in Dirs, c \notin Walked \cup MountPoints \cup Skipped,
         c \in Listed(d), scan[d].next > 1
  PROVE  \E x \in Walked \cup Skipped : Node[x] = Node[c]
<1>1. d \in Dirs /\ Past(d) = Listed(d) /\ ~limited
  BY FinishedIs, MetIsRead DEF Finished, Walked, Types
<1>2. c \in Past(d) \cap Dirs
  BY <1>1
<1>3. Node[c] \in seenDirs
  BY <1>1, <1>2 DEF Passed
<1> QED BY <1>1, <1>3 DEF MarksAre, Walked

\* All that a complete result rests on.
Exact ==
  /\ Kept /\ Halts /\ Closing /\ Faulty /\ Clean /\ Passed /\ MarksAre
  /\ Leasts /\ TopIs /\ ResultIsExact

\* A walk that ends complete was finished, and nothing was refused.
LEMMA CompleteEnd ==
  ASSUME Exact, result = Nobody, Conclude, result'.complete
  PROVE  /\ Finished /\ NoErrors /\ ~Excludes
         /\ top' = WithLinks(LinkTops) /\ arena' = Settled(arena)
         /\ result'.root = scan[Root].total
<1>1. /\ ~stopped' /\ scan[Root].total.errors = 0 /\ unwalked.excluded = 0
      /\ result'.root = scan[Root].total
  BY DEF Conclude
<1>2. PICK refused \in SUBSET {f \in LinkTops : ~IsEmpty(f)} :
        /\ top' = WithLinks(LinkTops \ refused)
        /\ stopped' = (stopped \/ refused # {})
  BY DEF Conclude
<1>3. refused = {} /\ ~stopped
  BY <1>1, <1>2
<1>4. ~limited
  BY <1>3 DEF Exact, Halts
<1>5. collector = "joined" /\ arena' = Settled(arena)
  BY DEF Conclude
<1>6. Finished
  BY <1>4, <1>5 DEF Finished, Exact
<1>7. Types /\ Shape /\ scan[Root].at = "done"
  BY <1>6, FinishedIs
<1>8. NoErrors
  BY <1>1, <1>7, RootClean DEF Exact, Errors
<1>9. top' = WithLinks(LinkTops)
  <2>1. LinkTops \ refused = LinkTops
    BY <1>3
  <2> QED BY <1>2, <2>1
<1> QED BY <1>1, <1>5, <1>6, <1>8, <1>9 DEF Excludes

LEMMA ConcludeExact ==
  ASSUME Exact, result = Nobody, Conclude, result'.complete
  PROVE  InventoryIsExact' /\ LargestAreNamed'
<1>1. PICK a : a = Settled(arena)
  OBVIOUS
<1>2. /\ Finished /\ NoErrors /\ ~Excludes /\ top' = WithLinks(LinkTops) /\ arena' = a
      /\ result'.root = scan[Root].total
  BY <1>1, CompleteEnd
<1>3. Leasts /\ Clean /\ Passed /\ MarksAre /\ TopIs
  BY DEF Exact
<1>4. scan' = scan /\ links' = links
  BY DEF Conclude
<1>5. DOMAIN a = DOMAIN arena
  BY <1>1, <1>2, SettledBalances
<1>6. Walked' = Walked
  BY <1>2, <1>5 DEF Walked
<1>7. Met' = Met
  BY <1>4, <1>6 DEF Met
<1>8. Owners' = Owners /\ Named' = Named
  BY <1>7 DEF Owners, Named, Nameable
<1>9. LargestAreNamed'
  <2>1. Largest(Named, WithLinks(LinkTops))
    BY <1>2, <1>3, LargestOffered
  <2> QED BY <1>2, <1>8, <2>1 DEF Largest, Filled, LargestAreNamed, IsEmpty, SizeOf
<1>10. ASSUME NEW d \in Walked' PROVE arena'[d] = Due(d)'
  <2>1. d \in Walked
    BY <1>6
  <2>2. a[d] = Due(d)
    BY <1>1, <1>2, <1>3, <2>1, SettledDue
  <2>3. Due(d)' = Due(d)
    BY <1>6, <1>8 DEF Due
  <2> QED BY <1>2, <2>2, <2>3
<1>11. arena'[Root] = result'.root
  BY <1>1, <1>2, <1>3, SettledRoot
<1>12. ASSUME NEW d \in Walked', NEW c \in Dirs, c \notin Walked' \cup MountPoints \cup Skipped,
              c \in Listed(d), scan'[d].next > 1
       PROVE  \E x \in Walked' \cup Skipped : Node[x] = Node[c]
  <2>1. /\ d \in Walked /\ c \notin Walked \cup MountPoints \cup Skipped /\ scan[d].next > 1
    BY <1>4, <1>6, <1>12
  <2>2. \E x \in Walked \cup Skipped : Node[x] = Node[c]
    BY <1>2, <1>3, <1>12, <2>1, NonePassedBy
  <2> QED BY <1>6, <2>2
<1>13. InventoryIsExact'
  BY <1>10, <1>11, <1>12 DEF InventoryIsExact, Due
<1> QED BY <1>9, <1>13

LEMMA ExactInit ==
  ASSUME Init
  PROVE  Exact
<1>1. Kept /\ TopIs
  BY KeptInit, TopsInit
<1>2. /\ scan = [d \in Dirs |-> IF d = Root THEN [Unscanned EXCEPT !.at = "listed"] ELSE Unscanned]
      /\ limited = FALSE /\ unwalked = [excluded |-> 0, aliases |-> 0, mounts |-> 0, dataless |-> 0]
      /\ seenDirs = {Node[Root]} /\ links = <<>> /\ channel = <<>> /\ collector = "sending"
      /\ arena = [d \in {Root} |-> Zero] /\ result = Nobody
  BY DEF Init
<1>3. \A d \in Dirs : /\ scan[d].at \in {"none", "listed"} /\ scan[d].next = 1
                      /\ scan[d].kids = {} /\ scan[d].total = Zero
  BY <1>2 DEF Unscanned
<1>4. DOMAIN channel = {} /\ DOMAIN links = {} /\ DOMAIN arena = {Root} /\ arena[Root] = Zero
  BY <1>2
<1>5. Halts /\ Closing
  BY <1>2 DEF Halts, Closing
<1>6. Faulty /\ Clean
  BY <1>3, <1>4 DEF Faulty, Clean, Errors, Zero, Summed
<1>7. Passed
  <2>1. \A d \in Dirs : Past(d) = {}
    BY <1>3 DEF Past
  <2> QED BY <2>1 DEF Passed
<1>8. MarksAre
  BY <1>2, <1>4 DEF MarksAre
<1>9. Leasts /\ ResultIsExact
  BY <1>2, <1>4 DEF Leasts, ResultIsExact
<1> QED BY <1>1, <1>5, <1>6, <1>7, <1>8, <1>9 DEF Exact

LEMMA ExactNext ==
  ASSUME Exact, [Next]_vars
  PROVE  Exact'
<1>1. /\ Kept /\ Halts /\ Closing /\ Faulty /\ Clean /\ Passed /\ MarksAre /\ Leasts /\ TopIs
      /\ Types /\ Shape /\ Sent /\ Linkage
  BY DEF Exact, Kept, Sound
<1>2. Kept' /\ Halts' /\ Closing'
  BY <1>1, KeptNext, HaltsNext, ClosingNext
<1>3. Faulty' /\ Clean'
  BY <1>1, CleanStep
<1>4. Passed' /\ MarksAre'
  BY <1>1, PassedStep
<1>5. Leasts' /\ TopIs'
  BY <1>1, LeastsStep, TopsStep
<1>6. ResultIsExact'
  <2>1. CASE result # Nobody
    <3>1. UNCHANGED <<scan, arena, top, result>>
      BY <1>1, <2>1, LastStep DEF vars, shared, inventory
    <3>2. Walked' = Walked /\ Met' = Met
      BY <3>1 DEF Walked, Met
    <3>3. Owners' = Owners /\ Named' = Named
      BY <3>2 DEF Owners, Named, Nameable
    <3>4. InventoryIsExact => InventoryIsExact'
      BY <3>1, <3>2, <3>3 DEF InventoryIsExact
    <3>5. LargestAreNamed => LargestAreNamed'
      BY <3>1, <3>3 DEF LargestAreNamed, IsEmpty, SizeOf
    <3> QED BY <3>1, <3>4, <3>5 DEF Exact, ResultIsExact
  <2>2. CASE result = Nobody
    <3>1. result' = Nobody \/ Conclude
      BY <1>1, <2>2, LastStep
    <3> QED BY <2>2, <3>1, ConcludeExact DEF ResultIsExact
  <2> QED BY <2>1, <2>2
<1> QED BY <1>2, <1>3, <1>4, <1>5, <1>6 DEF Exact

\* What a complete walk returns is what one thread would make of the tree
\* (ResultIsExact): each file once, where the least of its paths is, every
\* directory with all that is under it, no directory passed by, and the
\* largest files.  For every tree, however its directories are scanned, and
\* whatever fails, is cancelled or is refused on the way.
THEOREM WalkExact == Spec => []ResultIsExact
<1>1. Init => Exact
  BY ExactInit
<1>2. Exact /\ [Next]_vars => Exact'
  BY ExactNext
<1>3. Exact => ResultIsExact
  BY DEF Exact
<1> QED BY <1>1, <1>2, <1>3, PTL DEF Spec
=============================================================================
