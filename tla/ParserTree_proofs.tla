-------------------------- MODULE ParserTree_proofs --------------------------
(***************************************************************************)
(* Proofs about the tree of an accepted program, for every sequence of     *)
(* tokens.  What the loop of _pratt lets go on with an operand decides how *)
(* every operator of the tree nests in the others; and every declaration   *)
(* and statement of the program is in the tree.                            *)
(***************************************************************************)
EXTENDS Parser_proofs

-----------------------------------------------------------------------------
(* The levels nest: the invariant.                                         *)

CloseParen(t) == t = ")"

(* An operand that an operator at this place may have on its left, and on  *)
(* its right: the root of its tree.                                        *)
LeftFits(p, tree, at, l) ==
  tree[l].node = "binary" => Prec(p[tree[l].at]) >= Prec(p[at]) - 1 \/ CloseParen(p[at - 1])
RightFits(p, tree, at, r) ==
  tree[r].node = "binary" =>
    \/ Prec(p[tree[r].at]) > Prec(p[at]) + 1
    \/ OpenParen(p[at + 1]) /\ at < tree[r].at

(* A node of two sides is an operator with its operands, and they fit.     *)
Level(p, tree, k) ==
  LET at == tree[k].at
      r == k - 1
      l == tree[r].from - 1
  IN /\ Prec(p[at]) >= 0
     /\ r \in DOMAIN tree /\ l \in DOMAIN tree /\ tree[k].from <= r
     /\ LeftFits(p, tree, at, l) /\ RightFits(p, tree, at, r)
Leveled(p, tree) == \A k \in DOMAIN tree : tree[k].node = "binary" => Level(p, tree, k)

IsBinary(task) == task[1] = "build" /\ task[2] = "binary"
IsLed(task) == task[1] = "led"
IsExpr(task) == task[1] = "expr"
PosOf(task) == IF task[1] = "build" THEN task[3] ELSE task[2]

(* Where the tree begins that the first i calls are at work on.            *)
HeadStarts(tree, task, l) ==
  \/ IsExpr(task) /\ l = Len(tree)
  \/ (IsLed(task) \/ IsExpect(task)) /\ tree # <<>> /\ l = tree[Len(tree)].from - 1
  \/ (IsBuild(task) \/ IsCast(task)) /\ l = BaseOf(task)
Links(tasks, a, b) == \A k \in a .. b : IsLed(tasks[k]) \/ IsExpect(tasks[k])
StartsAt(tree, tasks, j, l) ==
  \/ j = 1 /\ HeadStarts(tree, tasks[1], l)
  \/ j > 1 /\ (IsBuild(tasks[j]) \/ IsCast(tasks[j])) /\ l = BaseOf(tasks[j])
Starts(tree, tasks, i, l) ==
  \E j \in 1 .. i : Links(tasks, j + 1, i) /\ StartsAt(tree, tasks, j, l)

(* The left operand is there, and whatever came after it is behind the     *)
(* operator.                                                               *)
LeftReady(p, tree, task, l) ==
  /\ l \in DOMAIN tree /\ BaseOf(task) < l
  /\ LeftFits(p, tree, PosOf(task), l)
  /\ \A k \in DOMAIN tree : l < k => PosOf(task) < tree[k].at

(* An operator that waits for its right operand.                           *)
Operator(p, tree, tasks, j) ==
  LET at == PosOf(tasks[j])
  IN /\ Prec(p[at]) >= 0
     /\ j + 1 \in DOMAIN tasks /\ IsLed(tasks[j + 1]) /\ GoesOn(p[at], tasks[j + 1][2])
     /\ j > 1 => \E l \in Nat : Starts(tree, tasks, j - 1, l) /\ LeftReady(p, tree, tasks[j], l)
Waiting(p, tree, tasks) ==
  \A j \in DOMAIN tasks : IsBinary(tasks[j]) => Operator(p, tree, tasks, j)

(* Which calls may be around which: the right operand has the level of its *)
(* operator, and if it is a group it begins behind it.                     *)
AroundLed(task) == IsBuild(task) \/ IsCast(task) \/ (IsExpect(task) /\ CloseParen(task[2]))
InGroup(task) == IsExpect(task) \/ IsCast(task)
Surrounded(p, c, tasks, j) ==
  /\ IsLed(tasks[j]) => AroundLed(tasks[j - 1])
  /\ IsBinary(tasks[j]) =>
       /\ tasks[j - 1][2] = Prec(p[PosOf(tasks[j])]) + 1
       /\ IsLed(tasks[j - 1]) \/ (j = 2 /\ IsExpr(tasks[1]) /\ c = PosOf(tasks[j]) + 1)
       /\ j > 2 /\ InGroup(tasks[j - 2]) => OpenParen(p[PosOf(tasks[j]) + 1])
Nested(p, c, tasks) == \A j \in DOMAIN tasks : j > 1 => Surrounded(p, c, tasks, j)

(* An operator is before the calls inside it.                              *)
InOrder(c, tasks) ==
  \A j \in DOMAIN tasks :
    IsBinary(tasks[j]) =>
      /\ PosOf(tasks[j]) < c
      /\ \A i \in DOMAIN tasks : i < j /\ HasBase(tasks[i]) => PosOf(tasks[j]) < PosOf(tasks[i])

(* The innermost call finds what it needs: one that goes on with a tree,   *)
(* and an operator whose right operand has ended.                          *)
LedReady(p, c, tree, tasks) ==
  tree[Len(tree)].node = "binary" =>
    LET t == p[tree[Len(tree)].at]
    IN \/ GoesOn(t, tasks[1][2]) /\ ~GoesOn(p[c], Prec(t) + 1)
       \/ /\ CloseParen(p[c - 1])
          /\ 2 \in DOMAIN tasks /\ IsBinary(tasks[2]) => OpenParen(p[PosOf(tasks[2]) + 1])
RightReady(p, c, tree, task) ==
  /\ ~GoesOn(p[c], Prec(p[PosOf(task)]) + 1)
  /\ tree # <<>>
  /\ LeftReady(p, tree, task, tree[Len(tree)].from - 1)
  /\ RightFits(p, tree, PosOf(task), Len(tree))
Ready(p, c, tree, tasks) ==
  1 \in DOMAIN tasks =>
    /\ IsLed(tasks[1]) => LedReady(p, c, tree, tasks)
    /\ IsBinary(tasks[1]) => RightReady(p, c, tree, tasks[1])

Graded(p, c, tree, tasks) ==
  /\ Leveled(p, tree)
  /\ Waiting(p, tree, tasks)
  /\ Nested(p, c, tasks)
  /\ InOrder(c, tasks)
  /\ Ready(p, c, tree, tasks)

LevelsInv == reported \/ crashed \/ Graded(tokens, current, nodes, todo)

-----------------------------------------------------------------------------
(* The levels nest: what a step keeps of it.                               *)

(* A position and a number of nodes in a task. *)
Typed(tasks) ==
  \A j \in DOMAIN tasks : HasBase(tasks[j]) => PosOf(tasks[j]) \in Nat /\ BaseOf(tasks[j]) \in Nat
TypedTree(tree) == \A k \in DOMAIN tree : tree[k].at \in Nat /\ tree[k].from \in Nat

(* What is known of a task by its name. *)
LEMMA KindsApart ==
  \A t : /\ IsBinary(t) => IsBuild(t) /\ HasBase(t)
         /\ IsBuild(t) => HasBase(t) /\ ~IsLed(t) /\ ~IsExpr(t) /\ ~IsExpect(t) /\ ~IsCast(t)
         /\ IsCast(t) => HasBase(t) /\ ~IsLed(t) /\ ~IsExpr(t) /\ ~IsExpect(t)
         /\ IsLed(t) => ~IsExpr(t) /\ ~IsExpect(t) /\ ~HasBase(t)
         /\ IsExpr(t) => ~IsExpect(t) /\ ~HasBase(t)
         /\ IsExpect(t) => ~HasBase(t)
BY DEF IsBinary, IsBuild, HasBase, IsLed, IsExpr, IsExpect, IsCast

(* The nodes of two sides remain what they were. *)
LEMMA LeveledAfter ==
  ASSUME NEW p, NEW tree, NEW more, NEW new, Grown(tree, more, new), Leveled(p, tree),
         \A k \in DOMAIN more : k \notin 1 .. Len(tree) /\ more[k].node = "binary" => Level(p, more, k)
  PROVE  Leveled(p, more)
<1> SUFFICES ASSUME NEW k \in DOMAIN more, more[k].node = "binary" PROVE Level(p, more, k)
  BY DEF Leveled
<1>1. CASE k \in 1 .. Len(tree)
  <2>1. more[k] = tree[k] /\ k \in DOMAIN tree
    BY <1>1 DEF Grown
  <2>2. Level(p, tree, k)
    BY <2>1 DEF Leveled
  <2>3. \A l \in DOMAIN tree : l \in DOMAIN more /\ more[l] = tree[l]
    BY DEF Grown
  <2> QED BY <2>1, <2>2, <2>3 DEF Level, LeftFits, RightFits
<1>2. CASE k \notin 1 .. Len(tree)
  BY <1>2
<1> QED BY <1>1, <1>2

(* What began the tree that the calls around are at work on is handed over *)
(* to the calls that a step leaves.                                        *)
HandsOver(tree, more, s, w) ==
  \A l \in Nat :
    HeadStarts(tree, s[1], l) =>
      IF w = <<>> THEN more # <<>> /\ more[Len(more)].from - 1 = l
                  ELSE Starts(more, w, Len(w), l)

LEMMA StartsAfter ==
  ASSUME NEW w, NEW s, NEW r, Joins(w, s, r), NEW tree, NEW more, HandsOver(tree, more, s, w),
         NEW i \in 1 .. Len(s), NEW l \in Nat, Starts(tree, s, i, l),
         w = <<>> => i > 1, w = <<>> <=> Len(w) = 0
  PROVE  Starts(more, r, Len(w) + i - 1, l)
<1>1. PICK j \in 1 .. i : Links(s, j + 1, i) /\ StartsAt(tree, s, j, l)
  BY DEF Starts
<1>2. Len(w) \in Nat /\ Len(s) \in Nat /\ Len(r) \in Nat /\ Len(r) = Len(w) + Len(s) - 1
  BY ONLY Joins(w, s, r) DEF Joins
<1>3. \A m \in 2 .. i : Len(w) + m - 1 \in 1 .. Len(r) /\ r[Len(w) + m - 1] = s[m]
  <2>1. \A m \in 2 .. i : m \in 2 .. Len(s)
    BY <1>2
  <2> QED BY <2>1, JoinPlaces
<1>4. ASSUME NEW a \in 2 .. i + 1, \A k \in a .. i : IsLed(s[k]) \/ IsExpect(s[k])
      PROVE  Links(r, Len(w) + a - 1, Len(w) + i - 1)
  <2> SUFFICES ASSUME NEW k \in Len(w) + a - 1 .. Len(w) + i - 1 PROVE IsLed(r[k]) \/ IsExpect(r[k])
    BY DEF Links
  <2>1. k - Len(w) + 1 \in a .. i /\ k - Len(w) + 1 \in 2 .. i /\ Len(w) + (k - Len(w) + 1) - 1 = k
    BY <1>2
  <2>2. r[k] = s[k - Len(w) + 1]
    BY <1>3, <2>1
  <2> QED BY <1>4, <2>1, <2>2
<1>5. CASE j > 1
  <2>1. /\ Len(w) + j - 1 \in 1 .. Len(w) + i - 1 /\ (Len(w) + j - 1) + 1 = Len(w) + (j + 1) - 1
        /\ j \in 2 .. i /\ j + 1 \in 2 .. i + 1
    BY <1>2, <1>5
  <2>2. r[Len(w) + j - 1] = s[j] /\ (IsBuild(s[j]) \/ IsCast(s[j])) /\ l = BaseOf(s[j])
    BY <1>1, <1>3, <1>5, <2>1 DEF StartsAt
  <2>3. Links(r, Len(w) + (j + 1) - 1, Len(w) + i - 1)
    BY <1>1, <1>4, <2>1 DEF Links
  <2>4. StartsAt(more, r, Len(w) + j - 1, l)
    <3>1. CASE Len(w) + j - 1 > 1
      BY <2>2, <3>1 DEF StartsAt
    <3>2. CASE Len(w) + j - 1 = 1
      BY <2>2, <3>2 DEF StartsAt, HeadStarts
    <3> QED BY <1>2, <2>1, <3>1, <3>2
  <2> QED BY <2>1, <2>3, <2>4 DEF Starts
<1>6. CASE j = 1
  <2>1. HeadStarts(tree, s[1], l) /\ \A k \in 2 .. i : IsLed(s[k]) \/ IsExpect(s[k])
    BY <1>1, <1>6 DEF StartsAt, Links
  <2>2. CASE w = <<>>
    <3>1. more # <<>> /\ l = more[Len(more)].from - 1
      BY <2>1, <2>2 DEF HandsOver
    <3>2. 2 \in 2 .. i /\ Len(w) = 0 /\ 3 \in 2 .. i + 1
      BY <2>2
    <3>3. r[1] = s[2] /\ (IsLed(s[2]) \/ IsExpect(s[2])) /\ 1 \in 1 .. Len(w) + i - 1
      BY <1>3, <2>1, <3>2
    <3>4. Links(r, Len(w) + 3 - 1, Len(w) + i - 1)
      <4>1. \A k \in 3 .. i : IsLed(s[k]) \/ IsExpect(s[k])
        BY <2>1
      <4> QED BY <1>4, <3>2, <4>1
    <3>5. StartsAt(more, r, 1, l)
      BY <3>1, <3>3 DEF StartsAt, HeadStarts
    <3>6. Len(w) + 3 - 1 = 1 + 1
      BY <3>2
    <3> QED BY <3>3, <3>4, <3>5, <3>6 DEF Starts
  <2>3. CASE w # <<>>
    <3>1. PICK m \in 1 .. Len(w) : Links(w, m + 1, Len(w)) /\ StartsAt(more, w, m, l)
      BY <2>1, <2>3 DEF HandsOver, Starts
    <3>2. \A k \in 1 .. Len(w) : r[k] = w[k]
      BY JoinPlaces
    <3>3. StartsAt(more, r, m, l)
      <4>1. r[m] = w[m] /\ (m = 1 => r[1] = w[1])
        BY <3>2
      <4> QED BY <3>1, <4>1 DEF StartsAt
    <3>4. 2 \in 2 .. i + 1 /\ Len(w) + 2 - 1 = Len(w) + 1
      BY <1>2
    <3>5. Links(r, Len(w) + 2 - 1, Len(w) + i - 1)
      BY <1>4, <2>1, <3>4
    <3>6. Links(r, m + 1, Len(w) + i - 1)
      <4> SUFFICES ASSUME NEW k \in m + 1 .. Len(w) + i - 1 PROVE IsLed(r[k]) \/ IsExpect(r[k])
        BY DEF Links
      <4>1. CASE k <= Len(w)
        <5>1. k \in m + 1 .. Len(w) /\ k \in 1 .. Len(w)
          BY <1>2, <4>1
        <5> QED BY <3>1, <3>2, <5>1 DEF Links
      <4>2. CASE k > Len(w)
        <5>1. k \in Len(w) + 2 - 1 .. Len(w) + i - 1
          BY <1>2, <4>2
        <5> QED BY <3>5, <5>1 DEF Links
      <4> QED BY <1>2, <4>1, <4>2
    <3>7. m \in 1 .. Len(w) + i - 1
      BY <1>2
    <3> QED BY <3>3, <3>6, <3>7 DEF Starts
  <2> QED BY <2>2, <2>3
<1> QED BY <1>5, <1>6

LEMMA LeftReadyAfter ==
  ASSUME NEW p, NEW tree, NEW more, NEW new, Grown(tree, more, new), NEW task, NEW l,
         LeftReady(p, tree, task, l), \A n \in new : PosOf(task) < n.at
  PROVE  LeftReady(p, more, task, l)
<1>1. l \in DOMAIN more /\ more[l] = tree[l]
  BY DEF LeftReady, Grown
<1>2. LeftFits(p, more, PosOf(task), l)
  BY <1>1 DEF LeftReady, LeftFits
<1>3. ASSUME NEW k \in DOMAIN more, l < k PROVE PosOf(task) < more[k].at
  <2>1. CASE k \in 1 .. Len(tree)
    <3>1. k \in DOMAIN tree /\ more[k] = tree[k]
      BY <2>1 DEF Grown
    <3> QED BY <1>3, <3>1 DEF LeftReady
  <2>2. CASE more[k] \in new
    BY <2>2
  <2> QED BY <2>1, <2>2 DEF Grown
<1> QED BY <1>1, <1>2, <1>3 DEF LeftReady

(* The operators around a call wait on. *)
LEMMA WaitingAfter ==
  ASSUME NEW p, NEW w, NEW s, NEW r, Joins(w, s, r), w = <<>> <=> Len(w) = 0,
         NEW tree, NEW more, NEW new, Grown(tree, more, new),
         Waiting(p, tree, s), HandsOver(tree, more, s, w),
         \A j \in 2 .. Len(s) : IsBinary(s[j]) => \A n \in new : PosOf(s[j]) < n.at,
         \A m \in 1 .. Len(w) : IsBinary(w[m]) => Operator(p, more, r, m)
  PROVE  Waiting(p, more, r)
<1>1. /\ Len(w) \in Nat /\ Len(s) \in Nat /\ Len(r) \in Nat /\ Len(r) = Len(w) + Len(s) - 1
      /\ DOMAIN s = 1 .. Len(s) /\ DOMAIN r = 1 .. Len(r)
  BY ONLY Joins(w, s, r) DEF Joins
<1>a. \A k \in 1 .. Len(w) : r[k] = w[k]
  BY ONLY Joins(w, s, r), Zenon DEF Joins
<1>b. \A k \in 1 .. Len(r) : k > Len(w) => \E a \in 2 .. Len(s) : k = Len(w) + a - 1 /\ r[k] = s[a]
  BY ONLY Joins(w, s, r), JoinsBehind
<1>c. \A a \in 2 .. Len(s) : Len(w) + a - 1 \in 1 .. Len(r) /\ r[Len(w) + a - 1] = s[a]
  BY ONLY Joins(w, s, r), Zenon DEF Joins
<1> SUFFICES ASSUME NEW m \in 1 .. Len(r), IsBinary(r[m]) PROVE Operator(p, more, r, m)
  BY <1>1 DEF Waiting
<1>2. CASE m <= Len(w)
  <2>1. m \in 1 .. Len(w)
    BY <1>1, <1>2
  <2>2. r[m] = w[m]
    BY <2>1, <1>a, <1>b, <1>c
  <2> QED BY <2>1, <2>2
<1>3. CASE m > Len(w)
  <2>1. PICK j \in 2 .. Len(s) : m = Len(w) + j - 1 /\ r[m] = s[j]
    BY <1>3, <1>a, <1>b, <1>c
  <2>2. Operator(p, tree, s, j)
    BY <1>1, <2>1 DEF Waiting
  <2>3. j + 1 \in 2 .. Len(s) /\ Len(w) + (j + 1) - 1 = m + 1
    BY <1>1, <2>1, <2>2 DEF Operator
  <2>4. m + 1 \in DOMAIN r /\ r[m + 1] = s[j + 1]
    BY <1>1, <2>3, <1>a, <1>b, <1>c
  <2>5. ASSUME m > 1 PROVE \E l \in Nat : Starts(more, r, m - 1, l) /\ LeftReady(p, more, r[m], l)
    <3>1. PICK l \in Nat : Starts(tree, s, j - 1, l) /\ LeftReady(p, tree, s[j], l)
      BY <2>1, <2>2 DEF Operator
    <3>2. j - 1 \in 1 .. Len(s) /\ (w = <<>> => j - 1 > 1) /\ Len(w) + (j - 1) - 1 = m - 1
      BY <1>1, <2>1, <2>5
    <3>3. Starts(more, r, Len(w) + (j - 1) - 1, l)
      BY <3>1, <3>2, StartsAfter
    <3>4. LeftReady(p, more, s[j], l)
      BY <2>1, <3>1, LeftReadyAfter
    <3> QED BY <2>1, <3>2, <3>3, <3>4
  <2> QED BY <2>1, <2>2, <2>4, <2>5 DEF Operator
<1> QED BY <1>1, <1>2, <1>3

(* What is around the calls that a step leaves. *)
LEMMA NestedAfter ==
  ASSUME NEW p, NEW c, NEW d, NEW w, NEW s, NEW r, Joins(w, s, r), Nested(p, c, s),
         \A m \in 2 .. Len(w) + 1 : m \in DOMAIN r => Surrounded(p, d, r, m),
         3 \in DOMAIN s /\ IsBinary(s[3]) /\ Len(w) > 0 /\ InGroup(w[Len(w)]) =>
           OpenParen(p[PosOf(s[3]) + 1])
  PROVE  Nested(p, d, r)
<1>1. /\ Len(w) \in Nat /\ Len(s) \in Nat /\ Len(r) \in Nat /\ Len(r) = Len(w) + Len(s) - 1
      /\ DOMAIN s = 1 .. Len(s) /\ DOMAIN r = 1 .. Len(r)
  BY ONLY Joins(w, s, r) DEF Joins
<1>a. \A k \in 1 .. Len(w) : r[k] = w[k]
  BY ONLY Joins(w, s, r), Zenon DEF Joins
<1>b. \A k \in 1 .. Len(r) : k > Len(w) => \E a \in 2 .. Len(s) : k = Len(w) + a - 1 /\ r[k] = s[a]
  BY ONLY Joins(w, s, r), JoinsBehind
<1>c. \A a \in 2 .. Len(s) : Len(w) + a - 1 \in 1 .. Len(r) /\ r[Len(w) + a - 1] = s[a]
  BY ONLY Joins(w, s, r), Zenon DEF Joins
<1> SUFFICES ASSUME NEW m \in 1 .. Len(r), m > 1 PROVE Surrounded(p, d, r, m)
  BY <1>1 DEF Nested
<1>2. CASE m <= Len(w) + 1
  BY <1>1, <1>2
<1>3. CASE m > Len(w) + 1
  <2>1. PICK j \in 2 .. Len(s) : m = Len(w) + j - 1 /\ r[m] = s[j]
    <3>1. m > Len(w)
      BY <1>1, <1>3
    <3> QED BY <3>1, <1>b
  <2>2. j > 2 /\ j \in DOMAIN s /\ j - 1 \in 2 .. Len(s) /\ Len(w) + (j - 1) - 1 = m - 1
    BY <1>1, <1>3, <2>1
  <2>3. r[m - 1] = s[j - 1]
    BY <2>2, <1>a, <1>b, <1>c
  <2>4. Surrounded(p, c, s, j)
    BY <1>1, <2>2 DEF Nested
  <2>5. ASSUME IsBinary(s[j]), m > 2, InGroup(r[m - 2]) PROVE OpenParen(p[PosOf(s[j]) + 1])
    <3>1. CASE j > 3
      <4>1. j - 2 \in 2 .. Len(s) /\ Len(w) + (j - 2) - 1 = m - 2
        BY <1>1, <2>1, <3>1
      <4>2. r[m - 2] = s[j - 2]
        BY <4>1, <1>a, <1>b, <1>c
      <4> QED BY <2>2, <2>4, <2>5, <4>2 DEF Surrounded
    <3>2. CASE j = 3
      <4>1. Len(w) \in 1 .. Len(w) /\ Len(w) > 0 /\ m - 2 = Len(w)
        BY <1>1, <2>1, <2>5, <3>2
      <4>2. r[m - 2] = w[Len(w)]
        BY <4>1, <1>a, <1>b, <1>c
      <4> QED BY <2>2, <2>5, <3>2, <4>1, <4>2
    <3> QED BY <2>2, <3>1, <3>2
  <2>6. j # 2
    BY <2>2
  <2>7. IsLed(s[j]) => AroundLed(s[j - 1])
    BY <2>4 DEF Surrounded
  <2>8. IsBinary(s[j]) => s[j - 1][2] = Prec(p[PosOf(s[j])]) + 1 /\ IsLed(s[j - 1])
    BY <2>4, <2>6 DEF Surrounded
  <2> QED BY <2>1, <2>3, <2>5, <2>7, <2>8 DEF Surrounded
<1> QED BY <1>1, <1>2, <1>3

LEMMA OrderAfter ==
  ASSUME NEW c, NEW d, NEW w, NEW s, NEW r, Joins(w, s, r), InOrder(c, s),
         \A j \in 2 .. Len(s) :
           IsBinary(s[j]) =>
             /\ PosOf(s[j]) < d
             /\ \A m \in 1 .. Len(w) : HasBase(w[m]) => PosOf(s[j]) < PosOf(w[m]),
         \A m \in 1 .. Len(w) :
           IsBinary(w[m]) => PosOf(w[m]) < d /\ \A i \in 1 .. m - 1 : ~HasBase(w[i])
  PROVE  InOrder(d, r)
<1>1. /\ Len(w) \in Nat /\ Len(s) \in Nat /\ Len(r) \in Nat /\ Len(r) = Len(w) + Len(s) - 1
      /\ DOMAIN s = 1 .. Len(s) /\ DOMAIN r = 1 .. Len(r)
  BY ONLY Joins(w, s, r) DEF Joins
<1>a. \A k \in 1 .. Len(w) : r[k] = w[k]
  BY ONLY Joins(w, s, r), Zenon DEF Joins
<1>b. \A k \in 1 .. Len(r) : k > Len(w) => \E a \in 2 .. Len(s) : k = Len(w) + a - 1 /\ r[k] = s[a]
  BY ONLY Joins(w, s, r), JoinsBehind
<1>c. \A a \in 2 .. Len(s) : Len(w) + a - 1 \in 1 .. Len(r) /\ r[Len(w) + a - 1] = s[a]
  BY ONLY Joins(w, s, r), Zenon DEF Joins
<1> SUFFICES ASSUME NEW m \in 1 .. Len(r), IsBinary(r[m])
             PROVE  /\ PosOf(r[m]) < d
                    /\ \A i \in 1 .. Len(r) : i < m /\ HasBase(r[i]) => PosOf(r[m]) < PosOf(r[i])
  BY <1>1 DEF InOrder
<1>2. CASE m <= Len(w)
  <2>1. m \in 1 .. Len(w) /\ \A i \in 1 .. Len(r) : i < m => i \in 1 .. m - 1 /\ i \in 1 .. Len(w)
    BY <1>1, <1>2
  <2>2. r[m] = w[m] /\ \A i \in 1 .. Len(w) : r[i] = w[i]
    BY <2>1, <1>a, <1>b, <1>c
  <2> QED BY <2>1, <2>2
<1>3. CASE m > Len(w)
  <2>1. PICK j \in 2 .. Len(s) : m = Len(w) + j - 1 /\ r[m] = s[j]
    BY <1>3, <1>a, <1>b, <1>c
  <2>2. ASSUME NEW i \in 1 .. Len(r), i < m, HasBase(r[i]) PROVE PosOf(s[j]) < PosOf(r[i])
    <3>1. CASE i <= Len(w)
      <4>1. i \in 1 .. Len(w)
        BY <1>1, <3>1
      <4>2. r[i] = w[i]
        BY <4>1, <1>a, <1>b, <1>c
      <4> QED BY <2>1, <2>2, <4>1, <4>2
    <3>2. CASE i > Len(w)
      <4>1. PICK a \in 2 .. Len(s) : i = Len(w) + a - 1 /\ r[i] = s[a]
        BY <3>2, <1>a, <1>b, <1>c
      <4>2. a \in DOMAIN s /\ j \in DOMAIN s /\ a < j
        BY <1>1, <2>1, <2>2, <4>1
      <4> QED BY <2>1, <2>2, <4>1, <4>2 DEF InOrder
    <3> QED BY <1>1, <3>1, <3>2
  <2> QED BY <2>1, <2>2
<1> QED BY <1>1, <1>2, <1>3

-----------------------------------------------------------------------------
(* The levels nest: the kinds of steps.                                    *)

Grading == IInv /\ ~reported /\ ~crashed /\ Graded(tokens, current, nodes, todo)

(* A position behind the operators that are around the innermost call.     *)
AfterOps(q) == q \in Nat /\ \A j \in 2 .. Len(todo) : IsBinary(todo[j]) => PosOf(todo[j]) < q

LEMMA GradingFacts ==
  ASSUME Grading
  PROVE  /\ tokens \in Programs /\ current \in Positions /\ current \in Nat
         /\ todo \in Seq(Tasks) /\ nodes \in Seq(NodeSet)
         /\ Len(todo) \in Nat /\ DOMAIN todo = 1 .. Len(todo)
         /\ Len(nodes) \in Nat /\ DOMAIN nodes = 1 .. Len(nodes)
         /\ Typed(todo) /\ TypedTree(nodes)
         /\ Leveled(tokens, nodes) /\ Waiting(tokens, nodes, todo) /\ Nested(tokens, current, todo)
         /\ InOrder(current, todo) /\ Ready(tokens, current, nodes, todo)
<1>1. /\ tokens \in Programs /\ current \in Positions /\ todo \in Seq(Tasks) /\ nodes \in Seq(NodeSet)
  BY Zenon DEF Grading, IInv, TypeInv
<1>2. /\ Leveled(tokens, nodes) /\ Waiting(tokens, nodes, todo) /\ Nested(tokens, current, todo)
      /\ InOrder(current, todo) /\ Ready(tokens, current, nodes, todo)
  BY Zenon DEF Grading, Graded
<1>3. Len(todo) \in Nat /\ DOMAIN todo = 1 .. Len(todo)
      /\ Len(nodes) \in Nat /\ DOMAIN nodes = 1 .. Len(nodes)
  BY <1>1
<1>4. Typed(todo)
  <2> SUFFICES ASSUME NEW j \in DOMAIN todo, HasBase(todo[j])
               PROVE  PosOf(todo[j]) \in Nat /\ BaseOf(todo[j]) \in Nat
    BY DEF Typed
  <2>1. todo[j] \in Tasks
    BY <1>1
  <2>2. TaskForm(todo[j])
    BY <2>1, TaskForms, Zenon
  <2>3. PosOf(todo[j]) \in Positions
    BY <2>2 DEF TaskForm, PosOf, HasBase
  <2>4. BaseOf(todo[j]) \in Nat
    BY <2>2, Zenon DEF TaskForm
  <2> QED BY <2>3, <2>4 DEF Positions
<1>5. TypedTree(nodes)
  <2> SUFFICES ASSUME NEW k \in DOMAIN nodes PROVE nodes[k].at \in Nat /\ nodes[k].from \in Nat
    BY DEF TypedTree
  <2>1. nodes[k] \in NodeSet
    BY <1>1
  <2> QED BY <2>1 DEF NodeSet, Positions
<1>6. current \in Nat
  BY <1>1 DEF Positions
<1> QED BY <1>1, <1>2, <1>3, <1>4, <1>5, <1>6

(* What comes next, and what the innermost call remembers, is behind them. *)
LEMMA Later ==
  ASSUME Grading
  PROVE  /\ \A q \in Positions : current <= q => AfterOps(q)
         /\ todo # <<>> /\ HasBase(todo[1]) => AfterOps(PosOf(todo[1]))
         /\ \A c \in Positions : Forward(c) \in Positions /\ c <= Forward(c)
         /\ \A c \in Positions : current <= c => current <= Forward(c)
<1>1. /\ InOrder(current, todo) /\ Len(todo) \in Nat /\ DOMAIN todo = 1 .. Len(todo)
      /\ current \in Nat /\ Typed(todo) /\ tokens \in Programs /\ todo \in Seq(Tasks)
  BY GradingFacts
<1>2. \A j \in 2 .. Len(todo) : j \in DOMAIN todo /\ 1 < j
  BY <1>1
<1>3. \A j \in 2 .. Len(todo) : IsBinary(todo[j]) => PosOf(todo[j]) < current /\ PosOf(todo[j]) \in Nat
  BY <1>1, <1>2, KindsApart DEF InOrder, Typed
<1>4. ASSUME NEW q \in Positions, current <= q PROVE AfterOps(q)
  <2>1. q \in Nat
    BY DEF Positions
  <2> QED BY <1>1, <1>3, <1>4, <2>1 DEF AfterOps
<1>5. ASSUME todo # <<>>, HasBase(todo[1]) PROVE AfterOps(PosOf(todo[1]))
  <2>1. 1 \in DOMAIN todo
    BY <1>1, <1>5
  <2>2. PosOf(todo[1]) \in Nat
    BY <1>1, <1>5, <2>1 DEF Typed
  <2> QED BY <1>1, <1>2, <1>5, <2>1, <2>2 DEF AfterOps, InOrder
<1>6. ASSUME NEW c \in Positions
      PROVE  Forward(c) \in Positions /\ c <= Forward(c) /\ (current <= c => current <= Forward(c))
  <2>1. Len(tokens) \in Nat
    BY <1>1, TokenFacts
  <2>2. Forward(c) \in Positions
    BY <1>1, Moves
  <2> QED BY <1>1, <2>1, <2>2 DEF Forward, Positions
<1> QED BY <1>4, <1>5, <1>6

LEMMA GradedStep ==
  ASSUME Grading, todo # <<>>, NEW c \in Positions, current <= c,
         NEW new, NEW tree, Grown(nodes, tree, new),
         NEW w, Work(w), NEW r, r = w \o Tail(todo), Step(c, FALSE, tree, w),
         Leveled(tokens, tree), \A n \in new : AfterOps(n.at),
         HandsOver(nodes, tree, todo, w),
         \A m \in 1 .. Len(w) : HasBase(w[m]) => AfterOps(PosOf(w[m])),
         \A m \in 1 .. Len(w) :
           IsBinary(w[m]) => /\ Operator(tokens, tree, r, m) /\ PosOf(w[m]) < c
                             /\ \A i \in 1 .. m - 1 : ~HasBase(w[i]),
         \A m \in 2 .. Len(w) + 1 : m \in DOMAIN r => Surrounded(tokens, c, r, m),
         3 \in DOMAIN todo /\ IsBinary(todo[3]) /\ Len(w) > 0 /\ InGroup(w[Len(w)]) =>
           OpenParen(tokens[PosOf(todo[3]) + 1]),
         Ready(tokens, c, tree, r)
  PROVE  LevelsInv'
<1>1. /\ todo \in Seq(Tasks) /\ Waiting(tokens, nodes, todo) /\ Nested(tokens, current, todo)
      /\ InOrder(current, todo)
  BY GradingFacts
<1>2. Joins(w, todo, r)
  BY <1>1, JoinFacts
<1>3. w = <<>> <=> Len(w) = 0
  <2>1. PICK S : w \in Seq(S)
    BY DEF Work
  <2> QED BY <2>1
<1>4. AfterOps(c)
  BY Later
<1>5. Waiting(tokens, tree, r)
  <2>1. \A j \in 2 .. Len(todo) : IsBinary(todo[j]) => \A n \in new : PosOf(todo[j]) < n.at
    BY DEF AfterOps
  <2>2. \A m \in 1 .. Len(w) : IsBinary(w[m]) => Operator(tokens, tree, r, m)
    OBVIOUS
  <2> QED BY <1>1, <1>2, <1>3, <2>1, <2>2, WaitingAfter
<1>6. Nested(tokens, c, r)
  BY <1>1, <1>2, NestedAfter
<1>7. InOrder(c, r)
  <2>1. \A j \in 2 .. Len(todo) :
          IsBinary(todo[j]) =>
            /\ PosOf(todo[j]) < c
            /\ \A m \in 1 .. Len(w) : HasBase(w[m]) => PosOf(todo[j]) < PosOf(w[m])
    BY <1>4 DEF AfterOps
  <2>2. \A m \in 1 .. Len(w) : IsBinary(w[m]) => PosOf(w[m]) < c /\ \A i \in 1 .. m - 1 : ~HasBase(w[i])
    OBVIOUS
  <2> QED BY <1>1, <1>2, <2>1, <2>2, OrderAfter
<1>8. Graded(tokens, c, tree, r)
  BY <1>5, <1>6, <1>7 DEF Graded
<1>9. current' = c /\ nodes' = tree /\ todo' = r /\ tokens' = tokens
  BY DEF Step
<1>10. Graded(tokens', current', nodes', todo')
  BY <1>8, <1>9, Zenon
<1> QED BY <1>10, Zenon DEF LevelsInv

(* Work that needs no look: it goes on with no expression, and what it     *)
(* remembers is behind the operators around.                               *)
Late(t) == ~IsLed(t) /\ ~IsCast(t) /\ ~IsBinary(t) /\ (HasBase(t) => AfterOps(PosOf(t)))
LateWork(w) == \E S : w \in Seq(S) /\ \A t \in S : Late(t)
LateNode(n) == n.node # "binary" /\ AfterOps(n.at)

LEMMA LateFacts ==
  ASSUME NEW w, LateWork(w)
  PROVE  Work(w) /\ Len(w) \in Nat /\ \A m \in 1 .. Len(w) : Late(w[m])
<1>1. PICK S : w \in Seq(S) /\ \A t \in S : Late(t)
  BY DEF LateWork
<1>2. Work(w)
  BY <1>1 DEF Work
<1>3. Len(w) \in Nat /\ \A m \in 1 .. Len(w) : w[m] \in S
  BY <1>1
<1> QED BY <1>1, <1>2, <1>3

LEMMA LateTree ==
  ASSUME Grading, NEW new, NEW tree, Grown(nodes, tree, new), \A n \in new : LateNode(n)
  PROVE  Leveled(tokens, tree) /\ \A n \in new : AfterOps(n.at)
<1>1. \A k \in DOMAIN tree : k \notin 1 .. Len(nodes) => tree[k].node # "binary"
  BY DEF LateNode, Grown
<1>2. Leveled(tokens, tree)
  BY <1>1, GradingFacts, LeveledAfter
<1> QED BY <1>2 DEF LateNode

(* A call that is no part of an expression, of a group or of a tree. *)
Ordinary(n) == n \notin {"expr", "led", "expect", "build", "cast"}

LEMMA OrdinaryStep ==
  ASSUME Grading, NEW n, Doing(n), Ordinary(n), NEW c \in Positions, current <= c,
         NEW new, NEW tree, Grown(nodes, tree, new), \A k \in new : LateNode(k),
         NEW w, LateWork(w), Step(c, FALSE, tree, w)
  PROVE  LevelsInv'
<1>1. todo # <<>> /\ todo[1][1] = n
  BY HeadFacts, Zenon DEF Grading
<1>2. ~IsExpr(todo[1]) /\ ~IsLed(todo[1]) /\ ~IsExpect(todo[1]) /\ ~IsBuild(todo[1]) /\ ~IsCast(todo[1])
  BY <1>1 DEF Ordinary, IsExpr, IsLed, IsExpect, IsBuild, IsCast
<1>3. Work(w) /\ Len(w) \in Nat /\ \A m \in 1 .. Len(w) : Late(w[m])
  BY LateFacts
<1>4. PICK r : r = w \o Tail(todo)
  OBVIOUS
<1>5. todo \in Seq(Tasks) /\ Nested(tokens, current, todo) /\ DOMAIN todo = 1 .. Len(todo)
  BY GradingFacts
<1>6. Joins(w, todo, r)
  BY <1>1, <1>3, <1>4, <1>5, JoinFacts
<1>7. HandsOver(nodes, tree, todo, w)
  BY <1>2 DEF HandsOver, HeadStarts
<1>8. 2 \in DOMAIN todo => ~IsLed(todo[2]) /\ ~IsBinary(todo[2])
  <2> SUFFICES ASSUME 2 \in DOMAIN todo PROVE ~IsLed(todo[2]) /\ ~IsBinary(todo[2])
    OBVIOUS
  <2>1. Surrounded(tokens, current, todo, 2)
    BY <1>5 DEF Nested
  <2>2. 2 - 1 = 1
    OBVIOUS
  <2> QED BY <1>2, <2>1, <2>2 DEF Surrounded, AroundLed
<1>9. 3 \in DOMAIN todo => ~IsBinary(todo[3])
  <2> SUFFICES ASSUME 3 \in DOMAIN todo PROVE ~IsBinary(todo[3])
    OBVIOUS
  <2>1. Surrounded(tokens, current, todo, 3) /\ 2 \in DOMAIN todo
    BY <1>5 DEF Nested
  <2>2. 3 - 1 = 2 /\ 3 # 2
    OBVIOUS
  <2> QED BY <1>8, <2>1, <2>2 DEF Surrounded
<1>10. \A m \in 1 .. Len(w) + 1 : m \in DOMAIN r => ~IsLed(r[m]) /\ ~IsBinary(r[m])
  <2> SUFFICES ASSUME NEW m \in 1 .. Len(w) + 1, m \in DOMAIN r PROVE ~IsLed(r[m]) /\ ~IsBinary(r[m])
    OBVIOUS
  <2>1. CASE m \in 1 .. Len(w)
    <3>1. r[m] = w[m]
      BY <1>6, <2>1, JoinPlaces
    <3> QED BY <1>3, <2>1, <3>1 DEF Late
  <2>2. CASE m = Len(w) + 1
    <3>1. /\ Len(r) \in Nat /\ Len(r) = Len(w) + Len(todo) - 1 /\ Len(todo) \in Nat
          /\ DOMAIN r = 1 .. Len(r)
      BY <1>6, JoinPlaces
    <3>2. 2 \in 2 .. Len(todo) /\ Len(w) + 2 - 1 = m
      BY <1>3, <2>2, <3>1
    <3>3. r[Len(w) + 2 - 1] = todo[2]
      BY <1>6, <3>2, JoinPlaces
    <3>4. 2 \in DOMAIN todo
      BY <1>5, <3>2
    <3> QED BY <1>8, <3>2, <3>3, <3>4
  <2> QED BY <1>3, <2>1, <2>2
<1>11. \A m \in 2 .. Len(w) + 1 : m \in DOMAIN r => Surrounded(tokens, c, r, m)
  <2>1. \A m \in 2 .. Len(w) + 1 : m \in 1 .. Len(w) + 1
    BY <1>3
  <2> QED BY <1>10, <2>1 DEF Surrounded
<1>12. Ready(tokens, c, tree, r)
  <2>1. 1 \in 1 .. Len(w) + 1
    BY <1>3
  <2> QED BY <1>10, <2>1 DEF Ready
<1>13. \A m \in 1 .. Len(w) : (HasBase(w[m]) => AfterOps(PosOf(w[m]))) /\ ~IsBinary(w[m])
  BY <1>3 DEF Late
<1>14. Leveled(tokens, tree) /\ \A k \in new : AfterOps(k.at)
  BY LateTree
<1> QED BY <1>1, <1>3, <1>4, <1>7, <1>9, <1>11, <1>12, <1>13, <1>14, GradedStep

LEMMA OrdinaryGoes ==
  ASSUME Grading, NEW n, Doing(n), Ordinary(n), NEW c \in Positions, current <= c,
         NEW w, LateWork(w), Step(c, FALSE, nodes, w)
  PROVE  LevelsInv'
<1>1. nodes \in Seq(NodeSet)
  BY GradingFacts
<1>2. PICK new, tree : new = {} /\ tree = nodes
  OBVIOUS
<1>3. Grown(nodes, tree, new) /\ (\A k \in new : LateNode(k)) /\ Step(c, FALSE, tree, w)
  BY <1>1, <1>2, GrownFacts
<1> QED BY ONLY Grading, Doing(n), Ordinary(n), c \in Positions, current <= c, LateWork(w), <1>3,
                OrdinaryStep

LEMMA OrdinaryMakes ==
  ASSUME Grading, NEW n, Doing(n), Ordinary(n), NEW c \in Positions, current <= c,
         NEW k, LateNode(k), NEW w, LateWork(w), Step(c, FALSE, Append(nodes, k), w)
  PROVE  LevelsInv'
<1>1. nodes \in Seq(NodeSet)
  BY GradingFacts
<1>2. PICK new, tree : new = {k} /\ tree = Append(nodes, k)
  OBVIOUS
<1>3. Grown(nodes, tree, new) /\ (\A l \in new : LateNode(l)) /\ Step(c, FALSE, tree, w)
  BY <1>1, <1>2, GrownFacts
<1> QED BY ONLY Grading, Doing(n), Ordinary(n), c \in Positions, current <= c, LateWork(w), <1>3,
                OrdinaryStep

(* A step that reports something. *)
LEMMA ReportedStep ==
  ASSUME NEW c, NEW tree, NEW w, Step(c, TRUE, tree, w)
  PROVE  LevelsInv'
BY DEF Step, LevelsInv

(* What is late, by its name, and the work of one to nine such tasks. *)
LEMMA LateTasks ==
  /\ Late(Type) /\ Late(Suffixes) /\ Late(Anon) /\ Late(Default)
  /\ Late(Stmt) /\ Late(Stmts) /\ Late(Block) /\ Late(Else) /\ Late(DoCond) /\ Late(ForInit)
  /\ Late(Program) /\ Late(Declaration) /\ Late(Parents) /\ Late(AfterParent) /\ Late(Aliases)
  /\ Late(Members) /\ Late(Self) /\ Late(Params) /\ Late(AfterParam) /\ Late(Returns)
  /\ Late(MethodBody) /\ Late(FuncParams) /\ Late(AfterFuncParam)
  /\ \A m : Late(Expr(m)) /\ Late(Clause(m))
  /\ \A t, f : Late(ExpectOr(t, f)) /\ Late(Expect(t)) /\ Late(Items(f, t)) /\ Late(Comma(t))
  /\ \A at, b : AfterOps(at) => /\ Late(AnonField(at, b)) /\ Late(Then(at, b)) /\ Late(Body(at, b))
                                /\ Late(FuncReturns(at, b)) /\ Late(FuncBody(at, b))
                                /\ \A n : n # "binary" => Late(Build(n, at, b))
BY DEF Late, IsLed, IsCast, IsBinary, HasBase, PosOf, Type, Suffixes, Anon, Default, Stmt, Stmts,
       Block, Else, DoCond, ForInit, Program, Declaration, Parents, AfterParent, Aliases, Members,
       Self, Params, AfterParam, Returns, MethodBody, FuncParams, AfterFuncParam, Expr, Clause,
       ExpectOr, Expect, Items, Comma, AnonField, Then, Body, FuncReturns, FuncBody, Build

LEMMA LateNothing == LateWork(<<>>)
<1>1. PICK S : S = {}
  OBVIOUS
<1>2. <<>> \in Seq(S) /\ \A t \in S : Late(t)
  BY <1>1
<1> QED BY <1>2 DEF LateWork

LEMMA LateOne ==
  ASSUME NEW x1, Late(x1)
  PROVE  LateWork(<<x1>>)
<1>1. PICK S : S = {x1}
  OBVIOUS
<1>2. <<x1>> \in Seq(S) /\ \A t \in S : Late(t)
  BY <1>1
<1> QED BY <1>2 DEF LateWork

LEMMA LateTwo ==
  ASSUME NEW x1, Late(x1), NEW x2, Late(x2)
  PROVE  LateWork(<<x1, x2>>)
<1>1. PICK S : S = {x1, x2}
  OBVIOUS
<1>2. <<x1, x2>> \in Seq(S) /\ \A t \in S : Late(t)
  BY <1>1
<1> QED BY <1>2 DEF LateWork

LEMMA LateThree ==
  ASSUME NEW x1, Late(x1), NEW x2, Late(x2), NEW x3, Late(x3)
  PROVE  LateWork(<<x1, x2, x3>>)
<1>1. PICK S : S = {x1, x2, x3}
  OBVIOUS
<1>2. <<x1, x2, x3>> \in Seq(S) /\ \A t \in S : Late(t)
  BY <1>1
<1> QED BY <1>2 DEF LateWork

LEMMA LateFour ==
  ASSUME NEW x1, Late(x1), NEW x2, Late(x2), NEW x3, Late(x3), NEW x4, Late(x4)
  PROVE  LateWork(<<x1, x2, x3, x4>>)
<1>1. PICK S : S = {x1, x2, x3, x4}
  OBVIOUS
<1>2. <<x1, x2, x3, x4>> \in Seq(S) /\ \A t \in S : Late(t)
  BY <1>1
<1> QED BY <1>2 DEF LateWork

LEMMA LateFive ==
  ASSUME NEW x1, Late(x1), NEW x2, Late(x2), NEW x3, Late(x3), NEW x4, Late(x4), NEW x5, Late(x5)
  PROVE  LateWork(<<x1, x2, x3, x4, x5>>)
<1>1. PICK S : S = {x1, x2, x3, x4, x5}
  OBVIOUS
<1>2. <<x1, x2, x3, x4, x5>> \in Seq(S) /\ \A t \in S : Late(t)
  BY <1>1
<1> QED BY <1>2 DEF LateWork

LEMMA LateSix ==
  ASSUME NEW x1, Late(x1), NEW x2, Late(x2), NEW x3, Late(x3), NEW x4, Late(x4),
         NEW x5, Late(x5), NEW x6, Late(x6)
  PROVE  LateWork(<<x1, x2, x3, x4, x5, x6>>)
<1>1. PICK S : S = {x1, x2, x3, x4, x5, x6}
  OBVIOUS
<1>2. <<x1, x2, x3, x4, x5, x6>> \in Seq(S) /\ \A t \in S : Late(t)
  BY <1>1
<1> QED BY <1>2 DEF LateWork

LEMMA LateNine ==
  ASSUME NEW x1, Late(x1), NEW x2, Late(x2), NEW x3, Late(x3), NEW x4, Late(x4),
         NEW x5, Late(x5), NEW x6, Late(x6), NEW x7, Late(x7), NEW x8, Late(x8), NEW x9, Late(x9)
  PROVE  LateWork(<<x1, x2, x3, x4, x5, x6, x7, x8, x9>>)
<1>1. PICK S : S = {x1, x2, x3, x4, x5, x6, x7, x8, x9}
  OBVIOUS
<1>2. <<x1, x2, x3, x4, x5, x6, x7, x8, x9>> \in Seq(S) /\ \A t \in S : Late(t)
  BY <1>1
<1> QED BY <1>2 DEF LateWork

LEMMA LateJoined ==
  ASSUME NEW v, NEW w, LateWork(v), LateWork(w)
  PROVE  LateWork(v \o w)
<1>1. PICK S : v \in Seq(S) /\ \A t \in S : Late(t)
  BY DEF LateWork
<1>2. PICK T : w \in Seq(T) /\ \A t \in T : Late(t)
  BY DEF LateWork
<1>3. v \o w \in Seq(S \cup T)
  BY <1>1, <1>2
<1> QED BY <1>1, <1>2, <1>3 DEF LateWork

(* Where the parser may go on: not before where it is. *)
Ahead(c) == c \in Positions /\ current <= c

LEMMA AheadFacts ==
  ASSUME Grading
  PROVE  /\ Ahead(current)
         /\ \A c : Ahead(c) => /\ Ahead(Forward(c)) /\ Ahead(AliasEnd(c)) /\ AfterOps(c)
                               /\ tokens[c] \in Token
         /\ \A c : Ahead(c) => \A b : Late(AnonField(c, b)) /\ Late(Then(c, b)) /\ Late(Body(c, b))
                                      /\ Late(FuncReturns(c, b)) /\ Late(FuncBody(c, b))
         /\ \A c : Ahead(c) => \A n, b : n # "binary" => Late(Build(n, c, b)) /\ LateNode(Node(n, c, b))
<1>1. /\ tokens \in Programs /\ current \in Positions /\ current \in Nat
  BY GradingFacts
<1>2. /\ \A q \in Positions : current <= q => AfterOps(q)
      /\ \A c \in Positions : Forward(c) \in Positions /\ c <= Forward(c)
      /\ \A c \in Positions : current <= c => current <= Forward(c)
  BY Later
<1>3. Len(tokens) \in Nat /\ Len(tokens) \in Positions /\ \A c \in Positions : c \in Nat /\ tokens[c] \in Token
  BY <1>1, TokenFacts
<1>4. ASSUME NEW c, Ahead(c) PROVE Ahead(AliasEnd(c))
  <2>0. PICK S : S = {",", "}", "EOF"}
    OBVIOUS
  <2> DEFINE F == {i \in c .. Len(tokens) : tokens[i] \in S \/ i = Len(tokens)}
  <2>1. c \in Positions /\ c \in Nat /\ current <= c
    BY <1>3, <1>4 DEF Ahead
  <2>2. F \subseteq Positions /\ F \subseteq Nat /\ Len(tokens) \in F /\ \A i \in F : c <= i
    BY ONLY <1>3, <2>1, SMT DEF Positions, F
  <2> HIDE DEF F
  <2>3. Min(F) \in F
    BY <2>2, MinIsThere
  <2>4. AliasEnd(c) = Min(F)
    BY <2>0, Zenon DEF AliasEnd, FirstFrom, F
  <2>5. Min(F) \in Positions /\ c <= Min(F) /\ Min(F) \in Nat
    BY <2>2, <2>3
  <2>6. current <= Min(F)
    BY <1>1, <2>1, <2>5
  <2> QED BY <2>4, <2>5, <2>6 DEF Ahead
<1>5. Ahead(current)
  BY <1>1 DEF Ahead
<1>6. \A c : Ahead(c) => Ahead(Forward(c)) /\ AfterOps(c) /\ tokens[c] \in Token
  BY <1>2, <1>3 DEF Ahead
<1>7. \A c : Ahead(c) => \A b : Late(AnonField(c, b)) /\ Late(Then(c, b)) /\ Late(Body(c, b))
                                /\ Late(FuncReturns(c, b)) /\ Late(FuncBody(c, b))
  BY <1>6, LateTasks, Zenon
<1>8. \A c : Ahead(c) => \A n, b : n # "binary" => Late(Build(n, c, b)) /\ LateNode(Node(n, c, b))
  <2>1. \A n, c, b : Node(n, c, b).node = n /\ Node(n, c, b).at = c
    BY DEF Node
  <2>2. \A c : Ahead(c) => \A n, b : n # "binary" => LateNode(Node(n, c, b))
    <3> SUFFICES ASSUME NEW c, Ahead(c), NEW n, NEW b, n # "binary" PROVE LateNode(Node(n, c, b))
      OBVIOUS
    <3> QED BY <1>6, <2>1 DEF LateNode
  <2> QED BY <1>6, <2>2, LateTasks, Zenon
<1> QED BY <1>4, <1>5, <1>6, <1>7, <1>8, Zenon

(* A step without a node, with a node, and one that takes some back. *)
LEMMA CalmGoes ==
  ASSUME Grading, NEW n, Doing(n), Ordinary(n), NEW c, NEW error \in BOOLEAN, NEW w,
         error \/ (Ahead(c) /\ LateWork(w)), Step(c, error, nodes, w)
  PROVE  LevelsInv'
<1>1. CASE error = TRUE
  BY <1>1, ReportedStep, Zenon
<1>2. CASE error = FALSE
  BY <1>2, OrdinaryGoes, Zenon DEF Ahead
<1> QED BY <1>1, <1>2

LEMMA CalmMakes ==
  ASSUME Grading, NEW n, Doing(n), Ordinary(n), NEW c, NEW error \in BOOLEAN, NEW w, NEW k,
         error \/ (Ahead(c) /\ LateWork(w) /\ LateNode(k)), Step(c, error, Append(nodes, k), w)
  PROVE  LevelsInv'
<1>1. CASE error = TRUE
  BY <1>1, ReportedStep, Zenon
<1>2. CASE error = FALSE
  BY <1>2, OrdinaryMakes, Zenon DEF Ahead
<1> QED BY <1>1, <1>2

LEMMA OrdinaryNames ==
  /\ Ordinary("items") /\ Ordinary("comma") /\ Ordinary("clause") /\ Ordinary("anon field")
  /\ Ordinary("then") /\ Ordinary("body") /\ Ordinary("func returns") /\ Ordinary("func body")
  /\ Ordinary("type") /\ Ordinary("suffixes") /\ Ordinary("anon") /\ Ordinary("default")
  /\ Ordinary("stmt") /\ Ordinary("stmts") /\ Ordinary("block") /\ Ordinary("else")
  /\ Ordinary("do cond") /\ Ordinary("for init") /\ Ordinary("program") /\ Ordinary("declaration")
  /\ Ordinary("parents") /\ Ordinary("after parent") /\ Ordinary("aliases") /\ Ordinary("members")
  /\ Ordinary("self") /\ Ordinary("params") /\ Ordinary("after param") /\ Ordinary("returns")
  /\ Ordinary("method body") /\ Ordinary("func params") /\ Ordinary("after func param")
BY Zenon DEF Ordinary

LEMMA OneSided ==
  /\ "error" # "binary" /\ "none" # "binary" /\ "field" # "binary" /\ "type" # "binary"
  /\ "pointer" # "binary" /\ "array" # "binary" /\ "anon" # "binary" /\ "block" # "binary"
  /\ "expr stmt" # "binary" /\ "return" # "binary" /\ "break" # "binary" /\ "continue" # "binary"
  /\ "decl" # "binary" /\ "if" # "binary" /\ "while" # "binary" /\ "do" # "binary"
  /\ "for" # "binary" /\ "param" # "binary" /\ "alias" # "binary" /\ "inherit" # "binary"
  /\ "method" # "binary" /\ "blueprint" # "binary" /\ "func" # "binary" /\ "call" # "binary"
  /\ "index" # "binary" /\ "init" # "binary" /\ "unary" # "binary" /\ "ffi" # "binary"
  /\ "literal" # "binary" /\ "ident" # "binary" /\ "member" # "binary" /\ "cast" # "binary"
OBVIOUS

(* Statements without a condition. *)
LEMMA LevelSimpleStmts ==
  ASSUME Grading,
         \/ EmptyBlock \/ NoStmt \/ ParseExprStmt \/ ParseBlock \/ NoBlock \/ EndStmts \/ NextStmt
         \/ ParseReturn \/ ParseExit
  PROVE  LevelsInv'
<1>1. Ahead(current) /\ Ahead(Forward(current)) /\ TRUE \in BOOLEAN /\ FALSE \in BOOLEAN
  BY AheadFacts, Zenon
<1>2. \A n, b : n # "binary" => Late(Build(n, current, b)) /\ LateNode(Node(n, current, b))
  BY <1>1, AheadFacts, Zenon
<1>3. Ordinary("stmt") /\ Ordinary("stmts") /\ Ordinary("block")
  BY OrdinaryNames, Zenon
<1>4. /\ Late(Expr(0)) /\ Late(Expect(";")) /\ Late(Expect("}")) /\ Late(Stmts) /\ Late(Stmt)
  BY LateTasks, Zenon
<1>5. CASE EmptyBlock
  BY <1>1, <1>2, <1>3, <1>5, LateNothing, OneSided, CalmMakes, Zenon DEF EmptyBlock, Makes, Leaf
<1>6. CASE NoStmt
  BY <1>1, <1>2, <1>3, <1>6, LateNothing, OneSided, CalmMakes, Zenon DEF NoStmt, Makes, Leaf
<1>7. CASE ParseExprStmt
  <2>1. LateWork(<<Expr(0), Expect(";"), Build("expr stmt", current, Base)>>)
    BY <1>2, <1>4, OneSided, LateThree, Zenon
  <2> QED BY <1>1, <1>3, <1>7, <2>1, CalmGoes, Zenon DEF ParseExprStmt, Goes
<1>8. CASE ParseBlock
  <2>1. LateWork(<<Stmts, Expect("}"), Build("block", current, Base)>>)
    BY <1>2, <1>4, OneSided, LateThree, Zenon
  <2> QED BY <1>1, <1>3, <1>8, <2>1, CalmGoes, Zenon DEF ParseBlock, Goes
<1>9. CASE NoBlock
  BY <1>9, ReportedStep, Zenon DEF NoBlock
<1>10. CASE EndStmts
  <2>1. (Cur = "EOF") \in BOOLEAN
    OBVIOUS
  <2> QED BY <1>1, <1>3, <1>10, <2>1, LateNothing, CalmGoes, Zenon DEF EndStmts
<1>11. CASE NextStmt
  <2>1. LateWork(<<Stmt, Stmts>>)
    BY <1>4, LateTwo, Zenon
  <2> QED BY <1>1, <1>3, <1>11, <2>1, CalmGoes, Zenon DEF NextStmt, Goes
<1>12. CASE ParseReturn
  <2> DEFINE c == Forward(current)
             value == IF tokens[c] \in {";", "}", "EOF"} THEN <<>> ELSE <<Expr(0)>>
             w == <<Expect(";"), Build("return", current, Base)>>
  <2>1. LateWork(value) /\ LateWork(w)
    BY <1>2, <1>4, OneSided, LateNothing, LateOne, LateTwo, Zenon
  <2>2. Doing("stmt") /\ Step(c, FALSE, nodes, value \o w)
    BY <1>12, Zenon DEF ParseReturn, Goes
  <2> HIDE DEF value, w
  <2>3. LateWork(value \o w)
    BY <2>1, LateJoined, Zenon
  <2> QED BY <1>1, <1>3, <2>2, <2>3, CalmGoes, Zenon
<1>13. CASE ParseExit
  <2>1. Cur # "binary"
    BY <1>13, OneSided, Zenon DEF ParseExit
  <2>2. LateWork(<<Expect(";"), Build(Cur, current, Base)>>)
    BY <1>2, <1>4, <2>1, LateTwo, Zenon
  <2> QED BY <1>1, <1>3, <1>13, <2>2, CalmGoes, Zenon DEF ParseExit, Goes
<1> QED BY <1>5, <1>6, <1>7, <1>8, <1>9, <1>10, <1>11, <1>12, <1>13

(* The parts of the innermost call. *)
LEMMA ArgsOf ==
  ASSUME Head(todo) = todo[1]
  PROVE  Arg(1) = todo[1][2] /\ Arg(2) = todo[1][3] /\ Arg(3) = todo[1][4]
BY DEF Arg

(* What a call has remembered is behind the operators around it. *)
LEMMA HeadAfter ==
  ASSUME Grading, NEW n \in {"anon field", "then", "body", "func returns", "func body"}, Doing(n)
  PROVE  /\ Ordinary(n)
         /\ \A b : Late(FuncBody(Arg(1), b)) /\ \A k : k # "binary" => Late(Build(k, Arg(1), b))
<1>1. IInv /\ todo # <<>> /\ Head(todo) = todo[1] /\ todo[1][1] = n /\ HasBase(todo[1])
  <2>1. IInv
    BY Zenon DEF Grading
  <2>2. todo # <<>> /\ Head(todo) = todo[1] /\ todo[1][1] = n
    BY <2>1, HeadFacts, Zenon
  <2> QED BY <2>1, <2>2, Zenon DEF HasBase
<1>2. n # "build" /\ Ordinary(n)
  <2>1. n # "build"
    OBVIOUS
  <2> QED BY <2>1, OrdinaryNames, Zenon
<1>3. Arg(1) = PosOf(todo[1])
  <2>1. Arg(1) = todo[1][2]
    BY <1>1, ArgsOf, Zenon
  <2> QED BY <1>1, <1>2, <2>1, Zenon DEF PosOf
<1>4. AfterOps(Arg(1))
  BY <1>1, <1>3, Later, Zenon
<1> QED BY <1>2, <1>4, LateTasks, Zenon

(* Declarations of variables and statements with a condition. *)
LEMMA LevelControlStmts ==
  ASSUME Grading,
         \/ ParseDecl \/ ParseIf \/ ParseThen \/ ParseElse \/ ParseWhile \/ ParseDoWhile
         \/ ParseDoCond \/ ParseFor \/ ParseForInit \/ ParseClause
  PROVE  LevelsInv'
<1>1. /\ Ahead(current) /\ TRUE \in BOOLEAN /\ FALSE \in BOOLEAN
      /\ \A c : Ahead(c) => Ahead(Forward(c))
  BY AheadFacts, Zenon
<1>2. \A c : Ahead(c) => \A n, b : n # "binary" => Late(Build(n, c, b))
  BY AheadFacts, Zenon
<1>3. /\ Ordinary("stmt") /\ Ordinary("else") /\ Ordinary("do cond")
      /\ Ordinary("for init") /\ Ordinary("clause")
  BY OrdinaryNames, Zenon
<1>4. /\ Late(Expr(0)) /\ Late(Expect(";")) /\ Late(Expect("(")) /\ Late(Expect(")")) /\ Late(Stmt)
      /\ Late(Type) /\ Late(Default) /\ Late(Else) /\ Late(DoCond) /\ Late(ForInit)
      /\ Late(Clause(";")) /\ Late(Clause(")"))
  BY LateTasks, Zenon
<1>5. CASE ParseDecl
  <2> DEFINE c == Forward(current)
             d == Forward(c)
  <2>1. Doing("stmt") /\ Ahead(c) /\ Ahead(Forward(d))
    BY <1>1, <1>5, Zenon DEF ParseDecl
  <2>2. CASE tokens[c] # "name"
    <3>1. Step(SyncStmt(c), TRUE, Leaf("error", current), <<>>)
      BY <1>5, <2>2 DEF ParseDecl
    <3> QED BY <3>1, ReportedStep, Zenon
  <2>3. CASE tokens[c] = "name" /\ tokens[d] # ":"
    <3>1. Step(SyncStmt(SyncStmt(d)), TRUE, Leaf("error", current), <<>>)
      BY <1>5, <2>3 DEF ParseDecl
    <3> QED BY <3>1, ReportedStep, Zenon
  <2>4. CASE tokens[c] = "name" /\ tokens[d] = ":"
    <3>1. Goes(Forward(d), <<Type, Default, Expect(";"), Build("decl", c, Base)>>)
      BY <1>5, <2>4 DEF ParseDecl
    <3>2. LateWork(<<Type, Default, Expect(";"), Build("decl", c, Base)>>)
      BY <1>2, <1>4, <2>1, OneSided, LateFour, Zenon
    <3> QED BY <1>1, <1>3, <2>1, <3>1, <3>2, CalmGoes, Zenon DEF Goes
  <2> QED BY <2>2, <2>3, <2>4, Zenon
<1>6. CASE ParseIf
  <2> DEFINE c == Forward(current)
  <2>1. Doing("stmt") /\ Ahead(c) /\ Ahead(Forward(c))
    BY <1>1, <1>6, Zenon DEF ParseIf
  <2>2. CASE tokens[c] = "("
    <3>1. Goes(Forward(c), <<Expr(0), Then(current, Base)>>)
      BY <1>6, <2>2, Zenon DEF ParseIf
    <3>2. LateWork(<<Expr(0), Then(current, Base)>>)
      BY <1>1, <1>4, AheadFacts, LateTwo, Zenon
    <3> QED BY <1>1, <1>3, <2>1, <3>1, <3>2, CalmGoes, Zenon DEF Goes
  <2>3. CASE tokens[c] # "("
    <3>1. Step(SyncStmt(c), TRUE, Leaf("block", current), <<>>)
      BY <1>6, <2>3, Zenon DEF ParseIf
    <3> QED BY <3>1, ReportedStep, Zenon
  <2> QED BY <2>2, <2>3
<1>7. CASE ParseThen
  <2>1. Doing("then")
    BY <1>7, Zenon DEF ParseThen
  <2>2. CASE Cur = ")"
    <3>1. Late(Build("if", Arg(1), Arg(2))) /\ Ordinary("then")
      BY <2>1, HeadAfter, OneSided, Zenon
    <3>2. LateWork(<<Stmt, Else, Build("if", Arg(1), Arg(2))>>)
      BY <1>4, <3>1, LateThree, Zenon
    <3>3. Step(Forward(current), FALSE, nodes, <<Stmt, Else, Build("if", Arg(1), Arg(2))>>)
      BY <1>7, <2>2, Zenon DEF ParseThen, Goes
    <3> QED BY <1>1, <2>1, <3>1, <3>2, <3>3, CalmGoes, Zenon
  <2>3. CASE Cur # ")"
    BY <1>7, <2>3, ReportedStep, Zenon DEF ParseThen
  <2> QED BY <2>2, <2>3
<1>8. CASE ParseElse
  <2>1. LateWork(<<Stmt>>)
    BY <1>4, LateOne, Zenon
  <2>2. CASE Cur = "else"
    BY <1>1, <1>3, <1>8, <2>1, <2>2, CalmGoes, Zenon DEF ParseElse, Goes
  <2>3. CASE Cur # "else"
    BY <1>1, <1>3, <1>8, <2>3, LateNothing, CalmGoes, Zenon DEF ParseElse, Goes
  <2> QED BY <2>2, <2>3
<1>9. CASE ParseWhile
  <2>1. LateWork(<<Expect("("), Expr(0), Expect(")"), Stmt, Build("while", current, Base)>>)
    BY <1>1, <1>2, <1>4, OneSided, LateFive, Zenon
  <2> QED BY <1>1, <1>3, <1>9, <2>1, CalmGoes, Zenon DEF ParseWhile, Goes
<1>10. CASE ParseDoWhile
  <2>1. LateWork(<<Stmt, DoCond, Build("do", current, Base)>>)
    BY <1>1, <1>2, <1>4, OneSided, LateThree, Zenon
  <2> QED BY <1>1, <1>3, <1>10, <2>1, CalmGoes, Zenon DEF ParseDoWhile, Goes
<1>11. CASE ParseDoCond
  <2>1. LateWork(<<Expect("("), Expr(0), Expect(")"), Expect(";")>>)
    BY <1>4, LateFour, Zenon
  <2>2. CASE Cur = "while"
    BY <1>1, <1>3, <1>11, <2>1, <2>2, CalmGoes, Zenon DEF ParseDoCond, Goes
  <2>3. CASE Cur # "while"
    BY <1>11, <2>3, ReportedStep, Zenon DEF ParseDoCond, Reports
  <2> QED BY <2>2, <2>3
<1>12. CASE ParseFor
  <2>1. LateWork(<<Expect("("), ForInit, Expect(";"), Clause(";"), Expect(";"),
                   Clause(")"), Expect(")"), Stmt, Build("for", current, Base)>>)
    BY <1>1, <1>2, <1>4, OneSided, LateNine, Zenon
  <2> QED BY <1>1, <1>3, <1>12, <2>1, CalmGoes, Zenon DEF ParseFor, Goes
<1>13. CASE ParseForInit
  <2> DEFINE c == Forward(current)
             d == Forward(c)
  <2>1. Doing("for init") /\ Ahead(c) /\ Ahead(Forward(d))
    BY <1>1, <1>13, Zenon DEF ParseForInit
  <2>2. CASE Cur = ";"
    <3>1. Goes(current, <<>>)
      BY <1>13, <2>2 DEF ParseForInit
    <3> QED BY <1>1, <1>3, <2>1, <3>1, LateNothing, CalmGoes, Zenon DEF Goes
  <2>3. CASE Cur = "var" /\ tokens[c] # "name"
    <3>1. Goes(c, <<>>)
      BY <1>13, <2>3 DEF ParseForInit
    <3> QED BY <1>1, <1>3, <2>1, <3>1, LateNothing, CalmGoes, Zenon DEF Goes
  <2>4. CASE Cur = "var" /\ tokens[c] = "name" /\ tokens[d] # ":"
    <3>1. Reports(SyncStmt(d), <<>>)
      BY <1>13, <2>4 DEF ParseForInit
    <3> QED BY <3>1, ReportedStep, Zenon DEF Reports
  <2>5. CASE Cur = "var" /\ tokens[c] = "name" /\ tokens[d] = ":"
    <3>1. Goes(Forward(d), <<Type, Default, Build("decl", c, Base)>>)
      BY <1>13, <2>5 DEF ParseForInit
    <3>2. LateWork(<<Type, Default, Build("decl", c, Base)>>)
      BY <1>2, <1>4, <2>1, OneSided, LateThree, Zenon
    <3> QED BY <1>1, <1>3, <2>1, <3>1, <3>2, CalmGoes, Zenon DEF Goes
  <2>6. CASE Cur \notin {";", "var"}
    <3>1. Goes(current, <<Expr(0)>>)
      BY <1>13, <2>6 DEF ParseForInit
    <3>2. LateWork(<<Expr(0)>>)
      BY <1>4, LateOne, Zenon
    <3> QED BY <1>1, <1>3, <2>1, <3>1, <3>2, CalmGoes, Zenon DEF Goes
  <2> QED BY <2>2, <2>3, <2>4, <2>5, <2>6, Zenon
<1>14. CASE ParseClause
  <2> DEFINE w == IF Cur = Arg(1) THEN <<>> ELSE <<Expr(0)>>
  <2>1. LateWork(w)
    BY <1>4, LateNothing, LateOne, Zenon
  <2>2. Doing("clause") /\ Step(current, FALSE, nodes, w)
    BY <1>14, Zenon DEF ParseClause, Goes
  <2> HIDE DEF w
  <2> QED BY <1>1, <1>3, <2>1, <2>2, CalmGoes, Zenon
<1> QED BY <1>5, <1>6, <1>7, <1>8, <1>9, <1>10, <1>11, <1>12, <1>13, <1>14

(* The loop over a file, and the head of a blueprint. *)
LEMMA LevelFile ==
  ASSUME Grading,
         \/ NextDeclaration \/ EndProgram \/ NotADeclaration \/ ParseBlueprint
         \/ EndParents \/ NotAParent \/ ParseParent \/ NextParent
  PROVE  LevelsInv'
<1>1. /\ Ahead(current) /\ TRUE \in BOOLEAN /\ FALSE \in BOOLEAN
      /\ \A c : Ahead(c) => Ahead(Forward(c))
  BY AheadFacts, Zenon
<1>2. Late(Build("inherit", current, Base)) /\ Late(Body(current, Base))
  BY <1>1, AheadFacts, OneSided, Zenon
<1>3. /\ Ordinary("program") /\ Ordinary("declaration") /\ Ordinary("parents")
      /\ Ordinary("after parent")
  BY OrdinaryNames, Zenon
<1>4. /\ Late(Parents) /\ Late(Declaration) /\ Late(Program) /\ Late(Aliases) /\ Late(AfterParent)
      /\ Late(Expect("}"))
  BY LateTasks, Zenon
<1>5. CASE NextDeclaration
  <2>1. LateWork(<<Declaration, Program>>)
    BY <1>4, LateTwo, Zenon
  <2> QED BY <1>1, <1>3, <1>5, <2>1, CalmGoes, Zenon DEF NextDeclaration, Goes
<1>6. CASE EndProgram
  BY <1>1, <1>3, <1>6, LateNothing, CalmGoes, Zenon DEF EndProgram, Goes
<1>7. CASE NotADeclaration
  BY <1>7, ReportedStep, Zenon DEF NotADeclaration, Reports
<1>8. CASE ParseBlueprint
  <2>1. LateWork(<<Parents, Body(current, Base)>>)
    BY <1>2, <1>4, LateTwo, Zenon
  <2> QED BY <1>1, <1>3, <1>8, <2>1, CalmGoes, Zenon DEF ParseBlueprint, Goes
<1>9. CASE EndParents
  BY <1>1, <1>3, <1>9, LateNothing, CalmGoes, Zenon DEF EndParents, Goes
<1>10. CASE NotAParent
  BY <1>10, ReportedStep, Zenon DEF NotAParent, Reports
<1>11. CASE ParseParent
  <2> DEFINE c == Forward(current)
             aliases == IF tokens[c] = "{" THEN <<Aliases, Expect("}")>> ELSE <<>>
             w == <<Build("inherit", current, Base), AfterParent>>
             d == IF tokens[c] = "{" THEN Forward(c) ELSE c
  <2>1. Ahead(d)
    BY <1>1, Zenon
  <2>2. LateWork(aliases) /\ LateWork(w)
    BY <1>2, <1>4, LateNothing, LateTwo, Zenon
  <2>3. Doing("parents") /\ Step(d, FALSE, nodes, aliases \o w)
    BY <1>11, Zenon DEF ParseParent, Goes
  <2> HIDE DEF aliases, w, d
  <2>4. LateWork(aliases \o w)
    BY <2>2, LateJoined, Zenon
  <2> QED BY <1>1, <1>3, <2>1, <2>3, <2>4, CalmGoes, Zenon
<1>12. CASE NextParent
  <2>0. Doing("after parent")
    BY <1>12, Zenon DEF NextParent
  <2>1. CASE Cur = ","
    <3>1. Goes(Forward(current), <<Parents>>)
      BY <1>12, <2>1 DEF NextParent
    <3>2. LateWork(<<Parents>>)
      BY <1>4, LateOne, Zenon
    <3> QED BY <1>1, <1>3, <2>0, <3>1, <3>2, CalmGoes, Zenon DEF Goes
  <2>2. CASE Cur = "{"
    <3>1. Goes(current, <<>>)
      BY <1>12, <2>2 DEF NextParent
    <3> QED BY <1>1, <1>3, <2>0, <3>1, LateNothing, CalmGoes, Zenon DEF Goes
  <2>3. CASE Cur = "EOF"
    <3>1. Reports(current, <<>>)
      BY <1>12, <2>3 DEF NextParent
    <3> QED BY <3>1, ReportedStep, Zenon DEF Reports
  <2>4. CASE Cur \notin {",", "{", "EOF"}
    <3>1. Reports(SyncDecl(current), <<Parents>>)
      BY <1>12, <2>4 DEF NextParent
    <3> QED BY <3>1, ReportedStep, Zenon DEF Reports
  <2> QED BY <2>1, <2>2, <2>3, <2>4, Zenon
<1> QED BY <1>5, <1>6, <1>7, <1>8, <1>9, <1>10, <1>11, <1>12

(* The aliases of a parent. *)
LEMMA LevelAliases ==
  ASSUME Grading, EndAliases \/ NotAnAlias \/ ParseAlias
  PROVE  LevelsInv'
<1>1. /\ Ahead(current) /\ TRUE \in BOOLEAN /\ FALSE \in BOOLEAN
      /\ \A c : Ahead(c) => Ahead(Forward(c)) /\ Ahead(AliasEnd(c))
  BY AheadFacts, Zenon
<1>2. Ordinary("aliases") /\ LateWork(<<Aliases>>) /\ LateWork(<<>>)
  BY OrdinaryNames, LateTasks, LateOne, LateNothing, Zenon
<1>3. CASE EndAliases
  <2>1. (Cur = "EOF") \in BOOLEAN
    OBVIOUS
  <2> QED BY <1>1, <1>2, <1>3, <2>1, CalmGoes, Zenon DEF EndAliases
<1>4. CASE NotAnAlias
  BY <1>4, ReportedStep, Zenon DEF NotAnAlias, Reports
<1>5. CASE ParseAlias
  <2> DEFINE c == Forward(current)
             d == Forward(c)
             e == Forward(d)
             next == IF tokens[e] = "," THEN Forward(e) ELSE e
             trailing == tokens[e] = "," /\ tokens[Forward(e)] = "}"
  <2>1. Doing("aliases") /\ Ahead(AliasEnd(c)) /\ Ahead(next)
    BY <1>1, <1>5, Zenon DEF ParseAlias
  <2>2. trailing \in BOOLEAN
    OBVIOUS
  <2>3. CASE tokens[c] # "as"
    <3>1. Goes(AliasEnd(c), <<Aliases>>)
      BY <1>5, <2>3 DEF ParseAlias
    <3> QED BY <1>1, <1>2, <2>1, <3>1, CalmGoes, Zenon DEF Goes
  <2>4. CASE tokens[c] = "as" /\ tokens[d] # "name"
    <3>1. Reports(AliasEnd(d), <<Aliases>>)
      BY <1>5, <2>4 DEF ParseAlias
    <3> QED BY <3>1, ReportedStep, Zenon DEF Reports
  <2>5. CASE tokens[c] = "as" /\ tokens[d] = "name"
    <3>1. Step(next, trailing, Leaf("alias", current), <<Aliases>>)
      BY <1>5, <2>5 DEF ParseAlias
    <3> HIDE DEF next, trailing
    <3>2. LateNode(Node("alias", current, Base + 1))
      BY <1>1, AheadFacts, OneSided, Zenon
    <3> QED BY <1>1, <1>2, <2>1, <2>2, <3>1, <3>2, CalmMakes, Zenon DEF Leaf
  <2> QED BY <2>3, <2>4, <2>5, Zenon
<1> QED BY <1>3, <1>4, <1>5

(* The body of a blueprint. *)
LEMMA LevelBody ==
  ASSUME Grading, ParseBody \/ EndMembers \/ NotAMember \/ ParseField \/ ParseMethod
  PROVE  LevelsInv'
<1>1. /\ Ahead(current) /\ TRUE \in BOOLEAN /\ FALSE \in BOOLEAN
      /\ \A c : Ahead(c) => Ahead(Forward(c))
  BY AheadFacts, Zenon
<1>2. Late(Build("field", current, Base)) /\ Late(Build("method", current, Base))
  BY <1>1, AheadFacts, OneSided, Zenon
<1>3. Ordinary("members")
  BY OrdinaryNames, Zenon
<1>4. /\ Late(Members) /\ Late(ExpectOr("}", "decl")) /\ Late(Type) /\ Late(Default)
      /\ Late(ExpectOr(";", "stmt")) /\ Late(Self) /\ Late(Params) /\ Late(Expect(")")) /\ Late(Returns)
  BY LateTasks, Zenon
<1>5. CASE ParseBody
  <2>1. Doing("body")
    BY <1>5, Zenon DEF ParseBody
  <2>2. CASE Cur = "{"
    <3>1. Late(Build("blueprint", Arg(1), Arg(2))) /\ Ordinary("body")
      BY <2>1, HeadAfter, OneSided, Zenon
    <3>2. LateWork(<<Members, ExpectOr("}", "decl"), Build("blueprint", Arg(1), Arg(2))>>)
      BY <1>4, <3>1, LateThree, Zenon
    <3>3. Step(Forward(current), FALSE, nodes,
               <<Members, ExpectOr("}", "decl"), Build("blueprint", Arg(1), Arg(2))>>)
      BY <1>5, <2>2, Zenon DEF ParseBody, Goes
    <3> QED BY <1>1, <2>1, <3>1, <3>2, <3>3, CalmGoes, Zenon
  <2>3. CASE Cur # "{"
    BY <1>5, <2>3, ReportedStep, Zenon DEF ParseBody
  <2> QED BY <2>2, <2>3
<1>6. CASE EndMembers
  <2>1. (Cur = "EOF") \in BOOLEAN
    OBVIOUS
  <2> QED BY <1>1, <1>3, <1>6, <2>1, LateNothing, CalmGoes, Zenon DEF EndMembers
<1>7. CASE NotAMember
  BY <1>7, ReportedStep, Zenon DEF NotAMember, Reports
<1>8. CASE ParseField
  <2>1. LateWork(<<Type, Default, Build("field", current, Base), ExpectOr(";", "stmt"), Members>>)
    BY <1>2, <1>4, LateFive, Zenon
  <2> QED BY <1>1, <1>3, <1>8, <2>1, CalmGoes, Zenon DEF ParseField, Goes
<1>9. CASE ParseMethod
  <2>1. LateWork(<<Self, Params, Expect(")"), Returns, Build("method", current, Base), Members>>)
    BY <1>2, <1>4, LateSix, Zenon
  <2> QED BY <1>1, <1>3, <1>9, <2>1, CalmGoes, Zenon DEF ParseMethod, Goes
<1> QED BY <1>5, <1>6, <1>7, <1>8, <1>9

(* The parameters, the type and the body of a method. *)
LEMMA LevelMethod ==
  ASSUME Grading,
         \/ ParseSelf \/ EndParams \/ NotAParam \/ ParseParam \/ NextParam
         \/ ParseReturns \/ ParseMethodBody
  PROVE  LevelsInv'
<1>1. /\ Ahead(current) /\ TRUE \in BOOLEAN /\ FALSE \in BOOLEAN
      /\ \A c : Ahead(c) => Ahead(Forward(c))
  BY AheadFacts, Zenon
<1>2. Late(Build("param", current, Base)) /\ LateNode(Node("param", current, Base + 1))
  BY <1>1, AheadFacts, OneSided, Zenon
<1>3. /\ Ordinary("self") /\ Ordinary("params") /\ Ordinary("after param")
      /\ Ordinary("returns") /\ Ordinary("method body")
  BY OrdinaryNames, Zenon
<1>4. /\ Late(Type) /\ Late(AfterParam) /\ Late(Params) /\ Late(MethodBody) /\ Late(Block)
      /\ Late(ExpectOr(";", "stmt"))
  BY LateTasks, Zenon
<1>5. CASE ParseSelf
  <2>0. Doing("self")
    BY <1>5, Zenon DEF ParseSelf
  <2>1. CASE Cur = "self" /\ Peek(1) = ")"
    <3>1. Makes(Forward(current), Leaf("param", current), <<>>)
      BY <1>5, <2>1 DEF ParseSelf
    <3> QED BY <1>1, <1>2, <1>3, <2>0, <3>1, LateNothing, CalmMakes, Zenon DEF Makes, Leaf
  <2>2. CASE Cur = "self" /\ Peek(1) = ","
    <3>1. Step(Forward(Forward(current)), Peek(2) = ")", Leaf("param", current), <<>>)
      BY <1>5, <2>2 DEF ParseSelf
    <3>2. (Peek(2) = ")") \in BOOLEAN
      OBVIOUS
    <3> QED BY <1>1, <1>2, <1>3, <2>0, <3>1, <3>2, LateNothing, CalmMakes, Zenon DEF Leaf
  <2>3. CASE ~(Cur = "self" /\ Peek(1) = ")") /\ ~(Cur = "self" /\ Peek(1) = ",")
    <3>1. Goes(current, <<>>)
      BY <1>5, <2>3 DEF ParseSelf
    <3> QED BY <1>1, <1>3, <2>0, <3>1, LateNothing, CalmGoes, Zenon DEF Goes
  <2> QED BY <2>1, <2>2, <2>3, Zenon
<1>6. CASE EndParams
  BY <1>1, <1>3, <1>6, LateNothing, CalmGoes, Zenon DEF EndParams, Goes
<1>7. CASE NotAParam
  BY <1>7, ReportedStep, Zenon DEF NotAParam, Reports
<1>8. CASE ParseParam
  <2> DEFINE c == Forward(current)
  <2>1. Doing("params") /\ Ahead(Forward(c))
    BY <1>1, <1>8, Zenon DEF ParseParam
  <2>2. CASE tokens[c] = ":"
    <3>1. Goes(Forward(c), <<Type, Build("param", current, Base), AfterParam, Params>>)
      BY <1>8, <2>2, Zenon DEF ParseParam
    <3>2. LateWork(<<Type, Build("param", current, Base), AfterParam, Params>>)
      BY <1>2, <1>4, LateFour, Zenon
    <3> QED BY <1>1, <1>3, <2>1, <3>1, <3>2, CalmGoes, Zenon DEF Goes
  <2>3. CASE tokens[c] # ":"
    <3>1. Reports(SyncStmt(SyncStmt(c)), <<Params>>)
      BY <1>8, <2>3, Zenon DEF ParseParam
    <3> QED BY <3>1, ReportedStep, Zenon DEF Reports
  <2> QED BY <2>2, <2>3
<1>9. CASE NextParam
  <2> DEFINE c == IF Cur = "," THEN Forward(current) ELSE current
             trailing == Cur = "," /\ tokens[c] = ")"
  <2>1. Ahead(c)
    BY <1>1, Zenon
  <2>2. trailing \in BOOLEAN
    OBVIOUS
  <2>3. Doing("after param") /\ Step(c, trailing, nodes, <<>>)
    BY <1>9, Zenon DEF NextParam
  <2> HIDE DEF c, trailing
  <2> QED BY <1>3, <2>1, <2>2, <2>3, LateNothing, CalmGoes, Zenon
<1>10. CASE ParseReturns
  <2>1. LateWork(<<Type, MethodBody>>)
    BY <1>4, LateTwo, Zenon
  <2>2. CASE Cur = ":"
    BY <1>1, <1>3, <1>10, <2>1, <2>2, CalmGoes, Zenon DEF ParseReturns, Goes
  <2>3. CASE Cur # ":"
    BY <1>10, <2>3, ReportedStep, Zenon DEF ParseReturns, Reports
  <2> QED BY <2>2, <2>3
<1>11. CASE ParseMethodBody
  <2>1. LateWork(<<Block>>) /\ LateWork(<<ExpectOr(";", "stmt")>>)
    BY <1>4, LateOne, Zenon
  <2>2. CASE Cur = "="
    BY <1>1, <1>3, <1>11, <2>1, <2>2, CalmGoes, Zenon DEF ParseMethodBody, Goes
  <2>3. CASE Cur # "="
    BY <1>1, <1>3, <1>11, <2>1, <2>3, CalmGoes, Zenon DEF ParseMethodBody, Goes
  <2> QED BY <2>2, <2>3
<1> QED BY <1>5, <1>6, <1>7, <1>8, <1>9, <1>10, <1>11

(* Functions. *)
LEMMA LevelFunc ==
  ASSUME Grading,
         \/ ParseFunc \/ EndFuncParams \/ ParseFuncParam \/ NextFuncParam
         \/ ParseFuncReturns \/ ParseFuncBody
  PROVE  LevelsInv'
<1>1. /\ Ahead(current) /\ TRUE \in BOOLEAN /\ FALSE \in BOOLEAN
      /\ \A c : Ahead(c) => Ahead(Forward(c))
  BY AheadFacts, Zenon
<1>2. Late(Build("param", current, Base)) /\ Late(FuncReturns(current, Base))
  BY <1>1, AheadFacts, OneSided, Zenon
<1>3. Ordinary("declaration") /\ Ordinary("func params") /\ Ordinary("after func param")
  BY OrdinaryNames, Zenon
<1>4. /\ Late(FuncParams) /\ Late(ExpectOr(")", "decl")) /\ Late(AfterFuncParam) /\ Late(Type)
      /\ Late(Block)
  BY LateTasks, Zenon
<1>5. CASE ParseFunc
  <2>1. LateWork(<<FuncParams, ExpectOr(")", "decl"), FuncReturns(current, Base)>>)
    BY <1>2, <1>4, LateThree, Zenon
  <2> QED BY <1>1, <1>3, <1>5, <2>1, CalmGoes, Zenon DEF ParseFunc, Goes
<1>6. CASE EndFuncParams
  BY <1>1, <1>3, <1>6, LateNothing, CalmGoes, Zenon DEF EndFuncParams, Goes
<1>7. CASE ParseFuncParam
  <2> DEFINE c == Forward(current)
  <2>1. Doing("func params") /\ Ahead(Forward(c))
    BY <1>1, <1>7, Zenon DEF ParseFuncParam
  <2>2. CASE Cur # "name"
    <3>1. Reports(SyncStmt(current), <<AfterFuncParam>>)
      BY <1>7, <2>2 DEF ParseFuncParam
    <3> QED BY <3>1, ReportedStep, Zenon DEF Reports
  <2>3. CASE Cur = "name" /\ tokens[c] # ":"
    <3>1. Reports(SyncStmt(SyncStmt(c)), <<AfterFuncParam>>)
      BY <1>7, <2>3 DEF ParseFuncParam
    <3> QED BY <3>1, ReportedStep, Zenon DEF Reports
  <2>4. CASE Cur = "name" /\ tokens[c] = ":"
    <3>1. Goes(Forward(c), <<Type, Build("param", current, Base), AfterFuncParam>>)
      BY <1>7, <2>4 DEF ParseFuncParam
    <3>2. LateWork(<<Type, Build("param", current, Base), AfterFuncParam>>)
      BY <1>2, <1>4, LateThree, Zenon
    <3> QED BY <1>1, <1>3, <2>1, <3>1, <3>2, CalmGoes, Zenon DEF Goes
  <2> QED BY <2>2, <2>3, <2>4, Zenon
<1>8. CASE NextFuncParam
  <2> DEFINE c == Forward(current)
  <2>1. Doing("after func param") /\ Ahead(c)
    BY <1>1, <1>8, Zenon DEF NextFuncParam
  <2>2. CASE Cur # ","
    <3>1. Goes(current, <<>>)
      BY <1>8, <2>2 DEF NextFuncParam
    <3> QED BY <1>1, <1>3, <2>1, <3>1, LateNothing, CalmGoes, Zenon DEF Goes
  <2>3. CASE Cur = "," /\ tokens[c] = ")"
    <3>1. Reports(c, <<>>)
      BY <1>8, <2>3 DEF NextFuncParam
    <3> QED BY <3>1, ReportedStep, Zenon DEF Reports
  <2>4. CASE Cur = "," /\ tokens[c] # ")"
    <3>1. Goes(c, <<FuncParams>>)
      BY <1>8, <2>4 DEF NextFuncParam
    <3>2. LateWork(<<FuncParams>>)
      BY <1>4, LateOne, Zenon
    <3> QED BY <1>1, <1>3, <2>1, <3>1, <3>2, CalmGoes, Zenon DEF Goes
  <2> QED BY <2>2, <2>3, <2>4, Zenon
<1>9. CASE ParseFuncReturns
  <2>1. Doing("func returns")
    BY <1>9, Zenon DEF ParseFuncReturns
  <2>2. CASE Cur = ":"
    <3>1. Late(FuncBody(Arg(1), Arg(2))) /\ Ordinary("func returns")
      BY <2>1, HeadAfter, Zenon
    <3>2. LateWork(<<Type, FuncBody(Arg(1), Arg(2))>>)
      BY <1>4, <3>1, LateTwo, Zenon
    <3>3. Step(Forward(current), FALSE, nodes, <<Type, FuncBody(Arg(1), Arg(2))>>)
      BY <1>9, <2>2, Zenon DEF ParseFuncReturns, Goes
    <3> QED BY <1>1, <2>1, <3>1, <3>2, <3>3, CalmGoes, Zenon
  <2>3. CASE Cur # ":"
    BY <1>9, <2>3, ReportedStep, Zenon DEF ParseFuncReturns
  <2> QED BY <2>2, <2>3
<1>10. CASE ParseFuncBody
  <2>1. Doing("func body")
    BY <1>10, Zenon DEF ParseFuncBody
  <2>2. Late(Build("func", Arg(1), Arg(2))) /\ Ordinary("func body")
    BY <2>1, HeadAfter, OneSided, Zenon
  <2>3. CASE Cur = "="
    <3>1. Goes(Forward(current), <<Block, Build("func", Arg(1), Arg(2))>>)
      BY <1>10, <2>3 DEF ParseFuncBody
    <3>2. LateWork(<<Block, Build("func", Arg(1), Arg(2))>>)
      BY <1>4, <2>2, LateTwo, Zenon
    <3> QED BY <1>1, <2>1, <2>2, <3>1, <3>2, CalmGoes, Zenon DEF Goes
  <2>4. CASE Cur = ";"
    <3>1. Goes(Forward(current), <<Build("func", Arg(1), Arg(2))>>)
      BY <1>10, <2>4 DEF ParseFuncBody
    <3>2. LateWork(<<Build("func", Arg(1), Arg(2))>>)
      BY <2>2, LateOne, Zenon
    <3> QED BY <1>1, <2>1, <2>2, <3>1, <3>2, CalmGoes, Zenon DEF Goes
  <2>5. CASE Cur \notin {"=", ";"}
    <3>1. Step(SyncDecl(SyncStmt(current)), TRUE, Below(Arg(2)), <<>>)
      BY <1>10, <2>5 DEF ParseFuncBody
    <3> QED BY <3>1, ReportedStep, Zenon
  <2> QED BY <2>3, <2>4, <2>5, Zenon
<1> QED BY <1>5, <1>6, <1>7, <1>8, <1>9, <1>10

(* Lists, optional parts and types. *)
LEMMA LevelLists ==
  ASSUME Grading,
         MatchComma \/ ParseDefault \/ EndItems \/ ParseItem \/ ParseIndexed \/ ParseNamed
  PROVE  LevelsInv'
<1>1. /\ Ahead(current) /\ TRUE \in BOOLEAN /\ FALSE \in BOOLEAN
      /\ \A c : Ahead(c) => Ahead(Forward(c))
  BY AheadFacts, Zenon
<1>2. LateNode(Node("field", current, Base + 1))
  BY <1>1, AheadFacts, OneSided, Zenon
<1>3. Ordinary("comma") /\ Ordinary("default") /\ Ordinary("items")
  BY OrdinaryNames, Zenon
<1>4. Late(Expr(0)) /\ Late(More) /\ Late(Expect("]")) /\ Late(Expect("="))
  BY LateTasks, Zenon DEF More
<1>5. LateWork(<<Expr(0)>>) /\ LateWork(<<Expr(0), More>>)
  BY <1>4, LateOne, LateTwo, Zenon
<1>6. CASE MatchComma
  <2>1. Doing("comma")
    BY <1>6, Zenon DEF MatchComma
  <2>2. Late(Arg(1))
    <3>1. IInv
      BY Zenon DEF Grading
    <3>2. Head(todo) = todo[1] /\ todo[1][1] = "comma" /\ TaskForm(todo[1])
      BY <2>1, <3>1, HeadFacts, Zenon
    <3>3. Arg(1) = todo[1][2]
      BY <3>2, ArgsOf, Zenon
    <3>4. Arg(1) \in ItemTasks
      BY <3>2, <3>3, Zenon DEF TaskForm
    <3>5. Arg(1)[1] = "items"
      BY <3>4 DEF ItemTasks
    <3> QED BY <3>5, Zenon DEF Late, IsLed, IsCast, IsBinary, HasBase
  <2>3. LateWork(<<Arg(1)>>)
    BY <2>2, LateOne, Zenon
  <2>4. CASE Cur = ","
    BY <1>1, <1>3, <1>6, <2>3, <2>4, CalmGoes, Zenon DEF MatchComma, Goes
  <2>5. CASE Cur # ","
    BY <1>1, <1>3, <1>6, <2>5, LateNothing, CalmGoes, Zenon DEF MatchComma, Goes
  <2> QED BY <2>4, <2>5
<1>7. CASE ParseDefault
  <2>1. CASE Cur = "="
    BY <1>1, <1>3, <1>5, <1>7, <2>1, CalmGoes, Zenon DEF ParseDefault, Goes
  <2>2. CASE Cur # "="
    BY <1>1, <1>3, <1>7, <2>2, LateNothing, CalmGoes, Zenon DEF ParseDefault, Goes
  <2> QED BY <2>1, <2>2
<1>8. CASE EndItems
  <2>1. (Arg(1) = "args" /\ Cur = "EOF") \in BOOLEAN
    OBVIOUS
  <2> QED BY <1>1, <1>3, <1>8, <2>1, LateNothing, CalmGoes, Zenon DEF EndItems
<1>9. CASE ParseItem
  BY <1>1, <1>3, <1>5, <1>9, CalmGoes, Zenon DEF ParseItem, Goes
<1>10. CASE ParseIndexed
  <2>1. LateWork(<<Expr(0), Expect("]"), Expect("="), Expr(0), More>>)
    BY <1>4, LateFive, Zenon
  <2> QED BY <1>1, <1>3, <1>10, <2>1, CalmGoes, Zenon DEF ParseIndexed, Goes
<1>11. CASE ParseNamed
  <2> DEFINE c == Forward(current)
             d == IF tokens[c] = "=" THEN Forward(c) ELSE c
  <2>1. Ahead(d)
    BY <1>1, Zenon
  <2>2. Doing("items") /\ Step(d, FALSE, Leaf("field", current), <<Expr(0), More>>)
    BY <1>11, Zenon DEF ParseNamed, Makes
  <2> HIDE DEF d
  <2> QED BY <1>1, <1>2, <1>3, <1>5, <2>1, <2>2, CalmMakes, Zenon DEF Leaf
<1> QED BY <1>6, <1>7, <1>8, <1>9, <1>10, <1>11

LEMMA LevelTypes ==
  ASSUME Grading,
         \/ ParseNamedType \/ ParseAnonType \/ NotAType \/ ParsePointer \/ ParseArrayType \/ EndType
         \/ EndAnon \/ NotAField \/ ParseAnonField \/ EndAnonField
  PROVE  LevelsInv'
<1>1. /\ Ahead(current) /\ TRUE \in BOOLEAN /\ FALSE \in BOOLEAN
      /\ \A c : Ahead(c) => Ahead(Forward(c))
  BY AheadFacts, Zenon
<1>2. /\ \A b : LateNode(Node("type", current, b)) /\ LateNode(Node("pointer", current, b))
      /\ \A b : Late(Build("anon", current, b)) /\ Late(Build("array", current, b))
      /\ Late(AnonField(current, Base))
  BY <1>1, AheadFacts, OneSided, Zenon
<1>3. Ordinary("type") /\ Ordinary("suffixes") /\ Ordinary("anon") /\ Ordinary("anon field")
  BY OrdinaryNames, Zenon
<1>4. /\ Late(Suffixes) /\ Late(Anon) /\ Late(Expect("}")) /\ Late(Expect("]")) /\ Late(Expr(0))
      /\ Late(Type) /\ Late(Default) /\ LateWork(<<Suffixes>>)
  BY LateTasks, LateOne, Zenon
<1>5. CASE ParseNamedType
  BY <1>1, <1>2, <1>3, <1>4, <1>5, CalmMakes, Zenon DEF ParseNamedType, Makes, Leaf
<1>6. CASE ParseAnonType
  <2>1. LateWork(<<Anon, Expect("}"), Build("anon", current, Base), Suffixes>>)
    BY <1>2, <1>4, LateFour, Zenon
  <2> QED BY <1>1, <1>3, <1>6, <2>1, CalmGoes, Zenon DEF ParseAnonType, Goes
<1>7. CASE NotAType
  BY <1>7, ReportedStep, Zenon DEF NotAType
<1>8. CASE ParsePointer
  BY <1>1, <1>2, <1>3, <1>4, <1>8, CalmMakes, Zenon DEF ParsePointer, Around
<1>9. CASE ParseArrayType
  <2> DEFINE c == Forward(current)
             size == IF tokens[c] = "]" THEN <<>> ELSE <<Expr(0)>>
             w == <<Expect("]"), Build("array", current, LastBase), Suffixes>>
  <2>1. LateWork(size) /\ LateWork(w)
    BY <1>2, <1>4, LateNothing, LateOne, LateThree, Zenon
  <2>2. Doing("suffixes") /\ Step(c, FALSE, nodes, size \o w)
    BY <1>9, Zenon DEF ParseArrayType, Goes
  <2> HIDE DEF size, w
  <2>3. LateWork(size \o w)
    BY <2>1, LateJoined, Zenon
  <2> QED BY <1>1, <1>3, <2>2, <2>3, CalmGoes, Zenon
<1>10. CASE EndType
  BY <1>1, <1>3, <1>10, LateNothing, CalmGoes, Zenon DEF EndType, Goes
<1>11. CASE EndAnon
  <2>1. (Cur = "EOF") \in BOOLEAN
    OBVIOUS
  <2> QED BY <1>1, <1>3, <1>11, <2>1, LateNothing, CalmGoes, Zenon DEF EndAnon
<1>12. CASE NotAField
  BY <1>12, ReportedStep, Zenon DEF NotAField, Reports
<1>13. CASE ParseAnonField
  <2> DEFINE c == Forward(current)
  <2>1. Doing("anon") /\ Ahead(Forward(c))
    BY <1>1, <1>13, Zenon DEF ParseAnonField
  <2>2. CASE tokens[c] = ":"
    <3>1. LateWork(<<Type, Default, AnonField(current, Base), Anon>>)
      BY <1>2, <1>4, LateFour, Zenon
    <3>2. Step(Forward(c), FALSE, nodes, <<Type, Default, AnonField(current, Base), Anon>>)
      BY <1>13, <2>2, Zenon DEF ParseAnonField, Goes
    <3> QED BY <1>1, <1>3, <2>1, <3>1, <3>2, CalmGoes, Zenon
  <2>3. CASE tokens[c] # ":"
    BY <1>13, <2>3, ReportedStep, Zenon DEF ParseAnonField, Reports
  <2> QED BY <2>2, <2>3
<1>14. CASE EndAnonField
  <2>1. Doing("anon field")
    BY <1>14, Zenon DEF EndAnonField
  <2>2. CASE Cur = ";"
    <3>1. Late(Build("field", Arg(1), Arg(2)))
      BY <2>1, HeadAfter, OneSided, Zenon
    <3>2. LateWork(<<Build("field", Arg(1), Arg(2))>>)
      BY <3>1, LateOne, Zenon
    <3>3. Step(Forward(current), FALSE, nodes, <<Build("field", Arg(1), Arg(2))>>)
      BY <1>14, <2>2, Zenon DEF EndAnonField, Goes
    <3> QED BY <1>1, <1>3, <2>1, <3>2, <3>3, CalmGoes, Zenon
  <2>3. CASE Cur # ";"
    BY <1>14, <2>3, ReportedStep, Zenon DEF EndAnonField
  <2> QED BY <2>2, <2>3
<1> QED BY <1>5, <1>6, <1>7, <1>8, <1>9, <1>10, <1>11, <1>12, <1>13, <1>14

-----------------------------------------------------------------------------
(* The levels nest: what ends a tree.                                      *)

(* When a call leaves nothing, the next one is the innermost. *)
LEMMA TailFacts ==
  ASSUME Grading, todo # <<>>, NEW r, r = <<>> \o Tail(todo)
  PROVE  /\ Work(<<>>) /\ DOMAIN r = 1 .. Len(todo) - 1 /\ Len(todo) \in Nat
         /\ \A i \in DOMAIN r : i + 1 \in DOMAIN todo /\ r[i] = todo[i + 1]
<1>1. todo \in Seq(Tasks) /\ DOMAIN todo = 1 .. Len(todo) /\ Len(todo) \in Nat
  BY GradingFacts
<1>2. Work(<<>>)
  BY LateNothing, LateFacts, Zenon
<1>3. Joins(<<>>, todo, r)
  BY <1>1, <1>2, JoinFacts
<1>4. Len(<<>>) = 0
  OBVIOUS
<1>5. /\ Len(r) = Len(todo) - 1 /\ DOMAIN r = 1 .. Len(r)
      /\ \A j \in 2 .. Len(todo) : 0 + j - 1 \in 1 .. Len(r) /\ r[0 + j - 1] = todo[j]
  <2>1. Len(r) = Len(<<>>) + Len(todo) - 1 /\ DOMAIN r = 1 .. Len(r)
    BY <1>3, JoinPlaces
  <2>2. \A j \in 2 .. Len(todo) : Len(<<>>) + j - 1 \in 1 .. Len(r) /\ r[Len(<<>>) + j - 1] = todo[j]
    BY <1>3, JoinPlaces
  <2> QED BY <1>1, <1>4, <2>1, <2>2
<1>6. ASSUME NEW i \in DOMAIN r PROVE i + 1 \in DOMAIN todo /\ r[i] = todo[i + 1]
  <2>1. i + 1 \in 2 .. Len(todo) /\ 0 + (i + 1) - 1 = i
    BY <1>1, <1>5
  <2>2. r[0 + (i + 1) - 1] = todo[i + 1]
    BY <1>5, <2>1
  <2> QED BY <1>1, <2>1, <2>2
<1> QED BY <1>1, <1>2, <1>5, <1>6

LEMMA EndsStep ==
  ASSUME Grading, todo # <<>>, NEW c, Ahead(c),
         NEW new, NEW tree, Grown(nodes, tree, new), Step(c, FALSE, tree, <<>>),
         Leveled(tokens, tree), \A n \in new : AfterOps(n.at),
         HandsOver(nodes, tree, todo, <<>>),
         NEW r, r = <<>> \o Tail(todo),
         2 \in DOMAIN todo => /\ IsLed(todo[2]) => LedReady(tokens, c, tree, r)
                              /\ IsBinary(todo[2]) => RightReady(tokens, c, tree, todo[2])
  PROVE  LevelsInv'
<1>1. /\ Work(<<>>) /\ DOMAIN r = 1 .. Len(todo) - 1 /\ Len(todo) \in Nat
      /\ \A i \in DOMAIN r : i + 1 \in DOMAIN todo /\ r[i] = todo[i + 1]
  BY TailFacts
<1>2. Ready(tokens, c, tree, r)
  <2> SUFFICES ASSUME 1 \in DOMAIN r
               PROVE  /\ IsLed(r[1]) => LedReady(tokens, c, tree, r)
                      /\ IsBinary(r[1]) => RightReady(tokens, c, tree, r[1])
    BY DEF Ready
  <2>1. 1 + 1 = 2
    OBVIOUS
  <2>2. 2 \in DOMAIN todo /\ r[1] = todo[2]
    BY <1>1, <2>1
  <2> QED BY <2>2
<1>3. /\ Len(<<>>) = 0 /\ 1 .. Len(<<>>) = {} /\ 2 .. Len(<<>>) + 1 = {} /\ ~(Len(<<>>) > 0)
  OBVIOUS
<1>4. c \in Positions /\ current <= c
  BY DEF Ahead
<1> PICK w : w = <<>>
  OBVIOUS
<1>5. /\ Work(w) /\ r = w \o Tail(todo) /\ Step(c, FALSE, tree, w) /\ HandsOver(nodes, tree, todo, w)
      /\ 1 .. Len(w) = {} /\ 2 .. Len(w) + 1 = {} /\ ~(Len(w) > 0)
  BY <1>1, <1>3
<1> QED BY ONLY <1>2, <1>4, <1>5, Grading, todo # <<>>, Grown(nodes, tree, new), Leveled(tokens, tree),
                \A n \in new : AfterOps(n.at), GradedStep

(* What is around the innermost call. *)
LEMMA AroundHead ==
  ASSUME Grading, todo # <<>>
  PROVE  /\ 1 \in DOMAIN todo /\ 1 + 1 = 2 /\ 2 + 1 = 3
         /\ 2 \in DOMAIN todo =>
              /\ IsLed(todo[2]) => AroundLed(todo[1])
              /\ IsBinary(todo[2]) =>
                   /\ todo[1][2] = Prec(tokens[PosOf(todo[2])]) + 1
                   /\ IsLed(todo[1]) \/ (IsExpr(todo[1]) /\ current = PosOf(todo[2]) + 1)
                   /\ Operator(tokens, nodes, todo, 2)
                   /\ \E l \in Nat : HeadStarts(nodes, todo[1], l) /\ LeftReady(tokens, nodes, todo[2], l)
                   /\ \A q : AfterOps(q) => PosOf(todo[2]) < q
         /\ 3 \in DOMAIN todo /\ IsBinary(todo[3]) =>
              (InGroup(todo[1]) => OpenParen(tokens[PosOf(todo[3]) + 1]))
<1>1. /\ todo \in Seq(Tasks) /\ DOMAIN todo = 1 .. Len(todo) /\ Len(todo) \in Nat
      /\ Nested(tokens, current, todo) /\ Waiting(tokens, nodes, todo)
  BY GradingFacts
<1>2. 1 \in DOMAIN todo
  BY <1>1
<1>3. ASSUME 2 \in DOMAIN todo
      PROVE  /\ IsLed(todo[2]) => AroundLed(todo[1])
             /\ IsBinary(todo[2]) =>
                  /\ todo[1][2] = Prec(tokens[PosOf(todo[2])]) + 1
                  /\ IsLed(todo[1]) \/ (IsExpr(todo[1]) /\ current = PosOf(todo[2]) + 1)
  <2>1. Surrounded(tokens, current, todo, 2) /\ 2 - 1 = 1
    BY <1>1, <1>3 DEF Nested
  <2> QED BY <2>1 DEF Surrounded
<1>4. ASSUME 2 \in DOMAIN todo, IsBinary(todo[2])
      PROVE  /\ Operator(tokens, nodes, todo, 2)
             /\ \E l \in Nat : HeadStarts(nodes, todo[1], l) /\ LeftReady(tokens, nodes, todo[2], l)
  <2>1. Operator(tokens, nodes, todo, 2)
    BY <1>1, <1>4 DEF Waiting
  <2>2. 2 - 1 = 1 /\ 2 > 1
    OBVIOUS
  <2>3. PICK l \in Nat : Starts(nodes, todo, 1, l) /\ LeftReady(tokens, nodes, todo[2], l)
    BY <2>1, <2>2 DEF Operator
  <2>4. HeadStarts(nodes, todo[1], l)
    <3>1. PICK j \in 1 .. 1 : StartsAt(nodes, todo, j, l)
      BY <2>3 DEF Starts
    <3>2. j = 1
      OBVIOUS
    <3> QED BY <3>1, <3>2 DEF StartsAt
  <2> QED BY <2>1, <2>3, <2>4
<1>5. ASSUME 2 \in DOMAIN todo, IsBinary(todo[2]), NEW q, AfterOps(q) PROVE PosOf(todo[2]) < q
  <2>1. 2 \in 2 .. Len(todo)
    BY <1>1, <1>5
  <2> QED BY <1>5, <2>1 DEF AfterOps
<1>6. ASSUME 3 \in DOMAIN todo, IsBinary(todo[3]), InGroup(todo[1])
      PROVE  OpenParen(tokens[PosOf(todo[3]) + 1])
  <2>1. Surrounded(tokens, current, todo, 3) /\ 3 - 2 = 1
    BY <1>1, <1>6 DEF Nested
  <2> QED BY <1>6, <2>1 DEF Surrounded
<1> QED BY <1>2, <1>3, <1>4, <1>5, <1>6

(* A token that was expected: if it ends a group, it is a parenthesis. *)
LEMMA LevelExpected ==
  ASSUME Grading, Expected
  PROVE  LevelsInv'
<1>1. IInv /\ Doing("expect")
  BY Zenon DEF Grading, Expected
<1>2. /\ todo # <<>> /\ Head(todo) = todo[1] /\ todo[1][1] = "expect"
  BY <1>1, HeadFacts, Zenon
<1>3. Cur = todo[1][2] /\ Step(Forward(current), FALSE, nodes, <<>>)
  BY <1>2, ArgsOf, Zenon DEF Expected, Goes
<1>4. IsExpect(todo[1]) /\ ~IsLed(todo[1]) /\ ~IsExpr(todo[1]) /\ ~IsBuild(todo[1]) /\ ~IsCast(todo[1])
  BY <1>2, KindsApart, Zenon DEF IsExpect
<1>5. PICK r : r = <<>> \o Tail(todo)
  OBVIOUS
<1>6. /\ DOMAIN r = 1 .. Len(todo) - 1 /\ Len(todo) \in Nat
      /\ \A i \in DOMAIN r : i + 1 \in DOMAIN todo /\ r[i] = todo[i + 1]
  BY <1>2, <1>5, TailFacts
<1>7. nodes \in Seq(NodeSet) /\ tokens \in Programs /\ current \in Positions /\ Leveled(tokens, nodes)
  BY GradingFacts
<1>8. Grown(nodes, nodes, {}) /\ Ahead(Forward(current))
  BY <1>7, GrownFacts, AheadFacts
<1>9. HandsOver(nodes, nodes, todo, <<>>)
  BY <1>4 DEF HandsOver, HeadStarts
<1>10. ASSUME 2 \in DOMAIN todo, IsLed(todo[2]) PROVE LedReady(tokens, Forward(current), nodes, r)
  <2>1. CloseParen(Cur)
    BY <1>2, <1>3, <1>4, <1>10, AroundHead DEF AroundLed
  <2>2. Forward(current) - 1 = current
    <3>1. Cur # "EOF"
      BY <2>1 DEF CloseParen
    <3>2. /\ Len(tokens) \in Nat /\ tokens[Len(tokens)] = "EOF" /\ current \in 1 .. Len(tokens)
      <4>1. Len(tokens) \in Nat /\ Len(tokens) \in DOMAIN tokens
        BY <1>7, TokenFacts DEF Positions
      <4> QED BY <1>7, <4>1, ProgramsAssumption DEF Positions
    <3>3. current # Len(tokens)
      BY <3>1, <3>2 DEF Cur
    <3> QED BY <3>2, <3>3 DEF Forward
  <2>3. CloseParen(tokens[Forward(current) - 1])
    BY <2>1, <2>2 DEF Cur
  <2>4. ASSUME 2 \in DOMAIN r, IsBinary(r[2]) PROVE OpenParen(tokens[PosOf(r[2]) + 1])
    <3>1. 3 \in DOMAIN todo /\ r[2] = todo[3]
      <4>1. 2 + 1 = 3
        OBVIOUS
      <4> QED BY <1>6, <2>4, <4>1
    <3> QED BY <1>2, <1>4, <2>4, <3>1, AroundHead DEF InGroup
  <2> QED BY <2>3, <2>4 DEF LedReady
<1>11. ASSUME 2 \in DOMAIN todo PROVE ~IsBinary(todo[2])
  BY <1>2, <1>4, <1>11, AroundHead
<1>12. 2 \in DOMAIN todo =>
         /\ IsLed(todo[2]) => LedReady(tokens, Forward(current), nodes, r)
         /\ IsBinary(todo[2]) => RightReady(tokens, Forward(current), nodes, todo[2])
  BY <1>10, <1>11
<1>13. PICK new : new = {}
  OBVIOUS
<1>14. Grown(nodes, nodes, new) /\ \A n \in new : AfterOps(n.at)
  BY <1>8, <1>13
<1> QED BY ONLY Grading, <1>2, <1>3, <1>5, <1>7, <1>8, <1>9, <1>12, <1>14, EndsStep

(* A node that is built: of two sides, it is an operator with operands     *)
(* that fit.                                                               *)
LEMMA LevelBuild ==
  ASSUME Grading, BuildNode
  PROVE  LevelsInv'
<1>1. IInv /\ Doing("build")
  BY Zenon DEF Grading, BuildNode
<1>2. /\ todo # <<>> /\ Head(todo) = todo[1] /\ todo[1][1] = "build"
  BY <1>1, HeadFacts, Zenon
<1>3. PICK n : n = Node(todo[1][2], todo[1][3], todo[1][4] + 1)
  OBVIOUS
<1>4. PICK tree : tree = Append(nodes, n)
  OBVIOUS
<1>5. Step(current, FALSE, tree, <<>>)
  BY <1>2, <1>3, <1>4, ArgsOf, Zenon DEF BuildNode
<1>6. /\ IsBuild(todo[1]) /\ ~IsLed(todo[1]) /\ ~IsExpr(todo[1]) /\ ~IsExpect(todo[1])
      /\ ~IsCast(todo[1]) /\ HasBase(todo[1])
  BY <1>2, KindsApart, Zenon DEF IsBuild
<1>7. PosOf(todo[1]) = todo[1][3] /\ BaseOf(todo[1]) = todo[1][4]
  BY <1>2 DEF PosOf, BaseOf
<1>8. /\ n.node = todo[1][2] /\ n.at = PosOf(todo[1]) /\ n.from = BaseOf(todo[1]) + 1
  BY <1>3, <1>7 DEF Node
<1>9. PICK r : r = <<>> \o Tail(todo)
  OBVIOUS
<1>10. /\ nodes \in Seq(NodeSet) /\ Leveled(tokens, nodes) /\ TypedTree(nodes)
       /\ Waiting(tokens, nodes, todo) /\ Ready(tokens, current, nodes, todo) /\ Typed(todo)
       /\ Len(nodes) \in Nat /\ DOMAIN nodes = 1 .. Len(nodes)
  BY GradingFacts
<1>11. Grown(nodes, tree, {n}) /\ Ahead(current)
  BY <1>4, <1>10, GrownFacts, AheadFacts
<1>12. /\ Len(tree) = Len(nodes) + 1 /\ DOMAIN tree = 1 .. Len(nodes) + 1 /\ tree[Len(tree)] = n
       /\ \A k \in 1 .. Len(nodes) : tree[k] = nodes[k]
  BY ONLY <1>4, <1>10
<1>13. 1 \in DOMAIN todo /\ BaseOf(todo[1]) \in Nat
  BY <1>2, <1>6, <1>10, AroundHead DEF Typed
<1>14. HandsOver(nodes, tree, todo, <<>>)
  <2>1. tree # <<>> /\ tree[Len(tree)].from - 1 = BaseOf(todo[1])
    BY <1>8, <1>10, <1>12, <1>13
  <2> QED BY <1>6, <2>1 DEF HandsOver, HeadStarts
<1>15. AfterOps(n.at)
  BY <1>2, <1>6, <1>8, Later
<1>16. IsBinary(todo[1]) <=> n.node = "binary"
  BY <1>2, <1>8 DEF IsBinary
<1>17. ASSUME n.node = "binary"
       PROVE  /\ Operator(tokens, nodes, todo, 1) /\ RightReady(tokens, current, nodes, todo[1])
  BY <1>10, <1>13, <1>16, <1>17 DEF Waiting, Ready
<1>18. Leveled(tokens, tree)
  <2>1. ASSUME n.node = "binary" PROVE Level(tokens, tree, Len(tree))
    <3> DEFINE at == PosOf(todo[1])
               l == nodes[Len(nodes)].from - 1
    <3>1. /\ Prec(tokens[at]) >= 0 /\ nodes # <<>> /\ LeftReady(tokens, nodes, todo[1], l)
          /\ RightFits(tokens, nodes, at, Len(nodes))
      BY <1>17, <2>1 DEF Operator, RightReady
    <3>2. /\ l \in DOMAIN nodes /\ BaseOf(todo[1]) < l /\ LeftFits(tokens, nodes, at, l)
      BY <3>1 DEF LeftReady
    <3> HIDE DEF at, l
    <3>3. Len(tree) - 1 = Len(nodes) /\ Len(nodes) \in DOMAIN nodes /\ Len(nodes) \in DOMAIN tree
      BY <1>10, <1>12, <3>1
    <3>4. tree[Len(nodes)] = nodes[Len(nodes)] /\ tree[l] = nodes[l] /\ l \in DOMAIN tree
      BY <1>10, <1>12, <3>2, <3>3
    <3>5. n.from <= Len(nodes)
      BY <1>8, <1>10, <1>13, <3>2
    <3>6. n.at = at /\ l = tree[Len(nodes)].from - 1
      BY <1>8, <3>4 DEF at, l
    <3>7. LeftFits(tokens, tree, at, l) /\ RightFits(tokens, tree, at, Len(nodes))
      BY <3>1, <3>2, <3>4 DEF LeftFits, RightFits
    <3> QED BY <1>12, <3>1, <3>3, <3>4, <3>5, <3>6, <3>7 DEF Level
  <2>2. \A k \in DOMAIN tree : k \notin 1 .. Len(nodes) => k = Len(tree)
    BY <1>10, <1>12
  <2> QED BY <1>10, <1>11, <1>12, <2>1, <2>2, LeveledAfter
<1>19. ASSUME 2 \in DOMAIN todo, IsLed(todo[2]) PROVE LedReady(tokens, current, tree, r)
  <2> SUFFICES ASSUME n.node = "binary"
               PROVE  LET t == tokens[n.at]
                      IN GoesOn(t, todo[2][2]) /\ ~GoesOn(tokens[current], Prec(t) + 1)
    <3>1. DOMAIN r = 1 .. Len(todo) - 1 /\ Len(todo) \in Nat
          /\ \A i \in DOMAIN r : i + 1 \in DOMAIN todo /\ r[i] = todo[i + 1]
      BY <1>2, <1>9, TailFacts
    <3>2. r[1] = todo[2]
      <4>1. 1 + 1 = 2 /\ 2 <= Len(todo)
        BY <1>19, GradingFacts
      <4>2. 1 \in DOMAIN r
        BY <3>1, <4>1
      <4> QED BY <3>1, <4>1, <4>2
    <3> QED BY <1>12, <3>2 DEF LedReady
  <2>1. GoesOn(tokens[PosOf(todo[1])], todo[2][2])
    <3>1. 1 + 1 = 2
      OBVIOUS
    <3> QED BY <1>17, <3>1 DEF Operator
  <2>2. ~GoesOn(tokens[current], Prec(tokens[PosOf(todo[1])]) + 1)
    BY <1>17 DEF RightReady
  <2> QED BY <1>8, <2>1, <2>2
<1>20. ASSUME 2 \in DOMAIN todo PROVE ~IsBinary(todo[2])
  BY <1>2, <1>6, <1>20, AroundHead
<1>21. 2 \in DOMAIN todo =>
         /\ IsLed(todo[2]) => LedReady(tokens, current, tree, r)
         /\ IsBinary(todo[2]) => RightReady(tokens, current, tree, todo[2])
  BY <1>19, <1>20
<1>22. PICK new : new = {n}
  OBVIOUS
<1>23. Grown(nodes, tree, new) /\ \A m \in new : AfterOps(m.at)
  BY <1>11, <1>15, <1>22
<1> QED BY ONLY Grading, <1>2, <1>5, <1>9, <1>11, <1>14, <1>18, <1>21, <1>23, EndsStep

(* The levels: what goes on with the right operand of an operator, and     *)
(* what does not.                                                          *)
LEMMA PrecValues ==
  \A t : /\ Prec(t) \in Int
         /\ Prec(t) >= 0 => Prec(t) >= 1 /\ (t \in RightAssoc => Prec(t) = 1)
<1> SUFFICES ASSUME NEW t PROVE /\ Prec(t) \in Int
                                /\ Prec(t) >= 0 => Prec(t) >= 1 /\ (t \in RightAssoc => Prec(t) = 1)
  OBVIOUS
<1>1. t \in RightAssoc => Prec(t) = 1
  BY DEF RightAssoc, Prec
<1>2. Prec(t) \in {-1, 1, 2, 3, 4, 5, 6, 7, 8, 10, 11}
  BY DEF Prec
<1> QED BY <1>1, <1>2

LEMMA GoesOnWhen ==
  ASSUME NEW t, Prec(t) >= 0, NEW m \in Int
  PROVE  GoesOn(t, m) <=> IF t \in RightAssoc THEN Prec(t) >= m ELSE Prec(t) > m
<1>1. Prec(t) \in Int
  BY PrecValues
<1>2. ~(Prec(t) < 0)
  BY <1>1
<1>3. CASE t \in RightAssoc
  BY <1>2, <1>3, Zenon DEF GoesOn
<1>4. CASE t \notin RightAssoc
  BY <1>2, <1>4, Zenon DEF GoesOn
<1> QED BY <1>3, <1>4

LEMMA Tighter ==
  ASSUME NEW t, NEW u, Prec(t) >= 0, Prec(u) >= 0, GoesOn(t, Prec(u) + 1)
  PROVE  Prec(t) > Prec(u) + 1
<1>1. Prec(t) \in Int /\ Prec(u) \in Int /\ Prec(u) >= 1
  BY PrecValues
<1>2. t \in RightAssoc => Prec(t) = 1
  BY PrecValues
<1>3. IF t \in RightAssoc THEN Prec(t) >= Prec(u) + 1 ELSE Prec(t) > Prec(u) + 1
  BY <1>1, GoesOnWhen
<1> QED BY <1>1, <1>2, <1>3

LEMMA NotLooser ==
  ASSUME NEW t, NEW u, Prec(t) >= 0, Prec(u) >= 0, ~GoesOn(u, Prec(t) + 1)
  PROVE  Prec(t) >= Prec(u) - 1
<1>1. Prec(t) \in Int /\ Prec(u) \in Int
  BY PrecValues
<1>2. IF u \in RightAssoc THEN ~(Prec(u) >= Prec(t) + 1) ELSE ~(Prec(u) > Prec(t) + 1)
  BY <1>1, GoesOnWhen
<1> QED BY <1>1, <1>2

(* An expression that is missing: its place is taken. *)
LEMMA LevelNothing ==
  ASSUME Grading, ParseNothing
  PROVE  LevelsInv'
<1>1. IInv /\ Doing("expr")
  BY Zenon DEF Grading, ParseNothing
<1>2. /\ todo # <<>> /\ todo[1][1] = "expr"
  BY <1>1, HeadFacts, Zenon
<1>3. PICK n : n = Node("error", current, Base + 1)
  OBVIOUS
<1>4. PICK tree : tree = Append(nodes, n)
  OBVIOUS
<1>5. Step(current, FALSE, tree, <<>>)
  BY <1>3, <1>4, Zenon DEF ParseNothing, Makes, Leaf
<1>6. IsExpr(todo[1]) /\ ~IsLed(todo[1]) /\ ~IsExpect(todo[1]) /\ ~IsBuild(todo[1]) /\ ~IsCast(todo[1])
  BY <1>2, KindsApart, Zenon DEF IsExpr
<1>7. n.node = "error" /\ n.at = current /\ n.from = Len(nodes) + 1
  BY <1>3 DEF Node, Base
<1>8. PICK r : r = <<>> \o Tail(todo)
  OBVIOUS
<1>9. /\ nodes \in Seq(NodeSet) /\ Len(nodes) \in Nat /\ DOMAIN nodes = 1 .. Len(nodes)
  BY GradingFacts
<1>10. PICK new : new = {n}
  OBVIOUS
<1>11. Grown(nodes, tree, new) /\ Ahead(current)
  BY <1>4, <1>9, <1>10, GrownFacts, AheadFacts
<1>12. Len(tree) = Len(nodes) + 1 /\ tree[Len(tree)] = n
  BY ONLY <1>4, <1>9
<1>13. AfterOps(current)
  BY <1>11, AheadFacts
<1>14. \A m \in new : LateNode(m) /\ AfterOps(m.at)
  BY <1>7, <1>10, <1>13 DEF LateNode
<1>15. Leveled(tokens, tree)
  BY <1>11, <1>14, LateTree
<1>16. tree # <<>> /\ tree[Len(tree)].from - 1 = Len(nodes)
  BY <1>7, <1>9, <1>12
<1>17. HandsOver(nodes, tree, todo, <<>>)
  BY <1>6, <1>16 DEF HandsOver, HeadStarts
<1>18. ASSUME 2 \in DOMAIN todo PROVE ~IsLed(todo[2])
  BY <1>2, <1>6, <1>18, AroundHead DEF AroundLed
<1>19. ASSUME 2 \in DOMAIN todo, IsBinary(todo[2]) PROVE RightReady(tokens, current, tree, todo[2])
  <2>1. PICK l \in Nat : HeadStarts(nodes, todo[1], l) /\ LeftReady(tokens, nodes, todo[2], l)
    BY <1>2, <1>19, AroundHead
  <2>2. l = Len(nodes)
    BY <1>6, <2>1 DEF HeadStarts
  <2>3. PosOf(todo[2]) < current
    BY <1>2, <1>13, <1>19, AroundHead
  <2>4. LeftReady(tokens, tree, todo[2], tree[Len(tree)].from - 1)
    <3>1. \A m \in new : PosOf(todo[2]) < m.at
      BY <1>7, <1>10, <2>3
    <3>2. LeftReady(tokens, tree, todo[2], l)
      BY <1>11, <2>1, <3>1, LeftReadyAfter
    <3> QED BY <1>16, <2>2, <3>2
  <2>5. RightFits(tokens, tree, PosOf(todo[2]), Len(tree))
    BY <1>7, <1>12 DEF RightFits
  <2>6. \A m : ~GoesOn(tokens[current], m)
    <3>1. Cur \in {"EOF", "ERROR"}
      BY Zenon DEF ParseNothing
    <3>2. Prec(Cur) = -1 /\ Cur \notin Postfix
      BY <3>1 DEF Prec, Postfix
    <3>3. Prec(Cur) < 0
      BY <3>2
    <3> QED BY <3>2, <3>3 DEF GoesOn, Cur
  <2> QED BY <1>16, <2>4, <2>5, <2>6 DEF RightReady
<1>20. 2 \in DOMAIN todo =>
         /\ IsLed(todo[2]) => LedReady(tokens, current, tree, r)
         /\ IsBinary(todo[2]) => RightReady(tokens, current, tree, todo[2])
  BY <1>18, <1>19
<1> QED BY ONLY Grading, <1>2, <1>5, <1>8, <1>11, <1>14, <1>15, <1>17, <1>20, EndsStep

(* Nothing goes on with an expression: if it is the right operand of an    *)
(* operator, it fits.                                                      *)
LEMMA LevelEnd ==
  ASSUME Grading, EndExpr
  PROVE  LevelsInv'
<1>1. IInv /\ Doing("led")
  BY Zenon DEF Grading, EndExpr
<1>2. /\ todo # <<>> /\ Head(todo) = todo[1] /\ todo[1][1] = "led"
  BY <1>1, HeadFacts, Zenon
<1>3. Step(current, FALSE, nodes, <<>>) /\ ~GoesOn(Cur, todo[1][2])
  BY <1>2, ArgsOf, Zenon DEF EndExpr, Goes
<1>4. IsLed(todo[1]) /\ ~IsExpr(todo[1]) /\ ~IsExpect(todo[1]) /\ ~IsBuild(todo[1]) /\ ~IsCast(todo[1])
  BY <1>2, KindsApart, Zenon DEF IsLed
<1>5. nodes # <<>>
  BY <1>1, OnTreeHead, Zenon
<1>6. PICK r : r = <<>> \o Tail(todo)
  OBVIOUS
<1>7. /\ nodes \in Seq(NodeSet) /\ Len(nodes) \in Nat /\ DOMAIN nodes = 1 .. Len(nodes)
      /\ Leveled(tokens, nodes) /\ Ready(tokens, current, nodes, todo)
  BY GradingFacts
<1>8. PICK new : new = {}
  OBVIOUS
<1>9. Grown(nodes, nodes, new) /\ Ahead(current) /\ \A n \in new : AfterOps(n.at)
  BY <1>7, <1>8, GrownFacts, AheadFacts
<1>10. HandsOver(nodes, nodes, todo, <<>>)
  BY <1>4 DEF HandsOver, HeadStarts
<1>11. ASSUME 2 \in DOMAIN todo PROVE ~IsLed(todo[2])
  BY <1>2, <1>4, <1>11, AroundHead DEF AroundLed
<1>12. ASSUME 2 \in DOMAIN todo, IsBinary(todo[2]) PROVE RightReady(tokens, current, nodes, todo[2])
  <2> DEFINE at == PosOf(todo[2])
             k == Len(nodes)
  <2>1. PICK l \in Nat : HeadStarts(nodes, todo[1], l) /\ LeftReady(tokens, nodes, todo[2], l)
    BY <1>2, <1>12, AroundHead
  <2>2. l = nodes[k].from - 1
    BY <1>4, <2>1 DEF HeadStarts
  <2>3. todo[1][2] = Prec(tokens[at]) + 1 /\ Prec(tokens[at]) >= 0
    BY <1>2, <1>12, AroundHead DEF Operator
  <2>4. ~GoesOn(tokens[current], Prec(tokens[at]) + 1)
    BY <1>3, <2>3 DEF Cur
  <2>5. k \in DOMAIN nodes /\ l < k
    <3>1. k \in DOMAIN nodes
      BY <1>5, <1>7
    <3>2. nodes[k].from \in 1 .. k
      BY <1>1, <3>1 DEF IInv, Sound
    <3> QED BY <1>7, <2>2, <3>1, <3>2
  <2>6. at < nodes[k].at
    BY <2>1, <2>5 DEF LeftReady
  <2>7. RightFits(tokens, nodes, at, k)
    <3> SUFFICES ASSUME nodes[k].node = "binary"
                 PROVE  \/ Prec(tokens[nodes[k].at]) > Prec(tokens[at]) + 1
                        \/ OpenParen(tokens[at + 1]) /\ at < nodes[k].at
      BY DEF RightFits
    <3>1. LedReady(tokens, current, nodes, todo) /\ Prec(tokens[nodes[k].at]) >= 0
      <4>1. 1 \in DOMAIN todo
        BY <1>2, AroundHead
      <4> QED BY <1>4, <1>7, <2>5, <4>1 DEF Ready, Leveled, Level
    <3>2. CASE GoesOn(tokens[nodes[k].at], todo[1][2])
      BY <2>3, <3>1, <3>2, Tighter
    <3>3. CASE ~GoesOn(tokens[nodes[k].at], todo[1][2])
      <4>1. OpenParen(tokens[at + 1])
        BY <1>12, <3>1, <3>3 DEF LedReady
      <4> QED BY <2>6, <4>1
    <3> QED BY <3>2, <3>3
  <2> QED BY <1>5, <2>1, <2>2, <2>4, <2>7 DEF RightReady
<1>13. 2 \in DOMAIN todo =>
         /\ IsLed(todo[2]) => LedReady(tokens, current, nodes, r)
         /\ IsBinary(todo[2]) => RightReady(tokens, current, nodes, todo[2])
  BY <1>11, <1>12
<1> QED BY ONLY Grading, <1>2, <1>3, <1>6, <1>7, <1>9, <1>10, <1>13, EndsStep

-----------------------------------------------------------------------------
(* The levels nest: what goes on with an expression.                       *)

(* The tree that the innermost call has begun is the one that the call     *)
(* which goes on with it finds when the others have ended.                 *)
GoesOnAtStart(tree, w, l) ==
  \/ Len(w) = 1 /\ tree # <<>> /\ l = tree[Len(tree)].from - 1
  \/ Len(w) > 2 /\ (IsBuild(w[Len(w) - 1]) \/ IsCast(w[Len(w) - 1])) /\ l = BaseOf(w[Len(w) - 1])
  \/ Len(w) = 3 /\ IsExpr(w[1]) /\ IsExpect(w[2]) /\ l = Len(tree)

LEMMA LedStep ==
  ASSUME Grading, NEW k \in {"expr", "led"}, Doing(k), NEW c, Ahead(c),
         NEW new, NEW tree, Grown(nodes, tree, new), Leveled(tokens, tree),
         \A n \in new : AfterOps(n.at),
         NEW w, Work(w), Len(w) \in Nat, Len(w) > 0, IsLed(w[Len(w)]), w[Len(w)][2] = todo[1][2],
         NEW r, r = w \o Tail(todo), Step(c, FALSE, tree, w),
         \A l \in Nat : HeadStarts(nodes, todo[1], l) => GoesOnAtStart(tree, w, l),
         \A i \in 1 .. Len(w) - 1 : ~IsLed(w[i]) /\ (HasBase(w[i]) => AfterOps(PosOf(w[i]))),
         \A i \in 1 .. Len(w) - 1 :
           IsBinary(w[i]) => /\ Operator(tokens, tree, r, i) /\ PosOf(w[i]) < c
                             /\ \A j \in 1 .. i - 1 : ~HasBase(w[j])
                             /\ i > 1 /\ Surrounded(tokens, c, r, i),
         Len(w) > 1 => /\ AroundLed(w[Len(w) - 1])
                       /\ InGroup(w[Len(w) - 1]) => k = "expr" /\ OpenParen(Cur),
         Len(w) = 1 => LedReady(tokens, c, tree, r)
  PROVE  LevelsInv'
<1> DEFINE n == Len(w)
<1>1. IInv /\ todo # <<>> /\ todo[1][1] = k
  <2>1. IInv
    BY Zenon DEF Grading
  <2> QED BY <2>1, HeadFacts, Zenon
<1>2. /\ k = "expr" => IsExpr(todo[1]) /\ ~IsLed(todo[1])
      /\ k = "led" => IsLed(todo[1])
      /\ ~AroundLed(todo[1])
  <2>1. k = "expr" => IsExpr(todo[1])
    BY <1>1 DEF IsExpr
  <2>2. k = "led" => IsLed(todo[1])
    BY <1>1 DEF IsLed
  <2> QED BY <2>1, <2>2, KindsApart DEF AroundLed
<1>3. todo \in Seq(Tasks) /\ DOMAIN todo = 1 .. Len(todo) /\ Len(todo) \in Nat
  BY GradingFacts
<1>4. Joins(w, todo, r)
  BY <1>1, <1>3, JoinFacts
<1>5. /\ Len(r) = n + Len(todo) - 1 /\ DOMAIN r = 1 .. Len(r) /\ Len(r) \in Nat
  BY <1>4, JoinPlaces
<1>6. \A i \in 1 .. n : i \in 1 .. Len(r) /\ r[i] = w[i]
  BY <1>4, JoinPlaces
<1>7. ASSUME n + 1 \in DOMAIN r PROVE 2 \in DOMAIN todo /\ r[n + 1] = todo[2]
  <2>1. 2 \in 2 .. Len(todo) /\ n + 2 - 1 = n + 1
    BY <1>3, <1>5, <1>7
  <2>2. r[n + 2 - 1] = todo[2]
    BY <1>4, <2>1, JoinPlaces
  <2> QED BY <1>3, <2>1, <2>2
<1> HIDE DEF n
<1>8. n \in Nat /\ n > 0 /\ n = Len(w)
  BY DEF n
<1>9. ~IsBinary(w[n]) /\ ~HasBase(w[n]) /\ ~InGroup(w[n]) /\ IsLed(w[n])
  BY <1>8, KindsApart DEF InGroup
<1>10. HandsOver(nodes, tree, todo, w)
  <2>0. w # <<>>
    BY <1>8
  <2> SUFFICES ASSUME NEW l \in Nat, GoesOnAtStart(tree, w, l) PROVE Starts(tree, w, n, l)
    BY <1>8, <2>0 DEF HandsOver
  <2>1. CASE n = 1 /\ tree # <<>> /\ l = tree[Len(tree)].from - 1
    <3>1. StartsAt(tree, w, 1, l)
      BY <1>9, <2>1 DEF StartsAt, HeadStarts
    <3>2. Links(w, 1 + 1, n) /\ 1 \in 1 .. n
      BY <2>1 DEF Links
    <3> QED BY <3>1, <3>2 DEF Starts
  <2>2. CASE n > 2 /\ (IsBuild(w[n - 1]) \/ IsCast(w[n - 1])) /\ l = BaseOf(w[n - 1])
    <3>1. StartsAt(tree, w, n - 1, l)
      BY <1>8, <2>2 DEF StartsAt
    <3>2. Links(w, (n - 1) + 1, n) /\ n - 1 \in 1 .. n
      <4>1. \A i \in (n - 1) + 1 .. n : i = n
        BY <1>8
      <4> QED BY <1>8, <1>9, <2>2, <4>1 DEF Links
    <3> QED BY <3>1, <3>2 DEF Starts
  <2>3. CASE n = 3 /\ IsExpr(w[1]) /\ IsExpect(w[2]) /\ l = Len(tree)
    <3>1. StartsAt(tree, w, 1, l)
      BY <2>3 DEF StartsAt, HeadStarts
    <3>2. Links(w, 1 + 1, n) /\ 1 \in 1 .. n
      <4>1. \A i \in 1 + 1 .. n : i = 2 \/ i = n
        BY <2>3
      <4> QED BY <1>8, <1>9, <2>3, <4>1 DEF Links
    <3> QED BY <3>1, <3>2 DEF Starts
  <2> QED BY <1>8, <2>1, <2>2, <2>3 DEF GoesOnAtStart
<1>11. \A i \in 1 .. n : HasBase(w[i]) => AfterOps(PosOf(w[i]))
  <2>1. \A i \in 1 .. n : i \in 1 .. n - 1 \/ i = n
    BY <1>8
  <2> QED BY <1>8, <1>9, <2>1
<1>12. \A i \in 1 .. n :
         IsBinary(w[i]) => /\ Operator(tokens, tree, r, i) /\ PosOf(w[i]) < c
                           /\ \A j \in 1 .. i - 1 : ~HasBase(w[j])
  <2>1. \A i \in 1 .. n : i \in 1 .. n - 1 \/ i = n
    BY <1>8
  <2> QED BY <1>8, <1>9, <2>1
<1>13. ASSUME NEW m \in 2 .. n + 1, m \in DOMAIN r PROVE Surrounded(tokens, c, r, m)
  <2>1. CASE m \in 2 .. n - 1
    <3>1. m \in 1 .. n - 1 /\ m \in 1 .. n
      BY <1>8, <2>1
    <3>2. r[m] = w[m] /\ ~IsLed(w[m])
      BY <1>6, <1>8, <3>1
    <3> QED BY <1>8, <3>1, <3>2 DEF Surrounded
  <2>2. CASE m = n
    <3>1. n > 1 /\ n - 1 \in 1 .. n /\ n \in 1 .. n
      BY <1>8, <2>2
    <3>2. r[m] = w[n] /\ r[m - 1] = w[n - 1]
      BY <1>6, <2>2, <3>1
    <3> QED BY <1>8, <1>9, <3>1, <3>2 DEF Surrounded
  <2>3. CASE m = n + 1
    <3>1. 2 \in DOMAIN todo /\ r[m] = todo[2]
      BY <1>7, <1>13, <2>3
    <3>2. ~IsLed(todo[2])
      BY <1>1, <1>2, <3>1, AroundHead
    <3>3. m - 1 = n /\ n \in 1 .. n
      BY <1>8, <2>3
    <3>4. r[m - 1] = w[n]
      BY <1>6, <3>3
    <3> SUFFICES ASSUME IsBinary(todo[2])
                 PROVE  /\ r[m - 1][2] = Prec(tokens[PosOf(todo[2])]) + 1
                        /\ IsLed(r[m - 1])
                        /\ m > 2 /\ InGroup(r[m - 2]) => OpenParen(tokens[PosOf(todo[2]) + 1])
      BY <3>1, <3>2 DEF Surrounded
    <3>5. /\ todo[1][2] = Prec(tokens[PosOf(todo[2])]) + 1
          /\ IsLed(todo[1]) \/ (IsExpr(todo[1]) /\ current = PosOf(todo[2]) + 1)
      BY <1>1, <3>1, AroundHead
    <3>6. ASSUME m > 2, InGroup(r[m - 2]) PROVE OpenParen(tokens[PosOf(todo[2]) + 1])
      <4>1. n > 1 /\ m - 2 = n - 1 /\ n - 1 \in 1 .. n
        BY <1>8, <2>3, <3>6
      <4>2. InGroup(w[n - 1])
        BY <1>6, <3>6, <4>1
      <4>3. k = "expr" /\ OpenParen(Cur)
        BY <1>8, <4>1, <4>2
      <4> QED BY <1>2, <3>5, <4>3 DEF Cur
    <3> QED BY <1>8, <1>9, <3>4, <3>5, <3>6
  <2>4. m \in 2 .. n - 1 \/ m = n \/ m = n + 1
    BY <1>8
  <2> QED BY <2>1, <2>2, <2>3, <2>4
<1>14. Ready(tokens, c, tree, r)
  <2>1. 1 \in 1 .. n
    BY <1>8
  <2>2. r[1] = w[1]
    BY <1>6, <2>1
  <2>3. CASE n = 1
    BY <1>8, <1>9, <2>2, <2>3 DEF Ready
  <2>4. CASE n > 1
    <3>1. 1 \in 1 .. n - 1 /\ ~(1 > 1)
      BY <1>8, <2>4
    <3>2. ~IsLed(w[1]) /\ ~IsBinary(w[1])
      BY <1>8, <3>1
    <3> QED BY <2>2, <3>2 DEF Ready
  <2> QED BY <1>8, <2>3, <2>4
<1>15. 3 \in DOMAIN todo /\ IsBinary(todo[3]) /\ Len(w) > 0 /\ InGroup(w[Len(w)]) =>
         OpenParen(tokens[PosOf(todo[3]) + 1])
  BY <1>8, <1>9
<1>16. c \in Positions /\ current <= c
  BY DEF Ahead
<1>17. /\ \A m \in 1 .. Len(w) : HasBase(w[m]) => AfterOps(PosOf(w[m]))
       /\ \A m \in 1 .. Len(w) :
            IsBinary(w[m]) => /\ Operator(tokens, tree, r, m) /\ PosOf(w[m]) < c
                              /\ \A i \in 1 .. m - 1 : ~HasBase(w[i])
       /\ \A m \in 2 .. Len(w) + 1 : m \in DOMAIN r => Surrounded(tokens, c, r, m)
  BY <1>8, <1>11, <1>12, <1>13
<1> QED BY ONLY Grading, <1>1, <1>10, <1>14, <1>15, <1>16, <1>17, Grown(nodes, tree, new), Work(w),
                r = w \o Tail(todo), Step(c, FALSE, tree, w), Leveled(tokens, tree),
                \A m \in new : AfterOps(m.at), GradedStep

(* Two tasks before two others, and three. *)
LEMMA JoinedFour ==
  ASSUME NEW v, NEW w, NEW x, NEW y
  PROVE  <<v, w>> \o <<x, y>> = <<v, w, x, y>>
<1> DEFINE S == {v, w, x, y}
           s == <<v, w>>
           t == <<x, y>>
           r == <<v, w, x, y>>
           u == s \o t
<1>1. /\ s \in Seq(S) /\ Len(s) = 2 /\ s[1] = v /\ s[2] = w
      /\ t \in Seq(S) /\ Len(t) = 2 /\ t[1] = x /\ t[2] = y
      /\ r \in Seq(S) /\ Len(r) = 4 /\ r[1] = v /\ r[2] = w /\ r[3] = x /\ r[4] = y
  OBVIOUS
<1> HIDE DEF s, t, r, S
<1>2. /\ u \in Seq(S) /\ Len(u) = Len(s) + Len(t)
      /\ \A i \in 1 .. Len(s) + Len(t) : u[i] = IF i <= Len(s) THEN s[i] ELSE t[i - Len(s)]
  BY <1>1, ConcatProperties, Zenon
<1> HIDE DEF u
<1>3. u[1] = v /\ u[2] = w /\ u[3] = x /\ u[4] = y /\ Len(u) = 4
  BY <1>1, <1>2
<1>4. \A i \in 1 .. 4 : i = 1 \/ i = 2 \/ i = 3 \/ i = 4
  OBVIOUS
<1>5. \A i \in 1 .. Len(u) : u[i] = r[i]
  BY <1>1, <1>3, <1>4, Zenon
<1>6. u = r
  BY <1>1, <1>2, <1>3, <1>5, SeqEqual, Zenon
<1> QED BY <1>6 DEF u, s, t, r

LEMMA JoinedFive ==
  ASSUME NEW a, NEW v, NEW w, NEW x, NEW y
  PROVE  <<a, v, w>> \o <<x, y>> = <<a, v, w, x, y>>
<1> DEFINE S == {a, v, w, x, y}
           s == <<a, v, w>>
           t == <<x, y>>
           r == <<a, v, w, x, y>>
           u == s \o t
<1>1. /\ s \in Seq(S) /\ Len(s) = 3 /\ s[1] = a /\ s[2] = v /\ s[3] = w
      /\ t \in Seq(S) /\ Len(t) = 2 /\ t[1] = x /\ t[2] = y
      /\ r \in Seq(S) /\ Len(r) = 5 /\ r[1] = a /\ r[2] = v /\ r[3] = w /\ r[4] = x /\ r[5] = y
  OBVIOUS
<1> HIDE DEF s, t, r, S
<1>2. /\ u \in Seq(S) /\ Len(u) = Len(s) + Len(t)
      /\ \A i \in 1 .. Len(s) + Len(t) : u[i] = IF i <= Len(s) THEN s[i] ELSE t[i - Len(s)]
  BY <1>1, ConcatProperties, Zenon
<1> HIDE DEF u
<1>3. u[1] = a /\ u[2] = v /\ u[3] = w /\ u[4] = x /\ u[5] = y /\ Len(u) = 5
  BY <1>1, <1>2
<1>4. \A i \in 1 .. 5 : i = 1 \/ i = 2 \/ i = 3 \/ i = 4 \/ i = 5
  OBVIOUS
<1>5. \A i \in 1 .. Len(u) : u[i] = r[i]
  BY <1>1, <1>3, <1>4, Zenon
<1>6. u = r
  BY <1>1, <1>2, <1>3, <1>5, SeqEqual, Zenon
<1> QED BY <1>6 DEF u, s, t, r

LEMMA TuplesJoined ==
  ASSUME NEW x, NEW y, NEW z
  PROVE  /\ <<x>> # <<>> /\ <<x, y>> # <<>> /\ <<x, y, z>> # <<>>
         /\ \A s, t : <<x>> \o <<s, t>> = <<x, s, t>>
         /\ \A s, t : <<x, y>> \o <<s, t>> = <<x, y, s, t>>
         /\ \A s, t : <<x, y, z>> \o <<s, t>> = <<x, y, z, s, t>>
<1>1. <<x>> # <<>> /\ <<x, y>> # <<>> /\ <<x, y, z>> # <<>>
  OBVIOUS
<1>2. \A s, t : <<x>> \o <<s, t>> = <<x, s, t>>
  BY JoinedTwo, Zenon
<1>3. \A s, t : <<x, y>> \o <<s, t>> = <<x, y, s, t>>
  BY JoinedFour, Zenon
<1>4. \A s, t : <<x, y, z>> \o <<s, t>> = <<x, y, z, s, t>>
  BY JoinedFive, Zenon
<1> QED BY <1>1, <1>2, <1>3, <1>4

(* The call that goes on with the tree, and what comes before it. *)
LEMMA LedTasks ==
  /\ \A m : IsLed(Led(m)) /\ Led(m)[2] = m
  /\ \A m : IsExpr(Expr(m)) /\ Expr(m)[2] = m /\ ~HasBase(Expr(m)) /\ ~IsLed(Expr(m)) /\ ~IsBinary(Expr(m))
  /\ \A t : IsExpect(Expect(t)) /\ Expect(t)[2] = t /\ ~IsLed(Expect(t)) /\ ~IsBinary(Expect(t))
  /\ \A t : ~HasBase(Expect(t))
  /\ ~HasBase(Type) /\ ~IsLed(Type) /\ ~IsBinary(Type)
  /\ \A n, at, b : /\ IsBuild(Build(n, at, b)) /\ HasBase(Build(n, at, b)) /\ ~IsLed(Build(n, at, b))
                   /\ PosOf(Build(n, at, b)) = at /\ BaseOf(Build(n, at, b)) = b
                   /\ IsBinary(Build(n, at, b)) <=> n = "binary"
                   /\ ~InGroup(Build(n, at, b)) /\ AroundLed(Build(n, at, b))
  /\ \A at, b : /\ IsCast(CastOrGroup(at, b)) /\ HasBase(CastOrGroup(at, b)) /\ ~IsLed(CastOrGroup(at, b))
                /\ PosOf(CastOrGroup(at, b)) = at /\ BaseOf(CastOrGroup(at, b)) = b
                /\ ~IsBinary(CastOrGroup(at, b)) /\ InGroup(CastOrGroup(at, b))
                /\ AroundLed(CastOrGroup(at, b))
BY DEF Led, Expr, Expect, ExpectOr, Type, Build, CastOrGroup, IsLed, IsExpr, IsExpect, IsBuild, IsCast,
       IsBinary, HasBase, PosOf, BaseOf, InGroup, AroundLed

(* A tree is there, and what may go on with it. *)
LEMMA LedOne ==
  ASSUME Grading, NEW k \in {"expr", "led"}, Doing(k), NEW c, Ahead(c), NEW n, LateNode(n),
         \A l \in Nat : HeadStarts(nodes, todo[1], l) => n.from - 1 = l,
         NEW tree, tree = Append(nodes, n), Step(c, FALSE, tree, <<Led(Arg(1))>>)
  PROVE  LevelsInv'
<1>1. PICK new : new = {n}
  OBVIOUS
<1>2. /\ nodes \in Seq(NodeSet) /\ Len(nodes) \in Nat /\ DOMAIN nodes = 1 .. Len(nodes)
  BY GradingFacts
<1>3. Grown(nodes, tree, new) /\ \A m \in new : LateNode(m)
  BY <1>1, <1>2, GrownFacts
<1>4. Leveled(tokens, tree) /\ \A m \in new : AfterOps(m.at)
  BY <1>3, LateTree
<1>5. tree # <<>> /\ tree[Len(tree)] = n
  BY ONLY <1>2, tree = Append(nodes, n)
<1>6. PICK w : w = <<Led(Arg(1))>>
  OBVIOUS
<1>7. Len(w) = 1 /\ w[1] = Led(Arg(1)) /\ Step(c, FALSE, tree, w)
  BY <1>6
<1>8. Work(w)
  <2>1. w \in Seq({Led(Arg(1))})
    BY <1>6
  <2> QED BY <2>1 DEF Work
<1>9. IsLed(w[Len(w)]) /\ w[Len(w)][2] = todo[1][2]
  <2>1. Head(todo) = todo[1]
    BY HeadFacts, Zenon DEF Grading
  <2>2. Arg(1) = todo[1][2]
    BY <2>1, ArgsOf, Zenon
  <2> QED BY <1>7, <2>2, LedTasks
<1>10. PICK r : r = w \o Tail(todo)
  OBVIOUS
<1>11. \A l \in Nat : HeadStarts(nodes, todo[1], l) => GoesOnAtStart(tree, w, l)
  BY <1>5, <1>7 DEF GoesOnAtStart
<1>12. LedReady(tokens, c, tree, r)
  BY <1>5 DEF LateNode, LedReady
<1>13. 1 .. Len(w) - 1 = {} /\ Len(w) \in Nat /\ Len(w) > 0 /\ ~(Len(w) > 1)
  BY <1>7
<1> QED BY ONLY Grading, k \in {"expr", "led"}, Doing(k), Ahead(c), <1>3, <1>4, <1>7, <1>8, <1>9, <1>10,
                <1>11, <1>12, <1>13, LedStep

(* A node will be built first. *)
LEMMA LedBuilds ==
  ASSUME Grading, NEW k \in {"expr", "led"}, Doing(k), NEW c, Ahead(c),
         NEW v, LateWork(v), v # <<>>, NEW b, IsBuild(b), Late(b),
         \A l \in Nat : HeadStarts(nodes, todo[1], l) => l = BaseOf(b),
         Step(c, FALSE, nodes, v \o <<b, Led(Arg(1))>>)
  PROVE  LevelsInv'
<1>1. PICK new : new = {}
  OBVIOUS
<1>2. /\ nodes \in Seq(NodeSet) /\ Leveled(tokens, nodes)
  BY GradingFacts
<1>3. Grown(nodes, nodes, new) /\ \A m \in new : AfterOps(m.at)
  BY <1>1, <1>2, GrownFacts
<1>4. PICK w : w = v \o <<b, Led(Arg(1))>>
  OBVIOUS
<1>5. PICK S : v \in Seq(S) /\ \A t \in S : Late(t)
  BY DEF LateWork
<1>6. PICK T : T = S \cup {b, Led(Arg(1))}
  OBVIOUS
<1>7. /\ w \in Seq(T) /\ Len(v) \in Nat /\ Len(v) > 0 /\ Len(w) = Len(v) + 2
      /\ w[Len(w) - 1] = b /\ w[Len(w)] = Led(Arg(1))
      /\ \A i \in 1 .. Len(v) : w[i] = v[i] /\ v[i] \in S
  BY ONLY <1>4, <1>5, <1>6, v # <<>>
<1>8. Work(w) /\ Len(w) \in Nat /\ Len(w) > 2
  BY <1>7 DEF Work
<1>9. IsLed(w[Len(w)]) /\ w[Len(w)][2] = todo[1][2]
  <2>1. Head(todo) = todo[1]
    BY HeadFacts, Zenon DEF Grading
  <2>2. Arg(1) = todo[1][2]
    BY <2>1, ArgsOf, Zenon
  <2> QED BY <1>7, <2>2, LedTasks
<1>10. PICK r : r = w \o Tail(todo)
  OBVIOUS
<1>11. \A l \in Nat : HeadStarts(nodes, todo[1], l) => GoesOnAtStart(nodes, w, l)
  BY <1>7, <1>8 DEF GoesOnAtStart
<1>12. ASSUME NEW i \in 1 .. Len(w) - 1
       PROVE  ~IsLed(w[i]) /\ (HasBase(w[i]) => AfterOps(PosOf(w[i]))) /\ ~IsBinary(w[i])
  <2>1. i \in 1 .. Len(v) \/ i = Len(w) - 1
    BY <1>7
  <2>2. Late(w[i])
    BY <1>5, <1>7, <2>1
  <2> QED BY <2>2 DEF Late
<1>13. AroundLed(w[Len(w) - 1]) /\ ~InGroup(w[Len(w) - 1]) /\ Len(w) # 1
  BY <1>7, <1>8, KindsApart DEF AroundLed, InGroup
<1>14. Len(w) > 0 /\ Step(c, FALSE, nodes, w)
  <2>1. Step(c, FALSE, nodes, w)
    BY <1>4, Zenon DEF Step
  <2>2. Len(w) > 0
    BY <1>8
  <2> QED BY <2>1, <2>2, Zenon
<1> QED BY ONLY Grading, k \in {"expr", "led"}, Doing(k), Ahead(c), <1>2, <1>3, <1>8, <1>9, <1>10,
                <1>11, <1>12, <1>13, <1>14, LedStep

(* Where the tree of a head begins. *)
LEMMA HeadStart ==
  ASSUME Grading
  PROVE  /\ Doing("expr") => \A l : HeadStarts(nodes, todo[1], l) => l = Base
         /\ Doing("led") => \A l : HeadStarts(nodes, todo[1], l) => l = LastBase
         /\ Base \in Nat /\ (Doing("led") => LastBase \in Nat)
<1>1. IInv
  BY Zenon DEF Grading
<1>2. Doing("expr") => todo[1][1] = "expr"
  BY <1>1, HeadFacts, Zenon
<1>3. Doing("led") => todo[1][1] = "led" /\ LastBase \in Nat
  BY <1>1, HeadFacts, OnTreeHead, Zenon
<1>4. Doing("expr") => \A l : HeadStarts(nodes, todo[1], l) => l = Base
  BY <1>2 DEF HeadStarts, IsExpr, IsLed, IsExpect, IsBuild, IsCast, Base
<1>5. Doing("led") => \A l : HeadStarts(nodes, todo[1], l) => l = LastBase
  BY <1>3 DEF HeadStarts, IsExpr, IsLed, IsExpect, IsBuild, IsCast, Base, LastBase
<1> QED BY <1>1, <1>3, <1>4, <1>5, PlacesThere, Zenon DEF Places

(* What begins an expression, but for a group. *)
LEMMA LevelOpen ==
  ASSUME Grading,
         \/ ParseAtom \/ ParseUnary \/ ParseLeadingDot \/ ParseFfi \/ ParseAggregate \/ ParseArray
         \/ NotAnExpr
  PROVE  LevelsInv'
<1>1. /\ Ahead(current) /\ "expr" \in {"expr", "led"}
      /\ \A c : Ahead(c) => Ahead(Forward(c))
  BY AheadFacts, Zenon
<1>2. \A c : Ahead(c) => \A n, b : n # "binary" => Late(Build(n, c, b)) /\ LateNode(Node(n, c, b))
  BY AheadFacts, Zenon
<1>3. /\ Base \in Nat /\ \A n, at : Node(n, at, Base + 1).from - 1 = Base
  <2>1. Base \in Nat
    BY HeadStart, Zenon
  <2> QED BY <2>1 DEF Node
<1>4. /\ Late(Expr(0)) /\ Late(Expect("(")) /\ Late(Expect(")")) /\ Late(Expect("]"))
      /\ Late(Expect("}")) /\ \A f, t : Late(Items(f, t))
  BY LateTasks, Zenon
<1>5. Doing("expr") => \A l \in Nat : HeadStarts(nodes, todo[1], l) => l = Base
  BY HeadStart, Zenon
<1>6. \A n, at : IsBuild(Build(n, at, Base)) /\ BaseOf(Build(n, at, Base)) = Base
  BY LedTasks, Zenon
<1>7. /\ \A x, y, z : <<x>> # <<>> /\ <<x, y>> # <<>> /\ <<x, y, z>> # <<>>
      /\ \A x, s, t : <<x>> \o <<s, t>> = <<x, s, t>>
      /\ \A x, y, s, t : <<x, y>> \o <<s, t>> = <<x, y, s, t>>
  <2>1. \A x, y, z : <<x>> # <<>> /\ <<x, y>> # <<>> /\ <<x, y, z>> # <<>>
    BY TuplesJoined, Zenon
  <2>2. \A x, s, t : <<x>> \o <<s, t>> = <<x, s, t>>
    BY JoinedTwo, Zenon
  <2>3. \A x, y, s, t : <<x, y>> \o <<s, t>> = <<x, y, s, t>>
    BY JoinedFour, Zenon
  <2> QED BY <2>1, <2>2, <2>3
<1>8. CASE ParseAtom
  <2>1. PICK node \in {"literal", "ident"} :
          Doing("expr") /\ Step(Forward(current), FALSE, Leaf(node, current), <<Led(Arg(1))>>)
    BY <1>8 DEF ParseAtom, Makes
  <2>2. node # "binary"
    OBVIOUS
  <2>3. LateNode(Node(node, current, Base + 1))
    BY <1>1, <1>2, <2>2, Zenon
  <2> QED BY <1>1, <1>3, <1>5, <2>1, <2>3, LedOne, Zenon DEF Leaf
<1>9. CASE ParseUnary
  <2>1. LateWork(<<Expr(0)>>) /\ Late(Build("unary", current, Base))
    BY <1>1, <1>2, <1>4, LateOne, OneSided, Zenon
  <2>2. Doing("expr") /\ Step(Forward(current), FALSE, nodes,
                              <<Expr(0)>> \o <<Build("unary", current, Base), Led(Arg(1))>>)
    BY <1>7, <1>9, Zenon DEF ParseUnary, Goes
  <2> QED BY <1>1, <1>5, <1>6, <1>7, <2>1, <2>2, LedBuilds, Zenon
<1>10. CASE ParseLeadingDot
  <2>1. LateNode(Node("literal", current, Base + 1))
    BY <1>1, <1>2, OneSided, Zenon
  <2>2. Doing("expr") /\ Step(Forward(Forward(current)), FALSE, Leaf("literal", current), <<Led(Arg(1))>>)
    BY <1>10, Zenon DEF ParseLeadingDot, Makes
  <2> QED BY <1>1, <1>3, <1>5, <2>1, <2>2, LedOne, Zenon DEF Leaf
<1>11. CASE ParseFfi
  <2> DEFINE c == Forward(current)
             v == <<Expect("("), Items("args", ")"), Expect(")")>>
  <2>1. Doing("expr") /\ Ahead(c) /\ Ahead(Forward(c))
    BY <1>1, <1>11, Zenon DEF ParseFfi
  <2>2. CASE tokens[c] = "name"
    <3>1. LateWork(v) /\ Late(Build("ffi", c, Base)) /\ v # <<>>
      BY <1>2, <1>4, <1>7, <2>1, LateThree, OneSided, Zenon
    <3>2. v \o <<Build("ffi", c, Base), Led(Arg(1))>> =
            <<Expect("("), Items("args", ")"), Expect(")"), Build("ffi", c, Base), Led(Arg(1))>>
      BY JoinedFive, Zenon
    <3>3. Step(Forward(c), FALSE, nodes, v \o <<Build("ffi", c, Base), Led(Arg(1))>>)
      BY <1>11, <2>2, <3>2, Zenon DEF ParseFfi, Goes
    <3> HIDE DEF v
    <3> QED BY <1>1, <1>5, <1>6, <2>1, <3>1, <3>3, LedBuilds, Zenon
  <2>3. CASE tokens[c] # "name"
    BY <1>11, <2>3, ReportedStep, Zenon DEF ParseFfi
  <2> QED BY <2>2, <2>3
<1>12. CASE ParseAggregate
  <2> DEFINE c == Forward(current)
             v == <<Items(InitForm(c), "}"), Expect("}")>>
  <2>1. Doing("expr") /\ Ahead(c) /\ Ahead(Forward(c))
    BY <1>1, <1>12, Zenon DEF ParseAggregate
  <2>2. CASE tokens[c] = "}"
    <3>1. LateNode(Node("init", current, Base + 1))
      BY <1>1, <1>2, OneSided, Zenon
    <3>2. Step(Forward(c), FALSE, Leaf("init", current), <<Led(Arg(1))>>)
      BY <1>12, <2>2, Zenon DEF ParseAggregate, Makes
    <3> QED BY <1>1, <1>3, <1>5, <2>1, <3>1, <3>2, LedOne, Zenon DEF Leaf
  <2>3. CASE tokens[c] # "}"
    <3>1. LateWork(v) /\ Late(Build("init", current, Base)) /\ v # <<>>
      BY <1>1, <1>2, <1>4, <1>7, <2>1, LateTwo, OneSided, Zenon
    <3>2. v \o <<Build("init", current, Base), Led(Arg(1))>> =
            <<Items(InitForm(c), "}"), Expect("}"), Build("init", current, Base), Led(Arg(1))>>
      BY JoinedFour, Zenon
    <3>3. Step(c, FALSE, nodes, v \o <<Build("init", current, Base), Led(Arg(1))>>)
      BY <1>12, <2>3, <3>2, Zenon DEF ParseAggregate, Goes
    <3> HIDE DEF v
    <3> QED BY <1>1, <1>5, <1>6, <2>1, <3>1, <3>3, LedBuilds, Zenon
  <2> QED BY <2>2, <2>3
<1>13. CASE ParseArray
  <2> DEFINE v == <<Items("positional", "]"), Expect("]")>>
  <2>1. LateWork(v) /\ Late(Build("init", current, Base)) /\ v # <<>>
    BY <1>1, <1>2, <1>4, <1>7, LateTwo, OneSided, Zenon
  <2>2. v \o <<Build("init", current, Base), Led(Arg(1))>> =
          <<Items("positional", "]"), Expect("]"), Build("init", current, Base), Led(Arg(1))>>
    BY JoinedFour, Zenon
  <2>3. Doing("expr") /\ Step(Forward(current), FALSE, nodes, v \o <<Build("init", current, Base), Led(Arg(1))>>)
    BY <1>13, <2>2, Zenon DEF ParseArray, Goes
  <2> HIDE DEF v
  <2> QED BY <1>1, <1>5, <1>6, <2>1, <2>3, LedBuilds, Zenon
<1>14. CASE NotAnExpr
  BY <1>14, ReportedStep, Zenon DEF NotAnExpr
<1> QED BY <1>8, <1>9, <1>10, <1>11, <1>12, <1>13, <1>14

(* What goes on with one, but for an operator. *)
LEMMA LevelPostfix ==
  ASSUME Grading, ParseMember \/ ParseCall \/ ParseIndex
  PROVE  LevelsInv'
<1>1. /\ Ahead(current) /\ "led" \in {"expr", "led"} /\ Doing("led")
      /\ \A c : Ahead(c) => Ahead(Forward(c))
  BY AheadFacts, Zenon DEF ParseMember, ParseCall, ParseIndex
<1>2. \A c : Ahead(c) => \A n, b : n # "binary" => Late(Build(n, c, b)) /\ LateNode(Node(n, c, b))
  BY AheadFacts, Zenon
<1>3. /\ LastBase \in Nat /\ \A n, at : Node(n, at, LastBase + 1).from - 1 = LastBase
  <2>1. LastBase \in Nat
    BY <1>1, HeadStart, Zenon
  <2> QED BY <2>1 DEF Node
<1>4. Late(Expr(0)) /\ Late(Expect(")")) /\ Late(Expect("]")) /\ \A f, t : Late(Items(f, t))
  BY LateTasks, Zenon
<1>5. \A l \in Nat : HeadStarts(nodes, todo[1], l) => l = LastBase
  BY <1>1, HeadStart, Zenon
<1>6. \A n, at : IsBuild(Build(n, at, LastBase)) /\ BaseOf(Build(n, at, LastBase)) = LastBase
  BY LedTasks, Zenon
<1>7. \A x, y : <<x, y>> # <<>> /\ \A s, t : <<x, y>> \o <<s, t>> = <<x, y, s, t>>
  BY TuplesJoined, Zenon
<1>8. CASE ParseMember
  <2> DEFINE c == Forward(current)
  <2>1. Ahead(c) /\ Ahead(Forward(c))
    BY <1>1, Zenon
  <2>2. CASE tokens[c] = "name"
    <3>1. Step(Forward(c), FALSE, Around("member", c), <<Led(Arg(1))>>)
      BY <1>8, <2>2, Zenon DEF ParseMember
    <3>2. LateNode(Node("member", c, LastBase + 1))
      BY <1>2, <2>1, OneSided, Zenon
    <3> QED BY <1>1, <1>3, <1>5, <2>1, <3>1, <3>2, LedOne, Zenon DEF Around
  <2>3. CASE tokens[c] # "name"
    BY <1>8, <2>3, ReportedStep, Zenon DEF ParseMember
  <2> QED BY <2>2, <2>3
<1>9. CASE ParseCall
  <2> DEFINE v == <<Items("args", ")"), Expect(")")>>
  <2>1. LateWork(v) /\ Late(Build("call", current, LastBase)) /\ v # <<>>
    BY <1>1, <1>2, <1>4, <1>7, LateTwo, OneSided, Zenon
  <2>2. Step(Forward(current), FALSE, nodes, v \o <<Build("call", current, LastBase), Led(Arg(1))>>)
    BY <1>7, <1>9, Zenon DEF ParseCall, Goes
  <2> HIDE DEF v
  <2> QED BY <1>1, <1>5, <1>6, <2>1, <2>2, LedBuilds, Zenon
<1>10. CASE ParseIndex
  <2> DEFINE c == Forward(current)
             v == <<Expr(0), Expect("]")>>
  <2>1. Ahead(c)
    BY <1>1, Zenon
  <2>2. CASE tokens[c] = "]"
    BY <1>10, <2>2, ReportedStep, Zenon DEF ParseIndex
  <2>3. CASE tokens[c] # "]"
    <3>1. LateWork(v) /\ Late(Build("index", current, LastBase)) /\ v # <<>>
      BY <1>1, <1>2, <1>4, <1>7, LateTwo, OneSided, Zenon
    <3>2. Step(c, FALSE, nodes, v \o <<Build("index", current, LastBase), Led(Arg(1))>>)
      BY <1>7, <1>10, <2>3, Zenon DEF ParseIndex, Goes
    <3> HIDE DEF v
    <3> QED BY <1>1, <1>5, <1>6, <2>1, <3>1, <3>2, LedBuilds, Zenon
  <2> QED BY <2>2, <2>3
<1> QED BY <1>8, <1>9, <1>10

(* An operator: its left operand is there, and fits. *)
LEMMA LevelInfix ==
  ASSUME Grading, ParseInfix
  PROVE  LevelsInv'
<1>1. IInv /\ Doing("led")
  BY Zenon DEF Grading, ParseInfix
<1>2. /\ todo # <<>> /\ Head(todo) = todo[1] /\ todo[1][1] = "led" /\ nodes # <<>> /\ LastBase \in Nat
  BY <1>1, HeadFacts, OnTreeHead, Zenon
<1>3. Arg(1) = todo[1][2]
  BY <1>2, ArgsOf, Zenon
<1>4. PICK e, b, d : e = Expr(Prec(Cur) + 1) /\ b = Build("binary", current, LastBase) /\ d = Led(Arg(1))
  OBVIOUS
<1>5. PICK c : c = Forward(current)
  OBVIOUS
<1>6. PICK w : w = <<e, b, d>>
  OBVIOUS
<1>7. Step(c, FALSE, nodes, w) /\ GoesOn(Cur, Arg(1)) /\ Cur \notin Postfix
  BY <1>4, <1>5, <1>6, Zenon DEF ParseInfix, Goes
<1>8. Len(w) = 3 /\ w[1] = e /\ w[2] = b /\ w[3] = d
  BY <1>6
<1>9. Work(w)
  <2>1. w \in Seq({e, b, d})
    BY <1>6
  <2> QED BY <2>1 DEF Work
<1>10. /\ IsExpr(e) /\ e[2] = Prec(Cur) + 1 /\ ~HasBase(e) /\ ~IsLed(e) /\ ~IsBinary(e)
       /\ IsBinary(b) /\ ~IsLed(b) /\ PosOf(b) = current /\ BaseOf(b) = LastBase
       /\ ~InGroup(b) /\ AroundLed(b) /\ IsBuild(b)
       /\ IsLed(d) /\ d[2] = todo[1][2]
  <2>1. IsExpr(e) /\ e[2] = Prec(Cur) + 1 /\ ~HasBase(e) /\ ~IsLed(e) /\ ~IsBinary(e)
    BY <1>4, LedTasks, Zenon
  <2>2. /\ IsBinary(b) /\ ~IsLed(b) /\ PosOf(b) = current /\ BaseOf(b) = LastBase
        /\ ~InGroup(b) /\ AroundLed(b) /\ IsBuild(b)
    BY <1>4, LedTasks, Zenon
  <2>3. IsLed(d) /\ d[2] = todo[1][2]
    BY <1>3, <1>4, LedTasks, Zenon
  <2> QED BY <2>1, <2>2, <2>3
<1>11. /\ Ahead(current) /\ Ahead(c) /\ AfterOps(current)
  BY <1>5, AheadFacts, Zenon
<1>12. /\ nodes \in Seq(NodeSet) /\ Len(nodes) \in Nat /\ DOMAIN nodes = 1 .. Len(nodes)
       /\ todo \in Seq(Tasks) /\ Leveled(tokens, nodes) /\ Ready(tokens, current, nodes, todo)
       /\ current \in Nat /\ current \in Positions /\ tokens \in Programs
  BY GradingFacts
<1>13. PICK new : new = {}
  OBVIOUS
<1>14. Grown(nodes, nodes, new) /\ \A n \in new : AfterOps(n.at)
  BY <1>12, <1>13, GrownFacts
<1>15. Prec(Cur) >= 0 /\ Prec(Cur) \in Int
  <2>1. Prec(Cur) \in Int
    BY PrecValues
  <2>2. ASSUME Prec(Cur) < 0 PROVE FALSE
    <3>1. ~(Prec(Cur) >= 0)
      BY <2>1, <2>2
    <3>2. GoesOn(Cur, Arg(1)) <=> Cur \in Postfix
      BY <2>2, <3>1, Zenon DEF GoesOn
    <3> QED BY <1>7, <3>2
  <2> QED BY <2>1, <2>2
<1>16. c = current + 1
  <2>1. Cur # "EOF"
    BY <1>15 DEF Prec
  <2>2. current # Len(tokens)
    BY <1>12, <2>1, ProgramsAssumption, TokenFacts DEF Cur, Positions
  <2> QED BY <1>5, <1>12, <2>2, TokenFacts DEF Forward, Positions
<1>17. PICK r : r = w \o Tail(todo)
  OBVIOUS
<1>18. Joins(w, todo, r)
  BY <1>2, <1>9, <1>12, <1>17, JoinFacts
<1>19. /\ r[1] = e /\ r[2] = b /\ r[3] = d /\ 3 \in DOMAIN r
  <2>1. \A m \in 1 .. Len(w) : m \in DOMAIN r /\ r[m] = w[m]
    BY <1>18, JoinPlaces
  <2>2. 1 \in 1 .. Len(w) /\ 2 \in 1 .. Len(w) /\ 3 \in 1 .. Len(w)
    BY <1>8
  <2> QED BY <1>8, <2>1, <2>2
<1>20. \A l \in Nat : HeadStarts(nodes, todo[1], l) => l = LastBase
  BY <1>1, HeadStart, Zenon
<1>21. \A l \in Nat : HeadStarts(nodes, todo[1], l) => GoesOnAtStart(nodes, w, l)
  BY <1>8, <1>10, <1>20 DEF GoesOnAtStart
<1>22. LeftReady(tokens, nodes, b, Len(nodes))
  <2> DEFINE l == Len(nodes)
  <2>1. l \in DOMAIN nodes /\ LastBase < l
    <3>1. l \in DOMAIN nodes
      BY <1>2, <1>12
    <3>2. nodes[l].from \in 1 .. l
      BY <1>1, <3>1 DEF IInv, Sound
    <3> QED BY <1>12, <3>1, <3>2 DEF LastBase, Base
  <2>2. \A k \in DOMAIN nodes : ~(l < k)
    BY <1>12
  <2>3. ASSUME nodes[l].node = "binary"
        PROVE  Prec(tokens[nodes[l].at]) >= Prec(tokens[current]) - 1 \/ CloseParen(tokens[current - 1])
    <3>1. Prec(tokens[nodes[l].at]) >= 0
      BY <1>12, <2>1, <2>3 DEF Leveled, Level
    <3>2. LedReady(tokens, current, nodes, todo)
      <4>1. 1 \in DOMAIN todo /\ IsLed(todo[1])
        BY <1>2, <1>12 DEF IsLed
      <4> QED BY <1>12, <4>1 DEF Ready
    <3>3. CASE ~GoesOn(tokens[current], Prec(tokens[nodes[l].at]) + 1)
      BY <1>15, <3>1, <3>3, NotLooser DEF Cur
    <3>4. CASE CloseParen(tokens[current - 1])
      BY <3>4
    <3> QED BY <2>3, <3>2, <3>3, <3>4 DEF LedReady
  <2>4. LeftFits(tokens, nodes, PosOf(b), l)
    BY <1>10, <2>3 DEF LeftFits
  <2> QED BY <1>10, <2>1, <2>2, <2>4 DEF LeftReady
<1>23. Operator(tokens, nodes, r, 2)
  <2>1. Starts(nodes, r, 2 - 1, Len(nodes))
    <3>1. StartsAt(nodes, r, 1, Len(nodes))
      BY <1>10, <1>19 DEF StartsAt, HeadStarts
    <3>2. Links(r, 1 + 1, 2 - 1) /\ 1 \in 1 .. 2 - 1
      BY DEF Links
    <3> QED BY <3>1, <3>2 DEF Starts
  <2>2. 2 + 1 = 3 /\ Len(nodes) \in Nat
    BY <1>12
  <2>3. GoesOn(tokens[PosOf(b)], d[2]) /\ Prec(tokens[PosOf(b)]) >= 0
    BY <1>3, <1>7, <1>10, <1>15 DEF Cur
  <2> QED BY <1>10, <1>19, <1>22, <2>1, <2>2, <2>3 DEF Operator
<1>24. Surrounded(tokens, c, r, 2)
  <2>1. 2 - 1 = 1 /\ ~(2 > 2)
    OBVIOUS
  <2> QED BY <1>10, <1>16, <1>19, <2>1 DEF Surrounded, Cur
<1>25. \A i \in 1 .. Len(w) - 1 : ~IsLed(w[i]) /\ (HasBase(w[i]) => AfterOps(PosOf(w[i])))
  <2>1. \A i \in 1 .. Len(w) - 1 : i = 1 \/ i = 2
    BY <1>8
  <2> QED BY <1>8, <1>10, <1>11, <2>1
<1>26. \A i \in 1 .. Len(w) - 1 :
         IsBinary(w[i]) => /\ Operator(tokens, nodes, r, i) /\ PosOf(w[i]) < c
                           /\ \A j \in 1 .. i - 1 : ~HasBase(w[j])
                           /\ i > 1 /\ Surrounded(tokens, c, r, i)
  <2>1. \A i \in 1 .. Len(w) - 1 : i = 1 \/ i = 2
    BY <1>8
  <2>2. \A j \in 1 .. 2 - 1 : j = 1
    OBVIOUS
  <2>3. current < c
    BY <1>12, <1>16
  <2> QED BY <1>8, <1>10, <1>23, <1>24, <2>1, <2>2, <2>3
<1>27. /\ Len(w) > 1 => /\ AroundLed(w[Len(w) - 1])
                        /\ InGroup(w[Len(w) - 1]) => "led" = "expr" /\ OpenParen(Cur)
       /\ Len(w) = 1 => LedReady(tokens, c, nodes, r)
       /\ Len(w) \in Nat /\ Len(w) > 0 /\ IsLed(w[Len(w)]) /\ w[Len(w)][2] = todo[1][2]
  BY <1>8, <1>10
<1>28. "led" \in {"expr", "led"}
  OBVIOUS
<1> QED BY ONLY Grading, <1>1, <1>7, <1>9, <1>11, <1>12, <1>14, <1>17, <1>21, <1>25, <1>26, <1>27,
                <1>28, LedStep

(* A group, or what may be a cast. *)
LEMMA LedGroup ==
  ASSUME Grading, Doing("expr"), OpenParen(Cur), NEW c, Ahead(c), NEW x, NEW y,
         ~IsLed(x), ~HasBase(x), ~IsBinary(x), ~IsLed(y), ~IsBinary(y), AroundLed(y),
         HasBase(y) => AfterOps(PosOf(y)),
         (IsCast(y) /\ BaseOf(y) = Base) \/ (IsExpr(x) /\ IsExpect(y)),
         Step(c, FALSE, nodes, <<x, y, Led(Arg(1))>>)
  PROVE  LevelsInv'
<1>1. /\ nodes \in Seq(NodeSet) /\ Len(nodes) \in Nat /\ Leveled(tokens, nodes)
  BY GradingFacts
<1>2. PICK new : new = {}
  OBVIOUS
<1>3. Grown(nodes, nodes, new) /\ \A n \in new : AfterOps(n.at)
  BY <1>1, <1>2, GrownFacts
<1>4. PICK d : d = Led(Arg(1))
  OBVIOUS
<1>5. IsLed(d) /\ d[2] = todo[1][2]
  <2>1. IInv
    BY Zenon DEF Grading
  <2>2. Head(todo) = todo[1]
    BY <2>1, HeadFacts, Zenon
  <2>3. Arg(1) = todo[1][2]
    BY <2>2, ArgsOf, Zenon
  <2> QED BY <1>4, <2>3, LedTasks, Zenon
<1>6. PICK w : w = <<x, y, d>>
  OBVIOUS
<1>7. Step(c, FALSE, nodes, w)
  BY <1>4, <1>6, Zenon
<1>8. Len(w) = 3 /\ w[1] = x /\ w[2] = y /\ w[3] = d
  BY <1>6
<1>9. Work(w)
  <2>1. w \in Seq({x, y, d})
    BY <1>6
  <2> QED BY <2>1 DEF Work
<1>10. PICK r : r = w \o Tail(todo)
  OBVIOUS
<1>11. \A l \in Nat : HeadStarts(nodes, todo[1], l) => l = Len(nodes)
  BY HeadStart, Zenon DEF Base
<1>12. \A l \in Nat : HeadStarts(nodes, todo[1], l) => GoesOnAtStart(nodes, w, l)
  <2>1. Len(w) - 1 = 2 /\ Len(w) > 2
    BY <1>8
  <2>2. CASE IsCast(y) /\ BaseOf(y) = Base
    BY <1>8, <1>11, <2>1, <2>2 DEF GoesOnAtStart, Base
  <2>3. CASE IsExpr(x) /\ IsExpect(y)
    BY <1>8, <1>11, <2>1, <2>3 DEF GoesOnAtStart
  <2> QED BY <2>2, <2>3
<1>13. \A i \in 1 .. Len(w) - 1 : i = 1 \/ i = 2
  BY <1>8
<1>14. \A i \in 1 .. Len(w) - 1 : ~IsLed(w[i]) /\ (HasBase(w[i]) => AfterOps(PosOf(w[i])))
  BY <1>8, <1>13
<1>15. \A i \in 1 .. Len(w) - 1 :
         IsBinary(w[i]) => /\ Operator(tokens, nodes, r, i) /\ PosOf(w[i]) < c
                           /\ \A j \in 1 .. i - 1 : ~HasBase(w[j])
                           /\ i > 1 /\ Surrounded(tokens, c, r, i)
  BY <1>8, <1>13
<1>16. /\ Len(w) > 1 => /\ AroundLed(w[Len(w) - 1])
                        /\ InGroup(w[Len(w) - 1]) => "expr" = "expr" /\ OpenParen(Cur)
       /\ Len(w) = 1 => LedReady(tokens, c, nodes, r)
       /\ Len(w) \in Nat /\ Len(w) > 0 /\ IsLed(w[Len(w)]) /\ w[Len(w)][2] = todo[1][2]
  BY <1>5, <1>8
<1>17. "expr" \in {"expr", "led"}
  OBVIOUS
<1> QED BY ONLY Grading, Doing("expr"), Ahead(c), <1>1, <1>3, <1>7, <1>9, <1>10, <1>12, <1>14, <1>15,
                <1>16, <1>17, LedStep

LEMMA LevelGroup ==
  ASSUME Grading, ParseGroupOrCast
  PROVE  LevelsInv'
<1>1. Doing("expr") /\ OpenParen(Cur)
  BY Zenon DEF ParseGroupOrCast, OpenParen
<1>2. PICK c : c = Forward(current)
  OBVIOUS
<1>3. Ahead(c) /\ AfterOps(c)
  BY <1>2, AheadFacts, Zenon
<1>4. CASE CanBeType(tokens[c])
  <2>1. Step(c, FALSE, nodes, <<Type, CastOrGroup(c, Base), Led(Arg(1))>>)
    BY <1>2, <1>4, Zenon DEF ParseGroupOrCast, Goes
  <2>2. ~IsLed(Type) /\ ~HasBase(Type) /\ ~IsBinary(Type)
    BY LedTasks, Zenon
  <2>3. PICK y : y = CastOrGroup(c, Base)
    OBVIOUS
  <2>4. /\ ~IsLed(y) /\ ~IsBinary(y) /\ AroundLed(y) /\ PosOf(y) = c
        /\ IsCast(y) /\ BaseOf(y) = Base
    BY <2>3, LedTasks, Zenon
  <2>5. HasBase(y) => AfterOps(PosOf(y))
    BY <1>3, <2>4, Zenon
  <2>6. Step(c, FALSE, nodes, <<Type, y, Led(Arg(1))>>)
    BY <2>1, <2>3, Zenon
  <2> QED BY ONLY Grading, <1>1, <1>3, <2>2, <2>4, <2>5, <2>6, LedGroup, Zenon
<1>5. CASE ~CanBeType(tokens[c])
  <2>1. Step(c, FALSE, nodes, <<Expr(0), Expect(")"), Led(Arg(1))>>)
    BY <1>2, <1>5, Zenon DEF ParseGroupOrCast, Goes
  <2>2. ~IsLed(Expr(0)) /\ ~HasBase(Expr(0)) /\ ~IsBinary(Expr(0)) /\ IsExpr(Expr(0))
    BY LedTasks, Zenon
  <2>3. PICK y : y = Expect(")")
    OBVIOUS
  <2>4. ~IsLed(y) /\ ~IsBinary(y) /\ IsExpect(y) /\ ~HasBase(y) /\ y[2] = ")"
    BY <2>3, LedTasks, Zenon
  <2>5. AroundLed(y)
    BY <2>4, Zenon DEF AroundLed, CloseParen
  <2>6. Step(c, FALSE, nodes, <<Expr(0), y, Led(Arg(1))>>)
    BY <2>1, <2>3, Zenon
  <2> QED BY ONLY Grading, <1>1, <1>3, <2>2, <2>4, <2>5, <2>6, LedGroup, Zenon
<1> QED BY <1>4, <1>5

(* It is a cast. *)
LEMMA LevelCast ==
  ASSUME Grading, Doing("cast"), NEW c, Ahead(c),
         Step(c, FALSE, nodes, <<Expr(0), Build("cast", Arg(1), Arg(2))>>)
  PROVE  LevelsInv'
<1>1. IInv /\ todo # <<>> /\ Head(todo) = todo[1] /\ todo[1][1] = "cast"
  <2>1. IInv
    BY Zenon DEF Grading
  <2> QED BY <2>1, HeadFacts, Zenon
<1>2. IsCast(todo[1]) /\ HasBase(todo[1]) /\ PosOf(todo[1]) = Arg(1) /\ BaseOf(todo[1]) = Arg(2)
  <2>1. todo[1][1] # "build"
    BY <1>1
  <2> QED BY <1>1, <2>1, ArgsOf, Zenon DEF IsCast, HasBase, PosOf, BaseOf
<1>3. /\ nodes \in Seq(NodeSet) /\ Leveled(tokens, nodes) /\ todo \in Seq(Tasks)
      /\ Len(todo) \in Nat /\ DOMAIN todo = 1 .. Len(todo)
  BY GradingFacts
<1>4. PICK new : new = {}
  OBVIOUS
<1>5. Grown(nodes, nodes, new) /\ \A n \in new : AfterOps(n.at)
  BY <1>3, <1>4, GrownFacts
<1>6. PICK e, d : e = Expr(0) /\ d = Build("cast", Arg(1), Arg(2))
  OBVIOUS
<1>7. /\ IsExpr(e) /\ ~HasBase(e) /\ ~IsLed(e) /\ ~IsBinary(e)
      /\ IsBuild(d) /\ HasBase(d) /\ ~IsLed(d) /\ ~IsBinary(d) /\ ~InGroup(d) /\ AroundLed(d)
      /\ PosOf(d) = PosOf(todo[1]) /\ BaseOf(d) = BaseOf(todo[1])
  <2>1. IsExpr(e) /\ ~HasBase(e) /\ ~IsLed(e) /\ ~IsBinary(e)
    BY <1>6, LedTasks, Zenon
  <2>2. ~IsBinary(d)
    <3>1. IsBinary(d) <=> "cast" = "binary"
      BY <1>6, LedTasks, Zenon
    <3> QED BY <3>1
  <2>3. /\ IsBuild(d) /\ HasBase(d) /\ ~IsLed(d) /\ ~InGroup(d) /\ AroundLed(d)
        /\ PosOf(d) = Arg(1) /\ BaseOf(d) = Arg(2)
    BY <1>6, LedTasks, Zenon
  <2>4. PosOf(d) = PosOf(todo[1]) /\ BaseOf(d) = BaseOf(todo[1])
    BY <1>2, <2>3, Zenon
  <2> QED BY <2>1, <2>2, <2>3, <2>4
<1>8. PICK w : w = <<e, d>>
  OBVIOUS
<1>9. Step(c, FALSE, nodes, w)
  BY <1>6, <1>8, Zenon
<1>10. Len(w) = 2 /\ w[1] = e /\ w[2] = d /\ w # <<>>
  BY <1>8
<1>11. Work(w)
  <2>1. w \in Seq({e, d})
    BY <1>8
  <2> QED BY <2>1 DEF Work
<1>12. PICK r : r = w \o Tail(todo)
  OBVIOUS
<1>13. Joins(w, todo, r)
  BY <1>1, <1>3, <1>11, <1>12, JoinFacts
<1>14. r[1] = e /\ r[2] = d
  <2>1. \A m \in 1 .. Len(w) : r[m] = w[m]
    BY <1>13, JoinPlaces
  <2>2. 1 \in 1 .. Len(w) /\ 2 \in 1 .. Len(w)
    BY <1>10
  <2> QED BY <1>10, <2>1, <2>2
<1>15. HandsOver(nodes, nodes, todo, w)
  <2> SUFFICES ASSUME NEW l \in Nat, HeadStarts(nodes, todo[1], l) PROVE Starts(nodes, w, 2, l)
    BY <1>10 DEF HandsOver
  <2>1. l = BaseOf(d)
    BY <1>2, <1>7, KindsApart DEF HeadStarts
  <2>2. StartsAt(nodes, w, 2, l)
    BY <1>7, <1>10, <2>1 DEF StartsAt
  <2>3. Links(w, 2 + 1, 2) /\ 2 \in 1 .. 2
    BY DEF Links
  <2> QED BY <2>2, <2>3 DEF Starts
<1>16. \A m \in 1 .. Len(w) : m = 1 \/ m = 2
  BY <1>10
<1>17. \A m \in 1 .. Len(w) : HasBase(w[m]) => AfterOps(PosOf(w[m]))
  <2>1. AfterOps(PosOf(todo[1]))
    BY <1>1, <1>2, Later
  <2> QED BY <1>7, <1>10, <1>16, <2>1
<1>18. \A m \in 1 .. Len(w) :
         IsBinary(w[m]) => /\ Operator(tokens, nodes, r, m) /\ PosOf(w[m]) < c
                           /\ \A i \in 1 .. m - 1 : ~HasBase(w[i])
  BY <1>7, <1>10, <1>16
<1>19. ASSUME NEW m \in 2 .. Len(w) + 1, m \in DOMAIN r PROVE Surrounded(tokens, c, r, m)
  <2>1. m = 2 \/ m = 3
    BY <1>10
  <2>2. CASE m = 2
    BY <1>7, <1>14, <2>2 DEF Surrounded
  <2>3. CASE m = 3
    <3>1. 2 \in DOMAIN todo /\ r[3] = todo[2]
      <4>1. Len(r) = Len(w) + Len(todo) - 1 /\ DOMAIN r = 1 .. Len(r)
            /\ \A j \in 2 .. Len(todo) : r[Len(w) + j - 1] = todo[j]
        BY <1>13, JoinPlaces
      <4>2. 2 \in 2 .. Len(todo)
        BY <1>3, <1>10, <1>19, <2>3, <4>1
      <4> QED BY <1>3, <1>10, <4>1, <4>2
    <3>2. ~IsBinary(todo[2])
      BY <1>1, <1>2, <3>1, AroundHead, KindsApart
    <3>3. 3 - 1 = 2
      OBVIOUS
    <3> QED BY <1>7, <1>14, <2>3, <3>1, <3>2, <3>3 DEF Surrounded
  <2> QED BY <2>1, <2>2, <2>3
<1>20. Ready(tokens, c, nodes, r)
  BY <1>7, <1>14 DEF Ready
<1>21. 3 \in DOMAIN todo /\ IsBinary(todo[3]) /\ Len(w) > 0 /\ InGroup(w[Len(w)]) =>
         OpenParen(tokens[PosOf(todo[3]) + 1])
  BY <1>7, <1>10
<1>22. c \in Positions /\ current <= c
  BY DEF Ahead
<1> QED BY ONLY Grading, <1>1, <1>3, <1>5, <1>9, <1>11, <1>12, <1>15, <1>17, <1>18, <1>19, <1>20, <1>21,
                <1>22, GradedStep

(* What is left when the nodes after a place are taken back. *)
LEMMA LeveledBelow ==
  ASSUME NEW p, NEW tree, NEW less, Sound(tree), Leveled(p, tree),
         NEW a \in Nat, NEW b \in Nat, b <= a, DOMAIN tree = 1 .. a, DOMAIN less = 1 .. b,
         \A k \in 1 .. b : less[k] = tree[k]
  PROVE  Leveled(p, less)
<1> SUFFICES ASSUME NEW k \in 1 .. b, less[k].node = "binary" PROVE Level(p, less, k)
  BY DEF Leveled
<1>1. k \in 1 .. a /\ less[k] = tree[k]
  OBVIOUS
<1>2. Level(p, tree, k)
  BY <1>1 DEF Leveled
<1>3. k - 1 \in 1 .. a /\ tree[k - 1].from - 1 \in 1 .. a
  BY <1>2 DEF Level
<1>4. tree[k - 1].from \in 1 .. k - 1
  BY <1>3 DEF Sound
<1>5. k - 1 \in 1 .. b /\ less[k - 1] = tree[k - 1]
  BY <1>3
<1>6. tree[k - 1].from - 1 \in 1 .. b
  BY <1>3, <1>4
<1>7. less[tree[k - 1].from - 1] = tree[tree[k - 1].from - 1]
  BY <1>6
<1> QED BY <1>1, <1>2, <1>5, <1>6, <1>7 DEF Level, LeftFits, RightFits

(* The tree around a call that may have been a cast began before it. *)
LEMMA StartsBelow ==
  ASSUME Grading, todo # <<>>, IsCast(todo[1]), NEW i \in 1 .. Len(todo), NEW l \in Nat,
         Starts(nodes, todo, i, l)
  PROVE  l <= BaseOf(todo[1])
<1>1. DOMAIN todo = 1 .. Len(todo) /\ Len(todo) \in Nat /\ Typed(todo)
  BY GradingFacts
<1>2. BasesHold(nodes, todo)
  BY Zenon DEF Grading, IInv
<1>3. PICK j \in 1 .. i : StartsAt(nodes, todo, j, l)
  BY DEF Starts
<1>4. j \in DOMAIN todo /\ 1 \in DOMAIN todo /\ HasBase(todo[1])
  BY <1>1, KindsApart
<1>5. BaseOf(todo[1]) \in Nat
  BY <1>1, <1>4 DEF Typed
<1>6. CASE j = 1
  <2>1. l = BaseOf(todo[1])
    BY <1>3, <1>6, KindsApart DEF StartsAt, HeadStarts
  <2> QED BY <1>5, <2>1
<1>7. CASE j > 1
  <2>1. l = BaseOf(todo[j]) /\ HasBase(todo[j])
    BY <1>3, <1>7, KindsApart DEF StartsAt
  <2> QED BY <1>2, <1>4, <1>7, <2>1 DEF BasesHold
<1> QED BY <1>1, <1>6, <1>7

(* It is a group: back to where it began. *)
LEMMA LevelBack ==
  ASSUME Grading, Doing("cast"), Step(Arg(1), FALSE, Below(Arg(2)), <<Expr(0), Expect(")")>>)
  PROVE  LevelsInv'
<1>1. IInv /\ todo # <<>> /\ Head(todo) = todo[1] /\ todo[1][1] = "cast"
  <2>1. IInv
    BY Zenon DEF Grading
  <2> QED BY <2>1, HeadFacts, Zenon
<1>2. IsCast(todo[1]) /\ HasBase(todo[1]) /\ PosOf(todo[1]) = Arg(1) /\ BaseOf(todo[1]) = Arg(2)
  <2>1. todo[1][1] # "build"
    BY <1>1
  <2> QED BY <1>1, <2>1, ArgsOf, Zenon DEF IsCast, HasBase, PosOf, BaseOf
<1>3. /\ nodes \in Seq(NodeSet) /\ Leveled(tokens, nodes) /\ todo \in Seq(Tasks)
      /\ Len(todo) \in Nat /\ DOMAIN todo = 1 .. Len(todo)
      /\ Len(nodes) \in Nat /\ DOMAIN nodes = 1 .. Len(nodes)
      /\ Waiting(tokens, nodes, todo) /\ Nested(tokens, current, todo) /\ InOrder(current, todo)
  BY GradingFacts
<1>4. PICK a, b : a = Arg(1) /\ b = Arg(2)
  OBVIOUS
<1>5. 1 \in DOMAIN todo /\ b \in 0 .. Len(nodes) /\ AfterOps(a) /\ a = PosOf(todo[1]) /\ b = BaseOf(todo[1])
  <2>1. 1 \in DOMAIN todo
    BY <1>1, <1>3
  <2>2. Boundary(nodes, BaseOf(todo[1]))
    BY <1>1, <1>2, <2>1 DEF IInv, BasesHold
  <2>3. AfterOps(PosOf(todo[1]))
    BY <1>1, <1>2, Later
  <2> QED BY <1>2, <1>4, <2>1, <2>2, <2>3 DEF Boundary
<1>6. PICK tree : tree = Below(b)
  OBVIOUS
<1>7. Len(tree) = b /\ DOMAIN tree = 1 .. b /\ \A k \in 1 .. b : tree[k] = nodes[k] /\ k \in DOMAIN nodes
  BY <1>3, <1>5, <1>6 DEF Below
<1>8. PICK e, d : e = Expr(0) /\ d = Expect(")")
  OBVIOUS
<1>9. /\ IsExpr(e) /\ ~HasBase(e) /\ ~IsLed(e) /\ ~IsBinary(e)
      /\ IsExpect(d) /\ ~HasBase(d) /\ ~IsLed(d) /\ ~IsBinary(d) /\ AroundLed(d)
  <2>1. IsExpr(e) /\ ~HasBase(e) /\ ~IsLed(e) /\ ~IsBinary(e)
    BY <1>8, LedTasks, Zenon
  <2>2. IsExpect(d) /\ ~HasBase(d) /\ ~IsLed(d) /\ ~IsBinary(d) /\ d[2] = ")"
    BY <1>8, LedTasks, Zenon
  <2>3. AroundLed(d)
    BY <2>2, Zenon DEF AroundLed, CloseParen
  <2> QED BY <2>1, <2>2, <2>3, Zenon
<1>10. PICK w : w = <<e, d>>
  OBVIOUS
<1>11. Step(a, FALSE, tree, w)
  BY <1>4, <1>6, <1>8, <1>10, Zenon
<1>12. Len(w) = 2 /\ w[1] = e /\ w[2] = d /\ w # <<>>
  BY <1>10
<1>13. Work(w)
  <2>1. w \in Seq({e, d})
    BY <1>10
  <2> QED BY <2>1 DEF Work
<1>14. PICK r : r = w \o Tail(todo)
  OBVIOUS
<1>15. Joins(w, todo, r)
  BY <1>1, <1>3, <1>13, <1>14, JoinFacts
<1>16. /\ r[1] = e /\ r[2] = d
       /\ DOMAIN r = 1 .. Len(todo) + 1
       /\ \A m \in DOMAIN r : m > 2 => m - 1 \in 2 .. Len(todo) /\ r[m] = todo[m - 1]
       /\ \A j \in 2 .. Len(todo) : j + 1 \in DOMAIN r /\ r[j + 1] = todo[j]
  <2>1. /\ Len(r) = Len(w) + Len(todo) - 1 /\ DOMAIN r = 1 .. Len(r)
        /\ \A m \in 1 .. Len(w) : r[m] = w[m]
        /\ \A m \in 1 .. Len(r) : m > Len(w) => \E j \in 2 .. Len(todo) : m = Len(w) + j - 1 /\ r[m] = todo[j]
        /\ \A j \in 2 .. Len(todo) : Len(w) + j - 1 \in 1 .. Len(r) /\ r[Len(w) + j - 1] = todo[j]
    BY <1>15, JoinPlaces
  <2>2. 1 \in 1 .. Len(w) /\ 2 \in 1 .. Len(w)
    BY <1>12
  <2>3. r[1] = e /\ r[2] = d
    BY <1>12, <2>1, <2>2
  <2>4. DOMAIN r = 1 .. Len(todo) + 1
    BY <1>3, <1>12, <2>1
  <2>5. ASSUME NEW m \in DOMAIN r, m > 2 PROVE m - 1 \in 2 .. Len(todo) /\ r[m] = todo[m - 1]
    <3>1. PICK j \in 2 .. Len(todo) : m = Len(w) + j - 1 /\ r[m] = todo[j]
      BY <1>12, <2>1, <2>5
    <3>2. j = m - 1
      BY <1>12, <3>1
    <3> QED BY <3>1, <3>2
  <2>6. \A j \in 2 .. Len(todo) : Len(w) + j - 1 = j + 1
    BY <1>12
  <2> QED BY <2>1, <2>3, <2>4, <2>5, <2>6
<1>17. Leveled(tokens, tree)
  <2>1. Sound(nodes) /\ b \in Nat /\ b <= Len(nodes)
    BY <1>1, <1>5 DEF IInv
  <2> QED BY <1>3, <1>7, <2>1, LeveledBelow
<1>18. HandsOver(nodes, tree, todo, w)
  <2> SUFFICES ASSUME NEW l \in Nat, HeadStarts(nodes, todo[1], l) PROVE Starts(tree, w, 2, l)
    BY <1>12 DEF HandsOver
  <2>1. l = Len(tree)
    BY <1>2, <1>5, <1>7, KindsApart DEF HeadStarts
  <2>2. StartsAt(tree, w, 1, l)
    BY <1>9, <1>12, <2>1 DEF StartsAt, HeadStarts
  <2>3. Links(w, 1 + 1, 2) /\ 1 \in 1 .. 2
    <3>1. \A k \in 1 + 1 .. 2 : k = 2
      OBVIOUS
    <3> QED BY <1>9, <1>12, <3>1 DEF Links
  <2> QED BY <2>2, <2>3 DEF Starts
<1>19. Waiting(tokens, tree, r)
  <2> SUFFICES ASSUME NEW m \in DOMAIN r, IsBinary(r[m]) PROVE Operator(tokens, tree, r, m)
    BY DEF Waiting
  <2>1. m > 2
    BY <1>9, <1>16
  <2>2. PICK j \in 2 .. Len(todo) : j = m - 1 /\ r[m] = todo[j]
    BY <1>16, <2>1
  <2>3. j \in DOMAIN todo /\ m = j + 1 /\ j > 1
    BY <1>3, <1>16, <2>2
  <2>4. Operator(tokens, nodes, todo, j)
    BY <1>3, <2>2, <2>3 DEF Waiting
  <2>5. j + 1 \in 2 .. Len(todo)
    BY <1>3, <2>3, <2>4 DEF Operator
  <2>6. m + 1 \in DOMAIN r /\ r[m + 1] = todo[j + 1]
    BY <1>16, <2>3, <2>5
  <2>7. PICK l \in Nat : Starts(nodes, todo, j - 1, l) /\ LeftReady(tokens, nodes, todo[j], l)
    BY <2>3, <2>4 DEF Operator
  <2>8. j - 1 \in 1 .. Len(todo) /\ Len(w) + (j - 1) - 1 = m - 1
    BY <1>3, <1>12, <2>2, <2>3
  <2>9. Starts(tree, r, m - 1, l)
    <3>1. w = <<>> <=> Len(w) = 0
      BY <1>12
    <3>2. Starts(tree, r, Len(w) + (j - 1) - 1, l)
      BY <1>12, <1>15, <1>18, <2>7, <2>8, <3>1, StartsAfter
    <3> QED BY <2>8, <3>2
  <2>10. l <= b
    BY <1>1, <1>2, <1>5, <2>7, <2>8, StartsBelow
  <2>11. l \in DOMAIN tree /\ tree[l] = nodes[l]
    BY <1>3, <1>5, <1>7, <2>7, <2>10 DEF LeftReady
  <2>12. LeftReady(tokens, tree, todo[j], l)
    <3>1. \A k \in DOMAIN tree : k \in DOMAIN nodes /\ tree[k] = nodes[k]
      BY <1>7
    <3> QED BY <2>7, <2>11, <3>1 DEF LeftReady, LeftFits
  <2> QED BY <2>2, <2>4, <2>6, <2>9, <2>12 DEF Operator
<1>20. Nested(tokens, a, r)
  <2>1. ASSUME NEW m \in 2 .. Len(w) + 1, m \in DOMAIN r PROVE Surrounded(tokens, a, r, m)
    <3>1. m = 2 \/ m = 3
      BY <1>12
    <3>2. CASE m = 2
      BY <1>9, <1>16, <3>2 DEF Surrounded
    <3>3. CASE m = 3
      <4>1. 2 \in DOMAIN todo /\ r[3] = todo[2] /\ 3 - 1 = 2
        BY <1>3, <1>16, <2>1, <3>3
      <4>2. ~IsBinary(todo[2])
        BY <1>1, <1>2, <4>1, AroundHead, KindsApart
      <4> QED BY <1>9, <1>16, <3>3, <4>1, <4>2 DEF Surrounded
    <3> QED BY <3>1, <3>2, <3>3
  <2>2. 3 \in DOMAIN todo /\ IsBinary(todo[3]) => OpenParen(tokens[PosOf(todo[3]) + 1])
    BY <1>1, <1>2, AroundHead DEF InGroup
  <2> QED BY <1>3, <1>15, <2>1, <2>2, NestedAfter
<1>21. InOrder(a, r)
  <2>1. \A m \in 1 .. Len(w) : ~HasBase(w[m]) /\ ~IsBinary(w[m])
    <3>1. \A m \in 1 .. Len(w) : m = 1 \/ m = 2
      BY <1>12
    <3> QED BY <1>9, <1>12, <3>1
  <2>2. \A j \in 2 .. Len(todo) :
          IsBinary(todo[j]) =>
            /\ PosOf(todo[j]) < a
            /\ \A m \in 1 .. Len(w) : HasBase(w[m]) => PosOf(todo[j]) < PosOf(w[m])
    BY <1>5, <2>1 DEF AfterOps
  <2>3. \A m \in 1 .. Len(w) : IsBinary(w[m]) => PosOf(w[m]) < a /\ \A i \in 1 .. m - 1 : ~HasBase(w[i])
    BY <2>1
  <2> QED BY <1>3, <1>15, <2>2, <2>3, OrderAfter
<1>22. Ready(tokens, a, tree, r)
  BY <1>9, <1>16 DEF Ready
<1>23. Graded(tokens, a, tree, r)
  BY <1>17, <1>19, <1>20, <1>21, <1>22 DEF Graded
<1>24. current' = a /\ nodes' = tree /\ todo' = r /\ tokens' = tokens
  BY <1>11, <1>14 DEF Step
<1>25. Graded(tokens', current', nodes', todo')
  BY <1>23, <1>24, Zenon
<1> QED BY <1>25, Zenon DEF LevelsInv

LEMMA LevelDecide ==
  ASSUME Grading, DecideCast
  PROVE  LevelsInv'
<1>1. Doing("cast") /\ Ahead(Forward(current))
  BY AheadFacts, Zenon DEF DecideCast
<1>2. CASE Cur = ")" /\ StartsExpr(Peek(1))
  <2>1. Step(Forward(current), FALSE, nodes, <<Expr(0), Build("cast", Arg(1), Arg(2))>>)
    BY <1>2, Zenon DEF DecideCast, Goes
  <2> QED BY <1>1, <2>1, LevelCast, Zenon
<1>3. CASE ~(Cur = ")" /\ StartsExpr(Peek(1)))
  <2>1. Step(Arg(1), FALSE, Below(Arg(2)), <<Expr(0), Expect(")")>>)
    BY <1>3, Zenon DEF DecideCast
  <2> QED BY <1>1, <2>1, LevelBack, Zenon
<1> QED BY <1>2, <1>3, Zenon

LEMMA LevelExprSteps ==
  ASSUME Grading, ExprStep
  PROVE  LevelsInv'
<1>1. CASE NotExpected
  BY <1>1, ReportedStep, Zenon DEF NotExpected, Reports
<1>2. CASE \/ MatchComma \/ ParseDefault \/ EndItems \/ ParseItem \/ ParseIndexed \/ ParseNamed
  BY <1>2, LevelLists, Zenon
<1>3. CASE \/ ParseAtom \/ ParseUnary \/ ParseLeadingDot \/ ParseFfi \/ ParseAggregate \/ ParseArray
           \/ NotAnExpr
  BY <1>3, LevelOpen, Zenon
<1>4. CASE \/ ParseNamedType \/ ParseAnonType \/ NotAType \/ ParsePointer \/ ParseArrayType \/ EndType
           \/ EndAnon \/ NotAField \/ ParseAnonField \/ EndAnonField
  BY <1>4, LevelTypes, Zenon
<1>5. CASE \/ Expected \/ BuildNode \/ ParseNothing \/ ParseGroupOrCast \/ DecideCast
  BY <1>5, LevelExpected, LevelBuild, LevelNothing, LevelGroup, LevelDecide, Zenon
<1>6. CASE \/ EndExpr \/ ParseInfix \/ ParseMember \/ ParseCall \/ ParseIndex
  BY <1>6, LevelEnd, LevelInfix, LevelPostfix, Zenon
<1>7. CASE CrashInNamed \/ CrashInFfi
  BY <1>7, CrashFacts, Zenon DEF LevelsInv
<1> QED BY <1>1, <1>2, <1>3, <1>4, <1>5, <1>6, <1>7, Zenon DEF ExprStep

-----------------------------------------------------------------------------
(* The levels nest: always.                                                *)

LEMMA LevelsKept == ASSUME IInv, LevelsInv, [Next]_vars PROVE LevelsInv'
<1>1. tokens' = tokens /\ (reported => reported') /\ (crashed => crashed')
  BY NextRaises, Zenon DEF Raised
<1>2. CASE reported \/ crashed
  BY <1>1, <1>2, Zenon DEF LevelsInv
<1>3. CASE ~reported /\ ~crashed
  <2>1. Grading
    BY <1>3, Zenon DEF Grading, LevelsInv
  <2>2. CASE UNCHANGED vars
    <3>1. tokens' = tokens /\ current' = current /\ nodes' = nodes /\ todo' = todo
      BY <2>2 DEF vars
    <3>2. Graded(tokens', current', nodes', todo')
      BY <2>1, <3>1, Zenon DEF Grading
    <3> QED BY <3>2, Zenon DEF LevelsInv
  <2> QED BY <2>1, <2>2, LevelExprSteps, LevelSimpleStmts, LevelControlStmts, LevelFile, LevelAliases,
             LevelBody, LevelMethod, LevelFunc, Zenon DEF Next, Stays
<1> QED BY <1>2, <1>3

LEMMA LevelsFirst == Init => LevelsInv
<1> SUFFICES ASSUME Init PROVE LevelsInv
  OBVIOUS
<1>1. todo = <<Program>> /\ nodes = <<>>
  BY Zenon DEF Init
<1>2. PICK s, tree : s = <<Program>> /\ tree = <<>>
  OBVIOUS
<1>3. Len(s) = 1 /\ DOMAIN s = 1 .. 1 /\ s[1][1] = "program" /\ DOMAIN tree = {}
  BY <1>2 DEF Program
<1>4. \A m \in DOMAIN s : m = 1
  BY <1>3
<1>5. ~IsBinary(s[1]) /\ ~IsLed(s[1])
  BY <1>3 DEF IsBinary, IsLed
<1>6. Leveled(tokens, tree)
  BY <1>3 DEF Leveled
<1>7. Waiting(tokens, tree, s) /\ InOrder(current, s)
  BY <1>4, <1>5 DEF Waiting, InOrder
<1>8. Nested(tokens, current, s)
  BY <1>4 DEF Nested
<1>9. Ready(tokens, current, tree, s)
  BY <1>5 DEF Ready
<1>10. Graded(tokens, current, tree, s)
  BY <1>6, <1>7, <1>8, <1>9 DEF Graded
<1>11. Graded(tokens, current, nodes, todo)
  BY <1>1, <1>2, <1>10, Zenon
<1> QED BY <1>11, Zenon DEF LevelsInv

LEMMA LevelsHold == Spec => [](IInv /\ LevelsInv)
<1>1. IInv /\ LevelsInv /\ [Next]_vars => IInv' /\ LevelsInv'
  BY NextKeeps, LevelsKept
<1> QED BY InitHolds, LevelsFirst, <1>1, PTL DEF Spec

(* Every non-empty set of positions has a last one. *)
LEMMA MaxIsThere ==
  ASSUME NEW n \in Nat, NEW S, S \subseteq 0 .. n, S # {}
  PROVE  Max(S) \in S /\ \A x \in S : x <= Max(S)
<1> DEFINE T == {n - x : x \in S}
<1>1. T \subseteq Nat /\ T # {}
  OBVIOUS
<1>2. IsWellFoundedOn(OpToRel(<, Nat), Nat)
  BY NatLessThanWellFounded
<1>3. PICK i \in T : \A j \in T : ~ (<<j, i>> \in OpToRel(<, Nat))
  BY <1>1, <1>2, WFMin
<1>4. \A j \in T : ~ (j < i)
  BY <1>1, <1>3 DEF OpToRel
<1>5. PICK x \in S : i = n - x
  OBVIOUS
<1>6. ASSUME NEW y \in S PROVE x >= y
  <2>1. ~ (n - y < n - x)
    BY <1>4, <1>5
  <2> QED BY <2>1
<1>7. \E m \in S : \A y \in S : m >= y
  BY <1>6
<1>8. Max(S) \in S /\ \A y \in S : Max(S) >= y
  BY <1>7 DEF Max
<1> QED BY <1>8

(* No bracket is in a plain expression. *)
LEMMA PlainTokens ==
  \A t : /\ t \in {"name", "literal"} \/ t \in Operators => ~OpenParen(t) /\ ~CloseParen(t)
         /\ Prec(t) >= 0 => t \notin {"name", "literal"}
<1>1. "(" \notin Operators /\ ")" \notin Operators
  BY Zenon DEF Operators
<1>2. \A t : t \in {"name", "literal"} \/ t \in Operators => ~OpenParen(t) /\ ~CloseParen(t)
  BY <1>1, Zenon DEF OpenParen, CloseParen
<1>3. Prec("name") = -1 /\ Prec("literal") = -1
  BY DEF Prec
<1>4. \A t : Prec(t) >= 0 => t \notin {"name", "literal"}
  <2> SUFFICES ASSUME NEW t, Prec(t) >= 0, t \in {"name", "literal"} PROVE FALSE
    OBVIOUS
  <2>1. Prec(t) = -1
    BY <1>3
  <2> QED BY <2>1
<1> QED BY <1>2, <1>4

(* Nothing is in brackets inside a plain node. *)
LEMMA PlainInside ==
  ASSUME IInv, NEW k \in DOMAIN nodes, Plain(k), Prec(tokens[nodes[k].at]) >= 0,
         NEW r \in DOMAIN nodes, nodes[k].from <= r, r < k
  PROVE  /\ ~CloseParen(tokens[nodes[k].at - 1])
         /\ nodes[k].at < nodes[r].at => ~OpenParen(tokens[nodes[k].at + 1])
<1> DEFINE places == {nodes[l].at : l \in nodes[k].from .. k}
           at == nodes[k].at
<1>1. /\ nodes \in Seq(NodeSet) /\ Sound(nodes) /\ tokens \in Programs
  BY Zenon DEF IInv, TypeInv
<1>2. /\ Len(nodes) \in Nat /\ DOMAIN nodes = 1 .. Len(nodes) /\ Len(tokens) \in Nat
      /\ nodes[k].from \in 1 .. k
  BY <1>1, TokenFacts DEF Sound
<1>3. \A l \in nodes[k].from .. k : l \in DOMAIN nodes /\ nodes[l].at \in 0 .. Len(tokens)
  <2> SUFFICES ASSUME NEW l \in nodes[k].from .. k
               PROVE  l \in DOMAIN nodes /\ nodes[l].at \in 0 .. Len(tokens)
    OBVIOUS
  <2>1. l \in DOMAIN nodes
    BY <1>2
  <2>2. nodes[l] \in NodeSet
    BY <1>1, <2>1
  <2>3. nodes[l].at \in Positions
    BY <2>2 DEF NodeSet
  <2> QED BY <1>2, <2>1, <2>3 DEF Positions
<1>4. k \in nodes[k].from .. k /\ r \in nodes[k].from .. k
  BY <1>2
<1>5. places \subseteq 0 .. Len(tokens) /\ places \subseteq Nat /\ at \in places /\ nodes[r].at \in places
  BY <1>3, <1>4
<1>6. \A i \in Min(places) .. Max(places) :
        tokens[i] \in IF (i - Min(places)) % 2 = 0 THEN {"name", "literal"} ELSE Operators
  BY Zenon DEF Plain
<1> HIDE DEF places
<1>7. Min(places) \in places /\ \A x \in places : Min(places) <= x
  <2>1. Min(places) \in places
    BY <1>5, MinIsThere
  <2>2. PICK S : S = places
    OBVIOUS
  <2>3. \E i \in S : \A j \in S : i <= j
    <3>1. IsWellFoundedOn(OpToRel(<, Nat), Nat)
      BY NatLessThanWellFounded
    <3>2. PICK i \in S : \A j \in S : ~ (<<j, i>> \in OpToRel(<, Nat))
      BY <1>5, <2>2, <3>1, WFMin
    <3>3. \A j \in S : ~ (j < i)
      BY <1>5, <2>2, <3>2 DEF OpToRel
    <3> QED BY <1>5, <2>2, <3>3
  <2>4. \A x \in S : Min(S) <= x
    BY <2>3 DEF Min
  <2> QED BY <2>1, <2>2, <2>4
<1>8. Max(places) \in places /\ \A x \in places : x <= Max(places)
  BY <1>2, <1>5, MaxIsThere
<1>9. PICK a, b : a = Min(places) /\ b = Max(places)
  OBVIOUS
<1>10. /\ a \in Nat /\ b \in Nat /\ at \in Nat /\ nodes[r].at \in Nat
       /\ a <= at /\ at <= b /\ nodes[r].at <= b
  BY <1>5, <1>7, <1>8, <1>9
<1>11. \A i \in a .. b : tokens[i] \in IF (i - a) % 2 = 0 THEN {"name", "literal"} ELSE Operators
  BY <1>6, <1>9, Zenon
<1> HIDE DEF at
<1>12. at # a
  <2> SUFFICES ASSUME at = a PROVE FALSE
    OBVIOUS
  <2>1. at \in a .. b /\ (at - a) % 2 = 0
    BY <1>10
  <2>2. tokens[at] \in {"name", "literal"}
    BY <1>11, <2>1, Zenon
  <2> QED BY <2>2, PlainTokens, Zenon DEF at
<1>13. \A i \in a .. b : ~OpenParen(tokens[i]) /\ ~CloseParen(tokens[i])
  BY <1>11, PlainTokens, Zenon
<1>14. at - 1 \in a .. b
  BY <1>10, <1>12
<1>15. at < nodes[r].at => at + 1 \in a .. b
  BY <1>10
<1>16. ~CloseParen(tokens[at - 1]) /\ (at < nodes[r].at => ~OpenParen(tokens[at + 1]))
  BY <1>13, <1>14, <1>15, Zenon
<1> QED BY <1>16, Zenon DEF at

(* What the invariant says when nothing is left to do. *)
LEMMA LevelsAtEnd == ASSUME IInv, LevelsInv PROVE LevelsNest
<1> SUFFICES ASSUME Accepted, NEW k \in Plains
             PROVE  /\ Binary(RightChild(k)) => Prec(Op(RightChild(k))) > Prec(Op(k))
                    /\ Binary(LeftChild(k)) => Prec(Op(LeftChild(k))) >= Prec(Op(k)) - 1
  BY Zenon DEF LevelsNest
<1>1. Leveled(tokens, nodes)
  BY Zenon DEF LevelsInv, Graded, Accepted
<1>2. k \in DOMAIN nodes /\ nodes[k].node = "binary" /\ Plain(k)
  BY DEF Plains, Binary
<1>3. Level(tokens, nodes, k)
  BY <1>1, <1>2 DEF Leveled
<1>4. PICK r, l : r = k - 1 /\ l = nodes[k - 1].from - 1
  OBVIOUS
<1>5. /\ Prec(tokens[nodes[k].at]) >= 0
      /\ r \in DOMAIN nodes /\ l \in DOMAIN nodes /\ nodes[k].from <= r
      /\ LeftFits(tokens, nodes, nodes[k].at, l) /\ RightFits(tokens, nodes, nodes[k].at, r)
  BY <1>3, <1>4 DEF Level
<1>6. r < k
  <2>1. nodes \in Seq(NodeSet)
    BY Zenon DEF IInv, TypeInv
  <2> QED BY <1>2, <1>4, <2>1
<1>7. /\ ~CloseParen(tokens[nodes[k].at - 1])
      /\ nodes[k].at < nodes[r].at => ~OpenParen(tokens[nodes[k].at + 1])
  BY <1>2, <1>5, <1>6, PlainInside
<1>8. RightChild(k) = r /\ LeftChild(k) = l
  BY <1>4 DEF RightChild, LeftChild
<1>9. \A t : Prec(t) \in Int
  BY PrecValues, Zenon
<1> QED BY <1>5, <1>7, <1>8, <1>9 DEF LeftFits, RightFits, Binary, Op

(* Whatever the file, in a program that no error has been reported for an  *)
(* operator that groups to the left, written without brackets, takes into  *)
(* its right operand only operators that bind tighter, and in its left one *)
(* has none that binds more than one level looser: what the loop of _pratt *)
(* lets go on (GoesOn, with a next_min of one more than the operator's own *)
(* level) decides how every operand of every expression is built.          *)
THEOREM LevelsAlwaysNest == Spec => []LevelsNest
<1>1. IInv /\ LevelsInv => LevelsNest
  BY LevelsAtEnd
<1> QED BY <1>1, LevelsHold, PTL

-----------------------------------------------------------------------------
(* The steps of the parser of expressions and types.                       *)

(* What Leads and the lemmas on the calls say, in one. *)
LEMMA Calls ==
  ASSUME NEW p, NEW inner \in BOOLEAN
  PROVE  /\ \A m : Lead(p, inner, Expr(m)) /\ Lead(p, inner, Led(m))
         /\ \A f, t : Lead(p, inner, Items(f, t))
         /\ Lead(p, inner, Type) /\ Lead(p, inner, Suffixes) /\ Lead(p, inner, Parents)
         /\ Lead(p, inner, FuncParams) /\ Lead(p, inner, Block) /\ Lead(p, inner, Declaration)
         /\ Lead(p, inner, AfterParent) /\ Lead(p, inner, AfterFuncParam)
         /\ \A a : After(p, inner, a, Suffixes) /\ After(p, inner, a, Default) /\ After(p, inner, a, Program)
                   /\ After(p, inner, a, AfterParent) /\ After(p, inner, a, AfterFuncParam)
         /\ \A a, m : After(p, inner, a, Led(m)) /\ After(p, inner, a, Comma(m))
         /\ \A a, t, f : Sign(t) /\ t # RightBrace =>
              Lead(p, inner, ExpectOr(t, f)) /\ After(p, inner, a, ExpectOr(t, f))
         /\ \A a, t : Sign(t) /\ t # RightBrace =>
              Lead(p, inner, Expect(t)) /\ After(p, inner, a, Expect(t))
         /\ \A a, n, at, b : Sits(p, n, at) => Lead(p, inner, Build(n, at, b)) /\ After(p, inner, a, Build(n, at, b))
         /\ \A a : Opening(a) =>
              /\ \A m : After(p, inner, a, Expr(m))
              /\ \A f, t : After(p, inner, a, Items(f, t))
<1>1. \A t : /\ Outer(p, t) => Lead(p, inner, t) /\ \A a : After(p, inner, a, t)
             /\ Opener(p, t) => Lead(p, inner, t) /\ \A a : Opening(a) => After(p, inner, a, t)
  BY Leads, Zenon
<1>2. \A m : Lead(p, inner, Expr(m)) /\ Lead(p, inner, Led(m))
  BY <1>1, OpenerTasks, OuterTasks, Zenon
<1>3. \A f, t : Lead(p, inner, Items(f, t))
  BY <1>1, OpenerTasks, Zenon
<1>4. Lead(p, inner, Type) /\ Lead(p, inner, Suffixes) /\ Lead(p, inner, Parents)
      /\ Lead(p, inner, FuncParams) /\ Lead(p, inner, Block) /\ Lead(p, inner, Declaration)
      /\ Lead(p, inner, AfterParent) /\ Lead(p, inner, AfterFuncParam)
  BY <1>1, OpenerTasks, OuterTasks, Zenon
<1>5. \A a : After(p, inner, a, Suffixes) /\ After(p, inner, a, Default) /\ After(p, inner, a, Program)
             /\ After(p, inner, a, AfterParent) /\ After(p, inner, a, AfterFuncParam)
  BY <1>1, OuterTasks, Zenon
<1>6. \A a, m : After(p, inner, a, Led(m)) /\ After(p, inner, a, Comma(m))
  BY <1>1, OuterTasks, Zenon
<1>7. \A a, t, f : Sign(t) /\ t # RightBrace =>
              Lead(p, inner, ExpectOr(t, f)) /\ After(p, inner, a, ExpectOr(t, f))
  BY <1>1, ExpectsOuter, Zenon
<1>8. \A a, t : Sign(t) /\ t # RightBrace => Lead(p, inner, Expect(t)) /\ After(p, inner, a, Expect(t))
  BY <1>7, Zenon DEF Expect
<1>9. \A a, n, at, b : Sits(p, n, at) => Lead(p, inner, Build(n, at, b)) /\ After(p, inner, a, Build(n, at, b))
  BY <1>1, BuildsOuter, Zenon
<1>10. \A a : Opening(a) =>
              /\ \A m : After(p, inner, a, Expr(m))
              /\ \A f, t : After(p, inner, a, Items(f, t))
  BY <1>1, OpenerTasks, Zenon
<1> QED BY <1>2, <1>3, <1>4, <1>5, <1>6, <1>7, <1>8, <1>9, <1>10, Zenon

(* The same inside of braces. *)
LEMMA CallsWithin ==
  ASSUME NEW p
  PROVE  /\ Lead(p, TRUE, Anon) /\ Lead(p, TRUE, Stmt) /\ Lead(p, TRUE, Stmts) /\ Lead(p, TRUE, Members)
         /\ Lead(p, TRUE, Self) /\ Lead(p, TRUE, Aliases)
         /\ \A a : After(p, TRUE, a, Anon) /\ After(p, TRUE, a, Stmt) /\ After(p, TRUE, a, Stmts)
                   /\ After(p, TRUE, a, Else) /\ After(p, TRUE, a, Members) /\ After(p, TRUE, a, Params)
                   /\ After(p, TRUE, a, AfterParam) /\ After(p, TRUE, a, Returns) /\ After(p, TRUE, a, MethodBody)
                   /\ After(p, TRUE, a, Aliases)
         /\ \A a, t : After(p, TRUE, a, Clause(t))
         /\ \A a, at, b : After(p, TRUE, a, Then(at, b))
<1>1. \A t : Within(p, t) => Lead(p, TRUE, t) /\ \A a : After(p, TRUE, a, t)
  BY Leads, Zenon
<1> QED BY <1>1, WithinTasks, Zenon

LEMMA OpeningSign == Opening(Expect("("))
BY DEF Opening, Expect, ExpectOr, IsExpect, OpenParen

LEMMA PlainSits ==
  /\ \A p, at, n : n \in {"unary", "binary", "call", "index", "init", "cast", "array", "anon", "block", "expr stmt",
                          "return", "break", "continue", "if", "for"} => Sits(p, n, at)
  /\ \A p, at, n : p[at] = "name" /\ n \in {"ffi", "field", "decl", "param", "method", "func", "blueprint"} =>
       Sits(p, n, at)
BY Zenon DEF Sits, IsLoop, Named

(* A token that begins and ends nothing; the names that do not either.     *)
Mild(t) == Dull(t) /\ t # "EOF" /\ ~Ends(t)
Harmless == Idles(current) /\ Cur # "EOF" /\ ~Ends(Cur)

LEMMA MildTokens ==
  \A t : t \in {"(", ")", "[", "]", ":", "=", ",", ".", "$", "*", "literal", "self", "prim", "else",
                "as", "case", "-", "+", "!", "~", "&"} \cup Operators => Mild(t)
<1>1. \A t : t \in {"(", ")", "[", "]", ":", "=", ",", ".", "$", "*", "literal", "self", "prim", "else",
                    "as", "case", "-", "+", "!", "~", "&"} => Mild(t)
  BY Zenon DEF Mild, Dull, Ends, StmtKeywords, LeftBrace, RightBrace, SemiSign
<1>2. \A t : t \in Operators => Mild(t)
  BY Zenon DEF Mild, Dull, Ends, StmtKeywords, LeftBrace, RightBrace, SemiSign, Operators
<1> QED BY <1>1, <1>2, Zenon

LEMMA HarmlessNow ==
  ASSUME Settled, NEW n, Doing(n), Mild(Cur) \/ (Cur = "name" /\ n \in OpenerNames \cup InnerNames)
  PROVE  Harmless
<1>1. CASE Mild(Cur)
  BY <1>1, Zenon DEF Harmless, Mild, Idles, Cur
<1>2. CASE Cur = "name" /\ n \in OpenerNames \cup InnerNames
  <2>1. ~Ends("name") /\ "name" # "EOF"
    BY Zenon DEF Ends, SemiSign, RightBrace
  <2> QED BY <1>2, <2>1, IdleNames, Zenon DEF Harmless
<1> QED BY <1>1, <1>2

(* The step reads one token that begins nothing. *)
LEMMA OneRead ==
  ASSUME Settled, NEW n \in BareNames, Doing(n), Harmless, NEW w, Row(tokens, w, Inner(todo[1]))
  PROVE  /\ Step(Forward(current), FALSE, nodes, w) => StructureInv'
         /\ \A k : Unobtrusive(k) /\ Step(Forward(current), FALSE, Append(nodes, k), w) => StructureInv'
<1>1. Quiet /\ Idles(current) /\ Cur # "EOF" /\ ~Ends(Cur)
  BY HeadShape, Zenon DEF Harmless
<1>2. Forward(current) \in Positions /\ current <= Forward(current) /\ Still(Forward(current), w)
      /\ Forward(current) > 1 /\ Forward(current) - 1 = current
  BY <1>1, StillFacts, Zenon
<1>3. StartsRight(Forward(current), w)
  BY <1>1, <1>2, StartsFacts, Zenon DEF Cur
<1>4. ASSUME Step(Forward(current), FALSE, nodes, w) PROVE StructureInv'
  BY <1>2, <1>3, <1>4, PlainGoes
<1>5. ASSUME NEW k, Unobtrusive(k), Step(Forward(current), FALSE, Append(nodes, k), w) PROVE StructureInv'
  BY <1>2, <1>3, <1>5, PlainMakes
<1> QED BY <1>4, <1>5

(* Two tokens, the second mild or a name after one that ends nothing. *)
LEMMA TwoRead ==
  ASSUME Settled, NEW n \in BareNames, Doing(n), Harmless,
         Mild(tokens[Forward(current)]) \/ tokens[Forward(current)] = "name",
         NEW w, Row(tokens, w, Inner(todo[1]))
  PROVE  /\ Step(Forward(Forward(current)), FALSE, nodes, w) => StructureInv'
         /\ \A k : Unobtrusive(k) /\ Step(Forward(Forward(current)), FALSE, Append(nodes, k), w) => StructureInv'
<1> DEFINE d == Forward(Forward(current))
<1>1. Quiet /\ Idles(current) /\ Cur # "EOF" /\ ~Ends(Cur)
  BY HeadShape, Zenon DEF Harmless
<1>2. tokens[Forward(current)] # "EOF" /\ ~Ends(tokens[Forward(current)])
  <2>1. ~Ends("name") /\ "name" # "EOF"
    BY Zenon DEF Ends, SemiSign, RightBrace
  <2> QED BY <2>1, Zenon DEF Mild
<1>3. Idles(Forward(current))
  <2>1. CASE Mild(tokens[Forward(current)])
    BY <2>1, Zenon DEF Mild, Idles
  <2>2. CASE tokens[Forward(current)] = "name"
    BY <1>1, <2>2, IdleNames, Zenon
  <2> QED BY <2>1, <2>2
<1>4. d \in Positions /\ current <= d /\ Still(d, w) /\ d > 1 /\ d - 1 = Forward(current)
  BY <1>1, <1>2, <1>3, StillFacts, Zenon
<1>5. StartsRight(d, w)
  BY <1>2, <1>4, StartsFacts, Zenon
<1> HIDE DEF d
<1>6. ASSUME Step(d, FALSE, nodes, w) PROVE StructureInv'
  BY <1>4, <1>5, <1>6, PlainGoes
<1>7. ASSUME NEW k, Unobtrusive(k), Step(d, FALSE, Append(nodes, k), w) PROVE StructureInv'
  BY <1>4, <1>5, <1>7, PlainMakes
<1> QED BY <1>6, <1>7 DEF d

(* The step reads nothing. *)
LEMMA NoneRead ==
  ASSUME Settled, NEW n \in BareNames, Doing(n), NEW w, Row(tokens, w, Inner(todo[1])),
         n \in OpenerNames \cup InnerNames \/ Len(w) = 0 \/ ~Starter(w[1])
  PROVE  /\ Step(current, FALSE, nodes, w) => StructureInv'
         /\ \A k : Unobtrusive(k) /\ Step(current, FALSE, Append(nodes, k), w) => StructureInv'
<1>1. Quiet /\ (Starter(todo[1]) <=> n \in OpenerNames) /\ (Inner(todo[1]) <=> n \in InnerNames)
  BY HeadShape
<1>2. current \in Positions /\ current <= current /\ Still(current, w)
  BY <1>1, StillFacts, Zenon
<1>3. StartsRight(current, w)
  BY <1>1, StartsFacts, Zenon
<1>4. ASSUME Step(current, FALSE, nodes, w) PROVE StructureInv'
  BY <1>2, <1>3, <1>4, PlainGoes
<1>5. ASSUME NEW k, Unobtrusive(k), Step(current, FALSE, Append(nodes, k), w) PROVE StructureInv'
  BY <1>2, <1>3, <1>5, PlainMakes
<1> QED BY <1>4, <1>5

(* The step ends the call. *)
LEMMA NoneLeft ==
  ASSUME Settled, NEW n \in BareNames, Doing(n)
  PROVE  /\ Step(current, FALSE, nodes, <<>>) => StructureInv'
         /\ Harmless /\ Step(Forward(current), FALSE, nodes, <<>>) => StructureInv'
<1>1. Row(tokens, <<>>, Inner(todo[1])) /\ Len(<<>>) = 0
  BY RowOne
<1>2. Step(current, FALSE, nodes, <<>>) => StructureInv'
  BY ONLY Settled, n \in BareNames, Doing(n), <1>1, NoneRead
<1>3. Harmless /\ Step(Forward(current), FALSE, nodes, <<>>) => StructureInv'
  BY ONLY Settled, n \in BareNames, Doing(n), <1>1, OneRead
<1> QED BY <1>2, <1>3

LEMMA StructComma == ASSUME Settled, MatchComma PROVE StructureInv'
<1>1. Doing("comma") /\ "comma" \in BareNames
  BY Zenon DEF MatchComma, BareNames
<1>2. Quiet /\ todo # <<>> /\ Head(todo) = todo[1] /\ todo[1][1] = "comma" /\ Inner(todo[1]) \in BOOLEAN
  BY <1>1, HeadShape
<1>3. Arg(1) = todo[1][2] /\ 1 \in DOMAIN todo /\ todo[1] \in Tasks
  BY <1>2, QuietFacts DEF Arg
<1>4. Arg(1) \in ItemTasks
  BY <1>2, <1>3, TaskForms DEF TaskForm
<1>5. Row(tokens, <<Arg(1)>>, Inner(todo[1]))
  <2>1. PICK a : a = Arg(1)
    OBVIOUS
  <2>2. a[1] = "items" /\ a[1] \in LooseNames
    BY <1>4, <2>1 DEF ItemTasks, LooseNames
  <2>3. Easy(tokens, a) /\ ~Inner(a)
    BY <2>2, LooseTasks DEF Inner
  <2> QED BY <2>1, <2>3, RowOne DEF Lead
<1>6. CASE Cur = ","
  <2>1. Step(Forward(current), FALSE, nodes, <<Arg(1)>>)
    BY <1>6, Zenon DEF MatchComma, Goes
  <2>2. Harmless
    BY <1>1, <1>6, MildTokens, HarmlessNow, Zenon
  <2> QED BY <1>1, <1>5, <2>1, <2>2, OneRead, Zenon
<1>7. CASE Cur # ","
  <2>1. Step(current, FALSE, nodes, <<>>)
    BY <1>7, Zenon DEF MatchComma, Goes
  <2> QED BY <1>1, <2>1, NoneLeft, Zenon
<1> QED BY <1>6, <1>7

LEMMA StructDefault == ASSUME Settled, ParseDefault PROVE StructureInv'
<1>1. Doing("default") /\ "default" \in BareNames
  BY Zenon DEF ParseDefault, BareNames
<1>2. Row(tokens, <<Expr(0)>>, Inner(todo[1]))
  BY <1>1, HeadShape, Calls, RowOne, Zenon
<1>3. CASE Cur = "="
  <2>1. Step(Forward(current), FALSE, nodes, <<Expr(0)>>)
    BY <1>3, Zenon DEF ParseDefault, Goes
  <2>2. Harmless
    BY <1>1, <1>3, MildTokens, HarmlessNow, Zenon
  <2> QED BY <1>1, <1>2, <2>1, <2>2, OneRead, Zenon
<1>4. CASE Cur # "="
  <2>1. Step(current, FALSE, nodes, <<>>)
    BY <1>4, Zenon DEF ParseDefault, Goes
  <2> QED BY <1>1, <2>1, NoneLeft, Zenon
<1> QED BY <1>3, <1>4

LEMMA StructUnary == ASSUME Settled, ParseUnary PROVE StructureInv'
<1>1. Doing("expr") /\ "expr" \in BareNames
  BY Zenon DEF ParseUnary, BareNames
<1> DEFINE w == <<Expr(0), Build("unary", current, Base), Led(Arg(1))>>
<1>2. Step(Forward(current), FALSE, nodes, w) /\ Cur \in {"-", "+", "!", "~", "*", "&"}
  BY Zenon DEF ParseUnary, Goes
<1>3. Harmless
  BY <1>1, <1>2, MildTokens, HarmlessNow, Zenon
<1>4. Row(tokens, w, Inner(todo[1]))
  BY <1>1, HeadShape, Calls, PlainSits, RowThree, Zenon
<1> HIDE DEF w
<1> QED BY <1>1, <1>2, <1>3, <1>4, OneRead, Zenon

LEMMA StructNothing == ASSUME Settled, ParseNothing PROVE StructureInv'
<1>1. Doing("expr") /\ "expr" \in BareNames
  BY Zenon DEF ParseNothing, BareNames
<1>2. PICK k : k = Node("error", current, Base + 1)
  OBVIOUS
<1>3. Step(current, FALSE, Append(nodes, k), <<>>)
  BY <1>2, Zenon DEF ParseNothing, Makes, Leaf
<1>4. Unobtrusive(k)
  <2>1. ~IsLoop("error") /\ "error" \notin Named /\ "error" \notin {"inherit", "field"}
    BY Zenon DEF IsLoop, Named
  <2> QED BY <1>2, <2>1, PlainLeaf, Zenon
<1>5. Row(tokens, <<>>, Inner(todo[1])) /\ Len(<<>>) = 0
  BY RowOne
<1> QED BY <1>1, <1>3, <1>4, <1>5, NoneRead, Zenon

LEMMA StructAtom == ASSUME Settled, ParseAtom PROVE StructureInv'
<1>1. Doing("expr") /\ "expr" \in BareNames /\ "expr" \in OpenerNames /\ Cur \in {"name", "self", "literal"}
  BY Zenon DEF ParseAtom, BareNames, OpenerNames
<1>2. PICK node \in {"literal", "ident"} :
        Step(Forward(current), FALSE, Append(nodes, Node(node, current, Base + 1)), <<Led(Arg(1))>>)
  BY DEF ParseAtom, Makes, Leaf
<1>3. PICK k : k = Node(node, current, Base + 1)
  OBVIOUS
<1>4. Unobtrusive(k)
  <2>1. ~IsLoop(node) /\ node \notin {"inherit", "field"} /\ tokens[current] # "."
    BY <1>1, Zenon DEF IsLoop, Cur
  <2> QED BY <1>3, <2>1, PlainLeaf, Zenon
<1>5. Row(tokens, <<Led(Arg(1))>>, Inner(todo[1]))
  BY <1>1, HeadShape, Calls, RowOne, Zenon
<1>6. Harmless
  BY <1>1, MildTokens, HarmlessNow, Zenon
<1> QED BY <1>1, <1>2, <1>3, <1>4, <1>5, <1>6, OneRead, Zenon

LEMMA StructFfi == ASSUME Settled, ParseFfi PROVE StructureInv'
<1>1. Doing("expr") /\ "expr" \in BareNames /\ Cur = "$"
  BY Zenon DEF ParseFfi, BareNames
<1> DEFINE c == Forward(current)
           w == <<Expect("("), Items("args", ")"), Expect(")"), Build("ffi", c, Base), Led(Arg(1))>>
<1>2. CASE tokens[c] # "name"
  <2>1. Step(SyncStmt(c), TRUE, Leaf("error", c), <<Led(Arg(1))>>)
    BY <1>2, Zenon DEF ParseFfi
  <2> QED BY <2>1, LoudStructure
<1>3. CASE tokens[c] = "name"
  <2>1. Step(Forward(c), FALSE, nodes, w)
    BY <1>3, Zenon DEF ParseFfi, Goes
  <2>2. Row(tokens, w, Inner(todo[1]))
    <3>1. Inner(todo[1]) \in BOOLEAN
      BY <1>1, HeadShape
    <3> QED BY <1>3, <3>1, Calls, PlainSits, Signs, OpeningSign, RowFive, Zenon
  <2>3. Harmless
    BY <1>1, MildTokens, HarmlessNow, Zenon
  <2> HIDE DEF w
  <2> QED BY <1>1, <1>3, <2>1, <2>2, <2>3, TwoRead, Zenon
<1> QED BY <1>2, <1>3

LEMMA StructArray == ASSUME Settled, ParseArray PROVE StructureInv'
<1>1. Doing("expr") /\ "expr" \in BareNames /\ Cur = "["
  BY Zenon DEF ParseArray, BareNames
<1> DEFINE w == <<Items("positional", "]"), Expect("]"), Build("init", current, Base), Led(Arg(1))>>
<1>2. Step(Forward(current), FALSE, nodes, w)
  BY Zenon DEF ParseArray, Goes
<1>3. Harmless
  BY <1>1, MildTokens, HarmlessNow, Zenon
<1>4. Row(tokens, w, Inner(todo[1]))
  <2>1. Inner(todo[1]) \in BOOLEAN
    BY <1>1, HeadShape
  <2> QED BY <2>1, Calls, PlainSits, Signs, RowFour, Zenon
<1> HIDE DEF w
<1> QED BY <1>1, <1>2, <1>3, <1>4, OneRead, Zenon

(* A call that ends, perhaps with an error. *)
LEMMA MaybeLeft ==
  ASSUME Settled, NEW n \in BareNames, Doing(n), NEW error \in BOOLEAN, Step(current, error, nodes, <<>>)
  PROVE  StructureInv'
<1>1. CASE error = TRUE
  BY <1>1, LoudStructure
<1>2. CASE error = FALSE
  <2>1. Step(current, FALSE, nodes, <<>>)
    BY <1>2
  <2> QED BY <2>1, NoneLeft
<1> QED BY <1>1, <1>2

LEMMA StructEndItems == ASSUME Settled, EndItems PROVE StructureInv'
<1>1. Doing("items") /\ "items" \in BareNames
  BY Zenon DEF EndItems, BareNames
<1>2. PICK error \in BOOLEAN : error = (Arg(1) = "args" /\ Cur = "EOF")
  OBVIOUS
<1>3. Step(current, error, nodes, <<>>)
  BY <1>2, Zenon DEF EndItems
<1> QED BY <1>1, <1>3, MaybeLeft

LEMMA StructItem == ASSUME Settled, ParseItem PROVE StructureInv'
<1>1. Doing("items") /\ "items" \in BareNames /\ "items" \in OpenerNames
  BY Zenon DEF ParseItem, BareNames, OpenerNames
<1>2. Step(current, FALSE, nodes, <<Expr(0), More>>)
  BY Zenon DEF ParseItem, Goes
<1>3. Row(tokens, <<Expr(0), More>>, Inner(todo[1]))
  BY <1>1, HeadShape, Calls, RowTwo, Zenon DEF More
<1> QED BY <1>1, <1>2, <1>3, NoneRead, Zenon

(* The entry of a named aggregate, if it is not a keyword. *)
LEMMA StructNamed == ASSUME Settled, ParseNamed, Cur \notin Keywords PROVE StructureInv'
<1> DEFINE c == Forward(current)
           w == <<Expr(0), More>>
<1>1. Doing("items") /\ "items" \in BareNames /\ "items" \in OpenerNames /\ Cur \in Symbols
  <2>1. Doing("items") /\ Cur \in Texts
    BY Zenon DEF ParseNamed
  <2>2. Quiet
    BY Zenon DEF Settled
  <2>3. current \in 1 .. Len(tokens) /\ tokens \in Seq(Token) /\ \A i \in DOMAIN tokens : tokens[i] # "ERROR"
    BY <2>2, QuietFacts, Zenon
  <2>4. Cur # "ERROR"
    BY <2>3 DEF Cur
  <2> QED BY <2>1, <2>4, Zenon DEF Texts, BareNames, OpenerNames
<1>2. PICK k : k = Node("field", current, Base + 1)
  OBVIOUS
<1>3. Unobtrusive(k)
  <2>1. ~IsLoop("field") /\ "field" # "inherit"
    BY Zenon DEF IsLoop
  <2>2. tokens[current] # "." /\ tokens[current] \notin Keywords
    <3>1. "." \notin Symbols
      BY DEF Symbols, Keywords
    <3> QED BY <1>1, <3>1 DEF Cur
  <2>3. k.node = "field" /\ k.at = current
    BY <1>2 DEF Node
  <2>4. \A i : ~Passes(tokens, "field", current, i)
    BY <2>1, <2>2, Zenon DEF Passes
  <2> QED BY <2>1, <2>3, <2>4, Zenon DEF Unobtrusive
<1>4. Row(tokens, w, Inner(todo[1]))
  BY <1>1, HeadShape, Calls, RowTwo, Zenon DEF More
<1>5. Harmless
  <2>1. Cur \in {"literal", "self", "prim"} \/ Cur = "name"
    BY <1>1, Zenon DEF Symbols
  <2> QED BY <1>1, <2>1, MildTokens, HarmlessNow, Zenon
<1> HIDE DEF w
<1>6. CASE tokens[c] = "="
  <2>1. Step(Forward(c), FALSE, Append(nodes, k), w)
    BY <1>2, <1>6, Zenon DEF ParseNamed, Makes, Leaf, w
  <2>2. Mild(tokens[c])
    BY <1>6, MildTokens, Zenon
  <2> QED BY <1>1, <1>3, <1>4, <1>5, <2>1, <2>2, TwoRead, Zenon
<1>7. CASE tokens[c] # "="
  <2>1. Step(c, FALSE, Append(nodes, k), w)
    BY <1>2, <1>7, Zenon DEF ParseNamed, Makes, Leaf, w
  <2> QED BY <1>1, <1>3, <1>4, <1>5, <2>1, OneRead, Zenon
<1> QED BY <1>6, <1>7

LEMMA StructEndExpr == ASSUME Settled, EndExpr PROVE StructureInv'
<1>1. Doing("led") /\ "led" \in BareNames /\ Step(current, FALSE, nodes, <<>>)
  BY Zenon DEF EndExpr, BareNames, Goes
<1> QED BY <1>1, NoneLeft, Zenon

LEMMA StructInfix == ASSUME Settled, ParseInfix PROVE StructureInv'
<1> DEFINE w == <<Expr(Prec(Cur) + 1), Build("binary", current, LastBase), Led(Arg(1))>>
<1>1. Doing("led") /\ "led" \in BareNames /\ Step(Forward(current), FALSE, nodes, w)
      /\ GoesOn(Cur, Arg(1)) /\ Cur \notin Postfix
  BY Zenon DEF ParseInfix, BareNames, Goes
<1>2. Cur \in Operators
  <2> SUFFICES ASSUME Cur \notin Operators PROVE FALSE
    OBVIOUS
  <2>1. Prec(Cur) = -1
    BY DEF Prec, Operators
  <2>2. Prec(Cur) < 0 /\ ~(Prec(Cur) >= 0)
    BY <2>1
  <2>3. GoesOn(Cur, Arg(1)) <=> Cur \in Postfix
    BY <2>2 DEF GoesOn
  <2> QED BY <1>1, <2>3
<1>3. Harmless
  <2>1. Mild(Cur)
    BY <1>2, MildTokens, Zenon
  <2> QED BY <1>1, <2>1, HarmlessNow, Zenon
<1>4. Row(tokens, w, Inner(todo[1]))
  BY <1>1, HeadShape, Calls, PlainSits, RowThree, Zenon
<1> HIDE DEF w
<1> QED BY <1>1, <1>3, <1>4, OneRead, Zenon

LEMMA StructMember == ASSUME Settled, ParseMember PROVE StructureInv'
<1> DEFINE c == Forward(current)
<1>1. Doing("led") /\ "led" \in BareNames /\ Cur = "."
  BY Zenon DEF ParseMember, BareNames
<1>2. CASE tokens[c] # "name"
  <2>1. Step(SyncStmt(c), TRUE, Instead("error", c), <<Led(Arg(1))>>)
    BY <1>2, Zenon DEF ParseMember
  <2> QED BY <2>1, LoudStructure
<1>3. CASE tokens[c] = "name"
  <2>0. PICK k : k = Node("member", c, LastBase + 1)
    OBVIOUS
  <2>1. Step(Forward(c), FALSE, Append(nodes, k), <<Led(Arg(1))>>)
    BY <1>3, <2>0, Zenon DEF ParseMember, Around
  <2>2. Unobtrusive(k)
    <3>1. ~IsLoop("member") /\ "member" \notin {"inherit", "field"} /\ "name" # "."
      BY Zenon DEF IsLoop
    <3> QED BY <1>3, <2>0, <3>1, PlainLeaf, Zenon
  <2>3. Row(tokens, <<Led(Arg(1))>>, Inner(todo[1]))
    BY <1>1, HeadShape, Calls, RowOne, Zenon
  <2>4. Harmless
    BY <1>1, MildTokens, HarmlessNow, Zenon
  <2> QED BY <1>1, <1>3, <2>1, <2>2, <2>3, <2>4, TwoRead, Zenon
<1> QED BY <1>2, <1>3

LEMMA StructCall == ASSUME Settled, ParseCall PROVE StructureInv'
<1>1. Doing("led") /\ "led" \in BareNames /\ Cur = "("
  BY Zenon DEF ParseCall, BareNames
<1> DEFINE w == <<Items("args", ")"), Expect(")"), Build("call", current, LastBase), Led(Arg(1))>>
<1>2. Step(Forward(current), FALSE, nodes, w)
  BY Zenon DEF ParseCall, Goes
<1>3. Harmless
  BY <1>1, MildTokens, HarmlessNow, Zenon
<1>4. Row(tokens, w, Inner(todo[1]))
  <2>1. Inner(todo[1]) \in BOOLEAN
    BY <1>1, HeadShape
  <2> QED BY <2>1, Calls, PlainSits, Signs, RowFour, Zenon
<1> HIDE DEF w
<1> QED BY <1>1, <1>2, <1>3, <1>4, OneRead, Zenon

LEMMA StructIndex == ASSUME Settled, ParseIndex PROVE StructureInv'
<1> DEFINE c == Forward(current)
           w == <<Expr(0), Expect("]"), Build("index", current, LastBase), Led(Arg(1))>>
<1>1. Doing("led") /\ "led" \in BareNames /\ Cur = "["
  BY Zenon DEF ParseIndex, BareNames
<1>2. CASE tokens[c] = "]"
  <2>1. Step(Forward(c), TRUE, Instead("error", c), <<Led(Arg(1))>>)
    BY <1>2, Zenon DEF ParseIndex
  <2> QED BY <2>1, LoudStructure
<1>3. CASE tokens[c] # "]"
  <2>1. Step(c, FALSE, nodes, w)
    BY <1>3, Zenon DEF ParseIndex, Goes
  <2>2. Harmless
    BY <1>1, MildTokens, HarmlessNow, Zenon
  <2>3. Row(tokens, w, Inner(todo[1]))
    <3>1. Inner(todo[1]) \in BOOLEAN
      BY <1>1, HeadShape
    <3> QED BY <3>1, Calls, PlainSits, Signs, RowFour, Zenon
  <2> HIDE DEF w
  <2> QED BY <1>1, <2>1, <2>2, <2>3, OneRead, Zenon
<1> QED BY <1>2, <1>3

LEMMA StructNamedType == ASSUME Settled, ParseNamedType PROVE StructureInv'
<1>1. Doing("type") /\ "type" \in BareNames /\ "type" \in OpenerNames /\ Cur \in {"prim", "name"}
  BY Zenon DEF ParseNamedType, BareNames, OpenerNames
<1>2. PICK k : k = Node("type", current, Base + 1)
  OBVIOUS
<1>3. Step(Forward(current), FALSE, Append(nodes, k), <<Suffixes>>)
  BY <1>2, Zenon DEF ParseNamedType, Makes, Leaf
<1>4. Unobtrusive(k)
  <2>1. ~IsLoop("type") /\ "type" \notin {"inherit", "field"} /\ tokens[current] # "."
    BY <1>1, Zenon DEF IsLoop, Cur
  <2> QED BY <1>2, <2>1, PlainLeaf, Zenon
<1>5. Row(tokens, <<Suffixes>>, Inner(todo[1]))
  BY <1>1, HeadShape, Calls, RowOne, Zenon
<1>6. Harmless
  BY <1>1, MildTokens, HarmlessNow, Zenon
<1> QED BY <1>1, <1>3, <1>4, <1>5, <1>6, OneRead, Zenon

LEMMA StructPointer == ASSUME Settled, ParsePointer PROVE StructureInv'
<1>1. Doing("suffixes") /\ "suffixes" \in BareNames /\ Cur = "*"
  BY Zenon DEF ParsePointer, BareNames
<1>2. PICK k : k = Node("pointer", current, LastBase + 1)
  OBVIOUS
<1>3. Step(Forward(current), FALSE, Append(nodes, k), <<Suffixes>>)
  BY <1>2, Zenon DEF ParsePointer, Around
<1>4. Unobtrusive(k)
  <2>1. ~IsLoop("pointer") /\ "pointer" \notin {"inherit", "field"} /\ tokens[current] # "."
    BY <1>1, Zenon DEF IsLoop, Cur
  <2> QED BY <1>2, <2>1, PlainLeaf, Zenon
<1>5. Row(tokens, <<Suffixes>>, Inner(todo[1]))
  BY <1>1, HeadShape, Calls, RowOne, Zenon
<1>6. Harmless
  BY <1>1, MildTokens, HarmlessNow, Zenon
<1> QED BY <1>1, <1>3, <1>4, <1>5, <1>6, OneRead, Zenon

LEMMA StructArrayType == ASSUME Settled, ParseArrayType PROVE StructureInv'
<1> DEFINE c == Forward(current)
           v == <<Expect("]"), Build("array", current, LastBase), Suffixes>>
           w == <<Expr(0), Expect("]"), Build("array", current, LastBase), Suffixes>>
<1>1. Doing("suffixes") /\ "suffixes" \in BareNames /\ Cur = "["
  BY Zenon DEF ParseArrayType, BareNames
<1>2. Harmless
  BY <1>1, MildTokens, HarmlessNow, Zenon
<1>3. Inner(todo[1]) \in BOOLEAN
  BY <1>1, HeadShape
<1>4. Row(tokens, v, Inner(todo[1]))
  BY <1>3, Calls, PlainSits, Signs, RowThree, Zenon
<1>5. Row(tokens, w, Inner(todo[1]))
  BY <1>3, Calls, PlainSits, Signs, RowFour, Zenon
<1>6. CASE tokens[c] = "]"
  <2>1. Step(c, FALSE, nodes, <<>> \o v)
    BY <1>6, Zenon DEF ParseArrayType, Goes
  <2>2. <<>> \o v = v
    OBVIOUS
  <2> HIDE DEF v
  <2>3. Step(c, FALSE, nodes, v)
    BY <2>1, <2>2
  <2> QED BY <1>1, <1>2, <1>4, <2>3, OneRead, Zenon
<1>7. CASE tokens[c] # "]"
  <2>1. Step(c, FALSE, nodes, <<Expr(0)>> \o v)
    BY <1>7, Zenon DEF ParseArrayType, Goes
  <2>2. <<Expr(0)>> \o v = w
    BY Joined, Zenon
  <2> HIDE DEF w, v
  <2>3. Step(c, FALSE, nodes, w)
    BY <2>1, <2>2
  <2> QED BY <1>1, <1>2, <1>5, <2>3, OneRead, Zenon
<1> QED BY <1>6, <1>7

LEMMA StructEndType == ASSUME Settled, EndType PROVE StructureInv'
<1>1. Doing("suffixes") /\ "suffixes" \in BareNames /\ Step(current, FALSE, nodes, <<>>)
  BY Zenon DEF EndType, BareNames, Goes
<1> QED BY <1>1, NoneLeft, Zenon

LEMMA StructEndAnon == ASSUME Settled, EndAnon PROVE StructureInv'
<1>1. Doing("anon") /\ "anon" \in BareNames
  BY Zenon DEF EndAnon, BareNames
<1>2. PICK error \in BOOLEAN : error = (Cur = "EOF")
  OBVIOUS
<1>3. Step(current, error, nodes, <<>>)
  BY <1>2, Zenon DEF EndAnon
<1> QED BY <1>1, <1>3, MaybeLeft

LEMMA StructAnonField == ASSUME Settled, ParseAnonField PROVE StructureInv'
<1> DEFINE c == Forward(current)
           w == <<Type, Default, AnonField(current, Base), Anon>>
<1>1. Doing("anon") /\ "anon" \in BareNames /\ "anon" \in InnerNames /\ Cur = "name"
  BY Zenon DEF ParseAnonField, BareNames, InnerNames
<1>2. CASE tokens[c] # ":"
  <2>1. Step(SyncStmt(SyncStmt(c)), TRUE, nodes, <<Anon>>)
    BY <1>2, Zenon DEF ParseAnonField, Reports
  <2> QED BY <2>1, LoudStructure
<1>3. CASE tokens[c] = ":"
  <2>1. Step(Forward(c), FALSE, nodes, w)
    BY <1>3, Zenon DEF ParseAnonField, Goes
  <2>2. Inner(todo[1]) = TRUE
    BY <1>1, HeadShape
  <2>3. \A a : After(tokens, TRUE, a, AnonField(current, Base))
    BY <1>1, NamedOuter, Leads, Zenon DEF Cur
  <2>4. Row(tokens, w, TRUE)
    BY <2>3, Calls, CallsWithin, RowFour, Zenon
  <2>5. Harmless
    BY <1>1, HarmlessNow, Zenon
  <2>6. Mild(tokens[c])
    BY <1>3, MildTokens, Zenon
  <2>7. Row(tokens, w, Inner(todo[1]))
    BY <2>2, <2>4
  <2> HIDE DEF w
  <2> QED BY <1>1, <2>1, <2>5, <2>6, <2>7, TwoRead, Zenon
<1> QED BY <1>2, <1>3

LEMMA ArgsAre == ASSUME Head(todo) = todo[1] PROVE Arg(1) = todo[1][2] /\ Arg(2) = todo[1][3]
BY DEF Arg

(* The call that is innermost has the name it was made for. *)
LEMMA NamedHead ==
  ASSUME Settled, NEW n \in Readers, Doing(n)
  PROVE  Arg(1) = todo[1][2] /\ tokens[Arg(1)] = "name"
<1>1. Quiet /\ todo # <<>> /\ Head(todo) = todo[1] /\ todo[1][1] = n
  BY HeadShape
<1>2. Arg(1) = todo[1][2] /\ 1 \in DOMAIN todo
  BY <1>1, HeadIs, ArgsAre
<1>3. PICK x, y : WholeNow(x, y)
  BY SettledFacts
<1>4. AtName(tokens, todo[1])
  BY <1>2, <1>3, Zenon DEF WholeNow, Whole, Placed
<1>5. Declares(todo[1]) \/ todo[1][1] = "anon field"
  BY <1>1, Zenon DEF Declares, Readers
<1> QED BY <1>2, <1>4, <1>5, Zenon DEF AtName

LEMMA StructEndField == ASSUME Settled, EndAnonField PROVE StructureInv'
<1>1. Doing("anon field") /\ "anon field" \in BareNames /\ "anon field" \in InnerNames
  BY Zenon DEF EndAnonField, BareNames, InnerNames
<1>2. CASE Cur # ";"
  <2>1. Step(SyncStmt(SyncStmt(current)), TRUE, Below(Arg(2)), <<>>)
    BY <1>2, Zenon DEF EndAnonField
  <2> QED BY <2>1, LoudStructure
<1>3. CASE Cur = ";"
  <2> DEFINE w == <<Build("field", Arg(1), Arg(2))>>
  <2>1. Step(Forward(current), FALSE, nodes, w)
    BY <1>3, Zenon DEF EndAnonField, Goes
  <2>2. Inner(todo[1]) /\ Quiet /\ Inner(todo[1]) \in BOOLEAN
    BY <1>1, HeadShape
  <2>3. tokens[Arg(1)] = "name"
    <3>1. "anon field" \in Readers
      BY Zenon DEF Readers
    <3> QED BY <1>1, <3>1, NamedHead
  <2>4. Row(tokens, w, Inner(todo[1]))
    BY <2>2, <2>3, Calls, PlainSits, RowOne, Zenon
  <2> HIDE DEF w
  <2>5. Idles(current)
    <3>1. Dull(Cur)
      BY <1>3, DullTokens, Zenon DEF SemiSign
    <3> QED BY <3>1 DEF Idles, Cur
  <2>6. Still(Forward(current), w) /\ Forward(current) \in Positions /\ current <= Forward(current)
    BY <2>2, <2>5, StillFacts
  <2>7. StartsRight(Forward(current), w)
    BY <2>2, StartsFacts
  <2> QED BY <1>1, <2>1, <2>4, <2>6, <2>7, PlainGoes
<1> QED BY <1>2, <1>3

-----------------------------------------------------------------------------
(* The steps of the parser of statements.                                  *)

(* A token that is read is no trouble. *)
Fine(w, i) ==
  Idles(i) \/ (tokens[i] \notin Bounds /\ \E k \in 1 .. Len(w) : StandsIn(tokens, w[k], i))

LEMMA StillSteps ==
  ASSUME Quiet
  PROVE  /\ \A w : Fine(w, current) => Still(Forward(current), w)
         /\ \A w : Fine(w, current) /\ Fine(w, Forward(current)) => Still(Forward(Forward(current)), w)
         /\ \A w : Fine(w, current) /\ Fine(w, Forward(current)) /\ Fine(w, Forward(Forward(current))) =>
              Still(Forward(Forward(Forward(current))), w)
         /\ Forward(Forward(Forward(current))) \in Positions
         /\ current <= Forward(Forward(Forward(current)))
<1> DEFINE c == Forward(current)
           d == Forward(Forward(current))
           e == Forward(Forward(Forward(current)))
<1>0. c \in Positions /\ current <= c /\ \A i \in current .. c - 1 : i = current
  BY QuietFacts, Passed
<1>1. d \in Positions /\ current <= d /\ \A i \in current .. d - 1 : i = current \/ i = c
  BY QuietFacts, PassedTwo
<1>2. e \in Positions /\ d <= e /\ \A i \in d .. e - 1 : i = d
  BY <1>1, Passed
<1> HIDE DEF c, d, e
<1>3. current \in Int /\ d \in Int /\ e \in Int
  BY <1>1, <1>2, QuietFacts DEF Positions
<1>4. \A i \in current .. e - 1 : i \in current .. d - 1 \/ i \in d .. e - 1
  BY <1>1, <1>2, <1>3
<1>5. \A i \in current .. e - 1 : i = current \/ i = c \/ i = d
  BY <1>1, <1>2, <1>4
<1>6. current <= e
  BY <1>1, <1>2, <1>3
<1> QED BY <1>0, <1>1, <1>2, <1>5, <1>6, Zenon DEF Still, Fine, c, d, e

LEMMA InnerHead ==
  ASSUME Settled, NEW n \in InnerNames, Doing(n)
  PROVE  Inner(todo[1]) = TRUE /\ \A d, w : StartsRight(d, w)
<1>1. Inner(todo[1]) /\ Inner(todo[1]) \in BOOLEAN
  BY HeadShape
<1> QED BY <1>1, StartsFacts

(* A dull token is read. *)
LEMMA DullRead ==
  ASSUME Settled, NEW n \in BareNames, Doing(n), Dull(Cur), NEW w, Row(tokens, w, Inner(todo[1])),
         n \in InnerNames \/ Len(w) = 0 \/ ~Starter(w[1])
  PROVE  /\ Step(Forward(current), FALSE, nodes, w) => StructureInv'
         /\ \A k : Unobtrusive(k) /\ Step(Forward(current), FALSE, Append(nodes, k), w) => StructureInv'
<1>1. Quiet /\ (Inner(todo[1]) <=> n \in InnerNames)
  BY HeadShape
<1>2. Idles(current)
  BY DEF Idles, Cur
<1>3. Forward(current) \in Positions /\ current <= Forward(current) /\ Still(Forward(current), w)
  BY <1>1, <1>2, StillFacts, Zenon
<1>4. StartsRight(Forward(current), w)
  BY <1>1, StartsFacts, Zenon
<1>5. ASSUME Step(Forward(current), FALSE, nodes, w) PROVE StructureInv'
  BY <1>3, <1>4, <1>5, PlainGoes
<1>6. ASSUME NEW k, Unobtrusive(k), Step(Forward(current), FALSE, Append(nodes, k), w) PROVE StructureInv'
  BY <1>3, <1>4, <1>6, PlainMakes
<1> QED BY <1>5, <1>6

LEMMA StructEmptyBlock == ASSUME Settled, EmptyBlock PROVE StructureInv'
<1>1. Doing("stmt") /\ "stmt" \in BareNames /\ Cur = ";"
  BY Zenon DEF EmptyBlock, BareNames
<1>2. PICK k : k = Node("block", current, Base + 1)
  OBVIOUS
<1>3. Step(Forward(current), FALSE, Append(nodes, k), <<>>)
  BY <1>2, Zenon DEF EmptyBlock, Makes, Leaf
<1>4. Unobtrusive(k)
  <2>1. ~IsLoop("block") /\ "block" \notin {"inherit", "field"} /\ "block" \notin Named
    BY Zenon DEF IsLoop, Named
  <2> QED BY <1>2, <2>1, PlainLeaf, Zenon
<1>5. Row(tokens, <<>>, Inner(todo[1])) /\ Len(<<>>) = 0
  BY RowOne
<1>6. Dull(Cur)
  BY <1>1, DullTokens, Zenon DEF SemiSign
<1> QED BY <1>1, <1>3, <1>4, <1>5, <1>6, DullRead, Zenon

LEMMA StructNoStmt == ASSUME Settled, NoStmt PROVE StructureInv'
<1>1. Doing("stmt") /\ "stmt" \in BareNames
  BY Zenon DEF NoStmt, BareNames
<1>2. PICK k : k = Node("none", current, Base + 1)
  OBVIOUS
<1>3. Step(current, FALSE, Append(nodes, k), <<>>)
  BY <1>2, Zenon DEF NoStmt, Makes, Leaf
<1>4. Unobtrusive(k)
  <2>1. ~IsLoop("none") /\ "none" \notin {"inherit", "field"} /\ "none" \notin Named
    BY Zenon DEF IsLoop, Named
  <2> QED BY <1>2, <2>1, PlainLeaf, Zenon
<1>5. Row(tokens, <<>>, Inner(todo[1])) /\ Len(<<>>) = 0
  BY RowOne
<1> QED BY <1>1, <1>3, <1>4, <1>5, NoneRead, Zenon

LEMMA StructExprStmt == ASSUME Settled, ParseExprStmt PROVE StructureInv'
<1> DEFINE w == <<Expr(0), Expect(";"), Build("expr stmt", current, Base)>>
<1>1. Doing("stmt") /\ "stmt" \in BareNames /\ "stmt" \in InnerNames /\ Step(current, FALSE, nodes, w)
  BY Zenon DEF ParseExprStmt, BareNames, InnerNames, Goes
<1>2. Row(tokens, w, Inner(todo[1]))
  <2>1. Inner(todo[1]) \in BOOLEAN
    BY <1>1, HeadShape
  <2> QED BY <2>1, Calls, PlainSits, Signs, RowThree, Zenon DEF SemiSign
<1> HIDE DEF w
<1> QED BY <1>1, <1>2, NoneRead, Zenon

LEMMA StructEndStmts == ASSUME Settled, EndStmts PROVE StructureInv'
<1>1. Doing("stmts") /\ "stmts" \in BareNames
  BY Zenon DEF EndStmts, BareNames
<1>2. PICK error \in BOOLEAN : error = (Cur = "EOF")
  OBVIOUS
<1>3. Step(current, error, nodes, <<>>)
  BY <1>2, Zenon DEF EndStmts
<1> QED BY <1>1, <1>3, MaybeLeft

LEMMA StructNextStmt == ASSUME Settled, NextStmt PROVE StructureInv'
<1> DEFINE w == <<Stmt, Stmts>>
<1>1. Doing("stmts") /\ "stmts" \in BareNames /\ "stmts" \in InnerNames /\ Step(current, FALSE, nodes, w)
  BY Zenon DEF NextStmt, BareNames, InnerNames, Goes
<1>2. Row(tokens, w, TRUE)
  BY CallsWithin, RowTwo, Zenon
<1>3. Row(tokens, w, Inner(todo[1]))
  BY <1>1, <1>2, InnerHead
<1> HIDE DEF w
<1> QED BY <1>1, <1>3, NoneRead, Zenon

(* What stands for a keyword and for the name of a declaration. *)
LEMMA StandsFacts ==
  /\ \A at, b : tokens[at] \in StmtKeywords => StandsIn(tokens, Build(tokens[at], at, b), at)
  /\ \A at, i, b : tokens[i] = "var" /\ at = i + 1 => StandsIn(tokens, Build("decl", at, b), i)
  /\ \A at, b : tokens[at] = "if" => StandsIn(tokens, Then(at, b), at)
  /\ \A at, b : tokens[at] = "name" =>
       /\ StandsIn(tokens, Body(at, b), at) /\ StandsIn(tokens, FuncReturns(at, b), at)
       /\ StandsIn(tokens, FuncBody(at, b), at)
       /\ StandsIn(tokens, Build("func", at, b), at) /\ StandsIn(tokens, Build("blueprint", at, b), at)
<1>1. ASSUME NEW n, NEW at, NEW b, NEW i, Stands(tokens, n, at, i) PROVE StandsIn(tokens, Build(n, at, b), i)
  <2>1. Build(n, at, b)[1] = "build" /\ Build(n, at, b)[2] = n /\ Build(n, at, b)[3] = at
    BY DEF Build
  <2> QED BY <1>1, <2>1 DEF StandsIn, IsBuild
<1>2. \A at : tokens[at] \in StmtKeywords => Stands(tokens, tokens[at], at, at)
  BY Zenon DEF Stands
<1>3. \A at, i : tokens[i] = "var" /\ at = i + 1 => Stands(tokens, "decl", at, i)
  BY Zenon DEF Stands
<1>4. \A at : tokens[at] = "name" => Stands(tokens, "func", at, at) /\ Stands(tokens, "blueprint", at, at)
  BY Zenon DEF Stands
<1>5. \A at, b : Then(at, b)[1] = "then" /\ Then(at, b)[2] = at
  BY DEF Then
<1>6. \A at, b : tokens[at] = "if" => StandsIn(tokens, Then(at, b), at)
  BY <1>5, Zenon DEF StandsIn, IsThen
<1>7. \A at, b : Body(at, b)[2] = at /\ FuncReturns(at, b)[2] = at /\ FuncBody(at, b)[2] = at
                /\ Declares(Body(at, b)) /\ Declares(FuncReturns(at, b)) /\ Declares(FuncBody(at, b))
  BY DEF Body, FuncReturns, FuncBody, Declares
<1>8. \A at, b : tokens[at] = "name" =>
       /\ StandsIn(tokens, Body(at, b), at) /\ StandsIn(tokens, FuncReturns(at, b), at)
       /\ StandsIn(tokens, FuncBody(at, b), at)
  BY <1>7, Zenon DEF StandsIn
<1> QED BY <1>1, <1>2, <1>3, <1>4, <1>6, <1>8, Zenon

LEMMA NoBounds ==
  /\ \A t \in StmtKeywords : t \notin Bounds
  /\ "var" \notin Bounds /\ "name" \notin Bounds
BY Zenon DEF StmtKeywords, Bounds, LeftBrace, RightBrace

(* A keyword is read that the work stands for. *)
LEMMA KeywordRead ==
  ASSUME Settled, NEW n \in BareNames \cap InnerNames, Doing(n), Cur \notin Bounds,
         NEW w, Row(tokens, w, TRUE), NEW k \in 1 .. Len(w), StandsIn(tokens, w[k], current)
  PROVE  /\ Step(Forward(current), FALSE, nodes, w) => StructureInv'
         /\ Fine(w, Forward(current)) /\ Step(Forward(Forward(current)), FALSE, nodes, w) => StructureInv'
         /\ Fine(w, Forward(current)) /\ Fine(w, Forward(Forward(current)))
              /\ Step(Forward(Forward(Forward(current))), FALSE, nodes, w) => StructureInv'
<1>1. Quiet /\ n \in BareNames /\ n \in InnerNames
  BY HeadShape
<1>2. Fine(w, current)
  BY DEF Fine, Cur
<1>3. Row(tokens, w, Inner(todo[1])) /\ \A d : StartsRight(d, w)
  BY <1>1, InnerHead
<1>4. ASSUME NEW d \in Positions, current <= d, Still(d, w), Step(d, FALSE, nodes, w) PROVE StructureInv'
  BY <1>1, <1>3, <1>4, PlainGoes
<1>5. /\ Forward(current) \in Positions /\ current <= Forward(current)
      /\ Forward(Forward(current)) \in Positions /\ current <= Forward(Forward(current))
      /\ Forward(Forward(Forward(current))) \in Positions
      /\ current <= Forward(Forward(Forward(current)))
  BY <1>1, StillFacts, StillSteps
<1>6. /\ Still(Forward(current), w)
      /\ Fine(w, Forward(current)) => Still(Forward(Forward(current)), w)
      /\ Fine(w, Forward(current)) /\ Fine(w, Forward(Forward(current))) =>
           Still(Forward(Forward(Forward(current))), w)
  BY <1>1, <1>2, StillSteps
<1> QED BY <1>4, <1>5, <1>6, Zenon

LEMMA FineTokens ==
  ASSUME Settled, NEW n, Doing(n)
  PROVE  /\ \A i, w : Dull(tokens[i]) => Fine(w, i)
         /\ Cur # "EOF" /\ ~Ends(Cur) /\ tokens[Forward(current)] = "name" => \A w : Fine(w, Forward(current))
<1>1. \A i, w : Idles(i) => Fine(w, i)
  BY DEF Fine
<1> QED BY <1>1, IdleNames, Zenon DEF Idles

LEMMA StructReturn == ASSUME Settled, ParseReturn PROVE StructureInv'
<1> DEFINE c == Forward(current)
           v == <<Expect(";"), Build("return", current, Base)>>
           w == <<Expr(0), Expect(";"), Build("return", current, Base)>>
<1>1. Doing("stmt") /\ "stmt" \in BareNames \cap InnerNames /\ Cur = "return"
  BY Zenon DEF ParseReturn, BareNames, InnerNames
<1>2. Cur \notin Bounds /\ StandsIn(tokens, Build("return", current, Base), current)
  <2>1. Cur \in StmtKeywords
    BY <1>1, Zenon DEF StmtKeywords
  <2>2. tokens[current] \in StmtKeywords /\ tokens[current] = "return"
    BY <1>1, <2>1 DEF Cur
  <2> QED BY <2>1, <2>2, NoBounds, StandsFacts, Zenon
<1>3. Row(tokens, v, TRUE) /\ Len(v) = 2 /\ v[2] = Build("return", current, Base)
  BY Calls, PlainSits, Signs, RowTwo, Zenon DEF SemiSign
<1>4. Row(tokens, w, TRUE) /\ Len(w) = 3 /\ w[3] = Build("return", current, Base)
  BY Calls, PlainSits, Signs, RowThree, Zenon DEF SemiSign
<1>5. CASE tokens[c] \in {";", "}", "EOF"}
  <2>1. Step(c, FALSE, nodes, <<>> \o v)
    BY <1>5, Zenon DEF ParseReturn, Goes
  <2>2. <<>> \o v = v
    OBVIOUS
  <2> HIDE DEF v
  <2>3. Step(c, FALSE, nodes, v)
    BY <2>1, <2>2
  <2>4. 2 \in 1 .. Len(v) /\ StandsIn(tokens, v[2], current)
    BY <1>2, <1>3
  <2> QED BY <1>1, <1>2, <1>3, <2>3, <2>4, KeywordRead
<1>6. CASE tokens[c] \notin {";", "}", "EOF"}
  <2>1. Step(c, FALSE, nodes, <<Expr(0)>> \o v)
    BY <1>6, Zenon DEF ParseReturn, Goes
  <2>2. <<Expr(0)>> \o v = w
    BY JoinedTwo, Zenon
  <2> HIDE DEF v, w
  <2>3. Step(c, FALSE, nodes, w)
    BY <2>1, <2>2
  <2>4. 3 \in 1 .. Len(w) /\ StandsIn(tokens, w[3], current)
    BY <1>2, <1>4
  <2> QED BY <1>1, <1>2, <1>4, <2>3, <2>4, KeywordRead
<1> QED BY <1>5, <1>6

LEMMA StructExit == ASSUME Settled, ParseExit PROVE StructureInv'
<1> DEFINE w == <<Expect(";"), Build(Cur, current, Base)>>
<1>1. Doing("stmt") /\ "stmt" \in BareNames \cap InnerNames /\ Cur \in {"break", "continue"}
  BY Zenon DEF ParseExit, BareNames, InnerNames
<1>2. Step(Forward(current), FALSE, nodes, w)
  BY Zenon DEF ParseExit, Goes
<1>3. Cur \notin Bounds /\ StandsIn(tokens, Build(Cur, current, Base), current)
  <2>1. Cur \in StmtKeywords
    BY <1>1, Zenon DEF StmtKeywords
  <2> QED BY <2>1, NoBounds, StandsFacts, Zenon DEF Cur
<1>4. Sits(tokens, Cur, current)
  <2>1. Cur \in {"unary", "binary", "call", "index", "init", "cast", "array", "anon", "block", "expr stmt",
                 "return", "break", "continue", "if", "for"}
    BY <1>1, Zenon
  <2> QED BY <2>1, PlainSits, Zenon
<1>5. Row(tokens, w, TRUE) /\ Len(w) = 2 /\ w[2] = Build(Cur, current, Base)
  BY <1>4, Calls, Signs, RowTwo, Zenon DEF SemiSign
<1> HIDE DEF w
<1>6. 2 \in 1 .. Len(w) /\ StandsIn(tokens, w[2], current)
  BY <1>3, <1>5
<1> QED BY <1>1, <1>2, <1>3, <1>5, <1>6, KeywordRead

LEMMA StructDecl == ASSUME Settled, ParseDecl PROVE StructureInv'
<1> DEFINE c == Forward(current)
           d == Forward(c)
           w == <<Type, Default, Expect(";"), Build("decl", c, Base)>>
<1>1. Doing("stmt") /\ "stmt" \in BareNames \cap InnerNames /\ Cur = "var"
  BY Zenon DEF ParseDecl, BareNames, InnerNames
<1>2. CASE tokens[c] # "name"
  <2>1. Step(SyncStmt(c), TRUE, Leaf("error", current), <<>>)
    BY <1>2 DEF ParseDecl
  <2> QED BY <2>1, LoudStructure
<1>3. CASE tokens[c] = "name" /\ tokens[d] # ":"
  <2>1. Step(SyncStmt(SyncStmt(d)), TRUE, Leaf("error", current), <<>>)
    BY <1>3 DEF ParseDecl
  <2> QED BY <2>1, LoudStructure
<1>4. CASE tokens[c] = "name" /\ tokens[d] = ":"
  <2>1. Step(Forward(d), FALSE, nodes, w)
    <3>1. Goes(Forward(d), w)
      BY <1>4 DEF ParseDecl
    <3> QED BY <3>1, Zenon DEF Goes
  <2>2. Row(tokens, w, TRUE) /\ Len(w) = 4 /\ w[4] = Build("decl", c, Base)
    BY <1>4, Calls, PlainSits, Signs, RowFour, Zenon DEF SemiSign
  <2>3. StandsIn(tokens, Build("decl", c, Base), current) /\ Cur \notin Bounds /\ Cur # "EOF" /\ ~Ends(Cur)
    <3>1. Cur # "EOF" /\ ~Ends(Cur)
      BY <1>1, Zenon DEF Ends, SemiSign, RightBrace
    <3>2. c = current + 1 /\ tokens[current] = "var"
      BY <1>1, <3>1, HeadShape, StillFacts DEF Cur
    <3> QED BY <1>1, <3>1, <3>2, NoBounds, StandsFacts, Zenon
  <2> HIDE DEF w
  <2>4. 4 \in 1 .. Len(w) /\ StandsIn(tokens, w[4], current)
    BY <2>2, <2>3
  <2>5. Fine(w, c) /\ Fine(w, d)
    <3>1. Dull(tokens[d])
      BY <1>4, DullTokens, Zenon
    <3> QED BY <1>1, <1>4, <2>3, <3>1, FineTokens, Zenon
  <2> QED BY <1>1, <2>1, <2>2, <2>3, <2>4, <2>5, KeywordRead
<1> QED BY <1>2, <1>3, <1>4

LEMMA StructIf == ASSUME Settled, ParseIf PROVE StructureInv'
<1> DEFINE c == Forward(current)
           w == <<Expr(0), Then(current, Base)>>
<1>1. Doing("stmt") /\ "stmt" \in BareNames \cap InnerNames /\ Cur = "if"
  BY Zenon DEF ParseIf, BareNames, InnerNames
<1>2. CASE tokens[c] # "("
  <2>1. Step(SyncStmt(c), TRUE, Leaf("block", current), <<>>)
    BY <1>2, Zenon DEF ParseIf
  <2> QED BY <2>1, LoudStructure
<1>3. CASE tokens[c] = "("
  <2>1. Step(Forward(c), FALSE, nodes, w)
    BY <1>3, Zenon DEF ParseIf, Goes
  <2>2. Row(tokens, w, TRUE) /\ Len(w) = 2 /\ w[2] = Then(current, Base)
    BY Calls, CallsWithin, RowTwo, Zenon
  <2>3. StandsIn(tokens, Then(current, Base), current) /\ Cur \notin Bounds
    <3>1. tokens[current] = "if" /\ Cur \in StmtKeywords
      BY <1>1, Zenon DEF Cur, StmtKeywords
    <3> QED BY <3>1, NoBounds, StandsFacts, Zenon
  <2> HIDE DEF w
  <2>4. 2 \in 1 .. Len(w) /\ StandsIn(tokens, w[2], current)
    BY <2>2, <2>3
  <2>5. Fine(w, c)
    <3>1. Dull(tokens[c])
      BY <1>3, DullTokens, Zenon
    <3> QED BY <1>1, <3>1, FineTokens, Zenon
  <2> QED BY <1>1, <2>1, <2>2, <2>3, <2>4, <2>5, KeywordRead
<1> QED BY <1>2, <1>3

LEMMA StructElse == ASSUME Settled, ParseElse PROVE StructureInv'
<1>1. Doing("else") /\ "else" \in BareNames /\ "else" \in InnerNames
  BY Zenon DEF ParseElse, BareNames, InnerNames
<1>2. CASE Cur = "else"
  <2>1. Step(Forward(current), FALSE, nodes, <<Stmt>>)
    BY <1>2, Zenon DEF ParseElse, Goes
  <2>2. Row(tokens, <<Stmt>>, TRUE)
    BY CallsWithin, RowOne, Zenon
  <2>3. Row(tokens, <<Stmt>>, Inner(todo[1]))
    BY <1>1, <2>2, InnerHead
  <2>4. Harmless
    BY <1>1, <1>2, MildTokens, HarmlessNow, Zenon
  <2> QED BY <1>1, <2>1, <2>3, <2>4, OneRead, Zenon
<1>3. CASE Cur # "else"
  <2>1. Step(current, FALSE, nodes, <<>>)
    BY <1>3, Zenon DEF ParseElse, Goes
  <2> QED BY <1>1, <2>1, NoneLeft, Zenon
<1> QED BY <1>2, <1>3

LEMMA StructClause == ASSUME Settled, ParseClause PROVE StructureInv'
<1>1. Doing("clause") /\ "clause" \in BareNames /\ "clause" \in InnerNames
  BY Zenon DEF ParseClause, BareNames, InnerNames
<1>2. CASE Cur = Arg(1)
  <2>1. Step(current, FALSE, nodes, <<>>)
    BY <1>2, Zenon DEF ParseClause, Goes
  <2> QED BY <1>1, <2>1, NoneLeft, Zenon
<1>3. CASE Cur # Arg(1)
  <2>1. Step(current, FALSE, nodes, <<Expr(0)>>)
    BY <1>3, Zenon DEF ParseClause, Goes
  <2>2. Row(tokens, <<Expr(0)>>, Inner(todo[1]))
    BY <1>1, HeadShape, Calls, RowOne, Zenon
  <2> QED BY <1>1, <2>1, <2>2, NoneRead, Zenon
<1> QED BY <1>2, <1>3

-----------------------------------------------------------------------------
(* The steps of the parser of declarations.                                *)

LEMMA StructNextDeclaration == ASSUME Settled, NextDeclaration PROVE StructureInv'
<1> DEFINE w == <<Declaration, Program>>
<1>1. Doing("program") /\ "program" \in BareNames /\ Step(current, FALSE, nodes, w)
  BY Zenon DEF NextDeclaration, BareNames, Goes
<1>2. Row(tokens, w, Inner(todo[1])) /\ ~Starter(w[1])
  <2>1. Inner(todo[1]) \in BOOLEAN
    BY <1>1, HeadShape
  <2>2. Row(tokens, w, Inner(todo[1]))
    BY <2>1, Calls, RowTwo, Zenon
  <2>3. w[1] = Declaration
    OBVIOUS
  <2>4. Outer(tokens, Declaration)
    BY OuterTasks, Zenon
  <2> QED BY <2>2, <2>3, <2>4 DEF Outer
<1> HIDE DEF w
<1> QED BY <1>1, <1>2, NoneRead, Zenon

LEMMA StructEndProgram == ASSUME Settled, EndProgram PROVE StructureInv'
<1>1. Doing("program") /\ "program" \in BareNames /\ Step(current, FALSE, nodes, <<>>)
  BY Zenon DEF EndProgram, BareNames, Goes
<1> QED BY <1>1, NoneLeft, Zenon

(* The name of a declaration and the sign behind it are read. *)
LEMMA NameRead ==
  ASSUME Settled, Doing("declaration"), Cur = "name", Mild(tokens[Forward(current)]),
         NEW w, Row(tokens, w, Inner(todo[1])), NEW k \in 1 .. Len(w), StandsIn(tokens, w[k], current),
         Step(Forward(Forward(current)), FALSE, nodes, w)
  PROVE  StructureInv'
<1> DEFINE d == Forward(Forward(current))
<1>1. Quiet /\ "declaration" \in BareNames
  BY HeadShape, Zenon DEF BareNames
<1>2. Fine(w, current) /\ Fine(w, Forward(current))
  <2>1. tokens[current] \notin Bounds
    BY NoBounds, Zenon DEF Cur
  <2>2. Fine(w, current)
    BY <2>1 DEF Fine
  <2>3. Fine(w, Forward(current))
    BY FineTokens, Zenon DEF Mild
  <2> QED BY <2>2, <2>3
<1>3. Cur # "EOF" /\ tokens[Forward(current)] # "EOF" /\ ~Ends(tokens[Forward(current)])
  BY Zenon DEF Mild
<1>4. d \in Positions /\ current <= d /\ Still(d, w) /\ d > 1 /\ d - 1 = Forward(current)
  BY <1>1, <1>2, <1>3, StillFacts, StillSteps, Zenon
<1>5. StartsRight(d, w)
  BY <1>3, <1>4, StartsFacts, Zenon
<1> HIDE DEF d
<1>6. Step(d, FALSE, nodes, w)
  BY DEF d
<1> QED BY <1>1, <1>4, <1>5, <1>6, PlainGoes

LEMMA StructBlueprint == ASSUME Settled, ParseBlueprint PROVE StructureInv'
<1> DEFINE w == <<Parents, Body(current, Base)>>
<1>1. Doing("declaration") /\ Cur = "name" /\ Step(Forward(Forward(current)), FALSE, nodes, w)
  BY Zenon DEF ParseBlueprint, StartsBlueprint, Goes
<1>2. Mild(tokens[Forward(current)])
  <2>1. tokens[Forward(current)] = ":"
    BY <1>1, HeadShape, PeekOne DEF ParseBlueprint, StartsBlueprint
  <2> QED BY <2>1, MildTokens, Zenon
<1>3. tokens[current] = "name" /\ StandsIn(tokens, Body(current, Base), current)
      /\ Inner(todo[1]) \in BOOLEAN
  BY <1>1, HeadShape, StandsFacts, Zenon DEF Cur
<1>4. Row(tokens, w, Inner(todo[1])) /\ Len(w) = 2 /\ w[2] = Body(current, Base)
  <2>1. \A a : After(tokens, Inner(todo[1]), a, Body(current, Base))
    BY <1>3, NamedOuter, Leads, Zenon
  <2> QED BY <1>3, <2>1, Calls, RowTwo, Zenon
<1> HIDE DEF w
<1>5. 2 \in 1 .. Len(w) /\ StandsIn(tokens, w[2], current)
  BY <1>3, <1>4
<1> QED BY <1>1, <1>2, <1>4, <1>5, NameRead

LEMMA StructFunc == ASSUME Settled, ParseFunc PROVE StructureInv'
<1> DEFINE w == <<FuncParams, ExpectOr(")", "decl"), FuncReturns(current, Base)>>
<1>1. Doing("declaration") /\ Cur = "name" /\ Step(Forward(Forward(current)), FALSE, nodes, w)
  BY Zenon DEF ParseFunc, StartsFunc, Goes
<1>2. Mild(tokens[Forward(current)])
  <2>1. tokens[Forward(current)] = "("
    BY <1>1, HeadShape, PeekOne, Zenon DEF ParseFunc, StartsFunc
  <2> QED BY <2>1, MildTokens, Zenon
<1>3. tokens[current] = "name" /\ StandsIn(tokens, FuncReturns(current, Base), current)
      /\ Inner(todo[1]) \in BOOLEAN
  BY <1>1, HeadShape, StandsFacts, Zenon DEF Cur
<1>4. Row(tokens, w, Inner(todo[1])) /\ Len(w) = 3 /\ w[3] = FuncReturns(current, Base)
  <2>1. \A a : After(tokens, Inner(todo[1]), a, FuncReturns(current, Base))
    BY <1>3, NamedOuter, Leads, Zenon
  <2> QED BY <1>3, <2>1, Calls, Signs, RowThree, Zenon
<1> HIDE DEF w
<1>5. 3 \in 1 .. Len(w) /\ StandsIn(tokens, w[3], current)
  BY <1>3, <1>4
<1> QED BY <1>1, <1>2, <1>4, <1>5, NameRead

LEMMA StructEndParents == ASSUME Settled, EndParents PROVE StructureInv'
<1>1. Doing("parents") /\ "parents" \in BareNames /\ Step(current, FALSE, nodes, <<>>)
  BY Zenon DEF EndParents, BareNames, Goes
<1> QED BY <1>1, NoneLeft, Zenon

LEMMA StructNextParent == ASSUME Settled, NextParent PROVE StructureInv'
<1>1. Doing("after parent") /\ "after parent" \in BareNames
  BY Zenon DEF NextParent, BareNames
<1>2. CASE Cur = ","
  <2>1. Step(Forward(current), FALSE, nodes, <<Parents>>)
    BY <1>2 DEF NextParent, Goes
  <2>2. Row(tokens, <<Parents>>, Inner(todo[1]))
    BY <1>1, HeadShape, Calls, RowOne, Zenon
  <2>3. Harmless
    BY <1>1, <1>2, MildTokens, HarmlessNow, Zenon
  <2> QED BY <1>1, <2>1, <2>2, <2>3, OneRead, Zenon
<1>3. CASE Cur = "{"
  <2>1. Step(current, FALSE, nodes, <<>>)
    BY <1>3 DEF NextParent, Goes
  <2> QED BY <1>1, <2>1, NoneLeft, Zenon
<1>4. CASE Cur = "EOF"
  <2>1. Step(current, TRUE, nodes, <<>>)
    BY <1>4 DEF NextParent, Reports
  <2> QED BY <2>1, LoudStructure
<1>5. CASE Cur \notin {",", "{", "EOF"}
  <2>1. Step(SyncDecl(current), TRUE, nodes, <<Parents>>)
    BY <1>5 DEF NextParent, Reports
  <2> QED BY <2>1, LoudStructure
<1> QED BY <1>2, <1>3, <1>4, <1>5, Zenon

LEMMA StructEndMembers == ASSUME Settled, EndMembers PROVE StructureInv'
<1>1. Doing("members") /\ "members" \in BareNames
  BY Zenon DEF EndMembers, BareNames
<1>2. PICK error \in BOOLEAN : error = (Cur = "EOF")
  OBVIOUS
<1>3. Step(current, error, nodes, <<>>)
  BY <1>2, Zenon DEF EndMembers
<1> QED BY <1>1, <1>3, MaybeLeft

LEMMA StructField == ASSUME Settled, ParseField PROVE StructureInv'
<1> DEFINE w == <<Type, Default, Build("field", current, Base), ExpectOr(";", "stmt"), Members>>
<1>1. Doing("members") /\ "members" \in BareNames /\ "members" \in InnerNames /\ Cur = "name"
      /\ Step(Forward(Forward(current)), FALSE, nodes, w)
  BY Zenon DEF ParseField, BareNames, InnerNames, Goes
<1>2. Mild(tokens[Forward(current)])
  <2>1. tokens[Forward(current)] = ":"
    BY <1>1, HeadShape, PeekOne, Zenon DEF ParseField
  <2> QED BY <2>1, MildTokens, Zenon
<1>3. tokens[current] = "name"
  BY <1>1, Zenon DEF Cur
<1>4. Row(tokens, w, TRUE)
  BY <1>3, Calls, CallsWithin, PlainSits, Signs, RowFive, Zenon DEF SemiSign
<1>5. Row(tokens, w, Inner(todo[1]))
  BY <1>1, <1>4, InnerHead
<1>6. Harmless
  BY <1>1, HarmlessNow, Zenon
<1> HIDE DEF w
<1> QED BY <1>1, <1>2, <1>5, <1>6, TwoRead, Zenon

LEMMA StructMethod == ASSUME Settled, ParseMethod PROVE StructureInv'
<1> DEFINE w == <<Self, Params, Expect(")"), Returns, Build("method", current, Base), Members>>
<1>1. Doing("members") /\ "members" \in BareNames /\ "members" \in InnerNames /\ Cur = "name"
      /\ Step(Forward(Forward(current)), FALSE, nodes, w)
  BY Zenon DEF ParseMethod, BareNames, InnerNames, Goes
<1>2. Mild(tokens[Forward(current)])
  <2>1. tokens[Forward(current)] = "("
    BY <1>1, HeadShape, PeekOne, Zenon DEF ParseMethod
  <2> QED BY <2>1, MildTokens, Zenon
<1>3. tokens[current] = "name"
  BY <1>1, Zenon DEF Cur
<1>4. Row(tokens, w, TRUE)
  BY <1>3, Calls, CallsWithin, PlainSits, Signs, RowSix, Zenon
<1>5. Row(tokens, w, Inner(todo[1]))
  BY <1>1, <1>4, InnerHead
<1>6. Harmless
  BY <1>1, HarmlessNow, Zenon
<1> HIDE DEF w
<1> QED BY <1>1, <1>2, <1>5, <1>6, TwoRead, Zenon

LEMMA StructSelf == ASSUME Settled, ParseSelf PROVE StructureInv'
<1>1. Doing("self") /\ "self" \in BareNames
  BY Zenon DEF ParseSelf, BareNames
<1>2. PICK k : k = Node("param", current, Base + 1)
  OBVIOUS
<1>3. Row(tokens, <<>>, Inner(todo[1])) /\ Peek(1) = tokens[Forward(current)]
  BY <1>1, RowOne, HeadShape, PeekOne
<1>4. Cur = "self" => Harmless /\ Unobtrusive(k)
  <2> SUFFICES ASSUME Cur = "self" PROVE Harmless /\ Unobtrusive(k)
    OBVIOUS
  <2>1. Harmless
    BY <1>1, MildTokens, HarmlessNow, Zenon
  <2>2. ~IsLoop("param") /\ "param" \notin {"inherit", "field"} /\ tokens[current] # "."
    BY Zenon DEF IsLoop, Cur
  <2> QED BY <1>2, <2>1, <2>2, PlainLeaf, Zenon
<1>5. CASE Cur = "self" /\ Peek(1) = ")"
  <2>1. Step(Forward(current), FALSE, Append(nodes, k), <<>>)
    BY <1>2, <1>5 DEF ParseSelf, Makes, Leaf
  <2> QED BY <1>1, <1>3, <1>4, <1>5, <2>1, OneRead, Zenon
<1>6. CASE Cur = "self" /\ Peek(1) = ","
  <2>0. PICK error \in BOOLEAN : error = (Peek(2) = ")")
    OBVIOUS
  <2>1. Step(Forward(Forward(current)), error, Append(nodes, k), <<>>)
    BY <1>2, <1>6, <2>0 DEF ParseSelf, Leaf
  <2>2. CASE error = TRUE
    BY <2>1, <2>2, LoudStructure
  <2>3. CASE error = FALSE
    <3>1. Step(Forward(Forward(current)), FALSE, Append(nodes, k), <<>>)
      BY <2>1, <2>3
    <3>2. Mild(tokens[Forward(current)])
      BY <1>3, <1>6, MildTokens, Zenon
    <3> QED BY <1>1, <1>3, <1>4, <1>6, <3>1, <3>2, TwoRead, Zenon
  <2> QED BY <2>2, <2>3
<1>7. CASE ~(Cur = "self" /\ Peek(1) = ")") /\ ~(Cur = "self" /\ Peek(1) = ",")
  <2>1. Step(current, FALSE, nodes, <<>>)
    BY <1>7 DEF ParseSelf, Goes
  <2> QED BY <1>1, <2>1, NoneLeft, Zenon
<1> QED BY <1>5, <1>6, <1>7

LEMMA StructEndParams == ASSUME Settled, EndParams PROVE StructureInv'
<1>1. Doing("params") /\ "params" \in BareNames /\ Step(current, FALSE, nodes, <<>>)
  BY Zenon DEF EndParams, BareNames, Goes
<1> QED BY <1>1, NoneLeft, Zenon

LEMMA StructParam == ASSUME Settled, ParseParam PROVE StructureInv'
<1> DEFINE c == Forward(current)
           w == <<Type, Build("param", current, Base), AfterParam, Params>>
<1>1. Doing("params") /\ "params" \in BareNames /\ "params" \in InnerNames /\ Cur = "name"
  BY Zenon DEF ParseParam, BareNames, InnerNames
<1>2. CASE tokens[c] = ":"
  <2>1. Step(Forward(c), FALSE, nodes, w)
    BY <1>2, Zenon DEF ParseParam, Goes
  <2>2. tokens[current] = "name" /\ Mild(tokens[c])
    BY <1>1, <1>2, MildTokens, Zenon DEF Cur
  <2>3. Row(tokens, w, TRUE)
    BY <2>2, Calls, CallsWithin, PlainSits, RowFour, Zenon
  <2>4. Row(tokens, w, Inner(todo[1]))
    BY <1>1, <2>3, InnerHead
  <2>5. Harmless
    BY <1>1, HarmlessNow, Zenon
  <2> HIDE DEF w
  <2> QED BY <1>1, <2>1, <2>2, <2>4, <2>5, TwoRead, Zenon
<1>3. CASE tokens[c] # ":"
  <2>1. Step(SyncStmt(SyncStmt(c)), TRUE, nodes, <<Params>>)
    BY <1>3, Zenon DEF ParseParam, Reports
  <2> QED BY <2>1, LoudStructure
<1> QED BY <1>2, <1>3

LEMMA StructNextParam == ASSUME Settled, NextParam PROVE StructureInv'
<1>1. Doing("after param") /\ "after param" \in BareNames
  BY Zenon DEF NextParam, BareNames
<1>2. CASE Cur = "," /\ tokens[Forward(current)] = ")"
  <2>1. Step(Forward(current), TRUE, nodes, <<>>)
    BY <1>2 DEF NextParam
  <2> QED BY <2>1, LoudStructure
<1>3. CASE Cur = "," /\ tokens[Forward(current)] # ")"
  <2>1. Step(Forward(current), FALSE, nodes, <<>>)
    BY <1>3 DEF NextParam
  <2>2. Harmless
    BY <1>1, <1>3, MildTokens, HarmlessNow, Zenon
  <2> QED BY <1>1, <2>1, <2>2, NoneLeft, Zenon
<1>4. CASE Cur # ","
  <2>1. Step(current, FALSE, nodes, <<>>)
    BY <1>4 DEF NextParam
  <2> QED BY <1>1, <2>1, NoneLeft, Zenon
<1> QED BY <1>2, <1>3, <1>4

LEMMA StructReturns == ASSUME Settled, ParseReturns PROVE StructureInv'
<1> DEFINE w == <<Type, MethodBody>>
<1>1. Doing("returns") /\ "returns" \in BareNames /\ "returns" \in InnerNames
  BY Zenon DEF ParseReturns, BareNames, InnerNames
<1>2. CASE Cur = ":"
  <2>1. Step(Forward(current), FALSE, nodes, w)
    BY <1>2, Zenon DEF ParseReturns, Goes
  <2>2. Row(tokens, w, TRUE)
    BY Calls, CallsWithin, RowTwo, Zenon
  <2>3. Row(tokens, w, Inner(todo[1]))
    BY <1>1, <2>2, InnerHead
  <2>4. Harmless
    BY <1>1, <1>2, MildTokens, HarmlessNow, Zenon
  <2> HIDE DEF w
  <2> QED BY <1>1, <2>1, <2>3, <2>4, OneRead, Zenon
<1>3. CASE Cur # ":"
  <2>1. Step(SyncStmt(SyncStmt(current)), TRUE, nodes, <<>>)
    BY <1>3, Zenon DEF ParseReturns, Reports
  <2> QED BY <2>1, LoudStructure
<1> QED BY <1>2, <1>3

LEMMA StructMethodBody == ASSUME Settled, ParseMethodBody PROVE StructureInv'
<1>1. Doing("method body") /\ "method body" \in BareNames /\ "method body" \in InnerNames
  BY Zenon DEF ParseMethodBody, BareNames, InnerNames
<1>0. Inner(todo[1]) \in BOOLEAN
  BY <1>1, HeadShape
<1>2. CASE Cur = "="
  <2>1. Step(Forward(current), FALSE, nodes, <<Block>>)
    BY <1>2, Zenon DEF ParseMethodBody, Goes
  <2>2. Row(tokens, <<Block>>, Inner(todo[1]))
    BY <1>0, Calls, RowOne, Zenon
  <2>3. Harmless
    BY <1>1, <1>2, MildTokens, HarmlessNow, Zenon
  <2> QED BY <1>1, <2>1, <2>2, <2>3, OneRead, Zenon
<1>3. CASE Cur # "="
  <2>1. Step(current, FALSE, nodes, <<ExpectOr(";", "stmt")>>)
    BY <1>3, Zenon DEF ParseMethodBody, Goes
  <2>2. Row(tokens, <<ExpectOr(";", "stmt")>>, Inner(todo[1]))
    BY <1>0, Calls, Signs, RowOne, Zenon DEF SemiSign
  <2> QED BY <1>1, <2>1, <2>2, NoneRead, Zenon
<1> QED BY <1>2, <1>3

LEMMA StructEndFuncParams == ASSUME Settled, EndFuncParams PROVE StructureInv'
<1>1. Doing("func params") /\ "func params" \in BareNames /\ Step(current, FALSE, nodes, <<>>)
  BY Zenon DEF EndFuncParams, BareNames, Goes
<1> QED BY <1>1, NoneLeft, Zenon

LEMMA StructFuncParam == ASSUME Settled, ParseFuncParam PROVE StructureInv'
<1> DEFINE c == Forward(current)
           w == <<Type, Build("param", current, Base), AfterFuncParam>>
<1>1. Doing("func params") /\ "func params" \in BareNames /\ "func params" \in OpenerNames
  BY Zenon DEF ParseFuncParam, BareNames, OpenerNames
<1>2. CASE Cur = "name" /\ tokens[c] = ":"
  <2>1. Step(Forward(c), FALSE, nodes, w)
    BY <1>2 DEF ParseFuncParam, Goes
  <2>2. tokens[current] = "name" /\ Mild(tokens[c]) /\ Inner(todo[1]) \in BOOLEAN
    BY <1>1, <1>2, HeadShape, MildTokens, Zenon DEF Cur
  <2>3. Row(tokens, w, Inner(todo[1]))
    BY <2>2, Calls, PlainSits, RowThree, Zenon
  <2>5. Harmless
    BY <1>1, <1>2, HarmlessNow, Zenon
  <2> HIDE DEF w
  <2> QED BY <1>1, <2>1, <2>2, <2>3, <2>5, TwoRead, Zenon
<1>3. CASE Cur # "name"
  <2>1. Step(SyncStmt(current), TRUE, nodes, <<AfterFuncParam>>)
    BY <1>3 DEF ParseFuncParam, Reports
  <2> QED BY <2>1, LoudStructure
<1>4. CASE Cur = "name" /\ tokens[c] # ":"
  <2>1. Step(SyncStmt(SyncStmt(c)), TRUE, nodes, <<AfterFuncParam>>)
    BY <1>4 DEF ParseFuncParam, Reports
  <2> QED BY <2>1, LoudStructure
<1> QED BY <1>2, <1>3, <1>4

LEMMA StructNextFuncParam == ASSUME Settled, NextFuncParam PROVE StructureInv'
<1> DEFINE c == Forward(current)
<1>1. Doing("after func param") /\ "after func param" \in BareNames
  BY Zenon DEF NextFuncParam, BareNames
<1>2. CASE Cur # ","
  <2>1. Step(current, FALSE, nodes, <<>>)
    BY <1>2 DEF NextFuncParam, Goes
  <2> QED BY <1>1, <2>1, NoneLeft, Zenon
<1>3. CASE Cur = "," /\ tokens[c] = ")"
  <2>1. Step(c, TRUE, nodes, <<>>)
    BY <1>3 DEF NextFuncParam, Reports
  <2> QED BY <2>1, LoudStructure
<1>4. CASE Cur = "," /\ tokens[c] # ")"
  <2>1. Step(c, FALSE, nodes, <<FuncParams>>)
    BY <1>4 DEF NextFuncParam, Goes
  <2>2. Row(tokens, <<FuncParams>>, Inner(todo[1]))
    BY <1>1, HeadShape, Calls, RowOne, Zenon
  <2>3. Harmless
    BY <1>1, <1>4, MildTokens, HarmlessNow, Zenon
  <2> QED BY <1>1, <2>1, <2>2, <2>3, OneRead, Zenon
<1> QED BY <1>2, <1>3, <1>4

-----------------------------------------------------------------------------
(* The calls that have read the name or the keyword of what they make.     *)

HolderNames == {"then", "body", "func returns", "func body"}
DeclarerNames == {"body", "func returns", "func body"}
Holding(t) == IsThen(t) \/ Declares(t)

LEMMA HoldingCosts ==
  ASSUME NEW t, Holding(t)
  PROVE  /\ BraceCost(t) = 0 /\ LoopCost(t) = 0 /\ (\A p, i : ~PassesIn(p, t, i))
         /\ ~IsExpect(t) /\ ~IsAliases(t) /\ ~IsBuild(t)
<1>1. ~IsExpect(t) /\ ~IsAliases(t) /\ ~IsBuild(t) /\ ~IsDoCond(t)
  BY Zenon DEF Holding, IsThen, Declares, IsExpect, IsAliases, IsBuild, IsDoCond
<1> QED BY <1>1 DEF BraceCost, LoopCost, PassesIn

LEMMA HoldingHead ==
  ASSUME Settled, NEW n, Doing(n), n \in HolderNames
  PROVE  /\ Holding(todo[1]) /\ Quiet /\ todo # <<>> /\ Inner(todo[1]) \in BOOLEAN
         /\ Arg(1) = todo[1][2] /\ Arg(2) = todo[1][3]
         /\ n # "then" => tokens[Arg(1)] = "name"
<1>1. Quiet /\ todo # <<>> /\ Head(todo) = todo[1] /\ todo[1][1] = n /\ Inner(todo[1]) \in BOOLEAN
  BY HeadShape
<1>2. Arg(1) = todo[1][2] /\ Arg(2) = todo[1][3] /\ 1 \in DOMAIN todo
  BY <1>1, HeadIs DEF Arg
<1>3. Holding(todo[1]) /\ (n # "then" => Declares(todo[1]))
  BY <1>1, Zenon DEF Holding, IsThen, Declares, HolderNames
<1>4. PICK x, y : WholeNow(x, y)
  BY SettledFacts
<1>5. AtName(tokens, todo[1])
  BY <1>2, <1>4, Zenon DEF WholeNow, Whole, Placed
<1> QED BY <1>1, <1>2, <1>3, <1>5 DEF AtName

(* It leaves the call that goes on to hold it. *)
LEMMA HoldingGoes ==
  ASSUME Settled, NEW n, Doing(n), n \in HolderNames,
         NEW d \in Positions, current <= d,
         NEW w, Row(tokens, w, Inner(todo[1])), Still(d, w), StartsRight(d, w), Step(d, FALSE, nodes, w),
         \A i : StandsIn(tokens, todo[1], i) => \E k \in 1 .. Len(w) : StandsIn(tokens, w[k], i)
  PROVE  StructureInv'
<1>1. Quiet /\ todo # <<>> /\ Holding(todo[1])
  BY HoldingHead
<1>2. PICK new : new = {}
  OBVIOUS
<1>3. PICK more : more = nodes
  OBVIOUS
<1>4. Grown(nodes, more, new) /\ Step(d, FALSE, more, w) /\ PlainNodes(new)
  BY <1>1, <1>2, <1>3, QuietFacts, GrownFacts DEF PlainNodes
<1>5. Tidy(tokens, w) /\ (\A m \in 1 .. Len(w) : Inner(w[m]) => Inner(todo[1]))
      /\ \A k \in 1 .. Len(w) : Light(tokens, w[k])
  BY UsualTidy DEF Row
<1>6. \A i \in current .. d - 1 : CalmAfter(d, w, new, i)
  <2>1. \A i \in current .. d - 1 : Calm(w, new, i)
    BY StillCalm
  <2> QED BY <2>1, Zenon DEF Calm, CalmAfter, Recorded
<1>7. HandsStanding(tokens, current, todo, w, new)
  BY Zenon DEF HandsStanding
<1>8. /\ ~IsAliases(todo[1]) /\ ~IsExpect(todo[1]) /\ BraceCost(todo[1]) = 0 /\ LoopCost(todo[1]) = 0
      /\ \A i : ~PassesIn(tokens, todo[1], i)
  BY <1>1, HoldingCosts
<1> QED BY ONLY Settled, <1>1, d \in Positions, current <= d, <1>4, <1>5, <1>6, <1>7, <1>8, StartsRight(d, w), TidyStep

(* It reads a mild token, or what ends a statement. *)
LEMMA HoldingReads ==
  ASSUME Settled, NEW n, Doing(n), n \in HolderNames,
         Dull(Cur), NEW w, Row(tokens, w, Inner(todo[1])), Step(Forward(current), FALSE, nodes, w),
         Mild(Cur) \/ Len(w) = 0 \/ ~Starter(w[1]),
         \A i : StandsIn(tokens, todo[1], i) => \E k \in 1 .. Len(w) : StandsIn(tokens, w[k], i)
  PROVE  StructureInv'
<1>1. Quiet
  BY HoldingHead
<1>2. Idles(current)
  BY DEF Idles, Cur
<1>3. Forward(current) \in Positions /\ current <= Forward(current) /\ Still(Forward(current), w)
  BY <1>1, <1>2, StillFacts, Zenon
<1>4. StartsRight(Forward(current), w)
  <2>1. CASE Mild(Cur)
    <3>1. Cur # "EOF" /\ ~Ends(Cur)
      BY <2>1 DEF Mild
    <3>2. Forward(current) > 1 /\ ~Ends(tokens[Forward(current) - 1])
      BY <1>1, <3>1, StillFacts, Zenon DEF Cur
    <3> QED BY <3>2, StartsFacts, Zenon
  <2>2. CASE Len(w) = 0 \/ ~Starter(w[1])
    BY <2>2, StartsFacts, Zenon
  <2> QED BY <2>1, <2>2
<1> QED BY <1>3, <1>4, HoldingGoes

LEMMA StructThen == ASSUME Settled, ParseThen PROVE StructureInv'
<1> DEFINE w == <<Stmt, Else, Build("if", Arg(1), Arg(2))>>
<1>1. Doing("then") /\ "then" \in HolderNames /\ "then" \in InnerNames
  BY Zenon DEF ParseThen, InnerNames, HolderNames
<1>2. CASE Cur = ")"
  <2>1. Step(Forward(current), FALSE, nodes, w)
    BY <1>2, Zenon DEF ParseThen, Goes
  <2>2. Row(tokens, w, TRUE) /\ Len(w) = 3 /\ w[3] = Build("if", Arg(1), Arg(2))
    BY Calls, CallsWithin, PlainSits, RowThree, Zenon
  <2>3. Inner(todo[1]) = TRUE
    BY <1>1, InnerHead
  <2>4. Dull(Cur) /\ Mild(Cur)
    BY <1>2, DullTokens, MildTokens, Zenon
  <2>5. ASSUME NEW i, StandsIn(tokens, todo[1], i) PROVE \E k \in 1 .. Len(w) : StandsIn(tokens, w[k], i)
    <3>1. todo[1][1] = "then" /\ Arg(1) = todo[1][2]
      BY <1>1, HeadShape, HoldingHead
    <3>2. ~IsBuild(todo[1]) /\ ~Declares(todo[1])
      BY <3>1, Zenon DEF IsBuild, Declares
    <3>3. tokens[i] = "if" /\ i = Arg(1)
      BY <2>5, <3>1, <3>2 DEF StandsIn
    <3>4. "if" \in StmtKeywords
      BY Zenon DEF StmtKeywords
    <3>5. StandsIn(tokens, Build("if", Arg(1), Arg(2)), i)
      BY <3>3, <3>4, StandsFacts, Zenon
    <3> HIDE DEF w
    <3>6. 3 \in 1 .. Len(w) /\ StandsIn(tokens, w[3], i)
      BY <2>2, <3>5
    <3> QED BY <3>6
  <2> HIDE DEF w
  <2>6. Row(tokens, w, Inner(todo[1]))
    BY <2>2, <2>3
  <2> QED BY ONLY Settled, <1>1, <2>1, <2>4, <2>5, <2>6, HoldingReads
<1>3. CASE Cur # ")"
  <2>1. Step(SyncStmt(current), TRUE, Replaced(Arg(2), "block", Arg(1)), <<>>)
    BY <1>3, Zenon DEF ParseThen
  <2> QED BY <2>1, LoudStructure
<1> QED BY <1>2, <1>3

(* Who holds the name of a declaration. *)
LEMMA HoldsName ==
  ASSUME Settled, NEW n, Doing(n), n \in DeclarerNames
  PROVE  /\ n \in HolderNames
         /\ tokens[Arg(1)] = "name"
         /\ \A i : StandsIn(tokens, todo[1], i) => i = Arg(1)
         /\ \A b : /\ StandsIn(tokens, FuncBody(Arg(1), b), Arg(1))
                   /\ StandsIn(tokens, Build("func", Arg(1), b), Arg(1))
                   /\ StandsIn(tokens, Build("blueprint", Arg(1), b), Arg(1))
<1>1. n \in HolderNames /\ n # "then"
  BY Zenon DEF HolderNames, DeclarerNames
<1>2. tokens[Arg(1)] = "name" /\ Arg(1) = todo[1][2] /\ todo[1][1] = n
  BY <1>1, HoldingHead, HeadShape
<1>3. ~IsBuild(todo[1]) /\ ~IsThen(todo[1])
  BY <1>2, Zenon DEF IsBuild, IsThen, DeclarerNames
<1>4. \A i : StandsIn(tokens, todo[1], i) => i = Arg(1)
  BY <1>2, <1>3 DEF StandsIn
<1> QED BY <1>1, <1>2, <1>4, StandsFacts, Zenon

LEMMA StructFuncReturns == ASSUME Settled, ParseFuncReturns PROVE StructureInv'
<1> DEFINE w == <<Type, FuncBody(Arg(1), Arg(2))>>
<1>1. Doing("func returns") /\ "func returns" \in DeclarerNames
  BY Zenon DEF ParseFuncReturns, DeclarerNames
<1>2. CASE Cur = ":"
  <2>1. Step(Forward(current), FALSE, nodes, w)
    BY <1>2, Zenon DEF ParseFuncReturns, Goes
  <2>2. "func returns" \in HolderNames /\ tokens[Arg(1)] = "name"
        /\ (\A i : StandsIn(tokens, todo[1], i) => i = Arg(1))
        /\ StandsIn(tokens, FuncBody(Arg(1), Arg(2)), Arg(1)) /\ Inner(todo[1]) \in BOOLEAN
    BY <1>1, HoldsName, HeadShape
  <2>3. Row(tokens, w, Inner(todo[1])) /\ Len(w) = 2 /\ w[2] = FuncBody(Arg(1), Arg(2))
    <3>1. \A a : After(tokens, Inner(todo[1]), a, FuncBody(Arg(1), Arg(2)))
      BY <2>2, NamedOuter, Leads, Zenon
    <3> QED BY <2>2, <3>1, Calls, RowTwo, Zenon
  <2>4. Dull(Cur) /\ Mild(Cur)
    BY <1>2, DullTokens, MildTokens, Zenon
  <2> HIDE DEF w
  <2>5. ASSUME NEW i, StandsIn(tokens, todo[1], i) PROVE \E k \in 1 .. Len(w) : StandsIn(tokens, w[k], i)
    <3>1. Len(w) = 2
      BY <2>3
    <3>2. 2 \in 1 .. Len(w)
      BY ONLY <3>1
    <3>3. StandsIn(tokens, w[2], i)
      BY <2>2, <2>3, <2>5, Zenon
    <3> QED BY <3>2, <3>3, Zenon
  <2> QED BY ONLY Settled, <1>1, <2>1, <2>2, <2>3, <2>4, <2>5, HoldingReads
<1>3. CASE Cur # ":"
  <2>1. Step(SyncDecl(SyncStmt(current)), TRUE, Below(Arg(2)), <<>>)
    BY <1>3, Zenon DEF ParseFuncReturns
  <2> QED BY <2>1, LoudStructure
<1> QED BY <1>2, <1>3

LEMMA StructFuncBody == ASSUME Settled, ParseFuncBody PROVE StructureInv'
<1> DEFINE v == <<Build("func", Arg(1), Arg(2))>>
           w == <<Block, Build("func", Arg(1), Arg(2))>>
<1>1. Doing("func body") /\ "func body" \in DeclarerNames
  BY Zenon DEF ParseFuncBody, DeclarerNames
<1>2. "func body" \in HolderNames /\ tokens[Arg(1)] = "name"
      /\ (\A i : StandsIn(tokens, todo[1], i) => i = Arg(1))
      /\ StandsIn(tokens, Build("func", Arg(1), Arg(2)), Arg(1)) /\ Inner(todo[1]) \in BOOLEAN
  BY <1>1, HoldsName, HeadShape
<1>3. Row(tokens, w, Inner(todo[1])) /\ Len(w) = 2 /\ w[2] = Build("func", Arg(1), Arg(2))
  BY <1>2, Calls, PlainSits, RowTwo, Zenon
<1>4. Row(tokens, v, Inner(todo[1])) /\ Len(v) = 1 /\ v[1] = Build("func", Arg(1), Arg(2))
  BY <1>2, Calls, PlainSits, RowOne, Zenon
<1>5. CASE Cur = "="
  <2>1. Step(Forward(current), FALSE, nodes, w)
    BY <1>5 DEF ParseFuncBody, Goes
  <2>2. Dull(Cur) /\ Mild(Cur)
    BY <1>5, DullTokens, MildTokens, Zenon
  <2> HIDE DEF w
  <2>5. ASSUME NEW i, StandsIn(tokens, todo[1], i) PROVE \E k \in 1 .. Len(w) : StandsIn(tokens, w[k], i)
    <3>1. Len(w) = 2
      BY <1>3
    <3>2. 2 \in 1 .. Len(w)
      BY ONLY <3>1
    <3>3. StandsIn(tokens, w[2], i)
      BY <1>2, <1>3, <2>5, Zenon
    <3> QED BY <3>2, <3>3, Zenon
  <2> QED BY ONLY Settled, <1>1, <1>2, <1>3, <2>1, <2>2, <2>5, HoldingReads
<1>6. CASE Cur = ";"
  <2>1. Step(Forward(current), FALSE, nodes, v)
    BY <1>6 DEF ParseFuncBody, Goes
  <2>2. Dull(Cur)
    BY <1>6, DullTokens, Zenon DEF SemiSign
  <2>3. ~Starter(v[1])
    <3>1. Outer(tokens, Build("func", Arg(1), Arg(2)))
      BY <1>2, PlainSits, BuildsOuter, Zenon
    <3> QED BY <1>4, <3>1, Zenon DEF Outer
  <2> HIDE DEF v
  <2>5. ASSUME NEW i, StandsIn(tokens, todo[1], i) PROVE \E k \in 1 .. Len(v) : StandsIn(tokens, v[k], i)
    <3>1. Len(v) = 1
      BY <1>4
    <3>2. 1 \in 1 .. Len(v)
      BY ONLY <3>1
    <3>3. StandsIn(tokens, v[1], i)
      BY <1>2, <1>4, <2>5, Zenon
    <3> QED BY <3>2, <3>3, Zenon
  <2> QED BY ONLY Settled, <1>1, <1>2, <1>4, <2>1, <2>2, <2>3, <2>5, HoldingReads
<1>7. CASE Cur \notin {"=", ";"}
  <2>1. Step(SyncDecl(SyncStmt(current)), TRUE, Below(Arg(2)), <<>>)
    BY <1>7 DEF ParseFuncBody
  <2> QED BY <2>1, LoudStructure
<1> QED BY <1>5, <1>6, <1>7, Zenon

-----------------------------------------------------------------------------
(* The loop for.                                                           *)

Settles(p, t) == Light(p, t) /\ AtName(p, t) /\ ~IsCast(t) /\ ~Starter(t)

LEMMA NineTasks ==
  ASSUME NEW p, NEW a1, NEW a2, NEW a3, NEW a4, NEW a5, NEW a6, NEW a7, NEW a8, NEW a9,
         \A t \in {a1, a2, a3, a4, a5, a6, a7, a8, a9} : Settles(p, t) /\ (IsForInit(t) => t = a2),
         ~IsForInit(a1), ~IsForInit(a3), ~IsForInit(a4), ~IsForInit(a5), ~IsForInit(a6),
         ~IsForInit(a7), ~IsForInit(a8), ~IsForInit(a9), Semicolon(a3),
         NEW w, w = <<a1, a2, a3, a4, a5, a6, a7, a8, a9>>
  PROVE  Tidy(p, w) /\ (\A k \in 1 .. Len(w) : Light(p, w[k])) /\ Len(w) = 9 /\ w[9] = a9
<1>1. w \in Seq({a1, a2, a3, a4, a5, a6, a7, a8, a9}) /\ Len(w) = 9 /\ DOMAIN w = 1 .. 9
  OBVIOUS
<1>2. w[1] = a1 /\ w[2] = a2 /\ w[3] = a3 /\ w[4] = a4 /\ w[5] = a5 /\ w[6] = a6 /\ w[7] = a7
      /\ w[8] = a8 /\ w[9] = a9
  OBVIOUS
<1>3. Work(w)
  BY <1>1 DEF Work
<1>4. ASSUME NEW m \in 1 .. 9 PROVE Settles(p, w[m]) /\ (IsForInit(w[m]) => m = 2)
  <2>1. m = 1 \/ m = 2 \/ m = 3 \/ m = 4 \/ m = 5 \/ m = 6 \/ m = 7 \/ m = 8 \/ m = 9
    BY ONLY m \in 1 .. 9
  <2> QED BY <1>2, <2>1
<1>5. \A m \in 1 .. 9 : IsForInit(w[m]) => m + 1 \in 1 .. 9 /\ Semicolon(w[m + 1])
  <2> SUFFICES ASSUME NEW m \in 1 .. 9, IsForInit(w[m]) PROVE m + 1 \in 1 .. 9 /\ Semicolon(w[m + 1])
    OBVIOUS
  <2>1. m = 2
    BY <1>4
  <2> QED BY <1>2, <2>1
<1>6. Placed(p, w)
  BY <1>1, <1>4, <1>5 DEF Placed, Settles
<1> QED BY <1>1, <1>2, <1>3, <1>4, <1>6 DEF Tidy, Settles

(* What the loop calls. *)
LEMMA ForTasks ==
  ASSUME NEW p
  PROVE  /\ \A t : Sign(t) /\ t # RightBrace => Settles(p, Expect(t)) /\ ~IsForInit(Expect(t))
         /\ \A t : Settles(p, Clause(t)) /\ ~IsForInit(Clause(t))
         /\ Settles(p, Stmt) /\ ~IsForInit(Stmt)
         /\ \A at, b : Settles(p, Build("for", at, b)) /\ ~IsForInit(Build("for", at, b))
         /\ Settles(p, ForInit) /\ Semicolon(Expect(SemiSign))
<1>1. \A t : Outer(p, t) \/ Within(p, t) => Settles(p, t) /\ ~IsForInit(t)
  BY Zenon DEF Outer, Within, Easy, Settles
<1>2. \A t : Sign(t) /\ t # RightBrace => Outer(p, Expect(t))
  BY ExpectsOuter, Zenon DEF Expect
<1>3. \A at, b : Outer(p, Build("for", at, b))
  BY PlainSits, BuildsOuter, Zenon
<1>4. Settles(p, ForInit)
  <2>1. PICK e : e = ForInit
    OBVIOUS
  <2>2. e[1] = "for init"
    BY <2>1, Zenon DEF ForInit
  <2>3. ~IsExpect(e) /\ ~IsBuild(e) /\ ~IsDoCond(e) /\ ~IsCast(e) /\ ~Declares(e) /\ e[1] # "anon field" /\ ~Starter(e)
    BY <2>2, Zenon DEF IsExpect, IsBuild, IsDoCond, IsCast, Declares, Starter
  <2>4. Settles(p, e)
    BY ONLY <2>3 DEF Settles, Light, BraceCost, LoopCost, PassesIn, AtName
  <2> QED BY <2>1, <2>4
<1>5. Semicolon(Expect(SemiSign))
  BY DEF Semicolon, Expect, ExpectOr, IsExpect
<1> QED BY <1>1, <1>2, <1>3, <1>4, <1>5, WithinTasks, Zenon

LEMMA StructFor == ASSUME Settled, ParseFor PROVE StructureInv'
<1> DEFINE close == ")"
           open == "("
           w == <<Expect(open), ForInit, Expect(SemiSign), Clause(SemiSign), Expect(SemiSign),
                  Clause(close), Expect(close), Stmt, Build("for", current, Base)>>
<1>1. Doing("stmt") /\ "stmt" \in BareNames /\ "stmt" \in InnerNames /\ Cur = "for"
  BY Zenon DEF ParseFor, BareNames, InnerNames
<1>2. Step(Forward(current), FALSE, nodes, w)
  BY Zenon DEF ParseFor, Goes, SemiSign
<1>3. Quiet /\ todo # <<>> /\ PlainHead(todo[1]) /\ Inner(todo[1]) = TRUE /\ \A d, u : StartsRight(d, u)
  BY <1>1, HeadShape, InnerHead
<1>4. Tidy(tokens, w) /\ (\A k \in 1 .. Len(w) : Light(tokens, w[k])) /\ Len(w) = 9
      /\ w[9] = Build("for", current, Base)
  <2>1. PICK a1, a2, a3, a4, a6, a7, a8, a9 :
          /\ a1 = Expect(open) /\ a2 = ForInit /\ a3 = Expect(SemiSign) /\ a4 = Clause(SemiSign)
          /\ a6 = Clause(close) /\ a7 = Expect(close) /\ a8 = Stmt /\ a9 = Build("for", current, Base)
    OBVIOUS
  <2>2. /\ Settles(tokens, a1) /\ Settles(tokens, a2) /\ Settles(tokens, a3) /\ Settles(tokens, a4)
        /\ Settles(tokens, a6) /\ Settles(tokens, a7) /\ Settles(tokens, a8) /\ Settles(tokens, a9)
        /\ ~IsForInit(a1) /\ ~IsForInit(a3) /\ ~IsForInit(a4) /\ ~IsForInit(a6) /\ ~IsForInit(a7)
        /\ ~IsForInit(a8) /\ ~IsForInit(a9) /\ Semicolon(a3)
    BY <2>1, Signs, ForTasks, Zenon
  <2>3. w = <<a1, a2, a3, a4, a3, a6, a7, a8, a9>>
    BY <2>1
  <2> HIDE DEF w
  <2>4. \A t \in {a1, a2, a3, a4, a3, a6, a7, a8, a9} : Settles(tokens, t) /\ (IsForInit(t) => t = a2)
    BY ONLY <2>2
  <2>5. Tidy(tokens, w) /\ (\A k \in 1 .. Len(w) : Light(tokens, w[k])) /\ Len(w) = 9 /\ w[9] = a9
    BY ONLY <2>2, <2>3, <2>4, NineTasks
  <2> QED BY <2>1, <2>5
<1>5. StandsIn(tokens, Build("for", current, Base), current) /\ Cur \notin Bounds
  <2>1. tokens[current] = "for" /\ "for" \in StmtKeywords
    BY <1>1, Zenon DEF Cur, StmtKeywords
  <2> QED BY <1>1, <2>1, NoBounds, StandsFacts, Zenon
<1> HIDE DEF w
<1>6. PICK new : new = {}
  OBVIOUS
<1>7. PICK more : more = nodes
  OBVIOUS
<1>8. Grown(nodes, more, new) /\ PlainNodes(new) /\ Step(Forward(current), FALSE, more, w)
  BY <1>2, <1>3, <1>6, <1>7, QuietFacts, GrownFacts DEF PlainNodes
<1>9. Forward(current) \in Positions /\ current <= Forward(current)
      /\ \A i \in current .. Forward(current) - 1 : CalmAfter(Forward(current), w, new, i)
  <2>1. Forward(current) \in Positions /\ current <= Forward(current)
        /\ \A i \in current .. Forward(current) - 1 : i = current
    BY <1>3, QuietFacts, Passed
  <2>2. 9 \in 1 .. Len(w)
    BY <1>4
  <2>3. tokens[current] \notin Bounds /\ StandsIn(tokens, w[9], current)
    BY <1>4, <1>5 DEF Cur
  <2>4. CalmAfter(Forward(current), w, new, current)
    BY <2>2, <2>3, Zenon DEF CalmAfter, Recorded, Standing
  <2> QED BY <2>1, <2>4, Zenon
<1>10. /\ ~IsAliases(todo[1]) /\ ~IsExpect(todo[1]) /\ BraceCost(todo[1]) = 0 /\ LoopCost(todo[1]) = 0
       /\ \A i : ~PassesIn(tokens, todo[1], i) /\ ~StandsIn(tokens, todo[1], i)
  BY <1>3, PlainCosts
<1>11. HandsStanding(tokens, current, todo, w, new)
  BY <1>10, Zenon DEF HandsStanding
<1>12. \A m \in 1 .. Len(w) : Inner(w[m]) => Inner(todo[1])
  BY <1>3
<1> QED BY ONLY Settled, <1>3, <1>4, <1>8, <1>9, <1>10, <1>11, <1>12, TidyStep

(* A var that is not followed by a name is dropped. *)
LEMMA VarDropped ==
  ASSUME Settled, todo # <<>>, PlainHead(todo[1]), IsForInit(todo[1]), \A e, u : StartsRight(e, u),
         Cur = "var", Step(Forward(current), FALSE, nodes, <<>>)
  PROVE  StructureInv'
<1> DEFINE d == Forward(current)
<1>2. Quiet /\ todo # <<>> /\ PlainHead(todo[1])
  BY SettledFacts
<1>3. PICK w : w = <<>>
  OBVIOUS
<1>4. Tidy(tokens, w) /\ Len(w) = 0
  <2>1. Row(tokens, w, TRUE) /\ Len(w) = 0
    BY <1>3, RowOne
  <2> QED BY <2>1, UsualTidy DEF Row
<1>5. d \in Positions /\ current <= d /\ (\A i \in current .. d - 1 : i = current) /\ d - 1 = current
  <2>1. Cur # "EOF"
    OBVIOUS
  <2> QED BY <1>2, <2>1, QuietFacts, Passed, StillFacts
<1>6. PICK x, y : WholeNow(x, y)
  BY SettledFacts
<1>7. 2 \in DOMAIN todo /\ Semicolon(todo[2])
  <2>1. 1 \in DOMAIN todo /\ IsForInit(todo[1])
    BY <1>2, HeadIs
  <2>2. \A m \in DOMAIN todo : IsForInit(todo[m]) => m + 1 \in DOMAIN todo /\ Semicolon(todo[m + 1])
    BY <1>6, Zenon DEF WholeNow, Whole, Placed
  <2>3. 1 + 1 \in DOMAIN todo /\ Semicolon(todo[1 + 1])
    BY <2>1, <2>2
  <2>4. 1 + 1 = 2
    OBVIOUS
  <2> QED BY ONLY <2>3, <2>4
<1>8. 1 \in DOMAIN (w \o Tail(todo)) /\ (w \o Tail(todo))[1] = todo[2]
  <2>1. todo \in Seq(Tasks) /\ Len(todo) \in Nat /\ Len(todo) > 1
    BY <1>2, <1>7, QuietFacts
  <2>2. <<>> \o Tail(todo) = Tail(todo)
    BY <2>1
  <2>3. 1 \in DOMAIN Tail(todo) /\ Tail(todo)[1] = todo[2]
    BY <2>1
  <2> QED BY <1>3, <2>2, <2>3
<1>9. PICK new : new = {}
  OBVIOUS
<1>10. PICK more : more = nodes
  OBVIOUS
<1>11. Grown(nodes, more, new) /\ PlainNodes(new) /\ Step(d, FALSE, more, w)
  BY <1>2, <1>3, <1>9, <1>10, QuietFacts, GrownFacts DEF PlainNodes
<1>12. \A i \in current .. d - 1 : CalmAfter(d, w, new, i)
  <2>1. tokens[current] = "var" /\ tokens[current] \notin Bounds
    BY NoBounds, Zenon DEF Cur
  <2>2. current = d - 1
    BY <1>5
  <2> HIDE DEF d
  <2>3. Dropped(tokens, d, w \o Tail(todo), current)
    BY <1>7, <1>8, <2>1, <2>2 DEF Dropped
  <2>4. CalmAfter(d, w, new, current)
    BY <2>1, <2>3, Zenon DEF CalmAfter, Recorded
  <2> QED BY <1>5, <2>4, Zenon
<1>13. /\ ~IsAliases(todo[1]) /\ ~IsExpect(todo[1]) /\ BraceCost(todo[1]) = 0 /\ LoopCost(todo[1]) = 0
       /\ \A i : ~PassesIn(tokens, todo[1], i) /\ ~StandsIn(tokens, todo[1], i)
  BY <1>2, PlainCosts
<1>14. HandsStanding(tokens, current, todo, w, new)
  BY <1>13, Zenon DEF HandsStanding
<1>15. (\A m \in 1 .. Len(w) : Inner(w[m]) => Inner(todo[1])) /\ \A k \in 1 .. Len(w) : Light(tokens, w[k])
  BY <1>4
<1>16. StartsRight(d, w)
  OBVIOUS
<1> HIDE DEF d
<1> QED BY ONLY Settled, <1>2, <1>4, <1>5, <1>11, <1>12, <1>13, <1>14, <1>15, <1>16, TidyStep

LEMMA StructForInit == ASSUME Settled, ParseForInit PROVE StructureInv'
<1> DEFINE c == Forward(current)
           d == Forward(c)
           w == <<Type, Default, Build("decl", c, Base)>>
<1>1. Doing("for init") /\ "for init" \in BareNames \cap InnerNames
      /\ "for init" \in OpenerNames \cup InnerNames /\ "for init" \in BareNames
  BY Zenon DEF ParseForInit, BareNames, InnerNames
<1>2. CASE Cur = ";"
  <2>1. Step(current, FALSE, nodes, <<>>)
    BY <1>2 DEF ParseForInit, Goes
  <2> QED BY <1>1, <2>1, NoneLeft, Zenon
<1>3. CASE Cur = "var" /\ tokens[c] # "name"
  <2>1. Step(c, FALSE, nodes, <<>>)
    BY <1>3 DEF ParseForInit, Goes
  <2>2. todo # <<>> /\ PlainHead(todo[1]) /\ (\A e, u : StartsRight(e, u)) /\ todo[1][1] = "for init"
    BY <1>1, HeadShape, InnerHead
  <2>3. IsForInit(todo[1])
    BY <2>2, Zenon DEF IsForInit
  <2> QED BY ONLY Settled, <1>3, <2>1, <2>2, <2>3, VarDropped
<1>4. CASE Cur = "var" /\ tokens[c] = "name" /\ tokens[d] # ":"
  <2>1. Step(SyncStmt(d), TRUE, nodes, <<>>)
    BY <1>4 DEF ParseForInit, Reports
  <2> QED BY <2>1, LoudStructure
<1>5. CASE Cur = "var" /\ tokens[c] = "name" /\ tokens[d] = ":"
  <2>1. Step(Forward(d), FALSE, nodes, w)
    BY <1>5 DEF ParseForInit, Goes
  <2>2. Row(tokens, w, TRUE) /\ Len(w) = 3 /\ w[3] = Build("decl", c, Base)
    BY <1>5, Calls, PlainSits, RowThree, Zenon
  <2>3. StandsIn(tokens, Build("decl", c, Base), current) /\ Cur \notin Bounds /\ Cur # "EOF" /\ ~Ends(Cur)
    <3>1. Cur # "EOF" /\ ~Ends(Cur)
      BY <1>5, Zenon DEF Ends, SemiSign, RightBrace
    <3>2. c = current + 1 /\ tokens[current] = "var"
      BY <1>1, <1>5, <3>1, HeadShape, StillFacts DEF Cur
    <3> QED BY <1>5, <3>1, <3>2, NoBounds, StandsFacts, Zenon
  <2> HIDE DEF w
  <2>4. 3 \in 1 .. Len(w) /\ StandsIn(tokens, w[3], current)
    BY <2>2, <2>3
  <2>5. Fine(w, c) /\ Fine(w, d)
    <3>1. Dull(tokens[d])
      BY <1>5, DullTokens, Zenon
    <3> QED BY <1>1, <1>5, <2>3, <3>1, FineTokens, Zenon
  <2> QED BY <1>1, <2>1, <2>2, <2>3, <2>4, <2>5, KeywordRead
<1>6. CASE Cur \notin {";", "var"}
  <2>1. Step(current, FALSE, nodes, <<Expr(0)>>)
    BY <1>6 DEF ParseForInit, Goes
  <2>2. Row(tokens, <<Expr(0)>>, Inner(todo[1]))
    BY <1>1, HeadShape, Calls, RowOne, Zenon
  <2> QED BY <1>1, <2>1, <2>2, NoneRead, Zenon
<1> QED BY <1>2, <1>3, <1>4, <1>5, <1>6, Zenon

-----------------------------------------------------------------------------
(* The steps that open a brace.                                            *)

(* Work that will close it. *)
Braced(p, w) ==
  /\ Tidy(p, w) /\ Len(w) \in Nat /\ Len(w) > 2
  /\ BraceCost(w[2]) = 1 /\ LoopCost(w[2]) = 0 /\ \A i : ~PassesIn(p, w[2], i)
  /\ \A k \in 1 .. Len(w) : k # 2 => Light(p, w[k])
  /\ \A k \in 1 .. Len(w) : k # 1 => ~Inner(w[k])

LEMMA BracedTasks ==
  ASSUME NEW p, NEW a, Easy(p, a), NEW f, NEW e, e = ExpectOr(RightBrace, f),
         NEW b, Outer(p, b), NEW c, Outer(p, c)
  PROVE  /\ Braced(p, <<a, e, b>>) /\ Len(<<a, e, b>>) = 3 /\ <<a, e, b>>[3] = b
         /\ Braced(p, <<a, e, b, c>>)
<1>1. /\ AtName(p, e) /\ ~IsCast(e) /\ ~IsForInit(e) /\ ~Inner(e) /\ ~Starter(e) /\ LoopCost(e) = 0
      /\ (\A i : ~PassesIn(p, e, i)) /\ BraceCost(e) = 1
  BY Signs, ExpectsOuter
<1>2. /\ Light(p, a) /\ AtName(p, a) /\ ~IsCast(a) /\ ~IsForInit(a)
      /\ Light(p, b) /\ AtName(p, b) /\ ~IsCast(b) /\ ~IsForInit(b) /\ ~Inner(b) /\ ~Starter(b)
      /\ Light(p, c) /\ AtName(p, c) /\ ~IsCast(c) /\ ~IsForInit(c) /\ ~Inner(c) /\ ~Starter(c)
  BY DEF Easy, Outer
<1>3. PICK w : w = <<a, e, b>>
  OBVIOUS
<1>4. w \in Seq({a, e, b}) /\ Len(w) = 3 /\ DOMAIN w = 1 .. 3 /\ w[1] = a /\ w[2] = e /\ w[3] = b
  BY <1>3
<1>5. \A k \in 1 .. 3 : k = 1 \/ k = 2 \/ k = 3
  OBVIOUS
<1>6. Work(w)
  BY <1>4 DEF Work
<1>7. \A k \in 1 .. 3 : /\ AtName(p, w[k]) /\ ~IsCast(w[k]) /\ ~IsForInit(w[k])
                        /\ k # 2 => Light(p, w[k])
                        /\ k # 1 => ~Inner(w[k]) /\ ~Starter(w[k])
  BY <1>1, <1>2, <1>4, <1>5
<1>8. \A k \in 1 .. 3 : k > 1 => k # 1
  OBVIOUS
<1>9. Placed(p, w)
  BY <1>4, <1>7, <1>8 DEF Placed
<1>10. Tidy(p, w)
  BY <1>4, <1>6, <1>7, <1>9 DEF Tidy
<1>11. Braced(p, w)
  BY <1>1, <1>4, <1>7, <1>10 DEF Braced
<1>12. PICK v : v = <<a, e, b, c>>
  OBVIOUS
<1>13. v \in Seq({a, e, b, c}) /\ Len(v) = 4 /\ DOMAIN v = 1 .. 4 /\ v[1] = a /\ v[2] = e /\ v[3] = b /\ v[4] = c
  BY <1>12
<1>14. \A k \in 1 .. 4 : k = 1 \/ k = 2 \/ k = 3 \/ k = 4
  OBVIOUS
<1>15. Work(v)
  BY <1>13 DEF Work
<1>16. \A k \in 1 .. 4 : /\ AtName(p, v[k]) /\ ~IsCast(v[k]) /\ ~IsForInit(v[k])
                         /\ k # 2 => Light(p, v[k])
                         /\ k # 1 => ~Inner(v[k]) /\ ~Starter(v[k])
  BY <1>1, <1>2, <1>13, <1>14
<1>17. \A k \in 1 .. 4 : k > 1 => k # 1
  OBVIOUS
<1>18. Placed(p, v)
  BY <1>13, <1>16, <1>17 DEF Placed
<1>19. Tidy(p, v)
  BY <1>13, <1>15, <1>16, <1>18 DEF Tidy
<1>20. Braced(p, v)
  BY <1>1, <1>13, <1>16, <1>19 DEF Braced
<1> QED BY <1>3, <1>4, <1>11, <1>12, <1>20

(* What is due to it: one more before the brace is closed. *)
Stepped(w, u, z, last) == \A m \in 1 .. Len(w) + 1 : u[m] = IF m <= last THEN z + 1 ELSE z
LEMMA BracedDue ==
  ASSUME NEW p, NEW w, Braced(p, w), NEW z \in Int, NEW k \in Int,
         NEW u, Stepped(w, u, z, 2), NEW v, Stepped(w, v, k, 0)
  PROVE  /\ Due("brace", u, w, z) /\ Due("loop", v, w, k)
         /\ u[1] = z + 1 /\ v[1] = k /\ u[2] = z + 1
<1>1. Len(w) \in Nat /\ Len(w) > 2
  BY DEF Braced
<1>2. \A m \in 1 .. Len(w) + 1 : (m <= 2 => u[m] = z + 1) /\ (m > 2 => u[m] = z) /\ v[m] = k
  BY <1>1 DEF Stepped
<1>3. ASSUME NEW m \in 1 .. Len(w)
      PROVE  BraceCost(w[m]) = (IF m = 2 THEN 1 ELSE 0) /\ LoopCost(w[m]) = 0
  BY DEF Braced, Light
<1>4. ASSUME NEW m \in 1 .. Len(w)
      PROVE  u[m] = u[m + 1] + BraceCost(w[m]) /\ v[m] = v[m + 1] + LoopCost(w[m])
  <2>1. m \in 1 .. Len(w) + 1 /\ m + 1 \in 1 .. Len(w) + 1 /\ (m <= 2 <=> m < 2 \/ m = 2)
    BY <1>1
  <2>2. CASE m < 2
    BY <1>2, <1>3, <2>1, <2>2
  <2>3. CASE m = 2
    BY <1>2, <1>3, <2>1, <2>3
  <2>4. CASE m > 2
    BY <1>2, <1>3, <2>1, <2>4
  <2> QED BY <1>1, <2>2, <2>3, <2>4
<1>5. u[Len(w) + 1] = z /\ v[Len(w) + 1] = k /\ u[1] = z + 1 /\ v[1] = k /\ u[2] = z + 1
  BY <1>1, <1>2
<1>6. \A m \in 1 .. Len(w) + 1 : u[m] \in Int /\ v[m] \in Int
  BY <1>1, <1>2
<1>7. \A m \in 1 .. Len(w) : Cost("brace", w[m]) = BraceCost(w[m]) /\ Cost("loop", w[m]) = LoopCost(w[m])
  BY DEF Cost
<1> QED BY <1>4, <1>5, <1>6, <1>7 DEF Due

(* What is read is not hidden. *)
LEMMA NotHidden ==
  ASSUME Settled, todo # <<>>, ~IsAliases(todo[1])
  PROVE  \A j : j >= current => j \notin Passing
<1>1. PICK x, y : WholeNow(x, y)
  BY SettledFacts
<1> QED BY <1>1, Zenon DEF WholeNow, Whole, NoneAhead

LEMMA BraceStep ==
  ASSUME Settled, todo # <<>>, ~IsAliases(todo[1]), ~IsExpect(todo[1]),
         BraceCost(todo[1]) = 0, LoopCost(todo[1]) = 0, \A i : ~PassesIn(tokens, todo[1], i),
         Cur = LeftBrace, NEW w, Braced(tokens, w), Step(Forward(current), FALSE, nodes, w),
         \A i : StandsIn(tokens, todo[1], i) => \E k \in 1 .. Len(w) : StandsIn(tokens, w[k], i)
  PROVE  StructureInv'
<1> DEFINE d == Forward(current)
<1>1. PICK x, y : WholeNow(x, y)
  BY SettledFacts
<1>2. /\ x[1] \in Nat /\ x[2] \in Nat /\ y[1] \in Int /\ y[2] \in Int
      /\ x[1] = x[2] + BraceCost(todo[1]) /\ y[1] = y[2] + LoopCost(todo[1])
      /\ x[1] = Depth(tokens, Passing, current)
      /\ y[1] = Surplus(tokens, Passing, current, nodes, Len(nodes))
  BY <1>1, HeadCosts
<1>3. current \in Nat /\ 1 <= current /\ Quiet
  BY SettledFacts
<1>4. LeftBrace # "EOF" /\ LeftBrace # RightBrace /\ LeftBrace # "while" /\ LeftBrace # "var" /\ LeftBrace # "name"
      /\ LeftBrace \notin StmtKeywords
  BY Zenon DEF LeftBrace, RightBrace, StmtKeywords
<1>5. d \in Positions /\ current <= d /\ d = current + 1 /\ \A i \in current .. d - 1 : i = current
  BY <1>3, <1>4, QuietFacts, Passed DEF Cur
<1> HIDE DEF d
<1>6. tokens[current] = LeftBrace /\ current \notin Passing
  BY <1>3, NotHidden DEF Cur
<1>7. Depth(tokens, Passing, d) = Depth(tokens, Passing, current) + 1
  <2>1. Number(tokens, Passing, d, LeftBrace) = Number(tokens, Passing, current, LeftBrace) + 1
    BY <1>3, <1>5, <1>6, NumberGrows
  <2>2. Number(tokens, Passing, d, RightBrace) = Number(tokens, Passing, current, RightBrace)
    <3>1. \A j \in current .. d - 1 : tokens[j] # RightBrace
      BY <1>4, <1>5, <1>6
    <3> QED BY <1>3, <1>5, <3>1, NumberStays
  <2>3. Number(tokens, Passing, current, LeftBrace) \in Nat /\ Number(tokens, Passing, current, RightBrace) \in Nat
    BY <1>3, NumberIsNat
  <2> QED BY <2>1, <2>2, <2>3 DEF Depth
<1>8. Surplus(tokens, Passing, d, nodes, Len(nodes)) = Surplus(tokens, Passing, current, nodes, Len(nodes))
  <2>1. \A j \in current .. d - 1 : tokens[j] # "while"
    BY <1>4, <1>5, <1>6
  <2>2. Number(tokens, Passing, d, "while") = Number(tokens, Passing, current, "while")
    BY <1>3, <1>5, <2>1, NumberStays
  <2> QED BY <2>2 DEF Surplus
<1>9. PICK u, v : /\ u = [m \in 1 .. Len(w) + 1 |-> IF m <= 2 THEN x[2] + 1 ELSE x[2]]
                  /\ v = [m \in 1 .. Len(w) + 1 |-> y[2]]
  OBVIOUS
<1>10. /\ \A m \in 1 .. Len(w) + 1 : u[m] = IF m <= 2 THEN x[2] + 1 ELSE x[2]
       /\ \A m \in 1 .. Len(w) + 1 : v[m] = y[2]
       /\ x[2] \in Int
  BY <1>2, <1>9
<1>11. Due("brace", u, w, x[2]) /\ Due("loop", v, w, y[2]) /\ u[1] = x[2] + 1 /\ v[1] = y[2]
  <2>1. PICK z, k : z = x[2] /\ k = y[2]
    OBVIOUS
  <2>2. /\ z \in Int /\ k \in Int
        /\ Stepped(w, u, z, 2) /\ Stepped(w, v, k, 0)
    BY <1>2, <1>10, <2>1 DEF Stepped
  <2>3. Due("brace", u, w, z) /\ Due("loop", v, w, k) /\ u[1] = z + 1 /\ v[1] = k
    BY ONLY Braced(tokens, w), <2>2, BracedDue
  <2> QED BY <2>1, <2>3
<1>12. \A m \in 1 .. Len(w) + 1 : u[m] >= 0
  BY <1>2, <1>9
<1>13. PICK new : new = {}
  OBVIOUS
<1>14. PICK more : more = nodes
  OBVIOUS
<1>15. Grown(nodes, more, new) /\ Step(d, FALSE, more, w)
  BY <1>3, <1>13, <1>14, QuietFacts, GrownFacts DEF d
<1>16. u[1] = Depth(tokens, Passing, d) /\ v[1] = Surplus(tokens, Passing, d, more, Len(more))
  BY <1>2, <1>7, <1>8, <1>11, <1>14
<1>17. \A i \in current .. d - 1 :
         Wanted(tokens, Passing, i) => Recorded(tokens, d, w \o Tail(todo), w, new, i)
  <2>1. ~Wanted(tokens, Passing, current)
    BY <1>4, <1>6, Zenon DEF Wanted, Begins
  <2> QED BY <1>5, <2>1, Zenon
<1>18. Tidy(tokens, w) /\ \A m \in 1 .. Len(w) : Inner(w[m]) => u[m] > 0
  <2>1. Tidy(tokens, w) /\ \A k \in 1 .. Len(w) : k # 1 => ~Inner(w[k])
    BY DEF Braced
  <2>2. u[1] > 0
    BY <1>2, <1>11
  <2> QED BY <2>1, <2>2
<1>19. Len(w) > 0 /\ Starter(w[1]) /\ u[1] = 0 => d > 1 /\ ~Ends(tokens[d - 1])
  BY <1>2, <1>11
<1>20. SameHiding(tokens, todo, w, new)
  <2>1. \A k \in 1 .. Len(w) : \A i : ~PassesIn(tokens, w[k], i)
    BY Zenon DEF Braced, Light
  <2> QED BY <1>13, <2>1, Zenon DEF SameHiding
<1>21. HandsStanding(tokens, current, todo, w, new)
  BY Zenon DEF HandsStanding
<1> QED BY ONLY Settled, todo # <<>>, <1>1, <1>5, <1>15, ~IsAliases(todo[1]), ~IsExpect(todo[1]),
                <1>20, <1>21, <1>11, <1>12, <1>16, <1>17, <1>18, <1>19, SameStep

(* The same of a call that makes no node itself. *)
LEMMA PlainBrace ==
  ASSUME Settled, NEW n \in BareNames, Doing(n), Cur = LeftBrace, NEW w, Braced(tokens, w),
         Step(Forward(current), FALSE, nodes, w)
  PROVE  StructureInv'
<1>1. todo # <<>> /\ PlainHead(todo[1])
  BY HeadShape
<1>2. /\ BraceCost(todo[1]) = 0 /\ LoopCost(todo[1]) = 0 /\ ~IsExpect(todo[1]) /\ ~IsAliases(todo[1])
      /\ \A i : ~PassesIn(tokens, todo[1], i) /\ ~StandsIn(tokens, todo[1], i)
  BY <1>1, PlainCosts
<1> QED BY <1>1, <1>2, BraceStep

LEMMA StructBlock == ASSUME Settled, ParseBlock PROVE StructureInv'
<1> DEFINE w == <<Stmts, Expect(RightBrace), Build("block", current, Base)>>
<1>1. PICK n \in BareNames : Doing(n)
  BY Zenon DEF ParseBlock, BareNames
<1>2. Cur = LeftBrace /\ Step(Forward(current), FALSE, nodes, w)
  BY Zenon DEF ParseBlock, Goes, LeftBrace, RightBrace
<1>3. Braced(tokens, w)
  <2>1. Easy(tokens, Stmts) /\ Outer(tokens, Build("block", current, Base))
        /\ Expect(RightBrace) = ExpectOr(RightBrace, "nothing")
    BY WithinTasks, PlainSits, BuildsOuter, Zenon DEF Within, Expect
  <2> QED BY <2>1, BracedTasks, Zenon
<1> HIDE DEF w
<1> QED BY <1>1, <1>2, <1>3, PlainBrace

LEMMA StructAnonType == ASSUME Settled, ParseAnonType PROVE StructureInv'
<1> DEFINE w == <<Anon, Expect(RightBrace), Build("anon", current, Base), Suffixes>>
<1>1. Doing("type") /\ "type" \in BareNames
  BY Zenon DEF ParseAnonType, BareNames
<1>2. Cur = LeftBrace /\ Step(Forward(current), FALSE, nodes, w)
  BY Zenon DEF ParseAnonType, Goes, LeftBrace, RightBrace
<1>3. Braced(tokens, w)
  <2>1. Easy(tokens, Anon) /\ Outer(tokens, Build("anon", current, Base)) /\ Outer(tokens, Suffixes)
        /\ Expect(RightBrace) = ExpectOr(RightBrace, "nothing")
    BY WithinTasks, OuterTasks, PlainSits, BuildsOuter, Zenon DEF Within, Expect
  <2> QED BY <2>1, BracedTasks, Zenon
<1> HIDE DEF w
<1> QED BY <1>1, <1>2, <1>3, PlainBrace

LEMMA StructBody == ASSUME Settled, ParseBody PROVE StructureInv'
<1> DEFINE w == <<Members, ExpectOr(RightBrace, "decl"), Build("blueprint", Arg(1), Arg(2))>>
<1>1. Doing("body") /\ "body" \in DeclarerNames
  BY Zenon DEF ParseBody, DeclarerNames
<1>2. "body" \in HolderNames /\ tokens[Arg(1)] = "name" /\ (\A i : StandsIn(tokens, todo[1], i) => i = Arg(1))
      /\ StandsIn(tokens, Build("blueprint", Arg(1), Arg(2)), Arg(1)) /\ todo # <<>> /\ Holding(todo[1])
  BY <1>1, HoldsName, HoldingHead
<1>3. CASE Cur = "{"
  <2>1. Cur = LeftBrace /\ Step(Forward(current), FALSE, nodes, w)
    BY <1>3, Zenon DEF ParseBody, Goes, LeftBrace, RightBrace
  <2>2. Braced(tokens, w) /\ Len(w) = 3 /\ w[3] = Build("blueprint", Arg(1), Arg(2))
    <3>1. Easy(tokens, Members) /\ Outer(tokens, Build("blueprint", Arg(1), Arg(2)))
      BY <1>2, WithinTasks, PlainSits, BuildsOuter, Zenon DEF Within
    <3> QED BY <3>1, BracedTasks, Zenon
  <2> HIDE DEF w
  <2>3. /\ BraceCost(todo[1]) = 0 /\ LoopCost(todo[1]) = 0 /\ ~IsExpect(todo[1]) /\ ~IsAliases(todo[1])
        /\ \A i : ~PassesIn(tokens, todo[1], i)
    BY <1>2, HoldingCosts
  <2>4. ASSUME NEW i, StandsIn(tokens, todo[1], i) PROVE \E k \in 1 .. Len(w) : StandsIn(tokens, w[k], i)
    <3>1. Len(w) = 3
      BY <2>2
    <3>2. 3 \in 1 .. Len(w)
      BY ONLY <3>1
    <3>3. StandsIn(tokens, w[3], i)
      BY <1>2, <2>2, <2>4, Zenon
    <3> QED BY <3>2, <3>3, Zenon
  <2> QED BY ONLY Settled, <1>2, <2>1, <2>2, <2>3, <2>4, BraceStep
<1>4. CASE Cur # "{"
  <2>1. Step(SyncDecl(SyncStmt(current)), TRUE, Below(Arg(2)), <<>>)
    BY <1>4, Zenon DEF ParseBody
  <2> QED BY <2>1, LoudStructure
<1> QED BY <1>3, <1>4

-----------------------------------------------------------------------------
(* Aggregates.                                                             *)

(* A brace and the one that closes it. *)
LEMMA BracePair ==
  ASSUME NEW p, NEW hid, NEW c \in Nat, 1 <= c, p[c] = LeftBrace, p[c + 1] = RightBrace,
         c \notin hid, c + 1 \notin hid
  PROVE  /\ Depth(p, hid, c + 2) = Depth(p, hid, c)
         /\ Number(p, hid, c + 2, "while") = Number(p, hid, c, "while")
<1>1. LeftBrace # RightBrace /\ LeftBrace # "while" /\ RightBrace # "while"
  BY Zenon DEF LeftBrace, RightBrace
<1>2. c + 1 \in Nat /\ 1 <= c + 1 /\ c + 2 \in Nat /\ (c + 1) + 1 = c + 2 /\ c <= c + 1 /\ c + 1 <= c + 2
      /\ c <= c + 2
  OBVIOUS
<1>3. /\ \A j \in c .. (c + 1) - 1 : j = c
      /\ \A j \in c + 1 .. (c + 2) - 1 : j = c + 1
      /\ \A j \in c .. (c + 2) - 1 : j = c \/ j = c + 1
  OBVIOUS
<1>4. Number(p, hid, c + 1, LeftBrace) = Number(p, hid, c, LeftBrace) + 1
  BY NumberGrows
<1>5. Number(p, hid, c + 2, LeftBrace) = Number(p, hid, c + 1, LeftBrace)
  <2>1. \A j \in c + 1 .. (c + 2) - 1 : p[j] = LeftBrace => j \in hid
    BY <1>1, <1>3
  <2> QED BY <1>2, <2>1, NumberStays
<1>6. Number(p, hid, c + 1, RightBrace) = Number(p, hid, c, RightBrace)
  <2>1. \A j \in c .. (c + 1) - 1 : p[j] = RightBrace => j \in hid
    BY <1>1, <1>3
  <2> QED BY <1>2, <2>1, NumberStays
<1>7. Number(p, hid, c + 2, RightBrace) = Number(p, hid, c + 1, RightBrace) + 1
  <2>1. PICK e \in Nat : e = c + 1
    BY <1>2
  <2>2. Number(p, hid, e + 1, RightBrace) = Number(p, hid, e, RightBrace) + 1
    <3>1. 1 <= e /\ p[e] = RightBrace /\ e \notin hid
      BY <1>2, <2>1
    <3> QED BY <3>1, NumberGrows
  <2> QED BY <1>2, <2>1, <2>2
<1>8. Number(p, hid, c + 2, "while") = Number(p, hid, c, "while")
  <2>1. \A j \in c .. (c + 2) - 1 : p[j] = "while" => j \in hid
    BY <1>1, <1>3
  <2> QED BY <1>2, <2>1, NumberStays
<1>9. Number(p, hid, c, LeftBrace) \in Nat /\ Number(p, hid, c, RightBrace) \in Nat
  BY NumberIsNat
<1>10. Depth(p, hid, c + 2) = Depth(p, hid, c)
  BY ONLY <1>4, <1>5, <1>6, <1>7, <1>9 DEF Depth
<1> QED BY <1>8, <1>10

(* Both are read at once. *)
LEMMA BracesRead ==
  ASSUME Settled, NEW n \in BareNames, Doing(n), Cur = LeftBrace, tokens[Forward(current)] = RightBrace,
         NEW k, Unobtrusive(k), NEW w, Row(tokens, w, Inner(todo[1])), Len(w) = 0 \/ ~Starter(w[1]),
         Step(Forward(Forward(current)), FALSE, Append(nodes, k), w)
  PROVE  StructureInv'
<1> DEFINE d == Forward(Forward(current))
<1>0. Quiet /\ todo # <<>> /\ PlainHead(todo[1])
  BY HeadShape
<1>1. PICK x, y : WholeNow(x, y)
  BY SettledFacts
<1>2. /\ x[1] \in Nat /\ x[2] \in Nat /\ y[1] \in Int /\ y[2] \in Int
      /\ x[1] = x[2] + BraceCost(todo[1]) /\ y[1] = y[2] + LoopCost(todo[1])
      /\ x[1] = Depth(tokens, Passing, current)
      /\ y[1] = Surplus(tokens, Passing, current, nodes, Len(nodes))
      /\ Inner(todo[1]) => x[1] > 0
  BY <1>0, <1>1, HeadCosts
<1>3. /\ BraceCost(todo[1]) = 0 /\ LoopCost(todo[1]) = 0 /\ ~IsExpect(todo[1]) /\ ~IsAliases(todo[1])
      /\ \A i : ~PassesIn(tokens, todo[1], i) /\ ~StandsIn(tokens, todo[1], i)
  BY <1>0, PlainCosts
<1>4. current \in Nat /\ 1 <= current /\ Cur # "EOF" /\ tokens[Forward(current)] # "EOF"
  <2>1. LeftBrace # "EOF" /\ RightBrace # "EOF"
    BY Zenon DEF LeftBrace, RightBrace
  <2> QED BY <2>1, SettledFacts
<1>5. d \in Positions /\ current <= d /\ d = current + 2 /\ Forward(current) = current + 1
  BY <1>0, <1>4, StillFacts
<1>6. tokens[current] = LeftBrace /\ tokens[current + 1] = RightBrace
  BY <1>5 DEF Cur
<1>7. current \notin Passing /\ current + 1 \notin Passing
  BY <1>0, <1>3, <1>4, NotHidden
<1> HIDE DEF d
<1>8. /\ Depth(tokens, Passing, d) = Depth(tokens, Passing, current)
      /\ Number(tokens, Passing, d, "while") = Number(tokens, Passing, current, "while")
  BY <1>4, <1>5, <1>6, <1>7, BracePair
<1>9. PICK new : new = {k}
  OBVIOUS
<1>10. PICK more : more = Append(nodes, k)
  OBVIOUS
<1>11. Grown(nodes, more, new) /\ Step(d, FALSE, more, w)
  BY <1>0, <1>9, <1>10, QuietFacts, GrownFacts DEF d
<1>12. LoopNodes(more, Len(more)) = LoopNodes(nodes, Len(nodes))
  BY <1>9, <1>11, LoopsStay DEF Unobtrusive
<1>13. Tidy(tokens, w) /\ (\A m \in 1 .. Len(w) : Inner(w[m]) => Inner(todo[1])) /\ Len(w) \in Nat
       /\ \A m \in 1 .. Len(w) : Light(tokens, w[m])
  BY UsualTidy DEF Row, Tidy, Work
<1>14. PICK u, v : /\ u = [m \in 1 .. Len(w) + 1 |-> x[2]] /\ v = [m \in 1 .. Len(w) + 1 |-> y[2]]
  OBVIOUS
<1>15. (\A m \in 1 .. Len(w) + 1 : u[m] = x[2] /\ v[m] = y[2]) /\ 1 \in 1 .. Len(w) + 1
  BY <1>13, <1>14
<1>16. Due("brace", u, w, x[2]) /\ Due("loop", v, w, y[2])
  <2>0. x[2] \in Int
    BY <1>2
  <2>1. Due("brace", u, w, x[2])
    BY ONLY <2>0, <1>13, <1>14, NothingDue
  <2>2. Due("loop", v, w, y[2])
    BY ONLY <1>2, <1>13, <1>14, NothingDue
  <2> QED BY <2>1, <2>2
<1>17. u[1] = Depth(tokens, Passing, d) /\ v[1] = Surplus(tokens, Passing, d, more, Len(more))
  BY <1>2, <1>3, <1>8, <1>12, <1>15 DEF Surplus
<1>18. \A m \in 1 .. Len(w) + 1 : u[m] >= 0
  BY <1>2, <1>15
<1>19. \A i \in current .. d - 1 :
         Wanted(tokens, Passing, i) => Recorded(tokens, d, w \o Tail(todo), w, new, i)
  <2>1. \A i \in current .. d - 1 : i = current \/ i = current + 1
    BY <1>4, <1>5
  <2>2. /\ LeftBrace # "var" /\ LeftBrace # "name" /\ LeftBrace \notin StmtKeywords
        /\ RightBrace # "var" /\ RightBrace # "name" /\ RightBrace \notin StmtKeywords
    BY Zenon DEF LeftBrace, RightBrace, StmtKeywords
  <2>3. ~Wanted(tokens, Passing, current) /\ ~Wanted(tokens, Passing, current + 1)
    BY <1>6, <2>2, Zenon DEF Wanted, Begins
  <2> QED BY <2>1, <2>3, Zenon
<1>20. \A m \in 1 .. Len(w) : Inner(w[m]) => u[m] > 0
  BY <1>2, <1>3, <1>13, <1>15
<1>21. Len(w) > 0 /\ Starter(w[1]) /\ u[1] = 0 => d > 1 /\ ~Ends(tokens[d - 1])
  BY <1>13
<1>22. SameHiding(tokens, todo, w, new)
  BY <1>3, <1>9, <1>13, Zenon DEF SameHiding, Light, Unobtrusive
<1>23. HandsStanding(tokens, current, todo, w, new)
  BY <1>3, Zenon DEF HandsStanding
<1> QED BY ONLY Settled, <1>0, <1>1, <1>3, <1>5, <1>11, <1>22, <1>23, <1>16, <1>18, <1>17, <1>19, <1>13, <1>20, <1>21, SameStep

LEMMA StructAggregate == ASSUME Settled, ParseAggregate PROVE StructureInv'
<1> DEFINE c == Forward(current)
           w == <<Items(InitForm(c), RightBrace), Expect(RightBrace), Build("init", current, Base), Led(Arg(1))>>
           v == <<Led(Arg(1))>>
<1>1. Doing("expr") /\ "expr" \in BareNames /\ Cur = LeftBrace
  BY Zenon DEF ParseAggregate, BareNames, LeftBrace
<1>2. CASE tokens[c] = RightBrace
  <2>1. PICK k : k = Node("init", current, Base + 1)
    OBVIOUS
  <2>2. Step(Forward(c), FALSE, Append(nodes, k), v)
    BY <1>2, <2>1, Zenon DEF ParseAggregate, Makes, Leaf, RightBrace
  <2>3. Unobtrusive(k)
    <3>1. ~IsLoop("init") /\ "init" \notin Named /\ "init" \notin {"inherit", "field"}
      BY Zenon DEF IsLoop, Named
    <3> QED BY <2>1, <3>1, PlainLeaf, Zenon
  <2>4. Row(tokens, v, Inner(todo[1]))
    BY <1>1, HeadShape, Calls, RowOne, Zenon
  <2>5. ~Starter(v[1])
    <3>1. v[1] = Led(Arg(1)) /\ Outer(tokens, Led(Arg(1)))
      BY OuterTasks
    <3> QED BY <3>1, Zenon DEF Outer
  <2> HIDE DEF v
  <2> QED BY ONLY Settled, <1>1, <1>2, <2>2, <2>3, <2>4, <2>5, BracesRead
<1>3. CASE tokens[c] # RightBrace
  <2>1. Step(Forward(current), FALSE, nodes, w)
    BY <1>3, Zenon DEF ParseAggregate, Goes, RightBrace
  <2>2. Braced(tokens, w)
    <3>1. Easy(tokens, Items(InitForm(c), RightBrace)) /\ Outer(tokens, Build("init", current, Base))
          /\ Outer(tokens, Led(Arg(1))) /\ Expect(RightBrace) = ExpectOr(RightBrace, "nothing")
      BY OpenerTasks, OuterTasks, PlainSits, BuildsOuter, Zenon DEF Opener, Expect
    <3> QED BY <3>1, BracedTasks, Zenon
  <2> HIDE DEF w
  <2> QED BY <1>1, <2>1, <2>2, PlainBrace
<1> QED BY <1>2, <1>3

-----------------------------------------------------------------------------
(* The loops while and do.                                                 *)

(* A call that has its place anywhere, and no brace and nothing to hide. *)
Steadfast(p, t) ==
  /\ AtName(p, t) /\ ~IsCast(t) /\ ~IsForInit(t) /\ ~Starter(t)
  /\ BraceCost(t) = 0 /\ \A i : ~PassesIn(p, t, i)

LEMMA LoopTasks ==
  ASSUME NEW p
  PROVE  /\ \A n, at, b : IsLoop(n) => Steadfast(p, Build(n, at, b)) /\ LoopCost(Build(n, at, b)) = 1
         /\ Steadfast(p, DoCond) /\ LoopCost(DoCond) = -1
         /\ \A t : Outer(p, t) \/ Within(p, t) => Steadfast(p, t) /\ LoopCost(t) = 0
<1>1. ASSUME NEW n, NEW at, NEW b, IsLoop(n)
      PROVE  Steadfast(p, Build(n, at, b)) /\ LoopCost(Build(n, at, b)) = 1
  <2>1. PICK e : e = Build(n, at, b)
    OBVIOUS
  <2>2. e[1] = "build" /\ e[2] = n /\ e[3] = at
    BY <2>1 DEF Build
  <2>3. IsBuild(e) /\ ~IsExpect(e) /\ ~IsDoCond(e) /\ ~IsForInit(e) /\ ~IsCast(e) /\ ~Declares(e)
        /\ e[1] # "anon field" /\ ~Starter(e)
    BY <2>2, Zenon DEF IsBuild, IsExpect, IsDoCond, IsForInit, IsCast, Declares, Starter
  <2>4. n \notin Named /\ n \notin {"inherit", "field"}
    BY <1>1, Zenon DEF IsLoop, Named
  <2>5. BraceCost(e) = 0 /\ LoopCost(e) = 1
    BY ONLY <1>1, <2>2, <2>3 DEF BraceCost, LoopCost
  <2>6. AtName(p, e)
    BY <2>2, <2>3, <2>4, Zenon DEF AtName
  <2>7. \A i : ~PassesIn(p, e, i)
    BY <2>2, <2>4, Zenon DEF PassesIn, Passes
  <2> QED BY <2>1, <2>3, <2>5, <2>6, <2>7, Zenon DEF Steadfast
<1>2. Steadfast(p, DoCond) /\ LoopCost(DoCond) = -1
  <2>1. PICK e : e = DoCond
    OBVIOUS
  <2>2. e[1] = "do cond"
    BY <2>1, Zenon DEF DoCond
  <2>3. IsDoCond(e) /\ ~IsBuild(e) /\ ~IsExpect(e) /\ ~IsForInit(e) /\ ~IsCast(e) /\ ~Declares(e)
        /\ e[1] # "anon field" /\ ~Starter(e)
    BY <2>2, Zenon DEF IsBuild, IsExpect, IsDoCond, IsForInit, IsCast, Declares, Starter
  <2>4. BraceCost(e) = 0 /\ LoopCost(e) = -1 /\ \A i : ~PassesIn(p, e, i)
    BY ONLY <2>3 DEF BraceCost, LoopCost, PassesIn
  <2>5. AtName(p, e)
    BY <2>3, Zenon DEF AtName
  <2> QED BY <2>1, <2>3, <2>4, <2>5, Zenon DEF Steadfast
<1>3. \A t : Outer(p, t) \/ Within(p, t) => Steadfast(p, t) /\ LoopCost(t) = 0
  BY Zenon DEF Outer, Within, Easy, Light, Steadfast
<1> QED BY <1>1, <1>2, <1>3

(* What a loop leaves is right. *)
Sturdy(p, w) ==
  Tidy(p, w) /\ \A k \in 1 .. Len(w) : BraceCost(w[k]) = 0 /\ \A i : ~PassesIn(p, w[k], i)
Owes(w, k) == \A z \in Int : \E v : Due("loop", v, w, z) /\ v[1] = z + k

LEMMA RowOwes ==
  ASSUME NEW p, NEW w, Row(p, w, TRUE)
  PROVE  Sturdy(p, w) /\ Owes(w, 0)
<1>0. Usual(p, w, TRUE) /\ \A k \in 1 .. Len(w) : Light(p, w[k])
  BY Zenon DEF Row
<1>t. Tidy(p, w)
  BY ONLY <1>0, UsualTidy
<1>u. Work(w)
  BY <1>t, Zenon DEF Tidy
<1>v. Len(w) \in Nat
  <2>1. PICK S : w \in Seq(S)
    BY <1>u DEF Work
  <2> QED BY <2>1
<1>1. Tidy(p, w) /\ Len(w) \in Nat /\ \A k \in 1 .. Len(w) : Light(p, w[k])
  BY <1>0, <1>t, <1>v
<1>2. Sturdy(p, w)
  BY <1>1, Zenon DEF Sturdy, Light
<1>3. ASSUME NEW z \in Int PROVE \E v : Due("loop", v, w, z) /\ v[1] = z + 0
  <2>1. PICK v : v = [m \in 1 .. Len(w) + 1 |-> z]
    OBVIOUS
  <2>2. Due("loop", v, w, z)
    BY ONLY <1>1, <2>1, z \in Int, NothingDue
  <2>3. v[1] = z + 0
    BY <1>1, <2>1
  <2> QED BY <2>2, <2>3
<1> QED BY <1>2, <1>3 DEF Owes

LEMMA RowThenLoop ==
  ASSUME NEW p, NEW w, Row(p, w, TRUE), NEW t, Steadfast(p, t), LoopCost(t) = 1
  PROVE  /\ Sturdy(p, Append(w, t)) /\ Owes(Append(w, t), 1) /\ Len(Append(w, t)) = Len(w) + 1
         /\ Append(w, t)[Len(w) + 1] = t
<1>0. Usual(p, w, TRUE) /\ \A k \in 1 .. Len(w) : Light(p, w[k])
  BY Zenon DEF Row
<1>t. Tidy(p, w)
  BY ONLY <1>0, UsualTidy
<1>u. Work(w)
  BY <1>t, Zenon DEF Tidy
<1>v. Len(w) \in Nat
  <2>1. PICK S : w \in Seq(S)
    BY <1>u DEF Work
  <2> QED BY <2>1
<1>1. Tidy(p, w) /\ Len(w) \in Nat /\ \A k \in 1 .. Len(w) : Light(p, w[k])
  BY <1>0, <1>t, <1>v
<1>2. PICK S : w \in Seq(S)
  BY DEF Row, Usual, Work
<1> DEFINE T == S \cup {t}
           v == Append(w, t)
           l == Len(w) + 1
<1>3. w \in Seq(T) /\ t \in T
  BY <1>2
<1> HIDE DEF T
<1>4. /\ v \in Seq(T) /\ Len(v) = l /\ v[l] = t /\ DOMAIN v = 1 .. l /\ DOMAIN w = 1 .. Len(w)
      /\ \A i \in 1 .. Len(w) : v[i] = w[i]
  BY <1>3
<1> HIDE DEF v
<1>5. l \in Nat /\ \A m : m \in 1 .. l <=> m \in 1 .. Len(w) \/ m = l
  BY <1>1
<1> HIDE DEF l
<1>6. Work(v)
  BY <1>4, <1>5 DEF Work
<1>a. /\ AtName(p, t) /\ ~IsCast(t) /\ ~IsForInit(t) /\ ~Starter(t) /\ BraceCost(t) = 0
      /\ \A i : ~PassesIn(p, t, i)
  BY Zenon DEF Steadfast
<1>b. \A m \in 1 .. Len(w) : /\ AtName(p, w[m]) /\ ~IsCast(w[m]) /\ ~IsForInit(w[m])
                             /\ m > 1 /\ Starter(w[m]) => Opening(w[m - 1])
                             /\ m - 1 \in 1 .. Len(w) \/ ~(m > 1)
  BY <1>1 DEF Row, Usual, Fitting
<1>7. ASSUME NEW m \in 1 .. l
      PROVE  /\ AtName(p, v[m]) /\ ~IsCast(v[m]) /\ ~IsForInit(v[m])
             /\ m > 1 /\ Starter(v[m]) => Opening(v[m - 1])
  <2>1. CASE m \in 1 .. Len(w)
    <3>1. v[m] = w[m] /\ (m > 1 => v[m - 1] = w[m - 1])
      BY <1>4, <1>b, <2>1
    <3> QED BY <1>b, <2>1, <3>1
  <2>2. CASE m = l
    BY <1>4, <1>a, <2>2
  <2> QED BY <1>5, <2>1, <2>2
<1>8. Placed(p, v)
  BY <1>4, <1>7 DEF Placed
<1>9. Tidy(p, v)
  BY <1>4, <1>6, <1>7, <1>8 DEF Tidy
<1>10. Sturdy(p, v)
  <2>1. ASSUME NEW k \in 1 .. l PROVE BraceCost(v[k]) = 0 /\ \A i : ~PassesIn(p, v[k], i)
    <3>1. CASE k \in 1 .. Len(w)
      BY <1>1, <1>4, <3>1 DEF Light
    <3>2. CASE k = l
      BY <1>4, <1>a, <3>2
    <3> QED BY <1>5, <3>1, <3>2
  <2> QED BY <1>4, <1>9, <2>1 DEF Sturdy
<1>11. ASSUME NEW z \in Int PROVE \E u : Due("loop", u, v, z) /\ u[1] = z + 1
  <2>1. PICK u : u = [m \in 1 .. l + 1 |-> IF m <= l THEN z + 1 ELSE z]
    OBVIOUS
  <2>2. /\ \A m \in 1 .. l : m \in 1 .. l + 1 /\ m + 1 \in 1 .. l + 1 /\ u[m] = z + 1
        /\ u[l + 1] = z /\ \A m \in 1 .. l + 1 : u[m] \in Int
    BY <1>5, <2>1
  <2>3. ASSUME NEW m \in 1 .. l PROVE u[m] = u[m + 1] + LoopCost(v[m])
    <3>1. CASE m \in 1 .. Len(w)
      <4>1. LoopCost(v[m]) = 0
        BY <1>1, <1>4, <3>1 DEF Light
      <4>2. m + 1 \in 1 .. l
        BY <1>1, <3>1 DEF l
      <4> QED BY <2>2, <4>1, <4>2
    <3>2. CASE m = l
      BY <1>4, <2>2, <3>2
    <3> QED BY <1>5, <3>1, <3>2
  <2>4. \A m \in 1 .. l : Cost("loop", v[m]) = LoopCost(v[m])
    BY DEF Cost
  <2>5. Due("loop", u, v, z)
    BY <1>4, <2>2, <2>3, <2>4 DEF Due
  <2>6. u[1] = z + 1
    <3>1. 1 \in 1 .. l
      BY <1>1 DEF l
    <3> QED BY <2>2, <3>1
  <2> QED BY <2>5, <2>6
<1>12. Owes(v, 1)
  BY <1>11 DEF Owes
<1> QED BY <1>4, <1>10, <1>12 DEF v, l

LEMMA ThreeOwe ==
  ASSUME NEW p, NEW a, Steadfast(p, a), LoopCost(a) = 0, NEW b, Steadfast(p, b), LoopCost(b) = -1,
         NEW c, Steadfast(p, c), LoopCost(c) = 1, NEW w, w = <<a, b, c>>
  PROVE  Sturdy(p, w) /\ Owes(w, 0) /\ Len(w) = 3 /\ w[3] = c
<1>1. w \in Seq({a, b, c}) /\ Len(w) = 3 /\ DOMAIN w = 1 .. 3 /\ w[1] = a /\ w[2] = b /\ w[3] = c
  OBVIOUS
<1>2. \A k \in 1 .. 3 : k = 1 \/ k = 2 \/ k = 3
  OBVIOUS
<1>3. \A k \in 1 .. 3 : Steadfast(p, w[k])
  BY <1>1, <1>2
<1>4. Work(w)
  BY <1>1 DEF Work
<1>5. Tidy(p, w)
  <2>1. Placed(p, w)
    BY <1>1, <1>3 DEF Placed, Steadfast
  <2> QED BY <1>1, <1>3, <1>4, <2>1 DEF Tidy, Steadfast
<1>6. Sturdy(p, w)
  BY <1>1, <1>3, <1>5 DEF Sturdy, Steadfast
<1>7. ASSUME NEW z \in Int PROVE \E u : Due("loop", u, w, z) /\ u[1] = z + 0
  <2>1. PICK u : u = <<z, z, z + 1, z>>
    OBVIOUS
  <2>2. u[1] = z /\ u[2] = z /\ u[3] = z + 1 /\ u[4] = z
    BY <2>1
  <2>3. \A k \in 1 .. 4 : k = 1 \/ k = 2 \/ k = 3 \/ k = 4
    OBVIOUS
  <2>4. \A k \in 1 .. 4 : u[k] \in Int
    BY <2>2, <2>3
  <2>5. u[1] = u[2] + LoopCost(w[1]) /\ u[2] = u[3] + LoopCost(w[2]) /\ u[3] = u[4] + LoopCost(w[3])
    BY <1>1, <2>2
  <2>6. \A k \in 1 .. 3 : u[k] = u[k + 1] + LoopCost(w[k])
    <3>1. 1 + 1 = 2 /\ 2 + 1 = 3 /\ 3 + 1 = 4
      OBVIOUS
    <3> QED BY <1>2, <2>5, <3>1
  <2>7. \A k \in 1 .. 3 : Cost("loop", w[k]) = LoopCost(w[k])
    BY DEF Cost
  <2>8. Len(w) + 1 = 4
    BY <1>1
  <2>9. Due("loop", u, w, z)
    BY <1>1, <2>2, <2>4, <2>6, <2>7, <2>8 DEF Due
  <2>10. u[1] = z + 0
    BY <2>2
  <2> QED BY <2>9, <2>10
<1> QED BY <1>1, <1>6, <1>7 DEF Owes

(* A step that reads a word while or a keyword, inside of braces. *)
LEMMA LoopStep ==
  ASSUME Settled, todo # <<>>, Inner(todo[1]), ~IsAliases(todo[1]), ~IsExpect(todo[1]),
         BraceCost(todo[1]) = 0, \A i : ~PassesIn(tokens, todo[1], i) /\ ~StandsIn(tokens, todo[1], i),
         Cur # "EOF", Cur \notin {LeftBrace, RightBrace, "name", "var"},
         NEW w, Sturdy(tokens, w), Step(Forward(current), FALSE, nodes, w),
         NEW k \in Int, Owes(w, k), k = LoopCost(todo[1]) + (IF Cur = "while" THEN 1 ELSE 0),
         Cur \in StmtKeywords => \E m \in 1 .. Len(w) : StandsIn(tokens, w[m], current)
  PROVE  StructureInv'
<1> DEFINE d == Forward(current)
<1>1. PICK x, y : WholeNow(x, y)
  BY SettledFacts
<1>2. /\ x[1] \in Nat /\ x[2] \in Nat /\ y[1] \in Int /\ y[2] \in Int
      /\ x[1] = x[2] + BraceCost(todo[1]) /\ y[1] = y[2] + LoopCost(todo[1])
      /\ x[1] = Depth(tokens, Passing, current)
      /\ y[1] = Surplus(tokens, Passing, current, nodes, Len(nodes))
      /\ x[1] > 0
  BY <1>1, HeadCosts
<1>3. current \in Nat /\ 1 <= current /\ Quiet
  BY SettledFacts
<1>5. d \in Positions /\ current <= d /\ d = current + 1 /\ \A i \in current .. d - 1 : i = current
  BY <1>3, QuietFacts, Passed DEF Cur
<1> HIDE DEF d
<1>6. tokens[current] = Cur /\ current \notin Passing
  BY <1>3, NotHidden DEF Cur
<1>7. Depth(tokens, Passing, d) = Depth(tokens, Passing, current)
  <2>1. \A t \in {LeftBrace, RightBrace} : \A j \in current .. d - 1 : tokens[j] # t
    BY <1>5, <1>6
  <2>2. \A t \in {LeftBrace, RightBrace} : Number(tokens, Passing, d, t) = Number(tokens, Passing, current, t)
    BY <1>3, <1>5, <2>1, NumberStays
  <2> QED BY <2>2 DEF Depth
<1>8. Surplus(tokens, Passing, d, nodes, Len(nodes)) = Surplus(tokens, Passing, current, nodes, Len(nodes))
                                                        + (IF Cur = "while" THEN 1 ELSE 0)
  <2>1. Number(tokens, Passing, current, "while") \in Nat /\ LoopNodes(nodes, Len(nodes)) \in Nat
    <3>1. Len(nodes) \in Nat
      BY SettledFacts
    <3> QED BY <1>3, <3>1, NumberIsNat, LoopsAreNat
  <2>2. CASE Cur = "while"
    <3>0. tokens[current] = "while" /\ current \notin Passing
      BY <1>6, <2>2
    <3>1. Number(tokens, Passing, d, "while") = Number(tokens, Passing, current, "while") + 1
      BY <1>3, <1>5, <3>0, NumberGrows
    <3> QED BY <2>1, <2>2, <3>1 DEF Surplus
  <2>3. CASE Cur # "while"
    <3>1. \A j \in current .. d - 1 : tokens[j] # "while"
      BY <1>5, <1>6, <2>3
    <3>2. Number(tokens, Passing, d, "while") = Number(tokens, Passing, current, "while")
      BY <1>3, <1>5, <3>1, NumberStays
    <3> QED BY <2>1, <2>3, <3>2 DEF Surplus
  <2> QED BY <2>2, <2>3
<1>9. Tidy(tokens, w) /\ Len(w) \in Nat
      /\ \A m \in 1 .. Len(w) : BraceCost(w[m]) = 0 /\ \A i : ~PassesIn(tokens, w[m], i)
  <2>1. Tidy(tokens, w) /\ Work(w)
        /\ \A m \in 1 .. Len(w) : BraceCost(w[m]) = 0 /\ \A i : ~PassesIn(tokens, w[m], i)
    BY Zenon DEF Sturdy, Tidy
  <2>2. PICK S : w \in Seq(S)
    BY <2>1 DEF Work
  <2> QED BY <2>1, <2>2
<1>10. PICK v : Due("loop", v, w, y[2]) /\ v[1] = y[2] + k
  BY <1>2, Zenon DEF Owes
<1>11. PICK u : u = [m \in 1 .. Len(w) + 1 |-> x[2]]
  OBVIOUS
<1>12. (\A m \in 1 .. Len(w) + 1 : u[m] = x[2]) /\ u[1] = x[2] /\ x[2] \in Int /\ x[2] = x[1]
  <2>1. 1 \in 1 .. Len(w) + 1
    BY <1>9
  <2> QED BY <1>2, <1>11, <2>1
<1>13. Due("brace", u, w, x[2])
  <2>1. \A m \in 1 .. Len(w) : m \in 1 .. Len(w) + 1 /\ m + 1 \in 1 .. Len(w) + 1
    BY <1>9
  <2>2. Len(w) + 1 \in 1 .. Len(w) + 1
    BY <1>9
  <2>3. \A m \in 1 .. Len(w) : Cost("brace", w[m]) = 0
    BY <1>9 DEF Cost
  <2> QED BY <1>12, <2>1, <2>2, <2>3 DEF Due
<1>14. \A m \in 1 .. Len(w) + 1 : u[m] >= 0
  BY <1>2, <1>12
<1>15. PICK new : new = {}
  OBVIOUS
<1>16. PICK more : more = nodes
  OBVIOUS
<1>17. Grown(nodes, more, new) /\ Step(d, FALSE, more, w)
  BY <1>3, <1>15, <1>16, QuietFacts, GrownFacts DEF d
<1>18. u[1] = Depth(tokens, Passing, d) /\ v[1] = Surplus(tokens, Passing, d, more, Len(more))
  <2>1. LoopCost(todo[1]) \in Int
    BY DEF LoopCost
  <2> QED BY <1>2, <1>7, <1>8, <1>10, <1>12, <1>16, <2>1
<1>19. \A i \in current .. d - 1 :
         Wanted(tokens, Passing, i) => Recorded(tokens, d, w \o Tail(todo), w, new, i)
  <2>1. Wanted(tokens, Passing, current) => Cur \in StmtKeywords
    BY <1>6, Zenon DEF Wanted, Begins
  <2>2. Cur \in StmtKeywords => Recorded(tokens, d, w \o Tail(todo), w, new, current)
    BY Zenon DEF Recorded, Standing
  <2> QED BY <1>5, <2>1, <2>2, Zenon
<1>20. \A m \in 1 .. Len(w) : Inner(w[m]) => u[m] > 0
  <2>1. \A m \in 1 .. Len(w) : m \in 1 .. Len(w) + 1
    BY <1>9
  <2> QED BY <1>2, <1>12, <2>1
<1>21. Len(w) > 0 /\ Starter(w[1]) /\ u[1] = 0 => d > 1 /\ ~Ends(tokens[d - 1])
  BY <1>2, <1>12
<1>22. SameHiding(tokens, todo, w, new)
  BY <1>9, <1>15, Zenon DEF SameHiding
<1>23. HandsStanding(tokens, current, todo, w, new)
  BY Zenon DEF HandsStanding
<1> QED BY ONLY Settled, todo # <<>>, <1>1, <1>5, <1>17, ~IsAliases(todo[1]), ~IsExpect(todo[1]),
                <1>22, <1>23, <1>10, <1>13, <1>14, <1>18, <1>19, <1>9, <1>20, <1>21, SameStep

LEMMA StructWhile == ASSUME Settled, ParseWhile PROVE StructureInv'
<1> DEFINE v == <<Expect("("), Expr(0), Expect(")"), Stmt>>
           t == Build("while", current, Base)
           w == <<Expect("("), Expr(0), Expect(")"), Stmt, t>>
<1>1. Doing("stmt") /\ "stmt" \in BareNames /\ "stmt" \in InnerNames /\ Cur = "while"
      /\ Step(Forward(current), FALSE, nodes, w)
  BY Zenon DEF ParseWhile, BareNames, InnerNames, Goes
<1>2. todo # <<>> /\ PlainHead(todo[1]) /\ Inner(todo[1])
  BY <1>1, HeadShape
<1>3. /\ BraceCost(todo[1]) = 0 /\ LoopCost(todo[1]) = 0 /\ ~IsExpect(todo[1]) /\ ~IsAliases(todo[1])
      /\ \A i : ~PassesIn(tokens, todo[1], i) /\ ~StandsIn(tokens, todo[1], i)
  BY <1>2, PlainCosts
<1>4. Row(tokens, v, TRUE)
  BY Calls, CallsWithin, OpeningSign, Signs, RowFour, Zenon
<1>5. Steadfast(tokens, t) /\ LoopCost(t) = 1
  BY LoopTasks, Zenon DEF IsLoop
<1>6. w = Append(v, t)
  OBVIOUS
<1> HIDE DEF t, v
<1>7. Sturdy(tokens, w) /\ Owes(w, 1)
  <2>1. Sturdy(tokens, Append(v, t)) /\ Owes(Append(v, t), 1)
    BY ONLY <1>4, <1>5, RowThenLoop
  <2> QED BY <1>6, <2>1
<1> HIDE DEF w
<1>8. Cur \notin {LeftBrace, RightBrace, "name", "var"} /\ Cur # "EOF" /\ Cur \notin StmtKeywords
  BY <1>1, Zenon DEF LeftBrace, RightBrace, StmtKeywords
<1>9. 1 \in Int /\ 1 = LoopCost(todo[1]) + (IF Cur = "while" THEN 1 ELSE 0)
  BY <1>1, <1>3
<1> QED BY ONLY Settled, <1>1, <1>2, <1>3, <1>7, <1>8, <1>9, LoopStep

LEMMA StructDoWhile == ASSUME Settled, ParseDoWhile PROVE StructureInv'
<1> DEFINE t == Build("do", current, Base)
           w == <<Stmt, DoCond, t>>
<1>1. Doing("stmt") /\ "stmt" \in BareNames /\ "stmt" \in InnerNames /\ Cur = "do"
      /\ Step(Forward(current), FALSE, nodes, w)
  BY Zenon DEF ParseDoWhile, BareNames, InnerNames, Goes
<1>2. todo # <<>> /\ PlainHead(todo[1]) /\ Inner(todo[1])
  BY <1>1, HeadShape
<1>3. /\ BraceCost(todo[1]) = 0 /\ LoopCost(todo[1]) = 0 /\ ~IsExpect(todo[1]) /\ ~IsAliases(todo[1])
      /\ \A i : ~PassesIn(tokens, todo[1], i) /\ ~StandsIn(tokens, todo[1], i)
  BY <1>2, PlainCosts
<1>5. Steadfast(tokens, t) /\ LoopCost(t) = 1
  BY LoopTasks, Zenon DEF IsLoop
<1>6. /\ Steadfast(tokens, DoCond) /\ LoopCost(DoCond) = -1
      /\ Steadfast(tokens, Stmt) /\ LoopCost(Stmt) = 0
  BY LoopTasks, WithinTasks, Zenon
<1>s. StandsIn(tokens, t, current)
  <2>1. tokens[current] = "do" /\ tokens[current] \in StmtKeywords
    BY <1>1 DEF Cur, StmtKeywords
  <2> QED BY <2>1, StandsFacts
<1> HIDE DEF t
<1>7. Sturdy(tokens, w) /\ Owes(w, 0) /\ Len(w) = 3 /\ w[3] = t
  <2>1. PICK a, b : a = Stmt /\ b = DoCond
    OBVIOUS
  <2>2. w = <<a, b, t>> /\ Steadfast(tokens, a) /\ LoopCost(a) = 0 /\ Steadfast(tokens, b) /\ LoopCost(b) = -1
    BY <1>6, <2>1
  <2> HIDE DEF w
  <2> QED BY ONLY <1>5, <2>2, ThreeOwe
<1> HIDE DEF w
<1>8. Cur \notin {LeftBrace, RightBrace, "name", "var"} /\ Cur # "EOF" /\ Cur # "while"
  BY <1>1, Zenon DEF LeftBrace, RightBrace
<1>9. 0 \in Int /\ 0 = LoopCost(todo[1]) + (IF Cur = "while" THEN 1 ELSE 0)
  BY <1>3, <1>8
<1>10. \E m \in 1 .. Len(w) : StandsIn(tokens, w[m], current)
  <2>1. 3 \in 1 .. Len(w)
    <3>1. Len(w) = 3
      BY <1>7
    <3> QED BY ONLY <3>1
  <2> QED BY <1>7, <1>s, <2>1
<1> QED BY ONLY Settled, <1>1, <1>2, <1>3, <1>7, <1>8, <1>9, <1>10, LoopStep

LEMMA StructDoCond == ASSUME Settled, ParseDoCond PROVE StructureInv'
<1> DEFINE w == <<Expect("("), Expr(0), Expect(")"), Expect(SemiSign)>>
<1>1. Doing("do cond")
  BY Zenon DEF ParseDoCond
<1>2. CASE Cur = "while"
  <2>1. Step(Forward(current), FALSE, nodes, w)
    BY <1>2, Zenon DEF ParseDoCond, Goes, SemiSign
  <2>2. todo # <<>> /\ todo[1][1] = "do cond" /\ Inner(todo[1])
    BY <1>1, HeadShape, Zenon DEF InnerNames
  <2>3. IsDoCond(todo[1]) /\ ~IsExpect(todo[1]) /\ ~IsAliases(todo[1]) /\ ~IsBuild(todo[1])
        /\ ~IsThen(todo[1]) /\ ~Declares(todo[1])
    BY <2>2 DEF IsDoCond, IsExpect, IsAliases, IsBuild, IsThen, Declares
  <2>4. BraceCost(todo[1]) = 0 /\ LoopCost(todo[1]) = -1
        /\ \A i : ~PassesIn(tokens, todo[1], i) /\ ~StandsIn(tokens, todo[1], i)
    BY ONLY <2>3 DEF BraceCost, LoopCost, PassesIn, StandsIn
  <2>5. Row(tokens, w, TRUE)
    BY Calls, OpeningSign, Signs, RowFour, Zenon
  <2> HIDE DEF w
  <2>6. Sturdy(tokens, w) /\ Owes(w, 0)
    BY ONLY <2>5, RowOwes
  <2>7. Cur \notin {LeftBrace, RightBrace, "name", "var"} /\ Cur # "EOF" /\ Cur \notin StmtKeywords
    BY <1>2, Zenon DEF LeftBrace, RightBrace, StmtKeywords
  <2>8. 0 \in Int /\ 0 = LoopCost(todo[1]) + (IF Cur = "while" THEN 1 ELSE 0)
    BY <1>2, <2>4
  <2> QED BY ONLY Settled, <2>1, <2>2, <2>3, <2>4, <2>6, <2>7, <2>8, LoopStep
<1>3. CASE Cur # "while"
  <2>1. Step(SyncStmt(current), TRUE, nodes, <<>>)
    BY <1>3, Zenon DEF ParseDoCond, Reports
  <2> QED BY <2>1, LoudStructure
<1> QED BY <1>2, <1>3

-----------------------------------------------------------------------------
(* The calls that make a node, and that expect a token.                    *)

LEMMA EmptyWork ==
  ASSUME NEW p
  PROVE  /\ Tidy(p, <<>>) /\ Len(<<>>) = 0 /\ (\A k \in 1 .. Len(<<>>) : Light(p, <<>>[k]) /\ ~IsCast(<<>>[k]))
         /\ \A d, more, u, v : NewCast(p, d, more, <<>>, u, v)
<1>1. Row(p, <<>>, TRUE) /\ Len(<<>>) = 0
  BY RowOne
<1>2. Usual(p, <<>>, TRUE)
  BY <1>1, Zenon DEF Row
<1>3. Tidy(p, <<>>)
  BY ONLY <1>2, UsualTidy
<1>4. 1 .. Len(<<>>) = {}
  BY <1>1
<1> QED BY <1>1, <1>3, <1>4 DEF NewCast

LEMMA StructBuild == ASSUME Settled, BuildNode PROVE StructureInv'
<1>1. Doing("build") /\ Step(current, FALSE, Append(nodes, Node(Arg(1), Arg(2), Arg(3) + 1)), <<>>)
  BY Zenon DEF BuildNode
<1>2. Quiet /\ todo # <<>> /\ Head(todo) = todo[1] /\ todo[1][1] = "build"
  BY <1>1, HeadShape
<1>3. PICK k : k = Node(Arg(1), Arg(2), Arg(3) + 1)
  OBVIOUS
<1>4. k.node = todo[1][2] /\ k.at = todo[1][3]
  BY <1>2, <1>3, ArgsAre DEF Node
<1>5. IsBuild(todo[1]) /\ ~IsExpect(todo[1]) /\ ~IsAliases(todo[1]) /\ ~IsThen(todo[1]) /\ ~Declares(todo[1])
      /\ ~IsDoCond(todo[1])
  BY <1>2 DEF IsBuild, IsExpect, IsAliases, IsThen, Declares, IsDoCond
<1>6. BraceCost(todo[1]) = 0 /\ LoopCost(todo[1]) = (IF IsLoop(k.node) THEN 1 ELSE 0)
  BY <1>4, <1>5 DEF BraceCost, LoopCost
<1>7. PICK x, y : WholeNow(x, y)
  BY SettledFacts
<1>8. /\ x[1] \in Nat /\ x[2] \in Nat /\ y[1] \in Int /\ y[2] \in Int
      /\ x[1] = x[2] + BraceCost(todo[1]) /\ y[1] = y[2] + LoopCost(todo[1])
      /\ x[1] = Depth(tokens, Passing, current)
      /\ y[1] = Surplus(tokens, Passing, current, nodes, Len(nodes))
  BY <1>2, <1>7, HeadCosts
<1>d. PICK d : d = current
  OBVIOUS
<1>9. d \in Positions /\ current \in Nat /\ current <= d /\ d .. d - 1 = {}
  BY <1>2, <1>d, QuietFacts, SettledFacts
<1>10. PICK new : new = {k}
  OBVIOUS
<1>11. PICK more : more = Append(nodes, k)
  OBVIOUS
<1>12. PICK w : w = <<>>
  OBVIOUS
<1>13. Grown(nodes, more, new) /\ Step(d, FALSE, more, w)
  BY <1>1, <1>d, <1>2, <1>3, <1>10, <1>11, <1>12, QuietFacts, GrownFacts
<1>14. Number(tokens, Passing, current, "while") \in Nat /\ LoopNodes(nodes, Len(nodes)) \in Nat
  <2>1. Len(nodes) \in Nat
    BY SettledFacts
  <2> QED BY <1>9, <2>1, NumberIsNat, LoopsAreNat
<1>15. LoopNodes(more, Len(more)) = LoopNodes(nodes, Len(nodes)) + LoopCost(todo[1])
  <2>1. CASE IsLoop(k.node)
    <3>1. LoopNodes(more, Len(more)) = LoopNodes(nodes, Len(nodes)) + 1
      BY <1>11, <2>1, SettledFacts, LoopsGrow
    <3> QED BY <1>6, <2>1, <3>1
  <2>2. CASE ~IsLoop(k.node)
    <3>1. LoopNodes(more, Len(more)) = LoopNodes(nodes, Len(nodes))
      BY <1>10, <1>13, <2>2, LoopsStay
    <3> QED BY <1>6, <1>14, <2>2, <3>1
  <2> QED BY <2>1, <2>2
<1>16. Tidy(tokens, w) /\ Len(w) = 0 /\ Len(w) \in Nat /\ \A m \in 1 .. Len(w) : Light(tokens, w[m])
  BY <1>12, EmptyWork
<1>17. PICK u, v : u = [m \in 1 .. Len(w) + 1 |-> x[2]] /\ v = [m \in 1 .. Len(w) + 1 |-> y[2]]
  OBVIOUS
<1>18. Due("brace", u, w, x[2]) /\ Due("loop", v, w, y[2])
  <2>1. x[2] \in Int
    BY <1>8
  <2>2. Due("brace", u, w, x[2])
    BY ONLY <2>1, <1>16, <1>17, NothingDue
  <2>3. Due("loop", v, w, y[2])
    BY ONLY <1>8, <1>16, <1>17, NothingDue
  <2> QED BY <2>2, <2>3
<1>19. u[1] = x[2] /\ v[1] = y[2] /\ \A m \in 1 .. Len(w) + 1 : u[m] >= 0
  BY <1>8, <1>16, <1>17
<1>20. u[1] = Depth(tokens, Passing, d) /\ v[1] = Surplus(tokens, Passing, d, more, Len(more))
  <2>1. LoopCost(todo[1]) \in Int
    BY <1>6
  <2> QED BY <1>6, <1>8, <1>d, <1>14, <1>15, <1>19, <2>1 DEF Surplus
<1>21. SameHiding(tokens, todo, w, new)
  <2>1. \A i : PassesIn(tokens, todo[1], i) <=> Passes(tokens, k.node, k.at, i)
    BY <1>4, <1>5, Zenon DEF PassesIn
  <2> QED BY <1>10, <1>16, <2>1 DEF SameHiding
<1>22. HandsStanding(tokens, current, todo, w, new)
  <2>1. \A i : StandsIn(tokens, todo[1], i) => Stands(tokens, k.node, k.at, i)
    BY <1>4, <1>5, Zenon DEF StandsIn
  <2> QED BY <1>10, <2>1 DEF HandsStanding
<1>23. (\A i \in current .. d - 1 :
          Wanted(tokens, Passing, i) => Recorded(tokens, d, w \o Tail(todo), w, new, i))
       /\ (\A m \in 1 .. Len(w) : Inner(w[m]) => u[m] > 0)
  BY <1>9, <1>d, <1>16
<1>24. Len(w) > 0 /\ Starter(w[1]) /\ u[1] = 0 => d > 1 /\ ~Ends(tokens[d - 1])
  BY <1>16
<1> QED BY ONLY Settled, <1>2, <1>7, <1>9, <1>13, <1>5, <1>21, <1>22, <1>18, <1>19, <1>20, <1>23, <1>16,
                <1>24, SameStep

LEMMA StructExpected == ASSUME Settled, Expected PROVE StructureInv'
<1> DEFINE d == Forward(current)
<1>1. Doing("expect") /\ Cur = Arg(1) /\ Step(d, FALSE, nodes, <<>>)
  BY Zenon DEF Expected, Goes
<1>2. Quiet /\ todo # <<>> /\ Head(todo) = todo[1] /\ todo[1][1] = "expect"
  BY <1>1, HeadShape
<1>3. tokens[current] = todo[1][2]
  BY <1>1, <1>2, ArgsAre DEF Cur
<1>4. IsExpect(todo[1]) /\ ~IsBuild(todo[1]) /\ ~IsAliases(todo[1]) /\ ~IsThen(todo[1]) /\ ~Declares(todo[1])
      /\ ~IsDoCond(todo[1])
  BY <1>2 DEF IsBuild, IsExpect, IsAliases, IsThen, Declares, IsDoCond
<1>5. PICK x, y : WholeNow(x, y)
  BY SettledFacts
<1>6. /\ 1 \in DOMAIN todo /\ todo \in Seq(Tasks) /\ current \in Nat /\ 1 <= current /\ Placed(tokens, todo)
      /\ NoneAhead(tokens, current, Passing, todo) /\ Len(tokens) \in Nat /\ current <= Len(tokens)
  <2>1. /\ 1 \in DOMAIN todo /\ todo \in Seq(Tasks) /\ current \in Nat /\ 1 <= current
        /\ Len(tokens) \in Nat /\ current <= Len(tokens)
    BY <1>2, HeadIs, SettledFacts
  <2>2. Placed(tokens, todo) /\ NoneAhead(tokens, current, Passing, todo)
    BY <1>5, Zenon DEF WholeNow, Whole
  <2> QED BY <2>1, <2>2
<1>7. /\ tokens[current] # "name" /\ tokens[current] \notin Keywords /\ tokens[current] # LeftBrace
  BY <1>3, <1>4, <1>6 DEF Placed, AtName
<1>8. tokens[current] \notin StmtKeywords /\ tokens[current] # "var" /\ tokens[current] # "while"
  BY <1>7, Zenon DEF Keywords, StmtKeywords
<1>9. BraceCost(todo[1]) = (IF tokens[current] = RightBrace THEN 1 ELSE 0) /\ LoopCost(todo[1]) = 0
  BY <1>3, <1>4 DEF BraceCost, LoopCost
<1>10. /\ x[1] \in Nat /\ x[2] \in Nat /\ y[1] \in Int /\ y[2] \in Int
       /\ x[1] = x[2] + BraceCost(todo[1]) /\ y[1] = y[2] + LoopCost(todo[1])
       /\ x[1] = Depth(tokens, Passing, current)
       /\ y[1] = Surplus(tokens, Passing, current, nodes, Len(nodes))
  BY <1>2, <1>5, HeadCosts
<1>11. d \in Positions /\ current <= d /\ (\A i \in current .. d - 1 : i = current)
       /\ (tokens[current] # "EOF" => d = current + 1) /\ (tokens[current] = "EOF" => d = current)
  BY <1>2, QuietFacts, Passed
<1> HIDE DEF d
<1>12. current \notin Passing
  BY <1>2, <1>4, <1>6, NotHidden
<1>13. Number(tokens, Passing, d, LeftBrace) = Number(tokens, Passing, current, LeftBrace)
       /\ Number(tokens, Passing, d, "while") = Number(tokens, Passing, current, "while")
  <2>1. d \in Nat
    BY <1>11 DEF Positions
  <2>2. \A t \in {LeftBrace, "while"} : \A j \in current .. d - 1 : tokens[j] # t
    BY <1>7, <1>8, <1>11
  <2> QED BY <1>6, <1>11, <2>1, <2>2, NumberStays
<1>14. Number(tokens, Passing, d, RightBrace) = Number(tokens, Passing, current, RightBrace) + BraceCost(todo[1])
  <2>1. Number(tokens, Passing, current, RightBrace) \in Nat
    BY <1>6, NumberIsNat
  <2>2. CASE tokens[current] = RightBrace
    <3>1. d = current + 1
      <4>1. RightBrace # "EOF"
        BY Zenon DEF RightBrace
      <4> QED BY <1>11, <2>2, <4>1
    <3>2. Number(tokens, Passing, d, RightBrace) = Number(tokens, Passing, current, RightBrace) + 1
      BY <1>6, <1>12, <2>2, <3>1, NumberGrows
    <3> QED BY <1>9, <2>2, <3>2
  <2>3. CASE tokens[current] # RightBrace
    <3>1. d \in Nat
      BY <1>11 DEF Positions
    <3>2. \A j \in current .. d - 1 : tokens[j] # RightBrace
      BY <1>11, <2>3
    <3>3. Number(tokens, Passing, d, RightBrace) = Number(tokens, Passing, current, RightBrace)
      BY <1>6, <1>11, <3>1, <3>2, NumberStays
    <3> QED BY <1>9, <2>1, <2>3, <3>3
  <2> QED BY <2>2, <2>3
<1>15. Depth(tokens, Passing, d) = x[2] /\ Surplus(tokens, Passing, d, nodes, Len(nodes)) = y[2]
  <2>1. /\ Number(tokens, Passing, current, LeftBrace) \in Nat /\ Number(tokens, Passing, current, RightBrace) \in Nat
        /\ BraceCost(todo[1]) \in Int
    BY <1>6, <1>9, NumberIsNat
  <2>2. Depth(tokens, Passing, d) = x[2]
    BY <1>10, <1>13, <1>14, <2>1 DEF Depth
  <2>3. Surplus(tokens, Passing, d, nodes, Len(nodes)) = y[2]
    BY <1>9, <1>10, <1>13 DEF Surplus
  <2> QED BY <2>2, <2>3
<1>16. PICK w : w = <<>>
  OBVIOUS
<1>17. PICK new : new = {}
  OBVIOUS
<1>18. PICK more : more = nodes
  OBVIOUS
<1>19. PICK r : r = w \o Tail(todo)
  OBVIOUS
<1>20. /\ Tidy(tokens, w) /\ Len(w) = 0 /\ Len(w) \in Nat /\ (\A m \in 1 .. Len(w) : Light(tokens, w[m]) /\ ~IsCast(w[m]))
       /\ \A u, v : NewCast(tokens, d, more, w, u, v)
  BY <1>16, EmptyWork
<1>21. Grown(nodes, more, new) /\ Step(d, FALSE, more, w)
  BY <1>1, <1>2, <1>16, <1>17, <1>18, QuietFacts, GrownFacts DEF d
<1>22. PICK u, v : u = [m \in 1 .. Len(w) + 1 |-> x[2]] /\ v = [m \in 1 .. Len(w) + 1 |-> y[2]]
  OBVIOUS
<1>23. Due("brace", u, w, x[2]) /\ Due("loop", v, w, y[2])
  <2>1. x[2] \in Int
    BY <1>10
  <2>2. Due("brace", u, w, x[2])
    BY ONLY <2>1, <1>20, <1>22, NothingDue
  <2>3. Due("loop", v, w, y[2])
    BY ONLY <1>10, <1>20, <1>22, NothingDue
  <2> QED BY <2>2, <2>3
<1>24. u[1] = x[2] /\ v[1] = y[2] /\ \A m \in 1 .. Len(w) + 1 : u[m] >= 0
  BY <1>10, <1>20, <1>22
<1>25. SameHiding(tokens, todo, w, new)
  <2>1. \A i : ~PassesIn(tokens, todo[1], i)
    BY <1>4 DEF PassesIn
  <2> QED BY <1>17, <1>20, <2>1 DEF SameHiding
<1>26. HandsStanding(tokens, current, todo, w, new)
  <2>1. \A i : ~StandsIn(tokens, todo[1], i)
    BY <1>4, Zenon DEF StandsIn
  <2> QED BY <2>1 DEF HandsStanding
<1>27. Work(w) /\ Placed(tokens, w)
  BY <1>20, Zenon DEF Tidy
<1>28. Joins(w, todo, r)
  BY <1>2, <1>6, <1>19, <1>27, JoinFacts
<1>29. PICK H : H = Hidden(tokens, more, Len(more), r, 0)
  OBVIOUS
<1>30. H = Passing
  BY ONLY <1>6, <1>21, <1>25, <1>28, <1>29, SameHidden DEF Passing
<1>31. HandsHiding(tokens, current, todo, w, new)
  BY <1>25, Zenon DEF SameHiding, HandsHiding
<1>32. NoneAhead(tokens, d, H, r)
  <2> SUFFICES ASSUME NEW j \in H, j >= d PROVE FALSE
    BY DEF NoneAhead
  <2>1. j \in 1 .. Len(tokens) - 1
    BY <1>29 DEF Hidden
  <2>2. j >= current
    BY <1>6, <1>11, <2>1 DEF Positions
  <2> QED BY <1>4, <1>6, <1>30, <2>2 DEF NoneAhead
<1>33. Semicolon(todo[1]) => tokens[current] = SemiSign
  BY <1>3 DEF Semicolon
<1>34. \A i \in current .. d - 1 : Wanted(tokens, H, i) => Recorded(tokens, d, r, w, new, i)
  <2>1. ~Wanted(tokens, H, current)
    BY <1>7, <1>8, Zenon DEF Wanted, Begins
  <2> QED BY <1>11, <2>1
<1>35. 1 \in DOMAIN r /\ Starter(r[1]) /\ u[1] = 0 => d > 1 /\ ~Ends(tokens[d - 1])
  <2> SUFFICES ASSUME 1 \in DOMAIN r, Starter(r[1]) PROVE d > 1 /\ ~Ends(tokens[d - 1])
    OBVIOUS
  <2>1. ~(Len(w) > 0)
    BY <1>20
  <2>2. Opening(todo[1])
    BY ONLY <1>6, <1>28, <2>1, 1 \in DOMAIN r, Starter(r[1]), NextHead
  <2>3. OpenParen(tokens[current])
    BY <1>3, <2>2, Zenon DEF Opening
  <2>4. tokens[current] # "EOF" /\ ~Ends(tokens[current])
    BY <2>3, Zenon DEF OpenParen, Ends, SemiSign, RightBrace
  <2>5. d = current + 1 /\ d > 1 /\ d - 1 = current
    BY <1>6, <1>11, <2>4
  <2> QED BY <2>4, <2>5
<1>36. u[1] = Depth(tokens, H, d) /\ v[1] = Surplus(tokens, H, d, more, Len(more))
  BY <1>15, <1>18, <1>24, <1>30
<1>37. /\ (Len(w) > 0 => ~Opening(todo[1])) /\ (\A m \in 1 .. Len(w) : Inner(w[m]) => u[m] > 0)
       /\ NewCast(tokens, d, more, w, u, v) /\ ((\E m \in 1 .. Len(w) : IsCast(w[m])) => \A j \in H : j < d)
  BY <1>20
<1> QED BY ONLY Settled, <1>2, <1>11, <1>21, <1>27, <1>19, <1>29, <1>5, <1>31, <1>26, <1>23, <1>24, <1>36,
                <1>32, <1>33, <1>34, <1>35, <1>37, StructStep

-----------------------------------------------------------------------------
(* Lists of aliases.                                                       *)

LEMMA AliasHead ==
  ASSUME Settled, Doing("aliases")
  PROVE  /\ Quiet /\ todo # <<>> /\ IsAliases(todo[1]) /\ Inner(todo[1]) /\ ~IsExpect(todo[1])
         /\ BraceCost(todo[1]) = 0 /\ LoopCost(todo[1]) = 0
         /\ \A i : ~PassesIn(tokens, todo[1], i) /\ ~StandsIn(tokens, todo[1], i)
<1>1. Quiet /\ todo # <<>> /\ todo[1][1] = "aliases" /\ Inner(todo[1])
  BY HeadShape, Zenon DEF InnerNames
<1>2. IsAliases(todo[1]) /\ ~IsExpect(todo[1]) /\ ~IsBuild(todo[1]) /\ ~IsDoCond(todo[1])
      /\ ~IsThen(todo[1]) /\ ~Declares(todo[1])
  BY <1>1 DEF IsAliases, IsExpect, IsBuild, IsDoCond, IsThen, Declares
<1>3. /\ BraceCost(todo[1]) = 0 /\ LoopCost(todo[1]) = 0
      /\ \A i : ~PassesIn(tokens, todo[1], i) /\ ~StandsIn(tokens, todo[1], i)
  BY ONLY <1>2 DEF BraceCost, LoopCost, PassesIn, StandsIn
<1> QED BY <1>1, <1>2, <1>3

(* What is read of the list is passed over. *)
LEMMA ReadInList ==
  ASSUME Settled, Doing("aliases"), NEW e \in Positions, current <= e,
         \A j \in current .. e - 1 : ~Closes(tokens[j])
  PROVE  \A i \in current .. e - 1 : i \in Passing
<1>1. /\ Quiet /\ Len(tokens) \in Nat /\ current \in 1 .. Len(tokens) /\ e \in 1 .. Len(tokens)
      /\ todo \in Seq(Tasks) /\ Complete(tokens, current, nodes, todo)
      /\ 1 \in DOMAIN todo /\ IsAliases(todo[1])
  BY AliasHead, QuietFacts, HeadIs DEF Positions
<1>4. PICK k \in DOMAIN todo :
        /\ k > 1 /\ todo[k][1] = "build" /\ todo[k][2] = "inherit"
        /\ tokens[todo[k][3] + 1] = "{" /\ todo[k][3] + 1 < current
        /\ \A j \in todo[k][3] + 1 .. current - 1 : ~Closes(tokens[j])
  BY <1>1 DEF Complete, AliasesHeld
<1>5. PICK at : at = todo[k][3]
  OBVIOUS
<1>6. at \in Nat
  <2>1. k \in 1 .. Len(todo) /\ todo[k] \in Tasks
    BY <1>1
  <2>2. TaskForm(todo[k])
    BY <2>1, TaskForms
  <2>3. todo[k][3] \in Positions
    BY <1>4, <2>2 DEF TaskForm
  <2> QED BY <1>1, <1>5, <2>3 DEF Positions
<1>7. /\ k > 1 /\ todo[k][1] = "build" /\ todo[k][2] = "inherit"
      /\ tokens[at + 1] = "{" /\ at + 1 < current
      /\ \A j \in at + 1 .. e - 1 : ~Closes(tokens[j])
  <2>1. at + 1 < current
    BY <1>4, <1>5, Zenon
  <2>2. ASSUME NEW j \in at + 1 .. e - 1 PROVE ~Closes(tokens[j])
    <3>1. j \in at + 1 .. current - 1 \/ j \in current .. e - 1
      BY <1>1, <1>6
    <3> QED BY <1>4, <1>5, <3>1
  <2> QED BY <1>4, <1>5, <2>1, <2>2
<1>8. ASSUME NEW i \in current .. e - 1 PROVE i \in Passing
  <2>0. at + 1 < current
    BY <1>7, Zenon
  <2>1. at + 1 < i /\ \A j \in at + 1 .. i : j \in at + 1 .. e - 1
    BY <1>1, <1>6, <2>0
  <2>2. InList(tokens, at, i)
    BY <1>7, <2>1 DEF InList
  <2>3. PassesIn(tokens, todo[k], i)
    BY <1>5, <1>7, <2>2, Zenon DEF PassesIn, Passes, IsBuild
  <2>4. k > 0 /\ i \in 1 .. Len(tokens) - 1
    <3>1. k \in 1 .. Len(todo)
      BY <1>1
    <3> QED BY <1>1, <3>1
  <2>5. PassedBy(tokens, nodes, Len(nodes), todo, 0, i)
    BY <2>3, <2>4, Zenon DEF PassedBy
  <2> QED BY <2>4, <2>5, Zenon DEF Passing, Hidden
<1> QED BY <1>8

LEMMA AliasStep ==
  ASSUME Settled, Doing("aliases"), NEW e \in Positions, current <= e,
         \A j \in current .. e - 1 : ~Closes(tokens[j]),
         NEW new, NEW more, Grown(nodes, more, new), \A n \in new : Unobtrusive(n),
         NEW w, Tidy(tokens, w), Len(w) \in Nat, \A k \in 1 .. Len(w) : Light(tokens, w[k]),
         Len(w) = 0 \/ ~Starter(w[1]), Step(e, FALSE, more, w), NEW r, r = w \o Tail(todo),
         NoneAhead(tokens, e, Passing, r)
  PROVE  StructureInv'
<1>1. /\ Quiet /\ todo # <<>> /\ IsAliases(todo[1]) /\ Inner(todo[1]) /\ ~IsExpect(todo[1])
      /\ BraceCost(todo[1]) = 0 /\ LoopCost(todo[1]) = 0
      /\ \A i : ~PassesIn(tokens, todo[1], i) /\ ~StandsIn(tokens, todo[1], i)
  BY AliasHead
<1>2. PICK x, y : WholeNow(x, y)
  BY SettledFacts
<1>3. /\ x[1] \in Nat /\ x[2] \in Nat /\ y[1] \in Int /\ y[2] \in Int
      /\ x[1] = x[2] + BraceCost(todo[1]) /\ y[1] = y[2] + LoopCost(todo[1])
      /\ x[1] = Depth(tokens, Passing, current)
      /\ y[1] = Surplus(tokens, Passing, current, nodes, Len(nodes))
      /\ x[1] > 0
  BY <1>1, <1>2, HeadCosts
<1>4. /\ todo \in Seq(Tasks) /\ current \in Nat /\ 1 <= current /\ Len(tokens) \in Nat /\ e \in Nat
  BY SettledFacts DEF Positions
<1>5. Placed(tokens, todo)
  BY <1>2, Zenon DEF WholeNow, Whole
<1>6. \A i \in current .. e - 1 : i \in Passing
  BY ReadInList
<1>7. Depth(tokens, Passing, e) = Depth(tokens, Passing, current)
      /\ Number(tokens, Passing, e, "while") = Number(tokens, Passing, current, "while")
  BY <1>4, <1>6, NumberStays DEF Depth
<1>8. LoopNodes(more, Len(more)) = LoopNodes(nodes, Len(nodes))
  <2>1. \A n \in new : ~IsLoop(n.node)
    BY DEF Unobtrusive
  <2> QED BY ONLY Grown(nodes, more, new), <2>1, LoopsStay
<1>9. PICK u, v : u = [m \in 1 .. Len(w) + 1 |-> x[2]] /\ v = [m \in 1 .. Len(w) + 1 |-> y[2]]
  OBVIOUS
<1>10. Due("brace", u, w, x[2]) /\ Due("loop", v, w, y[2])
  <2>1. x[2] \in Int /\ \A k \in 1 .. Len(w) : Light(tokens, w[k])
    BY <1>3
  <2>2. Due("brace", u, w, x[2])
    BY ONLY <2>1, Len(w) \in Nat, <1>9, NothingDue
  <2>3. Due("loop", v, w, y[2])
    BY ONLY <1>3, <2>1, Len(w) \in Nat, <1>9, NothingDue
  <2> QED BY <2>2, <2>3
<1>11. (\A m \in 1 .. Len(w) + 1 : u[m] = x[2] /\ v[m] = y[2]) /\ 1 \in 1 .. Len(w) + 1
  BY <1>9
<1>12. \A m \in 1 .. Len(w) + 1 : u[m] >= 0
  BY <1>3, <1>11
<1>13. Work(w) /\ Placed(tokens, w) /\ \A m \in 1 .. Len(w) : ~IsCast(w[m])
  BY Zenon DEF Tidy
<1>14. Joins(w, todo, r)
  BY <1>1, <1>4, <1>13, JoinFacts
<1>15. SameHiding(tokens, todo, w, new)
  BY <1>1, Zenon DEF SameHiding, Light, Unobtrusive
<1>16. PICK H : H = Hidden(tokens, more, Len(more), r, 0)
  OBVIOUS
<1>17. H = Passing
  BY ONLY <1>4, <1>14, <1>15, <1>16, Grown(nodes, more, new), SameHidden DEF Passing
<1>18. HandsHiding(tokens, current, todo, w, new) /\ HandsStanding(tokens, current, todo, w, new)
  BY <1>1, <1>15, Zenon DEF SameHiding, HandsHiding, HandsStanding
<1>19. u[1] = Depth(tokens, H, e) /\ v[1] = Surplus(tokens, H, e, more, Len(more))
  BY <1>1, <1>3, <1>7, <1>8, <1>11, <1>17 DEF Surplus
<1>20. NoneAhead(tokens, e, H, r)
  BY <1>17
<1>21. ~Opening(todo[1]) /\ ~Semicolon(todo[1])
  BY <1>1, Zenon DEF Opening, Semicolon
<1>22. \A i \in current .. e - 1 : Wanted(tokens, H, i) => Recorded(tokens, e, r, w, new, i)
  BY <1>6, <1>17, Zenon DEF Wanted
<1>23. \A m \in 1 .. Len(w) : Inner(w[m]) => u[m] > 0
  <2>1. \A m \in 1 .. Len(w) : m \in 1 .. Len(w) + 1
    OBVIOUS
  <2> QED BY <1>1, <1>3, <1>11, <2>1
<1>24. 1 \in DOMAIN r /\ Starter(r[1]) /\ u[1] = 0 => e > 1 /\ ~Ends(tokens[e - 1])
  <2>1. 1 \in DOMAIN r /\ Starter(r[1]) => Len(w) > 0 /\ Starter(w[1])
    BY ONLY <1>5, <1>14, <1>21, NextHead
  <2> QED BY <2>1
<1>25. NewCast(tokens, e, more, w, u, v) /\ ((\E m \in 1 .. Len(w) : IsCast(w[m])) => \A j \in H : j < e)
  BY <1>13 DEF NewCast
<1> QED BY ONLY Settled, <1>1, e \in Positions, current <= e, Grown(nodes, more, new), <1>13, r = w \o Tail(todo),
                Step(e, FALSE, more, w), <1>16, <1>2, <1>18, <1>10, <1>12, <1>19, <1>20, <1>21, <1>22,
                <1>23, <1>24, <1>25, StructStep

(* The list goes on. *)
LEMMA AliasesStay ==
  ASSUME Settled, Doing("aliases"), NEW e \in Positions, current <= e,
         \A j \in current .. e - 1 : ~Closes(tokens[j]),
         NEW new, NEW more, Grown(nodes, more, new), \A n \in new : Unobtrusive(n),
         Step(e, FALSE, more, <<Aliases>>)
  PROVE  StructureInv'
<1>1. PICK w : w = <<Aliases>>
  OBVIOUS
<1>2. PICK r : r = w \o Tail(todo)
  OBVIOUS
<1>3. Row(tokens, w, TRUE) /\ Len(w) = 1 /\ w[1] = Aliases
  <2>1. Row(tokens, <<Aliases>>, TRUE) /\ Len(<<Aliases>>) = 1
    BY CallsWithin, RowOne, Zenon
  <2> QED BY <1>1, <2>1
<1>4. Usual(tokens, w, TRUE) /\ \A k \in 1 .. Len(w) : Light(tokens, w[k])
  BY <1>3, Zenon DEF Row
<1>5. Tidy(tokens, w)
  BY ONLY <1>4, UsualTidy
<1>6. IsAliases(w[1]) /\ ~Starter(w[1])
  BY <1>3 DEF Aliases, IsAliases, Starter
<1>7. /\ Quiet /\ todo # <<>> /\ todo \in Seq(Tasks) /\ current \in Nat /\ e \in Nat
  BY AliasHead, SettledFacts DEF Positions
<1>8. Work(w)
  BY <1>5, Zenon DEF Tidy
<1>9. Joins(w, todo, r)
  BY <1>2, <1>7, <1>8, JoinFacts
<1>10. 1 \in DOMAIN r /\ r[1] = w[1]
  <2>1. 1 \in 1 .. Len(w)
    BY <1>3
  <2> QED BY ONLY <1>9, <2>1, JoinPlaces
<1>11. NoneAhead(tokens, e, Passing, r)
  <2> SUFFICES ASSUME NEW j \in Passing, j >= e PROVE \A i \in e .. j : ~Closes(tokens[i])
    BY <1>6, <1>10 DEF NoneAhead
  <2>1. j \in Int
    BY DEF Passing, Hidden
  <2>2. PICK x, y : WholeNow(x, y)
    BY SettledFacts
  <2>3. NoneAhead(tokens, current, Passing, todo)
    BY <2>2, Zenon DEF WholeNow, Whole
  <2>4. j >= current
    BY <1>7, <2>1
  <2>5. \A i \in current .. j : ~Closes(tokens[i])
    BY <2>3, <2>4 DEF NoneAhead
  <2>6. \A i \in e .. j : i \in current .. j
    BY <1>7, <2>1
  <2> QED BY <2>5, <2>6
<1>12. Len(w) \in Nat /\ Step(e, FALSE, more, w)
  BY <1>1, <1>3
<1> QED BY ONLY Settled, Doing("aliases"), e \in Positions, current <= e,
                \A j \in current .. e - 1 : ~Closes(tokens[j]), Grown(nodes, more, new),
                \A n \in new : Unobtrusive(n), <1>5, <1>12, <1>4, <1>6, <1>2, <1>11, AliasStep

LEMMA StructEndAliases == ASSUME Settled, EndAliases PROVE StructureInv'
<1>1. Doing("aliases") /\ Cur \in {"}", "EOF"} /\ Step(current, Cur = "EOF", nodes, <<>>)
  BY Zenon DEF EndAliases
<1>2. CASE Cur = "EOF"
  <2>1. (Cur = "EOF") = TRUE
    BY <1>2
  <2>2. Step(current, TRUE, nodes, <<>>)
    BY <1>1, <2>1
  <2> QED BY <2>2, LoudStructure
<1>3. CASE Cur # "EOF"
  <2>1. Closes(tokens[current])
    BY <1>1, <1>3, Zenon DEF Closes, Cur
  <2>2. (Cur = "EOF") = FALSE
    BY <1>3
  <2>3. Step(current, FALSE, nodes, <<>>)
    BY <1>1, <2>2
  <2>4. Quiet /\ current \in Positions /\ current \in Nat
    BY AliasHead, QuietFacts, SettledFacts, <1>1
  <2>5. PICK e : e = current
    OBVIOUS
  <2>6. e \in Positions /\ current <= e /\ \A j \in current .. e - 1 : ~Closes(tokens[j])
    BY <2>4, <2>5
  <2>7. PICK w : w = <<>>
    OBVIOUS
  <2>8. PICK new : new = {}
    OBVIOUS
  <2>9. PICK more : more = nodes
    OBVIOUS
  <2>10. Grown(nodes, more, new) /\ Step(e, FALSE, more, w) /\ \A n \in new : Unobtrusive(n)
    BY <2>3, <2>4, <2>5, <2>7, <2>8, <2>9, QuietFacts, GrownFacts
  <2>11. /\ Tidy(tokens, w) /\ Len(w) = 0 /\ Len(w) \in Nat /\ \A m \in 1 .. Len(w) : Light(tokens, w[m])
    BY <2>7, EmptyWork
  <2>12. PICK r : r = w \o Tail(todo)
    OBVIOUS
  <2>13. NoneAhead(tokens, e, Passing, r)
    <3> SUFFICES ASSUME NEW j \in Passing, j >= e PROVE FALSE
      BY DEF NoneAhead
    <3>1. j \in Int
      BY DEF Passing, Hidden
    <3>2. PICK x, y : WholeNow(x, y)
      BY SettledFacts
    <3>3. NoneAhead(tokens, current, Passing, todo)
      BY <3>2, Zenon DEF WholeNow, Whole
    <3>4. \A i \in current .. j : ~Closes(tokens[i])
      BY <2>5, <3>3 DEF NoneAhead
    <3>5. current \in current .. j
      BY <2>4, <2>5, <3>1
    <3> QED BY <2>1, <3>4, <3>5
  <2> QED BY ONLY Settled, <1>1, <2>6, <2>10, <2>11, <2>12, <2>13, AliasStep
<1> QED BY <1>2, <1>3

LEMMA StructAlias == ASSUME Settled, ParseAlias PROVE StructureInv'
<1> DEFINE c == Forward(current)
           d == Forward(c)
           e == Forward(d)
           next == IF tokens[e] = "," THEN Forward(e) ELSE e
<1>0. Quiet
  BY SettledFacts
<1>1. Doing("aliases") /\ Cur = "name"
  BY Zenon DEF ParseAlias
<1>2. current \in Positions /\ c \in Positions /\ d \in Positions /\ e \in Positions
      /\ Forward(e) \in Positions /\ Positions \subseteq Nat
  <2>1. current \in Positions
    BY <1>0, QuietFacts
  <2> QED BY <1>0, <2>1, Passed DEF Positions
<1>3. ~Closes(tokens[current]) /\ c = current + 1
  <2>1. ~Closes(tokens[current])
    BY <1>1, Zenon DEF Cur, Closes
  <2>2. c = current + 1
    BY <1>0, <1>1, <1>2, Passed DEF Cur
  <2> QED BY <2>1, <2>2
<1>4. CASE tokens[c] # "as"
  <2> DEFINE f == AliasEnd(c)
  <2>1. Step(f, FALSE, nodes, <<Aliases>>)
    <3>1. Goes(f, <<Aliases>>)
      BY <1>4 DEF ParseAlias
    <3> QED BY <3>1, Zenon DEF Goes
  <2>2. f \in Positions /\ c <= f /\ \A j \in c .. f - 1 : ~Closes(tokens[j])
    BY <1>0, <1>2, Between
  <2> HIDE DEF f, c
  <2>3. current <= f /\ f \in Nat
    BY <1>2, <1>3, <2>2
  <2>4. ASSUME NEW j \in current .. f - 1 PROVE ~Closes(tokens[j])
    <3>1. j = current \/ j \in c .. f - 1
      BY <1>2, <1>3, <2>3
    <3> QED BY <1>3, <2>2, <3>1
  <2>5. PICK new : new = {}
    OBVIOUS
  <2>6. PICK tree : tree = nodes
    OBVIOUS
  <2>7. Grown(nodes, tree, new) /\ Step(f, FALSE, tree, <<Aliases>>) /\ \A n \in new : Unobtrusive(n)
    BY <1>0, <2>1, <2>5, <2>6, QuietFacts, GrownFacts
  <2> QED BY ONLY Settled, <1>1, <2>2, <2>3, <2>4, <2>7, AliasesStay
<1>5. CASE tokens[c] = "as" /\ tokens[d] # "name"
  <2>1. Reports(AliasEnd(d), <<Aliases>>)
    BY <1>5 DEF ParseAlias
  <2> QED BY <2>1, LoudStructure DEF Reports
<1>6. CASE tokens[c] = "as" /\ tokens[d] = "name"
  <2> DEFINE k == Node("alias", current, Base + 1)
  <2>1. PICK error \in BOOLEAN : error = (tokens[e] = "," /\ tokens[Forward(e)] = "}")
    OBVIOUS
  <2>2. Step(next, error, Append(nodes, k), <<Aliases>>)
    <3>1. Step(next, tokens[e] = "," /\ tokens[Forward(e)] = "}", Leaf("alias", current), <<Aliases>>)
      BY <1>6 DEF ParseAlias
    <3> QED BY <2>1, <3>1 DEF Leaf
  <2>3. CASE error = TRUE
    BY <2>2, <2>3, LoudStructure
  <2>4. CASE error = FALSE
    <3>1. d = c + 1 /\ e = d + 1
      BY <1>0, <1>2, <1>6, Passed
    <3>2. next \in Positions /\ (next = e \/ (next = e + 1 /\ ~Closes(tokens[e])))
      <4>1. tokens[e] = "," => Forward(e) = e + 1 /\ ~Closes(tokens[e])
        <5>1. tokens[e] = "," => tokens[e] # "EOF" /\ ~Closes(tokens[e])
          BY Zenon DEF Closes
        <5> QED BY <1>0, <1>2, <5>1, Passed, Zenon
      <4> QED BY <1>2, <4>1, Zenon
    <3>3. ~Closes(tokens[c]) /\ ~Closes(tokens[d])
      BY <1>6, Zenon DEF Closes
    <3>a. tokens[current] # "." /\ ~IsLoop("alias") /\ "alias" \notin {"inherit", "field"}
      BY <1>1, Zenon DEF Cur, IsLoop
    <3>b. Unobtrusive(k)
      BY <3>a, PlainLeaf
    <3> HIDE DEF next, e, d, c, k
    <3>4. current <= next /\ next \in Nat
      BY <1>2, <1>3, <3>1, <3>2
    <3>5. ASSUME NEW j \in current .. next - 1 PROVE ~Closes(tokens[j])
      <4>1. j = current \/ j = c \/ j = d \/ (j = e /\ ~Closes(tokens[e]))
        BY <1>2, <1>3, <3>1, <3>2, <3>4
      <4> QED BY <1>3, <3>3, <4>1
    <3>6. PICK new : new = {k}
      OBVIOUS
    <3>7. PICK tree : tree = Append(nodes, k)
      OBVIOUS
    <3>8. Grown(nodes, tree, new) /\ Step(next, FALSE, tree, <<Aliases>>) /\ \A n \in new : Unobtrusive(n)
      BY <1>0, <2>2, <2>4, <3>b, <3>6, <3>7, QuietFacts, GrownFacts
    <3> QED BY ONLY Settled, <1>1, <3>2, <3>4, <3>5, <3>8, AliasesStay
  <2> QED BY <2>1, <2>3, <2>4
<1> QED BY <1>4, <1>5, <1>6

-----------------------------------------------------------------------------
(* Parents.                                                                *)

(* A name and a brace. *)
LEMMA NameAndBrace ==
  ASSUME NEW p, NEW hid, NEW c \in Nat, 1 <= c, p[c] = "name", p[c + 1] = LeftBrace,
         c \notin hid, c + 1 \notin hid
  PROVE  /\ Depth(p, hid, c + 2) = Depth(p, hid, c) + 1
         /\ Number(p, hid, c + 2, "while") = Number(p, hid, c, "while")
<1>1. LeftBrace # RightBrace /\ LeftBrace # "while" /\ RightBrace # "name" /\ LeftBrace # "name"
  BY Zenon DEF LeftBrace, RightBrace
<1>2. c + 1 \in Nat /\ 1 <= c + 1 /\ c + 2 \in Nat /\ (c + 1) + 1 = c + 2 /\ c <= c + 1 /\ c + 1 <= c + 2
      /\ c <= c + 2
  OBVIOUS
<1>3. /\ \A j \in c .. (c + 1) - 1 : j = c
      /\ \A j \in c .. (c + 2) - 1 : j = c \/ j = c + 1
  OBVIOUS
<1>4. Number(p, hid, c + 1, LeftBrace) = Number(p, hid, c, LeftBrace)
  <2>1. \A j \in c .. (c + 1) - 1 : p[j] = LeftBrace => j \in hid
    BY <1>1, <1>3
  <2> QED BY <1>2, <2>1, NumberStays
<1>5. Number(p, hid, c + 2, LeftBrace) = Number(p, hid, c + 1, LeftBrace) + 1
  <2>1. PICK e \in Nat : e = c + 1
    BY <1>2
  <2>2. Number(p, hid, e + 1, LeftBrace) = Number(p, hid, e, LeftBrace) + 1
    <3>1. 1 <= e /\ p[e] = LeftBrace /\ e \notin hid
      BY <1>2, <2>1
    <3> QED BY <3>1, NumberGrows
  <2> QED BY <1>2, <2>1, <2>2
<1>6. Number(p, hid, c + 2, RightBrace) = Number(p, hid, c, RightBrace)
  <2>1. \A j \in c .. (c + 2) - 1 : p[j] = RightBrace => j \in hid
    BY <1>1, <1>3
  <2> QED BY <1>2, <2>1, NumberStays
<1>7. Number(p, hid, c + 2, "while") = Number(p, hid, c, "while")
  <2>1. \A j \in c .. (c + 2) - 1 : p[j] = "while" => j \in hid
    BY <1>1, <1>3
  <2> QED BY <1>2, <2>1, NumberStays
<1>8. Number(p, hid, c, LeftBrace) \in Nat /\ Number(p, hid, c, RightBrace) \in Nat
  BY NumberIsNat
<1> QED BY ONLY <1>4, <1>5, <1>6, <1>7, <1>8 DEF Depth

(* The work of a parent with a list of aliases. *)
AliasWork(w, at) ==
  /\ Work(w) /\ Len(w) = 4 /\ DOMAIN w = 1 .. 4
  /\ IsAliases(w[1]) /\ ~Starter(w[1])
  /\ IsBuild(w[3]) /\ w[3][2] = "inherit" /\ w[3][3] = at
  /\ BraceCost(w[1]) = 0 /\ BraceCost(w[2]) = 1 /\ BraceCost(w[3]) = 0 /\ BraceCost(w[4]) = 0
  /\ \A k \in 1 .. 4 : LoopCost(w[k]) = 0 /\ ~IsCast(w[k])
  /\ \A k \in 1 .. 4 : k # 3 => \A i : ~PassesIn(tokens, w[k], i)
  /\ \A k \in 1 .. 4 : k # 1 => ~Inner(w[k])
  /\ Placed(tokens, w)

LEMMA InheritTask ==
  ASSUME NEW at, tokens[at] = "name", NEW b, NEW t, t = Build("inherit", at, b)
  PROVE  /\ IsBuild(t) /\ t[2] = "inherit" /\ t[3] = at /\ BraceCost(t) = 0 /\ LoopCost(t) = 0
         /\ ~IsCast(t) /\ ~IsForInit(t) /\ ~Inner(t) /\ ~Starter(t) /\ AtName(tokens, t)
         /\ \A i : PassesIn(tokens, t, i) <=> InList(tokens, at, i)
<1>1. t[1] = "build" /\ t[2] = "inherit" /\ t[3] = at
  BY DEF Build
<1>2. IsBuild(t) /\ ~IsExpect(t) /\ ~IsDoCond(t) /\ ~IsForInit(t) /\ ~IsCast(t) /\ ~Declares(t)
      /\ t[1] # "anon field" /\ ~Inner(t) /\ ~Starter(t)
  BY <1>1, Zenon DEF IsBuild, IsExpect, IsDoCond, IsForInit, IsCast, Declares, Inner, Starter
<1>3. ~IsLoop("inherit") /\ "inherit" # "field" /\ tokens[at] # "."
  BY Zenon DEF IsLoop
<1>4. BraceCost(t) = 0 /\ LoopCost(t) = 0
  BY ONLY <1>1, <1>2, <1>3 DEF BraceCost, LoopCost
<1>5. AtName(tokens, t)
  BY <1>1, <1>2, Zenon DEF AtName
<1>6. \A i : PassesIn(tokens, t, i) <=> InList(tokens, at, i)
  BY <1>1, <1>2, <1>3, Zenon DEF PassesIn, Passes
<1> QED BY <1>1, <1>2, <1>4, <1>5, <1>6

LEMMA AliasTasks ==
  ASSUME NEW at, tokens[at] = "name", NEW b,
         NEW w, w = <<Aliases, Expect(RightBrace), Build("inherit", at, b), AfterParent>>
  PROVE  AliasWork(w, at)
<1>1. PICK e, f, g, h : e = Aliases /\ f = Expect(RightBrace) /\ g = Build("inherit", at, b) /\ h = AfterParent
  OBVIOUS
<1>2. w = <<e, f, g, h>>
  BY <1>1
<1>3. /\ w \in Seq({e, f, g, h}) /\ Len(w) = 4 /\ DOMAIN w = 1 .. 4
      /\ w[1] = e /\ w[2] = f /\ w[3] = g /\ w[4] = h
  BY ONLY <1>2
<1>4. \A k \in 1 .. 4 : k = 1 \/ k = 2 \/ k = 3 \/ k = 4
  OBVIOUS
<1>5. Work(w)
  BY <1>3 DEF Work
<1>6. /\ IsBuild(g) /\ g[2] = "inherit" /\ g[3] = at /\ BraceCost(g) = 0 /\ LoopCost(g) = 0
      /\ ~IsCast(g) /\ ~IsForInit(g) /\ ~Inner(g) /\ ~Starter(g) /\ AtName(tokens, g)
  BY <1>1, InheritTask
<1>7. /\ ~IsCast(f) /\ ~IsForInit(f) /\ ~Inner(f) /\ ~Starter(f) /\ LoopCost(f) = 0 /\ BraceCost(f) = 1
      /\ (\A i : ~PassesIn(tokens, f, i)) /\ AtName(tokens, f)
  <2>1. f = ExpectOr(RightBrace, "nothing")
    BY <1>1 DEF Expect
  <2> QED BY <2>1, Signs, ExpectsOuter
<1>8. Within(tokens, e) /\ Outer(tokens, h)
  BY <1>1, WithinTasks, OuterTasks, Zenon
<1>9. IsAliases(e)
  BY <1>1 DEF Aliases, IsAliases
<1>10. /\ ~IsCast(e) /\ ~IsForInit(e) /\ ~Starter(e) /\ BraceCost(e) = 0 /\ LoopCost(e) = 0 /\ AtName(tokens, e)
       /\ ~IsCast(h) /\ ~IsForInit(h) /\ ~Starter(h) /\ BraceCost(h) = 0 /\ LoopCost(h) = 0 /\ AtName(tokens, h)
       /\ ~Inner(h) /\ \A i : ~PassesIn(tokens, e, i) /\ ~PassesIn(tokens, h, i)
  BY <1>8, Zenon DEF Within, Outer, Easy, Light
<1>11. /\ IsAliases(w[1]) /\ ~Starter(w[1])
       /\ IsBuild(w[3]) /\ w[3][2] = "inherit" /\ w[3][3] = at
       /\ BraceCost(w[1]) = 0 /\ BraceCost(w[2]) = 1 /\ BraceCost(w[3]) = 0 /\ BraceCost(w[4]) = 0
  BY <1>3, <1>6, <1>7, <1>9, <1>10
<1>12. \A k \in 1 .. 4 :
         /\ LoopCost(w[k]) = 0 /\ ~IsCast(w[k]) /\ ~IsForInit(w[k]) /\ ~Starter(w[k]) /\ AtName(tokens, w[k])
         /\ k # 3 => \A i : ~PassesIn(tokens, w[k], i)
         /\ k # 1 => ~Inner(w[k])
  BY <1>3, <1>4, <1>6, <1>7, <1>10
<1>13. Placed(tokens, w)
  BY <1>3, <1>12 DEF Placed
<1> QED BY <1>3, <1>5, <1>11, <1>12, <1>13 DEF AliasWork

LEMMA AliasDue ==
  ASSUME NEW w, NEW at, AliasWork(w, at), NEW z \in Int, NEW k \in Int,
         NEW u, u = <<z + 1, z + 1, z, z, z>>, NEW v, v = <<k, k, k, k, k>>
  PROVE  /\ Due("brace", u, w, z) /\ Due("loop", v, w, k)
         /\ u[1] = z + 1 /\ v[1] = k /\ u[2] = z + 1 /\ u[3] = z /\ u[4] = z /\ u[5] = z
<1>1. /\ Len(w) = 4 /\ BraceCost(w[1]) = 0 /\ BraceCost(w[2]) = 1 /\ BraceCost(w[3]) = 0 /\ BraceCost(w[4]) = 0
      /\ \A m \in 1 .. 4 : LoopCost(w[m]) = 0
  BY DEF AliasWork
<1>2. /\ u[1] = z + 1 /\ u[2] = z + 1 /\ u[3] = z /\ u[4] = z /\ u[5] = z
      /\ v[1] = k /\ v[2] = k /\ v[3] = k /\ v[4] = k /\ v[5] = k
  OBVIOUS
<1>3. (\A m \in 1 .. 4 : m = 1 \/ m = 2 \/ m = 3 \/ m = 4)
      /\ (\A m \in 1 .. 5 : m = 1 \/ m = 2 \/ m = 3 \/ m = 4 \/ m = 5)
      /\ 1 + 1 = 2 /\ 2 + 1 = 3 /\ 3 + 1 = 4 /\ 4 + 1 = 5
  OBVIOUS
<1>4. \A m \in 1 .. 5 : u[m] \in Int /\ v[m] \in Int
  BY <1>2, <1>3
<1>5. \A m \in 1 .. 4 : u[m] = u[m + 1] + BraceCost(w[m]) /\ v[m] = v[m + 1] + LoopCost(w[m])
  <2>1. u[1] = u[2] + BraceCost(w[1]) /\ u[2] = u[3] + BraceCost(w[2]) /\ u[3] = u[4] + BraceCost(w[3])
        /\ u[4] = u[5] + BraceCost(w[4])
    BY <1>1, <1>2
  <2>2. 1 \in 1 .. 4 /\ 2 \in 1 .. 4 /\ 3 \in 1 .. 4 /\ 4 \in 1 .. 4
    OBVIOUS
  <2>3. v[1] = v[2] + LoopCost(w[1]) /\ v[2] = v[3] + LoopCost(w[2]) /\ v[3] = v[4] + LoopCost(w[3])
        /\ v[4] = v[5] + LoopCost(w[4])
    BY <1>1, <1>2, <2>2
  <2> QED BY ONLY <1>3, <2>1, <2>3
<1>6. \A m \in 1 .. 4 : Cost("brace", w[m]) = BraceCost(w[m]) /\ Cost("loop", w[m]) = LoopCost(w[m])
  BY DEF Cost
<1>7. Len(w) + 1 = 5
  BY <1>1
<1>8. Due("brace", u, w, z) /\ Due("loop", v, w, k)
  BY ONLY <1>1, <1>2, <1>4, <1>5, <1>6, <1>7 DEF Due
<1> QED BY <1>2, <1>8

(* What such work passes over is the list that follows. *)
LEMMA AliasPasses ==
  ASSUME Settled, todo # <<>>, ~IsAliases(todo[1]), NEW at \in Nat, NEW w, AliasWork(w, at),
         NEW r, Joins(w, todo, r), tokens[at] = "name",
         NEW j, j \in Hidden(tokens, nodes, Len(nodes), r, 0)
  PROVE  j \in Passing \/ InList(tokens, at, j)
<1>1. j \in 1 .. Len(tokens) - 1 /\ PassedBy(tokens, nodes, Len(nodes), r, 0, j)
  BY DEF Hidden
<1>2. CASE \E k \in 1 .. Len(nodes) : Passes(tokens, nodes[k].node, nodes[k].at, j)
  BY <1>1, <1>2, Zenon DEF Passing, Hidden, PassedBy
<1>3. CASE \E k \in DOMAIN r : k > 0 /\ PassesIn(tokens, r[k], j)
  <2>1. PICK k \in DOMAIN r : PassesIn(tokens, r[k], j)
    BY <1>3
  <2>2. /\ Len(w) = 4 /\ \A m \in 1 .. 4 : m # 3 => \A i : ~PassesIn(tokens, w[m], i)
        /\ IsBuild(w[3]) /\ w[3][2] = "inherit" /\ w[3][3] = at
    BY DEF AliasWork
  <2>3. /\ DOMAIN r = 1 .. Len(r) /\ DOMAIN todo = 1 .. Len(todo) /\ Len(todo) \in Nat /\ Len(r) \in Nat
    BY JoinPlaces
  <2>4. CASE k \in 1 .. Len(w)
    <3>1. r[k] = w[k]
      BY ONLY Joins(w, todo, r), <2>4, JoinPlaces
    <3>2. k = 3
      BY <2>1, <2>2, <2>4, <3>1
    <3>3. Passes(tokens, "inherit", at, j)
      BY <2>1, <2>2, <3>1, <3>2, Zenon DEF PassesIn
    <3>4. tokens[at] # "." /\ "inherit" # "field"
      BY Zenon
    <3> QED BY <3>3, <3>4, Zenon DEF Passes
  <2>5. CASE k \notin 1 .. Len(w)
    <3>1. k \in 1 .. Len(r) /\ k > Len(w)
      BY <2>1, <2>2, <2>3, <2>5
    <3>2. PICK a \in 2 .. Len(todo) : k = Len(w) + a - 1 /\ r[k] = todo[a]
      BY ONLY Joins(w, todo, r), <3>1, JoinPlaces
    <3>3. a \in DOMAIN todo /\ a > 0 /\ PassesIn(tokens, todo[a], j)
      BY <2>1, <2>3, <3>2
    <3>4. PassedBy(tokens, nodes, Len(nodes), todo, 0, j)
      BY <3>3, Zenon DEF PassedBy
    <3> QED BY <1>1, <3>4, Zenon DEF Passing, Hidden
  <2> QED BY <2>4, <2>5
<1> QED BY <1>1, <1>2, <1>3, Zenon DEF PassedBy

LEMMA ParentWithAliases ==
  ASSUME Settled, Doing("parents"), Cur = "name", tokens[Forward(current)] = LeftBrace,
         NEW w, AliasWork(w, current), Step(Forward(Forward(current)), FALSE, nodes, w)
  PROVE  StructureInv'
<1>1. Quiet /\ todo # <<>> /\ PlainHead(todo[1]) /\ Starter(todo[1])
  <2>1. "parents" \in BareNames /\ "parents" \in OpenerNames
    BY Zenon DEF BareNames, OpenerNames
  <2> QED BY <2>1, HeadShape
<1>2. /\ BraceCost(todo[1]) = 0 /\ LoopCost(todo[1]) = 0 /\ ~IsExpect(todo[1]) /\ ~IsAliases(todo[1])
      /\ \A i : ~PassesIn(tokens, todo[1], i) /\ ~StandsIn(tokens, todo[1], i)
  BY <1>1, PlainCosts
<1>3. PICK x, y : WholeNow(x, y)
  BY SettledFacts
<1>4. /\ x[1] \in Nat /\ x[2] \in Nat /\ y[1] \in Int /\ y[2] \in Int
      /\ x[1] = x[2] + BraceCost(todo[1]) /\ y[1] = y[2] + LoopCost(todo[1])
      /\ x[1] = Depth(tokens, Passing, current)
      /\ y[1] = Surplus(tokens, Passing, current, nodes, Len(nodes))
  BY <1>1, <1>3, HeadCosts
<1>5. /\ todo \in Seq(Tasks) /\ current \in Nat /\ 1 <= current /\ Len(tokens) \in Nat
      /\ current \in Positions
  BY <1>1, SettledFacts, QuietFacts
<1>6. PICK d : d = Forward(Forward(current))
  OBVIOUS
<1>7. LeftBrace # "EOF" /\ LeftBrace # "name" /\ LeftBrace # "var" /\ LeftBrace \notin StmtKeywords
  BY Zenon DEF LeftBrace, StmtKeywords
<1>8. /\ d \in Positions /\ current <= d /\ d = current + 2 /\ d \in Nat /\ Forward(current) = current + 1
      /\ \A i \in current .. d - 1 : i = current \/ i = current + 1
  <2>1. Forward(current) = current + 1 /\ Forward(current) \in Positions
    BY <1>1, <1>5, Passed DEF Cur
  <2>2. d = Forward(current) + 1 /\ d \in Positions
    BY <1>1, <1>6, <1>7, <2>1, Passed
  <2> QED BY <1>5, <2>1, <2>2 DEF Positions
<1>9. tokens[current] = "name" /\ tokens[current + 1] = LeftBrace
  BY <1>8 DEF Cur
<1>10. current \notin Passing /\ current + 1 \notin Passing
  <2>1. \A j : j >= current => j \notin Passing
    BY <1>1, <1>2, NotHidden
  <2> QED BY <1>5, <2>1
<1>11. /\ Depth(tokens, Passing, d) = Depth(tokens, Passing, current) + 1
       /\ Number(tokens, Passing, d, "while") = Number(tokens, Passing, current, "while")
  BY <1>5, <1>8, <1>9, <1>10, NameAndBrace
<1>12. PICK new : new = {}
  OBVIOUS
<1>13. PICK more : more = nodes
  OBVIOUS
<1>14. PICK r : r = w \o Tail(todo)
  OBVIOUS
<1>15. Grown(nodes, more, new) /\ Step(d, FALSE, more, w)
  BY <1>1, <1>6, <1>12, <1>13, QuietFacts, GrownFacts
<1>16. /\ Work(w) /\ Len(w) = 4 /\ IsAliases(w[1]) /\ ~Starter(w[1]) /\ Placed(tokens, w)
       /\ (\A m \in 1 .. 4 : ~IsCast(w[m])) /\ (\A m \in 1 .. 4 : m # 1 => ~Inner(w[m]))
       /\ (\A m \in 1 .. 4 : m # 3 => \A i : ~PassesIn(tokens, w[m], i))
       /\ IsBuild(w[3]) /\ w[3][2] = "inherit" /\ w[3][3] = current
  BY DEF AliasWork
<1>17. Joins(w, todo, r)
  BY <1>1, <1>5, <1>14, <1>16, JoinFacts
<1>18. PICK H : H = Hidden(tokens, more, Len(more), r, 0)
  OBVIOUS
<1>19. \A i \in Int : i < d => \A m \in 1 .. Len(w) : ~PassesIn(tokens, w[m], i)
  <2> SUFFICES ASSUME NEW i \in Int, i < d, NEW m \in 1 .. 4, PassesIn(tokens, w[m], i) PROVE FALSE
    BY <1>16
  <2>1. m = 3
    BY <1>16
  <2>2. Passes(tokens, "inherit", current, i)
    BY <1>16, <2>1, Zenon DEF PassesIn
  <2>3. tokens[current] # "." /\ "inherit" # "field"
    BY <1>9, Zenon
  <2>4. InList(tokens, current, i)
    BY <2>2, <2>3, Zenon DEF Passes
  <2>5. current + 1 < i
    BY <2>4, Zenon DEF InList
  <2> QED BY <1>5, <1>8, <2>5
<1>20. HandsHiding(tokens, d, todo, w, new) /\ HandsHiding(tokens, current, todo, w, new)
  <2>1. \A i \in Int : i < current => i < d
    BY <1>5, <1>8
  <2> QED BY <1>2, <1>12, <1>19, <2>1 DEF HandsHiding
<1>21. Agree(Passing, H, d)
  <2> SUFFICES ASSUME NEW j \in 1 .. d - 1 PROVE j \in Passing <=> j \in H
    BY DEF Agree
  <2>1. j \in Int /\ j < d /\ j \in 1 .. Len(tokens) - 1
    BY <1>5, <1>8 DEF Positions
  <2>2. PassedBy(tokens, more, Len(more), r, 0, j) <=> PassedBy(tokens, nodes, Len(nodes), todo, 0, j)
    BY ONLY <1>8, <1>15, <1>17, <1>20, <2>1, HiddenAfter
  <2> QED BY <1>18, <2>1, <2>2 DEF Passing, Hidden
<1>22. /\ Depth(tokens, H, d) = Depth(tokens, Passing, d)
       /\ \A i \in 1 .. d - 1 : Wanted(tokens, H, i) => Wanted(tokens, Passing, i)
  <2>1. d \in 1 .. d
    BY <1>5, <1>8
  <2>2. /\ \A i \in 1 .. d : Depth(tokens, H, i) = Depth(tokens, Passing, i)
        /\ \A i \in 1 .. d - 1 : Wanted(tokens, H, i) => Wanted(tokens, Passing, i)
    BY ONLY <1>8, <1>21, AgreeFacts
  <2> QED BY <2>1, <2>2
<1>23. Surplus(tokens, H, d, more, Len(more)) = Surplus(tokens, Passing, d, more, Len(more))
  <2>1. d \in 1 .. d
    BY <1>5, <1>8
  <2> QED BY ONLY <1>8, <1>21, <2>1, SurplusAgrees
<1>24. PICK u, v : u = <<x[2] + 1, x[2] + 1, x[2], x[2], x[2]>> /\ v = <<y[2], y[2], y[2], y[2], y[2]>>
  OBVIOUS
<1>25. /\ Due("brace", u, w, x[2]) /\ Due("loop", v, w, y[2])
       /\ u[1] = x[2] + 1 /\ v[1] = y[2] /\ u[2] = x[2] + 1 /\ u[3] = x[2] /\ u[4] = x[2] /\ u[5] = x[2]
  <2>1. PICK z, k : z = x[2] /\ k = y[2]
    OBVIOUS
  <2>2. z \in Int /\ k \in Int /\ u = <<z + 1, z + 1, z, z, z>> /\ v = <<k, k, k, k, k>>
    BY <1>4, <1>24, <2>1
  <2>3. /\ Due("brace", u, w, z) /\ Due("loop", v, w, k)
        /\ u[1] = z + 1 /\ v[1] = k /\ u[2] = z + 1 /\ u[3] = z /\ u[4] = z /\ u[5] = z
    BY ONLY AliasWork(w, current), <2>2, AliasDue
  <2> QED BY <2>1, <2>3
<1>26. \A m \in 1 .. Len(w) + 1 : u[m] >= 0
  <2>1. Len(w) + 1 = 5 /\ \A m \in 1 .. 5 : m = 1 \/ m = 2 \/ m = 3 \/ m = 4 \/ m = 5
    BY <1>16
  <2>2. u[1] >= 0 /\ u[2] >= 0 /\ u[3] >= 0 /\ u[4] >= 0 /\ u[5] >= 0
    BY <1>4, <1>25
  <2> QED BY ONLY <2>1, <2>2
<1>27. u[1] = Depth(tokens, H, d) /\ v[1] = Surplus(tokens, H, d, more, Len(more))
  BY <1>2, <1>4, <1>11, <1>13, <1>22, <1>23, <1>25 DEF Surplus
<1>28. 1 \in DOMAIN r /\ r[1] = w[1]
  <2>1. 1 \in 1 .. Len(w)
    BY <1>16
  <2> QED BY ONLY <1>17, <2>1, JoinPlaces
<1>29. NoneAhead(tokens, d, H, r)
  <2> SUFFICES ASSUME NEW j \in H, j >= d PROVE \A i \in d .. j : ~Closes(tokens[i])
    BY <1>16, <1>28 DEF NoneAhead
  <2>1. j \in Int
    BY <1>18 DEF Hidden
  <2>2. j >= current
    BY <1>5, <1>8, <2>1
  <2>3. j \notin Passing
    BY <1>1, <1>2, <2>2, NotHidden
  <2>4. j \in Passing \/ InList(tokens, current, j)
    BY <1>1, <1>2, <1>5, <1>9, <1>13, <1>17, <1>18, AliasPasses
  <2>5. \A i \in current + 1 .. j : ~Closes(tokens[i])
    BY <2>3, <2>4, Zenon DEF InList
  <2>6. \A i \in d .. j : i \in current + 1 .. j
    BY <1>5, <1>8, <2>1
  <2> QED BY <2>5, <2>6
<1>30. \A i \in current .. d - 1 : Wanted(tokens, H, i) => Recorded(tokens, d, r, w, new, i)
  <2>1. ~Wanted(tokens, Passing, current)
    <3>1. Idle(tokens, current, todo[1], current)
      BY <1>1, <1>9, Zenon DEF Idle
    <3> QED BY <1>1, <1>3, <1>5, <3>1, NotWanted
  <2>2. ~Wanted(tokens, Passing, current + 1)
    BY <1>7, <1>9, Zenon DEF Wanted, Begins
  <2>3. \A i \in current .. d - 1 : i \in 1 .. d - 1
    BY <1>5, <1>8
  <2> QED BY <1>8, <1>22, <2>1, <2>2, <2>3, Zenon
<1>31. HandsStanding(tokens, current, todo, w, new)
  BY <1>2, Zenon DEF HandsStanding
<1>32. ~Opening(todo[1]) /\ ~Semicolon(todo[1])
  BY <1>2, Zenon DEF Opening, Semicolon
<1>33. \A m \in 1 .. Len(w) : Inner(w[m]) => u[m] > 0
  <2>1. u[1] > 0
    BY <1>4, <1>25
  <2> QED BY <1>16, <2>1
<1>34. 1 \in DOMAIN r /\ Starter(r[1]) /\ u[1] = 0 => d > 1 /\ ~Ends(tokens[d - 1])
  BY <1>16, <1>28
<1>35. NewCast(tokens, d, more, w, u, v) /\ ((\E m \in 1 .. Len(w) : IsCast(w[m])) => \A j \in H : j < d)
  BY <1>16 DEF NewCast
<1> QED BY ONLY Settled, <1>1, <1>8, <1>15, <1>16, <1>14, <1>18, <1>3, <1>20, <1>31, <1>25, <1>26, <1>27,
                <1>29, <1>32, <1>30, <1>33, <1>34, <1>35, StructStep

LEMMA StructParent == ASSUME Settled, ParseParent PROVE StructureInv'
<1> DEFINE c == Forward(current)
           v == <<Build("inherit", current, Base), AfterParent>>
<1>1. Doing("parents") /\ "parents" \in BareNames /\ "parents" \in OpenerNames /\ Cur = "name"
  BY Zenon DEF ParseParent, BareNames, OpenerNames
<1>2. tokens[current] = "name"
  BY <1>1 DEF Cur
<1>3. CASE tokens[c] = LeftBrace
  <2>1. PICK w : w = <<Aliases, Expect(RightBrace), Build("inherit", current, Base), AfterParent>>
    OBVIOUS
  <2>2. Step(Forward(c), FALSE, nodes, w)
    <3>1. Step(Forward(c), FALSE, nodes, <<Aliases, Expect("}")>> \o v)
      BY <1>3, Zenon DEF ParseParent, Goes, LeftBrace
    <3>2. <<Aliases, Expect("}")>> \o v = w
      BY <2>1, JoinedPairs, Zenon DEF RightBrace
    <3> QED BY <3>1, <3>2, Zenon
  <2>3. AliasWork(w, current)
    BY ONLY <1>2, <2>1, AliasTasks
  <2> QED BY ONLY Settled, <1>1, <1>3, <2>2, <2>3, ParentWithAliases
<1>4. CASE tokens[c] # LeftBrace
  <2>1. Step(c, FALSE, nodes, <<>> \o v)
    BY <1>4, Zenon DEF ParseParent, Goes, LeftBrace
  <2>2. <<>> \o v = v
    OBVIOUS
  <2>3. Step(c, FALSE, nodes, v)
    BY <2>1, <2>2, Zenon
  <2>4. c = current + 1
    <3>1. Quiet /\ current \in Positions
      BY SettledFacts, QuietFacts
    <3> QED BY <1>1, <3>1, Passed DEF Cur
  <2>5. PICK t : t = Build("inherit", current, Base)
    OBVIOUS
  <2>6. /\ BraceCost(t) = 0 /\ LoopCost(t) = 0 /\ ~IsCast(t) /\ ~IsForInit(t) /\ ~Inner(t) /\ ~Starter(t)
        /\ AtName(tokens, t) /\ \A i : PassesIn(tokens, t, i) <=> InList(tokens, current, i)
    BY <1>2, <2>5, InheritTask
  <2>7. \A i : ~InList(tokens, current, i)
    BY <1>4, <2>4, Zenon DEF InList, LeftBrace
  <2>8. Outer(tokens, t)
    BY <2>6, <2>7, Zenon DEF Outer, Easy, Light
  <2>9. Inner(todo[1]) \in BOOLEAN
    BY <1>1, HeadShape
  <2>10. Row(tokens, <<t, AfterParent>>, Inner(todo[1]))
    BY <2>8, <2>9, Leads, Calls, RowTwo, Zenon
  <2>11. Row(tokens, v, Inner(todo[1]))
    BY <2>5, <2>10
  <2>12. Harmless
    BY <1>1, HarmlessNow, Zenon
  <2> HIDE DEF v
  <2> QED BY <1>1, <2>3, <2>11, <2>12, OneRead, Zenon
<1> QED BY <1>3, <1>4

-----------------------------------------------------------------------------
(* The steps that pass over a token.                                       *)

(* The new nodes hide this position. *)
Hides(p, new, at) ==
  /\ \E n \in new : TRUE
  /\ \A n \in new : \A i : Passes(p, n.node, n.at, i) <=> i = at

LEMMA HidesOne ==
  ASSUME NEW p, Len(p) \in Nat, NEW w, NEW s, NEW r, Joins(w, s, r), NEW tree, NEW more, NEW new,
         Grown(tree, more, new), NEW at, Hides(p, new, at),
         \A i : ~PassesIn(p, s[1], i), \A k \in 1 .. Len(w) : \A i : ~PassesIn(p, w[k], i)
  PROVE  \A j : j \in Hidden(p, more, Len(more), r, 0) <=>
                  \/ j \in Hidden(p, tree, Len(tree), s, 0)
                  \/ j = at /\ at \in 1 .. Len(p) - 1
<1>1. /\ Len(w) \in Nat /\ Len(s) \in Nat /\ Len(r) \in Nat /\ Len(r) = Len(w) + Len(s) - 1
      /\ DOMAIN s = 1 .. Len(s) /\ DOMAIN r = 1 .. Len(r) /\ Len(s) > 0
  BY JoinPlaces
<1>a. \A k \in 1 .. Len(w) : r[k] = w[k]
  BY ONLY Joins(w, s, r), Zenon DEF Joins
<1>b. \A a \in 2 .. Len(s) : Len(w) + a - 1 \in 1 .. Len(r) /\ r[Len(w) + a - 1] = s[a]
  BY ONLY Joins(w, s, r), Zenon DEF Joins
<1>c. \A l \in 1 .. Len(r) : l > Len(w) => \E a \in 2 .. Len(s) : l = Len(w) + a - 1 /\ r[l] = s[a]
  BY ONLY Joins(w, s, r), JoinsBehind
<1>2. ASSUME NEW i PROVE (\E k \in DOMAIN r : k > 0 /\ PassesIn(p, r[k], i))
                           <=> \E k \in DOMAIN s : k > 0 /\ PassesIn(p, s[k], i)
  <2>1. ASSUME NEW k \in 1 .. Len(r), PassesIn(p, r[k], i)
        PROVE  \E a \in DOMAIN s : a > 0 /\ PassesIn(p, s[a], i)
    <3>1. k \notin 1 .. Len(w)
      BY <1>a, <2>1
    <3>2. k > Len(w)
      BY <1>1, <3>1
    <3>3. PICK a \in 2 .. Len(s) : r[k] = s[a]
      BY <1>c, <3>2
    <3> QED BY <1>1, <2>1, <3>3
  <2>2. ASSUME NEW k \in 1 .. Len(s), PassesIn(p, s[k], i)
        PROVE  \E a \in DOMAIN r : a > 0 /\ PassesIn(p, r[a], i)
    <3>1. k \in 2 .. Len(s)
      BY <1>1, <2>2
    <3>2. Len(w) + k - 1 > 0
      BY <1>1, <3>1
    <3> QED BY <1>1, <1>b, <2>2, <3>1, <3>2
  <2> QED BY <1>1, <2>1, <2>2
<1>3. ASSUME NEW i PROVE (\E k \in 1 .. Len(more) : Passes(p, more[k].node, more[k].at, i))
                           <=> \/ \E k \in 1 .. Len(tree) : Passes(p, tree[k].node, tree[k].at, i)
                               \/ i = at
  <2>1. /\ \A k \in 1 .. Len(tree) : k \in 1 .. Len(more) /\ more[k] = tree[k]
        /\ \A k \in 1 .. Len(more) : k \in 1 .. Len(tree) \/ more[k] \in new
        /\ \A n \in new : \E k \in 1 .. Len(more) : more[k] = n
    BY DEF Grown
  <2> QED BY <2>1, Zenon DEF Hides
<1> QED BY <1>2, <1>3 DEF Hidden, PassedBy

LEMMA SkipStep ==
  ASSUME Settled, NEW name \in BareNames, Doing(name), NEW d \in Positions, current < d,
         NEW n, NEW w, Step(d, FALSE, Append(nodes, n), w), Row(tokens, w, Inner(todo[1])),
         ~IsLoop(n.node), NEW at \in Nat, at >= current, \A i : Passes(tokens, n.node, n.at, i) <=> i = at,
         at \in 1 .. Len(tokens) - 1 => at < d,
         \A i \in current .. d - 1 : Dull(tokens[i]) \/ (i = at /\ at \in 1 .. Len(tokens) - 1),
         Len(w) > 0 /\ Starter(w[1]) => ~Ends(tokens[d - 1])
  PROVE  StructureInv'
<1>1. /\ Quiet /\ todo # <<>> /\ Len(tokens) \in Nat /\ todo \in Seq(Tasks) /\ current \in Nat
      /\ current <= Len(tokens) /\ 1 <= current /\ nodes \in Seq(NodeSet) /\ d \in Nat
  BY SettledFacts, HeadShape DEF Positions
<1>2. PlainHead(todo[1])
  BY HeadShape
<1>3. /\ ~IsAliases(todo[1]) /\ ~IsExpect(todo[1]) /\ BraceCost(todo[1]) = 0 /\ LoopCost(todo[1]) = 0
      /\ \A i : ~PassesIn(tokens, todo[1], i) /\ ~StandsIn(tokens, todo[1], i)
  BY <1>2, PlainCosts
<1>4. PICK x, y : WholeNow(x, y)
  BY SettledFacts
<1>5. /\ x[1] \in Nat /\ x[2] \in Nat /\ y[1] \in Int /\ y[2] \in Int
      /\ x[1] = x[2] + BraceCost(todo[1]) /\ y[1] = y[2] + LoopCost(todo[1])
      /\ x[1] = Depth(tokens, Passing, current)
      /\ y[1] = Surplus(tokens, Passing, current, nodes, Len(nodes))
      /\ (Inner(todo[1]) => x[1] > 0)
  BY <1>1, <1>4, HeadCosts
<1>6. x[1] = x[2] /\ y[1] = y[2]
  BY <1>3, <1>5
<1>7. PICK new : new = {n}
  OBVIOUS
<1>8. PICK more : more = Append(nodes, n)
  OBVIOUS
<1>9. Grown(nodes, more, new) /\ Step(d, FALSE, more, w)
  BY <1>1, <1>7, <1>8, GrownFacts
<1>10. Usual(tokens, w, Inner(todo[1])) /\ \A k \in 1 .. Len(w) : Light(tokens, w[k])
  BY DEF Row
<1>11. /\ Tidy(tokens, w) /\ Work(w) /\ Placed(tokens, w) /\ Len(w) \in Nat
       /\ (\A m \in 1 .. Len(w) : ~IsCast(w[m]))
       /\ \A m \in 1 .. Len(w) : Inner(w[m]) => Inner(todo[1])
  BY <1>10, UsualTidy DEF Tidy, Work
<1>12. PICK r : r = w \o Tail(todo)
  OBVIOUS
<1>13. Joins(w, todo, r)
  BY <1>1, <1>11, <1>12, JoinFacts
<1>14. PICK H : H = Hidden(tokens, more, Len(more), r, 0)
  OBVIOUS
<1>15. \A j : j \in H <=> j \in Passing \/ (j = at /\ at \in 1 .. Len(tokens) - 1)
  <2>1. \A k \in 1 .. Len(w) : \A i : ~PassesIn(tokens, w[k], i)
    BY <1>10 DEF Light
  <2>2. Hides(tokens, new, at)
    BY <1>7 DEF Hides
  <2>3. \A j : j \in Hidden(tokens, more, Len(more), r, 0) <=>
                  \/ j \in Hidden(tokens, nodes, Len(nodes), todo, 0)
                  \/ j = at /\ at \in 1 .. Len(tokens) - 1
    <3>1. Len(tokens) \in Nat /\ \A i : ~PassesIn(tokens, todo[1], i)
      BY <1>1, <1>3
    <3> QED BY ONLY <3>1, <1>9, <1>13, <2>1, <2>2, HidesOne
  <2> QED BY <1>14, <2>3 DEF Passing
<1>16. Agree(Passing, H, current)
  <2>1. \A j \in 1 .. current - 1 : j # at
    BY <1>1
  <2> QED BY <1>15, <2>1 DEF Agree
<1>17. /\ Depth(tokens, H, current) = Depth(tokens, Passing, current)
       /\ Surplus(tokens, H, current, nodes, Len(nodes)) = Surplus(tokens, Passing, current, nodes, Len(nodes))
  <2>1. current \in 1 .. current
    BY <1>1
  <2>2. Depth(tokens, H, current) = Depth(tokens, Passing, current)
    BY <1>1, <1>16, <2>1, AgreeFacts
  <2>3. Surplus(tokens, H, current, nodes, Len(nodes)) = Surplus(tokens, Passing, current, nodes, Len(nodes))
    BY <1>1, <1>16, <2>1, SurplusAgrees
  <2> QED BY <2>2, <2>3
<1>18. \A t \in Bounds : Number(tokens, H, d, t) = Number(tokens, H, current, t)
  <2> SUFFICES ASSUME NEW t \in Bounds PROVE Number(tokens, H, d, t) = Number(tokens, H, current, t)
    OBVIOUS
  <2>1. \A i \in current .. d - 1 : tokens[i] = t => i \in H
    <3> SUFFICES ASSUME NEW i \in current .. d - 1, tokens[i] = t PROVE i \in H
      OBVIOUS
    <3>1. ~Dull(tokens[i])
      BY DEF Dull, Bounds
    <3> QED BY <1>15, <3>1
  <2> QED BY <1>1, <2>1, NumberStays
<1>19. LeftBrace \in Bounds /\ RightBrace \in Bounds /\ "while" \in Bounds
  BY DEF Bounds
<1>20. LoopNodes(more, Len(more)) = LoopNodes(nodes, Len(nodes))
  BY <1>7, <1>9, LoopsStay
<1>21. Depth(tokens, H, d) = x[2] /\ Surplus(tokens, H, d, more, Len(more)) = y[2]
  BY <1>5, <1>6, <1>17, <1>18, <1>19, <1>20 DEF Depth, Surplus
<1>22. PICK u : u = [m \in 1 .. Len(w) + 1 |-> x[2]]
  OBVIOUS
<1>23. PICK v : v = [m \in 1 .. Len(w) + 1 |-> y[2]]
  OBVIOUS
<1>24. 1 \in 1 .. Len(w) + 1 /\ (\A m \in 1 .. Len(w) + 1 : u[m] = x[2] /\ v[m] = y[2])
       /\ \A m \in 1 .. Len(w) : m \in 1 .. Len(w) + 1
  BY <1>11, <1>22, <1>23
<1>25. Due("brace", u, w, x[2]) /\ Due("loop", v, w, y[2])
  <2>0. x[2] \in Int
    BY <1>5
  <2>1. Due("brace", u, w, x[2])
    BY ONLY <2>0, <1>11, <1>22, <1>10, NothingDue
  <2>2. Due("loop", v, w, y[2])
    BY ONLY <1>5, <1>11, <1>23, <1>10, NothingDue
  <2> QED BY <2>1, <2>2
<1>26. u[1] = Depth(tokens, H, d) /\ v[1] = Surplus(tokens, H, d, more, Len(more))
  BY <1>21, <1>24
<1>27. /\ \A m \in 1 .. Len(w) + 1 : u[m] >= 0
       /\ \A m \in 1 .. Len(w) : Inner(w[m]) => u[m] > 0
  BY <1>5, <1>6, <1>11, <1>24
<1>28. HandsHiding(tokens, current, todo, w, new)
  <2>1. \A i \in Int : i < current => ~(\E k \in new : Passes(tokens, k.node, k.at, i))
    BY <1>1, <1>7
  <2>2. \A i : ~\E k \in 1 .. Len(w) : PassesIn(tokens, w[k], i)
    BY <1>10 DEF Light
  <2> QED BY <1>3, <2>1, <2>2, Zenon DEF HandsHiding
<1>29. HandsStanding(tokens, current, todo, w, new)
  BY <1>3, Zenon DEF HandsStanding
<1>30. \A j \in H : j < d
  <2> SUFFICES ASSUME NEW j \in H, ~(j < d) PROVE FALSE
    OBVIOUS
  <2>1. j \in 1 .. Len(tokens) - 1
    BY <1>14 DEF Hidden
  <2>2. j >= current
    BY <1>1, <2>1
  <2>3. j \notin Passing
    BY <1>1, <1>3, <2>2, NotHidden
  <2> QED BY <1>15, <2>3
<1>31. NoneAhead(tokens, d, H, r)
  <2>1. \A j \in H : j \in Int /\ j < d
    BY <1>14, <1>30 DEF Hidden
  <2>2. \A j \in H : ~(j >= d)
    BY <1>1, <2>1
  <2> QED BY <2>2, Zenon DEF NoneAhead
<1>32. ~Opening(todo[1]) /\ ~Semicolon(todo[1])
  BY <1>3, Zenon DEF Opening, Semicolon
<1>33. \A i \in current .. d - 1 : Wanted(tokens, H, i) => Recorded(tokens, d, r, w, new, i)
  <2> SUFFICES ASSUME NEW i \in current .. d - 1, Wanted(tokens, H, i) PROVE FALSE
    OBVIOUS
  <2>1. i \notin H /\ ~Dull(tokens[i])
    BY DEF Wanted, Dull, Begins
  <2> QED BY <1>15, <2>1
<1>34. 1 \in DOMAIN r /\ Starter(r[1]) /\ u[1] = 0 => d > 1 /\ ~Ends(tokens[d - 1])
  <2> SUFFICES ASSUME 1 \in DOMAIN r, Starter(r[1]) PROVE d > 1 /\ ~Ends(tokens[d - 1])
    OBVIOUS
  <2>1. Placed(tokens, todo)
    BY <1>4, Zenon DEF WholeNow, Whole
  <2>2. Len(w) > 0 /\ Starter(w[1])
    BY ONLY <1>13, <1>32, <2>1, 1 \in DOMAIN r, Starter(r[1]), NextHead
  <2> QED BY <1>1, <2>2
<1>35. NewCast(tokens, d, more, w, u, v) /\ ~(\E m \in 1 .. Len(w) : IsCast(w[m]))
  BY <1>11 DEF NewCast
<1>36. current <= d
  BY <1>1
<1> QED BY ONLY Settled, <1>1, d \in Positions, <1>36, <1>9, <1>11, <1>12, <1>14, <1>4, <1>28, <1>29, <1>25, <1>27,
                <1>26, <1>31, <1>32, <1>33, <1>34, <1>35, StructStep

LEMMA StructLeadingDot == ASSUME Settled, ParseLeadingDot PROVE StructureInv'
<1> DEFINE d == Forward(Forward(current))
           w == <<Led(Arg(1))>>
<1>1. Doing("expr") /\ "expr" \in BareNames /\ Cur = "."
  BY Zenon DEF ParseLeadingDot, BareNames
<1>2. PICK k : k = Node("literal", current, Base + 1)
  OBVIOUS
<1>3. Step(d, FALSE, Append(nodes, k), w)
  BY <1>2, Zenon DEF ParseLeadingDot, Makes, Leaf
<1>4. Row(tokens, w, Inner(todo[1])) /\ Len(w) = 1
  BY <1>1, HeadShape, Calls, RowOne, Zenon
<1>5. ~Starter(w[1])
  BY DEF Starter, Led
<1>6. k.node = "literal" /\ k.at = current /\ ~IsLoop(k.node)
  BY <1>2 DEF Node, IsLoop
<1>7. \A i : Passes(tokens, k.node, k.at, i) <=> i = current + 1
  <2>1. "literal" \in Named /\ "literal" # "inherit" /\ "literal" # "field" /\ tokens[current] = "."
    BY <1>1, Zenon DEF Named, Cur
  <2> QED BY <1>6, <2>1, Zenon DEF Passes
<1>8. Quiet /\ current \in Nat /\ Len(tokens) \in Nat /\ current <= Len(tokens)
  BY SettledFacts
<1>9. Forward(current) = current + 1 /\ Forward(current) \in Positions
  <2>1. Quiet /\ current \in Positions
    BY <1>8, QuietFacts
  <2> QED BY <1>1, <2>1, Passed DEF Cur
<1>10. d \in Positions /\ Forward(current) <= d
       /\ (tokens[current + 1] = "EOF" => d = current + 1)
       /\ (tokens[current + 1] # "EOF" => d = current + 2)
  <2>1. /\ d \in Positions /\ Forward(current) <= d
        /\ (tokens[Forward(current)] # "EOF" => d = Forward(current) + 1)
        /\ (tokens[Forward(current)] = "EOF" => d = Forward(current))
    BY <1>8, <1>9, Passed
  <2> QED BY <1>8, <1>9, <2>1
<1>11. tokens[current + 1] = "EOF" <=> current + 1 = Len(tokens)
  <2>1. current + 1 \in 1 .. Len(tokens)
    BY <1>8, <1>9 DEF Positions
  <2> QED BY <1>8, <2>1, QuietFacts
<1> HIDE DEF d, w
<1>12. PICK at : at = current + 1
  OBVIOUS
<1>13. current < d /\ at \in Nat /\ at >= current
  BY <1>8, <1>10, <1>12
<1>14. at \in 1 .. Len(tokens) - 1 => at < d
  BY <1>8, <1>10, <1>11, <1>12
<1>15. \A i \in current .. d - 1 : Dull(tokens[i]) \/ (i = at /\ at \in 1 .. Len(tokens) - 1)
  <2> SUFFICES ASSUME NEW i \in current .. d - 1
               PROVE  Dull(tokens[i]) \/ (i = at /\ at \in 1 .. Len(tokens) - 1)
    OBVIOUS
  <2>1. CASE i = current
    <3>1. Dull(".")
      BY DullTokens, Zenon
    <3> QED BY <1>1, <2>1, <3>1 DEF Cur
  <2>2. CASE i # current
    <3>1. i = current + 1 /\ d = current + 2
      BY <1>8, <1>10, <2>2
    <3>2. current + 1 # Len(tokens) /\ d <= Len(tokens)
      BY <1>8, <1>10, <1>11, <3>1 DEF Positions
    <3> QED BY <1>8, <1>12, <3>1, <3>2
  <2> QED BY <2>1, <2>2
<1>16. \A i : Passes(tokens, k.node, k.at, i) <=> i = at
  BY <1>7, <1>12
<1> QED BY ONLY Settled, <1>1, <1>3, <1>4, <1>5, <1>6, <1>10, <1>13, <1>14, <1>15, <1>16, SkipStep

(* A keyword that names a field. *)
LEMMA StructKeyField == ASSUME Settled, ParseNamed, Cur \in Keywords PROVE StructureInv'
<1> DEFINE c == Forward(current)
           w == <<Expr(0), More>>
<1>1. Doing("items") /\ "items" \in BareNames
  BY Zenon DEF ParseNamed, BareNames
<1>2. PICK k : k = Node("field", current, Base + 1)
  OBVIOUS
<1>3. PICK d : d = IF tokens[c] = "=" THEN Forward(c) ELSE c
  OBVIOUS
<1>4. Step(d, FALSE, Append(nodes, k), w)
  BY <1>2, <1>3, Zenon DEF ParseNamed, Makes, Leaf
<1>5. Row(tokens, w, Inner(todo[1]))
  BY <1>1, HeadShape, Calls, RowTwo, Zenon DEF More
<1>6. k.node = "field" /\ k.at = current /\ ~IsLoop(k.node)
  BY <1>2 DEF Node, IsLoop
<1>7. \A i : Passes(tokens, k.node, k.at, i) <=> i = current
  <2>1. "field" # "inherit" /\ tokens[current] # "." /\ tokens[current] \in Keywords
    BY Zenon DEF Keywords, Cur
  <2> QED BY <1>6, <2>1, Zenon DEF Passes
<1>8. Quiet /\ current \in Nat /\ 1 <= current /\ Len(tokens) \in Nat /\ current <= Len(tokens)
  BY SettledFacts
<1>a. Cur # "EOF" /\ ~Ends(Cur)
  BY Zenon DEF Keywords, Ends, SemiSign, RightBrace
<1>9. c = current + 1 /\ c \in Positions
  <2>1. Quiet /\ current \in Positions
    BY <1>8, QuietFacts
  <2> QED BY <1>a, <2>1, Passed DEF Cur
<1>10. d \in Positions /\ (d = current + 1 \/ (d = current + 2 /\ tokens[current + 1] = "="))
  <2>1. Forward(c) \in Positions /\ (tokens[c] = "=" => Forward(c) = c + 1)
    BY <1>8, <1>9, Passed
  <2> HIDE DEF c
  <2> QED BY <1>3, <1>8, <1>9, <2>1
<1> HIDE DEF w, c
<1>11. current < Len(tokens)
  BY <1>8, <1>9 DEF Positions
<1>12. PICK at : at = current
  OBVIOUS
<1>13. current < d /\ at \in Nat /\ at >= current /\ (at \in 1 .. Len(tokens) - 1 => at < d)
  BY <1>8, <1>10, <1>12
<1>14. \A i \in current .. d - 1 : Dull(tokens[i]) \/ (i = at /\ at \in 1 .. Len(tokens) - 1)
  <2> SUFFICES ASSUME NEW i \in current .. d - 1, i # current PROVE Dull(tokens[i])
    BY <1>8, <1>11, <1>12
  <2>1. i = current + 1 /\ tokens[current + 1] = "="
    BY <1>8, <1>10
  <2>2. Dull("=")
    BY DullTokens, Zenon
  <2> QED BY <2>1, <2>2
<1>15. ~Ends(tokens[d - 1])
  <2>1. ~Ends("=")
    BY Zenon DEF Ends, SemiSign, RightBrace
  <2>2. d - 1 = current \/ (d - 1 = current + 1 /\ tokens[current + 1] = "=")
    BY <1>8, <1>10
  <2> QED BY <1>a, <2>1, <2>2 DEF Cur
<1>16. \A i : Passes(tokens, k.node, k.at, i) <=> i = at
  BY <1>7, <1>12
<1> QED BY ONLY Settled, <1>1, <1>4, <1>5, <1>6, <1>10, <1>13, <1>14, <1>15, <1>16, SkipStep

LEMMA StructNamedAny == ASSUME Settled, ParseNamed PROVE StructureInv'
BY StructNamed, StructKeyField

(* The operand of a cast. *)
LEMMA StructCast ==
  ASSUME Settled, DecideCast, Cur = ")" /\ StartsExpr(Peek(1))
  PROVE  StructureInv'
<1> DEFINE d == Forward(current)
<1>1. Doing("cast") /\ Step(d, FALSE, nodes, <<Expr(0), Build("cast", Arg(1), Arg(2))>>)
  BY Zenon DEF DecideCast, Goes
<1>2. Quiet /\ todo # <<>> /\ todo[1][1] = "cast"
  BY <1>1, HeadShape
<1>3. /\ ~IsAliases(todo[1]) /\ ~IsExpect(todo[1]) /\ ~IsBuild(todo[1]) /\ ~IsThen(todo[1])
      /\ ~Declares(todo[1]) /\ ~IsDoCond(todo[1])
  BY <1>2, Zenon DEF IsAliases, IsExpect, IsBuild, IsThen, Declares, IsDoCond
<1>4. /\ BraceCost(todo[1]) = 0 /\ LoopCost(todo[1]) = 0
      /\ \A i : ~PassesIn(tokens, todo[1], i) /\ ~StandsIn(tokens, todo[1], i)
  BY <1>3 DEF BraceCost, LoopCost, PassesIn, StandsIn
<1>5. PICK inner \in BOOLEAN : inner = FALSE
  OBVIOUS
<1>6. PICK w : w = <<Expr(0), Build("cast", Arg(1), Arg(2))>>
  OBVIOUS
<1>7. Row(tokens, w, inner)
  BY <1>6, Calls, PlainSits, RowTwo, Zenon
<1>8. Tidy(tokens, w) /\ (\A m \in 1 .. Len(w) : ~Inner(w[m])) /\ \A k \in 1 .. Len(w) : Light(tokens, w[k])
  <2>1. Usual(tokens, w, inner) /\ \A k \in 1 .. Len(w) : Light(tokens, w[k])
    BY <1>7 DEF Row
  <2>2. Tidy(tokens, w) /\ \A m \in 1 .. Len(w) : Inner(w[m]) => inner
    BY <2>1, UsualTidy
  <2> QED BY <1>5, <2>1, <2>2
<1>9. d \in Positions /\ current <= d /\ (\A i \in current .. d - 1 : i = current) /\ d - 1 = current /\ d > 1
  BY <1>2, QuietFacts, Passed, StillFacts DEF Cur
<1>10. Step(d, FALSE, nodes, w)
  BY <1>1, <1>6
<1> HIDE DEF d
<1>11. PICK new : new = {}
  OBVIOUS
<1>12. Grown(nodes, nodes, new) /\ PlainNodes(new)
  BY <1>2, <1>11, QuietFacts, GrownFacts DEF PlainNodes
<1>13. HandsStanding(tokens, current, todo, w, new)
  BY <1>4, Zenon DEF HandsStanding
<1>14. \A i \in current .. d - 1 : CalmAfter(d, w, new, i)
  <2>1. Dull(")")
    BY DullTokens, Zenon
  <2>2. tokens[current] = ")"
    BY DEF Cur
  <2> QED BY <1>9, <2>1, <2>2 DEF CalmAfter
<1>15. StartsRight(d, w)
  <2>1. ~Ends(")")
    BY Zenon DEF Ends, SemiSign, RightBrace
  <2>2. tokens[d - 1] = ")"
    BY <1>9 DEF Cur
  <2> QED BY <1>9, <2>1, <2>2 DEF StartsRight
<1> QED BY ONLY Settled, <1>2, <1>3, <1>4, <1>8, <1>9, <1>10, <1>12, <1>13, <1>14, <1>15, TidyStep

(* The work of a parenthesis that may be a cast. *)
TryType(w, at, base, m) == w = <<Type, CastOrGroup(at, base), Led(m)>>

TryShape(p, w, at, base) ==
  /\ Work(w) /\ Len(w) = 3 /\ Placed(p, w) /\ ~Semicolon(w[1])
  /\ \A k \in 1 .. 3 : ~Inner(w[k]) /\ Light(p, w[k]) /\ (IsCast(w[k]) <=> k = 2)
  /\ \A k \in 1 .. 2 : \A i : ~PassesIn(p, w[k], i) /\ ~StandsIn(p, w[k], i)
  /\ w[2][2] = at /\ w[2][3] = base

LEMMA TryTasks ==
  ASSUME NEW p, NEW at, NEW base, NEW m, NEW w, TryType(w, at, base, m)
  PROVE  TryShape(p, w, at, base)
<1>1. /\ Easy(p, w[1]) /\ Starter(w[1]) /\ ~Inner(w[1])
      /\ Easy(p, w[3]) /\ ~Starter(w[3]) /\ ~Inner(w[3])
      /\ w[2] = CastOrGroup(at, base) /\ Len(w) = 3 /\ DOMAIN w = 1 .. 3 /\ w[1] = Type
  <2>1. Opener(p, Type) /\ Outer(p, Led(m))
    BY OpenerTasks, OuterTasks
  <2>2. w[1] = Type /\ w[2] = CastOrGroup(at, base) /\ w[3] = Led(m) /\ Len(w) = 3 /\ DOMAIN w = 1 .. 3
    BY DEF TryType
  <2> QED BY <2>1, <2>2 DEF Opener, Outer
<1>2. w[2][1] = "cast" /\ w[2][2] = at /\ w[2][3] = base
  BY <1>1 DEF CastOrGroup
<1>3. /\ IsCast(w[2]) /\ ~IsExpect(w[2]) /\ ~IsBuild(w[2]) /\ ~IsDoCond(w[2]) /\ ~IsForInit(w[2])
      /\ ~Declares(w[2]) /\ ~IsThen(w[2]) /\ w[2][1] # "anon field" /\ ~Starter(w[2]) /\ ~Inner(w[2])
  BY <1>2, Zenon DEF IsCast, IsExpect, IsBuild, IsDoCond, IsForInit, Declares, IsThen, Starter, Inner
<1>4. /\ BraceCost(w[2]) = 0 /\ LoopCost(w[2]) = 0
      /\ \A i : ~PassesIn(p, w[2], i) /\ ~StandsIn(p, w[2], i)
  BY <1>3 DEF BraceCost, LoopCost, PassesIn, StandsIn
<1>5. AtName(p, w[2]) /\ Light(p, w[2])
  BY <1>3, <1>4 DEF AtName, Light
<1>6. ~IsBuild(w[1]) /\ ~IsThen(w[1]) /\ ~Declares(w[1]) /\ ~IsExpect(w[1])
  <2>1. w[1][1] = "type"
    BY <1>1 DEF Type
  <2> QED BY <2>1, Zenon DEF IsBuild, IsThen, Declares, IsExpect
<1>7. \A i : ~PassesIn(p, w[1], i) /\ ~StandsIn(p, w[1], i)
  BY <1>6 DEF PassesIn, StandsIn
<1>8. \A k \in 1 .. 3 : k = 1 \/ k = 2 \/ k = 3
  OBVIOUS
<1>9. \A k \in 1 .. 3 : /\ ~Inner(w[k]) /\ Light(p, w[k]) /\ (IsCast(w[k]) <=> k = 2)
                        /\ AtName(p, w[k]) /\ ~IsForInit(w[k]) /\ (k # 1 => ~Starter(w[k]))
  BY <1>1, <1>3, <1>5, <1>8 DEF Easy
<1>10. Placed(p, w)
  <2>1. \A k \in 1 .. 3 : k > 1 => k # 1
    OBVIOUS
  <2> QED BY <1>1, <1>9, <2>1 DEF Placed
<1>11. Work(w)
  <2>1. w \in Seq({w[1], w[2], w[3]})
    BY DEF TryType
  <2> QED BY <1>1, <2>1 DEF Work
<1>12. \A k \in 1 .. 2 : \A i : ~PassesIn(p, w[k], i) /\ ~StandsIn(p, w[k], i)
  <2>1. \A k \in 1 .. 2 : k = 1 \/ k = 2
    OBVIOUS
  <2> QED BY <1>4, <1>7, <2>1
<1>13. ~Semicolon(w[1])
  BY <1>6 DEF Semicolon
<1> QED BY <1>1, <1>2, <1>9, <1>10, <1>11, <1>12, <1>13 DEF TryShape

LEMMA TryCast ==
  ASSUME Settled, Doing("expr"), Cur = "(", NEW d, d = Forward(current),
         NEW m, NEW w, TryType(w, d, Base, m), Step(d, FALSE, nodes, w)
  PROVE  StructureInv'
<1>1. Quiet /\ todo # <<>> /\ PlainHead(todo[1])
  <2>1. "expr" \in BareNames
    BY Zenon DEF BareNames
  <2> QED BY <2>1, HeadShape
<1>2. /\ BraceCost(todo[1]) = 0 /\ LoopCost(todo[1]) = 0 /\ ~IsExpect(todo[1]) /\ ~IsAliases(todo[1])
      /\ \A i : ~PassesIn(tokens, todo[1], i) /\ ~StandsIn(tokens, todo[1], i)
  BY <1>1, PlainCosts
<1>3. PICK x, y : WholeNow(x, y)
  BY SettledFacts
<1>4. /\ x[1] \in Nat /\ x[2] \in Nat /\ y[1] \in Int /\ y[2] \in Int
      /\ x[1] = x[2] + BraceCost(todo[1]) /\ y[1] = y[2] + LoopCost(todo[1])
      /\ x[1] = Depth(tokens, Passing, current)
      /\ y[1] = Surplus(tokens, Passing, current, nodes, Len(nodes))
  BY <1>1, <1>3, HeadCosts
<1>5. /\ todo \in Seq(Tasks) /\ current \in Nat /\ 1 <= current /\ Len(tokens) \in Nat
      /\ current \in Positions /\ nodes \in Seq(NodeSet)
  BY <1>1, SettledFacts, QuietFacts
<1>6. d \in Positions /\ current <= d /\ d = current + 1 /\ \A i \in current .. d - 1 : i = current
  BY <1>1, <1>5, Passed DEF Cur
<1>7. tokens[current] = "(" /\ ~Ends("(") /\ OpenParen("(") /\ "(" \notin Bounds /\ Dull("(")
  <2>1. ~Ends("(") /\ OpenParen("(") /\ "(" \notin Bounds
    BY Zenon DEF Ends, SemiSign, RightBrace, LeftBrace, OpenParen, Bounds
  <2>2. Dull("(")
    BY DullTokens, Zenon
  <2> QED BY <2>1, <2>2 DEF Cur
<1>8. /\ Work(w) /\ Len(w) = 3 /\ Placed(tokens, w) /\ ~Semicolon(w[1])
      /\ (\A k \in 1 .. 3 : ~Inner(w[k]) /\ Light(tokens, w[k]) /\ (IsCast(w[k]) <=> k = 2))
      /\ (\A k \in 1 .. 2 : \A i : ~PassesIn(tokens, w[k], i) /\ ~StandsIn(tokens, w[k], i))
      /\ w[2][2] = d /\ w[2][3] = Base
  <2>1. TryShape(tokens, w, d, Base)
    BY ONLY TryType(w, d, Base, m), TryTasks
  <2> QED BY <2>1, Zenon DEF TryShape
<1>9. PICK new : new = {}
  OBVIOUS
<1>10. PICK more : more = nodes
  OBVIOUS
<1>11. PICK r : r = w \o Tail(todo)
  OBVIOUS
<1>12. Grown(nodes, more, new) /\ Step(d, FALSE, more, w)
  BY <1>5, <1>9, <1>10, GrownFacts
<1>13. Joins(w, todo, r)
  BY <1>1, <1>5, <1>8, <1>11, JoinFacts
<1>14. PICK H : H = Hidden(tokens, more, Len(more), r, 0)
  OBVIOUS
<1>15. SameHiding(tokens, todo, w, new)
  BY <1>2, <1>8, <1>9 DEF SameHiding, Light
<1>16. H = Passing
  BY ONLY <1>5, <1>12, <1>13, <1>14, <1>15, SameHidden DEF Passing
<1>17. HandsHiding(tokens, current, todo, w, new) /\ HandsStanding(tokens, current, todo, w, new)
  BY <1>2, <1>15, Zenon DEF SameHiding, HandsHiding, HandsStanding
<1>18. \A j \in H : j < d
  <2> SUFFICES ASSUME NEW j \in H, ~(j < d) PROVE FALSE
    OBVIOUS
  <2>1. j \in 1 .. Len(tokens) - 1
    BY <1>14 DEF Hidden
  <2>2. j >= current
    BY <1>5, <1>6, <2>1
  <2> QED BY <1>1, <1>2, <1>16, <2>2, NotHidden
<1>19. NoneAhead(tokens, d, H, r)
  <2>1. \A j \in H : j \in Int /\ j < d
    BY <1>14, <1>18 DEF Hidden
  <2>2. \A j \in H : ~(j >= d)
    BY <1>6, <2>1 DEF Positions
  <2> QED BY <2>2, Zenon DEF NoneAhead
<1>20. PICK u : u = [k \in 1 .. Len(w) + 1 |-> x[2]]
  OBVIOUS
<1>21. PICK v : v = [k \in 1 .. Len(w) + 1 |-> y[2]]
  OBVIOUS
<1>22. /\ (\A k \in 1 .. 4 : u[k] = x[2] /\ v[k] = y[2]) /\ Len(w) + 1 = 4
       /\ \A k \in 1 .. 3 : k \in 1 .. 4
  BY <1>8, <1>20, <1>21
<1>23. Due("brace", u, w, x[2]) /\ Due("loop", v, w, y[2])
  <2>0. x[2] \in Int /\ Len(w) \in Nat /\ \A k \in 1 .. Len(w) : Light(tokens, w[k])
    BY <1>4, <1>8
  <2>1. Due("brace", u, w, x[2])
    BY ONLY <2>0, <1>20, NothingDue
  <2>2. Due("loop", v, w, y[2])
    BY ONLY <2>0, <1>4, <1>21, NothingDue
  <2> QED BY <2>1, <2>2
<1>24. /\ Depth(tokens, Passing, d) = Depth(tokens, Passing, current)
       /\ Number(tokens, Passing, d, "while") = Number(tokens, Passing, current, "while")
  <2>1. \A i \in current .. d - 1 : tokens[i] \notin Bounds
    BY <1>6, <1>7
  <2>2. d \in Nat
    BY <1>5, <1>6
  <2> QED BY <1>5, <1>6, <2>1, <2>2, SameDepth
<1>25. u[1] = Depth(tokens, H, d) /\ v[1] = Surplus(tokens, H, d, more, Len(more))
       /\ \A k \in 1 .. 4 : u[k] = u[1] /\ v[k] = v[1] /\ u[k] >= 0
  BY <1>2, <1>4, <1>10, <1>16, <1>22, <1>24 DEF Surplus
<1>26. \A i \in current .. d - 1 : Wanted(tokens, H, i) => Recorded(tokens, d, r, w, new, i)
  <2>1. ~Wanted(tokens, H, current)
    BY <1>7 DEF Wanted, Dull, Begins
  <2> QED BY <1>6, <2>1
<1>27. d > 1 /\ ~Ends(tokens[d - 1]) /\ OpenParen(tokens[d - 1])
  BY <1>5, <1>6, <1>7
<1>28. NewCast(tokens, d, more, w, u, v)
  <2> SUFFICES ASSUME NEW k \in 1 .. Len(w), IsCast(w[k])
               PROVE  /\ w[k][2] = d /\ w[k][3] = Len(more) /\ u[k] = u[1] /\ v[k] = v[1]
                      /\ d > 1 /\ OpenParen(tokens[d - 1]) /\ ~Semicolon(w[1])
                      /\ \A l \in 1 .. k : (\A i : ~PassesIn(tokens, w[l], i) /\ ~StandsIn(tokens, w[l], i))
                                           /\ (l < k => ~IsCast(w[l]))
    BY DEF NewCast
  <2>1. k = 2
    BY <1>8
  <2>2. w[2][2] = d /\ w[2][3] = Len(more)
    BY <1>8, <1>10 DEF Base
  <2>3. u[2] = u[1] /\ v[2] = v[1]
    BY <1>25
  <2>4. \A l \in 1 .. 2 : l < 2 => ~IsCast(w[l])
    BY <1>8
  <2> QED BY <1>8, <1>27, <2>1, <2>2, <2>3, <2>4
<1>29. ~Opening(todo[1]) /\ ~Semicolon(todo[1])
  BY <1>2, Zenon DEF Opening, Semicolon
<1>30. /\ \A k \in 1 .. Len(w) + 1 : u[k] >= 0
       /\ \A k \in 1 .. Len(w) : Inner(w[k]) => u[k] > 0
  BY <1>8, <1>22, <1>25
<1> QED BY ONLY Settled, <1>1, <1>3, <1>6, <1>8, <1>11, <1>12, <1>14, <1>17, <1>18, <1>19, <1>23, <1>25, <1>26,
                <1>27, <1>28, <1>29, <1>30, StructStep

LEMMA StructGroup == ASSUME Settled, ParseGroupOrCast PROVE StructureInv'
<1> DEFINE c == Forward(current)
<1>1. Doing("expr") /\ "expr" \in BareNames /\ Cur = "("
  BY Zenon DEF ParseGroupOrCast, BareNames
<1>2. CASE CanBeType(tokens[c])
  <2>1. PICK w : w = <<Type, CastOrGroup(c, Base), Led(Arg(1))>>
    OBVIOUS
  <2>2. Step(c, FALSE, nodes, w)
    BY <1>2, <2>1, Zenon DEF ParseGroupOrCast, Goes
  <2>3. TryType(w, c, Base, Arg(1))
    BY <2>1 DEF TryType
  <2> QED BY ONLY Settled, <1>1, <2>2, <2>3, TryCast
<1>3. CASE ~CanBeType(tokens[c])
  <2> DEFINE w == <<Expr(0), Expect(")"), Led(Arg(1))>>
  <2>1. Step(c, FALSE, nodes, w)
    BY <1>3, Zenon DEF ParseGroupOrCast, Goes
  <2>2. Row(tokens, w, Inner(todo[1]))
    <3>1. Inner(todo[1]) \in BOOLEAN
      BY <1>1, HeadShape
    <3> QED BY <3>1, Calls, Signs, RowThree, Zenon
  <2>3. Harmless
    BY <1>1, MildTokens, HarmlessNow, Zenon
  <2> HIDE DEF w
  <2> QED BY <1>1, <2>1, <2>2, <2>3, OneRead, Zenon
<1> QED BY <1>2, <1>3

(* The tree is cut to where it was when the cast began. *)
LEMMA CutHere ==
  ASSUME Quiet, todo # <<>>, IsCast(todo[1])
  PROVE  /\ todo[1][3] \in 0 .. Len(nodes) /\ todo[1][2] \in Nat /\ Len(nodes) \in Nat
         /\ Len(Below(todo[1][3])) = todo[1][3]
         /\ \A k \in 1 .. todo[1][3] : Below(todo[1][3])[k] = nodes[k]
         /\ \A m \in 2 .. Len(todo) : IsCast(todo[m]) => todo[m][2] \in Nat /\ todo[m][3] \in 0 .. todo[1][3]
<1>1. todo \in Seq(Tasks) /\ nodes \in Seq(NodeSet) /\ 1 \in DOMAIN todo
  BY QuietFacts
<1>2. PICK b : b = todo[1][3]
  OBVIOUS
<1>3. HasBase(todo[1]) /\ BaseOf(todo[1]) = b
  BY <1>2 DEF IsCast, HasBase, BaseOf
<1>4. BasesHold(nodes, todo)
  BY Zenon DEF Quiet, IInv
<1>5. b \in 0 .. Len(nodes)
  <2>1. Boundary(nodes, b)
    BY <1>1, <1>3, <1>4 DEF BasesHold
  <2> QED BY <2>1 DEF Boundary
<1>6. \A a \in 1 .. Len(todo) : IsCast(todo[a]) => todo[a][2] \in Nat /\ todo[a][3] \in 0 .. Len(nodes)
  BY CastTypes
<1>7. ASSUME NEW m \in 2 .. Len(todo), IsCast(todo[m])
      PROVE  todo[m][2] \in Nat /\ todo[m][3] \in 0 .. b
  <2>1. HasBase(todo[m]) /\ BaseOf(todo[m]) = todo[m][3] /\ m \in DOMAIN todo /\ 1 < m /\ m \in 1 .. Len(todo)
    BY <1>1, <1>7 DEF IsCast, HasBase, BaseOf
  <2>2. BaseOf(todo[m]) <= BaseOf(todo[1])
    BY <1>1, <1>3, <1>4, <2>1 DEF BasesHold
  <2>3. todo[m][2] \in Nat /\ todo[m][3] \in 0 .. Len(nodes)
    BY <1>6, <1>7, <2>1
  <2> QED BY <1>3, <1>5, <2>1, <2>2, <2>3
<1>8. Len(Below(b)) = b /\ \A k \in 1 .. b : Below(b)[k] = nodes[k]
  BY <1>1, <1>5 DEF Below
<1>9. todo[1][2] \in Nat
  BY <1>1, <1>6
<1> QED BY <1>1, <1>2, <1>5, <1>7, <1>8, <1>9

(* The work of a group after all. *)
GroupShape(p, w) ==
  /\ Work(w) /\ Len(w) = 2 /\ Placed(p, w)
  /\ \A k \in 1 .. 2 : ~Inner(w[k]) /\ ~IsCast(w[k]) /\ Light(p, w[k])

LEMMA GroupTasks == ASSUME NEW p, NEW w, w = <<Expr(0), Expect(")")>> PROVE GroupShape(p, w)
<1>1. PICK inner \in BOOLEAN : inner = FALSE
  OBVIOUS
<1>2. Row(p, w, inner) /\ Len(w) = 2
  BY Calls, Signs, RowTwo, Zenon
<1>3. Tidy(p, w) /\ (\A m \in 1 .. Len(w) : ~Inner(w[m])) /\ \A k \in 1 .. Len(w) : Light(p, w[k])
  <2>1. Usual(p, w, inner) /\ \A k \in 1 .. Len(w) : Light(p, w[k])
    BY <1>2 DEF Row
  <2>2. Tidy(p, w) /\ \A m \in 1 .. Len(w) : Inner(w[m]) => inner
    BY <2>1, UsualTidy
  <2> QED BY <1>1, <2>1, <2>2
<1> QED BY <1>2, <1>3 DEF GroupShape, Tidy

(* The cast that is no cast: everything is as it was at its parenthesis.   *)
LEMMA StructRollback ==
  ASSUME Settled, DecideCast, ~(Cur = ")" /\ StartsExpr(Peek(1)))
  PROVE  StructureInv'
<1>1. Doing("cast") /\ Step(Arg(1), FALSE, Below(Arg(2)), <<Expr(0), Expect(")")>>)
  BY Zenon DEF DecideCast
<1>2. Quiet /\ todo # <<>> /\ todo[1][1] = "cast" /\ Head(todo) = todo[1]
  BY <1>1, HeadShape
<1>3. IsCast(todo[1])
  BY <1>2 DEF IsCast
<1>4. PICK saved : saved = todo[1][2]
  OBVIOUS
<1>5. PICK b : b = todo[1][3]
  OBVIOUS
<1>6. PICK low : low = Below(b)
  OBVIOUS
<1>7. PICK w : w = <<Expr(0), Expect(")")>>
  OBVIOUS
<1>8. PICK r : r = w \o Tail(todo)
  OBVIOUS
<1>9. current' = saved /\ nodes' = low /\ todo' = r /\ tokens' = tokens
  <2>1. Arg(1) = saved /\ Arg(2) = b
    BY <1>2, <1>4, <1>5, ArgsAre
  <2> QED BY <1>1, <1>6, <1>7, <1>8, <2>1 DEF Step
<1>10. /\ b \in 0 .. Len(nodes) /\ saved \in Nat /\ Len(nodes) \in Nat /\ b \in Nat /\ b <= Len(nodes)
       /\ Len(low) = b /\ (\A k \in 1 .. b : low[k] = nodes[k])
       /\ \A m \in 2 .. Len(todo) : IsCast(todo[m]) => todo[m][2] \in Nat /\ todo[m][3] \in 0 .. b
  BY <1>2, <1>3, <1>4, <1>5, <1>6, CutHere
<1>11. PICK x, y : WholeNow(x, y)
  BY SettledFacts
<1>12. /\ todo \in Seq(Tasks) /\ current \in Nat /\ Len(tokens) \in Nat /\ current <= Len(tokens)
       /\ 1 \in DOMAIN todo /\ DOMAIN todo = 1 .. Len(todo) /\ Len(todo) \in Nat /\ Len(todo) > 0
  BY <1>2, SettledFacts, HeadIs
<1>13. PICK G : G = Passing
  OBVIOUS
<1>14. G \subseteq 1 .. Len(tokens) - 1 /\ Whole(tokens, current, nodes, todo, x, y, G)
  BY <1>11, <1>13 DEF Passing, Hidden, WholeNow
<1>15. PICK F : F = Hidden(tokens, low, Len(low), todo, 0)
  OBVIOUS
<1>16. Whole(tokens, saved, low, todo, x, y, F)
  BY ONLY <1>3, <1>4, <1>5, <1>10, <1>12, <1>14, <1>15, StructBack
<1>17. saved > 1 /\ OpenParen(tokens[saved - 1]) /\ saved <= Len(tokens)
  <2>1. Resumes(tokens, current, nodes, todo, x, y, G, 1)
    BY <1>3, <1>12, <1>14 DEF Whole
  <2>2. saved <= current /\ saved > 1 /\ OpenParen(tokens[saved - 1])
    BY <1>4, <2>1, Zenon DEF Resumes
  <2> QED BY <1>10, <1>12, <2>2
<1>18. GroupShape(tokens, w)
  BY <1>7, GroupTasks
<1>19. /\ Work(w) /\ Len(w) = 2 /\ Placed(tokens, w)
       /\ \A k \in 1 .. 2 : ~Inner(w[k]) /\ ~IsCast(w[k]) /\ Light(tokens, w[k])
  BY <1>18 DEF GroupShape
<1>20. Joins(w, todo, r)
  BY <1>2, <1>8, <1>12, <1>19, JoinFacts
<1>21. PICK new : new = {}
  OBVIOUS
<1>22. Grown(low, low, new)
  BY <1>21 DEF Grown
<1>23. /\ ~IsAliases(todo[1]) /\ ~IsExpect(todo[1]) /\ ~IsBuild(todo[1]) /\ ~IsThen(todo[1])
       /\ ~Declares(todo[1]) /\ ~IsDoCond(todo[1])
  BY <1>2, Zenon DEF IsAliases, IsExpect, IsBuild, IsThen, Declares, IsDoCond
<1>24. /\ BraceCost(todo[1]) = 0 /\ LoopCost(todo[1]) = 0 /\ ~Opening(todo[1]) /\ ~Semicolon(todo[1])
       /\ \A i : ~PassesIn(tokens, todo[1], i) /\ ~StandsIn(tokens, todo[1], i)
  BY <1>23 DEF BraceCost, LoopCost, PassesIn, StandsIn, Opening, Semicolon
<1>25. SameHiding(tokens, todo, w, new)
  BY <1>19, <1>21, <1>24 DEF SameHiding, Light
<1>26. PICK H : H = Hidden(tokens, low, Len(low), r, 0)
  OBVIOUS
<1>27. H = F
  BY ONLY <1>12, <1>15, <1>20, <1>22, <1>25, <1>26, SameHidden
<1>28. HandsHiding(tokens, saved, todo, w, new) /\ HandsStanding(tokens, saved, todo, w, new)
  BY <1>24, <1>25, Zenon DEF SameHiding, HandsHiding, HandsStanding
<1>29. /\ Ledger("brace", x, todo) /\ Ledger("loop", y, todo) /\ (\A m \in 1 .. Len(todo) + 1 : x[m] >= 0)
       /\ x[1] = Depth(tokens, F, saved) /\ y[1] = Surplus(tokens, F, saved, low, Len(low))
       /\ NoneAhead(tokens, saved, F, todo)
  BY <1>16, Zenon DEF Whole
<1>30. x[1] = x[2] /\ y[1] = y[2] /\ x[2] \in Nat /\ y[2] \in Int
  <2>1. 1 \in 1 .. Len(todo) /\ 2 \in 1 .. Len(todo) + 1 /\ 1 + 1 = 2
    BY <1>12
  <2>2. /\ (\A m \in 1 .. Len(todo) + 1 : x[m] \in Int /\ y[m] \in Int)
        /\ \A m \in 1 .. Len(todo) : /\ x[m] = x[m + 1] + BraceCost(todo[m])
                                     /\ y[m] = y[m + 1] + LoopCost(todo[m])
    BY <1>29 DEF Ledger, Cost
  <2> QED BY <1>24, <1>29, <2>1, <2>2
<1>31. PICK u : u = [k \in 1 .. Len(w) + 1 |-> x[2]]
  OBVIOUS
<1>32. PICK v : v = [k \in 1 .. Len(w) + 1 |-> y[2]]
  OBVIOUS
<1>33. (\A k \in 1 .. Len(w) + 1 : u[k] = x[2] /\ v[k] = y[2]) /\ 1 \in 1 .. Len(w) + 1
  BY <1>19, <1>31, <1>32
<1>34. Due("brace", u, w, x[2]) /\ Due("loop", v, w, y[2])
  <2>0. x[2] \in Int /\ Len(w) \in Nat /\ \A k \in 1 .. Len(w) : Light(tokens, w[k])
    BY <1>19, <1>30
  <2>1. Due("brace", u, w, x[2])
    BY ONLY <2>0, <1>31, NothingDue
  <2>2. Due("loop", v, w, y[2])
    BY ONLY <2>0, <1>30, <1>32, NothingDue
  <2> QED BY <2>1, <2>2
<1>35. /\ u[1] = Depth(tokens, H, saved) /\ v[1] = Surplus(tokens, H, saved, low, Len(low))
       /\ \A k \in 1 .. Len(w) + 1 : u[k] >= 0
  BY <1>27, <1>29, <1>30, <1>33
<1>36. NoneAhead(tokens, saved, H, r)
  BY <1>23, <1>27, <1>29, Zenon DEF NoneAhead
<1>37. \A i \in saved .. saved - 1 : Wanted(tokens, H, i) => Recorded(tokens, saved, r, w, new, i)
  BY <1>10
<1>38. \A m \in 1 .. Len(w) : ~Inner(w[m]) /\ ~IsCast(w[m])
  BY <1>19
<1>39. saved > 1 /\ ~Ends(tokens[saved - 1])
  BY <1>17, Zenon DEF OpenParen, Ends, SemiSign, RightBrace
<1>40. NewCast(tokens, saved, low, w, u, v)
  BY <1>38 DEF NewCast
<1>41. /\ \A a \in 2 .. Len(todo) : IsCast(todo[a]) => todo[a][2] \in Nat /\ todo[a][3] \in 0 .. Len(low)
       /\ saved <= saved
  BY <1>10
<1>42. Whole(tokens, saved, low, r, Spliced(u, w, x, r), Spliced(v, w, y, r), H)
  BY ONLY <1>10, <1>12, <1>15, <1>16, <1>17, <1>19, <1>20, <1>22, <1>24, <1>26, <1>28, <1>34, <1>35, <1>36, <1>37,
          <1>38, <1>39, <1>40, <1>41, StructAfter
<1>43. Whole(tokens', current', nodes', todo', Spliced(u, w, x, r), Spliced(v, w, y, r),
             Hidden(tokens', nodes', Len(nodes'), todo', 0))
  BY <1>9, <1>26, <1>42, Zenon
<1> QED BY <1>43, Zenon DEF StructureInv

LEMMA StructDecideCast == ASSUME Settled, DecideCast PROVE StructureInv'
BY StructCast, StructRollback

-----------------------------------------------------------------------------
(* Every step keeps the structure.                                         *)

LEMMA StructLoud ==
  ASSUME \/ NotExpected \/ NotAnExpr \/ NotAType \/ NotAField \/ NoBlock
         \/ NotADeclaration \/ NotAParent \/ NotAnAlias \/ NotAMember \/ NotAParam
  PROVE  StructureInv'
<1>1. CASE NotExpected \/ NotAField \/ NotADeclaration \/ NotAParent \/ NotAnAlias \/ NotAMember
           \/ NotAParam
  <2>1. PICK c, w : Reports(c, w)
    BY <1>1, Zenon DEF NotExpected, NotAField, NotADeclaration, NotAParent, NotAnAlias, NotAMember,
                       NotAParam
  <2>2. Step(c, TRUE, nodes, w)
    BY <2>1, Zenon DEF Reports
  <2> QED BY <2>2, LoudStructure
<1>2. CASE NotAnExpr
  <2>1. Step(Forward(current), TRUE, Leaf("error", Forward(current)), <<Led(Arg(1))>>)
    BY <1>2, Zenon DEF NotAnExpr
  <2> QED BY <2>1, LoudStructure
<1>3. CASE NotAType
  <2>1. Step(current, TRUE, Leaf("type", current), <<Suffixes>>)
    BY <1>3, Zenon DEF NotAType
  <2> QED BY <2>1, LoudStructure
<1>4. CASE NoBlock
  <2>1. Step(SyncStmt(current), TRUE, Leaf("block", current), <<>>)
    BY <1>4, Zenon DEF NoBlock
  <2> QED BY <2>1, LoudStructure
<1> QED BY <1>1, <1>2, <1>3, <1>4

LEMMA StructCrash == ASSUME CrashInNamed \/ CrashInFfi PROVE StructureInv'
BY CrashFacts DEF StructureInv, Silent

LEMMA StructExprSteps == ASSUME Settled, ExprStep PROVE StructureInv'
<1>1. CASE NotExpected \/ NotAnExpr \/ NotAType \/ NotAField
  BY <1>1, StructLoud
<1>2. CASE Expected \/ BuildNode \/ MatchComma \/ ParseDefault
  BY <1>2, StructExpected, StructBuild, StructComma, StructDefault
<1>3. CASE ParseNothing \/ ParseAtom \/ ParseUnary \/ ParseLeadingDot \/ ParseFfi
           \/ ParseAggregate \/ ParseArray \/ ParseGroupOrCast \/ DecideCast
  BY <1>3, StructNothing, StructAtom, StructUnary, StructLeadingDot, StructFfi, StructAggregate,
     StructArray, StructGroup, StructDecideCast
<1>4. CASE EndItems \/ ParseItem \/ ParseIndexed \/ ParseNamed \/ CrashInNamed \/ CrashInFfi
  BY <1>4, StructEndItems, StructItem, QuietIndexed, StructNamedAny, StructCrash DEF Settled
<1>5. CASE EndExpr \/ ParseInfix \/ ParseMember \/ ParseCall \/ ParseIndex
  BY <1>5, StructEndExpr, StructInfix, StructMember, StructCall, StructIndex
<1>6. CASE ParseNamedType \/ ParseAnonType \/ ParsePointer \/ ParseArrayType \/ EndType
  BY <1>6, StructNamedType, StructAnonType, StructPointer, StructArrayType, StructEndType
<1>7. CASE EndAnon \/ ParseAnonField \/ EndAnonField
  BY <1>7, StructEndAnon, StructAnonField, StructEndField
<1> QED BY <1>1, <1>2, <1>3, <1>4, <1>5, <1>6, <1>7, Zenon DEF ExprStep

LEMMA StructStmtSteps ==
  ASSUME Settled,
         \/ EmptyBlock \/ NoStmt \/ ParseExprStmt \/ ParseBlock \/ NoBlock \/ EndStmts \/ NextStmt
         \/ ParseReturn \/ ParseExit \/ ParseDecl \/ ParseIf \/ ParseThen \/ ParseElse
         \/ ParseWhile \/ ParseDoWhile \/ ParseDoCond \/ ParseFor \/ ParseForInit \/ ParseClause
  PROVE  StructureInv'
<1>1. CASE EmptyBlock \/ NoStmt \/ ParseExprStmt \/ ParseBlock \/ NoBlock \/ EndStmts \/ NextStmt
           \/ ParseReturn \/ ParseExit
  BY <1>1, StructEmptyBlock, StructNoStmt, StructExprStmt, StructBlock, StructLoud, StructEndStmts,
     StructNextStmt, StructReturn, StructExit
<1>2. CASE ParseDecl \/ ParseIf \/ ParseThen \/ ParseElse \/ ParseWhile \/ ParseDoWhile \/ ParseDoCond
  BY <1>2, StructDecl, StructIf, StructThen, StructElse, StructWhile, StructDoWhile, StructDoCond
<1>3. CASE ParseFor \/ ParseForInit \/ ParseClause
  BY <1>3, StructFor, StructForInit, StructClause
<1> QED BY <1>1, <1>2, <1>3, Zenon

LEMMA StructDeclSteps ==
  ASSUME Settled,
         \/ NextDeclaration \/ EndProgram \/ NotADeclaration
         \/ ParseBlueprint \/ EndParents \/ NotAParent \/ ParseParent \/ NextParent
         \/ EndAliases \/ NotAnAlias \/ ParseAlias
         \/ ParseBody \/ EndMembers \/ NotAMember \/ ParseField \/ ParseMethod
         \/ ParseSelf \/ EndParams \/ NotAParam \/ ParseParam \/ NextParam
         \/ ParseReturns \/ ParseMethodBody
         \/ ParseFunc \/ EndFuncParams \/ ParseFuncParam \/ NextFuncParam
         \/ ParseFuncReturns \/ ParseFuncBody
  PROVE  StructureInv'
<1>1. CASE NotADeclaration \/ NotAParent \/ NotAnAlias \/ NotAMember \/ NotAParam
  BY <1>1, StructLoud
<1>2. CASE NextDeclaration \/ EndProgram \/ ParseBlueprint \/ EndParents \/ ParseParent \/ NextParent
           \/ EndAliases \/ ParseAlias
  BY <1>2, StructNextDeclaration, StructEndProgram, StructBlueprint, StructEndParents, StructParent,
     StructNextParent, StructEndAliases, StructAlias
<1>3. CASE ParseBody \/ EndMembers \/ ParseField \/ ParseMethod \/ ParseSelf \/ EndParams
           \/ ParseParam \/ NextParam \/ ParseReturns \/ ParseMethodBody
  BY <1>3, StructBody, StructEndMembers, StructField, StructMethod, StructSelf, StructEndParams,
     StructParam, StructNextParam, StructReturns, StructMethodBody
<1>4. CASE ParseFunc \/ EndFuncParams \/ ParseFuncParam \/ NextFuncParam \/ ParseFuncReturns
           \/ ParseFuncBody
  BY <1>4, StructFunc, StructEndFuncParams, StructFuncParam, StructNextFuncParam, StructFuncReturns,
     StructFuncBody
<1> QED BY <1>1, <1>2, <1>3, <1>4, Zenon

LEMMA StructureStays == ASSUME IInv, CompleteInv, StructureInv, [Next]_vars PROVE StructureInv'
<1>1. tokens' = tokens /\ (reported => reported') /\ (crashed => crashed')
  BY NextRaises, Zenon DEF Raised
<1>2. CASE Silent
  <2>1. Settled
    BY <1>2 DEF Settled, Quiet
  <2>2. CASE UNCHANGED vars
    <3>1. tokens' = tokens /\ current' = current /\ nodes' = nodes /\ todo' = todo
      BY <2>2 DEF vars
    <3>2. PICK x, y :
            Whole(tokens, current, nodes, todo, x, y, Hidden(tokens, nodes, Len(nodes), todo, 0))
      BY <1>2, Zenon DEF StructureInv
    <3>3. Whole(tokens', current', nodes', todo', x, y, Hidden(tokens', nodes', Len(nodes'), todo', 0))
      BY <3>1, <3>2, Zenon
    <3> QED BY <3>3, Zenon DEF StructureInv
  <2> QED BY <2>1, <2>2, StructExprSteps, StructStmtSteps, StructDeclSteps, Zenon DEF Next, Stays
<1>3. CASE ~Silent
  <2>1. HasIndexed => HasIndexed'
    BY <1>1, Zenon DEF HasIndexed
  <2>2. ~Silent'
    BY <1>1, <1>3, <2>1, Zenon DEF Silent
  <2> QED BY <2>2, Zenon DEF StructureInv
<1> QED BY <1>2, <1>3

LEMMA StructureFirst == Init => StructureInv
<1> SUFFICES ASSUME Init PROVE StructureInv
  OBVIOUS
<1>1. current = 1 /\ todo = <<Program>> /\ nodes = <<>>
  BY Zenon DEF Init
<1>2. PICK s, p, tree, hid, c : /\ s = <<Program>> /\ p = tokens /\ tree = <<>> /\ c = 1
                                /\ hid = Hidden(p, tree, 0, s, 0)
  OBVIOUS
<1>3. Len(s) = 1 /\ DOMAIN s = 1 .. 1 /\ s[1][1] = "program"
  BY <1>2 DEF Program
<1>4. \A m \in DOMAIN s : m = 1
  BY <1>3
<1>5. /\ ~IsCast(s[1]) /\ ~IsBuild(s[1]) /\ ~IsExpect(s[1]) /\ ~Starter(s[1]) /\ ~Inner(s[1])
      /\ ~Declares(s[1]) /\ s[1][1] # "anon field" /\ ~IsForInit(s[1]) /\ ~IsDoCond(s[1])
  BY <1>3 DEF IsCast, IsBuild, IsExpect, Starter, Inner, Declares, IsForInit, IsDoCond
<1>6. hid = {}
  <2>1. \A i : ~PassedBy(p, tree, 0, s, 0, i)
    <3>1. \A i : ~PassesIn(p, s[1], i)
      BY <1>5, Zenon DEF PassesIn
    <3>2. 1 .. 0 = {}
      OBVIOUS
    <3> QED BY <1>4, <3>1, <3>2, Zenon DEF PassedBy
  <2> QED BY <1>2, <2>1, Zenon DEF Hidden
<1>7. PICK z : z = [m \in 1 .. 2 |-> 0]
  OBVIOUS
<1>8. DOMAIN z = 1 .. Len(s) + 1 /\ z[1] = 0 /\ z[2] = 0 /\ \A m \in 1 .. Len(s) + 1 : z[m] = 0
  BY <1>3, <1>7
<1>9. \A kind : Cost(kind, s[1]) = 0
  BY <1>5 DEF Cost, BraceCost, LoopCost
<1>10. Ledger("brace", z, s) /\ Ledger("loop", z, s)
  <2>1. \A m \in 1 .. Len(s) : m = 1
    BY <1>3
  <2>2. \A kind : Ledger(kind, z, s)
    BY <1>3, <1>8, <1>9, <2>1 DEF Ledger
  <2> QED BY <2>2
<1>11. Depth(p, hid, c) = 0 /\ Surplus(p, hid, c, tree, 0) = 0
  <2>1. \A t : Number(p, hid, c, t) = 0
    <3>1. 1 .. c - 1 = {}
      BY <1>2
    <3>2. \A t : Where(p, hid, c, t) = {}
      BY <3>1 DEF Where
    <3> QED BY <3>2, FS_EmptySet DEF Number
  <2>2. LoopNodes(tree, 0) = 0
    <3>1. {k \in 1 .. 0 : IsLoop(tree[k].node)} = {}
      OBVIOUS
    <3> QED BY <3>1, FS_EmptySet DEF LoopNodes
  <2> QED BY <2>1, <2>2 DEF Depth, Surplus
<1>12. Len(tree) = 0 /\ 1 .. c - 1 = {}
  BY <1>2
<1>13. NoneAhead(p, c, hid, s)
  BY <1>6, Zenon DEF NoneAhead
<1>14. Placed(p, s)
  BY <1>4, <1>5, Zenon DEF Placed, AtName
<1>15. \A m \in DOMAIN s : ~IsCast(s[m]) /\ ~Inner(s[m])
  BY <1>4, <1>5, Zenon
<1>16. /\ \A m \in 1 .. Len(s) + 1 : z[m] >= 0
       /\ z[1] = Depth(p, hid, c) /\ z[1] = Surplus(p, hid, c, tree, Len(tree))
  BY <1>8, <1>11, <1>12
<1>17. Whole(p, c, tree, s, z, z, hid)
  BY <1>5, <1>10, <1>12, <1>13, <1>14, <1>15, <1>16, Zenon DEF Whole
<1>18. Whole(tokens, current, nodes, todo, z, z, Hidden(tokens, nodes, Len(nodes), todo, 0))
  <2>1. s = todo /\ p = tokens /\ tree = nodes /\ c = current /\ hid = Hidden(tokens, nodes, Len(nodes), todo, 0)
    BY <1>1, <1>2, <1>12, Zenon
  <2> QED BY <1>17, <2>1, Zenon
<1> QED BY <1>18, Zenon DEF StructureInv

LEMMA StructureHolds == Spec => [](IInv /\ CompleteInv /\ StructureInv)
<1>1. IInv /\ CompleteInv /\ StructureInv /\ [Next]_vars => IInv' /\ CompleteInv' /\ StructureInv'
  BY NextKeeps, CompleteKept, StructureStays
<1> QED BY InitHolds, CompleteFirst, StructureFirst, <1>1, PTL DEF Spec

-----------------------------------------------------------------------------
(* What the invariant says when nothing is left to do.                     *)

Done == Accepted /\ ~HasIndexed /\ IInv /\ CompleteInv /\ StructureInv

LEMMA DoneFacts ==
  ASSUME Done
  PROVE  /\ tokens \in Seq(Token) /\ nodes \in Seq(NodeSet) /\ Len(tokens) \in Nat /\ Len(nodes) \in Nat
         /\ DOMAIN tokens = 1 .. Len(tokens) /\ DOMAIN nodes = 1 .. Len(nodes)
         /\ current = Len(tokens) /\ todo = <<>> /\ DOMAIN todo = {} /\ Len(todo) = 0
         /\ \A i \in 1 .. Len(tokens) : tokens[i] = "EOF" <=> i = Len(tokens)
         /\ \A k \in DOMAIN nodes : nodes[k].at \in Nat /\ nodes[k].at > 0
         /\ \E x, y : WholeNow(x, y)
<1>1. todo = <<>> /\ current = Len(tokens) /\ Quiet /\ Settled
  BY Zenon DEF Done, Accepted, Finished, Quiet, Silent, Settled
<1>2. /\ tokens \in Seq(Token) /\ Len(tokens) \in Nat /\ nodes \in Seq(NodeSet)
      /\ \A i \in 1 .. Len(tokens) : tokens[i] = "EOF" <=> i = Len(tokens)
  BY <1>1, QuietFacts
<1>3. DOMAIN todo = {} /\ Len(todo) = 0
  <2>1. PICK s : s = todo
    OBVIOUS
  <2>2. DOMAIN s = {} /\ Len(s) = 0
    BY <1>1, <2>1
  <2> QED BY <2>1, <2>2, Zenon
<1>4. ASSUME NEW k \in DOMAIN nodes PROVE nodes[k].at \in Nat /\ nodes[k].at > 0
  <2>1. nodes[k] \in NodeSet
    BY <1>2
  <2>2. nodes[k].at \in Positions
    BY <2>1 DEF NodeSet
  <2> QED BY <1>2, <2>2 DEF Positions
<1>5. \E x, y : WholeNow(x, y)
  BY <1>1, SettledFacts
<1> QED BY <1>1, <1>2, <1>3, <1>4, <1>5

LEMMA DonePlaces ==
  ASSUME Done
  PROVE  /\ Len(tokens) \in Nat /\ Len(nodes) \in Nat /\ current = Len(tokens)
         /\ DOMAIN nodes = 1 .. Len(nodes) /\ DOMAIN tokens = 1 .. Len(tokens)
         /\ \A i \in DOMAIN tokens :
              tokens[i] # "EOF" => i \in 1 .. Len(tokens) - 1 /\ i \in 1 .. current - 1
         /\ \A i \in 1 .. Len(tokens) - 1 : i \in DOMAIN tokens /\ i \in Nat
         /\ \A i \in 1 .. current - 1 : i \in 1 .. Len(tokens) - 1
         /\ \A i \in 1 .. Len(tokens) - 1 : \A j \in 1 .. i - 1 : j \in 1 .. Len(tokens) - 1
<1>1. PICK n, c : n = Len(tokens) /\ c = current
  OBVIOUS
<1>2. /\ Len(tokens) \in Nat /\ Len(nodes) \in Nat /\ current = Len(tokens)
      /\ DOMAIN nodes = 1 .. Len(nodes) /\ DOMAIN tokens = 1 .. Len(tokens)
      /\ \A i \in 1 .. Len(tokens) : tokens[i] = "EOF" <=> i = Len(tokens)
  BY DoneFacts, Zenon
<1>3. n \in Nat /\ c = n /\ DOMAIN tokens = 1 .. n
  BY <1>1, <1>2, Zenon
<1>4. /\ \A i \in 1 .. n : i # n => i \in 1 .. n - 1 /\ i \in 1 .. c - 1
      /\ \A i \in 1 .. n - 1 : i \in 1 .. n /\ i \in Nat
      /\ \A i \in 1 .. c - 1 : i \in 1 .. n - 1
      /\ \A i \in 1 .. n - 1 : \A j \in 1 .. i - 1 : j \in 1 .. n - 1
  BY ONLY <1>3
<1> QED BY <1>1, <1>2, <1>3, <1>4, Zenon

(* Passed over is what stands in a literal, in the rest of an alias, or is *)
(* a keyword that names a field of an aggregate.                           *)
LEMMA PassedAtEnd ==
  ASSUME Done, NEW i \in 1 .. Len(tokens) - 1
  PROVE  i \in Passing <=>
           InLiteral(i) \/ InAliases(i) \/ (HasNode({"field"}, i) /\ tokens[i] \in Keywords)
<1>1. /\ DOMAIN nodes = 1 .. Len(nodes) /\ DOMAIN todo = {} /\ i \in Nat
      /\ \A k \in DOMAIN nodes : nodes[k].at \in Nat /\ nodes[k].at > 0
  BY DoneFacts, DonePlaces, Zenon
<1>2. i \in Passing <=> \E k \in DOMAIN nodes : Passes(tokens, nodes[k].node, nodes[k].at, i)
  BY <1>1, Zenon DEF Passing, Hidden, PassedBy
<1>3. InLiteral(i) <=>
        \E k \in DOMAIN nodes : /\ nodes[k].node \in Named /\ tokens[nodes[k].at] = "."
                                /\ i = nodes[k].at + 1
  <2>1. ASSUME NEW k \in DOMAIN nodes
        PROVE  i = nodes[k].at + 1 <=> i > 1 /\ nodes[k].at = i - 1
    BY <1>1
  <2> QED BY <2>1, Zenon DEF InLiteral, AtNames
<1>4. InAliases(i) <=>
        \E k \in DOMAIN nodes : nodes[k].node = "inherit" /\ InList(tokens, nodes[k].at, i)
  BY Zenon DEF InAliases, InList, Closes
<1>5. HasNode({"field"}, i) <=> \E k \in DOMAIN nodes : nodes[k].node = "field" /\ nodes[k].at = i
  BY Zenon DEF HasNode
<1> QED BY <1>2, <1>3, <1>4, <1>5, Zenon DEF Passes

LEMMA KeywordAtEnd ==
  ASSUME Done, NEW i \in DOMAIN tokens, IsKeyword(i), tokens[i] # "EOF"
  PROVE  i \in 1 .. current - 1 /\ i \notin Passing
<1>1. i \in 1 .. Len(tokens) - 1 /\ current = Len(tokens)
  BY DonePlaces, Zenon
<1> QED BY <1>1, PassedAtEnd, Zenon DEF IsKeyword

LEMMA WantedAtEnd ==
  ASSUME Done, NEW i \in 1 .. current - 1, Wanted(tokens, Passing, i)
  PROVE  \E k \in DOMAIN nodes : Stands(tokens, nodes[k].node, nodes[k].at, i)
<1>1. PICK x, y : WholeNow(x, y)
  BY DoneFacts
<1>2. DOMAIN todo = {} /\ DOMAIN nodes = 1 .. Len(nodes)
  BY DoneFacts
<1>3. Stood(tokens, nodes, Len(nodes), todo, 0, i) \/ Dropped(tokens, current, todo, i)
  BY <1>1, Zenon DEF WholeNow, Whole
<1> QED BY <1>2, <1>3, Zenon DEF Stood, Dropped

(* The braces that are counted. *)
LEMMA BracesAtEnd ==
  ASSUME Done, NEW i \in 1 .. Len(tokens) - 1
  PROVE  /\ Before(i, "{") = Number(tokens, Passing, i, LeftBrace)
         /\ Before(i, "}") = Number(tokens, Passing, i, RightBrace)
<1>1. \A j \in 1 .. i - 1 : j \in 1 .. Len(tokens) - 1
  BY DonePlaces, Zenon
<1>2. LeftBrace \notin Keywords /\ RightBrace \notin Keywords
  BY Zenon DEF LeftBrace, RightBrace, Keywords
<1>3. ASSUME NEW t, t \notin Keywords PROVE Before(i, t) = Number(tokens, Passing, i, t)
  <2>1. ASSUME NEW j \in 1 .. i - 1, tokens[j] = t
        PROVE  j \in Passing <=> InLiteral(j) \/ InAliases(j)
    BY <1>1, <1>3, <2>1, PassedAtEnd, Zenon
  <2>2. {j \in 1 .. i - 1 : tokens[j] = t /\ ~InAliases(j) /\ ~InLiteral(j)}
          = Where(tokens, Passing, i, t)
    BY <2>1, Zenon DEF Where
  <2> QED BY <2>2, Zenon DEF Before, Number
<1> QED BY <1>2, <1>3, Zenon DEF LeftBrace, RightBrace

LEMMA LoopsAtEnd ==
  ASSUME Done
  PROVE  Cardinality({i \in DOMAIN tokens : tokens[i] = "while" /\ IsKeyword(i)})
           = WhilesOf("while") + WhilesOf("do")
<1>1. PICK x, y : WholeNow(x, y)
  BY DoneFacts
<1>2. y[1] = 0
  <2>1. Ledger("loop", y, todo) /\ Len(todo) = 0
    BY <1>1, DoneFacts, Zenon DEF WholeNow, Whole
  <2> QED BY <2>1 DEF Ledger
<1>3. Number(tokens, Passing, current, "while") = LoopNodes(nodes, Len(nodes))
  <2>1. y[1] = Surplus(tokens, Passing, current, nodes, Len(nodes))
    BY <1>1, Zenon DEF WholeNow, Whole
  <2>2. Number(tokens, Passing, current, "while") \in Nat /\ LoopNodes(nodes, Len(nodes)) \in Nat
    BY DoneFacts, NumberIsNat, LoopsAreNat
  <2> QED BY <1>2, <2>1, <2>2 DEF Surplus
<1>4. {i \in DOMAIN tokens : tokens[i] = "while" /\ IsKeyword(i)}
        = Where(tokens, Passing, current, "while")
  <2>1. "while" \in Keywords /\ "while" # "EOF"
    BY Zenon DEF Keywords
  <2>2. ASSUME NEW i \in DOMAIN tokens, tokens[i] = "while", IsKeyword(i)
        PROVE  i \in 1 .. current - 1 /\ i \notin Passing
    BY <2>1, <2>2, KeywordAtEnd, Zenon
  <2>3. ASSUME NEW i \in 1 .. current - 1, tokens[i] = "while", i \notin Passing
        PROVE  i \in DOMAIN tokens /\ IsKeyword(i)
    <3>1. i \in DOMAIN tokens /\ i \in 1 .. Len(tokens) - 1
      BY DonePlaces, Zenon
    <3> QED BY <2>1, <2>3, <3>1, PassedAtEnd, Zenon DEF IsKeyword
  <2> QED BY <2>2, <2>3, Zenon DEF Where
<1>5. LoopNodes(nodes, Len(nodes)) = WhilesOf("while") + WhilesOf("do")
  <2> DEFINE A == {k \in DOMAIN nodes : nodes[k].node = "while"}
             B == {k \in DOMAIN nodes : nodes[k].node = "do"}
  <2>1. DOMAIN nodes = 1 .. Len(nodes)
    BY DoneFacts
  <2>2. {k \in 1 .. Len(nodes) : IsLoop(nodes[k].node)} = A \cup B
    BY <2>1, Zenon DEF IsLoop
  <2>3. IsFiniteSet(A) /\ IsFiniteSet(B)
    <3>1. IsFiniteSet(DOMAIN nodes)
      BY <2>1, DonePlaces, FS_Interval
    <3>2. A \subseteq DOMAIN nodes /\ B \subseteq DOMAIN nodes
      OBVIOUS
    <3> QED BY <3>1, <3>2, FS_Subset
  <2>4. A \cap B = {}
    OBVIOUS
  <2>5. Cardinality(A \cap B) = 0
    BY <2>4, FS_EmptySet
  <2>6. WhilesOf("while") = Cardinality(A) /\ WhilesOf("do") = Cardinality(B)
    BY DEF WhilesOf
  <2> HIDE DEF A, B
  <2>7. Cardinality(A) \in Nat /\ Cardinality(B) \in Nat
    BY <2>3, FS_CardinalityType
  <2>8. Cardinality(A \cup B) = Cardinality(A) + Cardinality(B) - Cardinality(A \cap B)
    BY <2>3, FS_Union
  <2>9. Cardinality(A \cup B) = Cardinality(A) + Cardinality(B)
    BY <2>5, <2>7, <2>8
  <2> QED BY <2>2, <2>6, <2>9, Zenon DEF LoopNodes
<1> QED BY <1>3, <1>4, <1>5, Zenon DEF Number

LEMMA StatementsAtEnd ==
  ASSUME Done, NEW i \in DOMAIN tokens, IsKeyword(i)
  PROVE  /\ tokens[i] \in StmtKeywords => HasNode({tokens[i]}, i)
         /\ tokens[i] = "var" => HasNode({"decl"}, i + 1) \/ tokens[i + 1] = ";"
<1>1. "EOF" \notin StmtKeywords /\ "name" \notin StmtKeywords /\ "var" \notin StmtKeywords
  BY Zenon DEF StmtKeywords
<1>2. ASSUME tokens[i] \in StmtKeywords PROVE HasNode({tokens[i]}, i)
  <2>1. i \in 1 .. current - 1 /\ i \notin Passing
    BY <1>1, <1>2, KeywordAtEnd
  <2>2. Wanted(tokens, Passing, i)
    BY <1>2, <2>1, Zenon DEF Wanted
  <2>3. PICK k \in DOMAIN nodes : Stands(tokens, nodes[k].node, nodes[k].at, i)
    BY <2>1, <2>2, WantedAtEnd
  <2>4. nodes[k].node = tokens[i] /\ nodes[k].at = i
    BY <1>1, <1>2, <2>3, Zenon DEF Stands
  <2> QED BY <2>4, Zenon DEF HasNode
<1>3. ASSUME tokens[i] = "var", tokens[i + 1] # ";" PROVE HasNode({"decl"}, i + 1)
  <2>1. i \in 1 .. current - 1 /\ i \notin Passing
    BY <1>3, KeywordAtEnd
  <2>2. Wanted(tokens, Passing, i)
    BY <1>3, <2>1, Zenon DEF Wanted, SemiSign
  <2>3. PICK k \in DOMAIN nodes : Stands(tokens, nodes[k].node, nodes[k].at, i)
    BY <2>1, <2>2, WantedAtEnd
  <2>4. nodes[k].node = "decl" /\ nodes[k].at = i + 1
    BY <1>1, <1>3, <2>3, Zenon DEF Stands
  <2> QED BY <2>4, Zenon DEF HasNode
<1> QED BY <1>2, <1>3, Zenon

LEMMA DeclarationsAtEnd ==
  ASSUME Done, NEW i \in DOMAIN tokens, IsKeyword(i), BeginsDeclaration(i)
  PROVE  HasNode({"func", "blueprint"}, i)
<1>1. /\ tokens[i] = "name" /\ Before(i, "{") = Before(i, "}")
      /\ i = 1 \/ tokens[i - 1] = ";" \/ tokens[i - 1] = "}"
  BY Zenon DEF BeginsDeclaration
<1>2. i \in 1 .. current - 1 /\ i \notin Passing
  BY <1>1, KeywordAtEnd
<1>3. i \in 1 .. Len(tokens) - 1 /\ i \in Nat
  BY <1>2, DonePlaces, Zenon
<1>4. Number(tokens, Passing, i, LeftBrace) = Number(tokens, Passing, i, RightBrace)
  BY <1>1, <1>3, BracesAtEnd, Zenon
<1>5. Depth(tokens, Passing, i) = 0
  <2>1. Number(tokens, Passing, i, LeftBrace) \in Nat
    BY <1>3, NumberIsNat
  <2> QED BY <1>4, <2>1 DEF Depth
<1>6. Wanted(tokens, Passing, i)
  BY <1>1, <1>2, <1>5, Zenon DEF Wanted, Begins, Ends, SemiSign, RightBrace
<1>7. PICK k \in DOMAIN nodes : Stands(tokens, nodes[k].node, nodes[k].at, i)
  BY <1>2, <1>6, WantedAtEnd
<1>8. nodes[k].node \in {"func", "blueprint"} /\ nodes[k].at = i
  <2>1. "name" \notin StmtKeywords
    BY Zenon DEF StmtKeywords
  <2> QED BY <1>1, <1>7, <2>1, Zenon DEF Stands
<1> QED BY <1>8, Zenon DEF HasNode

LEMMA StructureAtEnd == ASSUME IInv, CompleteInv, StructureInv PROVE StructureKept
<1> SUFFICES ASSUME Done
             PROVE  /\ \A i \in {j \in DOMAIN tokens : IsKeyword(j)} :
                         /\ tokens[i] \in StmtKeywords => HasNode({tokens[i]}, i)
                         /\ tokens[i] = "var" => HasNode({"decl"}, i + 1) \/ tokens[i + 1] = ";"
                         /\ BeginsDeclaration(i) => HasNode({"func", "blueprint"}, i)
                    /\ Cardinality({i \in DOMAIN tokens : tokens[i] = "while" /\ IsKeyword(i)})
                         = WhilesOf("while") + WhilesOf("do")
  BY Zenon DEF StructureKept, Done
<1> QED BY StatementsAtEnd, DeclarationsAtEnd, LoopsAtEnd, Zenon

(* Whatever the file, a program that no error has been reported for has    *)
(* all its declarations and statements in the tree, but for the var that a *)
(* for loop drops.  The braces that are open and the while that have no    *)
(* loop yet are due to the calls in progress.  Where no brace is open, a   *)
(* call that may read a name is never at the beginning of a declaration:   *)
(* ii_parser_context_new alone reads what stands there.  A cast that goes  *)
(* back (_parse_group_or_cast) goes to where all this was so.              *)
THEOREM StructureAlwaysKept == Spec => []StructureKept
<1>1. IInv /\ CompleteInv /\ StructureInv => StructureKept
  BY StructureAtEnd
<1> QED BY <1>1, StructureHolds, PTL

=============================================================================
