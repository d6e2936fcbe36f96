---------------------------- MODULE Parser_proofs ----------------------------
(***************************************************************************)
(* Proofs about the parser, for every sequence of tokens: it never reads   *)
(* past the end of the file, the trees it makes nest, whatever is taken    *)
(* back, replaced and skipped on the way, and no name or value of an       *)
(* accepted program is lost.  The last part is about the declarations and  *)
(* statements of such a program: what is known of them between two steps,  *)
(* and what a step must see to so that it remains so.                      *)
(***************************************************************************)
EXTENDS Parser, TLAPS, FiniteSetTheorems, SequenceTheorems, WellFoundedInduction

-----------------------------------------------------------------------------
(* The values of the variables.                                            *)

Positions == 1 .. Len(tokens)

NodeKinds ==
  {"error", "none", "ident", "literal", "field", "type", "unary", "binary", "member", "call",
   "index", "cast", "ffi", "init", "anon", "pointer", "array", "block", "expr stmt", "return",
   "break", "continue", "decl", "if", "while", "do", "for", "param", "alias", "inherit",
   "method", "blueprint", "func"}

NodeSet == [node : NodeKinds, at : Positions, from : Nat]

PlainNames ==
  {"type", "suffixes", "anon", "default", "stmt", "stmts", "block", "else", "do cond", "for init",
   "program", "declaration", "parents", "after parent", "aliases", "members", "self", "params",
   "after param", "returns", "method body", "func params", "after func param"}

Forms == {"args", "positional", "indexed", "named"}
ItemTasks == {"items"} \X Forms \X Token

Tasks ==
  {<<n>> : n \in PlainNames}
  \cup ({"expr", "led"} \X Int)
  \cup ItemTasks
  \cup ({"comma"} \X ItemTasks)
  \cup ({"expect"} \X Token \X {"nothing", "stmt", "decl"})
  \cup ({"clause"} \X Token)
  \cup ({"build"} \X NodeKinds \X Positions \X Nat)
  \cup ({"cast", "anon field", "then", "body", "func returns", "func body"} \X Positions \X Nat)

TypeInv ==
  /\ tokens \in Programs
  /\ current \in Positions
  /\ reported \in BOOLEAN /\ crashed \in BOOLEAN
  /\ todo \in Seq(Tasks)
  /\ nodes \in Seq(NodeSet)

-----------------------------------------------------------------------------
(* The inductive invariant.                                                *)

(* A call remembers how many nodes there were when its own tree began, and *)
(* will put a node around those after them, or cut them off.               *)
HasBase(task) ==
  task[1] \in {"build", "cast", "anon field", "then", "body", "func returns", "func body"}
BaseOf(task) == IF task[1] = "build" THEN task[4] ELSE task[3]

(* No tree begins before the place and ends after it.                      *)
Boundary(tree, b) ==
  /\ b \in 0 .. Len(tree)
  /\ \A l \in DOMAIN tree : l > b => tree[l].from > b

(* An outer call began no later than an inner one.                         *)
BasesHold(tree, tasks) ==
  \A i \in DOMAIN tasks :
    HasBase(tasks[i]) =>
      /\ Boundary(tree, BaseOf(tasks[i]))
      /\ \A j \in DOMAIN tasks : i < j /\ HasBase(tasks[j]) => BaseOf(tasks[j]) <= BaseOf(tasks[i])

(* These calls go on with the last tree, which must have been made by the  *)
(* call before them, or by a call that has ended, and not before any other *)
(* call in progress began.                                                 *)
OnTree(task) == task[1] \in {"led", "suffixes"}
Maker(task) == task[1] \in {"expr", "led", "type", "suffixes", "build", "cast"}
IsExpect(task) == task[1] = "expect"

Waits(tasks, i) == \A k \in 1 .. i - 1 : IsExpect(tasks[k])

Fed(tasks, i) ==
  \E j \in 1 .. i - 1 : Maker(tasks[j]) /\ \A k \in j + 1 .. i - 1 : IsExpect(tasks[k])

LastIsOwn(tree, tasks) ==
  /\ tree # <<>>
  /\ \A j \in DOMAIN tasks : HasBase(tasks[j]) => BaseOf(tasks[j]) < Len(tree)

TreesAwaited(tree, tasks) ==
  \A i \in DOMAIN tasks :
    OnTree(tasks[i]) => \/ Fed(tasks, i)
                        \/ Waits(tasks, i) /\ LastIsOwn(tree, tasks)

(* Two trees are apart or one is inside the other.                         *)
Sound(tree) ==
  /\ \A k \in DOMAIN tree : tree[k].from \in 1 .. k
  /\ \A k, l \in DOMAIN tree : k < l => tree[l].from > k \/ tree[l].from <= tree[k].from

IInv ==
  /\ TypeInv
  /\ Sound(nodes)
  /\ BasesHold(nodes, todo)
  /\ TreesAwaited(nodes, todo)

-----------------------------------------------------------------------------
(* Positions.                                                              *)

(* Every non-empty set of positions has a first one. *)
LEMMA MinIsThere ==
  ASSUME NEW S, S \subseteq Nat, S # {}
  PROVE  Min(S) \in S
<1>1. IsWellFoundedOn(OpToRel(<, Nat), Nat)
  BY NatLessThanWellFounded
<1>2. PICK i \in S : \A j \in S : ~ (<<j, i>> \in OpToRel(<, Nat))
  BY <1>1, WFMin
<1>3. \A j \in S : ~ (j < i)
  BY <1>2 DEF OpToRel
<1>4. \A j \in S : i <= j
  BY <1>3
<1> QED BY <1>4 DEF Min

(* There is a token at every position, and a last one. *)
LEMMA TokenFacts ==
  ASSUME tokens \in Programs
  PROVE  /\ tokens \in Seq(Token) /\ Len(tokens) \in Nat /\ Len(tokens) \in Positions
         /\ \A c \in Positions : c \in Nat /\ tokens[c] \in Token
<1>1. tokens \in Seq(Token) /\ tokens # <<>>
  BY ProgramsAssumption, Zenon
<1>2. Len(tokens) \in Nat /\ Len(tokens) > 0
  BY <1>1
<1> QED BY <1>1, <1>2 DEF Positions

(* No step leads past the last token, and no search. *)
LEMMA Moves ==
  ASSUME tokens \in Programs
  PROVE  \A c \in Positions :
           /\ Forward(c) \in Positions /\ SyncStmt(c) \in Positions /\ SyncDecl(c) \in Positions
           /\ AliasEnd(c) \in Positions
<1>1. /\ Len(tokens) \in Nat /\ Len(tokens) \in Positions
  BY TokenFacts
<1>2. ASSUME NEW c \in Positions PROVE Forward(c) \in Positions
  BY <1>1 DEF Forward, Positions
<1>3. ASSUME NEW c \in Positions, NEW S PROVE FirstFrom(c, S) \in Positions
  <2> DEFINE F == {i \in c .. Len(tokens) : tokens[i] \in S \/ i = Len(tokens)}
  <2>1. F \subseteq Positions /\ F \subseteq Nat /\ Len(tokens) \in F
    BY <1>1 DEF Positions
  <2> HIDE DEF F
  <2>2. Min(F) \in F
    BY <2>1, MinIsThere
  <2> QED BY <2>1, <2>2 DEF FirstFrom, F
<1>4. ASSUME NEW c \in Positions, NEW S PROVE Sync(c, S) \in Positions
  BY <1>2, <1>3 DEF Sync
<1> QED BY <1>2, <1>3, <1>4 DEF SyncStmt, SyncDecl, AliasEnd

(* However the caller recovers further. *)
LEMMA FurtherMoves ==
  ASSUME tokens \in Programs, NEW c \in Positions, NEW set \in {"nothing", "stmt", "decl"}
  PROVE  Further(c, set) \in Positions
<1>1. CASE set = "nothing"
  BY <1>1 DEF Further
<1>2. CASE set = "stmt"
  BY <1>2, Moves DEF Further
<1>3. CASE set = "decl"
  BY <1>3, Moves DEF Further
<1> QED BY <1>1, <1>2, <1>3

-----------------------------------------------------------------------------
(* Tasks.                                                                  *)

(* What a task is made of.                                                 *)
TaskForm(t) ==
  /\ t[1] \in {"expr", "led"} => t[2] \in Int
  /\ t[1] = "items" => t[2] \in Forms /\ t[3] \in Token
  /\ t[1] = "comma" => t[2] \in ItemTasks
  /\ t[1] = "expect" => t[2] \in Token /\ t[3] \in {"nothing", "stmt", "decl"}
  /\ t[1] = "clause" => t[2] \in Token
  /\ t[1] = "build" => t[2] \in NodeKinds /\ t[3] \in Positions
  /\ t[1] \in {"cast", "anon field", "then", "body", "func returns", "func body"} => t[2] \in Positions
  /\ HasBase(t) => BaseOf(t) \in Nat
  /\ IsExpect(t) => ~HasBase(t) /\ ~OnTree(t) /\ ~Maker(t)
  /\ OnTree(t) => ~HasBase(t)

LEMMA TaskForms == \A t \in Tasks : TaskForm(t)
<1> SUFFICES ASSUME NEW t \in Tasks PROVE TaskForm(t)
  OBVIOUS
<1>1. CASE t \in {<<n>> : n \in PlainNames}
  <2>1. t[1] \in PlainNames
    BY <1>1
  <2> QED BY <2>1 DEF PlainNames, TaskForm, HasBase, IsExpect, OnTree
<1>2. CASE t \in {"expr", "led"} \X Int
  <2>1. t[1] \in {"expr", "led"} /\ t[2] \in Int
    BY <1>2
  <2> QED BY <2>1 DEF TaskForm, HasBase, IsExpect, OnTree
<1>3. CASE t \in ItemTasks
  <2>1. t[1] = "items" /\ t[2] \in Forms /\ t[3] \in Token
    BY <1>3 DEF ItemTasks
  <2> QED BY <2>1 DEF TaskForm, HasBase, IsExpect, OnTree
<1>4. CASE t \in {"comma"} \X ItemTasks
  <2>1. t[1] = "comma" /\ t[2] \in ItemTasks
    BY <1>4
  <2> QED BY <2>1 DEF TaskForm, HasBase, IsExpect, OnTree
<1>5. CASE t \in {"expect"} \X Token \X {"nothing", "stmt", "decl"}
  <2>1. t[1] = "expect" /\ t[2] \in Token /\ t[3] \in {"nothing", "stmt", "decl"}
    BY <1>5
  <2> QED BY <2>1 DEF TaskForm, HasBase, OnTree, Maker
<1>6. CASE t \in {"clause"} \X Token
  <2>1. t[1] = "clause" /\ t[2] \in Token
    BY <1>6
  <2> QED BY <2>1 DEF TaskForm, HasBase, IsExpect, OnTree
<1>7. CASE t \in {"build"} \X NodeKinds \X Positions \X Nat
  <2>1. t[1] = "build" /\ t[2] \in NodeKinds /\ t[3] \in Positions /\ t[4] \in Nat
    BY <1>7
  <2> QED BY <2>1 DEF TaskForm, BaseOf, IsExpect, OnTree
<1>8. CASE t \in {"cast", "anon field", "then", "body", "func returns", "func body"} \X Positions \X Nat
  <2>1. /\ t[1] \in {"cast", "anon field", "then", "body", "func returns", "func body"}
        /\ t[2] \in Positions /\ t[3] \in Nat
    BY <1>8
  <2> QED BY <2>1 DEF TaskForm, BaseOf, IsExpect, OnTree
<1> QED BY <1>1, <1>2, <1>3, <1>4, <1>5, <1>6, <1>7, <1>8 DEF Tasks

(* A task that is no more than what it is; one that goes on with the last  *)
(* tree, one that makes one, one that expects a token and one that has a   *)
(* base.                                                                   *)
Mere(t) == t \in Tasks /\ ~HasBase(t) /\ ~OnTree(t) /\ ~IsExpect(t) /\ ~Maker(t)
GoesOnWithTree(t) == t \in Tasks /\ ~HasBase(t) /\ OnTree(t) /\ ~IsExpect(t) /\ Maker(t)
Makes1(t) == t \in Tasks /\ ~HasBase(t) /\ ~OnTree(t) /\ ~IsExpect(t) /\ Maker(t)
Expects(t) == t \in Tasks /\ ~HasBase(t) /\ ~OnTree(t) /\ IsExpect(t) /\ ~Maker(t)
Remembers(t, b) == t \in Tasks /\ HasBase(t) /\ BaseOf(t) = b /\ ~OnTree(t) /\ ~IsExpect(t)

LEMMA MereTasks ==
  /\ \A n \in PlainNames \ {"type", "suffixes"} : Mere(<<n>>)
  /\ \A form \in Forms, t \in Token : Mere(Items(form, t)) /\ Mere(Comma(Items(form, t)))
  /\ \A t \in Token : Mere(Clause(t))
<1>1. ASSUME NEW n \in PlainNames \ {"type", "suffixes"} PROVE Mere(<<n>>)
  <2>1. <<n>> \in Tasks
    BY DEF Tasks
  <2>2. <<n>>[1] = n
    OBVIOUS
  <2> QED BY <2>1, <2>2 DEF Mere, HasBase, OnTree, IsExpect, Maker, PlainNames
<1>2. ASSUME NEW form \in Forms, NEW t \in Token
      PROVE  Mere(Items(form, t)) /\ Mere(Comma(Items(form, t)))
  <2>1. Items(form, t) \in ItemTasks /\ Items(form, t)[1] = "items"
    BY DEF Items, ItemTasks
  <2>2. Mere(Items(form, t))
    BY <2>1 DEF Mere, HasBase, OnTree, IsExpect, Maker, Tasks
  <2> DEFINE u == Items(form, t)
  <2> HIDE DEF u
  <2>3. Comma(u) \in {"comma"} \X ItemTasks /\ Comma(u)[1] = "comma"
    BY <2>1 DEF Comma, u
  <2>4. Mere(Comma(u))
    BY <2>3 DEF Mere, HasBase, OnTree, IsExpect, Maker, Tasks
  <2> QED BY <2>2, <2>4 DEF u
<1>3. ASSUME NEW t \in Token PROVE Mere(Clause(t))
  <2>1. Clause(t) \in {"clause"} \X Token /\ Clause(t)[1] = "clause"
    BY DEF Clause
  <2> QED BY <2>1 DEF Mere, HasBase, OnTree, IsExpect, Maker, Tasks
<1> QED BY <1>1, <1>2, <1>3

LEMMA NamedTasks ==
  /\ Mere(Anon) /\ Mere(Default) /\ Mere(Stmt) /\ Mere(Stmts) /\ Mere(Block) /\ Mere(Else)
  /\ Mere(DoCond) /\ Mere(ForInit) /\ Mere(Program) /\ Mere(Declaration) /\ Mere(Parents)
  /\ Mere(AfterParent) /\ Mere(Aliases) /\ Mere(Members) /\ Mere(Self) /\ Mere(Params)
  /\ Mere(AfterParam) /\ Mere(Returns) /\ Mere(MethodBody) /\ Mere(FuncParams)
  /\ Mere(AfterFuncParam)
BY MereTasks DEF PlainNames, Anon, Default, Stmt, Stmts, Block, Else, DoCond, ForInit, Program,
   Declaration, Parents, AfterParent, Aliases, Members, Self, Params, AfterParam, Returns,
   MethodBody, FuncParams, AfterFuncParam

LEMMA TreeTasks ==
  /\ Makes1(Type) /\ GoesOnWithTree(Suffixes)
  /\ \A min \in Int : Makes1(Expr(min)) /\ GoesOnWithTree(Led(min))
<1>1. Type \in {<<n>> : n \in PlainNames} /\ Type[1] = "type"
  BY DEF Type, PlainNames
<1>2. Suffixes \in {<<n>> : n \in PlainNames} /\ Suffixes[1] = "suffixes"
  BY DEF Suffixes, PlainNames
<1>3. Makes1(Type) /\ GoesOnWithTree(Suffixes)
  BY <1>1, <1>2 DEF Makes1, GoesOnWithTree, HasBase, OnTree, IsExpect, Maker, Tasks
<1>4. ASSUME NEW min \in Int PROVE Makes1(Expr(min)) /\ GoesOnWithTree(Led(min))
  <2>1. Expr(min) \in {"expr", "led"} \X Int /\ Expr(min)[1] = "expr"
    BY DEF Expr
  <2>2. Led(min) \in {"expr", "led"} \X Int /\ Led(min)[1] = "led"
    BY DEF Led
  <2> QED BY <2>1, <2>2 DEF Makes1, GoesOnWithTree, HasBase, OnTree, IsExpect, Maker, Tasks
<1> QED BY <1>3, <1>4

LEMMA ExpectTasks ==
  \A t \in Token, set \in {"nothing", "stmt", "decl"} : Expects(ExpectOr(t, set)) /\ Expects(Expect(t))
<1>1. ASSUME NEW t \in Token, NEW set \in {"nothing", "stmt", "decl"} PROVE Expects(ExpectOr(t, set))
  <2>1. ExpectOr(t, set) \in {"expect"} \X Token \X {"nothing", "stmt", "decl"}
        /\ ExpectOr(t, set)[1] = "expect"
    BY DEF ExpectOr
  <2> QED BY <2>1 DEF Expects, HasBase, OnTree, IsExpect, Maker, Tasks
<1> QED BY <1>1 DEF Expect

LEMMA BaseTasks ==
  \A at \in Positions, b \in Nat :
    /\ \A node \in NodeKinds : Remembers(Build(node, at, b), b) /\ Maker(Build(node, at, b))
    /\ Remembers(CastOrGroup(at, b), b) /\ Maker(CastOrGroup(at, b))
    /\ Remembers(AnonField(at, b), b) /\ Remembers(Then(at, b), b) /\ Remembers(Body(at, b), b)
    /\ Remembers(FuncReturns(at, b), b) /\ Remembers(FuncBody(at, b), b)
<1> SUFFICES ASSUME NEW at \in Positions, NEW b \in Nat
             PROVE  /\ \A node \in NodeKinds : Remembers(Build(node, at, b), b) /\ Maker(Build(node, at, b))
                    /\ Remembers(CastOrGroup(at, b), b) /\ Maker(CastOrGroup(at, b))
                    /\ Remembers(AnonField(at, b), b) /\ Remembers(Then(at, b), b)
                    /\ Remembers(Body(at, b), b)
                    /\ Remembers(FuncReturns(at, b), b) /\ Remembers(FuncBody(at, b), b)
  OBVIOUS
<1> DEFINE Names == {"cast", "anon field", "then", "body", "func returns", "func body"}
<1>1. ASSUME NEW node \in NodeKinds PROVE Remembers(Build(node, at, b), b) /\ Maker(Build(node, at, b))
  <2>1. /\ Build(node, at, b) \in {"build"} \X NodeKinds \X Positions \X Nat
        /\ Build(node, at, b)[1] = "build" /\ Build(node, at, b)[4] = b
    BY DEF Build
  <2> QED BY <2>1 DEF Remembers, HasBase, BaseOf, OnTree, IsExpect, Maker, Tasks
<1>2. ASSUME NEW n \in Names PROVE Remembers(<<n, at, b>>, b) /\ (n = "cast" => Maker(<<n, at, b>>))
  <2> DEFINE t == <<n, at, b>>
  <2>1. t \in Names \X Positions \X Nat /\ t[1] = n /\ t[3] = b
    OBVIOUS
  <2> HIDE DEF t
  <2>2. t \in Tasks
    BY <2>1 DEF Tasks
  <2>3. Remembers(t, b) /\ (n = "cast" => Maker(t))
    BY <2>1, <2>2 DEF Remembers, HasBase, BaseOf, OnTree, IsExpect, Maker
  <2> QED BY <2>3 DEF t
<1> QED BY <1>1, <1>2 DEF CastOrGroup, AnonField, Then, Body, FuncReturns, FuncBody

-----------------------------------------------------------------------------
(* Trees.                                                                  *)

Tree(tree) == tree \in Seq(NodeSet) /\ Sound(tree)

(* A leaf crosses no boundary. *)
LEMMA LeafTree ==
  ASSUME NEW tree, Tree(tree), NEW node \in NodeKinds, NEW at \in Positions, NEW more,
         more = Append(tree, Node(node, at, Len(tree) + 1))
  PROVE  /\ Tree(more) /\ Len(tree) \in Nat /\ Len(more) = Len(tree) + 1 /\ more # <<>>
         /\ Boundary(tree, Len(tree)) /\ Boundary(more, Len(tree))
         /\ \A b : Boundary(tree, b) => Boundary(more, b) /\ b <= Len(tree) /\ b < Len(more)
<1> DEFINE n == Len(tree)
           new == Node(node, at, n + 1)
<1>1. n \in Nat /\ DOMAIN tree = 1 .. n /\ tree \in Seq(NodeSet)
  BY DEF Tree
<1>2. new \in NodeSet /\ new.from = n + 1
  BY <1>1 DEF Node, NodeSet
<1> HIDE DEF new
<1>3. /\ more \in Seq(NodeSet) /\ Len(more) = n + 1 /\ DOMAIN more = 1 .. n + 1
      /\ more[n + 1] = new /\ \A i \in 1 .. n : more[i] = tree[i]
  BY <1>1, <1>2 DEF new
<1> HIDE DEF n
<1>4. \A k \in 1 .. n : tree[k].from \in 1 .. k
  BY <1>1 DEF Tree, Sound
<1>5. \A k, l \in 1 .. n : k < l => tree[l].from > k \/ tree[l].from <= tree[k].from
  BY <1>1, Zenon DEF Tree, Sound
<1>6. Sound(more)
  BY <1>1, <1>2, <1>3, <1>4, <1>5 DEF Sound
<1>7. Boundary(tree, n) /\ Boundary(more, n)
  BY <1>1, <1>2, <1>3 DEF Boundary, n
<1>8. ASSUME NEW b, Boundary(tree, b) PROVE Boundary(more, b) /\ b <= n /\ b < n + 1
  <2>1. b \in 0 .. n /\ \A l \in 1 .. n : l > b => tree[l].from > b
    BY <1>1, <1>8 DEF Boundary, n
  <2> QED BY <1>1, <1>2, <1>3, <2>1 DEF Boundary
<1>9. more # <<>>
  BY <1>1, <1>3
<1> QED BY <1>1, <1>3, <1>6, <1>7, <1>8, <1>9 DEF Tree, n

(* A node around what follows a boundary. *)
LEMMA AroundTree ==
  ASSUME NEW tree, Tree(tree), NEW base, Boundary(tree, base),
         NEW node \in NodeKinds, NEW at \in Positions, NEW more,
         more = Append(tree, Node(node, at, base + 1))
  PROVE  /\ Tree(more) /\ Len(tree) \in Nat /\ Len(more) = Len(tree) + 1 /\ more # <<>>
         /\ \A b : Boundary(tree, b) /\ b <= base => Boundary(more, b) /\ b < Len(more)
<1> DEFINE n == Len(tree)
           new == Node(node, at, base + 1)
<1>1. n \in Nat /\ DOMAIN tree = 1 .. n /\ tree \in Seq(NodeSet)
  BY DEF Tree
<1>2. base \in 0 .. n /\ \A l \in 1 .. n : l > base => tree[l].from > base
  BY <1>1 DEF Boundary
<1>3. new \in NodeSet /\ new.from = base + 1
  BY <1>1, <1>2 DEF Node, NodeSet
<1> HIDE DEF new
<1>4. /\ more \in Seq(NodeSet) /\ Len(more) = n + 1 /\ DOMAIN more = 1 .. n + 1
      /\ more[n + 1] = new /\ \A i \in 1 .. n : more[i] = tree[i]
  BY <1>1, <1>3 DEF new
<1> HIDE DEF n
<1>5. \A k \in 1 .. n : tree[k].from \in 1 .. k
  BY <1>1 DEF Tree, Sound
<1>6. \A k, l \in 1 .. n : k < l => tree[l].from > k \/ tree[l].from <= tree[k].from
  BY <1>1, Zenon DEF Tree, Sound
<1>7. Sound(more)
  BY <1>1, <1>2, <1>3, <1>4, <1>5, <1>6 DEF Sound
<1>8. ASSUME NEW b, Boundary(tree, b), b <= base PROVE Boundary(more, b) /\ b < n + 1
  <2>1. b \in 0 .. n /\ \A l \in 1 .. n : l > b => tree[l].from > b
    BY <1>1, <1>8 DEF Boundary, n
  <2> QED BY <1>1, <1>2, <1>3, <1>4, <1>8, <2>1 DEF Boundary
<1>9. more # <<>>
  BY <1>1, <1>4
<1> QED BY <1>1, <1>4, <1>7, <1>8, <1>9 DEF Tree, n

(* Where the last tree begins is a boundary, and no boundary below the     *)
(* last node is beyond it. *)
LEMMA LastTree ==
  ASSUME NEW tree, Tree(tree), tree # <<>>
  PROVE  /\ Boundary(tree, tree[Len(tree)].from - 1)
         /\ tree[Len(tree)].from - 1 < Len(tree)
         /\ \A b : Boundary(tree, b) /\ b < Len(tree) => b <= tree[Len(tree)].from - 1
<1> DEFINE n == Len(tree)
           f == tree[n].from
<1>1. n \in Nat /\ n > 0 /\ DOMAIN tree = 1 .. n
  BY DEF Tree
<1>2. \A k \in 1 .. n : tree[k].from \in 1 .. k
  BY <1>1 DEF Tree, Sound
<1>3. \A k, l \in 1 .. n : k < l => tree[l].from > k \/ tree[l].from <= tree[k].from
  BY <1>1, Zenon DEF Tree, Sound
<1>4. f \in 1 .. n
  BY <1>1, <1>2
<1>0. f = tree[n].from /\ n = Len(tree)
  OBVIOUS
<1> HIDE DEF n, f
<1>5. ASSUME NEW l \in 1 .. n, l > f - 1 PROVE tree[l].from > f - 1
  <2>1. CASE l = n
    BY <1>0, <1>4, <2>1
  <2>2. CASE l < n
    <3>1. f > l \/ f <= tree[l].from
      BY <1>0, <1>1, <1>3, <2>2
    <3>2. tree[l].from \in 1 .. l
      BY <1>2
    <3> QED BY <1>4, <1>5, <3>1, <3>2
  <2> QED BY <1>1, <2>1, <2>2
<1>6. Boundary(tree, f - 1)
  BY <1>0, <1>1, <1>4, <1>5 DEF Boundary
<1>7. ASSUME NEW b, Boundary(tree, b), b < n PROVE b <= f - 1
  <2>1. b \in 0 .. n /\ \A l \in 1 .. n : l > b => tree[l].from > b
    BY <1>0, <1>1, <1>7 DEF Boundary
  <2>2. f > b
    BY <1>0, <1>1, <1>7, <2>1
  <2> QED BY <1>4, <2>1, <2>2
<1> QED BY <1>0, <1>1, <1>4, <1>6, <1>7

(* What follows a boundary can be cut off. *)
LEMMA CutTree ==
  ASSUME NEW tree, Tree(tree), NEW base, Boundary(tree, base), NEW less,
         less = SubSeq(tree, 1, base)
  PROVE  /\ Tree(less) /\ Len(less) = base /\ base \in Nat
         /\ \A b : Boundary(tree, b) /\ b <= base => Boundary(less, b)
<1> DEFINE n == Len(tree)
<1>1. n \in Nat /\ DOMAIN tree = 1 .. n /\ tree \in Seq(NodeSet)
  BY DEF Tree
<1>2. base \in 0 .. n
  BY <1>1 DEF Boundary
<1>3. /\ less \in Seq(NodeSet) /\ Len(less) = base /\ DOMAIN less = 1 .. base
      /\ \A i \in 1 .. base : less[i] = tree[i]
  BY <1>1, <1>2
<1> HIDE DEF n
<1>4. \A k \in 1 .. n : tree[k].from \in 1 .. k
  BY <1>1 DEF Tree, Sound
<1>5. \A k, l \in 1 .. n : k < l => tree[l].from > k \/ tree[l].from <= tree[k].from
  BY <1>1, Zenon DEF Tree, Sound
<1>6. Sound(less)
  BY <1>1, <1>2, <1>3, <1>4, <1>5 DEF Sound
<1>7. ASSUME NEW b, Boundary(tree, b), b <= base PROVE Boundary(less, b)
  <2>1. b \in 0 .. n /\ \A l \in 1 .. n : l > b => tree[l].from > b
    BY <1>1, <1>7 DEF Boundary, n
  <2> QED BY <1>1, <1>2, <1>3, <1>7, <2>1 DEF Boundary
<1> QED BY <1>2, <1>3, <1>6, <1>7 DEF Tree

Replaces(more, tree, base) ==
  /\ Tree(more) /\ more # <<>> /\ Boundary(more, base)
  /\ \A b : Boundary(tree, b) /\ b <= base => Boundary(more, b) /\ b < Len(more)

(* A leaf in the place of what follows a boundary. *)
LEMMA ReplacedTree ==
  ASSUME NEW tree, Tree(tree), NEW base, Boundary(tree, base),
         NEW node \in NodeKinds, NEW at \in Positions, NEW more,
         more = Append(SubSeq(tree, 1, base), Node(node, at, base + 1))
  PROVE  Replaces(more, tree, base)
<1> DEFINE less == SubSeq(tree, 1, base)
<1>1. /\ Tree(less) /\ Len(less) = base
      /\ \A b : Boundary(tree, b) /\ b <= base => Boundary(less, b)
  BY CutTree
<1>2. more = Append(less, Node(node, at, Len(less) + 1))
  BY <1>1
<1> HIDE DEF less
<1>3. \A t : Tree(t) /\ more = Append(t, Node(node, at, Len(t) + 1)) =>
        /\ Tree(more) /\ more # <<>> /\ Boundary(more, Len(t))
        /\ \A b : Boundary(t, b) => Boundary(more, b) /\ b < Len(more)
  <2> TAKE t
  <2> HAVE Tree(t) /\ more = Append(t, Node(node, at, Len(t) + 1))
  <2>1. Tree(more)
    BY LeafTree
  <2>2. more # <<>> /\ Boundary(more, Len(t))
    BY LeafTree
  <2>3. \A b : Boundary(t, b) => Boundary(more, b) /\ b < Len(more)
    BY LeafTree
  <2> QED BY <2>1, <2>2, <2>3
<1> QED BY <1>1, <1>2, <1>3, Zenon DEF Replaces

-----------------------------------------------------------------------------
(* What a step does.                                                       *)

Others == 2 .. Len(todo)

(* The work that a step leaves: what goes on with a tree has it from the   *)
(* work itself, or goes on with one just made.                             *)
Fits(w, b) ==
  /\ w \in Seq(Tasks)
  /\ \A i \in DOMAIN w : HasBase(w[i]) => BaseOf(w[i]) = b
  /\ \A i \in DOMAIN w : OnTree(w[i]) => Fed(w, i)

GoesOnWith(w) == \E t \in Tasks : GoesOnWithTree(t) /\ w = <<t>>

(* It makes a tree in the end.                                             *)
Gives(w) == \E j \in DOMAIN w : Maker(w[j]) /\ \A k \in j + 1 .. Len(w) : IsExpect(w[k])

(* The last tree is above the bases of the calls around.                   *)
Own(tree) ==
  /\ tree # <<>>
  /\ \A i \in Others : HasBase(todo[i]) => BaseOf(todo[i]) < Len(tree)

(* The calls around can go on with the tree, and remember no more than b.  *)
Kept(tree, b) ==
  /\ Boundary(tree, b)
  /\ \A i \in Others : HasBase(todo[i]) => Boundary(tree, BaseOf(todo[i])) /\ BaseOf(todo[i]) <= b

(* What a step leaves comes before the rest. *)
LEMMA WorkFacts ==
  ASSUME todo \in Seq(Tasks), todo # <<>>, NEW w \in Seq(Tasks), NEW r, r = w \o Tail(todo)
  PROVE  /\ r \in Seq(Tasks)
         /\ Len(todo) \in Nat /\ Len(todo) > 0 /\ Len(w) \in Nat /\ Head(todo) = todo[1]
         /\ DOMAIN todo = 1 .. Len(todo) /\ DOMAIN w = 1 .. Len(w) /\ DOMAIN r = 1 .. Len(r)
         /\ Len(r) = Len(w) + Len(todo) - 1
         /\ \A i \in 1 .. Len(w) : r[i] = w[i]
         /\ \A i \in 2 .. Len(todo) : /\ Len(w) + i - 1 \in DOMAIN r
                                      /\ r[Len(w) + i - 1] = todo[i]
         /\ \A i \in DOMAIN r :
              \/ i \in 1 .. Len(w)
              \/ i - Len(w) + 1 \in 2 .. Len(todo) /\ r[i] = todo[i - Len(w) + 1]
<1> DEFINE t == Tail(todo)
<1>1. /\ Len(todo) \in Nat /\ Len(todo) > 0 /\ DOMAIN todo = 1 .. Len(todo)
      /\ Head(todo) = todo[1]
      /\ t \in Seq(Tasks) /\ Len(t) = Len(todo) - 1
      /\ \A i \in 1 .. Len(t) : t[i] = todo[i + 1]
      /\ Len(w) \in Nat /\ DOMAIN w = 1 .. Len(w)
  OBVIOUS
<1> HIDE DEF t
<1>2. r = w \o t
  BY DEF t
<1>3. /\ r \in Seq(Tasks)
      /\ Len(r) = Len(w) + Len(t)
      /\ \A i \in 1 .. Len(w) + Len(t) : r[i] = IF i <= Len(w) THEN w[i] ELSE t[i - Len(w)]
  <2>1. w \in Seq(Tasks) /\ t \in Seq(Tasks)
    BY <1>1
  <2> QED BY <1>2, <2>1, ConcatProperties, Zenon
<1>4. DOMAIN r = 1 .. Len(r)
  BY <1>3
<1>5. \A i \in 1 .. Len(w) : r[i] = w[i]
  BY <1>1, <1>3
<1>6. ASSUME NEW i \in 2 .. Len(todo)
      PROVE  Len(w) + i - 1 \in DOMAIN r /\ r[Len(w) + i - 1] = todo[i]
  <2> DEFINE k == Len(w) + i - 1
  <2>1. /\ k \in 1 .. Len(w) + Len(t) /\ ~(k <= Len(w))
        /\ k - Len(w) \in 1 .. Len(t) /\ (k - Len(w)) + 1 = i
    BY <1>1
  <2> HIDE DEF k
  <2>2. k \in DOMAIN r /\ r[k] = todo[i]
    BY <1>1, <1>3, <1>4, <2>1
  <2> QED BY <2>2 DEF k
<1>7. ASSUME NEW i \in DOMAIN r, i \notin 1 .. Len(w)
      PROVE  i - Len(w) + 1 \in 2 .. Len(todo) /\ r[i] = todo[i - Len(w) + 1]
  <2>1. /\ i \in 1 .. Len(w) + Len(t) /\ ~(i <= Len(w))
        /\ i - Len(w) \in 1 .. Len(t) /\ i - Len(w) + 1 \in 2 .. Len(todo)
    BY <1>1, <1>3, <1>4, <1>7
  <2> QED BY <1>1, <1>3, <2>1
<1> QED BY <1>1, <1>3, <1>4, <1>5, <1>6, <1>7

(* The bases after a step. *)
LEMMA BasesAfter ==
  ASSUME todo \in Seq(Tasks), todo # <<>>, NEW tree, BasesHold(nodes, todo),
         NEW w \in Seq(Tasks), NEW b, \A i \in DOMAIN w : HasBase(w[i]) => BaseOf(w[i]) = b,
         Kept(tree, b), b \in Nat, NEW r, r = w \o Tail(todo)
  PROVE  BasesHold(tree, r)
<1> DEFINE n == Len(w)
<1>1. /\ Len(todo) \in Nat /\ n \in Nat /\ DOMAIN r = 1 .. Len(r) /\ DOMAIN w = 1 .. n
      /\ DOMAIN todo = 1 .. Len(todo)
      /\ \A i \in 1 .. n : r[i] = w[i]
      /\ \A i \in DOMAIN r : i \in 1 .. n \/ (i - n + 1 \in Others /\ r[i] = todo[i - n + 1])
  BY WorkFacts DEF Others
<1> HIDE DEF n
<1>2. \A i \in 1 .. n : HasBase(r[i]) => BaseOf(r[i]) = b
  BY <1>1
<1>3. \A i \in Others : HasBase(todo[i]) => Boundary(tree, BaseOf(todo[i])) /\ BaseOf(todo[i]) <= b
  BY DEF Kept
<1>4. \A i, j \in DOMAIN todo : i < j /\ HasBase(todo[i]) /\ HasBase(todo[j]) => BaseOf(todo[j]) <= BaseOf(todo[i])
  BY Zenon DEF BasesHold
<1>5. ASSUME NEW i \in DOMAIN r, HasBase(r[i]),
             NEW j \in DOMAIN r, HasBase(r[j]), i < j
      PROVE  BaseOf(r[j]) <= BaseOf(r[i])
  <2>1. CASE i \in 1 .. n /\ j \in 1 .. n
    <3>1. BaseOf(r[i]) = b /\ BaseOf(r[j]) = b
      BY <1>2, <1>5, <2>1, Zenon
    <3> QED BY <3>1
  <2>2. CASE i \in 1 .. n /\ j \notin 1 .. n
    BY <1>1, <1>2, <1>3, <1>5, <2>2
  <2>3. CASE i \notin 1 .. n
    <3>1. i \in Int /\ j \in Int /\ j \notin 1 .. n
      BY <1>1, <1>5, <2>3
    <3>2. /\ i - n + 1 \in DOMAIN todo /\ r[i] = todo[i - n + 1]
          /\ j - n + 1 \in DOMAIN todo /\ r[j] = todo[j - n + 1]
      BY <1>1, <2>3, <3>1 DEF Others
    <3>3. i - n + 1 < j - n + 1
      BY <1>1, <1>5, <3>1
    <3> QED BY <1>4, <1>5, <3>2, <3>3
  <2> QED BY <2>1, <2>2, <2>3
<1>6. ASSUME NEW i \in DOMAIN r, HasBase(r[i]) PROVE Boundary(tree, BaseOf(r[i]))
  <2>1. CASE i \in 1 .. n
    BY <1>2, <1>6, <2>1 DEF Kept
  <2>2. CASE i \notin 1 .. n
    BY <1>1, <1>3, <1>6, <2>2
  <2> QED BY <2>1, <2>2
<1> QED BY <1>5, <1>6 DEF BasesHold

(* What is awaited after a step. *)
LEMMA AwaitedAfter ==
  ASSUME todo \in Seq(Tasks), todo # <<>>, NEW tree, TreesAwaited(nodes, todo),
         NEW w \in Seq(Tasks), NEW b, Fits(w, b) \/ (GoesOnWith(w) /\ Own(tree)),
         Maker(todo[1]) => Gives(w) \/ (w = <<>> /\ Own(tree)),
         IsExpect(todo[1]) => w = <<>> /\ tree = nodes,
         NEW r, r = w \o Tail(todo)
  PROVE  TreesAwaited(tree, r)
<1> DEFINE n == Len(w)
<1>1. /\ Len(todo) \in Nat /\ Len(todo) > 0 /\ n \in Nat /\ DOMAIN r = 1 .. Len(r) /\ DOMAIN w = 1 .. n
      /\ DOMAIN todo = 1 .. Len(todo)
      /\ \A i \in 1 .. n : r[i] = w[i]
      /\ \A i \in 2 .. Len(todo) : n + i - 1 \in DOMAIN r /\ r[n + i - 1] = todo[i]
      /\ \A i \in DOMAIN r : i \in 1 .. n \/ (i - n + 1 \in Others /\ r[i] = todo[i - n + 1])
  BY WorkFacts DEF Others
<1> HIDE DEF n
<1> SUFFICES ASSUME NEW i \in DOMAIN r, OnTree(r[i])
             PROVE  Fed(r, i) \/ (Waits(r, i) /\ LastIsOwn(tree, r))
  BY DEF TreesAwaited
<1>2. CASE i \in 1 .. n /\ Fits(w, b)
  <2>1. Fed(w, i)
    BY <1>1, <1>2 DEF Fits
  <2>2. PICK j \in 1 .. i - 1 : Maker(w[j]) /\ \A k \in j + 1 .. i - 1 : IsExpect(w[k])
    BY <2>1 DEF Fed
  <2>3. Maker(r[j]) /\ \A k \in j + 1 .. i - 1 : IsExpect(r[k])
    BY <1>1, <1>2, <2>2
  <2> QED BY <2>2, <2>3 DEF Fed
<1>3. CASE i \in 1 .. n /\ GoesOnWith(w) /\ Own(tree)
  <2>1. PICK t \in Tasks : GoesOnWithTree(t) /\ w = <<t>>
    BY <1>3 DEF GoesOnWith
  <2>2. n = 1 /\ w[1] = t
    BY <2>1 DEF n
  <2>3. i = 1 /\ ~HasBase(r[1])
    BY <1>1, <1>3, <2>1, <2>2 DEF GoesOnWithTree
  <2>4. \A j \in DOMAIN r : HasBase(r[j]) => BaseOf(r[j]) < Len(tree)
    BY <1>1, <1>3, <2>2, <2>3 DEF Own
  <2> QED BY <1>3, <2>3, <2>4 DEF Waits, LastIsOwn, Own
<1>4. CASE i \notin 1 .. n
  <2> DEFINE h == i - n + 1
  <2>1. h \in 2 .. Len(todo) /\ r[i] = todo[h] /\ i = h + n - 1
    <3>1. h \in 2 .. Len(todo) /\ r[i] = todo[h]
      BY <1>1, <1>4, Zenon DEF Others
    <3>2. i \in Nat
      BY <1>1
    <3>3. i = (i - n + 1) + n - 1
      BY <1>1, <3>2
    <3> QED BY <3>1, <3>3
  <2>2. \A k \in 2 .. Len(todo) : k + n - 1 \in DOMAIN r /\ r[k + n - 1] = todo[k]
    BY <1>1
  <2> HIDE DEF h
  <2>3. Fed(todo, h) \/ (Waits(todo, h) /\ LastIsOwn(nodes, todo))
    BY <1>1, <2>1 DEF TreesAwaited
  <2>4. CASE Fed(todo, h)
    <3>1. PICK j \in 1 .. h - 1 : Maker(todo[j]) /\ \A k \in j + 1 .. h - 1 : IsExpect(todo[k])
      BY <2>4 DEF Fed
    <3>2. \A k \in n + 1 .. i - 1 : k - n + 1 \in 2 .. h - 1 /\ r[k] = todo[k - n + 1]
      BY <1>1, <2>1
    <3>3. CASE j # 1
      <4>1. j + n - 1 \in 1 .. i - 1 /\ Maker(r[j + n - 1])
        BY <1>1, <2>1, <2>2, <3>1, <3>3
      <4>2. \A k \in j + n .. i - 1 : k \in n + 1 .. i - 1 /\ k - n + 1 \in j + 1 .. h - 1
        BY <1>1, <2>1, <3>1, <3>3
      <4>3. \A k \in (j + n - 1) + 1 .. i - 1 : IsExpect(r[k])
        <5>1. (j + n - 1) + 1 = j + n
          BY <1>1, <2>1, <3>1
        <5>2. \A k \in j + n .. i - 1 : IsExpect(r[k])
          BY <3>1, <3>2, <4>2
        <5> QED BY <5>1, <5>2
      <4> QED BY <4>1, <4>3 DEF Fed
    <3>4. CASE j = 1 /\ Gives(w)
      <4>1. PICK m \in 1 .. n : Maker(w[m]) /\ \A k \in m + 1 .. n : IsExpect(w[k])
        BY <1>1, <3>4 DEF Gives, n
      <4>2. m \in 1 .. i - 1 /\ Maker(r[m])
        BY <1>1, <2>1, <4>1
      <4>3. \A k \in m + 1 .. i - 1 : IsExpect(r[k])
        <5> SUFFICES ASSUME NEW k \in m + 1 .. i - 1 PROVE IsExpect(r[k])
          OBVIOUS
        <5>1. CASE k <= n
          BY <1>1, <4>1, <5>1
        <5>2. CASE k > n
          BY <1>1, <2>1, <3>1, <3>2, <3>4, <5>2
        <5> QED BY <1>1, <2>1, <4>1, <5>1, <5>2
      <4> QED BY <4>2, <4>3 DEF Fed
    <3>5. CASE j = 1 /\ w = <<>> /\ Own(tree)
      <4>1. n = 0
        BY <3>5 DEF n
      <4>2. \A k \in 1 .. i - 1 : IsExpect(r[k])
        BY <1>1, <2>1, <3>1, <3>2, <3>5, <4>1
      <4>3. \A k \in DOMAIN r : HasBase(r[k]) => BaseOf(r[k]) < Len(tree)
        BY <1>1, <3>5, <4>1 DEF Own
      <4> QED BY <3>5, <4>2, <4>3 DEF Waits, LastIsOwn, Own
    <3> QED BY <3>1, <3>3, <3>4, <3>5
  <2>5. CASE Waits(todo, h) /\ LastIsOwn(nodes, todo)
    <3>1. IsExpect(todo[1])
      BY <2>1, <2>5 DEF Waits
    <3>2. w = <<>> /\ tree = nodes
      BY <3>1
    <3>3. n = 0
      BY <3>2 DEF n
    <3>4. \A k \in 1 .. i - 1 : k + 1 \in 1 .. h - 1 /\ r[k] = todo[k + 1]
      BY <1>1, <2>1, <3>3
    <3>5. Waits(r, i)
      BY <2>5, <3>4 DEF Waits
    <3>6. \A k \in DOMAIN r : HasBase(r[k]) => BaseOf(r[k]) < Len(tree)
      BY <1>1, <2>5, <3>2, <3>3 DEF LastIsOwn, Others
    <3> QED BY <2>5, <3>2, <3>5, <3>6 DEF LastIsOwn
  <2> QED BY <2>3, <2>4, <2>5
<1> QED BY <1>2, <1>3, <1>4

(* A step keeps the invariant. *)
LEMMA StepKeeps ==
  ASSUME IInv, todo # <<>>,
         NEW c \in Positions, NEW error \in BOOLEAN, NEW tree, NEW w, Step(c, error, tree, w),
         Tree(tree), NEW b \in Nat, Kept(tree, b),
         Fits(w, b) \/ (GoesOnWith(w) /\ Own(tree)),
         Maker(todo[1]) => Gives(w) \/ (w = <<>> /\ Own(tree)),
         IsExpect(todo[1]) => w = <<>> /\ tree = nodes
  PROVE  IInv'
<1>1. w \in Seq(Tasks) /\ \A i \in DOMAIN w : HasBase(w[i]) => BaseOf(w[i]) = b
  <2>1. CASE Fits(w, b)
    BY <2>1 DEF Fits
  <2>2. CASE GoesOnWith(w)
    <3>1. PICK t \in Tasks : GoesOnWithTree(t) /\ w = <<t>>
      BY <2>2 DEF GoesOnWith
    <3>2. w \in Seq(Tasks) /\ \A i \in DOMAIN w : w[i] = t
      BY <3>1
    <3> QED BY <3>1, <3>2 DEF GoesOnWithTree
  <2> QED BY <2>1, <2>2
<1>2. /\ current' = c /\ reported' = (reported \/ error) /\ nodes' = tree
      /\ todo' = w \o Tail(todo) /\ tokens' = tokens /\ crashed' = crashed
  BY DEF Step
<1>3. todo \in Seq(Tasks) /\ tokens \in Programs /\ reported \in BOOLEAN /\ crashed \in BOOLEAN
  BY Zenon DEF IInv, TypeInv
<1>4. BasesHold(nodes, todo) /\ TreesAwaited(nodes, todo)
  BY Zenon DEF IInv
<1>5. todo' \in Seq(Tasks)
  BY <1>1, <1>2, <1>3, WorkFacts
<1>6. BasesHold(tree, todo')
  BY <1>1, <1>2, <1>3, <1>4, BasesAfter
<1>7. TreesAwaited(tree, todo')
  BY <1>1, <1>2, <1>3, <1>4, AwaitedAfter
<1>8. Tasks' = Tasks /\ Positions' = Positions /\ NodeSet' = NodeSet
  BY <1>2 DEF Tasks, Positions, NodeSet
<1>9. TypeInv'
  BY <1>2, <1>3, <1>5, <1>8 DEF TypeInv, Tree
<1>10. Sound(nodes)'
  BY <1>2 DEF Tree
<1>11. BasesHold(nodes, todo)'
  BY <1>2, <1>6
<1>12. TreesAwaited(nodes, todo)'
  BY <1>2, <1>7
<1> QED BY <1>9, <1>10, <1>11, <1>12 DEF IInv

-----------------------------------------------------------------------------
(* The work that calls leave.                                              *)

PlainWork(b) == {t \in Tasks : ~OnTree(t) /\ (HasBase(t) => BaseOf(t) = b)}

LEMMA PlainFits == ASSUME NEW b, NEW w \in Seq(PlainWork(b)) PROVE Fits(w, b)
<1>1. w \in Seq(Tasks) /\ \A i \in DOMAIN w : w[i] \in PlainWork(b)
  <2>1. PlainWork(b) \subseteq Tasks
    BY DEF PlainWork
  <2> QED BY <2>1
<1> QED BY <1>1, Zenon DEF Fits, PlainWork

LEMMA GivesLast ==
  ASSUME NEW w \in Seq(Tasks), w # <<>>, Maker(w[Len(w)])
  PROVE  Gives(w)
<1>1. Len(w) \in DOMAIN w /\ Len(w) + 1 .. Len(w) = {}
  OBVIOUS
<1> QED BY <1>1 DEF Gives

(* Work that makes a tree, and a call that goes on with it. *)
LEMMA TreeFits ==
  ASSUME NEW b, NEW v \in Seq(PlainWork(b)), Gives(v), NEW t, GoesOnWithTree(t), NEW w, w = Append(v, t)
  PROVE  Fits(w, b) /\ Gives(w)
<1>1. Fits(v, b) /\ v \in Seq(Tasks) /\ t \in Tasks
  BY PlainFits DEF Fits, GoesOnWithTree
<1>2. /\ w \in Seq(Tasks) /\ Len(v) \in Nat /\ Len(w) = Len(v) + 1 /\ DOMAIN w = 1 .. Len(v) + 1
      /\ DOMAIN v = 1 .. Len(v)
      /\ w[Len(v) + 1] = t /\ \A i \in 1 .. Len(v) : w[i] = v[i]
  BY <1>1
<1>3. \A i \in 1 .. Len(v) : (HasBase(v[i]) => BaseOf(v[i]) = b) /\ ~OnTree(v[i])
  <2>1. \A i \in 1 .. Len(v) : v[i] \in PlainWork(b)
    BY <1>2
  <2> QED BY <2>1, Zenon DEF PlainWork
<1>4. PICK j \in 1 .. Len(v) : Maker(v[j]) /\ \A k \in j + 1 .. Len(v) : IsExpect(v[k])
  BY <1>2 DEF Gives
<1>5. Fed(w, Len(v) + 1)
  <2>1. j \in 1 .. (Len(v) + 1) - 1 /\ Maker(w[j])
    BY <1>2, <1>4
  <2>2. \A k \in j + 1 .. (Len(v) + 1) - 1 : IsExpect(w[k])
    BY <1>2, <1>4
  <2> QED BY <2>1, <2>2 DEF Fed
<1>6. \A i \in DOMAIN w : HasBase(w[i]) => BaseOf(w[i]) = b
  BY <1>2, <1>3 DEF GoesOnWithTree
<1>7. \A i \in DOMAIN w : OnTree(w[i]) => Fed(w, i)
  BY <1>2, <1>3, <1>5
<1>8. Gives(w)
  <2>1. w # <<>> /\ w[Len(w)] = t
    BY <1>2
  <2> QED BY <1>2, <2>1, GivesLast DEF GoesOnWithTree
<1> QED BY <1>2, <1>6, <1>7, <1>8 DEF Fits

LEMMA TreeAlone == ASSUME NEW t, GoesOnWithTree(t) PROVE GoesOnWith(<<t>>) /\ Gives(<<t>>)
<1>1. t \in Tasks /\ <<t>> \in Seq(Tasks) /\ <<t>> # <<>> /\ <<t>>[Len(<<t>>)] = t
  BY DEF GoesOnWithTree
<1>2. Gives(<<t>>)
  BY <1>1, GivesLast DEF GoesOnWithTree
<1> QED BY <1>1, <1>2 DEF GoesOnWith

LEMMA TokensUsed ==
  {"(", ")", "]", "}", ";", "="} \subseteq Token
BY DEF Token, Brackets, Operators

(* All tasks but those that go on with a tree are plain work. *)
LEMMA PlainWorks ==
  ASSUME NEW b \in Nat
  PROVE  /\ \A t : Mere(t) \/ Makes1(t) \/ Expects(t) \/ Remembers(t, b) => t \in PlainWork(b)
         /\ Expr(0) \in PlainWork(b) /\ Type \in PlainWork(b)
         /\ \A min \in Int : Expr(min) \in PlainWork(b)
         /\ \A t \in {"(", ")", "]", "}", ";", "="} : Expect(t) \in PlainWork(b)
         /\ \A form \in Forms : \A t \in Token :
              Items(form, t) \in PlainWork(b) /\ Comma(Items(form, t)) \in PlainWork(b)
         /\ \A at \in Positions :
              /\ \A node \in NodeKinds : Build(node, at, b) \in PlainWork(b)
              /\ CastOrGroup(at, b) \in PlainWork(b)
              /\ AnonField(at, b) \in PlainWork(b) /\ Then(at, b) \in PlainWork(b)
              /\ Body(at, b) \in PlainWork(b)
              /\ FuncReturns(at, b) \in PlainWork(b) /\ FuncBody(at, b) \in PlainWork(b)
<1>1. \A t : Mere(t) \/ Makes1(t) \/ Expects(t) \/ Remembers(t, b) => t \in PlainWork(b)
  BY DEF PlainWork, Mere, Makes1, Expects, Remembers
<1>2. Makes1(Type) /\ \A min \in Int : Makes1(Expr(min))
  BY TreeTasks
<1>3. \A t \in Token : Expects(Expect(t))
  BY ExpectTasks
<1>4. \A form \in Forms : \A t \in Token : Mere(Items(form, t)) /\ Mere(Comma(Items(form, t)))
  BY MereTasks, Zenon
<1>5. ASSUME NEW at \in Positions
      PROVE  /\ \A node \in NodeKinds : Build(node, at, b) \in PlainWork(b)
             /\ CastOrGroup(at, b) \in PlainWork(b)
             /\ AnonField(at, b) \in PlainWork(b) /\ Then(at, b) \in PlainWork(b)
             /\ Body(at, b) \in PlainWork(b)
             /\ FuncReturns(at, b) \in PlainWork(b) /\ FuncBody(at, b) \in PlainWork(b)
  BY <1>1, BaseTasks, Zenon
<1>6. \A t \in {"(", ")", "]", "}", ";", "="} : Expect(t) \in PlainWork(b)
  BY <1>1, <1>3, TokensUsed
<1>7. 0 \in Int
  OBVIOUS
<1>8. \A form \in Forms : \A t \in Token :
        Items(form, t) \in PlainWork(b) /\ Comma(Items(form, t)) \in PlainWork(b)
  BY <1>1, <1>4, Zenon
<1>9. \A min \in Int : Expr(min) \in PlainWork(b)
  BY <1>1, <1>2, Zenon
<1> QED BY <1>1, <1>2, <1>5, <1>6, <1>7, <1>8, <1>9, Zenon

-----------------------------------------------------------------------------
(* The kinds of steps.                                                     *)

OtherNames ==
  {"items", "comma", "clause", "anon field", "then", "body", "func returns", "func body"}
  \cup (PlainNames \ {"type", "suffixes"})

(* What is known when a call begins. *)
LEMMA HeadFacts ==
  ASSUME IInv, NEW n, Doing(n)
  PROVE  /\ todo # <<>> /\ Head(todo) = todo[1] /\ todo[1] \in Tasks /\ todo[1][1] = n
         /\ TaskForm(todo[1])
         /\ Tree(nodes) /\ Base \in Nat
         /\ n \in OtherNames => ~Maker(todo[1]) /\ ~IsExpect(todo[1])
         /\ n \in {"expr", "led", "type", "suffixes", "build", "cast"} => ~IsExpect(todo[1])
         /\ tokens \in Programs /\ current \in Positions
<1>1. todo \in Seq(Tasks) /\ tokens \in Programs /\ current \in Positions /\ nodes \in Seq(NodeSet)
      /\ Sound(nodes)
  BY Zenon DEF IInv, TypeInv
<1>2. todo # <<>> /\ Head(todo)[1] = n
  BY Zenon DEF Doing
<1>3. Head(todo) = todo[1] /\ todo[1] \in Tasks
  BY <1>1, <1>2
<1>4. TaskForm(todo[1])
  BY <1>3, TaskForms, Zenon
<1>5. todo[1][1] = n
  BY <1>2, <1>3, Zenon
<1>6. n \in OtherNames => ~Maker(todo[1]) /\ ~IsExpect(todo[1])
  BY <1>5 DEF OtherNames, PlainNames, Maker, IsExpect
<1>7. n \in {"expr", "led", "type", "suffixes", "build", "cast"} => ~IsExpect(todo[1])
  BY <1>5 DEF IsExpect
<1>8. Base \in Nat
  BY <1>1 DEF Base
<1> QED BY <1>1, <1>2, <1>3, <1>4, <1>5, <1>6, <1>7, <1>8, Zenon DEF Tree

(* Nothing has been made since. *)
LEMMA KeptAsIs ==
  ASSUME IInv, todo # <<>>
  PROVE  Kept(nodes, Base) /\ Base \in Nat /\ (HasBase(todo[1]) => Kept(nodes, BaseOf(todo[1])))
<1>1. todo \in Seq(Tasks) /\ nodes \in Seq(NodeSet)
  BY Zenon DEF IInv, TypeInv
<1>2. BasesHold(nodes, todo)
  BY Zenon DEF IInv
<1>3. Len(todo) \in Nat /\ DOMAIN todo = 1 .. Len(todo) /\ 1 \in DOMAIN todo
  BY <1>1
<1>4. \A i \in Others : i \in DOMAIN todo /\ 1 < i
  BY <1>3 DEF Others
<1>5. \A i \in Others : HasBase(todo[i]) => Boundary(nodes, BaseOf(todo[i]))
  BY <1>2, <1>4, Zenon DEF BasesHold
<1>6. Base \in Nat /\ Boundary(nodes, Base)
  BY <1>1 DEF Boundary, Base
<1>7. \A b : Boundary(nodes, b) => b <= Base
  BY <1>1 DEF Boundary, Base
<1>8. HasBase(todo[1]) => Boundary(nodes, BaseOf(todo[1]))
  BY <1>2, <1>3, Zenon DEF BasesHold
<1>9. HasBase(todo[1]) => \A i \in Others : HasBase(todo[i]) => BaseOf(todo[i]) <= BaseOf(todo[1])
  BY <1>2, <1>3, <1>4, Zenon DEF BasesHold
<1> QED BY <1>5, <1>6, <1>7, <1>8, <1>9, Zenon DEF Kept

(* A call that goes on with the last tree: there is one, of its own. *)
LEMMA KeptOnTree ==
  ASSUME IInv, todo # <<>>, OnTree(todo[1])
  PROVE  /\ nodes # <<>> /\ Own(nodes) /\ LastBase \in Nat /\ Boundary(nodes, LastBase)
         /\ Kept(nodes, LastBase)
<1>1. todo \in Seq(Tasks) /\ nodes \in Seq(NodeSet) /\ Tree(nodes)
  BY Zenon DEF IInv, TypeInv, Tree
<1>2. Len(todo) \in Nat /\ DOMAIN todo = 1 .. Len(todo) /\ 1 \in DOMAIN todo
  BY <1>1
<1>3. Fed(todo, 1) \/ LastIsOwn(nodes, todo)
  BY <1>2, Zenon DEF IInv, TreesAwaited
<1>4. ~Fed(todo, 1)
  BY DEF Fed
<1>5. nodes # <<>> /\ \A i \in DOMAIN todo : HasBase(todo[i]) => BaseOf(todo[i]) < Base
  BY <1>3, <1>4, Zenon DEF LastIsOwn, Base
<1>6. \A i \in Others : i \in DOMAIN todo
  BY <1>2 DEF Others
<1>7. Own(nodes)
  BY <1>5, <1>6, Zenon DEF Own, Base
<1>8. Boundary(nodes, LastBase) /\ \A b : Boundary(nodes, b) /\ b < Base => b <= LastBase
  BY <1>1, <1>5, LastTree, Zenon DEF LastBase, Base
<1>9. \A i \in Others : HasBase(todo[i]) => Boundary(nodes, BaseOf(todo[i]))
  BY KeptAsIs, Zenon DEF Kept
<1>10. Kept(nodes, LastBase)
  BY <1>5, <1>6, <1>8, <1>9, Zenon DEF Kept
<1>11. LastBase \in Nat
  BY <1>1, <1>8 DEF Boundary
<1> QED BY <1>5, <1>7, <1>8, <1>10, <1>11

(* Calls that leave the tree as it is. *)
LEMMA OtherGoes ==
  ASSUME IInv, NEW n \in OtherNames, Doing(n), NEW c \in Positions, NEW error \in BOOLEAN,
         NEW w \in Seq(PlainWork(Base)), Step(c, error, nodes, w)
  PROVE  IInv'
<1>1. todo # <<>> /\ ~Maker(todo[1]) /\ ~IsExpect(todo[1]) /\ Tree(nodes)
  BY HeadFacts, Zenon
<1> QED BY <1>1, KeptAsIs, PlainFits, StepKeeps

LEMMA MakerGoes ==
  ASSUME IInv, NEW n \in {"expr", "type"}, Doing(n), NEW c \in Positions,
         NEW error \in BOOLEAN, NEW w, Fits(w, Base), Gives(w), Step(c, error, nodes, w)
  PROVE  IInv'
<1>1. todo # <<>> /\ ~IsExpect(todo[1]) /\ Tree(nodes)
  BY HeadFacts, Zenon
<1> QED BY <1>1, KeptAsIs, StepKeeps

(* Calls that make a leaf. *)
LEMMA LeafKept ==
  ASSUME IInv, todo # <<>>, NEW node \in NodeKinds, NEW at \in Positions
  PROVE  Tree(Leaf(node, at)) /\ Kept(Leaf(node, at), Base) /\ Own(Leaf(node, at)) /\ Base \in Nat
<1> DEFINE more == Leaf(node, at)
<1>1. Tree(nodes)
  BY Zenon DEF IInv, TypeInv, Tree
<1>2. /\ Tree(more) /\ more # <<>> /\ Boundary(more, Base)
      /\ \A b : Boundary(nodes, b) => Boundary(more, b) /\ b <= Base /\ b < Len(more)
  BY <1>1, LeafTree DEF Leaf, Base
<1>3. Kept(nodes, Base) /\ Base \in Nat
  BY KeptAsIs
<1> HIDE DEF more
<1>4. Kept(more, Base) /\ Own(more)
  BY <1>2, <1>3, Zenon DEF Kept, Own
<1> QED BY <1>2, <1>3, <1>4 DEF more

LEMMA OtherLeaf ==
  ASSUME IInv, NEW n \in OtherNames, Doing(n), NEW c \in Positions, NEW error \in BOOLEAN,
         NEW node \in NodeKinds, NEW at \in Positions,
         NEW w \in Seq(PlainWork(Base)), Step(c, error, Leaf(node, at), w)
  PROVE  IInv'
<1>1. todo # <<>> /\ ~Maker(todo[1]) /\ ~IsExpect(todo[1])
  BY HeadFacts, Zenon
<1> QED BY <1>1, LeafKept, PlainFits, StepKeeps

LEMMA MakerLeaf ==
  ASSUME IInv, NEW n \in {"expr", "type"}, Doing(n), NEW c \in Positions,
         NEW error \in BOOLEAN, NEW node \in NodeKinds, NEW at \in Positions,
         NEW w, w = <<>> \/ (GoesOnWith(w) /\ Gives(w)), Step(c, error, Leaf(node, at), w)
  PROVE  IInv'
<1>1. todo # <<>> /\ ~IsExpect(todo[1])
  BY HeadFacts, Zenon
<1>2. /\ Tree(Leaf(node, at)) /\ Kept(Leaf(node, at), Base) /\ Own(Leaf(node, at)) /\ Base \in Nat
  BY <1>1, LeafKept
<1>3. w = <<>> => Fits(w, Base)
  <2>1. <<>> \in Seq(PlainWork(Base))
    OBVIOUS
  <2> QED BY <2>1, PlainFits
<1> QED BY <1>1, <1>2, <1>3, StepKeeps

(* Calls that go on with the last tree. *)
LEMMA OnTreeHead ==
  ASSUME IInv, NEW n \in {"led", "suffixes"}, Doing(n)
  PROVE  /\ todo # <<>> /\ OnTree(todo[1]) /\ ~IsExpect(todo[1]) /\ Tree(nodes)
         /\ nodes # <<>> /\ Own(nodes) /\ LastBase \in Nat /\ Boundary(nodes, LastBase)
         /\ Kept(nodes, LastBase)
<1>1. todo # <<>> /\ ~IsExpect(todo[1]) /\ todo[1][1] = n /\ Tree(nodes)
  BY HeadFacts, Zenon
<1>2. OnTree(todo[1])
  BY <1>1 DEF OnTree
<1> QED BY <1>1, <1>2, KeptOnTree

LEMMA OnTreeGoes ==
  ASSUME IInv, NEW n \in {"led", "suffixes"}, Doing(n), NEW c \in Positions,
         NEW error \in BOOLEAN, NEW w, w = <<>> \/ (Fits(w, LastBase) /\ Gives(w)),
         Step(c, error, nodes, w)
  PROVE  IInv'
<1>1. w = <<>> => Fits(w, LastBase)
  <2>1. <<>> \in Seq(PlainWork(LastBase))
    OBVIOUS
  <2> QED BY <2>1, PlainFits
<1> QED BY <1>1, OnTreeHead, StepKeeps

LEMMA OnTreeAround ==
  ASSUME IInv, NEW n \in {"led", "suffixes"}, Doing(n), NEW c \in Positions,
         NEW error \in BOOLEAN, NEW node \in NodeKinds, NEW at \in Positions,
         NEW w, GoesOnWith(w), Gives(w), Step(c, error, Around(node, at), w)
  PROVE  IInv'
<1> DEFINE more == Around(node, at)
<1>1. /\ Tree(more) /\ more # <<>>
      /\ \A b : Boundary(nodes, b) /\ b <= LastBase => Boundary(more, b) /\ b < Len(more)
  BY OnTreeHead, AroundTree DEF Around
<1> HIDE DEF more
<1>2. LastBase \in Nat /\ LastBase <= LastBase
  BY OnTreeHead
<1>3. Kept(more, LastBase) /\ Own(more)
  BY <1>1, <1>2, OnTreeHead, Zenon DEF Kept, Own
<1> QED BY <1>1, <1>2, <1>3, OnTreeHead, StepKeeps DEF more

LEMMA OnTreeInstead ==
  ASSUME IInv, NEW n \in {"led", "suffixes"}, Doing(n), NEW c \in Positions,
         NEW error \in BOOLEAN, NEW node \in NodeKinds, NEW at \in Positions,
         NEW w, GoesOnWith(w), Gives(w), Step(c, error, Instead(node, at), w)
  PROVE  IInv'
<1> DEFINE more == Instead(node, at)
<1>1. LastBase \in Nat
  BY OnTreeHead
<1>3. /\ Tree(more) /\ more # <<>> /\ Boundary(more, LastBase)
      /\ \A b : Boundary(nodes, b) /\ b <= LastBase => Boundary(more, b) /\ b < Len(more)
  <2>1. Tree(nodes) /\ Boundary(nodes, LastBase)
    BY OnTreeHead
  <2>2. more = Append(SubSeq(nodes, 1, LastBase), Node(node, at, LastBase + 1))
    BY DEF Instead, Below
  <2> HIDE DEF more
  <2>3. Replaces(more, nodes, LastBase)
    BY <2>1, <2>2, ReplacedTree, Zenon
  <2> QED BY <2>3, Zenon DEF Replaces
<1> HIDE DEF more
<1>4. Kept(more, LastBase) /\ Own(more)
  BY <1>1, <1>3, OnTreeHead, Zenon DEF Kept, Own
<1> QED BY <1>1, <1>3, <1>4, OnTreeHead, StepKeeps DEF more

(* Calls that remember a base. *)
LEMMA BaseHead ==
  ASSUME IInv, todo # <<>>, HasBase(todo[1])
  PROVE  /\ BaseOf(todo[1]) \in Nat /\ Boundary(nodes, BaseOf(todo[1])) /\ Kept(nodes, BaseOf(todo[1]))
         /\ ~IsExpect(todo[1]) /\ Tree(nodes)
<1>1. todo \in Seq(Tasks) /\ Tree(nodes)
  BY Zenon DEF IInv, TypeInv, Tree
<1>2. todo[1] \in Tasks
  BY <1>1
<1>3. BaseOf(todo[1]) \in Nat /\ ~IsExpect(todo[1])
  BY <1>2, TaskForms, Zenon DEF TaskForm
<1>4. Kept(nodes, BaseOf(todo[1]))
  BY KeptAsIs
<1> QED BY <1>1, <1>3, <1>4, Zenon DEF Kept

LEMMA BaseGoes ==
  ASSUME IInv, todo # <<>>, HasBase(todo[1]), NEW c \in Positions, NEW error \in BOOLEAN,
         NEW w \in Seq(PlainWork(BaseOf(todo[1]))), Maker(todo[1]) => Gives(w), Step(c, error, nodes, w)
  PROVE  IInv'
BY BaseHead, PlainFits, StepKeeps

LEMMA BaseCut ==
  ASSUME IInv, todo # <<>>, HasBase(todo[1]), NEW c \in Positions, NEW error \in BOOLEAN,
         NEW w \in Seq(PlainWork(BaseOf(todo[1]))), Maker(todo[1]) => Gives(w),
         Step(c, error, Below(BaseOf(todo[1])), w)
  PROVE  IInv'
<1> DEFINE base == BaseOf(todo[1])
           less == Below(base)
<1>0. base \in Nat /\ base <= base /\ Boundary(nodes, base)
  BY BaseHead
<1>1. Tree(less) /\ \A b : Boundary(nodes, b) /\ b <= base => Boundary(less, b)
  BY <1>0, BaseHead, CutTree, Zenon DEF Below
<1> HIDE DEF less
<1>2. Kept(less, base)
  BY <1>0, <1>1, BaseHead, Zenon DEF Kept
<1> QED BY <1>0, <1>1, <1>2, BaseHead, PlainFits, StepKeeps DEF less

LEMMA BaseReplaced ==
  ASSUME IInv, todo # <<>>, HasBase(todo[1]), ~Maker(todo[1]), NEW c \in Positions, NEW error \in BOOLEAN,
         NEW node \in NodeKinds, NEW at \in Positions,
         Step(c, error, Replaced(BaseOf(todo[1]), node, at), <<>>)
  PROVE  IInv'
<1> DEFINE base == BaseOf(todo[1])
           more == Replaced(base, node, at)
<1>1. base \in Nat
  BY BaseHead
<1>3. /\ Tree(more) /\ Boundary(more, base)
      /\ \A b : Boundary(nodes, b) /\ b <= base => Boundary(more, b)
  <2>1. Tree(nodes) /\ Boundary(nodes, base)
    BY BaseHead
  <2>2. more = Append(SubSeq(nodes, 1, base), Node(node, at, base + 1))
    BY DEF Replaced, Below
  <2> HIDE DEF base, more
  <2>3. Replaces(more, nodes, base)
    BY <2>1, <2>2, ReplacedTree, Zenon
  <2> QED BY <2>3, Zenon DEF Replaces
<1> HIDE DEF more
<1>4. Kept(more, base)
  BY <1>1, <1>3, BaseHead, Zenon DEF Kept
<1>5. Fits(<<>>, base)
  <2>1. <<>> \in Seq(PlainWork(base))
    OBVIOUS
  <2> QED BY <2>1, PlainFits
<1> QED BY <1>1, <1>3, <1>4, <1>5, BaseHead, StepKeeps DEF more

LEMMA BaseBuilt ==
  ASSUME IInv, todo # <<>>, HasBase(todo[1]), NEW c \in Positions, NEW error \in BOOLEAN,
         NEW node \in NodeKinds, NEW at \in Positions,
         Step(c, error, Append(nodes, Node(node, at, BaseOf(todo[1]) + 1)), <<>>)
  PROVE  IInv'
<1> DEFINE base == BaseOf(todo[1])
           more == Append(nodes, Node(node, at, base + 1))
<1>1. base \in Nat /\ base <= base /\ Boundary(nodes, base)
  BY BaseHead
<1>2. /\ Tree(more) /\ more # <<>>
      /\ \A b : Boundary(nodes, b) /\ b <= base => Boundary(more, b) /\ b < Len(more)
  BY <1>1, BaseHead, AroundTree
<1> HIDE DEF more
<1>3. Kept(more, base) /\ Own(more)
  BY <1>1, <1>2, BaseHead, Zenon DEF Kept, Own
<1>4. Fits(<<>>, base)
  <2>1. <<>> \in Seq(PlainWork(base))
    OBVIOUS
  <2> QED BY <2>1, PlainFits
<1> QED BY <1>1, <1>2, <1>3, <1>4, BaseHead, StepKeeps DEF more

LEMMA NamedWorks ==
  ASSUME NEW b \in Nat
  PROVE  /\ Anon \in PlainWork(b) /\ Default \in PlainWork(b) /\ Stmt \in PlainWork(b)
         /\ Stmts \in PlainWork(b) /\ Block \in PlainWork(b) /\ Else \in PlainWork(b)
         /\ DoCond \in PlainWork(b) /\ ForInit \in PlainWork(b) /\ Program \in PlainWork(b)
         /\ Declaration \in PlainWork(b) /\ Parents \in PlainWork(b)
         /\ AfterParent \in PlainWork(b) /\ Aliases \in PlainWork(b) /\ Members \in PlainWork(b)
         /\ Self \in PlainWork(b) /\ Params \in PlainWork(b) /\ AfterParam \in PlainWork(b)
         /\ Returns \in PlainWork(b) /\ MethodBody \in PlainWork(b)
         /\ FuncParams \in PlainWork(b) /\ AfterFuncParam \in PlainWork(b)
         /\ Clause(";") \in PlainWork(b) /\ Clause(")") \in PlainWork(b)
         /\ \A t \in {"}", ")", ";"}, set \in {"decl", "stmt"} : ExpectOr(t, set) \in PlainWork(b)
<1>1. \A t : Mere(t) => t \in PlainWork(b)
  BY PlainWorks, Zenon
<1>2. \A t : Expects(t) => t \in PlainWork(b)
  BY PlainWorks, Zenon
<1>3. Mere(Clause(";")) /\ Mere(Clause(")"))
  BY MereTasks, TokensUsed
<1>4. \A t \in {"}", ")", ";"}, set \in {"decl", "stmt"} : Expects(ExpectOr(t, set))
  BY ExpectTasks, TokensUsed
<1> QED BY <1>1, <1>2, <1>3, <1>4, NamedTasks, Zenon

(* Calls that expect a token. *)
LEMMA ExpectGoes ==
  ASSUME IInv, Doing("expect"), NEW c \in Positions, NEW error \in BOOLEAN,
         Step(c, error, nodes, <<>>)
  PROVE  IInv'
<1>1. /\ todo # <<>> /\ Tree(nodes) /\ todo[1][1] = "expect" /\ TaskForm(todo[1])
  BY HeadFacts, Zenon
<1>2. IsExpect(todo[1])
  BY <1>1 DEF IsExpect
<1>3. ~Maker(todo[1])
  BY <1>1, <1>2, Zenon DEF TaskForm
<1>4. Fits(<<>>, Base)
  <2>1. <<>> \in Seq(PlainWork(Base))
    OBVIOUS
  <2> QED BY <2>1, PlainFits
<1> QED BY <1>1, <1>3, <1>4, KeptAsIs, StepKeeps

(* A list of work that makes a tree. *)
LEMMA GivesWork ==
  ASSUME NEW b, NEW w \in Seq(PlainWork(b)), w # <<>>, Maker(w[Len(w)])
  PROVE  Gives(w)
<1>1. w \in Seq(Tasks)
  BY PlainFits DEF Fits
<1> QED BY <1>1, GivesLast

LEMMA MakersOf ==
  /\ \A min \in Int : Maker(Expr(min)) /\ Maker(Led(min))
  /\ Maker(Type) /\ Maker(Suffixes)
  /\ \A at \in Positions, b \in Nat, node \in NodeKinds : Maker(Build(node, at, b))
  /\ \A at \in Positions, b \in Nat : Maker(CastOrGroup(at, b))
  /\ \A t \in {"(", ")", "]", "}", ";", "="} : IsExpect(Expect(t))
<1>1. \A t \in {"(", ")", "]", "}", ";", "="} : IsExpect(Expect(t))
  BY ExpectTasks, TokensUsed DEF Expects
<1> QED BY <1>1, TreeTasks, BaseTasks, Zenon DEF Makes1, GoesOnWithTree

(* A tree, and the token that is expected after it. *)
LEMMA GivesBracketed ==
  ASSUME NEW e, Maker(e), NEW t, IsExpect(t)
  PROVE  Gives(<<e, t>>)
<1> DEFINE w == <<e, t>>
<1>1. w[1] = e /\ w[2] = t /\ Len(w) = 2 /\ DOMAIN w = 1 .. 2
  OBVIOUS
<1> HIDE DEF w
<1>2. 1 \in DOMAIN w /\ Maker(w[1]) /\ \A k \in 1 + 1 .. Len(w) : IsExpect(w[k])
  BY <1>1
<1>3. Gives(w)
  BY <1>2, Zenon DEF Gives
<1> QED BY <1>3 DEF w

(* Lists of work of one to nine tasks. *)
LEMMA One ==
  ASSUME NEW b, NEW x1 \in PlainWork(b)
  PROVE  /\ <<x1>> \in Seq(PlainWork(b))
         /\ Maker(x1) => Gives(<<x1>>)
         /\ \A t : <<x1, t>> = Append(<<x1>>, t)
<1> DEFINE w == <<x1>>
<1>1. w \in Seq(PlainWork(b)) /\ w # <<>> /\ w[Len(w)] = x1
  OBVIOUS
<1>2. \A t : <<x1, t>> = Append(w, t)
  OBVIOUS
<1> HIDE DEF w
<1>3. Maker(x1) => Gives(w)
  BY <1>1, GivesWork
<1> QED BY <1>1, <1>2, <1>3 DEF w

LEMMA Two ==
  ASSUME NEW b, NEW x1 \in PlainWork(b), NEW x2 \in PlainWork(b)
  PROVE  /\ <<x1, x2>> \in Seq(PlainWork(b))
         /\ Maker(x2) => Gives(<<x1, x2>>)
         /\ \A t : <<x1, x2, t>> = Append(<<x1, x2>>, t)
<1> DEFINE w == <<x1, x2>>
<1>1. w \in Seq(PlainWork(b)) /\ w # <<>> /\ w[Len(w)] = x2
  OBVIOUS
<1>2. \A t : <<x1, x2, t>> = Append(w, t)
  OBVIOUS
<1> HIDE DEF w
<1>3. Maker(x2) => Gives(w)
  BY <1>1, GivesWork
<1> QED BY <1>1, <1>2, <1>3 DEF w

LEMMA Three ==
  ASSUME NEW b, NEW x1 \in PlainWork(b), NEW x2 \in PlainWork(b), NEW x3 \in PlainWork(b)
  PROVE  /\ <<x1, x2, x3>> \in Seq(PlainWork(b))
         /\ Maker(x3) => Gives(<<x1, x2, x3>>)
         /\ \A t : <<x1, x2, x3, t>> = Append(<<x1, x2, x3>>, t)
<1> DEFINE w == <<x1, x2, x3>>
<1>1. w \in Seq(PlainWork(b)) /\ w # <<>> /\ w[Len(w)] = x3
  OBVIOUS
<1>2. \A t : <<x1, x2, x3, t>> = Append(w, t)
  OBVIOUS
<1> HIDE DEF w
<1>3. Maker(x3) => Gives(w)
  BY <1>1, GivesWork
<1> QED BY <1>1, <1>2, <1>3 DEF w

LEMMA Four ==
  ASSUME NEW b, NEW x1 \in PlainWork(b), NEW x2 \in PlainWork(b), NEW x3 \in PlainWork(b),
         NEW x4 \in PlainWork(b)
  PROVE  <<x1, x2, x3, x4>> \in Seq(PlainWork(b))
OBVIOUS

LEMMA Five ==
  ASSUME NEW b, NEW x1 \in PlainWork(b), NEW x2 \in PlainWork(b), NEW x3 \in PlainWork(b),
         NEW x4 \in PlainWork(b), NEW x5 \in PlainWork(b)
  PROVE  <<x1, x2, x3, x4, x5>> \in Seq(PlainWork(b))
OBVIOUS

LEMMA Six ==
  ASSUME NEW b, NEW x1 \in PlainWork(b), NEW x2 \in PlainWork(b), NEW x3 \in PlainWork(b),
         NEW x4 \in PlainWork(b), NEW x5 \in PlainWork(b), NEW x6 \in PlainWork(b)
  PROVE  <<x1, x2, x3, x4, x5, x6>> \in Seq(PlainWork(b))
OBVIOUS

LEMMA Nine ==
  ASSUME NEW b, NEW x1 \in PlainWork(b), NEW x2 \in PlainWork(b), NEW x3 \in PlainWork(b), NEW x4 \in PlainWork(b),
         NEW x5 \in PlainWork(b), NEW x6 \in PlainWork(b), NEW x7 \in PlainWork(b), NEW x8 \in PlainWork(b), NEW x9 \in PlainWork(b)
  PROVE  <<x1, x2, x3, x4, x5, x6, x7, x8, x9>> \in Seq(PlainWork(b))
OBVIOUS

(* What follows in an expression or a type: its tree, and the call that    *)
(* goes on with it.                                                        *)
Becomes(w, b) == Fits(w, b) /\ Gives(w)

LEMMA TwoThen ==
  ASSUME NEW b, NEW x1 \in PlainWork(b), NEW x2 \in PlainWork(b), Maker(x2),
         NEW t, GoesOnWithTree(t)
  PROVE  Becomes(<<x1, x2, t>>, b)
<1> DEFINE v == <<x1, x2>>
<1>1. v \in Seq(PlainWork(b)) /\ Gives(v) /\ <<x1, x2, t>> = Append(v, t)
  BY Two, Zenon
<1> HIDE DEF v
<1> QED BY <1>1, TreeFits, Zenon DEF Becomes

LEMMA ThreeThen ==
  ASSUME NEW b, NEW x1 \in PlainWork(b), NEW x2 \in PlainWork(b), NEW x3 \in PlainWork(b),
         Maker(x3), NEW t, GoesOnWithTree(t)
  PROVE  Becomes(<<x1, x2, x3, t>>, b)
<1> DEFINE v == <<x1, x2, x3>>
<1>1. v \in Seq(PlainWork(b)) /\ Gives(v) /\ <<x1, x2, x3, t>> = Append(v, t)
  BY Three, Zenon
<1> HIDE DEF v
<1> QED BY <1>1, TreeFits, Zenon DEF Becomes

LEMMA FourThen ==
  ASSUME NEW b, NEW x1 \in PlainWork(b), NEW x2 \in PlainWork(b), NEW x3 \in PlainWork(b),
         NEW x4 \in PlainWork(b), Maker(x4), NEW t, GoesOnWithTree(t)
  PROVE  Becomes(<<x1, x2, x3, x4, t>>, b)
<1> DEFINE v == <<x1, x2, x3, x4>>
<1>1. v \in Seq(PlainWork(b)) /\ v # <<>> /\ v[Len(v)] = x4
  OBVIOUS
<1>2. <<x1, x2, x3, x4, t>> = Append(v, t)
  OBVIOUS
<1> HIDE DEF v
<1>3. Gives(v)
  BY <1>1, GivesWork
<1> QED BY <1>1, <1>2, <1>3, TreeFits, Zenon DEF Becomes

LEMMA BracketedThen ==
  ASSUME NEW b, NEW x1 \in PlainWork(b), NEW x2 \in PlainWork(b), Maker(x1), IsExpect(x2),
         NEW t, GoesOnWithTree(t)
  PROVE  Becomes(<<x1, x2, t>>, b)
<1> DEFINE v == <<x1, x2>>
<1>1. Gives(v)
  BY GivesBracketed
<1>2. v \in Seq(PlainWork(b)) /\ <<x1, x2, t>> = Append(v, t)
  BY Two, Zenon
<1> HIDE DEF v
<1> QED BY <1>1, <1>2, TreeFits, Zenon DEF Becomes

LEMMA MakerThen ==
  ASSUME IInv, NEW n \in {"expr", "type"}, Doing(n), NEW c \in Positions,
         NEW error \in BOOLEAN, NEW w, Becomes(w, Base), Step(c, error, nodes, w)
  PROVE  IInv'
BY MakerGoes DEF Becomes

LEMMA OnTreeThen ==
  ASSUME IInv, NEW n \in {"led", "suffixes"}, Doing(n), NEW c \in Positions,
         NEW error \in BOOLEAN, NEW w, Becomes(w, LastBase), Step(c, error, nodes, w)
  PROVE  IInv'
BY OnTreeGoes DEF Becomes

(* The arguments of the innermost call. *)
LEMMA Args ==
  ASSUME IInv, NEW n, Doing(n)
  PROVE  /\ n \in {"expr", "led"} => Arg(1) \in Int /\ GoesOnWithTree(Led(Arg(1)))
         /\ n = "items" => Arg(1) \in Forms /\ Arg(2) \in Token
         /\ n = "comma" => \A b : Arg(1) \in PlainWork(b)
         /\ n = "expect" => Arg(2) \in {"nothing", "stmt", "decl"}
         /\ n = "build" => /\ Arg(1) \in NodeKinds /\ Arg(2) \in Positions
                           /\ HasBase(todo[1]) /\ Arg(3) = BaseOf(todo[1])
         /\ n \in {"cast", "anon field", "then", "body", "func returns", "func body"} =>
              /\ Arg(1) \in Positions /\ HasBase(todo[1]) /\ Arg(2) = BaseOf(todo[1])
              /\ (n # "cast" => ~Maker(todo[1]))
         /\ todo # <<>> /\ (HasBase(todo[1]) => BaseOf(todo[1]) \in Nat)
<1> DEFINE t == todo[1]
<1>1. /\ todo # <<>> /\ Head(todo) = t /\ t[1] = n /\ TaskForm(t)
  BY HeadFacts, Zenon
<1>2. Arg(1) = t[2] /\ Arg(2) = t[3] /\ Arg(3) = t[4]
  BY <1>1 DEF Arg
<1> HIDE DEF t
<1>3. n \in {"expr", "led"} => Arg(1) \in Int /\ GoesOnWithTree(Led(Arg(1)))
  BY <1>1, <1>2, TreeTasks DEF TaskForm
<1>4. n = "items" => Arg(1) \in Forms /\ Arg(2) \in Token
  BY <1>1, <1>2 DEF TaskForm
<1>5. n = "comma" => \A b : Arg(1) \in PlainWork(b)
  <2> SUFFICES ASSUME n = "comma", NEW b PROVE Arg(1) \in PlainWork(b)
    OBVIOUS
  <2>1. Arg(1) \in ItemTasks
    BY <1>1, <1>2 DEF TaskForm
  <2> DEFINE u == Arg(1)
  <2>2. u \in Tasks /\ u[1] = "items"
    BY <2>1 DEF ItemTasks, Tasks
  <2> HIDE DEF u
  <2>3. u \in PlainWork(b)
    BY <2>2 DEF PlainWork, OnTree, HasBase
  <2> QED BY <2>3 DEF u
<1>6. n = "expect" => Arg(2) \in {"nothing", "stmt", "decl"}
  BY <1>1, <1>2 DEF TaskForm
<1>7. n = "build" => /\ Arg(1) \in NodeKinds /\ Arg(2) \in Positions
                     /\ HasBase(t) /\ Arg(3) = BaseOf(t)
  BY <1>1, <1>2 DEF TaskForm, HasBase, BaseOf
<1>8. ASSUME n \in {"cast", "anon field", "then", "body", "func returns", "func body"}
      PROVE  /\ Arg(1) \in Positions /\ HasBase(t) /\ Arg(2) = BaseOf(t)
             /\ (n # "cast" => ~Maker(t))
  <2>1. Arg(1) \in Positions
    BY <1>1, <1>2, <1>8 DEF TaskForm
  <2>2. HasBase(t) /\ Arg(2) = BaseOf(t) /\ (n # "cast" => ~Maker(t))
    BY <1>1, <1>2, <1>8 DEF HasBase, BaseOf, Maker
  <2> QED BY <2>1, <2>2
<1>9. HasBase(t) => BaseOf(t) \in Nat
  BY <1>1, Zenon DEF TaskForm
<1> QED BY <1>1, <1>3, <1>4, <1>5, <1>6, <1>7, <1>8, <1>9, Zenon DEF t

-----------------------------------------------------------------------------
(* The steps of the parser of expressions and types.                       *)

(* What every step may use: where the parser can go, and what it can leave *)
(* to do.                                                                  *)
Places ==
  /\ tokens \in Programs /\ current \in Positions /\ Base \in Nat
  /\ \A c \in Positions :
       /\ Forward(c) \in Positions /\ SyncStmt(c) \in Positions /\ SyncDecl(c) \in Positions
       /\ AliasEnd(c) \in Positions /\ tokens[c] \in Token

LEMMA PlacesThere == IInv => Places
<1> SUFFICES ASSUME IInv PROVE Places
  OBVIOUS
<1>1. tokens \in Programs /\ current \in Positions /\ Base \in Nat
  <2>1. tokens \in Programs /\ current \in Positions /\ nodes \in Seq(NodeSet)
    BY Zenon DEF IInv, TypeInv
  <2> QED BY <2>1 DEF Base
<1> QED BY <1>1, Moves, TokenFacts, Zenon DEF Places

(* No work is left. *)
LEMMA NoWork == \A b : <<>> \in Seq(PlainWork(b))
OBVIOUS
LEMMA LeafSteps ==
  ASSUME IInv,
         ParseNothing \/ ParseAtom \/ ParseLeadingDot \/ NotAnExpr \/ ParseNamedType \/ NotAType
  PROVE  IInv'
<1>1. Places
  BY PlacesThere
<1>2. \A t : GoesOnWithTree(t) => GoesOnWith(<<t>>) /\ Gives(<<t>>)
  BY TreeAlone
<1>3. GoesOnWith(<<Suffixes>>) /\ Gives(<<Suffixes>>)
  BY <1>2, TreeTasks
<1>4. Doing("expr") => GoesOnWith(<<Led(Arg(1))>>) /\ Gives(<<Led(Arg(1))>>)
  BY <1>2, Args, Zenon
<1>5. "error" \in NodeKinds /\ "literal" \in NodeKinds /\ "ident" \in NodeKinds /\ "type" \in NodeKinds
  BY DEF NodeKinds
<1>6. CASE ParseNothing
  <2>1. Doing("expr") /\ Step(current, FALSE, Leaf("error", current), <<>>)
    BY <1>6 DEF ParseNothing, Makes
  <2> QED BY <1>1, <1>5, <2>1, MakerLeaf DEF Places
<1>7. CASE ParseAtom
  <2>1. PICK node \in {"literal", "ident"} :
          Doing("expr") /\ Step(Forward(current), FALSE, Leaf(node, current), <<Led(Arg(1))>>)
    BY <1>7 DEF ParseAtom, Makes
  <2>2. node \in NodeKinds
    BY <1>5
  <2> QED BY <1>1, <1>4, <2>1, <2>2, MakerLeaf DEF Places
<1>8. CASE ParseLeadingDot
  <2>1. Doing("expr") /\ Step(Forward(Forward(current)), FALSE, Leaf("literal", current), <<Led(Arg(1))>>)
    BY <1>8 DEF ParseLeadingDot, Makes
  <2> QED BY <1>1, <1>4, <1>5, <2>1, MakerLeaf DEF Places
<1>9. CASE NotAnExpr
  <2>1. Doing("expr") /\ Step(Forward(current), TRUE, Leaf("error", Forward(current)), <<Led(Arg(1))>>)
    BY <1>9 DEF NotAnExpr
  <2> QED BY <1>1, <1>4, <1>5, <2>1, MakerLeaf DEF Places
<1>10. CASE ParseNamedType
  <2>1. Doing("type") /\ Step(Forward(current), FALSE, Leaf("type", current), <<Suffixes>>)
    BY <1>10 DEF ParseNamedType, Makes
  <2> QED BY <1>1, <1>3, <1>5, <2>1, MakerLeaf DEF Places
<1>11. CASE NotAType
  <2>1. Doing("type") /\ Step(current, TRUE, Leaf("type", current), <<Suffixes>>)
    BY <1>11 DEF NotAType
  <2> QED BY <1>1, <1>3, <1>5, <2>1, MakerLeaf DEF Places
<1> QED BY <1>6, <1>7, <1>8, <1>9, <1>10, <1>11

(* Calls that open an expression or a type. *)
LEMMA OpenSteps ==
  ASSUME IInv,
         \/ ParseUnary \/ ParseFfi \/ ParseAggregate \/ ParseArray \/ ParseGroupOrCast
         \/ ParseAnonType
  PROVE  IInv'
<1>1. Places
  BY PlacesThere
<1>2. \A c \in Positions : Forward(c) \in Positions /\ SyncStmt(c) \in Positions
  BY <1>1, Zenon DEF Places
<1>3. Doing("expr") => /\ GoesOnWithTree(Led(Arg(1)))
                       /\ GoesOnWith(<<Led(Arg(1))>>) /\ Gives(<<Led(Arg(1))>>)
  BY TreeAlone, Args, Zenon
<1>4. {"error", "unary", "ffi", "init", "anon"} \subseteq NodeKinds
  BY DEF NodeKinds
<1>5. /\ Expr(0) \in PlainWork(Base) /\ Type \in PlainWork(Base) /\ Anon \in PlainWork(Base)
      /\ Expect("(") \in PlainWork(Base) /\ Expect(")") \in PlainWork(Base)
      /\ Expect("]") \in PlainWork(Base) /\ Expect("}") \in PlainWork(Base)
  BY <1>1, PlainWorks, NamedWorks, Zenon DEF Places
<1>6. IsExpect(Expect(")")) /\ Maker(Expr(0))
  <2>1. 0 \in Int
    OBVIOUS
  <2> QED BY <2>1, MakersOf, Zenon
<1>7. \A c \in Positions, node \in NodeKinds :
        Build(node, c, Base) \in PlainWork(Base) /\ Maker(Build(node, c, Base))
  BY <1>1, PlainWorks, MakersOf, Zenon DEF Places
<1>8. \A c \in Positions : CastOrGroup(c, Base) \in PlainWork(Base) /\ Maker(CastOrGroup(c, Base))
  BY <1>1, PlainWorks, MakersOf, Zenon DEF Places
<1>9. \A form \in Forms : /\ Items(form, ")") \in PlainWork(Base) /\ Items(form, "]") \in PlainWork(Base)
                           /\ Items(form, "}") \in PlainWork(Base)
  <2>1. ")" \in Token /\ "]" \in Token /\ "}" \in Token
    BY TokensUsed
  <2> QED BY <1>1, <2>1, PlainWorks, Zenon DEF Places
<1>10. current \in Positions
  BY <1>1, Zenon DEF Places
<1>11. CASE ParseUnary
  <2>1. Becomes(<<Expr(0), Build("unary", current, Base), Led(Arg(1))>>, Base)
    BY <1>3, <1>4, <1>5, <1>7, <1>10, <1>11, TwoThen, Zenon DEF ParseUnary
  <2> QED BY <1>2, <1>10, <1>11, <2>1, MakerThen, Zenon DEF ParseUnary, Goes
<1>12. CASE ParseFfi
  <2> DEFINE c == Forward(current)
  <2>1. c \in Positions /\ Forward(c) \in Positions /\ SyncStmt(c) \in Positions /\ Doing("expr")
    BY <1>2, <1>10, <1>12, Zenon DEF ParseFfi
  <2>2. CASE tokens[c] = "name"
    <3>1. Becomes(<<Expect("("), Items("args", ")"), Expect(")"), Build("ffi", c, Base), Led(Arg(1))>>,
                  Base)
      <4>1. Build("ffi", c, Base) \in PlainWork(Base) /\ Maker(Build("ffi", c, Base))
        BY <1>4, <1>7, <2>1, Zenon
      <4>2. Items("args", ")") \in PlainWork(Base)
        BY <1>9, Zenon DEF Forms
      <4> QED BY <1>3, <1>5, <2>1, <4>1, <4>2, FourThen, Zenon
    <3> QED BY <1>12, <2>1, <2>2, <3>1, MakerThen, Zenon DEF ParseFfi, Goes
  <2>3. CASE tokens[c] # "name"
    <3>1. Step(SyncStmt(c), TRUE, Leaf("error", c), <<Led(Arg(1))>>)
      BY <1>12, <2>3, Zenon DEF ParseFfi
    <3> QED BY <1>3, <1>4, <2>1, <3>1, MakerLeaf, Zenon
  <2> QED BY <2>2, <2>3
<1>13. CASE ParseAggregate
  <2> DEFINE c == Forward(current)
  <2>1. c \in Positions /\ Forward(c) \in Positions /\ Doing("expr")
    BY <1>2, <1>10, <1>13, Zenon DEF ParseAggregate
  <2>2. CASE tokens[c] = "}"
    <3>1. Step(Forward(c), FALSE, Leaf("init", current), <<Led(Arg(1))>>)
      BY <1>13, <2>2, Zenon DEF ParseAggregate, Makes
    <3> QED BY <1>3, <1>4, <1>10, <2>1, <3>1, MakerLeaf, Zenon
  <2>3. CASE tokens[c] # "}"
    <3>1. InitForm(c) \in Forms
      BY DEF InitForm, Forms
    <3>2. Becomes(<<Items(InitForm(c), "}"), Expect("}"), Build("init", current, Base), Led(Arg(1))>>,
                  Base)
      <4>1. Build("init", current, Base) \in PlainWork(Base) /\ Maker(Build("init", current, Base))
        BY <1>4, <1>7, <1>10, Zenon
      <4>2. Items(InitForm(c), "}") \in PlainWork(Base)
        BY <1>9, <3>1, Zenon
      <4> QED BY <1>3, <1>5, <2>1, <4>1, <4>2, ThreeThen, Zenon
    <3> QED BY <1>13, <2>1, <2>3, <3>2, MakerThen, Zenon DEF ParseAggregate, Goes
  <2> QED BY <2>2, <2>3
<1>14. CASE ParseArray
  <2>1. Becomes(<<Items("positional", "]"), Expect("]"), Build("init", current, Base), Led(Arg(1))>>, Base)
    <3>1. Build("init", current, Base) \in PlainWork(Base) /\ Maker(Build("init", current, Base))
      BY <1>4, <1>7, <1>10, Zenon
    <3>2. Items("positional", "]") \in PlainWork(Base)
      BY <1>9, Zenon DEF Forms
    <3> QED BY <1>3, <1>5, <1>14, <3>1, <3>2, ThreeThen, Zenon DEF ParseArray
  <2> QED BY <1>2, <1>10, <1>14, <2>1, MakerThen, Zenon DEF ParseArray, Goes
<1>15. CASE ParseGroupOrCast
  <2> DEFINE c == Forward(current)
  <2>1. c \in Positions /\ Doing("expr")
    BY <1>2, <1>10, <1>15, Zenon DEF ParseGroupOrCast
  <2>2. CASE CanBeType(tokens[c])
    <3>1. Becomes(<<Type, CastOrGroup(c, Base), Led(Arg(1))>>, Base)
      BY <1>3, <1>5, <1>8, <2>1, TwoThen, Zenon
    <3> QED BY <1>15, <2>1, <2>2, <3>1, MakerThen, Zenon DEF ParseGroupOrCast, Goes
  <2>3. CASE ~CanBeType(tokens[c])
    <3>1. Becomes(<<Expr(0), Expect(")"), Led(Arg(1))>>, Base)
      BY <1>3, <1>5, <1>6, <2>1, BracketedThen, Zenon
    <3> QED BY <1>15, <2>1, <2>3, <3>1, MakerThen, Zenon DEF ParseGroupOrCast, Goes
  <2> QED BY <2>2, <2>3
<1>16. CASE ParseAnonType
  <2>1. Becomes(<<Anon, Expect("}"), Build("anon", current, Base), Suffixes>>, Base)
    <3>1. Build("anon", current, Base) \in PlainWork(Base) /\ Maker(Build("anon", current, Base))
      BY <1>4, <1>7, <1>10, Zenon
    <3> QED BY <1>5, <3>1, TreeTasks, ThreeThen, Zenon
  <2> QED BY <1>2, <1>10, <1>16, <2>1, MakerThen, Zenon DEF ParseAnonType, Goes
<1> QED BY <1>11, <1>12, <1>13, <1>14, <1>15, <1>16

(* The names of these calls, and the nodes that they make. *)
LEMMA NamesUsed ==
  /\ {"items", "comma", "clause", "anon field", "then", "body", "func returns", "func body",
      "anon", "default", "stmt", "stmts", "block", "else", "do cond", "for init",
      "program", "declaration", "parents", "after parent", "aliases", "members", "self", "params",
      "after param", "returns", "method body", "func params", "after func param"} \subseteq OtherNames
  /\ {"error", "none", "field", "binary", "member", "call", "index", "cast", "pointer", "array",
      "block", "expr stmt", "return", "break", "continue", "decl", "if", "while", "do", "for",
      "param", "alias", "inherit", "method", "blueprint", "func"} \subseteq NodeKinds
BY DEF OtherNames, PlainNames, NodeKinds

(* Tokens that are expected, nodes that are built, and what may follow. *)
LEMMA TokenSteps ==
  ASSUME IInv, Expected \/ NotExpected \/ BuildNode \/ MatchComma \/ ParseDefault
  PROVE  IInv'
<1>1. /\ tokens \in Programs /\ current \in Positions /\ Base \in Nat
      /\ \A c \in Positions : Forward(c) \in Positions /\ SyncStmt(c) \in Positions
  BY PlacesThere, Zenon DEF Places
<1>2. Expr(0) \in PlainWork(Base)
  BY <1>1, PlainWorks, Zenon
<1>3. "comma" \in OtherNames /\ "default" \in OtherNames
  BY NamesUsed, Zenon
<1>4. CASE Expected
  BY <1>1, <1>4, ExpectGoes, Zenon DEF Expected, Goes
<1>5. CASE NotExpected
  <2>1. Further(SyncStmt(current), Arg(2)) \in Positions
    BY <1>1, <1>5, Args, FurtherMoves, Zenon DEF NotExpected
  <2> QED BY <1>5, <2>1, ExpectGoes, Zenon DEF NotExpected, Reports
<1>6. CASE BuildNode
  <2>1. /\ Arg(1) \in NodeKinds /\ Arg(2) \in Positions /\ todo # <<>>
        /\ HasBase(todo[1]) /\ Arg(3) = BaseOf(todo[1])
    BY <1>6, Args, Zenon DEF BuildNode
  <2>2. Step(current, FALSE, Append(nodes, Node(Arg(1), Arg(2), BaseOf(todo[1]) + 1)), <<>>)
    BY <1>6, <2>1, Zenon DEF BuildNode
  <2> QED BY <1>1, <2>1, <2>2, BaseBuilt, Zenon
<1>7. CASE MatchComma
  <2>1. Doing("comma") /\ <<Arg(1)>> \in Seq(PlainWork(Base))
    BY <1>7, Args, One, Zenon DEF MatchComma
  <2>2. CASE Cur = ","
    BY <1>1, <1>3, <1>7, <2>1, <2>2, OtherGoes, Zenon DEF MatchComma, Goes
  <2>3. CASE Cur # ","
    BY <1>1, <1>3, <1>7, <2>1, <2>3, NoWork, OtherGoes, Zenon DEF MatchComma, Goes
  <2> QED BY <2>2, <2>3
<1>8. CASE ParseDefault
  <2>1. Doing("default") /\ <<Expr(0)>> \in Seq(PlainWork(Base))
    BY <1>2, <1>8, One, Zenon DEF ParseDefault
  <2>2. CASE Cur = "="
    BY <1>1, <1>3, <1>8, <2>1, <2>2, OtherGoes, Zenon DEF ParseDefault, Goes
  <2>3. CASE Cur # "="
    BY <1>1, <1>3, <1>8, <2>1, <2>3, NoWork, OtherGoes, Zenon DEF ParseDefault, Goes
  <2> QED BY <2>2, <2>3
<1> QED BY <1>4, <1>5, <1>6, <1>7, <1>8

(* A type that was one, or a group after all. *)
LEMMA CastSteps ==
  ASSUME IInv, DecideCast
  PROVE  IInv'
<1>1. /\ tokens \in Programs /\ current \in Positions /\ Base \in Nat
      /\ \A c \in Positions : Forward(c) \in Positions
  BY PlacesThere, Zenon DEF Places
<1>2. /\ Arg(1) \in Positions /\ todo # <<>> /\ HasBase(todo[1]) /\ Arg(2) = BaseOf(todo[1])
      /\ BaseOf(todo[1]) \in Nat
  BY Args, Zenon DEF DecideCast
<1> DEFINE b == BaseOf(todo[1])
<1>3. Expr(0) \in PlainWork(b) /\ Expect(")") \in PlainWork(b)
  BY <1>2, PlainWorks, Zenon
<1>4. Maker(Expr(0)) /\ IsExpect(Expect(")"))
  <2>1. 0 \in Int
    OBVIOUS
  <2> QED BY <2>1, MakersOf, Zenon
<1>5. Build("cast", Arg(1), b) \in PlainWork(b) /\ Maker(Build("cast", Arg(1), b))
  <2>1. "cast" \in NodeKinds
    BY NamesUsed, Zenon
  <2> QED BY <1>2, <2>1, PlainWorks, MakersOf, Zenon
<1>6. CASE Cur = ")" /\ StartsExpr(Peek(1))
  <2>1. <<Expr(0), Build("cast", Arg(1), b)>> \in Seq(PlainWork(b))
        /\ Gives(<<Expr(0), Build("cast", Arg(1), b)>>)
    BY <1>3, <1>5, Two, Zenon
  <2>2. Step(Forward(current), FALSE, nodes, <<Expr(0), Build("cast", Arg(1), b)>>)
    BY <1>2, <1>6, Zenon DEF DecideCast, Goes
  <2> QED BY <1>1, <1>2, <2>1, <2>2, BaseGoes, Zenon
<1>7. CASE ~(Cur = ")" /\ StartsExpr(Peek(1)))
  <2>1. <<Expr(0), Expect(")")>> \in Seq(PlainWork(b)) /\ Gives(<<Expr(0), Expect(")")>>)
    BY <1>3, <1>4, Two, GivesBracketed, Zenon
  <2>2. Step(Arg(1), FALSE, Below(b), <<Expr(0), Expect(")")>>)
    BY <1>2, <1>7, Zenon DEF DecideCast
  <2> QED BY <1>1, <1>2, <2>1, <2>2, BaseCut, Zenon
<1> QED BY <1>6, <1>7

(* Lists of arguments and the forms of an aggregate. *)
LEMMA ListSteps ==
  ASSUME IInv, EndItems \/ ParseItem \/ ParseIndexed \/ ParseNamed
  PROVE  IInv'
<1>1. /\ tokens \in Programs /\ current \in Positions /\ Base \in Nat
      /\ \A c \in Positions : Forward(c) \in Positions
  BY PlacesThere, Zenon DEF Places
<1>2. /\ Expr(0) \in PlainWork(Base) /\ Expect("]") \in PlainWork(Base)
      /\ Expect("=") \in PlainWork(Base)
  BY <1>1, PlainWorks, Zenon
<1>3. Doing("items") => More \in PlainWork(Base)
  BY <1>1, Args, PlainWorks, Zenon DEF More
<1>4. "items" \in OtherNames /\ "field" \in NodeKinds
  BY NamesUsed, Zenon
<1>5. CASE EndItems
  <2>1. (Arg(1) = "args" /\ Cur = "EOF") \in BOOLEAN
    OBVIOUS
  <2> QED BY <1>1, <1>4, <1>5, <2>1, NoWork, OtherGoes, Zenon DEF EndItems
<1>6. CASE ParseItem
  <2>1. <<Expr(0), More>> \in Seq(PlainWork(Base))
    BY <1>2, <1>3, <1>6, Two, Zenon DEF ParseItem
  <2> QED BY <1>1, <1>4, <1>6, <2>1, OtherGoes, Zenon DEF ParseItem, Goes
<1>7. CASE ParseIndexed
  <2>1. <<Expr(0), Expect("]"), Expect("="), Expr(0), More>> \in Seq(PlainWork(Base))
    BY <1>2, <1>3, <1>7, Five, Zenon DEF ParseIndexed
  <2> QED BY <1>1, <1>4, <1>7, <2>1, OtherGoes, Zenon DEF ParseIndexed, Goes
<1>8. CASE ParseNamed
  <2> DEFINE c == Forward(current)
             d == IF tokens[c] = "=" THEN Forward(c) ELSE c
  <2>1. d \in Positions
    BY <1>1, Zenon
  <2>2. <<Expr(0), More>> \in Seq(PlainWork(Base))
    BY <1>2, <1>3, <1>8, Two, Zenon DEF ParseNamed
  <2>3. Doing("items") /\ Step(d, FALSE, Leaf("field", current), <<Expr(0), More>>)
    BY <1>8, Zenon DEF ParseNamed, Makes
  <2> HIDE DEF d
  <2> QED BY <1>1, <1>4, <2>1, <2>2, <2>3, OtherLeaf, Zenon
<1> QED BY <1>5, <1>6, <1>7, <1>8

(* A crash: nothing goes on. *)
LEMMA CrashFacts ==
  ASSUME CrashInNamed \/ CrashInFfi
  PROVE  /\ crashed' = TRUE /\ todo' = <<>> /\ tokens' = tokens
         /\ current' = current \/ current' = Forward(current)
         /\ reported' = reported /\ nodes' = nodes
<1>1. CASE CrashInNamed
  BY <1>1, Zenon DEF CrashInNamed, Crashes
<1>2. CASE CrashInFfi
  BY <1>2, Zenon DEF CrashInFfi, Crashes
<1> QED BY <1>1, <1>2

LEMMA CrashStep == ASSUME IInv, CrashInNamed \/ CrashInFfi PROVE IInv'
<1>1. /\ crashed' = TRUE /\ todo' = <<>> /\ tokens' = tokens
      /\ reported' = reported /\ nodes' = nodes
  BY CrashFacts, Zenon
<1>2. /\ tokens \in Programs /\ current' \in Positions /\ reported \in BOOLEAN
      /\ nodes \in Seq(NodeSet) /\ Sound(nodes)
  BY CrashFacts, PlacesThere, Zenon DEF IInv, TypeInv, Places
<1>3. Positions' = Positions /\ NodeSet' = NodeSet
  BY <1>1 DEF Positions, NodeSet
<1>4. todo' \in Seq(Tasks)' /\ DOMAIN todo' = {}
  BY <1>1
<1>5. TypeInv'
  BY <1>1, <1>2, <1>3, <1>4 DEF TypeInv
<1>6. BasesHold(nodes, todo)' /\ TreesAwaited(nodes, todo)'
  BY <1>4, Zenon DEF BasesHold, TreesAwaited
<1> QED BY <1>1, <1>2, <1>5, <1>6, Zenon DEF IInv, Sound

(* What goes on with an expression. *)
LEMMA LedSteps ==
  ASSUME IInv, EndExpr \/ ParseInfix \/ ParseMember \/ ParseCall \/ ParseIndex
  PROVE  IInv'
<1>1. /\ tokens \in Programs /\ current \in Positions
      /\ \A c \in Positions : Forward(c) \in Positions /\ SyncStmt(c) \in Positions
  BY PlacesThere, Zenon DEF Places
<1>2. Doing("led")
  BY Zenon DEF EndExpr, ParseInfix, ParseMember, ParseCall, ParseIndex
<1>3. LastBase \in Nat
  BY <1>2, OnTreeHead, Zenon
<1>4. GoesOnWithTree(Led(Arg(1))) /\ GoesOnWith(<<Led(Arg(1))>>) /\ Gives(<<Led(Arg(1))>>)
  BY <1>2, TreeAlone, Args, Zenon
<1>5. /\ Expr(0) \in PlainWork(LastBase) /\ Expect(")") \in PlainWork(LastBase)
      /\ Expect("]") \in PlainWork(LastBase)
  BY <1>3, PlainWorks, Zenon
<1>6. \A node \in NodeKinds : /\ Build(node, current, LastBase) \in PlainWork(LastBase)
                              /\ Maker(Build(node, current, LastBase))
  BY <1>1, <1>3, PlainWorks, MakersOf, Zenon
<1>7. {"error", "binary", "member", "call", "index"} \subseteq NodeKinds
  BY DEF NodeKinds
<1>8. CASE EndExpr
  BY <1>1, <1>8, OnTreeGoes, Zenon DEF EndExpr, Goes
<1>9. CASE ParseInfix
  <2>1. Prec(Cur) + 1 \in Int
    BY DEF Prec
  <2>2. Expr(Prec(Cur) + 1) \in PlainWork(LastBase)
    BY <1>3, <2>1, PlainWorks, Zenon
  <2>3. Becomes(<<Expr(Prec(Cur) + 1), Build("binary", current, LastBase), Led(Arg(1))>>, LastBase)
    BY <1>4, <1>6, <1>7, <2>2, TwoThen, Zenon
  <2> QED BY <1>1, <1>9, <2>3, OnTreeThen, Zenon DEF ParseInfix, Goes
<1>10. CASE ParseMember
  <2> DEFINE c == Forward(current)
  <2>1. c \in Positions /\ Forward(c) \in Positions /\ SyncStmt(c) \in Positions
    BY <1>1, Zenon
  <2>2. CASE tokens[c] = "name"
    <3>1. Step(Forward(c), FALSE, Around("member", c), <<Led(Arg(1))>>)
      BY <1>10, <2>2, Zenon DEF ParseMember
    <3> QED BY <1>2, <1>4, <1>7, <2>1, <3>1, OnTreeAround, Zenon
  <2>3. CASE tokens[c] # "name"
    <3>1. Step(SyncStmt(c), TRUE, Instead("error", c), <<Led(Arg(1))>>)
      BY <1>10, <2>3, Zenon DEF ParseMember
    <3> QED BY <1>2, <1>4, <1>7, <2>1, <3>1, OnTreeInstead, Zenon
  <2> QED BY <2>2, <2>3
<1>11. CASE ParseCall
  <2>1. Items("args", ")") \in PlainWork(LastBase)
    <3>1. "args" \in Forms /\ ")" \in Token
      BY TokensUsed DEF Forms
    <3> QED BY <1>3, <3>1, PlainWorks, Zenon
  <2>2. Becomes(<<Items("args", ")"), Expect(")"), Build("call", current, LastBase), Led(Arg(1))>>,
                LastBase)
    BY <1>4, <1>5, <1>6, <1>7, <2>1, ThreeThen, Zenon
  <2> QED BY <1>1, <1>11, <2>2, OnTreeThen, Zenon DEF ParseCall, Goes
<1>12. CASE ParseIndex
  <2> DEFINE c == Forward(current)
  <2>1. c \in Positions /\ Forward(c) \in Positions
    BY <1>1, Zenon
  <2>2. CASE tokens[c] = "]"
    <3>1. Step(Forward(c), TRUE, Instead("error", c), <<Led(Arg(1))>>)
      BY <1>12, <2>2, Zenon DEF ParseIndex
    <3> QED BY <1>2, <1>4, <1>7, <2>1, <3>1, OnTreeInstead, Zenon
  <2>3. CASE tokens[c] # "]"
    <3>1. Becomes(<<Expr(0), Expect("]"), Build("index", current, LastBase), Led(Arg(1))>>, LastBase)
      BY <1>4, <1>5, <1>6, <1>7, ThreeThen, Zenon
    <3>2. Step(c, FALSE, nodes, <<Expr(0), Expect("]"), Build("index", current, LastBase), Led(Arg(1))>>)
      BY <1>12, <2>3, Zenon DEF ParseIndex, Goes
    <3> QED BY <1>2, <2>1, <3>1, <3>2, OnTreeThen, Zenon
  <2> QED BY <2>2, <2>3
<1> QED BY <1>8, <1>9, <1>10, <1>11, <1>12

(* A task before three others. *)
LEMMA Joined ==
  ASSUME NEW w, NEW x, NEW y, NEW z
  PROVE  <<w>> \o <<x, y, z>> = <<w, x, y, z>>
<1> DEFINE S == {w, x, y, z}
           s == <<w>>
           t == <<x, y, z>>
           r == <<w, x, y, z>>
           u == s \o t
<1>1. /\ s \in Seq(S) /\ Len(s) = 1 /\ s[1] = w
      /\ t \in Seq(S) /\ Len(t) = 3 /\ t[1] = x /\ t[2] = y /\ t[3] = z
      /\ r \in Seq(S) /\ Len(r) = 4 /\ r[1] = w /\ r[2] = x /\ r[3] = y /\ r[4] = z
  OBVIOUS
<1> HIDE DEF s, t, r, S
<1>2. /\ u \in Seq(S) /\ Len(u) = Len(s) + Len(t)
      /\ \A i \in 1 .. Len(s) + Len(t) : u[i] = IF i <= Len(s) THEN s[i] ELSE t[i - Len(s)]
  BY <1>1, ConcatProperties, Zenon
<1> HIDE DEF u
<1>3. u[1] = w /\ u[2] = x /\ u[3] = y /\ u[4] = z /\ Len(u) = 4
  BY <1>1, <1>2
<1>4. \A i \in 1 .. 4 : i = 1 \/ i = 2 \/ i = 3 \/ i = 4
  OBVIOUS
<1>5. \A i \in 1 .. Len(u) : u[i] = r[i]
  BY <1>1, <1>3, <1>4, Zenon
<1>6. u = r
  BY <1>1, <1>2, <1>3, <1>5, SeqEqual, Zenon
<1> QED BY <1>6 DEF u, s, t, r

(* What goes on with a type. *)
LEMMA SuffixSteps ==
  ASSUME IInv, ParsePointer \/ ParseArrayType \/ EndType
  PROVE  IInv'
<1>1. /\ tokens \in Programs /\ current \in Positions
      /\ \A c \in Positions : Forward(c) \in Positions
  BY PlacesThere, Zenon DEF Places
<1>2. Doing("suffixes")
  BY Zenon DEF ParsePointer, ParseArrayType, EndType
<1>3. LastBase \in Nat
  BY <1>2, OnTreeHead, Zenon
<1>4. GoesOnWithTree(Suffixes) /\ GoesOnWith(<<Suffixes>>) /\ Gives(<<Suffixes>>)
  BY TreeTasks, TreeAlone, Zenon
<1>5. "pointer" \in NodeKinds /\ "array" \in NodeKinds
  BY NamesUsed, Zenon
<1>6. CASE ParsePointer
  BY <1>1, <1>2, <1>4, <1>5, <1>6, OnTreeAround, Zenon DEF ParsePointer
<1>7. CASE ParseArrayType
  <2> DEFINE c == Forward(current)
             built == Build("array", current, LastBase)
  <2>1. /\ Expr(0) \in PlainWork(LastBase) /\ Expect("]") \in PlainWork(LastBase)
        /\ built \in PlainWork(LastBase) /\ Maker(built)
    BY <1>1, <1>3, <1>5, PlainWorks, MakersOf, Zenon
  <2>2. CASE tokens[c] = "]"
    <3>1. \A x, y, z : <<>> \o <<x, y, z>> = <<x, y, z>>
      OBVIOUS
    <3>2. Step(c, FALSE, nodes, <<Expect("]"), built, Suffixes>>)
      BY <1>7, <2>2, <3>1, Zenon DEF ParseArrayType, Goes
    <3>3. Becomes(<<Expect("]"), built, Suffixes>>, LastBase)
      BY <1>4, <2>1, TwoThen, Zenon
    <3> QED BY <1>1, <1>2, <3>2, <3>3, OnTreeThen, Zenon
  <2>3. CASE tokens[c] # "]"
    <3>1. \A w, x, y, z : <<w>> \o <<x, y, z>> = <<w, x, y, z>>
      BY Joined, Zenon
    <3>2. Step(c, FALSE, nodes, <<Expr(0), Expect("]"), built, Suffixes>>)
      BY <1>7, <2>3, <3>1, Zenon DEF ParseArrayType, Goes
    <3>3. Becomes(<<Expr(0), Expect("]"), built, Suffixes>>, LastBase)
      BY <1>4, <2>1, ThreeThen, Zenon
    <3> QED BY <1>1, <1>2, <3>2, <3>3, OnTreeThen, Zenon
  <2> QED BY <2>2, <2>3
<1>8. CASE EndType
  BY <1>1, <1>2, <1>8, OnTreeGoes, Zenon DEF EndType, Goes
<1> QED BY <1>6, <1>7, <1>8

(* The fields of an anonymous type. *)
LEMMA AnonSteps ==
  ASSUME IInv, EndAnon \/ NotAField \/ ParseAnonField \/ EndAnonField
  PROVE  IInv'
<1>1. /\ tokens \in Programs /\ current \in Positions /\ Base \in Nat
      /\ \A c \in Positions : Forward(c) \in Positions /\ SyncStmt(c) \in Positions
  BY PlacesThere, Zenon DEF Places
<1>2. "anon" \in OtherNames /\ "anon field" \in OtherNames /\ "field" \in NodeKinds
  BY NamesUsed, Zenon
<1>3. /\ Type \in PlainWork(Base) /\ Default \in PlainWork(Base) /\ Anon \in PlainWork(Base)
      /\ AnonField(current, Base) \in PlainWork(Base)
  BY <1>1, PlainWorks, NamedWorks, Zenon
<1>4. <<Anon>> \in Seq(PlainWork(Base))
  BY <1>3, One, Zenon
<1>5. CASE EndAnon
  <2>1. (Cur = "EOF") \in BOOLEAN
    OBVIOUS
  <2> QED BY <1>1, <1>2, <1>5, <2>1, NoWork, OtherGoes, Zenon DEF EndAnon
<1>6. CASE NotAField
  BY <1>1, <1>2, <1>4, <1>6, OtherGoes, Zenon DEF NotAField, Reports
<1>7. CASE ParseAnonField
  <2> DEFINE c == Forward(current)
  <2>1. Doing("anon") /\ c \in Positions /\ Forward(c) \in Positions /\ SyncStmt(SyncStmt(c)) \in Positions
    BY <1>1, <1>7, Zenon DEF ParseAnonField
  <2>2. CASE tokens[c] = ":"
    <3>1. <<Type, Default, AnonField(current, Base), Anon>> \in Seq(PlainWork(Base))
      BY <1>3, Four, Zenon
    <3>2. Step(Forward(c), FALSE, nodes, <<Type, Default, AnonField(current, Base), Anon>>)
      BY <1>7, <2>2, Zenon DEF ParseAnonField, Goes
    <3> QED BY <1>2, <2>1, <3>1, <3>2, OtherGoes, Zenon
  <2>3. CASE tokens[c] # ":"
    <3>1. Step(SyncStmt(SyncStmt(c)), TRUE, nodes, <<Anon>>)
      BY <1>7, <2>3, Zenon DEF ParseAnonField, Reports
    <3> QED BY <1>2, <1>4, <2>1, <3>1, OtherGoes, Zenon
  <2> QED BY <2>2, <2>3
<1>8. CASE EndAnonField
  <2> DEFINE b == BaseOf(todo[1])
  <2>1. /\ Arg(1) \in Positions /\ todo # <<>> /\ HasBase(todo[1]) /\ Arg(2) = b /\ b \in Nat
        /\ ~Maker(todo[1])
    <3>1. Doing("anon field") /\ "anon field" # "cast"
      BY <1>8 DEF EndAnonField
    <3> QED BY <3>1, Args, Zenon
  <2>2. CASE Cur = ";"
    <3>1. <<Build("field", Arg(1), b)>> \in Seq(PlainWork(b))
      BY <1>2, <2>1, PlainWorks, One, Zenon
    <3>2. Step(Forward(current), FALSE, nodes, <<Build("field", Arg(1), b)>>)
      BY <1>8, <2>1, <2>2, Zenon DEF EndAnonField, Goes
    <3> QED BY <1>1, <2>1, <3>1, <3>2, BaseGoes, Zenon
  <2>3. CASE Cur # ";"
    <3>1. Step(SyncStmt(SyncStmt(current)), TRUE, Below(b), <<>>)
      BY <1>8, <2>1, <2>3, Zenon DEF EndAnonField
    <3> QED BY <1>1, <2>1, <3>1, NoWork, BaseCut, Zenon
  <2> QED BY <2>2, <2>3
<1> QED BY <1>5, <1>6, <1>7, <1>8

LEMMA ExprSteps == ASSUME IInv, ExprStep PROVE IInv'
<1>1. \/ ParseNothing \/ ParseAtom \/ ParseLeadingDot \/ NotAnExpr \/ ParseNamedType \/ NotAType
      \/ (\/ ParseUnary \/ ParseFfi \/ ParseAggregate \/ ParseArray \/ ParseGroupOrCast
          \/ ParseAnonType)
      \/ (Expected \/ NotExpected \/ BuildNode \/ MatchComma \/ ParseDefault)
      \/ DecideCast
      \/ (EndItems \/ ParseItem \/ ParseIndexed \/ ParseNamed)
      \/ CrashInNamed \/ CrashInFfi
      \/ (EndExpr \/ ParseInfix \/ ParseMember \/ ParseCall \/ ParseIndex)
      \/ (ParsePointer \/ ParseArrayType \/ EndType)
      \/ (EndAnon \/ NotAField \/ ParseAnonField \/ EndAnonField)
  BY Zenon DEF ExprStep
<1> QED BY <1>1, LeafSteps, OpenSteps, TokenSteps, CastSteps, ListSteps, CrashStep, LedSteps,
           SuffixSteps, AnonSteps

-----------------------------------------------------------------------------
(* The steps of the parser of statements.                                  *)

(* What a statement leaves to do. *)
StmtWork ==
  /\ Expr(0) \in PlainWork(Base) /\ Type \in PlainWork(Base) /\ Default \in PlainWork(Base)
  /\ Expect("(") \in PlainWork(Base) /\ Expect(")") \in PlainWork(Base)
  /\ Expect(";") \in PlainWork(Base) /\ Expect("}") \in PlainWork(Base)
  /\ Stmt \in PlainWork(Base) /\ Stmts \in PlainWork(Base) /\ DoCond \in PlainWork(Base)
  /\ ForInit \in PlainWork(Base) /\ Clause(";") \in PlainWork(Base) /\ Clause(")") \in PlainWork(Base)
  /\ \A at \in Positions : /\ Then(at, Base) \in PlainWork(Base)
                           /\ \A node \in NodeKinds : Build(node, at, Base) \in PlainWork(Base)

LEMMA StmtWorkThere == IInv => StmtWork
<1>1. ASSUME IInv PROVE Base \in Nat
  BY <1>1, PlacesThere, Zenon DEF Places
<1> QED BY <1>1, PlainWorks, NamedWorks, Zenon DEF StmtWork

LEMMA Concatenated ==
  ASSUME NEW b, NEW v \in Seq(PlainWork(b)), NEW w \in Seq(PlainWork(b))
  PROVE  v \o w \in Seq(PlainWork(b))
OBVIOUS

(* Statements without a condition. *)
LEMMA SimpleStmtSteps ==
  ASSUME IInv,
         \/ EmptyBlock \/ NoStmt \/ ParseExprStmt \/ ParseBlock \/ NoBlock \/ EndStmts \/ NextStmt
         \/ ParseReturn \/ ParseExit
  PROVE  IInv'
<1>1. /\ tokens \in Programs /\ current \in Positions /\ Base \in Nat
      /\ \A c \in Positions : Forward(c) \in Positions /\ SyncStmt(c) \in Positions
  BY PlacesThere, Zenon DEF Places
<1>2. StmtWork
  BY StmtWorkThere
<1>3. "stmt" \in OtherNames /\ "stmts" \in OtherNames /\ "block" \in OtherNames
  BY NamesUsed, Zenon
<1>4. /\ "block" \in NodeKinds /\ "none" \in NodeKinds /\ "expr stmt" \in NodeKinds
      /\ "return" \in NodeKinds /\ "break" \in NodeKinds /\ "continue" \in NodeKinds
  BY NamesUsed, Zenon
<1>5. CASE EmptyBlock
  BY <1>1, <1>3, <1>4, <1>5, NoWork, OtherLeaf, Zenon DEF EmptyBlock, Makes
<1>6. CASE NoStmt
  BY <1>1, <1>3, <1>4, <1>6, NoWork, OtherLeaf, Zenon DEF NoStmt, Makes
<1>7. CASE ParseExprStmt
  <2>1. <<Expr(0), Expect(";"), Build("expr stmt", current, Base)>> \in Seq(PlainWork(Base))
    BY <1>1, <1>2, <1>4, Three, Zenon DEF StmtWork
  <2> QED BY <1>1, <1>3, <1>7, <2>1, OtherGoes, Zenon DEF ParseExprStmt, Goes
<1>8. CASE ParseBlock
  <2>1. <<Stmts, Expect("}"), Build("block", current, Base)>> \in Seq(PlainWork(Base))
    BY <1>1, <1>2, <1>4, Three, Zenon DEF StmtWork
  <2> QED BY <1>1, <1>3, <1>8, <2>1, OtherGoes, Zenon DEF ParseBlock, Goes
<1>9. CASE NoBlock
  BY <1>1, <1>3, <1>4, <1>9, NoWork, OtherLeaf, Zenon DEF NoBlock
<1>10. CASE EndStmts
  <2>1. (Cur = "EOF") \in BOOLEAN
    OBVIOUS
  <2> QED BY <1>1, <1>3, <1>10, <2>1, NoWork, OtherGoes, Zenon DEF EndStmts
<1>11. CASE NextStmt
  <2>1. <<Stmt, Stmts>> \in Seq(PlainWork(Base))
    BY <1>2, Two, Zenon DEF StmtWork
  <2> QED BY <1>1, <1>3, <1>11, <2>1, OtherGoes, Zenon DEF NextStmt, Goes
<1>12. CASE ParseReturn
  <2> DEFINE c == Forward(current)
             value == IF tokens[c] \in {";", "}", "EOF"} THEN <<>> ELSE <<Expr(0)>>
             w == <<Expect(";"), Build("return", current, Base)>>
  <2>1. value \in Seq(PlainWork(Base)) /\ w \in Seq(PlainWork(Base))
    BY <1>1, <1>2, <1>4, NoWork, One, Two, Zenon DEF StmtWork
  <2>2. Doing("stmt") /\ Step(c, FALSE, nodes, value \o w)
    BY <1>12, Zenon DEF ParseReturn, Goes
  <2> HIDE DEF value, w
  <2>3. value \o w \in Seq(PlainWork(Base))
    BY <2>1, Concatenated, Zenon
  <2> QED BY <1>1, <1>3, <2>2, <2>3, OtherGoes, Zenon
<1>13. CASE ParseExit
  <2>1. Cur \in NodeKinds
    BY <1>4, <1>13, Zenon DEF ParseExit
  <2>2. <<Expect(";"), Build(Cur, current, Base)>> \in Seq(PlainWork(Base))
    BY <1>1, <1>2, <2>1, Two, Zenon DEF StmtWork
  <2> QED BY <1>1, <1>3, <1>13, <2>2, OtherGoes, Zenon DEF ParseExit, Goes
<1> QED BY <1>5, <1>6, <1>7, <1>8, <1>9, <1>10, <1>11, <1>12, <1>13

(* Declarations of variables and statements with a condition. *)
LEMMA ControlStmtSteps ==
  ASSUME IInv,
         \/ ParseDecl \/ ParseIf \/ ParseThen \/ ParseElse \/ ParseWhile \/ ParseDoWhile
         \/ ParseDoCond \/ ParseFor \/ ParseForInit \/ ParseClause
  PROVE  IInv'
<1>1. /\ tokens \in Programs /\ current \in Positions /\ Base \in Nat
      /\ \A c \in Positions : Forward(c) \in Positions /\ SyncStmt(c) \in Positions
  BY PlacesThere, Zenon DEF Places
<1>2. StmtWork
  BY StmtWorkThere
<1>3. /\ "stmt" \in OtherNames /\ "else" \in OtherNames /\ "do cond" \in OtherNames
      /\ "for init" \in OtherNames /\ "clause" \in OtherNames
  BY NamesUsed, Zenon
<1>4. {"block", "decl", "if", "while", "do", "for", "error"} \subseteq NodeKinds
  BY DEF NodeKinds
<1>5. CASE ParseDecl
  <2> DEFINE c == Forward(current)
             d == Forward(c)
  <2>1. /\ Doing("stmt") /\ c \in Positions /\ SyncStmt(c) \in Positions
        /\ Forward(d) \in Positions /\ SyncStmt(SyncStmt(d)) \in Positions
    BY <1>1, <1>5, Zenon DEF ParseDecl
  <2>2. CASE tokens[c] # "name"
    <3>1. Step(SyncStmt(c), TRUE, Leaf("error", current), <<>>)
      BY <1>5, <2>2 DEF ParseDecl
    <3> QED BY <1>1, <1>3, <1>4, <2>1, <3>1, NoWork, OtherLeaf, Zenon
  <2>3. CASE tokens[c] = "name" /\ tokens[d] # ":"
    <3>1. Step(SyncStmt(SyncStmt(d)), TRUE, Leaf("error", current), <<>>)
      BY <1>5, <2>3 DEF ParseDecl
    <3> QED BY <1>1, <1>3, <1>4, <2>1, <3>1, NoWork, OtherLeaf, Zenon
  <2>4. CASE tokens[c] = "name" /\ tokens[d] = ":"
    <3>1. Goes(Forward(d), <<Type, Default, Expect(";"), Build("decl", c, Base)>>)
      BY <1>5, <2>4 DEF ParseDecl
    <3>2. <<Type, Default, Expect(";"), Build("decl", c, Base)>> \in Seq(PlainWork(Base))
      BY <1>2, <1>4, <2>1, Four, Zenon DEF StmtWork
    <3> QED BY <1>3, <2>1, <3>1, <3>2, OtherGoes, Zenon DEF Goes
  <2> QED BY <2>2, <2>3, <2>4, Zenon
<1>6. CASE ParseIf
  <2> DEFINE c == Forward(current)
  <2>1. Doing("stmt") /\ c \in Positions /\ SyncStmt(c) \in Positions /\ Forward(c) \in Positions
    BY <1>1, <1>6, Zenon DEF ParseIf
  <2>2. CASE tokens[c] = "("
    <3>1. Goes(Forward(c), <<Expr(0), Then(current, Base)>>)
      BY <1>6, <2>2, Zenon DEF ParseIf
    <3>2. <<Expr(0), Then(current, Base)>> \in Seq(PlainWork(Base))
      BY <1>1, <1>2, Two, Zenon DEF StmtWork
    <3> QED BY <1>3, <2>1, <3>1, <3>2, OtherGoes, Zenon DEF Goes
  <2>3. CASE tokens[c] # "("
    <3>1. Step(SyncStmt(c), TRUE, Leaf("block", current), <<>>)
      BY <1>6, <2>3, Zenon DEF ParseIf
    <3> QED BY <1>1, <1>3, <1>4, <2>1, <3>1, NoWork, OtherLeaf, Zenon
  <2> QED BY <2>2, <2>3
<1>7. CASE ParseThen
  <2> DEFINE b == BaseOf(todo[1])
  <2>1. /\ Arg(1) \in Positions /\ todo # <<>> /\ HasBase(todo[1]) /\ Arg(2) = b /\ b \in Nat
        /\ ~Maker(todo[1])
    <3>1. Doing("then") /\ "then" # "cast"
      BY <1>7 DEF ParseThen
    <3> QED BY <3>1, Args, Zenon
  <2>2. CASE Cur = ")"
    <3>1. /\ Stmt \in PlainWork(b) /\ Else \in PlainWork(b)
          /\ Build("if", Arg(1), b) \in PlainWork(b)
      BY <1>4, <2>1, PlainWorks, NamedWorks, Zenon
    <3>2. <<Stmt, Else, Build("if", Arg(1), b)>> \in Seq(PlainWork(b))
      BY <3>1, Three, Zenon
    <3>3. Step(Forward(current), FALSE, nodes, <<Stmt, Else, Build("if", Arg(1), b)>>)
      BY <1>7, <2>1, <2>2, Zenon DEF ParseThen, Goes
    <3> QED BY <1>1, <2>1, <3>2, <3>3, BaseGoes, Zenon
  <2>3. CASE Cur # ")"
    <3>1. Step(SyncStmt(current), TRUE, Replaced(b, "block", Arg(1)), <<>>)
      BY <1>7, <2>1, <2>3, Zenon DEF ParseThen
    <3> QED BY <1>1, <1>4, <2>1, <3>1, BaseReplaced, Zenon
  <2> QED BY <2>2, <2>3
<1>8. CASE ParseElse
  <2>1. <<Stmt>> \in Seq(PlainWork(Base))
    BY <1>2, One, Zenon DEF StmtWork
  <2>2. CASE Cur = "else"
    BY <1>1, <1>3, <1>8, <2>1, <2>2, OtherGoes, Zenon DEF ParseElse, Goes
  <2>3. CASE Cur # "else"
    BY <1>1, <1>3, <1>8, <2>3, NoWork, OtherGoes, Zenon DEF ParseElse, Goes
  <2> QED BY <2>2, <2>3
<1>9. CASE ParseWhile
  <2>1. <<Expect("("), Expr(0), Expect(")"), Stmt, Build("while", current, Base)>>
          \in Seq(PlainWork(Base))
    BY <1>1, <1>2, <1>4, Five, Zenon DEF StmtWork
  <2> QED BY <1>1, <1>3, <1>9, <2>1, OtherGoes, Zenon DEF ParseWhile, Goes
<1>10. CASE ParseDoWhile
  <2>1. <<Stmt, DoCond, Build("do", current, Base)>> \in Seq(PlainWork(Base))
    BY <1>1, <1>2, <1>4, Three, Zenon DEF StmtWork
  <2> QED BY <1>1, <1>3, <1>10, <2>1, OtherGoes, Zenon DEF ParseDoWhile, Goes
<1>11. CASE ParseDoCond
  <2>1. <<Expect("("), Expr(0), Expect(")"), Expect(";")>> \in Seq(PlainWork(Base))
    BY <1>2, Four, Zenon DEF StmtWork
  <2>2. CASE Cur = "while"
    BY <1>1, <1>3, <1>11, <2>1, <2>2, OtherGoes, Zenon DEF ParseDoCond, Goes
  <2>3. CASE Cur # "while"
    BY <1>1, <1>3, <1>11, <2>3, NoWork, OtherGoes, Zenon DEF ParseDoCond, Reports
  <2> QED BY <2>2, <2>3
<1>12. CASE ParseFor
  <2>1. <<Expect("("), ForInit, Expect(";"), Clause(";"), Expect(";"),
          Clause(")"), Expect(")"), Stmt, Build("for", current, Base)>> \in Seq(PlainWork(Base))
    BY <1>1, <1>2, <1>4, Nine, Zenon DEF StmtWork
  <2> QED BY <1>1, <1>3, <1>12, <2>1, OtherGoes, Zenon DEF ParseFor, Goes
<1>13. CASE ParseForInit
  <2> DEFINE c == Forward(current)
             d == Forward(c)
  <2>1. Doing("for init") /\ c \in Positions /\ Forward(d) \in Positions /\ SyncStmt(d) \in Positions
    BY <1>1, <1>13, Zenon DEF ParseForInit
  <2>2. CASE Cur = ";"
    <3>1. Goes(current, <<>>)
      BY <1>13, <2>2 DEF ParseForInit
    <3> QED BY <1>1, <1>3, <2>1, <3>1, NoWork, OtherGoes, Zenon DEF Goes
  <2>3. CASE Cur = "var" /\ tokens[c] # "name"
    <3>1. Goes(c, <<>>)
      BY <1>13, <2>3 DEF ParseForInit
    <3> QED BY <1>3, <2>1, <3>1, NoWork, OtherGoes, Zenon DEF Goes
  <2>4. CASE Cur = "var" /\ tokens[c] = "name" /\ tokens[d] # ":"
    <3>1. Reports(SyncStmt(d), <<>>)
      BY <1>13, <2>4 DEF ParseForInit
    <3> QED BY <1>3, <2>1, <3>1, NoWork, OtherGoes, Zenon DEF Reports
  <2>5. CASE Cur = "var" /\ tokens[c] = "name" /\ tokens[d] = ":"
    <3>1. Goes(Forward(d), <<Type, Default, Build("decl", c, Base)>>)
      BY <1>13, <2>5 DEF ParseForInit
    <3>2. <<Type, Default, Build("decl", c, Base)>> \in Seq(PlainWork(Base))
      BY <1>2, <1>4, <2>1, Three, Zenon DEF StmtWork
    <3> QED BY <1>3, <2>1, <3>1, <3>2, OtherGoes, Zenon DEF Goes
  <2>6. CASE Cur \notin {";", "var"}
    <3>1. Goes(current, <<Expr(0)>>)
      BY <1>13, <2>6 DEF ParseForInit
    <3>2. <<Expr(0)>> \in Seq(PlainWork(Base))
      BY <1>2, One, Zenon DEF StmtWork
    <3> QED BY <1>1, <1>3, <2>1, <3>1, <3>2, OtherGoes, Zenon DEF Goes
  <2> QED BY <2>2, <2>3, <2>4, <2>5, <2>6, Zenon
<1>14. CASE ParseClause
  <2> DEFINE w == IF Cur = Arg(1) THEN <<>> ELSE <<Expr(0)>>
  <2>1. w \in Seq(PlainWork(Base))
    BY <1>2, NoWork, One, Zenon DEF StmtWork
  <2>2. Doing("clause") /\ Step(current, FALSE, nodes, w)
    BY <1>14, Zenon DEF ParseClause, Goes
  <2> HIDE DEF w
  <2> QED BY <1>1, <1>3, <2>1, <2>2, OtherGoes, Zenon
<1> QED BY <1>5, <1>6, <1>7, <1>8, <1>9, <1>10, <1>11, <1>12, <1>13, <1>14

-----------------------------------------------------------------------------
(* The steps of the parser of declarations.                                *)

(* What a declaration leaves to do. *)
DeclWork ==
  /\ Type \in PlainWork(Base) /\ Default \in PlainWork(Base) /\ Block \in PlainWork(Base)
  /\ Program \in PlainWork(Base) /\ Declaration \in PlainWork(Base)
  /\ Parents \in PlainWork(Base) /\ AfterParent \in PlainWork(Base) /\ Aliases \in PlainWork(Base)
  /\ Members \in PlainWork(Base) /\ Self \in PlainWork(Base) /\ Params \in PlainWork(Base)
  /\ AfterParam \in PlainWork(Base) /\ Returns \in PlainWork(Base) /\ MethodBody \in PlainWork(Base)
  /\ FuncParams \in PlainWork(Base) /\ AfterFuncParam \in PlainWork(Base)
  /\ Expect("}") \in PlainWork(Base) /\ Expect(")") \in PlainWork(Base)
  /\ ExpectOr(";", "stmt") \in PlainWork(Base) /\ ExpectOr(")", "decl") \in PlainWork(Base)
  /\ \A at \in Positions : /\ Body(at, Base) \in PlainWork(Base)
                           /\ FuncReturns(at, Base) \in PlainWork(Base)
                           /\ \A node \in NodeKinds : Build(node, at, Base) \in PlainWork(Base)

LEMMA DeclWorkThere == IInv => DeclWork
<1>1. ASSUME IInv PROVE Base \in Nat
  BY <1>1, PlacesThere, Zenon DEF Places
<1> QED BY <1>1, PlainWorks, NamedWorks, Zenon DEF DeclWork

(* The loop over a file, and the head of a blueprint. *)
LEMMA FileSteps ==
  ASSUME IInv,
         \/ NextDeclaration \/ EndProgram \/ NotADeclaration \/ ParseBlueprint
         \/ EndParents \/ NotAParent \/ ParseParent \/ NextParent
  PROVE  IInv'
<1>1. /\ tokens \in Programs /\ current \in Positions /\ Base \in Nat
      /\ \A c \in Positions : Forward(c) \in Positions /\ SyncDecl(c) \in Positions
  BY PlacesThere, Zenon DEF Places
<1>2. DeclWork
  BY DeclWorkThere
<1>3. /\ "program" \in OtherNames /\ "declaration" \in OtherNames /\ "parents" \in OtherNames
      /\ "after parent" \in OtherNames /\ "inherit" \in NodeKinds
  BY NamesUsed, Zenon
<1>4. <<Parents>> \in Seq(PlainWork(Base))
  BY <1>2, One, Zenon DEF DeclWork
<1>5. CASE NextDeclaration
  <2>1. <<Declaration, Program>> \in Seq(PlainWork(Base))
    BY <1>2, Two, Zenon DEF DeclWork
  <2> QED BY <1>1, <1>3, <1>5, <2>1, OtherGoes, Zenon DEF NextDeclaration, Goes
<1>6. CASE EndProgram
  BY <1>1, <1>3, <1>6, NoWork, OtherGoes, Zenon DEF EndProgram, Goes
<1>7. CASE NotADeclaration
  BY <1>1, <1>3, <1>7, NoWork, OtherGoes, Zenon DEF NotADeclaration, Reports
<1>8. CASE ParseBlueprint
  <2>1. <<Parents, Body(current, Base)>> \in Seq(PlainWork(Base))
    BY <1>1, <1>2, Two, Zenon DEF DeclWork
  <2> QED BY <1>1, <1>3, <1>8, <2>1, OtherGoes, Zenon DEF ParseBlueprint, Goes
<1>9. CASE EndParents
  BY <1>1, <1>3, <1>9, NoWork, OtherGoes, Zenon DEF EndParents, Goes
<1>10. CASE NotAParent
  BY <1>1, <1>3, <1>4, <1>10, OtherGoes, Zenon DEF NotAParent, Reports
<1>11. CASE ParseParent
  <2> DEFINE c == Forward(current)
             aliases == IF tokens[c] = "{" THEN <<Aliases, Expect("}")>> ELSE <<>>
             w == <<Build("inherit", current, Base), AfterParent>>
             d == IF tokens[c] = "{" THEN Forward(c) ELSE c
  <2>1. d \in Positions
    BY <1>1, Zenon
  <2>2. aliases \in Seq(PlainWork(Base)) /\ w \in Seq(PlainWork(Base))
    BY <1>1, <1>2, <1>3, NoWork, Two, Zenon DEF DeclWork
  <2>3. Doing("parents") /\ Step(d, FALSE, nodes, aliases \o w)
    BY <1>11, Zenon DEF ParseParent, Goes
  <2> HIDE DEF aliases, w, d
  <2>4. aliases \o w \in Seq(PlainWork(Base))
    BY <2>2, Concatenated, Zenon
  <2> QED BY <1>3, <2>1, <2>3, <2>4, OtherGoes, Zenon
<1>12. CASE NextParent
  <2>0. Doing("after parent")
    BY <1>12, Zenon DEF NextParent
  <2>1. CASE Cur = ","
    <3>1. Goes(Forward(current), <<Parents>>)
      BY <1>12, <2>1 DEF NextParent
    <3> QED BY <1>1, <1>3, <1>4, <2>0, <3>1, OtherGoes, Zenon DEF Goes
  <2>2. CASE Cur = "{"
    <3>1. Goes(current, <<>>)
      BY <1>12, <2>2 DEF NextParent
    <3> QED BY <1>1, <1>3, <2>0, <3>1, NoWork, OtherGoes, Zenon DEF Goes
  <2>3. CASE Cur = "EOF"
    <3>1. Reports(current, <<>>)
      BY <1>12, <2>3 DEF NextParent
    <3> QED BY <1>1, <1>3, <2>0, <3>1, NoWork, OtherGoes, Zenon DEF Reports
  <2>4. CASE Cur \notin {",", "{", "EOF"}
    <3>1. Reports(SyncDecl(current), <<Parents>>)
      BY <1>12, <2>4 DEF NextParent
    <3> QED BY <1>1, <1>3, <1>4, <2>0, <3>1, OtherGoes, Zenon DEF Reports
  <2> QED BY <2>1, <2>2, <2>3, <2>4, Zenon
<1> QED BY <1>5, <1>6, <1>7, <1>8, <1>9, <1>10, <1>11, <1>12

(* The aliases of a parent. *)
LEMMA AliasSteps ==
  ASSUME IInv, EndAliases \/ NotAnAlias \/ ParseAlias
  PROVE  IInv'
<1>1. /\ tokens \in Programs /\ current \in Positions /\ Base \in Nat
      /\ \A c \in Positions : Forward(c) \in Positions /\ AliasEnd(c) \in Positions
  BY PlacesThere, Zenon DEF Places
<1>2. "aliases" \in OtherNames /\ "alias" \in NodeKinds
  BY NamesUsed, Zenon
<1>3. <<Aliases>> \in Seq(PlainWork(Base))
  BY DeclWorkThere, One, Zenon DEF DeclWork
<1>4. CASE EndAliases
  <2>1. (Cur = "EOF") \in BOOLEAN
    OBVIOUS
  <2> QED BY <1>1, <1>2, <1>4, <2>1, NoWork, OtherGoes, Zenon DEF EndAliases
<1>5. CASE NotAnAlias
  BY <1>1, <1>2, <1>3, <1>5, OtherGoes, Zenon DEF NotAnAlias, Reports
<1>6. CASE ParseAlias
  <2> DEFINE c == Forward(current)
             d == Forward(c)
             e == Forward(d)
             next == IF tokens[e] = "," THEN Forward(e) ELSE e
             trailing == tokens[e] = "," /\ tokens[Forward(e)] = "}"
  <2>1. /\ Doing("aliases") /\ AliasEnd(c) \in Positions /\ AliasEnd(d) \in Positions
        /\ next \in Positions
    BY <1>1, <1>6, Zenon DEF ParseAlias
  <2>2. trailing \in BOOLEAN
    OBVIOUS
  <2>3. CASE tokens[c] # "as"
    <3>1. Goes(AliasEnd(c), <<Aliases>>)
      BY <1>6, <2>3 DEF ParseAlias
    <3> QED BY <1>2, <1>3, <2>1, <3>1, OtherGoes, Zenon DEF Goes
  <2>4. CASE tokens[c] = "as" /\ tokens[d] # "name"
    <3>1. Reports(AliasEnd(d), <<Aliases>>)
      BY <1>6, <2>4 DEF ParseAlias
    <3> QED BY <1>2, <1>3, <2>1, <3>1, OtherGoes, Zenon DEF Reports
  <2>5. CASE tokens[c] = "as" /\ tokens[d] = "name"
    <3>1. Step(next, trailing, Leaf("alias", current), <<Aliases>>)
      BY <1>6, <2>5 DEF ParseAlias
    <3> HIDE DEF next, trailing
    <3> QED BY <1>1, <1>2, <1>3, <2>1, <2>2, <3>1, OtherLeaf, Zenon
  <2> QED BY <2>3, <2>4, <2>5, Zenon
<1> QED BY <1>4, <1>5, <1>6

(* The body of a blueprint. *)
LEMMA BodySteps ==
  ASSUME IInv, ParseBody \/ EndMembers \/ NotAMember \/ ParseField \/ ParseMethod
  PROVE  IInv'
<1>1. /\ tokens \in Programs /\ current \in Positions /\ Base \in Nat
      /\ \A c \in Positions :
           Forward(c) \in Positions /\ SyncStmt(c) \in Positions /\ SyncDecl(c) \in Positions
  BY PlacesThere, Zenon DEF Places
<1>2. DeclWork
  BY DeclWorkThere
<1>3. /\ "members" \in OtherNames
      /\ "blueprint" \in NodeKinds /\ "field" \in NodeKinds /\ "method" \in NodeKinds
  BY NamesUsed, Zenon
<1>4. CASE ParseBody
  <2> DEFINE b == BaseOf(todo[1])
  <2>1. /\ Arg(1) \in Positions /\ todo # <<>> /\ HasBase(todo[1]) /\ Arg(2) = b /\ b \in Nat
        /\ ~Maker(todo[1])
    <3>1. Doing("body") /\ "body" # "cast"
      BY <1>4 DEF ParseBody
    <3> QED BY <3>1, Args, Zenon
  <2>2. CASE Cur = "{"
    <3> DEFINE w == <<Members, ExpectOr("}", "decl"), Build("blueprint", Arg(1), b)>>
    <3>1. /\ Members \in PlainWork(b) /\ ExpectOr("}", "decl") \in PlainWork(b)
          /\ Build("blueprint", Arg(1), b) \in PlainWork(b)
      BY <1>3, <2>1, PlainWorks, NamedWorks, Zenon
    <3>2. w \in Seq(PlainWork(b))
      BY <3>1, Three, Zenon
    <3>3. Step(Forward(current), FALSE, nodes, w)
      BY <1>4, <2>1, <2>2, Zenon DEF ParseBody, Goes
    <3> QED BY <1>1, <2>1, <3>2, <3>3, BaseGoes, Zenon
  <2>3. CASE Cur # "{"
    <3>1. Step(SyncDecl(SyncStmt(current)), TRUE, Below(b), <<>>)
      BY <1>4, <2>1, <2>3, Zenon DEF ParseBody
    <3> QED BY <1>1, <2>1, <3>1, NoWork, BaseCut, Zenon
  <2> QED BY <2>2, <2>3
<1>5. CASE EndMembers
  <2>1. (Cur = "EOF") \in BOOLEAN
    OBVIOUS
  <2> QED BY <1>1, <1>3, <1>5, <2>1, NoWork, OtherGoes, Zenon DEF EndMembers
<1>6. CASE NotAMember
  <2> DEFINE c == IF Cur = "name" THEN Forward(current) ELSE current
  <2>1. SyncStmt(c) \in Positions
    BY <1>1, Zenon
  <2>2. <<Members>> \in Seq(PlainWork(Base))
    BY <1>2, One, Zenon DEF DeclWork
  <2>3. Doing("members") /\ Step(SyncStmt(c), TRUE, nodes, <<Members>>)
    BY <1>6, Zenon DEF NotAMember, Reports
  <2> HIDE DEF c
  <2> QED BY <1>3, <2>1, <2>2, <2>3, OtherGoes, Zenon
<1>7. CASE ParseField
  <2>1. <<Type, Default, Build("field", current, Base), ExpectOr(";", "stmt"), Members>>
          \in Seq(PlainWork(Base))
    BY <1>1, <1>2, <1>3, Five, Zenon DEF DeclWork
  <2> QED BY <1>1, <1>3, <1>7, <2>1, OtherGoes, Zenon DEF ParseField, Goes
<1>8. CASE ParseMethod
  <2>1. <<Self, Params, Expect(")"), Returns, Build("method", current, Base), Members>>
          \in Seq(PlainWork(Base))
    BY <1>1, <1>2, <1>3, Six, Zenon DEF DeclWork
  <2> QED BY <1>1, <1>3, <1>8, <2>1, OtherGoes, Zenon DEF ParseMethod, Goes
<1> QED BY <1>4, <1>5, <1>6, <1>7, <1>8

(* The parameters, the type and the body of a method. *)
LEMMA MethodSteps ==
  ASSUME IInv,
         \/ ParseSelf \/ EndParams \/ NotAParam \/ ParseParam \/ NextParam
         \/ ParseReturns \/ ParseMethodBody
  PROVE  IInv'
<1>1. /\ tokens \in Programs /\ current \in Positions /\ Base \in Nat
      /\ \A c \in Positions : Forward(c) \in Positions /\ SyncStmt(c) \in Positions
  BY PlacesThere, Zenon DEF Places
<1>2. DeclWork
  BY DeclWorkThere
<1>3. /\ "self" \in OtherNames /\ "params" \in OtherNames /\ "after param" \in OtherNames
      /\ "returns" \in OtherNames /\ "method body" \in OtherNames /\ "param" \in NodeKinds
  BY NamesUsed, Zenon
<1>4. <<Params>> \in Seq(PlainWork(Base))
  BY <1>2, One, Zenon DEF DeclWork
<1>5. CASE ParseSelf
  <2>0. Doing("self")
    BY <1>5, Zenon DEF ParseSelf
  <2>1. CASE Cur = "self" /\ Peek(1) = ")"
    <3>1. Makes(Forward(current), Leaf("param", current), <<>>)
      BY <1>5, <2>1 DEF ParseSelf
    <3> QED BY <1>1, <1>3, <2>0, <3>1, NoWork, OtherLeaf, Zenon DEF Makes
  <2>2. CASE Cur = "self" /\ Peek(1) = ","
    <3>1. Step(Forward(Forward(current)), Peek(2) = ")", Leaf("param", current), <<>>)
      BY <1>5, <2>2 DEF ParseSelf
    <3>2. (Peek(2) = ")") \in BOOLEAN
      OBVIOUS
    <3> QED BY <1>1, <1>3, <2>0, <3>1, <3>2, NoWork, OtherLeaf, Zenon
  <2>3. CASE ~(Cur = "self" /\ Peek(1) = ")") /\ ~(Cur = "self" /\ Peek(1) = ",")
    <3>1. Goes(current, <<>>)
      BY <1>5, <2>3 DEF ParseSelf
    <3> QED BY <1>1, <1>3, <2>0, <3>1, NoWork, OtherGoes, Zenon DEF Goes
  <2> QED BY <2>1, <2>2, <2>3, Zenon
<1>6. CASE EndParams
  BY <1>1, <1>3, <1>6, NoWork, OtherGoes, Zenon DEF EndParams, Goes
<1>7. CASE NotAParam
  BY <1>1, <1>3, <1>4, <1>7, OtherGoes, Zenon DEF NotAParam, Reports
<1>8. CASE ParseParam
  <2> DEFINE c == Forward(current)
  <2>1. Doing("params") /\ Forward(c) \in Positions /\ SyncStmt(SyncStmt(c)) \in Positions
    BY <1>1, <1>8, Zenon DEF ParseParam
  <2>2. CASE tokens[c] = ":"
    <3>1. Goes(Forward(c), <<Type, Build("param", current, Base), AfterParam, Params>>)
      BY <1>8, <2>2, Zenon DEF ParseParam
    <3>2. <<Type, Build("param", current, Base), AfterParam, Params>> \in Seq(PlainWork(Base))
      BY <1>1, <1>2, <1>3, Four, Zenon DEF DeclWork
    <3> QED BY <1>3, <2>1, <3>1, <3>2, OtherGoes, Zenon DEF Goes
  <2>3. CASE tokens[c] # ":"
    <3>1. Reports(SyncStmt(SyncStmt(c)), <<Params>>)
      BY <1>8, <2>3, Zenon DEF ParseParam
    <3> QED BY <1>3, <1>4, <2>1, <3>1, OtherGoes, Zenon DEF Reports
  <2> QED BY <2>2, <2>3
<1>9. CASE NextParam
  <2> DEFINE c == IF Cur = "," THEN Forward(current) ELSE current
             trailing == Cur = "," /\ tokens[c] = ")"
  <2>1. c \in Positions
    BY <1>1, Zenon
  <2>2. trailing \in BOOLEAN
    OBVIOUS
  <2>3. Doing("after param") /\ Step(c, trailing, nodes, <<>>)
    BY <1>9, Zenon DEF NextParam
  <2> HIDE DEF c, trailing
  <2> QED BY <1>3, <2>1, <2>2, <2>3, NoWork, OtherGoes, Zenon
<1>10. CASE ParseReturns
  <2>1. <<Type, MethodBody>> \in Seq(PlainWork(Base))
    BY <1>2, Two, Zenon DEF DeclWork
  <2>2. CASE Cur = ":"
    BY <1>1, <1>3, <1>10, <2>1, <2>2, OtherGoes, Zenon DEF ParseReturns, Goes
  <2>3. CASE Cur # ":"
    BY <1>1, <1>3, <1>10, <2>3, NoWork, OtherGoes, Zenon DEF ParseReturns, Reports
  <2> QED BY <2>2, <2>3
<1>11. CASE ParseMethodBody
  <2>1. <<Block>> \in Seq(PlainWork(Base)) /\ <<ExpectOr(";", "stmt")>> \in Seq(PlainWork(Base))
    BY <1>2, One, Zenon DEF DeclWork
  <2>2. CASE Cur = "="
    BY <1>1, <1>3, <1>11, <2>1, <2>2, OtherGoes, Zenon DEF ParseMethodBody, Goes
  <2>3. CASE Cur # "="
    BY <1>1, <1>3, <1>11, <2>1, <2>3, OtherGoes, Zenon DEF ParseMethodBody, Goes
  <2> QED BY <2>2, <2>3
<1> QED BY <1>5, <1>6, <1>7, <1>8, <1>9, <1>10, <1>11

(* Functions. *)
LEMMA FuncSteps ==
  ASSUME IInv,
         \/ ParseFunc \/ EndFuncParams \/ ParseFuncParam \/ NextFuncParam
         \/ ParseFuncReturns \/ ParseFuncBody
  PROVE  IInv'
<1>1. /\ tokens \in Programs /\ current \in Positions /\ Base \in Nat
      /\ \A c \in Positions :
           Forward(c) \in Positions /\ SyncStmt(c) \in Positions /\ SyncDecl(c) \in Positions
  BY PlacesThere, Zenon DEF Places
<1>2. DeclWork
  BY DeclWorkThere
<1>3. /\ "declaration" \in OtherNames /\ "func params" \in OtherNames
      /\ "after func param" \in OtherNames /\ "param" \in NodeKinds /\ "func" \in NodeKinds
  BY NamesUsed, Zenon
<1>4. CASE ParseFunc
  <2>1. <<FuncParams, ExpectOr(")", "decl"), FuncReturns(current, Base)>> \in Seq(PlainWork(Base))
    BY <1>1, <1>2, Three, Zenon DEF DeclWork
  <2> QED BY <1>1, <1>3, <1>4, <2>1, OtherGoes, Zenon DEF ParseFunc, Goes
<1>5. CASE EndFuncParams
  BY <1>1, <1>3, <1>5, NoWork, OtherGoes, Zenon DEF EndFuncParams, Goes
<1>6. CASE ParseFuncParam
  <2> DEFINE c == Forward(current)
  <2>1. Doing("func params") /\ Forward(c) \in Positions /\ SyncStmt(SyncStmt(c)) \in Positions
    BY <1>1, <1>6, Zenon DEF ParseFuncParam
  <2>2. <<AfterFuncParam>> \in Seq(PlainWork(Base))
    BY <1>2, One, Zenon DEF DeclWork
  <2>3. CASE Cur # "name"
    <3>1. Reports(SyncStmt(current), <<AfterFuncParam>>)
      BY <1>6, <2>3 DEF ParseFuncParam
    <3> QED BY <1>1, <1>3, <2>1, <2>2, <3>1, OtherGoes, Zenon DEF Reports
  <2>4. CASE Cur = "name" /\ tokens[c] # ":"
    <3>1. Reports(SyncStmt(SyncStmt(c)), <<AfterFuncParam>>)
      BY <1>6, <2>4 DEF ParseFuncParam
    <3> QED BY <1>3, <2>1, <2>2, <3>1, OtherGoes, Zenon DEF Reports
  <2>5. CASE Cur = "name" /\ tokens[c] = ":"
    <3>1. Goes(Forward(c), <<Type, Build("param", current, Base), AfterFuncParam>>)
      BY <1>6, <2>5 DEF ParseFuncParam
    <3>2. <<Type, Build("param", current, Base), AfterFuncParam>> \in Seq(PlainWork(Base))
      BY <1>1, <1>2, <1>3, Three, Zenon DEF DeclWork
    <3> QED BY <1>3, <2>1, <3>1, <3>2, OtherGoes, Zenon DEF Goes
  <2> QED BY <2>3, <2>4, <2>5, Zenon
<1>7. CASE NextFuncParam
  <2> DEFINE c == Forward(current)
  <2>1. Doing("after func param") /\ c \in Positions
    BY <1>1, <1>7, Zenon DEF NextFuncParam
  <2>2. CASE Cur # ","
    <3>1. Goes(current, <<>>)
      BY <1>7, <2>2 DEF NextFuncParam
    <3> QED BY <1>1, <1>3, <2>1, <3>1, NoWork, OtherGoes, Zenon DEF Goes
  <2>3. CASE Cur = "," /\ tokens[c] = ")"
    <3>1. Reports(c, <<>>)
      BY <1>7, <2>3 DEF NextFuncParam
    <3> QED BY <1>3, <2>1, <3>1, NoWork, OtherGoes, Zenon DEF Reports
  <2>4. CASE Cur = "," /\ tokens[c] # ")"
    <3>1. Goes(c, <<FuncParams>>)
      BY <1>7, <2>4 DEF NextFuncParam
    <3>2. <<FuncParams>> \in Seq(PlainWork(Base))
      BY <1>2, One, Zenon DEF DeclWork
    <3> QED BY <1>3, <2>1, <3>1, <3>2, OtherGoes, Zenon DEF Goes
  <2> QED BY <2>2, <2>3, <2>4, Zenon
<1>8. ASSUME ParseFuncReturns \/ ParseFuncBody
      PROVE  /\ Arg(1) \in Positions /\ todo # <<>> /\ HasBase(todo[1])
             /\ Arg(2) = BaseOf(todo[1]) /\ BaseOf(todo[1]) \in Nat /\ ~Maker(todo[1])
  <2>1. PICK n \in {"func returns", "func body"} : Doing(n) /\ n # "cast"
    BY <1>8 DEF ParseFuncReturns, ParseFuncBody
  <2> QED BY <2>1, Args, Zenon
<1>9. CASE ParseFuncReturns
  <2> DEFINE b == BaseOf(todo[1])
  <2>1. CASE Cur = ":"
    <3>1. Type \in PlainWork(b) /\ FuncBody(Arg(1), b) \in PlainWork(b)
      BY <1>8, <1>9, PlainWorks, Zenon
    <3>2. <<Type, FuncBody(Arg(1), b)>> \in Seq(PlainWork(b))
      BY <3>1, Two, Zenon
    <3>3. Step(Forward(current), FALSE, nodes, <<Type, FuncBody(Arg(1), b)>>)
      BY <1>8, <1>9, <2>1, Zenon DEF ParseFuncReturns, Goes
    <3> QED BY <1>1, <1>8, <1>9, <3>2, <3>3, BaseGoes, Zenon
  <2>2. CASE Cur # ":"
    <3>1. Step(SyncDecl(SyncStmt(current)), TRUE, Below(b), <<>>)
      BY <1>8, <1>9, <2>2, Zenon DEF ParseFuncReturns
    <3> QED BY <1>1, <1>8, <1>9, <3>1, NoWork, BaseCut, Zenon
  <2> QED BY <2>1, <2>2
<1>10. CASE ParseFuncBody
  <2> DEFINE b == BaseOf(todo[1])
             built == Build("func", Arg(1), b)
  <2>0. Block \in PlainWork(b) /\ built \in PlainWork(b)
    BY <1>3, <1>8, <1>10, PlainWorks, NamedWorks, Zenon
  <2>1. CASE Cur = "="
    <3>1. Goes(Forward(current), <<Block, Build("func", Arg(1), Arg(2))>>)
      BY <1>10, <2>1 DEF ParseFuncBody
    <3>2. <<Block, built>> \in Seq(PlainWork(b))
      BY <2>0, Two, Zenon
    <3>3. Step(Forward(current), FALSE, nodes, <<Block, built>>)
      BY <1>8, <1>10, <3>1, Zenon DEF Goes
    <3> QED BY <1>1, <1>8, <1>10, <3>2, <3>3, BaseGoes, Zenon
  <2>2. CASE Cur = ";"
    <3>1. Goes(Forward(current), <<Build("func", Arg(1), Arg(2))>>)
      BY <1>10, <2>2 DEF ParseFuncBody
    <3>2. <<built>> \in Seq(PlainWork(b))
      BY <2>0, One, Zenon
    <3>3. Step(Forward(current), FALSE, nodes, <<built>>)
      BY <1>8, <1>10, <3>1, Zenon DEF Goes
    <3> QED BY <1>1, <1>8, <1>10, <3>2, <3>3, BaseGoes, Zenon
  <2>3. CASE Cur \notin {"=", ";"}
    <3>1. Step(SyncDecl(SyncStmt(current)), TRUE, Below(Arg(2)), <<>>)
      BY <1>10, <2>3 DEF ParseFuncBody
    <3>2. Step(SyncDecl(SyncStmt(current)), TRUE, Below(b), <<>>)
      BY <1>8, <1>10, <3>1, Zenon
    <3> QED BY <1>1, <1>8, <1>10, <3>2, NoWork, BaseCut, Zenon
  <2> QED BY <2>1, <2>2, <2>3, Zenon
<1> QED BY <1>4, <1>5, <1>6, <1>7, <1>9, <1>10

-----------------------------------------------------------------------------
(* The invariant.                                                          *)

LEMMA InitHolds == Init => IInv
<1> SUFFICES ASSUME Init PROVE IInv
  OBVIOUS
<1>1. /\ tokens \in Programs /\ current = 1 /\ reported \in BOOLEAN /\ crashed = FALSE
      /\ todo = <<Program>> /\ nodes = <<>>
  BY DEF Init
<1>2. current \in Positions
  <2>1. Len(tokens) \in Nat /\ Len(tokens) \in Positions
    BY <1>1, TokenFacts
  <2> QED BY <1>1, <2>1 DEF Positions
<1>3. Program \in Tasks /\ ~HasBase(Program) /\ ~OnTree(Program)
  BY NamedTasks, Zenon DEF Mere
<1>4. todo \in Seq(Tasks) /\ \A i \in DOMAIN todo : todo[i] = Program
  BY <1>1, <1>3
<1>5. nodes \in Seq(NodeSet) /\ DOMAIN nodes = {}
  BY <1>1
<1>6. TypeInv
  BY <1>1, <1>2, <1>4, <1>5, Zenon DEF TypeInv
<1>7. Sound(nodes)
  BY <1>5, Zenon DEF Sound
<1>8. BasesHold(nodes, todo) /\ TreesAwaited(nodes, todo)
  BY <1>3, <1>4, Zenon DEF BasesHold, TreesAwaited
<1> QED BY <1>6, <1>7, <1>8, Zenon DEF IInv

LEMMA StutterKeeps == ASSUME IInv, UNCHANGED vars PROVE IInv'
<1>1. /\ tokens' = tokens /\ current' = current /\ reported' = reported /\ crashed' = crashed
      /\ todo' = todo /\ nodes' = nodes
  BY DEF vars
<1>2. Positions' = Positions /\ NodeSet' = NodeSet /\ Tasks' = Tasks
  BY <1>1 DEF Positions, NodeSet, Tasks
<1>3. TypeInv'
  BY <1>1, <1>2 DEF IInv, TypeInv
<1>4. Sound(nodes)' /\ BasesHold(nodes, todo)' /\ TreesAwaited(nodes, todo)'
  BY <1>1 DEF IInv
<1> QED BY <1>3, <1>4, Zenon DEF IInv

LEMMA NextKeeps == ASSUME IInv, [Next]_vars PROVE IInv'
<1>1. \/ ExprStep
      \/ (\/ EmptyBlock \/ NoStmt \/ ParseExprStmt \/ ParseBlock \/ NoBlock \/ EndStmts \/ NextStmt
          \/ ParseReturn \/ ParseExit)
      \/ (\/ ParseDecl \/ ParseIf \/ ParseThen \/ ParseElse \/ ParseWhile \/ ParseDoWhile
          \/ ParseDoCond \/ ParseFor \/ ParseForInit \/ ParseClause)
      \/ (\/ NextDeclaration \/ EndProgram \/ NotADeclaration \/ ParseBlueprint
          \/ EndParents \/ NotAParent \/ ParseParent \/ NextParent)
      \/ (EndAliases \/ NotAnAlias \/ ParseAlias)
      \/ (ParseBody \/ EndMembers \/ NotAMember \/ ParseField \/ ParseMethod)
      \/ (\/ ParseSelf \/ EndParams \/ NotAParam \/ ParseParam \/ NextParam
          \/ ParseReturns \/ ParseMethodBody)
      \/ (\/ ParseFunc \/ EndFuncParams \/ ParseFuncParam \/ NextFuncParam
          \/ ParseFuncReturns \/ ParseFuncBody)
      \/ UNCHANGED vars
  BY Zenon DEF Next, Stays
<1> QED BY <1>1, ExprSteps, SimpleStmtSteps, ControlStmtSteps, FileSteps, AliasSteps, BodySteps,
           MethodSteps, FuncSteps, StutterKeeps

LEMMA InvariantHolds == Spec => []IInv
<1>1. IInv /\ [Next]_vars => IInv'
  BY NextKeeps
<1> QED BY InitHolds, <1>1, PTL DEF Spec

(* Whatever the file, the parser is always at one of its tokens: no        *)
(* recovery, no lookahead and no step back after a failed cast leads it    *)
(* past the EOF (_advance, _peek, _parser_sync).                           *)
THEOREM TypeCorrect == Spec => []TypeInv
<1>1. IInv => TypeInv
  BY Zenon DEF IInv
<1> QED BY <1>1, InvariantHolds, PTL

-----------------------------------------------------------------------------
(* Nothing is lost: the invariant.                                         *)

Worded == {"name", "self", "literal", "prim"}
Holes == {"error", "none"}

(* No brace closes the list of aliases at the position before i.           *)
Closes(t) == t = "}"
InList(p, at, i) ==
  p[at + 1] = "{" /\ at + 1 < i /\ \A j \in at + 1 .. i : ~Closes(p[j])

(* A node of this kind at this position stands for the name or literal i.  *)
Marks(p, kind, at, i) ==
  \/ kind \in Named /\ (at = i \/ (p[at] = "." /\ i = at + 1))
  \/ kind = "inherit" /\ InList(p, at, i)

(* A call in progress that has read it and has not made its node yet.      *)
Holder(task) == task[1] \in {"build", "body", "func returns", "func body", "anon field"}
Holds(p, task, i) ==
  \/ task[1] = "build" /\ Marks(p, task[2], task[3], i)
  \/ task[1] \in {"body", "func returns", "func body", "anon field"} /\ task[2] = i

Marked(p, tree, b, i) == \E k \in 1 .. b : Marks(p, tree[k].node, tree[k].at, i)
Held(p, tasks, m, i) == \E k \in DOMAIN tasks : k > m /\ Holds(p, tasks[k], i)

(* What has been read before c is in the first b nodes, or remembered by a *)
(* call outside the m innermost.                                           *)
Covered(p, c, tree, b, tasks, m) ==
  \A i \in 1 .. c - 1 : p[i] \in Worded => Marked(p, tree, b, i) \/ Held(p, tasks, m, i)

(* What a cast may go back to.                                             *)
IsCast(task) == task[1] = "cast"
CastsCovered(p, tree, tasks) ==
  \A m \in DOMAIN tasks :
    IsCast(tasks[m]) => Covered(p, tasks[m][2], tree, tasks[m][3], tasks, m)

(* These calls report the end of the file where they want something.       *)
Notices(task) == (task[1] = "expect" /\ task[2] # "EOF") \/ task[1] \in {"stmts", "anon"}

(* These may leave a hole there, and each is inside a call that notices,   *)
(* and not by way of a cast, which could go back.                          *)
Opens(task) ==
  task[1] \in {"expr", "led", "default", "stmt", "else", "comma", "items", "for init", "clause",
               "cast", "then"}
Seen(tasks, m) ==
  \E j \in DOMAIN tasks : j >= m /\ Notices(tasks[j]) /\ \A l \in m .. j - 1 : ~IsCast(tasks[l])
Watched(tasks) == \A m \in DOMAIN tasks : Opens(tasks[m]) => Seen(tasks, m + 1)

HolesSeen(p, c, tree, tasks) ==
  \A k \in DOMAIN tree : tree[k].node \in Holes => c = Len(p) /\ Seen(tasks, 1)

(* A list of aliases is the innermost call, in an inheritance whose brace  *)
(* is open.                                                                *)
IsAliases(task) == task[1] = "aliases"
AliasesHeld(p, c, tasks) ==
  \A m \in DOMAIN tasks :
    IsAliases(tasks[m]) =>
      /\ m = 1
      /\ \E k \in DOMAIN tasks :
           /\ k > 1 /\ tasks[k][1] = "build" /\ tasks[k][2] = "inherit"
           /\ p[tasks[k][3] + 1] = "{" /\ tasks[k][3] + 1 < c
           /\ \A j \in tasks[k][3] + 1 .. c - 1 : ~Closes(p[j])

FormKnown(task) ==
  /\ task[1] = "items" => task[2] # "indexed"
  /\ task[1] = "comma" => task[2][2] # "indexed"
  /\ task[1] = "build" => task[2] \notin Holes
  /\ task[1] = "expect" => task[2] \notin Worded
FormsKnown(tasks) == \A m \in DOMAIN tasks : FormKnown(tasks[m])

Complete(p, c, tree, tasks) ==
  /\ Covered(p, c, tree, Len(tree), tasks, 0)
  /\ CastsCovered(p, tree, tasks)
  /\ Watched(tasks)
  /\ HolesSeen(p, c, tree, tasks)
  /\ AliasesHeld(p, c, tasks)
  /\ FormsKnown(tasks)

Silent == ~reported /\ ~crashed /\ ~HasIndexed

CompleteInv ==
  /\ reported \/ \A i \in DOMAIN tokens : tokens[i] # "ERROR"
  /\ Silent => Complete(tokens, current, nodes, todo)

-----------------------------------------------------------------------------
(* What a step does to it.                                                 *)

Work(w) == \E S : w \in Seq(S)

(* The sequence r begins with w and goes on as s after its first element.  *)
Joins(w, s, r) ==
  /\ Len(w) \in Nat /\ Len(s) \in Nat /\ Len(s) > 0 /\ Len(r) = Len(w) + Len(s) - 1
  /\ DOMAIN w = 1 .. Len(w) /\ DOMAIN s = 1 .. Len(s) /\ DOMAIN r = 1 .. Len(r)
  /\ \A i \in 1 .. Len(w) : r[i] = w[i]
  /\ \A i \in 2 .. Len(s) : Len(w) + i - 1 \in 1 .. Len(r) /\ r[Len(w) + i - 1] = s[i]
  /\ \A i \in 1 .. Len(r) : \/ i \in 1 .. Len(w)
                            \/ i - Len(w) + 1 \in 2 .. Len(s) /\ r[i] = s[i - Len(w) + 1]

(* What a step leaves comes before the rest. *)
LEMMA JoinFacts ==
  ASSUME NEW s \in Seq(Tasks), s # <<>>, NEW w, Work(w)
  PROVE  Joins(w, s, w \o Tail(s))
<1>1. PICK S : w \in Seq(S)
  BY DEF Work
<1> DEFINE T == S \cup Tasks
<1>2. w \in Seq(T) /\ s \in Seq(T)
  BY <1>1
<1> HIDE DEF T
<1> DEFINE v == Tail(s)
           r == w \o v
<1>3. v \in Seq(T) /\ Len(v) = Len(s) - 1 /\ Len(s) \in Nat /\ Len(s) > 0
      /\ \A i \in 1 .. Len(v) : v[i] = s[i + 1]
  BY <1>2
<1> HIDE DEF v
<1>4. /\ r \in Seq(T) /\ Len(w) \in Nat /\ Len(v) \in Nat /\ Len(r) = Len(w) + Len(v)
      /\ \A i \in 1 .. Len(w) : r[i] = w[i]
      /\ \A i \in 1 .. Len(v) : r[Len(w) + i] = v[i]
  <2>1. /\ r \in Seq(T) /\ Len(r) = Len(w) + Len(v)
        /\ \A i \in 1 .. Len(w) + Len(v) : r[i] = IF i <= Len(w) THEN w[i] ELSE v[i - Len(w)]
    BY <1>2, <1>3, ConcatProperties, Zenon
  <2>2. Len(w) \in Nat /\ Len(v) \in Nat
    BY <1>2, <1>3
  <2> HIDE DEF r
  <2>3. ASSUME NEW i \in 1 .. Len(v) PROVE r[Len(w) + i] = v[i]
    <3>1. Len(w) + i \in 1 .. Len(w) + Len(v) /\ ~(Len(w) + i <= Len(w)) /\ (Len(w) + i) - Len(w) = i
      BY <2>2
    <3> QED BY <2>1, <3>1
  <2>4. \A i \in 1 .. Len(w) : r[i] = w[i]
    BY <2>1, <2>2
  <2> QED BY <2>1, <2>2, <2>3, <2>4
<1>5. DOMAIN w = 1 .. Len(w) /\ DOMAIN s = 1 .. Len(s) /\ DOMAIN r = 1 .. Len(r)
  BY <1>2, <1>4
<1> HIDE DEF r
<1>6. \A i \in 2 .. Len(s) : Len(w) + i - 1 \in 1 .. Len(r) /\ r[Len(w) + i - 1] = s[i]
  <2> SUFFICES ASSUME NEW i \in 2 .. Len(s)
               PROVE  Len(w) + i - 1 \in 1 .. Len(r) /\ r[Len(w) + i - 1] = s[i]
    OBVIOUS
  <2>1. i - 1 \in 1 .. Len(v) /\ (i - 1) + 1 = i /\ Len(w) + (i - 1) = Len(w) + i - 1
    BY <1>3, <1>4
  <2>2. r[Len(w) + (i - 1)] = v[i - 1] /\ v[i - 1] = s[(i - 1) + 1]
    BY <1>3, <1>4, <2>1
  <2>3. Len(w) + i - 1 \in 1 .. Len(r)
    BY <1>3, <1>4
  <2> QED BY <2>1, <2>2, <2>3
<1>7. \A i \in 1 .. Len(r) : \/ i \in 1 .. Len(w)
                             \/ i - Len(w) + 1 \in 2 .. Len(s) /\ r[i] = s[i - Len(w) + 1]
  <2> SUFFICES ASSUME NEW i \in 1 .. Len(r), i \notin 1 .. Len(w)
               PROVE  i - Len(w) + 1 \in 2 .. Len(s) /\ r[i] = s[i - Len(w) + 1]
    OBVIOUS
  <2>1. i - Len(w) + 1 \in 2 .. Len(s) /\ Len(w) + (i - Len(w) + 1) - 1 = i
    BY <1>3, <1>4
  <2> QED BY <1>6, <2>1
<1>8. Len(r) = Len(w) + Len(s) - 1
  BY <1>3, <1>4
<1> QED BY <1>3, <1>4, <1>5, <1>6, <1>7, <1>8 DEF Joins, r, v

(* The nodes that a step has added.                                        *)
Grown(tree, more, new) ==
  /\ Len(tree) \in Nat /\ Len(more) \in Nat /\ Len(tree) <= Len(more)
  /\ DOMAIN tree = 1 .. Len(tree) /\ DOMAIN more = 1 .. Len(more)
  /\ \A k \in 1 .. Len(tree) : more[k] = tree[k]
  /\ \A k \in 1 .. Len(more) : k \in 1 .. Len(tree) \/ more[k] \in new
  /\ \A n \in new : \E k \in 1 .. Len(more) : more[k] = n

LEMMA GrownFacts ==
  ASSUME NEW tree \in Seq(NodeSet)
  PROVE  /\ Grown(tree, tree, {})
         /\ \A n : Grown(tree, Append(tree, n), {n})
<1>1. Grown(tree, tree, {})
  BY DEF Grown
<1>2. ASSUME NEW n PROVE Grown(tree, Append(tree, n), {n})
  <2> DEFINE T == NodeSet \cup {n}
             more == Append(tree, n)
  <2>1. tree \in Seq(T) /\ n \in T
    OBVIOUS
  <2> HIDE DEF T
  <2>2. /\ Len(tree) \in Nat /\ DOMAIN tree = 1 .. Len(tree)
        /\ more \in Seq(T) /\ Len(more) = Len(tree) + 1 /\ DOMAIN more = 1 .. Len(more)
        /\ more[Len(tree) + 1] = n /\ \A k \in 1 .. Len(tree) : more[k] = tree[k]
    BY <2>1
  <2> HIDE DEF more
  <2>3. Grown(tree, more, {n})
    BY <2>2 DEF Grown
  <2> QED BY <2>3 DEF more
<1> QED BY <1>1, <1>2

(* Where a name or literal that has been read is kept after a step. *)
LEMMA HeldAfter ==
  ASSUME NEW p, NEW w, NEW s, NEW r, Joins(w, s, r), NEW m \in 1 .. Len(s), NEW i,
         Held(p, s, m, i)
  PROVE  Held(p, r, Len(w) + m - 1, i)
<1>1. PICK k \in 2 .. Len(s) : k > m /\ Holds(p, s[k], i)
  BY DEF Joins, Held
<1>2. Len(w) + k - 1 \in 1 .. Len(r) /\ r[Len(w) + k - 1] = s[k]
  BY DEF Joins
<1>3. Len(w) + k - 1 > Len(w) + m - 1 /\ Len(w) + k - 1 \in DOMAIN r
  BY <1>1, <1>2 DEF Joins
<1> QED BY <1>1, <1>2, <1>3 DEF Held

LEMMA MarkedAfter ==
  ASSUME NEW p, NEW tree, NEW more, NEW new, Grown(tree, more, new),
         NEW b \in 0 .. Len(tree), NEW i, Marked(p, tree, b, i)
  PROVE  Marked(p, more, b, i) /\ Marked(p, more, Len(more), i)
<1>1. PICK k \in 1 .. b : Marks(p, tree[k].node, tree[k].at, i)
  BY DEF Marked
<1>2. k \in 1 .. Len(tree) /\ k \in 1 .. Len(more) /\ more[k] = tree[k]
  BY DEF Grown
<1>3. Marks(p, more[k].node, more[k].at, i)
  BY <1>1, <1>2
<1> QED BY <1>2, <1>3 DEF Marked

(* The first element of a sequence of work holds it, or a later one. *)
LEMMA HeldSplit ==
  ASSUME NEW p, NEW w, NEW s, NEW r, Joins(w, s, r), NEW i, Held(p, s, 0, i)
  PROVE  Holds(p, s[1], i) \/ Held(p, s, 1, i)
<1>1. PICK k \in 1 .. Len(s) : Holds(p, s[k], i)
  BY DEF Held, Joins
<1>2. CASE k = 1
  BY <1>1, <1>2
<1>3. CASE k > 1
  BY <1>1, <1>3 DEF Held, Joins
<1> QED BY <1>2, <1>3

(* What a step reads is in the work that it leaves or in the nodes that it *)
(* adds, or some other call has it.                                        *)
Fresh(p, c, d, s, w, new) ==
  \A i \in 1 .. d - 1 :
    p[i] \in Worded /\ (c <= i \/ Holds(p, s[1], i)) =>
      \/ \E k \in 1 .. Len(w) : Holds(p, w[k], i)
      \/ \E n \in new : Marks(p, n.node, n.at, i)
      \/ Held(p, s, 1, i)

LEMMA CoveredAfter ==
  ASSUME NEW p, NEW c \in Nat, NEW d \in Nat, NEW s, NEW w, NEW r, Joins(w, s, r),
         NEW tree, NEW more, NEW new, Grown(tree, more, new),
         Covered(p, c, tree, Len(tree), s, 0), Fresh(p, c, d, s, w, new)
  PROVE  Covered(p, d, more, Len(more), r, 0)
<1> SUFFICES ASSUME NEW i \in 1 .. d - 1, p[i] \in Worded
             PROVE  Marked(p, more, Len(more), i) \/ Held(p, r, 0, i)
  BY DEF Covered
<1>1. Len(w) \in Nat /\ Len(s) \in Nat /\ 1 \in 1 .. Len(s)
  BY DEF Joins
<1>2. CASE Held(p, s, 1, i)
  <2>1. Held(p, r, Len(w) + 1 - 1, i)
    BY <1>1, <1>2, HeldAfter
  <2>2. PICK k \in DOMAIN r : k > Len(w) + 1 - 1 /\ Holds(p, r[k], i)
    BY <2>1 DEF Held
  <2>3. k > 0
    BY <1>1, <2>2 DEF Joins
  <2> QED BY <2>2, <2>3 DEF Held
<1>3. CASE Marked(p, tree, Len(tree), i)
  <2>1. Len(tree) \in 0 .. Len(tree)
    BY DEF Grown
  <2> QED BY <1>3, <2>1, MarkedAfter
<1>4. CASE c <= i \/ Holds(p, s[1], i)
  <2>1. CASE \E k \in 1 .. Len(w) : Holds(p, w[k], i)
    <3>1. PICK k \in 1 .. Len(w) : Holds(p, w[k], i)
      BY <2>1
    <3>2. k \in DOMAIN r /\ k > 0 /\ r[k] = w[k]
      BY <3>1 DEF Joins
    <3> QED BY <3>1, <3>2 DEF Held
  <2>2. CASE \E n \in new : Marks(p, n.node, n.at, i)
    <3>1. PICK n \in new : Marks(p, n.node, n.at, i)
      BY <2>2
    <3>2. PICK k \in 1 .. Len(more) : more[k] = n
      BY <3>1 DEF Grown
    <3>3. Marks(p, more[k].node, more[k].at, i)
      BY <3>1, <3>2
    <3> QED BY <3>3 DEF Marked
  <2> QED BY <1>2, <1>4, <2>1, <2>2 DEF Fresh
<1>5. CASE c > i /\ ~Holds(p, s[1], i)
  <2>1. Marked(p, tree, Len(tree), i) \/ Held(p, s, 0, i)
    BY <1>5 DEF Covered
  <2> QED BY <1>2, <1>3, <1>5, <2>1, HeldSplit
<1> QED BY <1>4, <1>5

(* A cast around remembers what it did; a new one remembers this place.    *)
NewCasts(d, more, w) ==
  \A m \in 1 .. Len(w) :
    IsCast(w[m]) => /\ w[m][2] = d /\ w[m][3] = Len(more)
                    /\ \A k \in 1 .. m : ~Holder(w[k])

LEMMA CastsAfter ==
  ASSUME NEW p, NEW d \in Nat, NEW s, NEW w, NEW r, Joins(w, s, r),
         NEW tree, NEW more, NEW new, Grown(tree, more, new),
         CastsCovered(p, tree, s), Covered(p, d, more, Len(more), r, 0),
         \A m \in 2 .. Len(s) : IsCast(s[m]) => s[m][3] \in 0 .. Len(tree),
         NewCasts(d, more, w)
  PROVE  CastsCovered(p, more, r)
<1> SUFFICES ASSUME NEW m \in DOMAIN r, IsCast(r[m])
             PROVE  Covered(p, r[m][2], more, r[m][3], r, m)
  BY DEF CastsCovered
<1>1. m \in 1 .. Len(r) /\ Len(w) \in Nat /\ Len(s) \in Nat
  BY DEF Joins
<1>2. CASE m \in 1 .. Len(w)
  <2>1. r[m] = w[m] /\ r[m][2] = d /\ r[m][3] = Len(more) /\ \A k \in 1 .. m : ~Holder(w[k])
    BY <1>2 DEF NewCasts, Joins
  <2> SUFFICES ASSUME NEW i \in 1 .. d - 1, p[i] \in Worded, Held(p, r, 0, i)
               PROVE  Held(p, r, m, i)
    BY <2>1 DEF Covered
  <2>2. PICK k \in DOMAIN r : k > 0 /\ Holds(p, r[k], i)
    BY DEF Held
  <2>3. CASE k <= m
    <3>1. k \in 1 .. m /\ k \in 1 .. Len(w) /\ r[k] = w[k]
      BY <1>1, <1>2, <2>2, <2>3 DEF Joins
    <3>2. ~Holder(w[k])
      BY <2>1, <3>1
    <3> QED BY <2>2, <3>1, <3>2 DEF Holder, Holds
  <2>4. CASE k > m
    BY <2>2, <2>4 DEF Held
  <2>5. k \in Nat /\ m \in Nat
    BY <1>1, <2>2 DEF Joins
  <2> QED BY <2>3, <2>4, <2>5
<1>3. CASE m - Len(w) + 1 \in 2 .. Len(s) /\ r[m] = s[m - Len(w) + 1]
  <2> DEFINE l == m - Len(w) + 1
  <2>1. l \in 2 .. Len(s) /\ r[m] = s[l] /\ l \in DOMAIN s /\ l \in 1 .. Len(s)
    BY <1>1, <1>3 DEF Joins
  <2>2. Len(w) + l - 1 = m
    BY <1>1
  <2> HIDE DEF l
  <2>3. Covered(p, s[l][2], tree, s[l][3], s, l) /\ s[l][3] \in 0 .. Len(tree)
    BY <2>1 DEF CastsCovered
  <2> SUFFICES ASSUME NEW i \in 1 .. s[l][2] - 1, p[i] \in Worded
               PROVE  Marked(p, more, s[l][3], i) \/ Held(p, r, m, i)
    BY <2>1 DEF Covered
  <2>4. Marked(p, tree, s[l][3], i) \/ Held(p, s, l, i)
    BY <2>3 DEF Covered
  <2> QED BY <2>1, <2>2, <2>3, <2>4, MarkedAfter, HeldAfter
<1> QED BY <1>1, <1>2, <1>3 DEF Joins


(* In the work, what opens is inside something that notices, or inside the *)
(* calls that the first one is in.                                         *)
Castless(w, m) == \A l \in m .. Len(w) : ~IsCast(w[l])
Guarded(s, w) ==
  \A m \in 1 .. Len(w) :
    Opens(w[m]) => \/ /\ Castless(w, 1)
                      /\ \E j \in m + 1 .. Len(w) : Notices(w[j])
                   \/ Opens(s[1]) /\ Castless(w, m + 1)

(* What was seen from a call around is still seen, and from the work if no *)
(* cast is in between.                                                     *)
LEMMA SeenAfter ==
  ASSUME NEW s, NEW w, NEW r, Joins(w, s, r), NEW m \in 2 .. Len(s) + 1, Seen(s, m)
  PROVE  /\ Seen(r, Len(w) + m - 1)
         /\ m = 2 => \A l \in 1 .. Len(w) + 1 : Castless(w, l) => Seen(r, l)
<1>1. PICK j \in DOMAIN s : j >= m /\ Notices(s[j]) /\ \A l \in m .. j - 1 : ~IsCast(s[l])
  BY DEF Seen
<1>2. /\ j \in 2 .. Len(s) /\ Len(w) \in Nat /\ Len(s) \in Nat /\ DOMAIN r = 1 .. Len(r)
  BY <1>1 DEF Joins
<1>3. Len(w) + j - 1 \in 1 .. Len(r) /\ r[Len(w) + j - 1] = s[j]
  BY <1>2 DEF Joins
<1>4. \A l \in Len(w) + m - 1 .. (Len(w) + j - 1) - 1 : ~IsCast(r[l])
  <2> SUFFICES ASSUME NEW l \in Len(w) + m - 1 .. (Len(w) + j - 1) - 1 PROVE ~IsCast(r[l])
    OBVIOUS
  <2>1. l - Len(w) + 1 \in m .. j - 1 /\ l - Len(w) + 1 \in 2 .. Len(s)
        /\ Len(w) + (l - Len(w) + 1) - 1 = l
    BY <1>2
  <2>2. r[l] = s[l - Len(w) + 1]
    BY <2>1 DEF Joins
  <2> QED BY <1>1, <2>1, <2>2
<1>5. Seen(r, Len(w) + m - 1)
  <2>1. Len(w) + j - 1 >= Len(w) + m - 1
    BY <1>1, <1>2
  <2> QED BY <1>1, <1>2, <1>3, <1>4, <2>1 DEF Seen
<1>6. ASSUME m = 2, NEW l \in 1 .. Len(w) + 1, Castless(w, l) PROVE Seen(r, l)
  <2>1. \A k \in l .. (Len(w) + j - 1) - 1 : ~IsCast(r[k])
    <3> SUFFICES ASSUME NEW k \in l .. (Len(w) + j - 1) - 1 PROVE ~IsCast(r[k])
      OBVIOUS
    <3>1. CASE k <= Len(w)
      <4>1. k \in 1 .. Len(w) /\ k \in l .. Len(w)
        BY <1>2, <3>1
      <4> QED BY <1>6, <4>1 DEF Castless, Joins
    <3>2. CASE k > Len(w)
      <4>1. k \in Len(w) + m - 1 .. (Len(w) + j - 1) - 1
        BY <1>2, <1>6, <3>2
      <4> QED BY <1>4, <4>1
    <3> QED BY <1>2, <3>1, <3>2
  <2>2. Len(w) + j - 1 >= l
    BY <1>2
  <2> QED BY <1>1, <1>2, <1>3, <2>1, <2>2 DEF Seen
<1> QED BY <1>5, <1>6

LEMMA WatchedAfter ==
  ASSUME NEW s, NEW w, NEW r, Joins(w, s, r), Watched(s), Guarded(s, w)
  PROVE  Watched(r)
<1> SUFFICES ASSUME NEW m \in 1 .. Len(r), Opens(r[m]) PROVE Seen(r, m + 1)
  BY DEF Watched, Joins
<1>1. Len(w) \in Nat /\ Len(s) \in Nat /\ Len(s) > 0 /\ DOMAIN s = 1 .. Len(s) /\ DOMAIN r = 1 .. Len(r)
      /\ Len(r) = Len(w) + Len(s) - 1
  BY DEF Joins
<1>2. CASE m \in 1 .. Len(w)
  <2>1. r[m] = w[m]
    BY <1>2 DEF Joins
  <2>2. CASE Castless(w, 1) /\ \E j \in m + 1 .. Len(w) : Notices(w[j])
    <3>1. PICK j \in m + 1 .. Len(w) : Notices(w[j])
      BY <2>2
    <3>2. j \in 1 .. Len(w) /\ j \in 1 .. Len(r) /\ r[j] = w[j] /\ j >= m + 1
      BY <1>1, <1>2, <3>1 DEF Joins
    <3>3. \A l \in m + 1 .. j - 1 : ~IsCast(r[l])
      <4> SUFFICES ASSUME NEW l \in m + 1 .. j - 1 PROVE ~IsCast(r[l])
        OBVIOUS
      <4>1. l \in 1 .. Len(w)
        BY <1>1, <1>2
      <4> QED BY <2>2, <4>1 DEF Castless, Joins
    <3> QED BY <1>1, <3>1, <3>2, <3>3 DEF Seen
  <2>3. CASE Opens(s[1]) /\ Castless(w, m + 1)
    <3>1. Seen(s, 2)
      <4>1. 1 \in DOMAIN s /\ 1 + 1 = 2
        BY <1>1
      <4> QED BY <2>3, <4>1 DEF Watched
    <3>2. 2 \in 2 .. Len(s) + 1 /\ m + 1 \in 1 .. Len(w) + 1
      BY <1>1, <1>2
    <3> QED BY <2>3, <3>1, <3>2, SeenAfter
  <2> QED BY <1>2, <2>1, <2>2, <2>3 DEF Guarded
<1>3. CASE m - Len(w) + 1 \in 2 .. Len(s) /\ r[m] = s[m - Len(w) + 1]
  <2>1. PICK l \in 2 .. Len(s) : l = m - Len(w) + 1 /\ r[m] = s[l]
    BY <1>3
  <2>2. l \in DOMAIN s /\ l + 1 \in 2 .. Len(s) + 1 /\ Len(w) + (l + 1) - 1 = m + 1
    BY <1>1, <2>1
  <2>3. Seen(s, l + 1)
    BY <2>1, <2>2 DEF Watched
  <2> QED BY <2>2, <2>3, SeenAfter
<1> QED BY <1>2, <1>3 DEF Joins

(* A hole is made at the end of the file only, by a call that opens.       *)
NewHoles(p, c, s, w, new) ==
  \A n \in new : n.node \in Holes => Opens(s[1]) /\ w = <<>> /\ c = Len(p)

LEMMA HolesAfter ==
  ASSUME NEW p, Len(p) \in Nat, NEW c \in 1 .. Len(p), NEW d \in c .. Len(p),
         NEW s, NEW w, NEW r, Joins(w, s, r),
         NEW tree, NEW more, NEW new, Grown(tree, more, new),
         HolesSeen(p, c, tree, s), Watched(s), NewHoles(p, c, s, w, new),
         c = Len(p) => ~Notices(s[1]) /\ Castless(w, 1)
  PROVE  HolesSeen(p, d, more, r)
<1> SUFFICES ASSUME NEW k \in 1 .. Len(more), more[k].node \in Holes
             PROVE  d = Len(p) /\ Seen(r, 1)
  BY DEF HolesSeen, Grown
<1>1. Len(w) \in Nat /\ Len(s) \in Nat /\ Len(s) > 0 /\ DOMAIN s = 1 .. Len(s)
  BY DEF Joins
<1>2. c = Len(p) /\ Seen(s, 2)
  <2>1. CASE k \in 1 .. Len(tree)
    <3>1. c = Len(p) /\ Seen(s, 1)
      BY <2>1 DEF HolesSeen, Grown
    <3>2. PICK j \in DOMAIN s : j >= 1 /\ Notices(s[j]) /\ \A l \in 1 .. j - 1 : ~IsCast(s[l])
      BY <3>1 DEF Seen
    <3>3. j # 1
      BY <3>1, <3>2
    <3>4. j >= 2 /\ \A l \in 2 .. j - 1 : ~IsCast(s[l])
      BY <1>1, <3>2, <3>3
    <3> QED BY <3>1, <3>2, <3>4 DEF Seen
  <2>2. CASE more[k] \in new
    <3>1. Opens(s[1]) /\ c = Len(p)
      BY <2>2 DEF NewHoles
    <3>2. 1 \in DOMAIN s /\ 1 + 1 = 2
      BY <1>1
    <3> QED BY <3>1, <3>2 DEF Watched
  <2> QED BY <2>1, <2>2 DEF Grown
<1>3. d = Len(p)
  BY <1>2
<1>4. Castless(w, 1) /\ 1 \in 1 .. Len(w) + 1 /\ 2 \in 2 .. Len(s) + 1
  BY <1>1, <1>2
<1> QED BY <1>2, <1>3, <1>4, SeenAfter

LEMMA FormsAfter ==
  ASSUME NEW s, NEW w, NEW r, Joins(w, s, r), FormsKnown(s), \A m \in 1 .. Len(w) : FormKnown(w[m])
  PROVE  FormsKnown(r)
<1> SUFFICES ASSUME NEW m \in 1 .. Len(r) PROVE FormKnown(r[m])
  BY DEF FormsKnown, Joins
<1>1. CASE m \in 1 .. Len(w)
  BY <1>1 DEF Joins
<1>2. CASE m - Len(w) + 1 \in 2 .. Len(s) /\ r[m] = s[m - Len(w) + 1]
  <2>1. m - Len(w) + 1 \in DOMAIN s
    BY <1>2 DEF Joins
  <2> QED BY <1>2, <2>1 DEF FormsKnown
<1> QED BY <1>1, <1>2 DEF Joins

LEMMA AliasesAfter ==
  ASSUME NEW p, NEW c, NEW d, NEW s, NEW w, NEW r, Joins(w, s, r), AliasesHeld(p, c, s),
         \A m \in 1 .. Len(w) : ~IsAliases(w[m])
  PROVE  AliasesHeld(p, d, r)
<1> SUFFICES ASSUME NEW m \in 1 .. Len(r), IsAliases(r[m]) PROVE FALSE
  BY DEF AliasesHeld, Joins
<1>1. CASE m \in 1 .. Len(w)
  BY <1>1 DEF Joins
<1>2. CASE m - Len(w) + 1 \in 2 .. Len(s) /\ r[m] = s[m - Len(w) + 1]
  <2>1. PICK l \in 2 .. Len(s) : r[m] = s[l]
    BY <1>2
  <2>2. l \in DOMAIN s /\ l # 1
    BY <2>1 DEF Joins
  <2> QED BY <2>1, <2>2 DEF AliasesHeld
<1> QED BY <1>1, <1>2 DEF Joins

-----------------------------------------------------------------------------
(* The steps that report nothing.                                          *)

Quiet == IInv /\ CompleteInv /\ Silent

LEMMA QuietFacts ==
  ASSUME Quiet
  PROVE  /\ tokens \in Programs /\ tokens \in Seq(Token) /\ Len(tokens) \in Nat
         /\ current \in 1 .. Len(tokens) /\ current \in Positions
         /\ todo \in Seq(Tasks) /\ nodes \in Seq(NodeSet)
         /\ Complete(tokens, current, nodes, todo)
         /\ \A i \in DOMAIN tokens : tokens[i] # "ERROR"
         /\ \A i \in 1 .. Len(tokens) : tokens[i] = "EOF" <=> i = Len(tokens)
<1>1. tokens \in Programs /\ current \in Positions /\ todo \in Seq(Tasks) /\ nodes \in Seq(NodeSet)
  BY Zenon DEF Quiet, IInv, TypeInv
<1>2. tokens \in Seq(Token) /\ Len(tokens) \in Nat
  BY <1>1, TokenFacts, Zenon
<1>3. Complete(tokens, current, nodes, todo) /\ \A i \in DOMAIN tokens : tokens[i] # "ERROR"
  BY Zenon DEF Quiet, CompleteInv, Silent
<1>4. \A i \in DOMAIN tokens : tokens[i] = "EOF" <=> i = Len(tokens)
  BY <1>1, ProgramsAssumption, Zenon
<1>5. DOMAIN tokens = 1 .. Len(tokens)
  BY <1>2
<1> QED BY <1>1, <1>2, <1>3, <1>4, <1>5 DEF Positions

(* A step that reports nothing, with all that it must see to. *)
LEMMA QuietStep ==
  ASSUME Quiet, todo # <<>>, NEW c \in Positions, current <= c,
         NEW new, NEW tree, Grown(nodes, tree, new), NEW w, Work(w), Step(c, FALSE, tree, w),
         Fresh(tokens, current, c, todo, w, new), NewCasts(c, tree, w), Guarded(todo, w),
         NewHoles(tokens, current, todo, w, new),
         current = Len(tokens) => ~Notices(todo[1]) /\ Castless(w, 1),
         AliasesHeld(tokens, c, w \o Tail(todo)),
         \A m \in 1 .. Len(w) : FormKnown(w[m])
  PROVE  CompleteInv'
<1> DEFINE r == w \o Tail(todo)
<1>1. /\ current' = c /\ reported' = reported /\ nodes' = tree /\ todo' = r
      /\ tokens' = tokens /\ crashed' = crashed
  BY DEF Step, Quiet, IInv, TypeInv
<1>2. /\ Len(tokens) \in Nat /\ current \in 1 .. Len(tokens)
      /\ todo \in Seq(Tasks) /\ nodes \in Seq(NodeSet)
      /\ Complete(tokens, current, nodes, todo)
      /\ \A i \in DOMAIN tokens : tokens[i] # "ERROR"
  BY QuietFacts
<1>3. Joins(w, todo, r)
  BY <1>2, JoinFacts
<1> HIDE DEF r
<1>4. current \in Nat /\ c \in Nat /\ c \in current .. Len(tokens)
  BY <1>2 DEF Positions
<1>5. Covered(tokens, c, tree, Len(tree), r, 0)
  BY <1>2, <1>3, <1>4, CoveredAfter DEF Complete
<1>6. \A m \in 2 .. Len(todo) : IsCast(todo[m]) => todo[m][3] \in 0 .. Len(nodes)
  <2> SUFFICES ASSUME NEW m \in 2 .. Len(todo), IsCast(todo[m]) PROVE todo[m][3] \in 0 .. Len(nodes)
    OBVIOUS
  <2>1. m \in DOMAIN todo
    BY <1>2
  <2>2. HasBase(todo[m]) /\ BaseOf(todo[m]) = todo[m][3]
    BY DEF IsCast, HasBase, BaseOf
  <2>3. Boundary(nodes, BaseOf(todo[m]))
    BY <2>1, <2>2, Zenon DEF Quiet, IInv, BasesHold
  <2> QED BY <2>2, <2>3 DEF Boundary
<1>7. CastsCovered(tokens, tree, r)
  BY <1>2, <1>3, <1>4, <1>5, <1>6, CastsAfter DEF Complete
<1>8. Watched(r)
  BY <1>2, <1>3, WatchedAfter DEF Complete
<1>9. HolesSeen(tokens, c, tree, r)
  BY <1>2, <1>3, <1>4, HolesAfter DEF Complete
<1>10. FormsKnown(r)
  BY <1>2, <1>3, FormsAfter DEF Complete
<1>11. Complete(tokens, c, tree, r)
  BY <1>5, <1>7, <1>8, <1>9, <1>10 DEF Complete, r
<1>12. Complete(tokens', current', nodes', todo')
  BY <1>1, <1>11, Zenon
<1>13. \A i \in DOMAIN tokens' : tokens'[i] # "ERROR"
  BY <1>1, <1>2, Zenon
<1> QED BY <1>12, <1>13, Zenon DEF CompleteInv

(* Work that needs no look: no cast, no aliases, no indexed initializer. *)
Tame(t) == ~IsCast(t) /\ ~IsAliases(t) /\ FormKnown(t)
TameWork(w) == Work(w) /\ \A m \in 1 .. Len(w) : Tame(w[m])

OpenNames ==
  {"expr", "led", "default", "stmt", "else", "comma", "items", "for init", "clause", "cast", "then"}

LEMMA TameStep ==
  ASSUME Quiet, NEW n, Doing(n), NEW c \in Positions, current <= c,
         NEW new, NEW tree, Grown(nodes, tree, new), NEW w, TameWork(w), Step(c, FALSE, tree, w),
         Fresh(tokens, current, c, todo, w, new), Guarded(todo, w),
         \A k \in new : k.node \notin Holes,
         current = Len(tokens) => ~Notices(todo[1])
  PROVE  CompleteInv'
<1>1. todo # <<>> /\ todo \in Seq(Tasks) /\ Complete(tokens, current, nodes, todo)
  BY QuietFacts, Zenon DEF Doing
<1>2. Castless(w, 1) /\ NewCasts(c, tree, w) /\ \A m \in 1 .. Len(w) : FormKnown(w[m]) /\ ~IsAliases(w[m])
  BY DEF TameWork, Tame, Castless, NewCasts
<1>3. AliasesHeld(tokens, c, w \o Tail(todo))
  <2>1. Joins(w, todo, w \o Tail(todo))
    BY <1>1, JoinFacts DEF TameWork
  <2> QED BY <1>1, <1>2, <2>1, AliasesAfter DEF Complete
<1>4. NewHoles(tokens, current, todo, w, new)
  BY DEF NewHoles
<1>5. Work(w)
  BY DEF TameWork
<1> QED BY <1>1, <1>2, <1>3, <1>4, <1>5, QuietStep

(* What is known of the innermost call by its name. *)
LEMMA HeadKinds ==
  ASSUME Quiet, NEW n, Doing(n)
  PROVE  /\ todo # <<>> /\ Head(todo) = todo[1] /\ todo[1][1] = n
         /\ n \in OpenNames => Opens(todo[1])
         /\ n \notin {"expect", "stmts", "anon"} => ~Notices(todo[1])
         /\ n \notin {"build", "body", "func returns", "func body", "anon field"} => ~Holder(todo[1])
<1>1. todo # <<>> /\ Head(todo) = todo[1] /\ todo[1][1] = n
  BY HeadFacts, Zenon DEF Quiet
<1> QED BY <1>1 DEF OpenNames, Opens, Notices, Holder

(* An open call, whose work is inside what it is inside. *)
LEMMA TameOpen ==
  ASSUME Quiet, NEW n \in OpenNames, Doing(n), NEW c \in Positions, current <= c,
         NEW new, NEW tree, Grown(nodes, tree, new), NEW w, TameWork(w), Step(c, FALSE, tree, w),
         Fresh(tokens, current, c, todo, w, new),
         \A k \in new : k.node \notin Holes
  PROVE  CompleteInv'
<1>1. Opens(todo[1]) /\ ~Notices(todo[1])
  BY HeadKinds DEF OpenNames
<1>2. Guarded(todo, w)
  <2> SUFFICES ASSUME NEW m \in 1 .. Len(w) PROVE Castless(w, m + 1)
    BY <1>1 DEF Guarded
  <2>1. Len(w) \in Nat
    BY DEF TameWork, Work
  <2>2. \A l \in m + 1 .. Len(w) : l \in 1 .. Len(w)
    BY <2>1
  <2> QED BY <2>2 DEF Castless, TameWork, Tame
<1> QED BY <1>1, <1>2, TameStep

(* A call whose work does not open. *)
LEMMA TameShut ==
  ASSUME Quiet, NEW n, n \notin {"expect", "stmts", "anon"}, Doing(n), NEW c \in Positions, current <= c,
         NEW new, NEW tree, Grown(nodes, tree, new), NEW w, TameWork(w), Step(c, FALSE, tree, w),
         Fresh(tokens, current, c, todo, w, new),
         \A k \in new : k.node \notin Holes,
         \A m \in 1 .. Len(w) : ~Opens(w[m])
  PROVE  CompleteInv'
<1>1. ~Notices(todo[1])
  BY HeadKinds
<1>2. Guarded(todo, w)
  BY DEF Guarded
<1> QED BY <1>1, <1>2, TameStep

(* A call whose work may open before the m-th, which notices. *)
LEMMA TameClosed ==
  ASSUME Quiet, NEW n, n \notin {"expect", "stmts", "anon"} \/ Cur # "EOF",
         Doing(n), NEW c \in Positions, current <= c,
         NEW new, NEW tree, Grown(nodes, tree, new), NEW w, TameWork(w), Step(c, FALSE, tree, w),
         Fresh(tokens, current, c, todo, w, new),
         \A k \in new : k.node \notin Holes,
         NEW l \in 1 .. Len(w), Notices(w[l]),
         \A m \in 1 .. Len(w) : l <= m => ~Opens(w[m])
  PROVE  CompleteInv'
<1>1. Len(w) \in Nat
  BY DEF TameWork, Work
<1>2. Castless(w, 1)
  BY DEF TameWork, Tame, Castless
<1>3. Guarded(todo, w)
  <2> SUFFICES ASSUME NEW m \in 1 .. Len(w), Opens(w[m])
               PROVE  \E j \in m + 1 .. Len(w) : Notices(w[j])
    BY <1>2 DEF Guarded
  <2>1. m < l
    BY <1>1
  <2>2. l \in m + 1 .. Len(w)
    BY <1>1, <2>1
  <2> QED BY <2>2
<1>4. current = Len(tokens) => ~Notices(todo[1])
  <2>1. current = Len(tokens) => Cur = "EOF"
    BY QuietFacts DEF Cur
  <2> QED BY <2>1, HeadKinds
<1> QED BY <1>3, <1>4, TameStep

-----------------------------------------------------------------------------
(* What is read, and what is left to do.                                   *)

(* What lies between a position and the next. *)
LEMMA Passed ==
  ASSUME Quiet, NEW c \in Positions
  PROVE  /\ Forward(c) \in Positions /\ c <= Forward(c)
         /\ \A i \in c .. Forward(c) - 1 : i = c
         /\ tokens[c] # "EOF" => Forward(c) = c + 1
         /\ tokens[c] = "EOF" => Forward(c) = c
<1>1. Len(tokens) \in Nat /\ \A i \in 1 .. Len(tokens) : tokens[i] = "EOF" <=> i = Len(tokens)
  BY QuietFacts
<1>2. c \in 1 .. Len(tokens)
  BY DEF Positions
<1> QED BY <1>1, <1>2 DEF Forward, Positions

LEMMA PassedTwo ==
  ASSUME Quiet, NEW c \in Positions
  PROVE  /\ Forward(Forward(c)) \in Positions /\ c <= Forward(Forward(c))
         /\ \A i \in c .. Forward(Forward(c)) - 1 : i = c \/ i = Forward(c)
<1>1. Forward(c) \in Positions /\ c <= Forward(c) /\ \A i \in c .. Forward(c) - 1 : i = c
  BY Passed
<1>2. /\ Forward(Forward(c)) \in Positions /\ Forward(c) <= Forward(Forward(c))
      /\ \A i \in Forward(c) .. Forward(Forward(c)) - 1 : i = Forward(c)
  BY <1>1, Passed
<1>3. c \in Int /\ Forward(c) \in Int /\ Forward(Forward(c)) \in Int
  BY <1>1, <1>2 DEF Positions
<1>4. \A i \in c .. Forward(Forward(c)) - 1 :
        i \in c .. Forward(c) - 1 \/ i \in Forward(c) .. Forward(Forward(c)) - 1
  BY <1>1, <1>2, <1>3
<1>5. c <= Forward(Forward(c))
  BY <1>1, <1>2, <1>3
<1> QED BY <1>1, <1>2, <1>4, <1>5

(* A call that has read something hands it on. *)
LEMMA FreshHandedOn ==
  ASSUME NEW p, NEW c, NEW d, NEW s, NEW w, NEW new,
         c \in Nat, d \in Nat,
         \A i \in c .. d - 1 : p[i] \notin Worded,
         \A i : Holds(p, s[1], i) => \/ \E k \in 1 .. Len(w) : Holds(p, w[k], i)
                                     \/ \E n \in new : Marks(p, n.node, n.at, i)
  PROVE  Fresh(p, c, d, s, w, new)
<1>1. \A i \in 1 .. d - 1 : c <= i => i \in c .. d - 1
  OBVIOUS
<1> QED BY <1>1 DEF Fresh

(* The kinds of tasks. *)
LEMMA TamePlain ==
  /\ Tame(Type) /\ Tame(Suffixes) /\ Tame(Anon) /\ Tame(Default)
  /\ Tame(Stmt) /\ Tame(Stmts) /\ Tame(Block) /\ Tame(Else) /\ Tame(DoCond) /\ Tame(ForInit)
  /\ Tame(Program) /\ Tame(Declaration) /\ Tame(Parents) /\ Tame(AfterParent) /\ Tame(Members)
  /\ Tame(Self) /\ Tame(Params) /\ Tame(AfterParam) /\ Tame(Returns) /\ Tame(MethodBody)
  /\ Tame(FuncParams) /\ Tame(AfterFuncParam)
BY DEF Tame, IsCast, IsAliases, FormKnown, Type, Suffixes, Anon, Default, Stmt, Stmts, Block, Else,
       DoCond, ForInit, Program, Declaration, Parents, AfterParent, Members, Self, Params,
       AfterParam, Returns, MethodBody, FuncParams, AfterFuncParam

LEMMA TameArguments ==
  /\ \A m : Tame(Expr(m)) /\ Tame(Led(m)) /\ Tame(Clause(m))
  /\ \A t, f : t \notin Worded => Tame(ExpectOr(t, f)) /\ Tame(Expect(t))
  /\ \A n, at, b : n \notin Holes => Tame(Build(n, at, b))
  /\ \A at, b : /\ Tame(AnonField(at, b)) /\ Tame(Then(at, b)) /\ Tame(Body(at, b))
                /\ Tame(FuncReturns(at, b)) /\ Tame(FuncBody(at, b))
  /\ \A f, t : f # "indexed" => Tame(Items(f, t)) /\ Tame(Comma(Items(f, t)))
BY DEF Tame, IsCast, IsAliases, FormKnown, Expr, Led, Clause, ExpectOr, Expect, Build, AnonField, Then,
       Body, FuncReturns, FuncBody, Items, Comma

LEMMA ShutTasks ==
  /\ ~Opens(Type) /\ ~Opens(Suffixes) /\ ~Opens(Anon) /\ ~Opens(Stmts) /\ ~Opens(Block)
  /\ ~Opens(DoCond) /\ ~Opens(Program) /\ ~Opens(Declaration) /\ ~Opens(Parents)
  /\ ~Opens(AfterParent) /\ ~Opens(Members) /\ ~Opens(Self) /\ ~Opens(Params) /\ ~Opens(AfterParam)
  /\ ~Opens(Returns) /\ ~Opens(MethodBody) /\ ~Opens(FuncParams) /\ ~Opens(AfterFuncParam)
  /\ \A t, f : ~Opens(ExpectOr(t, f)) /\ ~Opens(Expect(t))
  /\ \A n, at, b : ~Opens(Build(n, at, b))
  /\ \A at, b : /\ ~Opens(AnonField(at, b)) /\ ~Opens(Body(at, b))
                /\ ~Opens(FuncReturns(at, b)) /\ ~Opens(FuncBody(at, b))
  /\ \A t, f : t # "EOF" => Notices(ExpectOr(t, f)) /\ Notices(Expect(t))
  /\ Notices(Stmts) /\ Notices(Anon)
BY DEF Opens, Notices, Type, Suffixes, Anon, Stmts, Block, DoCond, Program, Declaration, Parents,
       AfterParent, Members, Self, Params, AfterParam, Returns, MethodBody, FuncParams,
       AfterFuncParam, ExpectOr, Expect, Build, AnonField, Body, FuncReturns, FuncBody

(* What holds a name. *)
LEMMA HoldingTasks ==
  /\ \A p, at, b, i : /\ Holds(p, Body(at, b), i) <=> at = i
                      /\ Holds(p, FuncReturns(at, b), i) <=> at = i
                      /\ Holds(p, FuncBody(at, b), i) <=> at = i
                      /\ Holds(p, AnonField(at, b), i) <=> at = i
  /\ \A p, n, at, b, i : Holds(p, Build(n, at, b), i) <=> Marks(p, n, at, i)
  /\ \A p, i : \A n \in Named : Marks(p, n, i, i)
BY DEF Holds, Marks, Body, FuncReturns, FuncBody, AnonField, Build

(* Sequences of tame tasks. *)
LEMMA TameOne ==
  /\ TameWork(<<>>) /\ Len(<<>>) = 0
  /\ \A a : Tame(a) => TameWork(<<a>>) /\ Len(<<a>>) = 1
<1>1. Work(<<>>)
  <2>1. <<>> \in Seq({})
    OBVIOUS
  <2> QED BY <2>1 DEF Work
<1>2. ASSUME NEW a, Tame(a) PROVE TameWork(<<a>>) /\ Len(<<a>>) = 1
  <2>1. <<a>> \in Seq({a})
    OBVIOUS
  <2>2. Len(<<a>>) = 1 /\ <<a>>[1] = a
    OBVIOUS
  <2>3. Work(<<a>>)
    BY <2>1 DEF Work
  <2>4. \A m \in 1 .. Len(<<a>>) : m = 1
    BY <2>2
  <2> QED BY <1>2, <2>2, <2>3, <2>4 DEF TameWork
<1> QED BY <1>1, <1>2 DEF TameWork

LEMMA TameMore ==
  ASSUME NEW w, TameWork(w), NEW t, Tame(t)
  PROVE  TameWork(Append(w, t)) /\ Len(Append(w, t)) = Len(w) + 1
<1>1. PICK S : w \in Seq(S)
  BY DEF TameWork, Work
<1> DEFINE T == S \cup {t}
           v == Append(w, t)
<1>2. w \in Seq(T) /\ t \in T
  BY <1>1
<1> HIDE DEF T
<1>3. /\ v \in Seq(T) /\ Len(w) \in Nat /\ Len(v) = Len(w) + 1 /\ v[Len(w) + 1] = t
      /\ \A i \in 1 .. Len(w) : v[i] = w[i]
  BY <1>2
<1> HIDE DEF v
<1>4. Work(v)
  BY <1>3 DEF Work
<1>5. \A m \in 1 .. Len(v) : Tame(v[m])
  BY <1>3 DEF TameWork
<1>6. TameWork(v)
  BY <1>4, <1>5 DEF TameWork
<1> QED BY <1>3, <1>6 DEF v

LEMMA TameTwo ==
  ASSUME NEW a1, Tame(a1), NEW a2, Tame(a2)
  PROVE  TameWork(<<a1, a2>>) /\ Len(<<a1, a2>>) = 2
<1>1. TameWork(<<a1>>) /\ Len(<<a1>>) = 1
  BY TameOne
<1>2. <<a1, a2>> = Append(<<a1>>, a2)
  OBVIOUS
<1> QED BY <1>1, <1>2, TameMore

LEMMA TameThree ==
  ASSUME NEW a1, Tame(a1), NEW a2, Tame(a2), NEW a3, Tame(a3)
  PROVE  TameWork(<<a1, a2, a3>>) /\ Len(<<a1, a2, a3>>) = 3
<1>1. TameWork(<<a1, a2>>) /\ Len(<<a1, a2>>) = 2
  BY TameTwo
<1>2. <<a1, a2, a3>> = Append(<<a1, a2>>, a3)
  OBVIOUS
<1> QED BY <1>1, <1>2, TameMore

LEMMA TameFour ==
  ASSUME NEW a1, Tame(a1), NEW a2, Tame(a2), NEW a3, Tame(a3), NEW a4, Tame(a4)
  PROVE  TameWork(<<a1, a2, a3, a4>>) /\ Len(<<a1, a2, a3, a4>>) = 4
<1>1. TameWork(<<a1, a2, a3>>) /\ Len(<<a1, a2, a3>>) = 3
  BY TameThree
<1>2. <<a1, a2, a3, a4>> = Append(<<a1, a2, a3>>, a4)
  OBVIOUS
<1> QED BY <1>1, <1>2, TameMore

LEMMA TameFive ==
  ASSUME NEW a1, Tame(a1), NEW a2, Tame(a2), NEW a3, Tame(a3), NEW a4, Tame(a4),
         NEW a5, Tame(a5)
  PROVE  TameWork(<<a1, a2, a3, a4, a5>>) /\ Len(<<a1, a2, a3, a4, a5>>) = 5
<1>1. TameWork(<<a1, a2, a3, a4>>) /\ Len(<<a1, a2, a3, a4>>) = 4
  BY TameFour
<1>2. <<a1, a2, a3, a4, a5>> = Append(<<a1, a2, a3, a4>>, a5)
  OBVIOUS
<1> QED BY <1>1, <1>2, TameMore

LEMMA TameSix ==
  ASSUME NEW a1, Tame(a1), NEW a2, Tame(a2), NEW a3, Tame(a3), NEW a4, Tame(a4),
         NEW a5, Tame(a5), NEW a6, Tame(a6)
  PROVE  TameWork(<<a1, a2, a3, a4, a5, a6>>) /\ Len(<<a1, a2, a3, a4, a5, a6>>) = 6
<1>1. TameWork(<<a1, a2, a3, a4, a5>>) /\ Len(<<a1, a2, a3, a4, a5>>) = 5
  BY TameFive
<1>2. <<a1, a2, a3, a4, a5, a6>> = Append(<<a1, a2, a3, a4, a5>>, a6)
  OBVIOUS
<1> QED BY <1>1, <1>2, TameMore

LEMMA TameSeven ==
  ASSUME NEW a1, Tame(a1), NEW a2, Tame(a2), NEW a3, Tame(a3), NEW a4, Tame(a4),
         NEW a5, Tame(a5), NEW a6, Tame(a6), NEW a7, Tame(a7)
  PROVE  TameWork(<<a1, a2, a3, a4, a5, a6, a7>>) /\ Len(<<a1, a2, a3, a4, a5, a6, a7>>) = 7
<1>1. TameWork(<<a1, a2, a3, a4, a5, a6>>) /\ Len(<<a1, a2, a3, a4, a5, a6>>) = 6
  BY TameSix
<1>2. <<a1, a2, a3, a4, a5, a6, a7>> = Append(<<a1, a2, a3, a4, a5, a6>>, a7)
  OBVIOUS
<1> QED BY <1>1, <1>2, TameMore

LEMMA TameEight ==
  ASSUME NEW a1, Tame(a1), NEW a2, Tame(a2), NEW a3, Tame(a3), NEW a4, Tame(a4),
         NEW a5, Tame(a5), NEW a6, Tame(a6), NEW a7, Tame(a7), NEW a8, Tame(a8)
  PROVE  TameWork(<<a1, a2, a3, a4, a5, a6, a7, a8>>) /\ Len(<<a1, a2, a3, a4, a5, a6, a7, a8>>) = 8
<1>1. TameWork(<<a1, a2, a3, a4, a5, a6, a7>>) /\ Len(<<a1, a2, a3, a4, a5, a6, a7>>) = 7
  BY TameSeven
<1>2. <<a1, a2, a3, a4, a5, a6, a7, a8>> = Append(<<a1, a2, a3, a4, a5, a6, a7>>, a8)
  OBVIOUS
<1> QED BY <1>1, <1>2, TameMore

LEMMA TameNine ==
  ASSUME NEW a1, Tame(a1), NEW a2, Tame(a2), NEW a3, Tame(a3), NEW a4, Tame(a4),
         NEW a5, Tame(a5), NEW a6, Tame(a6), NEW a7, Tame(a7), NEW a8, Tame(a8),
         NEW a9, Tame(a9)
  PROVE  TameWork(<<a1, a2, a3, a4, a5, a6, a7, a8, a9>>) /\ Len(<<a1, a2, a3, a4, a5, a6, a7, a8, a9>>) = 9
<1>1. TameWork(<<a1, a2, a3, a4, a5, a6, a7, a8>>) /\ Len(<<a1, a2, a3, a4, a5, a6, a7, a8>>) = 8
  BY TameEight
<1>2. <<a1, a2, a3, a4, a5, a6, a7, a8, a9>> = Append(<<a1, a2, a3, a4, a5, a6, a7, a8>>, a9)
  OBVIOUS
<1> QED BY <1>1, <1>2, TameMore

-----------------------------------------------------------------------------
(* The kinds of steps.                                                     *)

LEMMA LoudStep ==
  ASSUME NEW c, NEW tree, NEW w, Step(c, TRUE, tree, w)
  PROVE  CompleteInv'
BY DEF Step, CompleteInv, Silent

(* The work takes what is read. *)
Takes(c, w) ==
  \A i \in current .. c - 1 : tokens[i] \in Worded => \E k \in 1 .. Len(w) : Holds(tokens, w[k], i)

(* So does the node.                                                       *)
MarksAll(c, n) ==
  /\ n.node \notin Holes
  /\ \A i \in current .. c - 1 : tokens[i] \in Worded => Marks(tokens, n.node, n.at, i)

LEMMA TakesFresh ==
  ASSUME Quiet, ~Holder(todo[1]), NEW c \in Positions, NEW w
  PROVE  /\ Takes(c, w) => \A new : Fresh(tokens, current, c, todo, w, new)
         /\ \A n : MarksAll(c, n) => Fresh(tokens, current, c, todo, w, {n})
<1>1. \A i : ~Holds(tokens, todo[1], i)
  BY DEF Holder, Holds
<1>2. \A i \in 1 .. c - 1 : current <= i => i \in current .. c - 1
  BY QuietFacts DEF Positions
<1>3. Takes(c, w) => \A new : Fresh(tokens, current, c, todo, w, new)
  BY <1>1, <1>2 DEF Takes, Fresh
<1>4. \A n : MarksAll(c, n) => Fresh(tokens, current, c, todo, w, {n})
  BY <1>1, <1>2 DEF MarksAll, Fresh
<1> QED BY <1>3, <1>4

LEMMA OpenGoes ==
  ASSUME Quiet, NEW n \in OpenNames, Doing(n), NEW c \in Positions, current <= c,
         NEW w, TameWork(w), Takes(c, w), Step(c, FALSE, nodes, w)
  PROVE  CompleteInv'
<1>1. ~Holder(todo[1])
  BY HeadKinds DEF OpenNames
<1>2. Grown(nodes, nodes, {}) /\ Fresh(tokens, current, c, todo, w, {})
  BY <1>1, QuietFacts, GrownFacts, TakesFresh
<1>3. PICK new : new = {}
  OBVIOUS
<1>4. Grown(nodes, nodes, new) /\ Fresh(tokens, current, c, todo, w, new)
      /\ \A k \in new : k.node \notin Holes
  BY <1>2, <1>3
<1>5. PICK tree : tree = nodes
  OBVIOUS
<1>6. Grown(nodes, tree, new) /\ Step(c, FALSE, tree, w)
  BY <1>4, <1>5
<1> QED BY ONLY Quiet, Doing(n), c \in Positions, current <= c, TameWork(w),
                n \in OpenNames, <1>4, <1>6, TameOpen

LEMMA OpenMakes ==
  ASSUME Quiet, NEW n \in OpenNames, Doing(n), NEW c \in Positions, current <= c,
         NEW k, MarksAll(c, k), NEW w, TameWork(w), Step(c, FALSE, Append(nodes, k), w)
  PROVE  CompleteInv'
<1>1. ~Holder(todo[1])
  BY HeadKinds DEF OpenNames
<1>2. Grown(nodes, Append(nodes, k), {k}) /\ Fresh(tokens, current, c, todo, w, {k})
  BY <1>1, QuietFacts, GrownFacts, TakesFresh
<1>3. PICK new : new = {k}
  OBVIOUS
<1>4. Grown(nodes, Append(nodes, k), new) /\ Fresh(tokens, current, c, todo, w, new)
      /\ \A l \in new : l.node \notin Holes
  BY <1>2, <1>3 DEF MarksAll
<1>5. PICK tree : tree = Append(nodes, k)
  OBVIOUS
<1>6. Grown(nodes, tree, new) /\ Step(c, FALSE, tree, w)
  BY <1>4, <1>5
<1> QED BY ONLY Quiet, Doing(n), c \in Positions, current <= c, TameWork(w),
                n \in OpenNames, <1>4, <1>6, TameOpen

ShutNames ==
  {"type", "suffixes", "block", "do cond", "program", "declaration", "parents", "after parent",
   "members", "self", "params", "after param", "returns", "method body", "func params",
   "after func param"}

LEMMA ShutGoes ==
  ASSUME Quiet, NEW n \in ShutNames, Doing(n), NEW c \in Positions, current <= c,
         NEW w, TameWork(w), Takes(c, w), Step(c, FALSE, nodes, w),
         \A m \in 1 .. Len(w) : ~Opens(w[m])
  PROVE  CompleteInv'
<1>1. ~Holder(todo[1]) /\ n \notin {"expect", "stmts", "anon"}
  BY HeadKinds DEF ShutNames
<1>2. Grown(nodes, nodes, {}) /\ Fresh(tokens, current, c, todo, w, {})
  BY <1>1, QuietFacts, GrownFacts, TakesFresh
<1>3. PICK new : new = {}
  OBVIOUS
<1>4. Grown(nodes, nodes, new) /\ Fresh(tokens, current, c, todo, w, new)
      /\ \A k \in new : k.node \notin Holes
  BY <1>2, <1>3
<1>5. PICK tree : tree = nodes
  OBVIOUS
<1>6. Grown(nodes, tree, new) /\ Step(c, FALSE, tree, w)
  BY <1>4, <1>5
<1> QED BY ONLY Quiet, Doing(n), c \in Positions, current <= c, TameWork(w),
                <1>1, \A m \in 1 .. Len(w) : ~Opens(w[m]), <1>4, <1>6, TameShut

LEMMA ShutMakes ==
  ASSUME Quiet, NEW n \in ShutNames, Doing(n), NEW c \in Positions, current <= c,
         NEW k, MarksAll(c, k), NEW w, TameWork(w), Step(c, FALSE, Append(nodes, k), w),
         \A m \in 1 .. Len(w) : ~Opens(w[m])
  PROVE  CompleteInv'
<1>1. ~Holder(todo[1]) /\ n \notin {"expect", "stmts", "anon"}
  BY HeadKinds DEF ShutNames
<1>2. Grown(nodes, Append(nodes, k), {k}) /\ Fresh(tokens, current, c, todo, w, {k})
  BY <1>1, QuietFacts, GrownFacts, TakesFresh
<1>3. PICK new : new = {k}
  OBVIOUS
<1>4. Grown(nodes, Append(nodes, k), new) /\ Fresh(tokens, current, c, todo, w, new)
      /\ \A l \in new : l.node \notin Holes
  BY <1>2, <1>3 DEF MarksAll
<1>5. PICK tree : tree = Append(nodes, k)
  OBVIOUS
<1>6. Grown(nodes, tree, new) /\ Step(c, FALSE, tree, w)
  BY <1>4, <1>5
<1> QED BY ONLY Quiet, Doing(n), c \in Positions, current <= c, TameWork(w),
                <1>1, \A m \in 1 .. Len(w) : ~Opens(w[m]), <1>4, <1>6, TameShut

LEMMA ClosedGoes ==
  ASSUME Quiet, NEW n, Doing(n), n \in ShutNames \/ (n \in {"stmts", "anon"} /\ Cur # "EOF"),
         NEW c \in Positions, current <= c,
         NEW w, TameWork(w), Takes(c, w), Step(c, FALSE, nodes, w),
         NEW l \in 1 .. Len(w), Notices(w[l]),
         \A m \in 1 .. Len(w) : l <= m => ~Opens(w[m])
  PROVE  CompleteInv'
<1>1. ~Holder(todo[1]) /\ (n \notin {"expect", "stmts", "anon"} \/ Cur # "EOF")
  BY HeadKinds DEF ShutNames
<1>2. Grown(nodes, nodes, {}) /\ Fresh(tokens, current, c, todo, w, {})
  BY <1>1, QuietFacts, GrownFacts, TakesFresh
<1>3. PICK new : new = {}
  OBVIOUS
<1>4. Grown(nodes, nodes, new) /\ Fresh(tokens, current, c, todo, w, new)
      /\ \A k \in new : k.node \notin Holes
  BY <1>2, <1>3
<1>5. PICK tree : tree = nodes
  OBVIOUS
<1>6. Grown(nodes, tree, new) /\ Step(c, FALSE, tree, w)
  BY <1>4, <1>5
<1> QED BY ONLY Quiet, <1>1, Doing(n), c \in Positions, current <= c, TameWork(w),
                l \in 1 .. Len(w), Notices(w[l]), \A m \in 1 .. Len(w) : l <= m => ~Opens(w[m]), <1>4, <1>6, TameClosed

(* Reading on over something that is no name or value. *)
LEMMA Skipped ==
  ASSUME Quiet
  PROVE  /\ \A w : Takes(current, w)
         /\ current \in Positions /\ current <= current /\ current \in Nat
         /\ Forward(current) \in Positions /\ current <= Forward(current)
         /\ Cur \notin Worded => \A w : Takes(Forward(current), w)
         /\ Forward(Forward(current)) \in Positions /\ current <= Forward(Forward(current))
         /\ Cur \notin Worded /\ tokens[Forward(current)] \notin Worded =>
              \A w : Takes(Forward(Forward(current)), w)
<1>1. current \in Positions /\ current <= current /\ current \in Nat /\ current .. current - 1 = {}
  BY QuietFacts
<1>2. Forward(current) \in Positions /\ current <= Forward(current)
      /\ \A i \in current .. Forward(current) - 1 : i = current
  BY <1>1, Passed
<1>3. /\ Forward(Forward(current)) \in Positions /\ current <= Forward(Forward(current))
      /\ \A i \in current .. Forward(Forward(current)) - 1 : i = current \/ i = Forward(current)
  BY <1>1, PassedTwo
<1> QED BY <1>1, <1>2, <1>3, Zenon DEF Takes, Cur

-----------------------------------------------------------------------------
(* The steps of the parser of expressions and types that report nothing.   *)

LEMMA NamesOpen ==
  /\ {"expr", "led", "default", "stmt", "else", "comma", "items", "for init", "clause", "then"}
       \subseteq OpenNames
  /\ {"type", "suffixes", "block", "do cond", "program", "declaration", "parents", "after parent",
      "members", "self", "params", "after param", "returns", "method body", "func params",
      "after func param"} \subseteq ShutNames
  /\ {"ident", "literal", "field", "type", "member", "ffi", "decl", "param", "alias", "inherit",
      "method", "blueprint", "func"} \subseteq Named
  /\ \A n : n \in Named => n \notin Holes
BY DEF OpenNames, ShutNames, Named, Holes

(* The end of the work. *)
LEMMA NothingLeft ==
  /\ TameWork(<<>>) /\ Len(<<>>) = 0 /\ 1 .. Len(<<>>) = {}
  /\ \A m \in 1 .. Len(<<>>) : ~Opens(<<>>[m])
BY TameOne

(* Nothing is left to do and no node is new.                               *)
LEMMA GuardedNothing == \A s : Guarded(s, <<>>)
BY NothingLeft DEF Guarded

LEMMA QuietExpected == ASSUME Quiet, Expected PROVE CompleteInv'
<1>1. Doing("expect") /\ Cur = Arg(1) /\ Step(Forward(current), FALSE, nodes, <<>>)
  BY Zenon DEF Expected, Goes
<1>2. todo # <<>> /\ Head(todo) = todo[1] /\ todo[1][1] = "expect" /\ ~Holder(todo[1])
  <2>1. todo # <<>> /\ Head(todo) = todo[1] /\ todo[1][1] = "expect"
    BY <1>1, HeadKinds, Zenon
  <2> QED BY <2>1 DEF Holder
<1>3. Cur = todo[1][2] /\ 1 \in DOMAIN todo
  BY <1>1, <1>2, QuietFacts DEF Arg
<1>4. FormKnown(todo[1])
  BY <1>3, QuietFacts DEF Complete, FormsKnown
<1>5. Cur \notin Worded
  BY <1>2, <1>3, <1>4 DEF FormKnown
<1>6. current = Len(tokens) => ~Notices(todo[1])
  <2>1. current = Len(tokens) => Cur = "EOF"
    BY QuietFacts DEF Cur
  <2> QED BY <1>2, <1>3, <2>1 DEF Notices
<1>7. Forward(current) \in Positions /\ current <= Forward(current) /\ Takes(Forward(current), <<>>)
  BY <1>5, Skipped
<1>8. Fresh(tokens, current, Forward(current), todo, <<>>, {})
  BY <1>2, <1>7, TakesFresh
<1>9. PICK new : new = {}
  OBVIOUS
<1>10. PICK tree : tree = nodes
  OBVIOUS
<1>11. Grown(nodes, tree, new) /\ Step(Forward(current), FALSE, tree, <<>>)
       /\ Fresh(tokens, current, Forward(current), todo, <<>>, new) /\ \A k \in new : k.node \notin Holes
  BY <1>1, <1>8, <1>9, <1>10, QuietFacts, GrownFacts
<1>12. TameWork(<<>>) /\ Guarded(todo, <<>>)
  BY NothingLeft, GuardedNothing
<1> QED BY ONLY Quiet, <1>1, <1>6, <1>7, <1>11, <1>12, TameStep

LEMMA QuietBuild == ASSUME Quiet, BuildNode PROVE CompleteInv'
<1> DEFINE k == Node(Arg(1), Arg(2), Arg(3) + 1)
<1>1. Doing("build") /\ Step(current, FALSE, Append(nodes, k), <<>>)
  BY Zenon DEF BuildNode
<1>2. todo # <<>> /\ Head(todo) = todo[1] /\ todo[1][1] = "build" /\ ~Notices(todo[1])
  <2>1. todo # <<>> /\ Head(todo) = todo[1] /\ todo[1][1] = "build"
    BY <1>1, HeadKinds, Zenon
  <2> QED BY <2>1 DEF Notices
<1>3. Arg(1) = todo[1][2] /\ Arg(2) = todo[1][3] /\ 1 \in DOMAIN todo
  BY <1>2, QuietFacts DEF Arg
<1>4. k.node = todo[1][2] /\ k.at = todo[1][3]
  BY <1>3 DEF Node
<1>5. FormKnown(todo[1])
  BY <1>3, QuietFacts DEF Complete, FormsKnown
<1>6. k.node \notin Holes
  BY <1>2, <1>4, <1>5 DEF FormKnown
<1> HIDE DEF k
<1>7. \A i : Holds(tokens, todo[1], i) => Marks(tokens, k.node, k.at, i)
  BY <1>2, <1>4 DEF Holds
<1>8. Fresh(tokens, current, current, todo, <<>>, {k})
  <2>1. current \in Nat /\ \A i \in current .. current - 1 : tokens[i] \notin Worded
    BY QuietFacts
  <2> QED BY <1>7, <2>1, FreshHandedOn
<1>9. PICK new : new = {k}
  OBVIOUS
<1>10. PICK tree : tree = Append(nodes, k)
  OBVIOUS
<1>11. Grown(nodes, tree, new) /\ Step(current, FALSE, tree, <<>>)
       /\ Fresh(tokens, current, current, todo, <<>>, new) /\ \A l \in new : l.node \notin Holes
  BY <1>1, <1>6, <1>8, <1>9, <1>10, QuietFacts, GrownFacts
<1>12. TameWork(<<>>) /\ Guarded(todo, <<>>) /\ current \in Positions /\ current <= current
  BY NothingLeft, GuardedNothing, Skipped
<1> QED BY ONLY Quiet, <1>1, <1>2, <1>11, <1>12, TameStep

LEMMA QuietComma == ASSUME Quiet, MatchComma PROVE CompleteInv'
<1>1. Doing("comma") /\ "comma" \in OpenNames
  BY Zenon, NamesOpen DEF MatchComma
<1>2. todo # <<>> /\ Head(todo) = todo[1] /\ todo[1][1] = "comma"
  BY <1>1, HeadKinds
<1>3. Arg(1) = todo[1][2] /\ 1 \in DOMAIN todo /\ todo[1] \in Tasks
  BY <1>2, QuietFacts DEF Arg
<1>4. FormKnown(todo[1]) /\ TaskForm(todo[1])
  BY <1>3, QuietFacts, TaskForms DEF Complete, FormsKnown
<1>5. Arg(1) \in ItemTasks /\ Arg(1)[2] # "indexed"
  BY <1>2, <1>3, <1>4 DEF FormKnown, TaskForm
<1>6. Tame(Arg(1))
  <2>1. PICK a : a = Arg(1)
    OBVIOUS
  <2>2. a[1] = "items" /\ a[2] # "indexed"
    BY <1>5, <2>1 DEF ItemTasks
  <2> QED BY <2>1, <2>2 DEF Tame, IsCast, IsAliases, FormKnown
<1>7. TameWork(<<Arg(1)>>)
  BY <1>6, TameOne
<1>8. CASE Cur = ","
  <2>1. Step(Forward(current), FALSE, nodes, <<Arg(1)>>)
    BY <1>8, Zenon DEF MatchComma, Goes
  <2>2. Cur \notin Worded
    BY <1>8 DEF Worded
  <2>3. Forward(current) \in Positions /\ current <= Forward(current) /\ Takes(Forward(current), <<Arg(1)>>)
    BY <2>2, Skipped
  <2> QED BY <1>1, <1>7, <2>1, <2>3, OpenGoes
<1>9. CASE Cur # ","
  <2>1. Step(current, FALSE, nodes, <<>>)
    BY <1>9, Zenon DEF MatchComma, Goes
  <2> QED BY <1>1, <2>1, Skipped, NothingLeft, OpenGoes
<1> QED BY <1>8, <1>9

(* One name or value is read, at the position at. *)
ReadsOnly(c, at) == \A i \in current .. c - 1 : tokens[i] \in Worded => i = at

LEMMA MarksHere ==
  ASSUME NEW node \in Named, NEW at, NEW from, NEW c, ReadsOnly(c, at)
  PROVE  MarksAll(c, Node(node, at, from))
BY HoldingTasks, NamesOpen DEF MarksAll, ReadsOnly, Node

LEMMA MarksNothing ==
  ASSUME NEW node, node \notin Holes, NEW at, NEW from, NEW c, Takes(c, <<>>)
  PROVE  MarksAll(c, Node(node, at, from))
<1>1. 1 .. Len(<<>>) = {}
  BY NothingLeft
<1> QED BY <1>1 DEF MarksAll, Takes, Node

LEMMA TakesIt ==
  ASSUME NEW c, NEW at, ReadsOnly(c, at), NEW w, NEW k \in 1 .. Len(w), Holds(tokens, w[k], at)
  PROVE  Takes(c, w)
BY DEF ReadsOnly, Takes

LEMMA Reads ==
  ASSUME Quiet
  PROVE  /\ ReadsOnly(Forward(current), current)
         /\ tokens[Forward(current)] \notin Worded => ReadsOnly(Forward(Forward(current)), current)
         /\ Cur \notin Worded => ReadsOnly(Forward(Forward(current)), Forward(current))
<1>1. current \in Positions
  BY QuietFacts
<1> QED BY <1>1, Passed, PassedTwo DEF ReadsOnly, Cur

LEMMA QuietDefault == ASSUME Quiet, ParseDefault PROVE CompleteInv'
<1>1. Doing("default") /\ "default" \in OpenNames
  BY Zenon, NamesOpen DEF ParseDefault
<1>2. TameWork(<<Expr(0)>>)
  BY TameArguments, TameOne
<1>3. CASE Cur = "="
  <2>1. Step(Forward(current), FALSE, nodes, <<Expr(0)>>)
    BY <1>3, Zenon DEF ParseDefault, Goes
  <2>2. Cur \notin Worded
    BY <1>3 DEF Worded
  <2> QED BY <1>1, <1>2, <2>1, <2>2, Skipped, OpenGoes
<1>4. CASE Cur # "="
  <2>1. Step(current, FALSE, nodes, <<>>)
    BY <1>4, Zenon DEF ParseDefault, Goes
  <2> QED BY <1>1, <2>1, Skipped, NothingLeft, OpenGoes
<1> QED BY <1>3, <1>4

LEMMA QuietAtom == ASSUME Quiet, ParseAtom PROVE CompleteInv'
<1>1. Doing("expr") /\ "expr" \in OpenNames
  BY Zenon, NamesOpen DEF ParseAtom
<1>2. PICK node \in {"literal", "ident"} :
        Step(Forward(current), FALSE, Append(nodes, Node(node, current, Base + 1)), <<Led(Arg(1))>>)
  BY DEF ParseAtom, Makes, Leaf
<1>3. MarksAll(Forward(current), Node(node, current, Base + 1))
  <2>1. node \in Named /\ ReadsOnly(Forward(current), current)
    BY NamesOpen, Reads
  <2> QED BY <2>1, MarksHere
<1>4. TameWork(<<Led(Arg(1))>>)
  BY TameArguments, TameOne
<1>5. Forward(current) \in Positions /\ current <= Forward(current)
  BY Skipped
<1> QED BY ONLY Quiet, <1>1, <1>2, <1>3, <1>4, <1>5, OpenMakes

LEMMA QuietUnary == ASSUME Quiet, ParseUnary PROVE CompleteInv'
<1>1. Doing("expr") /\ "expr" \in OpenNames
  BY Zenon, NamesOpen DEF ParseUnary
<1> DEFINE w == <<Expr(0), Build("unary", current, Base), Led(Arg(1))>>
<1>2. Step(Forward(current), FALSE, nodes, w) /\ Cur \in {"-", "+", "!", "~", "*", "&"}
  BY Zenon DEF ParseUnary, Goes
<1>3. Cur \notin Worded
  BY <1>2 DEF Worded
<1>4. TameWork(w)
  <2>1. "unary" \notin Holes
    BY DEF Holes
  <2> QED BY <2>1, TameArguments, TameThree
<1> HIDE DEF w
<1> QED BY <1>1, <1>2, <1>3, <1>4, Skipped, OpenGoes

LEMMA QuietDot == ASSUME Quiet, ParseLeadingDot PROVE CompleteInv'
<1>1. Doing("expr") /\ "expr" \in OpenNames
  BY Zenon, NamesOpen DEF ParseLeadingDot
<1> DEFINE c == Forward(Forward(current))
           k == Node("literal", current, Base + 1)
<1>2. Step(c, FALSE, Append(nodes, k), <<Led(Arg(1))>>) /\ Cur = "."
  BY DEF ParseLeadingDot, Makes, Leaf
<1>3. c \in Positions /\ current <= c
  BY Skipped
<1>4. MarksAll(c, k)
  <2>1. current \in Positions /\ Cur # "EOF"
    BY <1>2, QuietFacts
  <2>2. Forward(current) = current + 1 /\ \A i \in current .. c - 1 : i = current \/ i = Forward(current)
    BY <2>1, Passed, PassedTwo DEF Cur
  <2>3. k.node = "literal" /\ k.at = current
    BY DEF Node
  <2>4. tokens[current] = "." /\ "." \notin Worded
    BY <1>2 DEF Cur, Worded
  <2> HIDE DEF k, c
  <2>5. \A i \in current .. c - 1 : tokens[i] \in Worded => Marks(tokens, "literal", current, i)
    BY <2>2, <2>4, NamesOpen DEF Marks
  <2> QED BY <2>3, <2>5 DEF MarksAll, Holes
<1>5. TameWork(<<Led(Arg(1))>>)
  BY TameArguments, TameOne
<1> QED BY ONLY Quiet, <1>1, <1>2, <1>3, <1>4, <1>5, OpenMakes

LEMMA QuietFfi == ASSUME Quiet, ParseFfi PROVE CompleteInv'
<1>1. Doing("expr") /\ "expr" \in OpenNames /\ Cur = "$"
  BY Zenon, NamesOpen DEF ParseFfi
<1> DEFINE c == Forward(current)
           w == <<Expect("("), Items("args", ")"), Expect(")"), Build("ffi", c, Base), Led(Arg(1))>>
<1>2. CASE tokens[c] # "name"
  <2>1. Step(SyncStmt(c), TRUE, Leaf("error", c), <<Led(Arg(1))>>)
    BY <1>2, Zenon DEF ParseFfi
  <2> QED BY <2>1, LoudStep
<1>3. CASE tokens[c] = "name"
  <2>1. Step(Forward(c), FALSE, nodes, w)
    BY <1>3, Zenon DEF ParseFfi, Goes
  <2>2. TameWork(w) /\ Len(w) = 5
    <3>1. "ffi" \notin Holes /\ "(" \notin Worded /\ ")" \notin Worded /\ "args" # "indexed"
      BY DEF Holes, Worded
    <3> QED BY <3>1, TameArguments, TameFive
  <2>3. Cur \notin Worded
    BY <1>1 DEF Worded
  <2>4. ReadsOnly(Forward(c), c)
    BY <2>3, Reads
  <2>5. Holds(tokens, w[4], c)
    BY NamesOpen, HoldingTasks
  <2> HIDE DEF w
  <2>6. Takes(Forward(c), w)
    BY <2>2, <2>4, <2>5, TakesIt
  <2> QED BY <1>1, <2>1, <2>2, <2>6, Skipped, OpenGoes
<1> QED BY <1>2, <1>3

LEMMA QuietAggregate == ASSUME Quiet, ParseAggregate PROVE CompleteInv'
<1>1. Doing("expr") /\ "expr" \in OpenNames /\ Cur = "{"
  BY Zenon, NamesOpen DEF ParseAggregate
<1> DEFINE c == Forward(current)
           w == <<Items(InitForm(c), "}"), Expect("}"), Build("init", current, Base), Led(Arg(1))>>
<1>2. "init" \notin Holes /\ "}" \notin Worded /\ Cur \notin Worded
  BY <1>1 DEF Holes, Worded
<1>3. CASE tokens[c] = "}"
  <2>1. Step(Forward(c), FALSE, Append(nodes, Node("init", current, Base + 1)), <<Led(Arg(1))>>)
    BY <1>3, Zenon DEF ParseAggregate, Makes, Leaf
  <2>2. Takes(Forward(c), <<>>) /\ Forward(c) \in Positions /\ current <= Forward(c)
    BY <1>2, <1>3, Skipped
  <2>3. MarksAll(Forward(c), Node("init", current, Base + 1))
    BY <1>2, <2>2, MarksNothing
  <2>4. TameWork(<<Led(Arg(1))>>)
    BY TameArguments, TameOne
  <2> QED BY ONLY Quiet, <1>1, <2>1, <2>2, <2>3, <2>4, OpenMakes
<1>4. CASE tokens[c] # "}"
  <2>1. Step(c, FALSE, nodes, w)
    BY <1>4, Zenon DEF ParseAggregate, Goes
  <2>2. InitForm(c) # "indexed"
    <3>1. current \in Positions /\ current \in 1 .. Len(tokens) /\ Len(tokens) \in Nat /\ ~HasIndexed
          /\ tokens[current] = "{"
          /\ \A i \in 1 .. Len(tokens) : tokens[i] = "EOF" <=> i = Len(tokens)
      BY <1>1, QuietFacts DEF Quiet, Silent, Cur
    <3>2. tokens[current] # "EOF"
      BY <3>1
    <3>3. c = current + 1
      BY <3>1, <3>2, Passed
    <3> HIDE DEF c
    <3>4. current \in 1 .. Len(tokens) - 1
      <4>1. current # Len(tokens)
        BY <3>1, <3>2
      <4>2. current \in 1 .. Len(tokens) /\ Len(tokens) \in Nat
        BY <3>1
      <4> QED BY <4>1, <4>2
    <3>5. tokens[c] # "["
      BY <3>1, <3>3, <3>4 DEF HasIndexed
    <3> QED BY <3>5 DEF InitForm
  <2>3. TameWork(w)
    BY <1>2, <2>2, TameArguments, TameFour
  <2> HIDE DEF w
  <2> QED BY <1>1, <1>2, <2>1, <2>3, Skipped, OpenGoes
<1> QED BY <1>3, <1>4

LEMMA QuietArray == ASSUME Quiet, ParseArray PROVE CompleteInv'
<1>1. Doing("expr") /\ "expr" \in OpenNames /\ Cur = "["
  BY Zenon, NamesOpen DEF ParseArray
<1> DEFINE w == <<Items("positional", "]"), Expect("]"), Build("init", current, Base), Led(Arg(1))>>
<1>2. "init" \notin Holes /\ "]" \notin Worded /\ Cur \notin Worded /\ "positional" # "indexed"
  BY <1>1 DEF Holes, Worded
<1>3. Step(Forward(current), FALSE, nodes, w)
  BY Zenon DEF ParseArray, Goes
<1>4. TameWork(w)
  BY <1>2, TameArguments, TameFour
<1> HIDE DEF w
<1> QED BY <1>1, <1>2, <1>3, <1>4, Skipped, OpenGoes

(* The list of forms in progress. *)
LEMMA ItemsKnown ==
  ASSUME Quiet, Doing("items")
  PROVE  /\ Arg(1) # "indexed" /\ "items" \in OpenNames
         /\ Tame(More)
<1>1. todo # <<>> /\ Head(todo) = todo[1] /\ todo[1][1] = "items"
  BY HeadKinds
<1>2. Arg(1) = todo[1][2] /\ 1 \in DOMAIN todo
  BY <1>1, QuietFacts DEF Arg
<1>3. FormKnown(todo[1])
  BY <1>2, QuietFacts DEF Complete, FormsKnown
<1>4. Arg(1) # "indexed"
  BY <1>1, <1>2, <1>3 DEF FormKnown
<1> QED BY <1>4, NamesOpen, TameArguments DEF More

LEMMA QuietEndItems == ASSUME Quiet, EndItems PROVE CompleteInv'
<1>1. Doing("items") /\ Step(current, Arg(1) = "args" /\ Cur = "EOF", nodes, <<>>)
  BY Zenon DEF EndItems
<1>2. CASE Arg(1) = "args" /\ Cur = "EOF"
  <2>1. Step(current, TRUE, nodes, <<>>)
    BY <1>1, <1>2
  <2> QED BY <2>1, LoudStep
<1>3. CASE ~(Arg(1) = "args" /\ Cur = "EOF")
  <2>1. Step(current, FALSE, nodes, <<>>)
    BY <1>1, <1>3
  <2> QED BY <1>1, <2>1, ItemsKnown, Skipped, NothingLeft, OpenGoes
<1> QED BY <1>2, <1>3

LEMMA QuietItem == ASSUME Quiet, ParseItem PROVE CompleteInv'
<1>1. Doing("items") /\ Step(current, FALSE, nodes, <<Expr(0), More>>)
  BY Zenon DEF ParseItem, Goes
<1>2. "items" \in OpenNames /\ TameWork(<<Expr(0), More>>)
  BY <1>1, ItemsKnown, TameArguments, TameTwo
<1> QED BY <1>1, <1>2, Skipped, OpenGoes

LEMMA QuietIndexed == ASSUME Quiet, ParseIndexed PROVE FALSE
BY ItemsKnown DEF ParseIndexed

LEMMA QuietNamed == ASSUME Quiet, ParseNamed PROVE CompleteInv'
<1> DEFINE c == Forward(current)
           d == IF tokens[c] = "=" THEN Forward(c) ELSE c
           k == Node("field", current, Base + 1)
<1>1. Doing("items") /\ Step(d, FALSE, Append(nodes, k), <<Expr(0), More>>)
  BY Zenon DEF ParseNamed, Makes, Leaf
<1>2. "items" \in OpenNames /\ TameWork(<<Expr(0), More>>)
  BY <1>1, ItemsKnown, TameArguments, TameTwo
<1>3. d \in Positions /\ current <= d
  BY Skipped
<1>4. MarksAll(d, k)
  <2>1. "=" \notin Worded
    BY DEF Worded
  <2>2. ReadsOnly(d, current)
    BY <2>1, Reads
  <2> QED BY <2>2, MarksHere, NamesOpen
<1> QED BY ONLY Quiet, <1>1, <1>2, <1>3, <1>4, OpenMakes

LEMMA QuietEndExpr == ASSUME Quiet, EndExpr PROVE CompleteInv'
<1>1. Doing("led") /\ Step(current, FALSE, nodes, <<>>)
  BY Zenon DEF EndExpr, Goes
<1> QED BY <1>1, NamesOpen, Skipped, NothingLeft, OpenGoes

LEMMA QuietInfix == ASSUME Quiet, ParseInfix PROVE CompleteInv'
<1> DEFINE w == <<Expr(Prec(Cur) + 1), Build("binary", current, LastBase), Led(Arg(1))>>
<1>1. Doing("led") /\ Step(Forward(current), FALSE, nodes, w) /\ GoesOn(Cur, Arg(1)) /\ Cur \notin Postfix
  BY Zenon DEF ParseInfix, Goes
<1>2. Cur \notin Worded
  <2> SUFFICES ASSUME Cur \in Worded PROVE FALSE
    OBVIOUS
  <2>1. Prec(Cur) = -1
    BY DEF Prec, Worded
  <2>2. Prec(Cur) < 0 /\ ~(Prec(Cur) >= 0)
    BY <2>1
  <2>3. GoesOn(Cur, Arg(1)) <=> Cur \in Postfix
    BY <2>2 DEF GoesOn
  <2> QED BY <1>1, <2>3
<1>3. TameWork(w)
  <2>1. "binary" \notin Holes
    BY DEF Holes
  <2> QED BY <2>1, TameArguments, TameThree
<1> HIDE DEF w
<1> QED BY <1>1, <1>2, <1>3, NamesOpen, Skipped, OpenGoes

LEMMA QuietMember == ASSUME Quiet, ParseMember PROVE CompleteInv'
<1> DEFINE c == Forward(current)
           k == Node("member", c, LastBase + 1)
<1>1. Doing("led") /\ Cur = "."
  BY Zenon DEF ParseMember
<1>2. CASE tokens[c] # "name"
  <2>1. Step(SyncStmt(c), TRUE, Instead("error", c), <<Led(Arg(1))>>)
    BY <1>2, Zenon DEF ParseMember
  <2> QED BY <2>1, LoudStep
<1>3. CASE tokens[c] = "name"
  <2>1. Step(Forward(c), FALSE, Append(nodes, k), <<Led(Arg(1))>>)
    BY <1>3, Zenon DEF ParseMember, Around
  <2>2. Cur \notin Worded
    BY <1>1 DEF Worded
  <2>3. MarksAll(Forward(c), k)
    BY <2>2, Reads, MarksHere, NamesOpen
  <2>4. TameWork(<<Led(Arg(1))>>) /\ "led" \in OpenNames
    BY TameArguments, TameOne, NamesOpen
  <2>5. Forward(c) \in Positions /\ current <= Forward(c)
    BY Skipped
  <2> QED BY ONLY Quiet, <1>1, <2>1, <2>3, <2>4, <2>5, OpenMakes
<1> QED BY <1>2, <1>3

LEMMA QuietCall == ASSUME Quiet, ParseCall PROVE CompleteInv'
<1> DEFINE w == <<Items("args", ")"), Expect(")"), Build("call", current, LastBase), Led(Arg(1))>>
<1>1. Doing("led") /\ Step(Forward(current), FALSE, nodes, w) /\ Cur = "("
  BY Zenon DEF ParseCall, Goes
<1>2. "call" \notin Holes /\ ")" \notin Worded /\ Cur \notin Worded /\ "args" # "indexed"
  BY <1>1 DEF Holes, Worded
<1>3. TameWork(w)
  BY <1>2, TameArguments, TameFour
<1> HIDE DEF w
<1> QED BY <1>1, <1>2, <1>3, NamesOpen, Skipped, OpenGoes

LEMMA QuietIndex == ASSUME Quiet, ParseIndex PROVE CompleteInv'
<1> DEFINE c == Forward(current)
           w == <<Expr(0), Expect("]"), Build("index", current, LastBase), Led(Arg(1))>>
<1>1. Doing("led") /\ Cur = "["
  BY Zenon DEF ParseIndex
<1>2. CASE tokens[c] = "]"
  <2>1. Step(Forward(c), TRUE, Instead("error", c), <<Led(Arg(1))>>)
    BY <1>2, Zenon DEF ParseIndex
  <2> QED BY <2>1, LoudStep
<1>3. CASE tokens[c] # "]"
  <2>1. Step(c, FALSE, nodes, w)
    BY <1>3, Zenon DEF ParseIndex, Goes
  <2>2. "index" \notin Holes /\ "]" \notin Worded /\ Cur \notin Worded
    BY <1>1 DEF Holes, Worded
  <2>3. TameWork(w)
    BY <2>2, TameArguments, TameFour
  <2> HIDE DEF w
  <2> QED BY <1>1, <2>1, <2>2, <2>3, NamesOpen, Skipped, OpenGoes
<1> QED BY <1>2, <1>3

LEMMA QuietNamedType == ASSUME Quiet, ParseNamedType PROVE CompleteInv'
<1> DEFINE k == Node("type", current, Base + 1)
<1>1. Doing("type") /\ Step(Forward(current), FALSE, Append(nodes, k), <<Suffixes>>)
  BY Zenon DEF ParseNamedType, Makes, Leaf
<1>2. MarksAll(Forward(current), k)
  BY Reads, MarksHere, NamesOpen
<1>3. TameWork(<<Suffixes>>) /\ \A m \in 1 .. Len(<<Suffixes>>) : ~Opens(<<Suffixes>>[m])
  BY TamePlain, ShutTasks, TameOne
<1>4. Forward(current) \in Positions /\ current <= Forward(current) /\ "type" \in ShutNames
  BY Skipped, NamesOpen
<1> QED BY ONLY Quiet, <1>1, <1>2, <1>3, <1>4, ShutMakes

LEMMA QuietAnonType == ASSUME Quiet, ParseAnonType PROVE CompleteInv'
<1> DEFINE w == <<Anon, Expect("}"), Build("anon", current, Base), Suffixes>>
<1>1. Doing("type") /\ Step(Forward(current), FALSE, nodes, w) /\ Cur = "{"
  BY Zenon DEF ParseAnonType, Goes
<1>2. "anon" \notin Holes /\ "}" \notin Worded /\ Cur \notin Worded
  BY <1>1 DEF Holes, Worded
<1>3. TameWork(w)
  BY <1>2, TamePlain, TameArguments, TameFour
<1>4. \A m \in 1 .. Len(w) : ~Opens(w[m])
  <2>1. ~Opens(w[1]) /\ ~Opens(w[2]) /\ ~Opens(w[3]) /\ ~Opens(w[4]) /\ Len(w) = 4
    BY ShutTasks
  <2> HIDE DEF w
  <2>2. \A m \in 1 .. Len(w) : m = 1 \/ m = 2 \/ m = 3 \/ m = 4
    BY <2>1
  <2> QED BY <2>1, <2>2
<1> HIDE DEF w
<1> QED BY <1>1, <1>2, <1>3, <1>4, NamesOpen, Skipped, ShutGoes

LEMMA QuietPointer == ASSUME Quiet, ParsePointer PROVE CompleteInv'
<1> DEFINE k == Node("pointer", current, LastBase + 1)
<1>1. Doing("suffixes") /\ Step(Forward(current), FALSE, Append(nodes, k), <<Suffixes>>) /\ Cur = "*"
  BY Zenon DEF ParsePointer, Around
<1>2. Takes(Forward(current), <<>>) /\ Forward(current) \in Positions /\ current <= Forward(current)
  <2>1. Cur \notin Worded
    BY <1>1 DEF Worded
  <2> QED BY <2>1, Skipped
<1>3. MarksAll(Forward(current), k)
  <2>1. "pointer" \notin Holes
    BY DEF Holes
  <2> QED BY <1>2, <2>1, MarksNothing
<1>4. TameWork(<<Suffixes>>) /\ \A m \in 1 .. Len(<<Suffixes>>) : ~Opens(<<Suffixes>>[m])
  BY TamePlain, ShutTasks, TameOne
<1>5. "suffixes" \in ShutNames
  BY NamesOpen
<1> QED BY ONLY Quiet, <1>1, <1>2, <1>3, <1>4, <1>5, ShutMakes

LEMMA QuietArrayType == ASSUME Quiet, ParseArrayType PROVE CompleteInv'
<1> DEFINE c == Forward(current)
           v == <<Expect("]"), Build("array", current, LastBase), Suffixes>>
           w == <<Expr(0), Expect("]"), Build("array", current, LastBase), Suffixes>>
<1>1. Doing("suffixes") /\ Cur = "[" /\ "suffixes" \in ShutNames
  BY Zenon, NamesOpen DEF ParseArrayType
<1>2. "array" \notin Holes /\ "]" \notin Worded /\ Cur \notin Worded /\ "]" # "EOF"
  BY <1>1 DEF Holes, Worded
<1>3. CASE tokens[c] = "]"
  <2>1. Step(c, FALSE, nodes, <<>> \o v)
    BY <1>3, Zenon DEF ParseArrayType, Goes
  <2>2. <<>> \o v = v
    OBVIOUS
  <2>3. TameWork(v)
    BY <1>2, TamePlain, TameArguments, TameThree
  <2>4. \A m \in 1 .. Len(v) : ~Opens(v[m])
    BY ShutTasks
  <2> HIDE DEF v
  <2>5. Step(c, FALSE, nodes, v)
    BY <2>1, <2>2
  <2> QED BY <1>1, <1>2, <2>3, <2>4, <2>5, Skipped, ShutGoes
<1>4. CASE tokens[c] # "]"
  <2>1. Step(c, FALSE, nodes, <<Expr(0)>> \o v)
    BY <1>4, Zenon DEF ParseArrayType, Goes
  <2>2. <<Expr(0)>> \o v = w
    BY Joined, Zenon
  <2>3. TameWork(w) /\ Len(w) = 4
    BY <1>2, TamePlain, TameArguments, TameFour
  <2>4. \A m \in 1 .. Len(w) : 2 <= m => ~Opens(w[m])
    BY ShutTasks
  <2>5. 2 \in 1 .. Len(w) /\ Notices(w[2])
    BY <1>2, <2>3, ShutTasks
  <2> HIDE DEF w, v
  <2>6. Step(c, FALSE, nodes, w)
    BY <2>1, <2>2
  <2> QED BY <1>1, <1>2, <2>3, <2>4, <2>5, <2>6, Skipped, ClosedGoes
<1> QED BY <1>3, <1>4

LEMMA QuietEndType == ASSUME Quiet, EndType PROVE CompleteInv'
<1>1. Doing("suffixes") /\ Step(current, FALSE, nodes, <<>>)
  BY Zenon DEF EndType, Goes
<1> QED BY <1>1, NamesOpen, Skipped, NothingLeft, ShutGoes

(* The end of a list, at its brace. *)
LEMMA ListEnds ==
  ASSUME Quiet, NEW n \in {"stmts", "anon"}, Doing(n), NEW error \in BOOLEAN,
         Cur # "EOF" \/ error, Step(current, error, nodes, <<>>)
  PROVE  CompleteInv'
<1>1. CASE error = TRUE
  BY <1>1, LoudStep
<1>2. CASE error = FALSE
  <2>1. Step(current, FALSE, nodes, <<>>) /\ Cur # "EOF"
    BY <1>2
  <2>2. current # Len(tokens)
    BY <2>1, QuietFacts DEF Cur
  <2>3. todo[1][1] = n
    BY HeadKinds
  <2>4. ~Holder(todo[1])
    BY <2>3 DEF Holder
  <2>5. current \in Positions /\ current <= current /\ Takes(current, <<>>)
    BY Skipped
  <2>6. Fresh(tokens, current, current, todo, <<>>, {})
    BY <2>4, <2>5, TakesFresh
  <2>7. PICK new : new = {}
    OBVIOUS
  <2>8. PICK tree : tree = nodes
    OBVIOUS
  <2>9. Grown(nodes, tree, new) /\ Step(current, FALSE, tree, <<>>)
        /\ Fresh(tokens, current, current, todo, <<>>, new) /\ \A k \in new : k.node \notin Holes
    BY <2>1, <2>6, <2>7, <2>8, QuietFacts, GrownFacts
  <2>10. TameWork(<<>>) /\ Guarded(todo, <<>>)
    BY NothingLeft, GuardedNothing
  <2> QED BY ONLY Quiet, Doing(n), <2>2, <2>5, <2>9, <2>10, TameStep
<1> QED BY <1>1, <1>2

LEMMA QuietEndAnon == ASSUME Quiet, EndAnon PROVE CompleteInv'
<1>1. Doing("anon") /\ Step(current, Cur = "EOF", nodes, <<>>)
  BY Zenon DEF EndAnon
<1>2. PICK error \in BOOLEAN : error = (Cur = "EOF")
  OBVIOUS
<1>3. Step(current, error, nodes, <<>>) /\ (Cur # "EOF" \/ error)
  BY <1>1, <1>2
<1> QED BY <1>1, <1>3, ListEnds

LEMMA QuietAnonField == ASSUME Quiet, ParseAnonField PROVE CompleteInv'
<1> DEFINE c == Forward(current)
           w == <<Type, Default, AnonField(current, Base), Anon>>
<1>1. Doing("anon") /\ Cur = "name"
  BY Zenon DEF ParseAnonField
<1>2. CASE tokens[c] # ":"
  <2>1. Step(SyncStmt(SyncStmt(c)), TRUE, nodes, <<Anon>>)
    BY <1>2, Zenon DEF ParseAnonField, Reports
  <2> QED BY <2>1, LoudStep
<1>3. CASE tokens[c] = ":"
  <2>1. Step(Forward(c), FALSE, nodes, w)
    BY <1>3, Zenon DEF ParseAnonField, Goes
  <2>2. ReadsOnly(Forward(c), current)
    <3>1. tokens[c] \notin Worded
      BY <1>3 DEF Worded
    <3> QED BY <3>1, Reads
  <2>3. TameWork(w) /\ Len(w) = 4
    BY TamePlain, TameArguments, TameFour
  <2>4. Holds(tokens, w[3], current) /\ Notices(w[4]) /\ ~Opens(w[4])
    BY HoldingTasks, ShutTasks
  <2> HIDE DEF w
  <2>5. Takes(Forward(c), w)
    BY <2>2, <2>3, <2>4, TakesIt
  <2>6. 4 \in 1 .. Len(w) /\ \A m \in 1 .. Len(w) : 4 <= m => ~Opens(w[m])
    <3>1. \A m \in 1 .. Len(w) : 4 <= m => m = 4
      BY <2>3
    <3> QED BY <2>3, <2>4, <3>1
  <2>7. Cur # "EOF" /\ Forward(c) \in Positions /\ current <= Forward(c)
    BY <1>1, Skipped
  <2> QED BY <1>1, <2>1, <2>3, <2>4, <2>5, <2>6, <2>7, ClosedGoes
<1> QED BY <1>2, <1>3

(* A call that has begun with a name, and hands it on.                     *)
Readers == {"body", "func returns", "func body", "anon field"}

LEMMA HandsOn ==
  ASSUME Quiet, NEW n \in Readers, Doing(n), Cur \notin Worded,
         NEW w, TameWork(w), Step(Forward(current), FALSE, nodes, w),
         NEW k \in 1 .. Len(w), Holds(tokens, w[k], Arg(1)),
         \A m \in 1 .. Len(w) : ~Opens(w[m])
  PROVE  CompleteInv'
<1>1. todo # <<>> /\ Head(todo) = todo[1] /\ todo[1][1] = n
  BY HeadKinds
<1>2. \A i : Holds(tokens, todo[1], i) => i = Arg(1)
  <2>1. PICK t : t = todo[1]
    OBVIOUS
  <2>2. t[1] = n /\ Arg(1) = t[2]
    <3>1. Arg(1) = todo[1][2]
      BY <1>1 DEF Arg
    <3> QED BY <1>1, <2>1, <3>1
  <2>3. \A i : Holds(tokens, t, i) => i = t[2]
    <3>1. t[1] # "build"
      BY <2>2, Zenon DEF Readers
    <3> QED BY <3>1, Zenon DEF Holds
  <2> QED BY <2>1, <2>2, <2>3
<1>3. \A i : Holds(tokens, todo[1], i) => \E l \in 1 .. Len(w) : Holds(tokens, w[l], i)
  BY <1>2
<1>4. /\ Forward(current) \in Positions /\ current <= Forward(current)
      /\ \A i \in current .. Forward(current) - 1 : i = current
  BY QuietFacts, Passed
<1>5. \A i \in current .. Forward(current) - 1 : tokens[i] \notin Worded
  BY <1>4 DEF Cur
<1>6. Fresh(tokens, current, Forward(current), todo, w, {})
  <2>1. current \in 1 .. Len(tokens) /\ Len(tokens) \in Nat
    BY QuietFacts
  <2>2. current \in Nat /\ Forward(current) \in Nat
    <3>1. Forward(current) \in 1 .. Len(tokens)
      BY <1>4 DEF Positions
    <3> QED BY <2>1, <3>1
  <2> QED BY <1>3, <1>5, <2>2, FreshHandedOn
<1>7. PICK new : new = {}
  OBVIOUS
<1>8. PICK tree : tree = nodes
  OBVIOUS
<1>9. Grown(nodes, tree, new) /\ Step(Forward(current), FALSE, tree, w)
      /\ Fresh(tokens, current, Forward(current), todo, w, new) /\ \A l \in new : l.node \notin Holes
  BY <1>6, <1>7, <1>8, QuietFacts, GrownFacts
<1>10. n \notin {"expect", "stmts", "anon"}
  BY Zenon DEF Readers
<1> QED BY ONLY Quiet, Doing(n), TameWork(w), \A m \in 1 .. Len(w) : ~Opens(w[m]),
                <1>4, <1>9, <1>10, TameShut

LEMMA QuietEndField == ASSUME Quiet, EndAnonField PROVE CompleteInv'
<1>1. Doing("anon field")
  BY Zenon DEF EndAnonField
<1>2. CASE Cur # ";"
  <2>1. Step(SyncStmt(SyncStmt(current)), TRUE, Below(Arg(2)), <<>>)
    BY <1>2, Zenon DEF EndAnonField
  <2> QED BY <2>1, LoudStep
<1>3. CASE Cur = ";"
  <2> DEFINE w == <<Build("field", Arg(1), Arg(2))>>
  <2>1. Step(Forward(current), FALSE, nodes, w)
    BY <1>3, Zenon DEF EndAnonField, Goes
  <2>2. "field" \in Named /\ "field" \notin Holes /\ Cur \notin Worded
    BY <1>3 DEF Named, Holes, Worded
  <2>3. TameWork(w) /\ Len(w) = 1
    BY <2>2, TameArguments, TameOne
  <2>4. Holds(tokens, w[1], Arg(1)) /\ ~Opens(w[1])
    BY <2>2, HoldingTasks, ShutTasks
  <2> HIDE DEF w
  <2>5. 1 \in 1 .. Len(w) /\ \A m \in 1 .. Len(w) : m = 1
    BY <2>3
  <2>6. "anon field" \in Readers
    BY Zenon DEF Readers
  <2> QED BY <1>1, <2>1, <2>2, <2>3, <2>4, <2>5, <2>6, HandsOn
<1> QED BY <1>2, <1>3

(* A hole where the file ends. *)
LEMMA HoleStep ==
  ASSUME Quiet, NEW n \in OpenNames, Doing(n), Cur = "EOF", NEW k,
         Step(current, FALSE, Append(nodes, k), <<>>)
  PROVE  CompleteInv'
<1>1. /\ todo # <<>> /\ todo \in Seq(Tasks) /\ current \in Positions /\ current <= current
      /\ current = Len(tokens) /\ Complete(tokens, current, nodes, todo)
  <2>1. todo # <<>>
    BY Zenon DEF Doing
  <2>2. todo \in Seq(Tasks) /\ current \in Positions /\ Complete(tokens, current, nodes, todo)
        /\ current <= current
    BY QuietFacts
  <2>3. current = Len(tokens)
    BY QuietFacts DEF Cur
  <2> QED BY <2>1, <2>2, <2>3
<1>2. Opens(todo[1]) /\ ~Notices(todo[1]) /\ ~Holder(todo[1])
  BY HeadKinds DEF OpenNames
<1>3. PICK new : new = {k}
  OBVIOUS
<1>4. PICK tree : tree = Append(nodes, k)
  OBVIOUS
<1>5. PICK w : w = <<>>
  OBVIOUS
<1>6. Grown(nodes, tree, new) /\ Step(current, FALSE, tree, w)
  BY <1>3, <1>4, <1>5, QuietFacts, GrownFacts
<1>7. TameWork(w) /\ 1 .. Len(w) = {} /\ Work(w)
  BY <1>5, NothingLeft DEF TameWork
<1>8. Fresh(tokens, current, current, todo, w, new)
  <2>1. Takes(current, w)
    BY Skipped
  <2> QED BY <1>1, <1>2, <2>1, TakesFresh
<1>9. NewCasts(current, tree, w) /\ Guarded(todo, w) /\ Castless(w, 1)
  BY <1>7 DEF NewCasts, Guarded, Castless
<1>10. NewHoles(tokens, current, todo, w, new)
  BY <1>1, <1>2, <1>5 DEF NewHoles
<1>11. AliasesHeld(tokens, current, w \o Tail(todo)) /\ \A m \in 1 .. Len(w) : FormKnown(w[m])
  <2>1. Joins(w, todo, w \o Tail(todo))
    BY <1>1, <1>7, JoinFacts
  <2>2. AliasesHeld(tokens, current, todo)
    BY <1>1 DEF Complete
  <2> QED BY <1>7, <2>1, <2>2, AliasesAfter
<1> QED BY ONLY Quiet, <1>1, <1>2, <1>6, <1>7, <1>8, <1>9, <1>10, <1>11, QuietStep

LEMMA QuietNothing == ASSUME Quiet, ParseNothing PROVE CompleteInv'
<1>1. Doing("expr") /\ Step(current, FALSE, Append(nodes, Node("error", current, Base + 1)), <<>>)
      /\ Cur \in {"EOF", "ERROR"}
  BY Zenon DEF ParseNothing, Makes, Leaf
<1>2. Cur # "ERROR"
  BY QuietFacts DEF Cur
<1>3. Cur = "EOF" /\ "expr" \in OpenNames
  BY <1>1, <1>2, NamesOpen
<1> QED BY <1>1, <1>3, HoleStep, Zenon

(* A type that may be the one of a cast. *)
LEMMA QuietGroup == ASSUME Quiet, ParseGroupOrCast PROVE CompleteInv'
<1> DEFINE c == Forward(current)
<1>1. Doing("expr") /\ "expr" \in OpenNames /\ Cur = "("
  BY Zenon, NamesOpen DEF ParseGroupOrCast
<1>2. Cur \notin Worded /\ ")" \notin Worded
  BY <1>1 DEF Worded
<1>3. CASE ~CanBeType(tokens[c])
  <2> DEFINE w == <<Expr(0), Expect(")"), Led(Arg(1))>>
  <2>1. Step(c, FALSE, nodes, w)
    BY <1>3, Zenon DEF ParseGroupOrCast, Goes
  <2>2. TameWork(w)
    BY <1>2, TameArguments, TameThree
  <2> HIDE DEF w
  <2> QED BY <1>1, <1>2, <2>1, <2>2, Skipped, OpenGoes
<1>4. CASE CanBeType(tokens[c])
  <2> DEFINE v == <<Type, CastOrGroup(c, Base), Led(Arg(1))>>
  <2>1. PICK w : w = v
    OBVIOUS
  <2>2. Step(c, FALSE, nodes, w)
    BY <1>4, <2>1, Zenon DEF ParseGroupOrCast, Goes
  <2>3. Len(w) = 3 /\ Work(w)
    <3>1. v \in Seq({Type, CastOrGroup(c, Base), Led(Arg(1))}) /\ Len(v) = 3
      OBVIOUS
    <3> QED BY <2>1, <3>1 DEF Work
  <2>4. /\ w[1][1] = "type" /\ w[2][1] = "cast" /\ w[2][2] = c /\ w[2][3] = Base /\ w[3][1] = "led"
    BY <2>1 DEF Type, CastOrGroup, Led
  <2>5. \A m \in 1 .. Len(w) : m = 1 \/ m = 2 \/ m = 3
    BY <2>3
  <2>6. c \in Positions /\ current <= c /\ Takes(c, w)
    BY <1>2, Skipped
  <2>7. Opens(todo[1]) /\ ~Holder(todo[1]) /\ todo # <<>> /\ todo \in Seq(Tasks) /\ current # Len(tokens)
        /\ Complete(tokens, current, nodes, todo)
    <3>1. current # Len(tokens)
      BY <1>1, QuietFacts DEF Cur
    <3>2. todo # <<>>
      BY <1>1, Zenon DEF Doing
    <3>3. todo[1][1] = "expr"
      BY <1>1, HeadKinds, Zenon
    <3>4. Opens(todo[1]) /\ ~Holder(todo[1])
      BY <3>3 DEF Opens, Holder
    <3>5. todo \in Seq(Tasks) /\ Complete(tokens, current, nodes, todo)
      BY QuietFacts, Zenon
    <3> QED BY <3>1, <3>2, <3>4, <3>5
  <2>8. PICK new : new = {}
    OBVIOUS
  <2>9. PICK tree : tree = nodes
    OBVIOUS
  <2>10. Grown(nodes, tree, new) /\ Step(c, FALSE, tree, w) /\ Len(tree) = Base
    BY <2>2, <2>8, <2>9, QuietFacts, GrownFacts DEF Base
  <2>11. Fresh(tokens, current, c, todo, w, new)
    BY <2>6, <2>7, TakesFresh
  <2>12. NewCasts(c, tree, w)
    <3> SUFFICES ASSUME NEW m \in 1 .. Len(w), IsCast(w[m])
                 PROVE  w[m][2] = c /\ w[m][3] = Len(tree) /\ \A k \in 1 .. m : ~Holder(w[k])
      BY DEF NewCasts
    <3>1. m = 2
      BY <2>4, <2>5 DEF IsCast
    <3>2. \A k \in 1 .. m : k = 1 \/ k = 2
      BY <3>1
    <3> QED BY <2>4, <2>10, <3>1, <3>2 DEF Holder
  <2>13. Guarded(todo, w)
    <3> SUFFICES ASSUME NEW m \in 1 .. Len(w), Opens(w[m]) PROVE Castless(w, m + 1)
      BY <2>7 DEF Guarded
    <3>1. m = 2 \/ m = 3
      BY <2>4, <2>5 DEF Opens
    <3>2. \A l \in m + 1 .. Len(w) : l = 3
      BY <2>3, <3>1
    <3> QED BY <2>4, <3>2 DEF Castless, IsCast
  <2>14. \A m \in 1 .. Len(w) : FormKnown(w[m]) /\ ~IsAliases(w[m])
    <3>1. FormKnown(w[1]) /\ FormKnown(w[2]) /\ FormKnown(w[3])
      BY <2>4 DEF FormKnown
    <3>2. ~IsAliases(w[1]) /\ ~IsAliases(w[2]) /\ ~IsAliases(w[3])
      BY <2>4 DEF IsAliases
    <3> QED BY <2>5, <3>1, <3>2
  <2>15. AliasesHeld(tokens, c, w \o Tail(todo))
    <3>1. Joins(w, todo, w \o Tail(todo))
      BY <2>3, <2>7, JoinFacts
    <3>2. AliasesHeld(tokens, current, todo)
      BY <2>7 DEF Complete
    <3> QED BY <2>14, <3>1, <3>2, AliasesAfter
  <2>16. NewHoles(tokens, current, todo, w, new)
    BY <2>8 DEF NewHoles
  <2> QED BY ONLY Quiet, <2>3, <2>6, <2>7, <2>10, <2>11, <2>12, <2>13, <2>14, <2>15, <2>16, QuietStep
<1> QED BY <1>3, <1>4

(* Going back, all that was read by then is kept in what is left of the    *)
(* tree.                                                                   *)
LEMMA QuietCast == ASSUME Quiet, DecideCast PROVE CompleteInv'
<1>1. Doing("cast") /\ todo # <<>> /\ todo[1][1] = "cast" /\ Head(todo) = todo[1]
  BY HeadKinds, Zenon DEF DecideCast
<1>2. CASE Cur = ")" /\ StartsExpr(Peek(1))
  <2> DEFINE w == <<Expr(0), Build("cast", Arg(1), Arg(2))>>
  <2>1. Step(Forward(current), FALSE, nodes, w)
    BY <1>2, Zenon DEF DecideCast, Goes
  <2>2. Cur \notin Worded /\ "cast" \in OpenNames /\ "cast" \notin Holes
    BY <1>2 DEF Worded, OpenNames, Holes
  <2>3. TameWork(w)
    BY <2>2, TameArguments, TameTwo
  <2> HIDE DEF w
  <2> QED BY <1>1, <2>1, <2>2, <2>3, Skipped, OpenGoes
<1>3. CASE ~(Cur = ")" /\ StartsExpr(Peek(1)))
  <2>1. PICK b : b = Arg(2)
    OBVIOUS
  <2>2. PICK c : c = Arg(1)
    OBVIOUS
  <2>3. PICK w : w = <<Expr(0), Expect(")")>>
    OBVIOUS
  <2>4. PICK tree : tree = Below(b)
    OBVIOUS
  <2> DEFINE r == w \o Tail(todo)
  <2>5. /\ current' = c /\ reported' = reported /\ nodes' = tree /\ todo' = r
        /\ tokens' = tokens /\ crashed' = crashed
    <3>1. Step(c, FALSE, tree, w)
      BY <1>3, <2>1, <2>2, <2>3, <2>4, Zenon DEF DecideCast
    <3> QED BY <3>1 DEF Step, Quiet, IInv, TypeInv
  <2>6. b = todo[1][3] /\ c = todo[1][2] /\ IsCast(todo[1]) /\ HasBase(todo[1]) /\ BaseOf(todo[1]) = b
    BY <1>1, <2>1, <2>2 DEF Arg, IsCast, HasBase, BaseOf
  <2>7. /\ todo \in Seq(Tasks) /\ nodes \in Seq(NodeSet) /\ 1 \in DOMAIN todo
        /\ Complete(tokens, current, nodes, todo)
        /\ \A i \in DOMAIN tokens : tokens[i] # "ERROR"
    BY <1>1, QuietFacts
  <2>8. /\ b \in 0 .. Len(nodes)
        /\ \A m \in DOMAIN todo : 1 < m /\ IsCast(todo[m]) => todo[m][3] <= b /\ todo[m][3] \in Nat
    <3>1. BasesHold(nodes, todo)
      BY Zenon DEF Quiet, IInv
    <3>2. Boundary(nodes, b)
      BY <2>6, <2>7, <3>1 DEF BasesHold
    <3>3. ASSUME NEW m \in DOMAIN todo, 1 < m, IsCast(todo[m])
          PROVE  todo[m][3] <= b /\ todo[m][3] \in Nat
      <4>1. HasBase(todo[m]) /\ BaseOf(todo[m]) = todo[m][3]
        BY <3>3 DEF IsCast, HasBase, BaseOf
      <4>2. BaseOf(todo[m]) <= BaseOf(todo[1]) /\ Boundary(nodes, BaseOf(todo[m]))
        BY <2>6, <2>7, <3>1, <3>3, <4>1 DEF BasesHold
      <4> QED BY <2>6, <4>1, <4>2 DEF Boundary
    <3> QED BY <3>2, <3>3 DEF Boundary
  <2>9. Len(tree) = b /\ b \in Nat /\ \A k \in 1 .. b : tree[k] = nodes[k]
    BY <2>4, <2>7, <2>8 DEF Below
  <2>10. \A d : d <= b /\ d \in Nat => \A i : Marked(tokens, nodes, d, i) => Marked(tokens, tree, d, i)
    <3> SUFFICES ASSUME NEW d \in Nat, d <= b, NEW i, Marked(tokens, nodes, d, i)
                 PROVE  Marked(tokens, tree, d, i)
      OBVIOUS
    <3>1. PICK k \in 1 .. d : Marks(tokens, nodes[k].node, nodes[k].at, i)
      BY DEF Marked
    <3>2. k \in 1 .. b /\ tree[k] = nodes[k]
      BY <2>9
    <3> QED BY <3>1, <3>2 DEF Marked
  <2>11. TameWork(w) /\ Len(w) = 2
    <3>1. ")" \notin Worded
      BY DEF Worded
    <3> QED BY <2>3, <3>1, TameArguments, TameTwo
  <2>12. Joins(w, todo, r)
    BY <2>7, <1>1, <2>11, JoinFacts DEF TameWork
  <2> HIDE DEF r
  <2>13. Covered(tokens, c, tree, Len(tree), r, 0)
    <3> SUFFICES ASSUME NEW i \in 1 .. c - 1, tokens[i] \in Worded
                 PROVE  Marked(tokens, tree, b, i) \/ Held(tokens, r, 0, i)
      BY <2>9 DEF Covered
    <3>1. Covered(tokens, c, nodes, b, todo, 1)
      BY <2>6, <2>7 DEF Complete, CastsCovered
    <3>2. Marked(tokens, nodes, b, i) \/ Held(tokens, todo, 1, i)
      BY <3>1 DEF Covered
    <3>3. Held(tokens, todo, 1, i) => Held(tokens, r, 0, i)
      <4> SUFFICES ASSUME Held(tokens, todo, 1, i) PROVE Held(tokens, r, 0, i)
        OBVIOUS
      <4>1. 1 \in 1 .. Len(todo)
        BY <2>7
      <4>2. Held(tokens, r, Len(w) + 1 - 1, i)
        BY <2>12, <4>1, HeldAfter
      <4>3. Len(w) + 1 - 1 = 2
        BY <2>11
      <4>4. PICK k \in DOMAIN r : k > 2 /\ Holds(tokens, r[k], i)
        BY <4>2, <4>3 DEF Held
      <4>5. k > 0
        BY <2>12, <4>4 DEF Joins
      <4> QED BY <4>4, <4>5 DEF Held
    <3>4. b <= b
      BY <2>9
    <3>5. Marked(tokens, nodes, b, i) => Marked(tokens, tree, b, i)
      BY <2>9, <2>10, <3>4
    <3> QED BY <3>2, <3>3, <3>5
  <2>14. CastsCovered(tokens, tree, r)
    <3> SUFFICES ASSUME NEW m \in 1 .. Len(r), IsCast(r[m])
                 PROVE  Covered(tokens, r[m][2], tree, r[m][3], r, m)
      BY <2>12 DEF CastsCovered, Joins
    <3>1. m \notin 1 .. Len(w)
      BY <2>11, <2>12 DEF Joins, TameWork, Tame
    <3>2. PICK l \in 2 .. Len(todo) : l = m - Len(w) + 1 /\ r[m] = todo[l]
      BY <2>12, <3>1 DEF Joins
    <3>3. l \in DOMAIN todo /\ 1 < l /\ Len(w) + l - 1 = m /\ l \in 1 .. Len(todo)
      BY <2>11, <2>12, <3>2 DEF Joins
    <3>4. Covered(tokens, todo[l][2], nodes, todo[l][3], todo, l)
      BY <2>7, <3>2, <3>3 DEF Complete, CastsCovered
    <3>5. todo[l][3] <= b /\ todo[l][3] \in Nat
      BY <2>8, <3>2, <3>3
    <3> SUFFICES ASSUME NEW i \in 1 .. todo[l][2] - 1, tokens[i] \in Worded
                 PROVE  Marked(tokens, tree, todo[l][3], i) \/ Held(tokens, r, m, i)
      BY <3>2 DEF Covered
    <3>6. Marked(tokens, nodes, todo[l][3], i) \/ Held(tokens, todo, l, i)
      BY <3>4 DEF Covered
    <3>7. Held(tokens, todo, l, i) => Held(tokens, r, m, i)
      BY <2>12, <3>3, HeldAfter
    <3> QED BY <2>10, <3>5, <3>6, <3>7
  <2>15. Watched(r)
    <3>1. Guarded(todo, w)
      <4>1. Opens(todo[1])
        BY <1>1 DEF Opens
      <4>2. \A m \in 1 .. Len(w) : Castless(w, m + 1)
        BY <2>11 DEF Castless, TameWork, Tame
      <4> QED BY <4>1, <4>2 DEF Guarded
    <3> QED BY <2>7, <2>12, <3>1, WatchedAfter DEF Complete
  <2>16. HolesSeen(tokens, c, tree, r)
    <3> SUFFICES ASSUME NEW k \in DOMAIN tree, tree[k].node \in Holes PROVE FALSE
      BY DEF HolesSeen
    <3>1. k \in 1 .. b
      BY <2>4, <2>7, <2>8 DEF Below
    <3>2. k \in DOMAIN nodes /\ nodes[k].node \in Holes
      BY <2>7, <2>8, <2>9, <3>1
    <3>3. Seen(todo, 1)
      BY <2>7, <3>2 DEF Complete, HolesSeen
    <3>4. PICK j \in DOMAIN todo : Notices(todo[j]) /\ \A l \in 1 .. j - 1 : ~IsCast(todo[l])
      BY <3>3 DEF Seen
    <3>5. j # 1
      BY <1>1, <3>4 DEF Notices
    <3>6. 1 \in 1 .. j - 1
      BY <2>7, <3>5
    <3> QED BY <2>6, <3>4, <3>6
  <2>17. FormsKnown(r)
    BY <2>7, <2>11, <2>12, FormsAfter DEF Complete, TameWork, Tame
  <2>18. AliasesHeld(tokens, c, r)
    BY <2>7, <2>11, <2>12, AliasesAfter DEF Complete, TameWork, Tame
  <2>19. Complete(tokens, c, tree, r)
    BY <2>13, <2>14, <2>15, <2>16, <2>17, <2>18 DEF Complete
  <2>20. Complete(tokens', current', nodes', todo')
    BY <2>5, <2>19, Zenon
  <2>21. \A i \in DOMAIN tokens' : tokens'[i] # "ERROR"
    BY <2>5, <2>7, Zenon
  <2> QED BY <2>20, <2>21, Zenon DEF CompleteInv
<1> QED BY <1>2, <1>3

LEMMA QuietCrash == ASSUME Quiet, CrashInNamed \/ CrashInFfi PROVE CompleteInv'
<1>1. crashed' = TRUE /\ tokens' = tokens /\ \A i \in DOMAIN tokens : tokens[i] # "ERROR"
  BY QuietFacts, CrashFacts
<1>2. \A i \in DOMAIN tokens' : tokens'[i] # "ERROR"
  BY <1>1, Zenon
<1> QED BY <1>1, <1>2 DEF CompleteInv, Silent

LEMMA LoudExprSteps ==
  ASSUME NotExpected \/ NotAnExpr \/ NotAType \/ NotAField
  PROVE  CompleteInv'
<1>1. CASE NotExpected
  <2>1. Step(Further(SyncStmt(current), Arg(2)), TRUE, nodes, <<>>)
    BY <1>1, Zenon DEF NotExpected, Reports
  <2> QED BY <2>1, LoudStep
<1>2. CASE NotAnExpr
  <2>1. Step(Forward(current), TRUE, Leaf("error", Forward(current)), <<Led(Arg(1))>>)
    BY <1>2, Zenon DEF NotAnExpr
  <2> QED BY <2>1, LoudStep
<1>3. CASE NotAType
  <2>1. Step(current, TRUE, Leaf("type", current), <<Suffixes>>)
    BY <1>3, Zenon DEF NotAType
  <2> QED BY <2>1, LoudStep
<1>4. CASE NotAField
  <2>1. Step(SyncStmt(current), TRUE, nodes, <<Anon>>)
    BY <1>4, Zenon DEF NotAField, Reports
  <2> QED BY <2>1, LoudStep
<1> QED BY <1>1, <1>2, <1>3, <1>4

LEMMA QuietExprSteps == ASSUME Quiet, ExprStep PROVE CompleteInv'
<1>1. CASE NotExpected \/ NotAnExpr \/ NotAType \/ NotAField
  BY <1>1, LoudExprSteps
<1>2. CASE Expected \/ BuildNode \/ MatchComma \/ ParseDefault
  BY <1>2, QuietExpected, QuietBuild, QuietComma, QuietDefault
<1>3. CASE ParseNothing \/ ParseAtom \/ ParseUnary \/ ParseLeadingDot \/ ParseFfi
           \/ ParseAggregate \/ ParseArray \/ ParseGroupOrCast \/ DecideCast
  BY <1>3, QuietNothing, QuietAtom, QuietUnary, QuietDot, QuietFfi, QuietAggregate, QuietArray,
     QuietGroup, QuietCast
<1>4. CASE EndItems \/ ParseItem \/ ParseIndexed \/ ParseNamed \/ CrashInNamed \/ CrashInFfi
  BY <1>4, QuietEndItems, QuietItem, QuietIndexed, QuietNamed, QuietCrash
<1>5. CASE EndExpr \/ ParseInfix \/ ParseMember \/ ParseCall \/ ParseIndex
  BY <1>5, QuietEndExpr, QuietInfix, QuietMember, QuietCall, QuietIndex
<1>6. CASE ParseNamedType \/ ParseAnonType \/ ParsePointer \/ ParseArrayType \/ EndType
  BY <1>6, QuietNamedType, QuietAnonType, QuietPointer, QuietArrayType, QuietEndType
<1>7. CASE EndAnon \/ ParseAnonField \/ EndAnonField
  BY <1>7, QuietEndAnon, QuietAnonField, QuietEndField
<1> QED BY <1>1, <1>2, <1>3, <1>4, <1>5, <1>6, <1>7, Zenon DEF ExprStep

-----------------------------------------------------------------------------
(* The steps of the parser of statements that report nothing.              *)

LEMMA StmtTokens ==
  /\ {"(", ")", "{", "}", ";", "=", ":", ",", "if", "else", "while", "for", "do", "return", "break",
      "continue", "var", "EOF"} \cap Worded = {}
  /\ {"expr stmt", "block", "return", "break", "continue", "decl", "if", "while", "do", "for"}
       \cap Holes = {}
BY DEF Worded, Holes

LEMMA QuietEmptyBlock == ASSUME Quiet, EmptyBlock PROVE CompleteInv'
<1> DEFINE k == Node("block", current, Base + 1)
<1>1. Doing("stmt") /\ Step(Forward(current), FALSE, Append(nodes, k), <<>>) /\ Cur = ";"
  BY Zenon DEF EmptyBlock, Makes, Leaf
<1>2. Takes(Forward(current), <<>>) /\ Forward(current) \in Positions /\ current <= Forward(current)
  <2>1. Cur \notin Worded
    BY <1>1, StmtTokens
  <2> QED BY <2>1, Skipped
<1>3. MarksAll(Forward(current), k)
  <2>1. "block" \notin Holes
    BY StmtTokens
  <2> QED BY <1>2, <2>1, MarksNothing
<1>4. TameWork(<<>>) /\ "stmt" \in OpenNames
  BY NothingLeft, NamesOpen
<1> QED BY ONLY Quiet, <1>1, <1>2, <1>3, <1>4, OpenMakes

LEMMA QuietNoStmt == ASSUME Quiet, NoStmt PROVE CompleteInv'
<1>1. Doing("stmt") /\ Step(current, FALSE, Append(nodes, Node("none", current, Base + 1)), <<>>)
      /\ Cur = "EOF"
  BY Zenon DEF NoStmt, Makes, Leaf
<1>2. "stmt" \in OpenNames
  BY NamesOpen
<1> QED BY <1>1, <1>2, HoleStep, Zenon

LEMMA QuietExprStmt == ASSUME Quiet, ParseExprStmt PROVE CompleteInv'
<1> DEFINE w == <<Expr(0), Expect(";"), Build("expr stmt", current, Base)>>
<1>1. Doing("stmt") /\ Step(current, FALSE, nodes, w)
  BY Zenon DEF ParseExprStmt, Goes
<1>2. TameWork(w)
  BY StmtTokens, TameArguments, TameThree
<1> HIDE DEF w
<1> QED BY <1>1, <1>2, NamesOpen, Skipped, OpenGoes

LEMMA QuietBlock == ASSUME Quiet, ParseBlock PROVE CompleteInv'
<1> DEFINE w == <<Stmts, Expect("}"), Build("block", current, Base)>>
<1>1. (Doing("stmt") \/ Doing("block")) /\ Step(Forward(current), FALSE, nodes, w) /\ Cur = "{"
  BY Zenon DEF ParseBlock, Goes
<1>2. Cur \notin Worded
  BY <1>1, StmtTokens
<1>3. TameWork(w)
  BY StmtTokens, TamePlain, TameArguments, TameThree
<1>4. \A m \in 1 .. Len(w) : ~Opens(w[m])
  <2>1. ~Opens(w[1]) /\ ~Opens(w[2]) /\ ~Opens(w[3]) /\ Len(w) = 3
    BY ShutTasks
  <2> HIDE DEF w
  <2>2. \A m \in 1 .. Len(w) : m = 1 \/ m = 2 \/ m = 3
    BY <2>1
  <2> QED BY <2>1, <2>2
<1> HIDE DEF w
<1>5. CASE Doing("stmt")
  BY <1>1, <1>2, <1>3, <1>5, NamesOpen, Skipped, OpenGoes
<1>6. CASE Doing("block")
  BY <1>1, <1>2, <1>3, <1>4, <1>6, NamesOpen, Skipped, ShutGoes
<1> QED BY <1>1, <1>5, <1>6

LEMMA QuietEndStmts == ASSUME Quiet, EndStmts PROVE CompleteInv'
<1>1. Doing("stmts") /\ Step(current, Cur = "EOF", nodes, <<>>)
  BY Zenon DEF EndStmts
<1>2. PICK error \in BOOLEAN : error = (Cur = "EOF")
  OBVIOUS
<1>3. Step(current, error, nodes, <<>>) /\ (Cur # "EOF" \/ error)
  BY <1>1, <1>2
<1> QED BY <1>1, <1>3, ListEnds

LEMMA QuietNextStmt == ASSUME Quiet, NextStmt PROVE CompleteInv'
<1> DEFINE w == <<Stmt, Stmts>>
<1>1. Doing("stmts") /\ Step(current, FALSE, nodes, w) /\ Cur # "EOF"
  BY Zenon DEF NextStmt, Goes
<1>2. TameWork(w) /\ Len(w) = 2
  BY TamePlain, TameTwo
<1>3. Notices(w[2]) /\ ~Opens(w[2])
  BY ShutTasks
<1> HIDE DEF w
<1>4. 2 \in 1 .. Len(w) /\ \A m \in 1 .. Len(w) : 2 <= m => m = 2
  BY <1>2
<1>5. \A m \in 1 .. Len(w) : 2 <= m => ~Opens(w[m])
  BY <1>3, <1>4
<1> QED BY <1>1, <1>2, <1>3, <1>4, <1>5, Skipped, ClosedGoes

(* A task before two others. *)
LEMMA JoinedTwo ==
  ASSUME NEW w, NEW x, NEW y
  PROVE  <<w>> \o <<x, y>> = <<w, x, y>>
<1> DEFINE S == {w, x, y}
           s == <<w>>
           t == <<x, y>>
           r == <<w, x, y>>
           u == s \o t
<1>1. /\ s \in Seq(S) /\ Len(s) = 1 /\ s[1] = w
      /\ t \in Seq(S) /\ Len(t) = 2 /\ t[1] = x /\ t[2] = y
      /\ r \in Seq(S) /\ Len(r) = 3 /\ r[1] = w /\ r[2] = x /\ r[3] = y
  OBVIOUS
<1> HIDE DEF s, t, r, S
<1>2. /\ u \in Seq(S) /\ Len(u) = Len(s) + Len(t)
      /\ \A i \in 1 .. Len(s) + Len(t) : u[i] = IF i <= Len(s) THEN s[i] ELSE t[i - Len(s)]
  BY <1>1, ConcatProperties, Zenon
<1> HIDE DEF u
<1>3. u[1] = w /\ u[2] = x /\ u[3] = y /\ Len(u) = 3
  BY <1>1, <1>2
<1>4. \A i \in 1 .. 3 : i = 1 \/ i = 2 \/ i = 3
  OBVIOUS
<1>5. \A i \in 1 .. Len(u) : u[i] = r[i]
  BY <1>1, <1>3, <1>4, Zenon
<1>6. u = r
  BY <1>1, <1>2, <1>3, <1>5, SeqEqual, Zenon
<1> QED BY <1>6 DEF u, s, t, r

LEMMA QuietReturn == ASSUME Quiet, ParseReturn PROVE CompleteInv'
<1> DEFINE c == Forward(current)
           v == <<Expect(";"), Build("return", current, Base)>>
           w == <<Expr(0), Expect(";"), Build("return", current, Base)>>
<1>1. Doing("stmt") /\ Cur \notin Worded
  <2>1. Doing("stmt") /\ Cur = "return"
    BY Zenon DEF ParseReturn
  <2> QED BY <2>1, StmtTokens
<1>2. CASE tokens[c] \in {";", "}", "EOF"}
  <2>1. Step(c, FALSE, nodes, <<>> \o v)
    BY <1>2, Zenon DEF ParseReturn, Goes
  <2>2. <<>> \o v = v
    OBVIOUS
  <2>3. TameWork(v)
    BY StmtTokens, TameArguments, TameTwo
  <2> HIDE DEF v
  <2>4. Step(c, FALSE, nodes, v)
    BY <2>1, <2>2
  <2> QED BY <1>1, <2>3, <2>4, NamesOpen, Skipped, OpenGoes
<1>3. CASE tokens[c] \notin {";", "}", "EOF"}
  <2>1. Step(c, FALSE, nodes, <<Expr(0)>> \o v)
    BY <1>3, Zenon DEF ParseReturn, Goes
  <2>2. <<Expr(0)>> \o v = w
    BY JoinedTwo, Zenon
  <2>3. TameWork(w)
    BY StmtTokens, TameArguments, TameThree
  <2> HIDE DEF v, w
  <2>4. Step(c, FALSE, nodes, w)
    BY <2>1, <2>2
  <2> QED BY <1>1, <2>3, <2>4, NamesOpen, Skipped, OpenGoes
<1> QED BY <1>2, <1>3

LEMMA QuietExit == ASSUME Quiet, ParseExit PROVE CompleteInv'
<1> DEFINE w == <<Expect(";"), Build(Cur, current, Base)>>
<1>1. Doing("stmt") /\ Step(Forward(current), FALSE, nodes, w) /\ Cur \in {"break", "continue"}
  BY Zenon DEF ParseExit, Goes
<1>2. Cur \notin Worded /\ Cur \notin Holes
  BY <1>1, StmtTokens
<1>3. TameWork(w)
  BY <1>2, StmtTokens, TameArguments, TameTwo
<1> HIDE DEF w
<1> QED BY <1>1, <1>2, <1>3, NamesOpen, Skipped, OpenGoes

(* The name of a declaration, after var and before its colon. *)
LEMMA ReadsDecl ==
  ASSUME Quiet, Cur \notin Worded, tokens[Forward(Forward(current))] \notin Worded
  PROVE  /\ Forward(Forward(Forward(current))) \in Positions
         /\ current <= Forward(Forward(Forward(current)))
         /\ ReadsOnly(Forward(Forward(Forward(current))), Forward(current))
<1> DEFINE c == Forward(current)
           d == Forward(Forward(current))
           e == Forward(Forward(Forward(current)))
<1>1. d \in Positions /\ current <= d /\ \A i \in current .. d - 1 : i = current \/ i = c
  BY QuietFacts, PassedTwo
<1>2. e \in Positions /\ d <= e /\ \A i \in d .. e - 1 : i = d
  BY <1>1, Passed
<1> HIDE DEF c, d, e
<1>3. current \in Int /\ d \in Int /\ e \in Int
  BY <1>1, <1>2, QuietFacts DEF Positions
<1>4. \A i \in current .. e - 1 : i \in current .. d - 1 \/ i \in d .. e - 1
  BY <1>1, <1>2, <1>3
<1>5. \A i \in current .. e - 1 : i = current \/ i = c \/ i = d
  BY <1>1, <1>2, <1>4
<1>6. tokens[current] \notin Worded /\ tokens[d] \notin Worded
  BY DEF Cur, d
<1>7. ReadsOnly(e, c)
  BY <1>5, <1>6 DEF ReadsOnly
<1>8. current <= e
  BY <1>1, <1>2, <1>3
<1> QED BY <1>2, <1>7, <1>8 DEF c, e

LEMMA QuietDecl == ASSUME Quiet, ParseDecl PROVE CompleteInv'
<1> DEFINE c == Forward(current)
           d == Forward(c)
           w == <<Type, Default, Expect(";"), Build("decl", c, Base)>>
<1>1. Doing("stmt") /\ Cur = "var"
  BY Zenon DEF ParseDecl
<1>2. CASE tokens[c] # "name"
  <2>1. Step(SyncStmt(c), TRUE, Leaf("error", current), <<>>)
    BY <1>2 DEF ParseDecl
  <2> QED BY <2>1, LoudStep
<1>3. CASE tokens[c] = "name" /\ tokens[d] # ":"
  <2>1. Step(SyncStmt(SyncStmt(d)), TRUE, Leaf("error", current), <<>>)
    BY <1>3 DEF ParseDecl
  <2> QED BY <2>1, LoudStep
<1>4. CASE tokens[c] = "name" /\ tokens[d] = ":"
  <2>1. Step(Forward(d), FALSE, nodes, w)
    <3>1. Goes(Forward(d), w)
      BY <1>4 DEF ParseDecl
    <3> QED BY <3>1, Zenon DEF Goes
  <2>2. Forward(d) \in Positions /\ current <= Forward(d) /\ ReadsOnly(Forward(d), c)
    <3>1. Cur \notin Worded /\ tokens[d] \notin Worded
      BY <1>1, <1>4, StmtTokens
    <3> QED BY <3>1, ReadsDecl
  <2>3. TameWork(w) /\ Len(w) = 4
    BY StmtTokens, TamePlain, TameArguments, TameFour
  <2>4. Holds(tokens, w[4], c)
    BY HoldingTasks, NamesOpen
  <2> HIDE DEF w
  <2>5. Takes(Forward(d), w)
    BY <2>2, <2>3, <2>4, TakesIt
  <2> QED BY <1>1, <2>1, <2>2, <2>3, <2>5, NamesOpen, OpenGoes
<1> QED BY <1>2, <1>3, <1>4

LEMMA QuietIf == ASSUME Quiet, ParseIf PROVE CompleteInv'
<1> DEFINE c == Forward(current)
           w == <<Expr(0), Then(current, Base)>>
<1>1. Doing("stmt") /\ Cur = "if"
  BY Zenon DEF ParseIf
<1>2. CASE tokens[c] # "("
  <2>1. Step(SyncStmt(c), TRUE, Leaf("block", current), <<>>)
    BY <1>2, Zenon DEF ParseIf
  <2> QED BY <2>1, LoudStep
<1>3. CASE tokens[c] = "("
  <2>1. Step(Forward(c), FALSE, nodes, w)
    BY <1>3, Zenon DEF ParseIf, Goes
  <2>2. Cur \notin Worded /\ tokens[c] \notin Worded
    BY <1>1, <1>3, StmtTokens
  <2>3. TameWork(w)
    BY TameArguments, TameTwo
  <2> HIDE DEF w
  <2> QED BY <1>1, <2>1, <2>2, <2>3, NamesOpen, Skipped, OpenGoes
<1> QED BY <1>2, <1>3

LEMMA QuietThen == ASSUME Quiet, ParseThen PROVE CompleteInv'
<1> DEFINE w == <<Stmt, Else, Build("if", Arg(1), Arg(2))>>
<1>1. Doing("then")
  BY Zenon DEF ParseThen
<1>2. CASE Cur # ")"
  <2>1. Step(SyncStmt(current), TRUE, Replaced(Arg(2), "block", Arg(1)), <<>>)
    BY <1>2, Zenon DEF ParseThen
  <2> QED BY <2>1, LoudStep
<1>3. CASE Cur = ")"
  <2>1. Step(Forward(current), FALSE, nodes, w)
    BY <1>3, Zenon DEF ParseThen, Goes
  <2>2. Cur \notin Worded
    BY <1>3, StmtTokens
  <2>3. TameWork(w)
    BY StmtTokens, TamePlain, TameArguments, TameThree
  <2> HIDE DEF w
  <2> QED BY <1>1, <2>1, <2>2, <2>3, NamesOpen, Skipped, OpenGoes
<1> QED BY <1>2, <1>3

LEMMA QuietElse == ASSUME Quiet, ParseElse PROVE CompleteInv'
<1>1. Doing("else") /\ TameWork(<<Stmt>>)
  BY TamePlain, TameOne, Zenon DEF ParseElse
<1>2. CASE Cur = "else"
  <2>1. Step(Forward(current), FALSE, nodes, <<Stmt>>)
    BY <1>2, Zenon DEF ParseElse, Goes
  <2>2. Cur \notin Worded
    BY <1>2, StmtTokens
  <2> QED BY <1>1, <2>1, <2>2, NamesOpen, Skipped, OpenGoes
<1>3. CASE Cur # "else"
  <2>1. Step(current, FALSE, nodes, <<>>)
    BY <1>3, Zenon DEF ParseElse, Goes
  <2> QED BY <1>1, <2>1, NamesOpen, Skipped, NothingLeft, OpenGoes
<1> QED BY <1>2, <1>3

LEMMA QuietWhile == ASSUME Quiet, ParseWhile PROVE CompleteInv'
<1> DEFINE w == <<Expect("("), Expr(0), Expect(")"), Stmt, Build("while", current, Base)>>
<1>1. Doing("stmt") /\ Step(Forward(current), FALSE, nodes, w) /\ Cur = "while"
  BY Zenon DEF ParseWhile, Goes
<1>2. Cur \notin Worded
  BY <1>1, StmtTokens
<1>3. TameWork(w)
  BY StmtTokens, TamePlain, TameArguments, TameFive
<1> HIDE DEF w
<1> QED BY <1>1, <1>2, <1>3, NamesOpen, Skipped, OpenGoes

LEMMA QuietDo == ASSUME Quiet, ParseDoWhile PROVE CompleteInv'
<1> DEFINE w == <<Stmt, DoCond, Build("do", current, Base)>>
<1>1. Doing("stmt") /\ Step(Forward(current), FALSE, nodes, w) /\ Cur = "do"
  BY Zenon DEF ParseDoWhile, Goes
<1>2. Cur \notin Worded
  BY <1>1, StmtTokens
<1>3. TameWork(w)
  BY StmtTokens, TamePlain, TameArguments, TameThree
<1> HIDE DEF w
<1> QED BY <1>1, <1>2, <1>3, NamesOpen, Skipped, OpenGoes

LEMMA QuietDoCond == ASSUME Quiet, ParseDoCond PROVE CompleteInv'
<1> DEFINE w == <<Expect("("), Expr(0), Expect(")"), Expect(";")>>
<1>1. Doing("do cond")
  BY Zenon DEF ParseDoCond
<1>2. CASE Cur # "while"
  <2>1. Step(SyncStmt(current), TRUE, nodes, <<>>)
    BY <1>2, Zenon DEF ParseDoCond, Reports
  <2> QED BY <2>1, LoudStep
<1>3. CASE Cur = "while"
  <2>1. Step(Forward(current), FALSE, nodes, w)
    BY <1>3, Zenon DEF ParseDoCond, Goes
  <2>2. Cur \notin Worded
    BY <1>3, StmtTokens
  <2>3. TameWork(w) /\ Len(w) = 4
    BY StmtTokens, TamePlain, TameArguments, TameFour
  <2>4. Notices(w[3]) /\ ~Opens(w[3]) /\ ~Opens(w[4])
    BY ShutTasks
  <2> HIDE DEF w
  <2>5. 3 \in 1 .. Len(w) /\ \A m \in 1 .. Len(w) : 3 <= m => m = 3 \/ m = 4
    BY <2>3
  <2>6. \A m \in 1 .. Len(w) : 3 <= m => ~Opens(w[m])
    BY <2>4, <2>5
  <2> QED BY <1>1, <2>1, <2>2, <2>3, <2>4, <2>5, <2>6, NamesOpen, Skipped, ClosedGoes
<1> QED BY <1>2, <1>3

LEMMA QuietFor == ASSUME Quiet, ParseFor PROVE CompleteInv'
<1> DEFINE w == <<Expect("("), ForInit, Expect(";"), Clause(";"), Expect(";"), Clause(")"), Expect(")"),
                  Stmt, Build("for", current, Base)>>
<1>1. Doing("stmt") /\ Step(Forward(current), FALSE, nodes, w) /\ Cur = "for"
  BY Zenon DEF ParseFor, Goes
<1>2. Cur \notin Worded
  BY <1>1, StmtTokens
<1>3. TameWork(w)
  BY StmtTokens, TamePlain, TameArguments, TameNine
<1> HIDE DEF w
<1> QED BY <1>1, <1>2, <1>3, NamesOpen, Skipped, OpenGoes

LEMMA QuietForInit == ASSUME Quiet, ParseForInit PROVE CompleteInv'
<1> DEFINE c == Forward(current)
           d == Forward(c)
           w == <<Type, Default, Build("decl", c, Base)>>
<1>1. Doing("for init") /\ "for init" \in OpenNames
  BY NamesOpen, Zenon DEF ParseForInit
<1>2. CASE Cur = ";"
  <2>1. Goes(current, <<>>)
    BY <1>2 DEF ParseForInit
  <2> QED BY <1>1, <2>1, NothingLeft, Skipped, OpenGoes DEF Goes
<1>3. CASE Cur = "var" /\ tokens[c] # "name"
  <2>1. Goes(c, <<>>)
    BY <1>3 DEF ParseForInit
  <2>2. Cur \notin Worded
    BY <1>3, StmtTokens
  <2> QED BY <1>1, <2>1, <2>2, NothingLeft, Skipped, OpenGoes DEF Goes
<1>4. CASE Cur = "var" /\ tokens[c] = "name" /\ tokens[d] # ":"
  <2>1. Reports(SyncStmt(d), <<>>)
    BY <1>4 DEF ParseForInit
  <2> QED BY <2>1, LoudStep DEF Reports
<1>5. CASE Cur = "var" /\ tokens[c] = "name" /\ tokens[d] = ":"
  <2>1. Step(Forward(d), FALSE, nodes, w)
    <3>1. Goes(Forward(d), w)
      BY <1>5 DEF ParseForInit
    <3> QED BY <3>1, Zenon DEF Goes
  <2>2. Forward(d) \in Positions /\ current <= Forward(d) /\ ReadsOnly(Forward(d), c)
    <3>1. Cur \notin Worded /\ tokens[d] \notin Worded
      BY <1>5, StmtTokens
    <3> QED BY <3>1, ReadsDecl
  <2>3. TameWork(w) /\ Len(w) = 3
    BY StmtTokens, TamePlain, TameArguments, TameThree
  <2>4. Holds(tokens, w[3], c)
    BY HoldingTasks, NamesOpen
  <2> HIDE DEF w
  <2>5. Takes(Forward(d), w)
    BY <2>2, <2>3, <2>4, TakesIt
  <2> QED BY <1>1, <2>1, <2>2, <2>3, <2>5, OpenGoes
<1>6. CASE Cur \notin {";", "var"}
  <2>1. Goes(current, <<Expr(0)>>)
    BY <1>6 DEF ParseForInit
  <2> QED BY <1>1, <2>1, TameArguments, TameOne, Skipped, OpenGoes DEF Goes
<1> QED BY <1>2, <1>3, <1>4, <1>5, <1>6

LEMMA QuietClause == ASSUME Quiet, ParseClause PROVE CompleteInv'
<1>1. Doing("clause") /\ "clause" \in OpenNames
  BY NamesOpen, Zenon DEF ParseClause
<1>2. CASE Cur = Arg(1)
  <2>1. Step(current, FALSE, nodes, <<>>)
    BY <1>2, Zenon DEF ParseClause, Goes
  <2> QED BY <1>1, <2>1, NothingLeft, Skipped, OpenGoes
<1>3. CASE Cur # Arg(1)
  <2>1. Step(current, FALSE, nodes, <<Expr(0)>>)
    BY <1>3, Zenon DEF ParseClause, Goes
  <2> QED BY <1>1, <2>1, TameArguments, TameOne, Skipped, OpenGoes
<1> QED BY <1>2, <1>3

LEMMA QuietStmtSteps ==
  ASSUME Quiet,
         \/ EmptyBlock \/ NoStmt \/ ParseExprStmt \/ ParseBlock \/ NoBlock \/ EndStmts \/ NextStmt
         \/ ParseReturn \/ ParseExit \/ ParseDecl \/ ParseIf \/ ParseThen \/ ParseElse
         \/ ParseWhile \/ ParseDoWhile \/ ParseDoCond \/ ParseFor \/ ParseForInit \/ ParseClause
  PROVE  CompleteInv'
<1>1. CASE NoBlock
  <2>1. Step(SyncStmt(current), TRUE, Leaf("block", current), <<>>)
    BY <1>1, Zenon DEF NoBlock
  <2> QED BY <2>1, LoudStep
<1>2. CASE EmptyBlock \/ NoStmt \/ ParseExprStmt \/ ParseBlock \/ EndStmts \/ NextStmt \/ ParseReturn
           \/ ParseExit
  BY <1>2, QuietEmptyBlock, QuietNoStmt, QuietExprStmt, QuietBlock, QuietEndStmts, QuietNextStmt,
     QuietReturn, QuietExit
<1>3. CASE ParseDecl \/ ParseIf \/ ParseThen \/ ParseElse \/ ParseWhile \/ ParseDoWhile \/ ParseDoCond
  BY <1>3, QuietDecl, QuietIf, QuietThen, QuietElse, QuietWhile, QuietDo, QuietDoCond
<1>4. CASE ParseFor \/ ParseForInit \/ ParseClause
  BY <1>4, QuietFor, QuietForInit, QuietClause
<1> QED BY <1>1, <1>2, <1>3, <1>4, Zenon

-----------------------------------------------------------------------------
(* The declarations that report nothing.                                   *)

LEMMA DeclTokens ==
  /\ {"(", ")", "{", "}", ";", "=", ":", ",", "EOF"} \cap Worded = {}
  /\ {"blueprint", "func", "method", "field", "param", "inherit", "alias"} \subseteq Named
  /\ {"blueprint", "func", "method", "field", "param", "inherit", "alias"} \cap Holes = {}
BY DEF Worded, Holes, Named

(* One token ahead. *)
LEMMA PeekOne == ASSUME Quiet PROVE Peek(1) = tokens[Forward(current)]
BY QuietFacts DEF Peek, PeekAt, Forward

LEMMA QuietDeclaration == ASSUME Quiet, NextDeclaration PROVE CompleteInv'
<1> DEFINE w == <<Declaration, Program>>
<1>1. Doing("program") /\ Step(current, FALSE, nodes, w)
  BY Zenon DEF NextDeclaration, Goes
<1>2. TameWork(w) /\ Len(w) = 2
  BY TamePlain, TameTwo
<1>3. ~Opens(w[1]) /\ ~Opens(w[2])
  BY ShutTasks
<1> HIDE DEF w
<1>4. \A m \in 1 .. Len(w) : m = 1 \/ m = 2
  BY <1>2
<1>5. \A m \in 1 .. Len(w) : ~Opens(w[m])
  BY <1>3, <1>4
<1> QED BY <1>1, <1>2, <1>5, NamesOpen, Skipped, ShutGoes

LEMMA QuietEndProgram == ASSUME Quiet, EndProgram PROVE CompleteInv'
<1>1. Doing("program") /\ Step(current, FALSE, nodes, <<>>)
  BY Zenon DEF EndProgram, Goes
<1> QED BY <1>1, NamesOpen, Skipped, NothingLeft, ShutGoes

LEMMA QuietBlueprint == ASSUME Quiet, ParseBlueprint PROVE CompleteInv'
<1> DEFINE c == Forward(Forward(current))
           w == <<Parents, Body(current, Base)>>
<1>1. Doing("declaration") /\ Step(c, FALSE, nodes, w) /\ Peek(1) = ":"
  BY Zenon DEF ParseBlueprint, Goes, StartsBlueprint
<1>2. ReadsOnly(c, current)
  <2>1. tokens[Forward(current)] \notin Worded
    BY <1>1, PeekOne, DeclTokens
  <2> QED BY <2>1, Reads
<1>3. TameWork(w) /\ Len(w) = 2
  BY TamePlain, TameArguments, TameTwo
<1>4. Holds(tokens, w[2], current) /\ ~Opens(w[1]) /\ ~Opens(w[2])
  BY HoldingTasks, ShutTasks
<1> HIDE DEF w
<1>5. 2 \in 1 .. Len(w) /\ \A m \in 1 .. Len(w) : m = 1 \/ m = 2
  BY <1>3
<1>6. Takes(c, w) /\ \A m \in 1 .. Len(w) : ~Opens(w[m])
  BY <1>2, <1>4, <1>5, TakesIt
<1> QED BY <1>1, <1>3, <1>6, NamesOpen, Skipped, ShutGoes

LEMMA QuietEndParents == ASSUME Quiet, EndParents PROVE CompleteInv'
<1>1. Doing("parents") /\ Step(current, FALSE, nodes, <<>>)
  BY Zenon DEF EndParents, Goes
<1> QED BY <1>1, NamesOpen, Skipped, NothingLeft, ShutGoes

LEMMA QuietNextParent == ASSUME Quiet, NextParent PROVE CompleteInv'
<1>1. Doing("after parent") /\ "after parent" \in ShutNames
  BY NamesOpen, Zenon DEF NextParent
<1>2. CASE Cur = ","
  <2>1. Goes(Forward(current), <<Parents>>)
    BY <1>2 DEF NextParent
  <2>2. TameWork(<<Parents>>) /\ \A m \in 1 .. Len(<<Parents>>) : ~Opens(<<Parents>>[m])
    BY TamePlain, ShutTasks, TameOne
  <2>3. Cur \notin Worded
    BY <1>2, DeclTokens
  <2> QED BY <1>1, <2>1, <2>2, <2>3, Skipped, ShutGoes DEF Goes
<1>3. CASE Cur = "{"
  <2>1. Goes(current, <<>>)
    BY <1>3 DEF NextParent
  <2> QED BY <1>1, <2>1, Skipped, NothingLeft, ShutGoes DEF Goes
<1>4. CASE Cur = "EOF"
  <2>1. Reports(current, <<>>)
    BY <1>4 DEF NextParent
  <2> QED BY <2>1, LoudStep DEF Reports
<1>5. CASE Cur \notin {",", "{", "EOF"}
  <2>1. Reports(SyncDecl(current), <<Parents>>)
    BY <1>5 DEF NextParent
  <2> QED BY <2>1, LoudStep DEF Reports
<1> QED BY <1>2, <1>3, <1>4, <1>5

LEMMA QuietBody == ASSUME Quiet, ParseBody PROVE CompleteInv'
<1>1. Doing("body")
  BY Zenon DEF ParseBody
<1>2. CASE Cur # "{"
  <2>1. Step(SyncDecl(SyncStmt(current)), TRUE, Below(Arg(2)), <<>>)
    BY <1>2, Zenon DEF ParseBody
  <2> QED BY <2>1, LoudStep
<1>3. CASE Cur = "{"
  <2> DEFINE w == <<Members, ExpectOr("}", "decl"), Build("blueprint", Arg(1), Arg(2))>>
  <2>1. Step(Forward(current), FALSE, nodes, w)
    BY <1>3, Zenon DEF ParseBody, Goes
  <2>2. "blueprint" \in Named /\ "blueprint" \notin Holes /\ Cur \notin Worded /\ "}" \notin Worded
    BY <1>3, DeclTokens
  <2>3. TameWork(w) /\ Len(w) = 3
    BY <2>2, TamePlain, TameArguments, TameThree
  <2>4. Holds(tokens, w[3], Arg(1)) /\ ~Opens(w[1]) /\ ~Opens(w[2]) /\ ~Opens(w[3])
    BY <2>2, HoldingTasks, ShutTasks
  <2> HIDE DEF w
  <2>5. 3 \in 1 .. Len(w) /\ \A m \in 1 .. Len(w) : m = 1 \/ m = 2 \/ m = 3
    BY <2>3
  <2>6. \A m \in 1 .. Len(w) : ~Opens(w[m])
    BY <2>4, <2>5
  <2>7. "body" \in Readers
    BY Zenon DEF Readers
  <2> QED BY <1>1, <2>1, <2>2, <2>3, <2>4, <2>5, <2>6, <2>7, HandsOn
<1> QED BY <1>2, <1>3

LEMMA QuietEndMembers == ASSUME Quiet, EndMembers PROVE CompleteInv'
<1>1. Doing("members") /\ Step(current, Cur = "EOF", nodes, <<>>)
  BY Zenon DEF EndMembers
<1>2. PICK error \in BOOLEAN : error = (Cur = "EOF")
  OBVIOUS
<1>3. Step(current, error, nodes, <<>>)
  BY <1>1, <1>2
<1>4. CASE error = TRUE
  BY <1>3, <1>4, LoudStep
<1>5. CASE error = FALSE
  <2>1. Step(current, FALSE, nodes, <<>>)
    BY <1>3, <1>5
  <2> QED BY <1>1, <2>1, NamesOpen, Skipped, NothingLeft, ShutGoes
<1> QED BY <1>4, <1>5

LEMMA QuietField == ASSUME Quiet, ParseField PROVE CompleteInv'
<1> DEFINE c == Forward(Forward(current))
           w == <<Type, Default, Build("field", current, Base), ExpectOr(";", "stmt"), Members>>
<1>1. Doing("members") /\ Step(c, FALSE, nodes, w) /\ Peek(1) = ":"
  BY Zenon DEF ParseField, Goes
<1>2. ReadsOnly(c, current) /\ "field" \in Named /\ "field" \notin Holes /\ ";" \notin Worded /\ ";" # "EOF"
  <2>1. tokens[Forward(current)] \notin Worded
    BY <1>1, PeekOne, DeclTokens
  <2> QED BY <2>1, Reads, DeclTokens
<1>3. TameWork(w) /\ Len(w) = 5
  BY <1>2, TamePlain, TameArguments, TameFive
<1>4. Holds(tokens, w[3], current) /\ Notices(w[4]) /\ ~Opens(w[4]) /\ ~Opens(w[5])
  BY <1>2, HoldingTasks, ShutTasks
<1> HIDE DEF w
<1>5. 3 \in 1 .. Len(w) /\ 4 \in 1 .. Len(w) /\ \A m \in 1 .. Len(w) : 4 <= m => m = 4 \/ m = 5
  BY <1>3
<1>6. Takes(c, w) /\ \A m \in 1 .. Len(w) : 4 <= m => ~Opens(w[m])
  BY <1>2, <1>4, <1>5, TakesIt
<1> QED BY <1>1, <1>3, <1>4, <1>5, <1>6, NamesOpen, Skipped, ClosedGoes

LEMMA QuietMethod == ASSUME Quiet, ParseMethod PROVE CompleteInv'
<1> DEFINE c == Forward(Forward(current))
           w == <<Self, Params, Expect(")"), Returns, Build("method", current, Base), Members>>
<1>1. Doing("members") /\ Step(c, FALSE, nodes, w) /\ Peek(1) = "("
  BY Zenon DEF ParseMethod, Goes
<1>2. ReadsOnly(c, current) /\ "method" \in Named /\ "method" \notin Holes /\ ")" \notin Worded
  <2>1. tokens[Forward(current)] \notin Worded
    BY <1>1, PeekOne, DeclTokens
  <2> QED BY <2>1, Reads, DeclTokens
<1>3. TameWork(w) /\ Len(w) = 6
  BY <1>2, TamePlain, TameArguments, TameSix
<1>4. Holds(tokens, w[5], current)
  BY <1>2, HoldingTasks
<1>5. ~Opens(w[1]) /\ ~Opens(w[2]) /\ ~Opens(w[3]) /\ ~Opens(w[4]) /\ ~Opens(w[5]) /\ ~Opens(w[6])
  BY ShutTasks
<1> HIDE DEF w
<1>6. 5 \in 1 .. Len(w) /\ \A m \in 1 .. Len(w) : m = 1 \/ m = 2 \/ m = 3 \/ m = 4 \/ m = 5 \/ m = 6
  BY <1>3
<1>7. Takes(c, w)
  BY <1>2, <1>4, <1>6, TakesIt
<1>8. \A m \in 1 .. Len(w) : ~Opens(w[m])
  BY <1>5, <1>6
<1> QED BY <1>1, <1>3, <1>7, <1>8, NamesOpen, Skipped, ShutGoes

LEMMA QuietSelf == ASSUME Quiet, ParseSelf PROVE CompleteInv'
<1> DEFINE c == Forward(current)
           d == Forward(c)
           k == Node("param", current, Base + 1)
<1>1. Doing("self") /\ "self" \in ShutNames
  BY NamesOpen, Zenon DEF ParseSelf
<1>2. TameWork(<<>>) /\ \A m \in 1 .. Len(<<>>) : ~Opens(<<>>[m])
  BY NothingLeft
<1>3. CASE Cur = "self" /\ Peek(1) = ")"
  <2>1. Step(c, FALSE, Append(nodes, k), <<>>)
    <3>1. Makes(c, Leaf("param", current), <<>>)
      BY <1>3 DEF ParseSelf
    <3> QED BY <3>1, Zenon DEF Makes, Leaf
  <2>2. c \in Positions /\ current <= c /\ MarksAll(c, k)
    BY Skipped, Reads, MarksHere, DeclTokens
  <2> QED BY ONLY Quiet, <1>1, <1>2, <2>1, <2>2, ShutMakes
<1>4. CASE Cur = "self" /\ Peek(1) = ","
  <2>1. PICK error \in BOOLEAN : error = (Peek(2) = ")")
    OBVIOUS
  <2>2. Step(d, error, Append(nodes, k), <<>>)
    <3>1. Step(d, Peek(2) = ")", Leaf("param", current), <<>>)
      BY <1>4 DEF ParseSelf
    <3> QED BY <2>1, <3>1 DEF Leaf
  <2>3. CASE error = TRUE
    BY <2>2, <2>3, LoudStep
  <2>4. CASE error = FALSE
    <3>1. Step(d, FALSE, Append(nodes, k), <<>>)
      BY <2>2, <2>4
    <3>2. tokens[c] \notin Worded
      BY <1>4, PeekOne, DeclTokens
    <3>3. d \in Positions /\ current <= d /\ MarksAll(d, k)
      BY <3>2, Skipped, Reads, MarksHere, DeclTokens
    <3> QED BY ONLY Quiet, <1>1, <1>2, <3>1, <3>3, ShutMakes
  <2> QED BY <2>3, <2>4
<1>5. CASE ~(Cur = "self" /\ Peek(1) = ")") /\ ~(Cur = "self" /\ Peek(1) = ",")
  <2>1. Goes(current, <<>>)
    BY <1>5 DEF ParseSelf
  <2> QED BY <1>1, <1>2, <2>1, Skipped, ShutGoes DEF Goes
<1> QED BY <1>3, <1>4, <1>5

LEMMA QuietEndParams == ASSUME Quiet, EndParams PROVE CompleteInv'
<1>1. Doing("params") /\ Step(current, FALSE, nodes, <<>>)
  BY Zenon DEF EndParams, Goes
<1> QED BY <1>1, NamesOpen, Skipped, NothingLeft, ShutGoes

LEMMA QuietParam == ASSUME Quiet, ParseParam PROVE CompleteInv'
<1> DEFINE c == Forward(current)
           w == <<Type, Build("param", current, Base), AfterParam, Params>>
<1>1. Doing("params")
  BY Zenon DEF ParseParam
<1>2. CASE tokens[c] # ":"
  <2>1. Step(SyncStmt(SyncStmt(c)), TRUE, nodes, <<Params>>)
    BY <1>2, Zenon DEF ParseParam, Reports
  <2> QED BY <2>1, LoudStep
<1>3. CASE tokens[c] = ":"
  <2>1. Step(Forward(c), FALSE, nodes, w)
    BY <1>3, Zenon DEF ParseParam, Goes
  <2>2. ReadsOnly(Forward(c), current) /\ "param" \in Named /\ "param" \notin Holes
    BY <1>3, Reads, DeclTokens
  <2>3. TameWork(w) /\ Len(w) = 4
    BY <2>2, TamePlain, TameArguments, TameFour
  <2>4. Holds(tokens, w[2], current) /\ ~Opens(w[1]) /\ ~Opens(w[2]) /\ ~Opens(w[3]) /\ ~Opens(w[4])
    BY <2>2, HoldingTasks, ShutTasks
  <2> HIDE DEF w
  <2>5. 2 \in 1 .. Len(w) /\ \A m \in 1 .. Len(w) : m = 1 \/ m = 2 \/ m = 3 \/ m = 4
    BY <2>3
  <2>6. Takes(Forward(c), w) /\ \A m \in 1 .. Len(w) : ~Opens(w[m])
    BY <2>2, <2>4, <2>5, TakesIt
  <2> QED BY <1>1, <2>1, <2>3, <2>6, NamesOpen, Skipped, ShutGoes
<1> QED BY <1>2, <1>3

LEMMA QuietNextParam == ASSUME Quiet, NextParam PROVE CompleteInv'
<1> DEFINE c == IF Cur = "," THEN Forward(current) ELSE current
<1>1. Doing("after param") /\ Step(c, Cur = "," /\ tokens[c] = ")", nodes, <<>>)
  BY Zenon DEF NextParam
<1>2. PICK error \in BOOLEAN : error = (Cur = "," /\ tokens[c] = ")")
  OBVIOUS
<1>3. Step(c, error, nodes, <<>>)
  BY <1>1, <1>2
<1>4. CASE error = TRUE
  BY <1>3, <1>4, LoudStep
<1>5. CASE error = FALSE
  <2>1. Step(c, FALSE, nodes, <<>>)
    BY <1>3, <1>5
  <2>2. "," \notin Worded
    BY DeclTokens
  <2>3. c \in Positions /\ current <= c /\ Takes(c, <<>>)
    BY <2>2, Skipped
  <2> HIDE DEF c
  <2> QED BY <1>1, <2>1, <2>3, NamesOpen, NothingLeft, ShutGoes
<1> QED BY <1>4, <1>5

LEMMA QuietReturns == ASSUME Quiet, ParseReturns PROVE CompleteInv'
<1> DEFINE w == <<Type, MethodBody>>
<1>1. Doing("returns")
  BY Zenon DEF ParseReturns
<1>2. CASE Cur # ":"
  <2>1. Step(SyncStmt(SyncStmt(current)), TRUE, nodes, <<>>)
    BY <1>2, Zenon DEF ParseReturns, Reports
  <2> QED BY <2>1, LoudStep
<1>3. CASE Cur = ":"
  <2>1. Step(Forward(current), FALSE, nodes, w)
    BY <1>3, Zenon DEF ParseReturns, Goes
  <2>2. TameWork(w) /\ Len(w) = 2
    BY TamePlain, TameTwo
  <2>3. ~Opens(w[1]) /\ ~Opens(w[2]) /\ Cur \notin Worded
    BY <1>3, ShutTasks, DeclTokens
  <2> HIDE DEF w
  <2>4. \A m \in 1 .. Len(w) : m = 1 \/ m = 2
    BY <2>2
  <2>5. \A m \in 1 .. Len(w) : ~Opens(w[m])
    BY <2>3, <2>4
  <2> QED BY <1>1, <2>1, <2>2, <2>3, <2>5, NamesOpen, Skipped, ShutGoes
<1> QED BY <1>2, <1>3

LEMMA QuietMethodBody == ASSUME Quiet, ParseMethodBody PROVE CompleteInv'
<1>1. Doing("method body") /\ "method body" \in ShutNames
  BY NamesOpen, Zenon DEF ParseMethodBody
<1>2. CASE Cur = "="
  <2>1. Step(Forward(current), FALSE, nodes, <<Block>>)
    BY <1>2, Zenon DEF ParseMethodBody, Goes
  <2>2. TameWork(<<Block>>) /\ \A m \in 1 .. Len(<<Block>>) : ~Opens(<<Block>>[m])
    BY TamePlain, ShutTasks, TameOne
  <2>3. Cur \notin Worded
    BY <1>2, DeclTokens
  <2> QED BY <1>1, <2>1, <2>2, <2>3, Skipped, ShutGoes
<1>3. CASE Cur # "="
  <2> DEFINE w == <<ExpectOr(";", "stmt")>>
  <2>1. Step(current, FALSE, nodes, w)
    BY <1>3, Zenon DEF ParseMethodBody, Goes
  <2>2. TameWork(w) /\ Len(w) = 1
    <3>1. ";" \notin Worded
      BY DeclTokens
    <3> QED BY <3>1, TameArguments, TameOne
  <2>3. ~Opens(w[1])
    BY ShutTasks
  <2> HIDE DEF w
  <2>4. \A m \in 1 .. Len(w) : m = 1
    BY <2>2
  <2>5. \A m \in 1 .. Len(w) : ~Opens(w[m])
    BY <2>3, <2>4
  <2> QED BY <1>1, <2>1, <2>2, <2>5, Skipped, ShutGoes
<1> QED BY <1>2, <1>3

LEMMA QuietFunc == ASSUME Quiet, ParseFunc PROVE CompleteInv'
<1> DEFINE c == Forward(Forward(current))
           w == <<FuncParams, ExpectOr(")", "decl"), FuncReturns(current, Base)>>
<1>1. Doing("declaration") /\ Step(c, FALSE, nodes, w) /\ Peek(1) = "("
  BY Zenon DEF ParseFunc, Goes, StartsFunc
<1>2. ReadsOnly(c, current) /\ ")" \notin Worded
  <2>1. tokens[Forward(current)] \notin Worded
    BY <1>1, PeekOne, DeclTokens
  <2> QED BY <2>1, Reads, DeclTokens
<1>3. TameWork(w) /\ Len(w) = 3
  BY <1>2, TamePlain, TameArguments, TameThree
<1>4. Holds(tokens, w[3], current) /\ ~Opens(w[1]) /\ ~Opens(w[2]) /\ ~Opens(w[3])
  BY HoldingTasks, ShutTasks
<1> HIDE DEF w
<1>5. 3 \in 1 .. Len(w) /\ \A m \in 1 .. Len(w) : m = 1 \/ m = 2 \/ m = 3
  BY <1>3
<1>6. Takes(c, w) /\ \A m \in 1 .. Len(w) : ~Opens(w[m])
  BY <1>2, <1>4, <1>5, TakesIt
<1> QED BY <1>1, <1>3, <1>6, NamesOpen, Skipped, ShutGoes

LEMMA QuietEndFuncParams == ASSUME Quiet, EndFuncParams PROVE CompleteInv'
<1>1. Doing("func params") /\ Step(current, FALSE, nodes, <<>>)
  BY Zenon DEF EndFuncParams, Goes
<1> QED BY <1>1, NamesOpen, Skipped, NothingLeft, ShutGoes

LEMMA QuietFuncParam == ASSUME Quiet, ParseFuncParam PROVE CompleteInv'
<1> DEFINE c == Forward(current)
           w == <<Type, Build("param", current, Base), AfterFuncParam>>
<1>1. Doing("func params")
  BY Zenon DEF ParseFuncParam
<1>2. CASE Cur # "name"
  <2>1. Reports(SyncStmt(current), <<AfterFuncParam>>)
    BY <1>2 DEF ParseFuncParam
  <2> QED BY <2>1, LoudStep DEF Reports
<1>3. CASE Cur = "name" /\ tokens[c] # ":"
  <2>1. Reports(SyncStmt(SyncStmt(c)), <<AfterFuncParam>>)
    BY <1>3 DEF ParseFuncParam
  <2> QED BY <2>1, LoudStep DEF Reports
<1>4. CASE Cur = "name" /\ tokens[c] = ":"
  <2>1. Step(Forward(c), FALSE, nodes, w)
    <3>1. Goes(Forward(c), w)
      BY <1>4 DEF ParseFuncParam
    <3> QED BY <3>1, Zenon DEF Goes
  <2>2. ReadsOnly(Forward(c), current) /\ "param" \in Named /\ "param" \notin Holes
    BY <1>4, Reads, DeclTokens
  <2>3. TameWork(w) /\ Len(w) = 3
    BY <2>2, TamePlain, TameArguments, TameThree
  <2>4. Holds(tokens, w[2], current) /\ ~Opens(w[1]) /\ ~Opens(w[2]) /\ ~Opens(w[3])
    BY <2>2, HoldingTasks, ShutTasks
  <2> HIDE DEF w
  <2>5. 2 \in 1 .. Len(w) /\ \A m \in 1 .. Len(w) : m = 1 \/ m = 2 \/ m = 3
    BY <2>3
  <2>6. Takes(Forward(c), w) /\ \A m \in 1 .. Len(w) : ~Opens(w[m])
    BY <2>2, <2>4, <2>5, TakesIt
  <2> QED BY <1>1, <2>1, <2>3, <2>6, NamesOpen, Skipped, ShutGoes
<1> QED BY <1>2, <1>3, <1>4

LEMMA QuietNextFuncParam == ASSUME Quiet, NextFuncParam PROVE CompleteInv'
<1> DEFINE c == Forward(current)
<1>1. Doing("after func param") /\ "after func param" \in ShutNames
  BY NamesOpen, Zenon DEF NextFuncParam
<1>2. CASE Cur # ","
  <2>1. Goes(current, <<>>)
    BY <1>2 DEF NextFuncParam
  <2> QED BY <1>1, <2>1, Skipped, NothingLeft, ShutGoes DEF Goes
<1>3. CASE Cur = "," /\ tokens[c] = ")"
  <2>1. Reports(c, <<>>)
    BY <1>3 DEF NextFuncParam
  <2> QED BY <2>1, LoudStep DEF Reports
<1>4. CASE Cur = "," /\ tokens[c] # ")"
  <2>1. Goes(c, <<FuncParams>>)
    BY <1>4 DEF NextFuncParam
  <2>2. TameWork(<<FuncParams>>) /\ \A m \in 1 .. Len(<<FuncParams>>) : ~Opens(<<FuncParams>>[m])
    BY TamePlain, ShutTasks, TameOne
  <2>3. Cur \notin Worded
    BY <1>4, DeclTokens
  <2> QED BY <1>1, <2>1, <2>2, <2>3, Skipped, ShutGoes DEF Goes
<1> QED BY <1>2, <1>3, <1>4

LEMMA QuietFuncReturns == ASSUME Quiet, ParseFuncReturns PROVE CompleteInv'
<1>1. Doing("func returns")
  BY Zenon DEF ParseFuncReturns
<1>2. CASE Cur # ":"
  <2>1. Step(SyncDecl(SyncStmt(current)), TRUE, Below(Arg(2)), <<>>)
    BY <1>2, Zenon DEF ParseFuncReturns
  <2> QED BY <2>1, LoudStep
<1>3. CASE Cur = ":"
  <2> DEFINE w == <<Type, FuncBody(Arg(1), Arg(2))>>
  <2>1. Step(Forward(current), FALSE, nodes, w)
    BY <1>3, Zenon DEF ParseFuncReturns, Goes
  <2>2. Cur \notin Worded
    BY <1>3, DeclTokens
  <2>3. TameWork(w) /\ Len(w) = 2
    BY TamePlain, TameArguments, TameTwo
  <2>4. Holds(tokens, w[2], Arg(1)) /\ ~Opens(w[1]) /\ ~Opens(w[2])
    BY HoldingTasks, ShutTasks
  <2> HIDE DEF w
  <2>5. 2 \in 1 .. Len(w) /\ \A m \in 1 .. Len(w) : m = 1 \/ m = 2
    BY <2>3
  <2>6. \A m \in 1 .. Len(w) : ~Opens(w[m])
    BY <2>4, <2>5
  <2>7. "func returns" \in Readers
    BY Zenon DEF Readers
  <2> QED BY <1>1, <2>1, <2>2, <2>3, <2>4, <2>5, <2>6, <2>7, HandsOn
<1> QED BY <1>2, <1>3

LEMMA QuietFuncBody == ASSUME Quiet, ParseFuncBody PROVE CompleteInv'
<1>1. Doing("func body") /\ "func body" \in Readers
  BY Zenon DEF ParseFuncBody, Readers
<1>2. "func" \in Named /\ "func" \notin Holes
  BY DeclTokens
<1>3. CASE Cur = "="
  <2> DEFINE w == <<Block, Build("func", Arg(1), Arg(2))>>
  <2>1. Step(Forward(current), FALSE, nodes, w)
    <3>1. Goes(Forward(current), w)
      BY <1>3 DEF ParseFuncBody
    <3> QED BY <3>1, Zenon DEF Goes
  <2>2. Cur \notin Worded
    BY <1>3, DeclTokens
  <2>3. TameWork(w) /\ Len(w) = 2
    BY <1>2, TamePlain, TameArguments, TameTwo
  <2>4. Holds(tokens, w[2], Arg(1)) /\ ~Opens(w[1]) /\ ~Opens(w[2])
    BY <1>2, HoldingTasks, ShutTasks
  <2> HIDE DEF w
  <2>5. 2 \in 1 .. Len(w) /\ \A m \in 1 .. Len(w) : m = 1 \/ m = 2
    BY <2>3
  <2>6. \A m \in 1 .. Len(w) : ~Opens(w[m])
    BY <2>4, <2>5
  <2> QED BY <1>1, <2>1, <2>2, <2>3, <2>4, <2>5, <2>6, HandsOn
<1>4. CASE Cur = ";"
  <2> DEFINE w == <<Build("func", Arg(1), Arg(2))>>
  <2>1. Step(Forward(current), FALSE, nodes, w)
    <3>1. Goes(Forward(current), w)
      BY <1>4 DEF ParseFuncBody
    <3> QED BY <3>1, Zenon DEF Goes
  <2>2. Cur \notin Worded
    BY <1>4, DeclTokens
  <2>3. TameWork(w) /\ Len(w) = 1
    BY <1>2, TameArguments, TameOne
  <2>4. Holds(tokens, w[1], Arg(1)) /\ ~Opens(w[1])
    BY <1>2, HoldingTasks, ShutTasks
  <2> HIDE DEF w
  <2>5. 1 \in 1 .. Len(w) /\ \A m \in 1 .. Len(w) : m = 1
    BY <2>3
  <2>6. \A m \in 1 .. Len(w) : ~Opens(w[m])
    BY <2>4, <2>5
  <2> QED BY <1>1, <2>1, <2>2, <2>3, <2>4, <2>5, <2>6, HandsOn
<1>5. CASE Cur \notin {"=", ";"}
  <2>1. Step(SyncDecl(SyncStmt(current)), TRUE, Below(Arg(2)), <<>>)
    BY <1>5 DEF ParseFuncBody
  <2> QED BY <2>1, LoudStep
<1> QED BY <1>3, <1>4, <1>5

(* Two tasks before two others. *)
LEMMA JoinedPairs ==
  ASSUME NEW a, NEW w, NEW x, NEW y
  PROVE  <<a, w>> \o <<x, y>> = <<a, w, x, y>>
<1> DEFINE S == {a, w, x, y}
           s == <<a, w>>
           t == <<x, y>>
           r == <<a, w, x, y>>
           u == s \o t
<1>1. /\ s \in Seq(S) /\ Len(s) = 2 /\ s[1] = a /\ s[2] = w
      /\ t \in Seq(S) /\ Len(t) = 2 /\ t[1] = x /\ t[2] = y
      /\ r \in Seq(S) /\ Len(r) = 4 /\ r[1] = a /\ r[2] = w /\ r[3] = x /\ r[4] = y
  OBVIOUS
<1> HIDE DEF s, t, r, S
<1>2. /\ u \in Seq(S) /\ Len(u) = Len(s) + Len(t)
      /\ \A i \in 1 .. Len(s) + Len(t) : u[i] = IF i <= Len(s) THEN s[i] ELSE t[i - Len(s)]
  BY <1>1, ConcatProperties, Zenon
<1> HIDE DEF u
<1>3. u[1] = a /\ u[2] = w /\ u[3] = x /\ u[4] = y /\ Len(u) = 4
  BY <1>1, <1>2
<1>4. \A i \in 1 .. 4 : i = 1 \/ i = 2 \/ i = 3 \/ i = 4
  OBVIOUS
<1>5. \A i \in 1 .. Len(u) : u[i] = r[i]
  BY <1>1, <1>3, <1>4, Zenon
<1>6. u = r
  BY <1>1, <1>2, <1>3, <1>5, SeqEqual, Zenon
<1> QED BY <1>6 DEF u, s, t, r

LEMMA QuietParent == ASSUME Quiet, ParseParent PROVE CompleteInv'
<1> DEFINE c == Forward(current)
           d == Forward(c)
           v == <<Build("inherit", current, Base), AfterParent>>
<1>1. Doing("parents") /\ Cur = "name" /\ "inherit" \in Named /\ "inherit" \notin Holes
  BY DeclTokens, Zenon DEF ParseParent
<1>2. CASE tokens[c] # "{"
  <2>1. Step(c, FALSE, nodes, <<>> \o v)
    BY <1>2, Zenon DEF ParseParent, Goes
  <2>2. <<>> \o v = v
    OBVIOUS
  <2>3. TameWork(v) /\ Len(v) = 2
    BY <1>1, TamePlain, TameArguments, TameTwo
  <2>4. Holds(tokens, v[1], current) /\ ~Opens(v[1]) /\ ~Opens(v[2])
    BY <1>1, HoldingTasks, ShutTasks
  <2> HIDE DEF v
  <2>5. Step(c, FALSE, nodes, v)
    BY <2>1, <2>2
  <2>6. 1 \in 1 .. Len(v) /\ \A m \in 1 .. Len(v) : m = 1 \/ m = 2
    BY <2>3
  <2>7. Takes(c, v) /\ \A m \in 1 .. Len(v) : ~Opens(v[m])
    BY <2>4, <2>6, Reads, TakesIt
  <2> QED BY <1>1, <2>3, <2>5, <2>7, NamesOpen, Skipped, ShutGoes
<1>3. CASE tokens[c] = "{"
  <2>1. PICK w : w = <<Aliases, Expect("}"), Build("inherit", current, Base), AfterParent>>
    OBVIOUS
  <2>2. Step(d, FALSE, nodes, w)
    <3>1. Step(d, FALSE, nodes, <<Aliases, Expect("}")>> \o v)
      BY <1>3, Zenon DEF ParseParent, Goes
    <3>2. <<Aliases, Expect("}")>> \o v = w
      BY <2>1, JoinedPairs, Zenon
    <3> QED BY <3>1, <3>2
  <2>3. Len(w) = 4 /\ Work(w)
    <3> DEFINE u == <<Aliases, Expect("}"), Build("inherit", current, Base), AfterParent>>
    <3>1. u \in Seq({Aliases, Expect("}"), Build("inherit", current, Base), AfterParent}) /\ Len(u) = 4
      OBVIOUS
    <3> QED BY <2>1, <3>1 DEF Work
  <2>4. /\ w[1][1] = "aliases" /\ w[2][1] = "expect" /\ w[2][2] = "}"
        /\ w[3][1] = "build" /\ w[3][2] = "inherit" /\ w[3][3] = current /\ w[4][1] = "after parent"
    BY <2>1 DEF Aliases, Expect, ExpectOr, Build, AfterParent
  <2>5. \A m \in 1 .. Len(w) : m = 1 \/ m = 2 \/ m = 3 \/ m = 4
    BY <2>3
  <2>6. d \in Positions /\ current <= d /\ Takes(d, w)
    <3>1. tokens[c] \notin Worded
      BY <1>3, DeclTokens
    <3>2. Holds(tokens, w[3], current) /\ 3 \in 1 .. Len(w)
      <4>1. w[3] = Build("inherit", current, Base)
        BY <2>1
      <4>2. Holds(tokens, Build("inherit", current, Base), current)
        BY <1>1, HoldingTasks
      <4> QED BY <2>3, <4>1, <4>2
    <3>3. ReadsOnly(d, current)
      BY <3>1, Reads
    <3> QED BY <3>2, <3>3, Skipped, TakesIt
  <2>7. c = current + 1 /\ d = current + 2 /\ current \in Nat /\ current # Len(tokens)
    <3>1. current \in Positions /\ current \in Nat /\ c \in Positions
      BY Skipped
    <3>2. c = current + 1 /\ d = c + 1
      BY <1>1, <1>3, <3>1, Passed DEF Cur
    <3>3. current # Len(tokens)
      BY <1>1, QuietFacts DEF Cur
    <3> QED BY <3>1, <3>2, <3>3
  <2>8. todo # <<>> /\ todo \in Seq(Tasks) /\ Complete(tokens, current, nodes, todo)
        /\ ~Holder(todo[1])
    <3>1. todo # <<>>
      BY <1>1, Zenon DEF Doing
    <3>2. todo[1][1] = "parents"
      BY <1>1, HeadKinds, Zenon
    <3> QED BY <3>1, <3>2, QuietFacts DEF Holder
  <2>9. PICK new : new = {}
    OBVIOUS
  <2>10. PICK tree : tree = nodes
    OBVIOUS
  <2>11. Grown(nodes, tree, new) /\ Step(d, FALSE, tree, w) /\ NewHoles(tokens, current, todo, w, new)
    BY <2>2, <2>9, <2>10, QuietFacts, GrownFacts DEF NewHoles
  <2>12. Fresh(tokens, current, d, todo, w, new)
    BY <2>6, <2>8, TakesFresh
  <2>13. ~IsCast(w[1]) /\ ~IsCast(w[2]) /\ ~IsCast(w[3]) /\ ~IsCast(w[4])
         /\ ~Opens(w[1]) /\ ~Opens(w[2]) /\ ~Opens(w[3]) /\ ~Opens(w[4])
    BY <2>4 DEF IsCast, Opens
  <2>14. NewCasts(d, tree, w) /\ Guarded(todo, w)
    BY <2>5, <2>13 DEF NewCasts, Guarded
  <2>15. \A m \in 1 .. Len(w) : FormKnown(w[m])
    <3>1. "inherit" \notin Holes /\ "}" \notin Worded
      BY DeclTokens
    <3>2. FormKnown(w[1]) /\ FormKnown(w[2]) /\ FormKnown(w[3]) /\ FormKnown(w[4])
      BY <2>4, <3>1 DEF FormKnown
    <3> QED BY <2>5, <3>2
  <2>16. AliasesHeld(tokens, d, w \o Tail(todo))
    <3> DEFINE r == w \o Tail(todo)
    <3>1. Joins(w, todo, r)
      BY <2>3, <2>8, JoinFacts
    <3> HIDE DEF r
    <3>2. 3 \in DOMAIN r /\ r[3] = w[3]
      BY <2>3, <3>1 DEF Joins
    <3>3. tokens[current + 1] = "{" /\ current + 1 < d /\ \A j \in current + 1 .. d - 1 : ~Closes(tokens[j])
      <4> HIDE DEF c, d
      <4>1. \A j \in current + 1 .. d - 1 : j = c
        BY <2>7
      <4>2. tokens[current + 1] = "{" /\ current + 1 < d
        <5>1. tokens[current + 1] = "{"
          BY <1>3, <2>7, Zenon
        <5>2. current + 1 < d
          BY <2>7
        <5> QED BY <5>1, <5>2
      <4>3. \A j \in current + 1 .. d - 1 : tokens[j] = "{"
        BY <1>3, <4>1
      <4>4. ~Closes("{")
        BY Zenon DEF Closes
      <4> QED BY <4>2, <4>3, <4>4
    <3>4. ASSUME NEW m \in DOMAIN r, IsAliases(r[m]) PROVE m = 1
      <4>1. CASE m \in 1 .. Len(w)
        <5>1. r[m] = w[m] /\ (m = 1 \/ m = 2 \/ m = 3 \/ m = 4)
          BY <2>5, <3>1, <4>1 DEF Joins
        <5> QED BY <2>4, <3>4, <5>1 DEF IsAliases
      <4>2. CASE m - Len(w) + 1 \in 2 .. Len(todo) /\ r[m] = todo[m - Len(w) + 1]
        <5>1. PICK l \in 2 .. Len(todo) : r[m] = todo[l]
          BY <4>2
        <5>2. l \in DOMAIN todo /\ l # 1
          BY <2>8, <5>1
        <5> QED BY <2>8, <3>4, <5>1, <5>2 DEF Complete, AliasesHeld
      <4> QED BY <3>1, <4>1, <4>2 DEF Joins
    <3>5. r[3][1] = "build" /\ r[3][2] = "inherit" /\ r[3][3] = current
      BY <2>4, <3>2
    <3>6. AliasesHeld(tokens, d, r)
      <4> HIDE DEF d
      <4>1. \E k \in DOMAIN r :
              /\ k > 1 /\ r[k][1] = "build" /\ r[k][2] = "inherit"
              /\ tokens[r[k][3] + 1] = "{" /\ r[k][3] + 1 < d
              /\ \A j \in r[k][3] + 1 .. d - 1 : ~Closes(tokens[j])
        <5>1. 3 > 1
          OBVIOUS
        <5> QED BY <3>2, <3>3, <3>5, <5>1
      <4> QED BY <3>4, <4>1 DEF AliasesHeld
    <3> QED BY <3>6 DEF r
  <2> QED BY ONLY Quiet, <2>3, <2>6, <2>7, <2>8, <2>11, <2>12, <2>14, <2>15, <2>16, QuietStep
<1> QED BY <1>2, <1>3

(* The first position where one of some tokens is. *)
LEMMA MinIsFirst ==
  ASSUME NEW S, S \subseteq Nat, NEW j \in S
  PROVE  Min(S) <= j
<1>1. IsWellFoundedOn(OpToRel(<, Nat), Nat)
  BY NatLessThanWellFounded
<1>2. PICK i \in S : \A k \in S : ~ (<<k, i>> \in OpToRel(<, Nat))
  BY <1>1, WFMin
<1>3. \A k \in S : ~ (k < i)
  BY <1>2 DEF OpToRel
<1>4. \A k \in S : i <= k
  BY <1>3
<1> QED BY <1>4 DEF Min

AliasStops == {",", "}", "EOF"}

LEMMA Between ==
  ASSUME Quiet, NEW c \in Positions
  PROVE  /\ AliasEnd(c) \in Positions /\ c <= AliasEnd(c)
         /\ \A j \in c .. AliasEnd(c) - 1 : ~Closes(tokens[j])
<1> DEFINE F == {i \in c .. Len(tokens) : tokens[i] \in AliasStops \/ i = Len(tokens)}
           e == AliasEnd(c)
<1>1. tokens \in Programs /\ Len(tokens) \in Nat /\ c \in 1 .. Len(tokens)
  BY QuietFacts DEF Positions
<1>2. e \in Positions
  BY <1>1, Moves
<1>3. e = Min(F)
  BY Zenon DEF AliasEnd, FirstFrom, AliasStops
<1>4. F \subseteq Nat /\ Len(tokens) \in F
  BY <1>1
<1>5. \A j \in c .. Len(tokens) : Closes(tokens[j]) => j \in F
  <2>1. \A t : Closes(t) => t \in AliasStops
    BY Zenon DEF Closes, AliasStops
  <2> QED BY <2>1
<1>6. \A i \in F : c <= i
  BY <1>1
<1> HIDE DEF F, e
<1>7. e \in F /\ \A j \in F : e <= j
  BY <1>3, <1>4, MinIsThere, MinIsFirst
<1>8. e \in 1 .. Len(tokens) /\ c <= e
  BY <1>2, <1>6, <1>7 DEF Positions
<1>9. ASSUME NEW j \in c .. e - 1 PROVE ~Closes(tokens[j])
  <2>1. j \in c .. Len(tokens) /\ ~(e <= j)
    BY <1>1, <1>8
  <2> QED BY <1>5, <1>7, <2>1
<1> QED BY <1>2, <1>8, <1>9 DEF e

(* What is passed in a list of aliases belongs to the inheritance. *)
LEMMA AliasesGo ==
  ASSUME Quiet, Doing("aliases"), NEW e \in Positions, current <= e,
         \A j \in current .. e - 1 : ~Closes(tokens[j]),
         NEW new, NEW tree, Grown(nodes, tree, new), \A k \in new : k.node \notin Holes,
         Step(e, FALSE, tree, <<Aliases>>)
  PROVE  CompleteInv'
<1>1. /\ Len(tokens) \in Nat /\ current \in 1 .. Len(tokens) /\ e \in 1 .. Len(tokens)
      /\ todo \in Seq(Tasks) /\ Complete(tokens, current, nodes, todo)
  BY QuietFacts DEF Positions
<1>2. todo # <<>> /\ todo[1][1] = "aliases"
  <2>1. todo # <<>>
    BY Zenon DEF Doing
  <2>2. todo[1][1] = "aliases"
    BY HeadKinds, Zenon
  <2> QED BY <2>1, <2>2
<1>3. ~Holder(todo[1]) /\ ~Notices(todo[1]) /\ IsAliases(todo[1]) /\ 1 \in DOMAIN todo
  <2>1. 1 \in DOMAIN todo
    BY <1>1, <1>2
  <2> QED BY <1>2, <2>1 DEF Holder, Notices, IsAliases
<1>4. PICK k \in DOMAIN todo :
        /\ k > 1 /\ todo[k][1] = "build" /\ todo[k][2] = "inherit"
        /\ tokens[todo[k][3] + 1] = "{" /\ todo[k][3] + 1 < current
        /\ \A j \in todo[k][3] + 1 .. current - 1 : ~Closes(tokens[j])
  BY <1>1, <1>3 DEF Complete, AliasesHeld
<1>5. PICK at : at = todo[k][3]
  OBVIOUS
<1>6. at \in Nat
  <2>1. k \in 1 .. Len(todo) /\ todo[k] \in Tasks
    BY <1>1
  <2>2. TaskForm(todo[k])
    BY <2>1, TaskForms
  <2>3. todo[k][3] \in Positions
    BY <1>4, <2>2 DEF TaskForm
  <2> QED BY <1>1, <1>5, <2>3 DEF Positions
<1>7. /\ k \in 2 .. Len(todo) /\ todo[k][1] = "build" /\ todo[k][2] = "inherit"
      /\ tokens[at + 1] = "{" /\ at + 1 < current /\ at + 1 < e
      /\ \A j \in at + 1 .. e - 1 : ~Closes(tokens[j])
  <2>0. k > 1 /\ at + 1 < current
    BY <1>4, <1>5, Zenon
  <2>1. k \in 2 .. Len(todo) /\ at + 1 < current /\ at + 1 < e
    BY <1>1, <1>6, <2>0
  <2>2. ASSUME NEW j \in at + 1 .. e - 1 PROVE ~Closes(tokens[j])
    <3>1. j \in at + 1 .. current - 1 \/ j \in current .. e - 1
      BY <1>1, <1>6
    <3> QED BY <1>4, <1>5, <3>1
  <2> QED BY <1>4, <1>5, <2>1, <2>2
<1>8. ASSUME NEW i \in 1 .. e - 1, current <= i PROVE Held(tokens, todo, 1, i)
  <2>0. at + 1 < current
    BY <1>7, Zenon
  <2>1. at + 1 < i /\ \A j \in at + 1 .. i : j \in at + 1 .. e - 1
    BY <1>1, <1>6, <1>8, <2>0
  <2>2. InList(tokens, at, i)
    BY <1>7, <2>1 DEF InList
  <2>3. Holds(tokens, todo[k], i)
    BY <1>5, <1>7, <2>2 DEF Holds, Marks
  <2> QED BY <1>4, <2>3 DEF Held
<1>9. PICK w : w = <<Aliases>>
  OBVIOUS
<1>10. Work(w) /\ Len(w) = 1 /\ w[1][1] = "aliases"
  <2>1. <<Aliases>> \in Seq({Aliases}) /\ Len(<<Aliases>>) = 1 /\ <<Aliases>>[1] = Aliases
    OBVIOUS
  <2> QED BY <1>9, <2>1 DEF Work, Aliases
<1>11. \A m \in 1 .. Len(w) : m = 1
  BY <1>10
<1>12. Fresh(tokens, current, e, todo, w, new)
  <2>1. \A i : ~Holds(tokens, todo[1], i)
    BY <1>3 DEF Holder, Holds
  <2> QED BY <1>8, <2>1 DEF Fresh
<1>13. ~IsCast(w[1]) /\ ~Opens(w[1]) /\ FormKnown(w[1])
  BY <1>10 DEF IsCast, Opens, FormKnown
<1>14. NewCasts(e, tree, w) /\ Guarded(todo, w) /\ Castless(w, 1)
       /\ \A m \in 1 .. Len(w) : FormKnown(w[m])
  BY <1>11, <1>13 DEF NewCasts, Guarded, Castless
<1>15. NewHoles(tokens, current, todo, w, new) /\ Step(e, FALSE, tree, w)
  BY <1>9 DEF NewHoles
<1>16. AliasesHeld(tokens, e, w \o Tail(todo))
  <2> DEFINE r == w \o Tail(todo)
  <2>1. Joins(w, todo, r)
    BY <1>1, <1>2, <1>10, JoinFacts
  <2> HIDE DEF r
  <2>2. k \in DOMAIN r /\ r[k] = todo[k] /\ k > 1
    <3>1. Len(w) + k - 1 \in 1 .. Len(r) /\ r[Len(w) + k - 1] = todo[k]
      BY <1>7, <2>1 DEF Joins
    <3>2. Len(w) + k - 1 = k
      <4>1. k \in 2 .. Len(todo)
        BY <1>7, Zenon
      <4> QED BY <1>10, <4>1
    <3> QED BY <1>4, <2>1, <3>1, <3>2 DEF Joins
  <2>3. ASSUME NEW m \in DOMAIN r, IsAliases(r[m]) PROVE m = 1
    <3>1. CASE m \in 1 .. Len(w)
      BY <1>11, <3>1
    <3>2. CASE m - Len(w) + 1 \in 2 .. Len(todo) /\ r[m] = todo[m - Len(w) + 1]
      <4>1. PICK l \in 2 .. Len(todo) : r[m] = todo[l]
        BY <3>2
      <4>2. l \in DOMAIN todo /\ l # 1
        BY <1>1, <4>1
      <4> QED BY <1>1, <2>3, <4>1, <4>2 DEF Complete, AliasesHeld
    <3> QED BY <2>1, <3>1, <3>2 DEF Joins
  <2>4. \E l \in DOMAIN r :
          /\ l > 1 /\ r[l][1] = "build" /\ r[l][2] = "inherit"
          /\ tokens[r[l][3] + 1] = "{" /\ r[l][3] + 1 < e
          /\ \A j \in r[l][3] + 1 .. e - 1 : ~Closes(tokens[j])
    BY <1>5, <1>7, <2>2
  <2>5. AliasesHeld(tokens, e, r)
    BY <2>3, <2>4 DEF AliasesHeld
  <2> QED BY <2>5 DEF r
<1> QED BY ONLY Quiet, <1>2, <1>3, e \in Positions, current <= e, Grown(nodes, tree, new),
                <1>10, <1>12, <1>14, <1>15, <1>16, QuietStep

LEMMA QuietEndAliases == ASSUME Quiet, EndAliases PROVE CompleteInv'
<1>1. Doing("aliases") /\ Step(current, Cur = "EOF", nodes, <<>>)
  BY Zenon DEF EndAliases
<1>2. PICK error \in BOOLEAN : error = (Cur = "EOF")
  OBVIOUS
<1>3. Step(current, error, nodes, <<>>)
  BY <1>1, <1>2
<1>4. CASE error = TRUE
  BY <1>3, <1>4, LoudStep
<1>5. CASE error = FALSE
  <2>1. todo[1][1] = "aliases"
    BY <1>1, HeadKinds, Zenon
  <2>2. ~Holder(todo[1]) /\ ~Notices(todo[1])
    BY <2>1 DEF Holder, Notices
  <2>3. current \in Positions /\ current <= current /\ Takes(current, <<>>)
    BY Skipped
  <2>4. Fresh(tokens, current, current, todo, <<>>, {})
    BY <2>2, <2>3, TakesFresh
  <2>5. PICK new : new = {}
    OBVIOUS
  <2>6. PICK tree : tree = nodes
    OBVIOUS
  <2>7. Grown(nodes, tree, new) /\ Step(current, FALSE, tree, <<>>)
        /\ Fresh(tokens, current, current, todo, <<>>, new) /\ \A l \in new : l.node \notin Holes
    BY <1>3, <1>5, <2>4, <2>5, <2>6, QuietFacts, GrownFacts
  <2>8. TameWork(<<>>) /\ Guarded(todo, <<>>)
    BY NothingLeft, GuardedNothing
  <2> QED BY ONLY Quiet, <1>1, <2>2, <2>3, <2>7, <2>8, TameStep
<1> QED BY <1>4, <1>5

LEMMA QuietAlias == ASSUME Quiet, ParseAlias PROVE CompleteInv'
<1> DEFINE c == Forward(current)
           d == Forward(c)
           e == Forward(d)
           next == IF tokens[e] = "," THEN Forward(e) ELSE e
<1>1. Doing("aliases") /\ Cur = "name"
  BY Zenon DEF ParseAlias
<1>2. current \in Positions /\ c \in Positions /\ d \in Positions /\ e \in Positions
      /\ Forward(e) \in Positions /\ Positions \subseteq Nat
  <2>1. current \in Positions
    BY QuietFacts
  <2> QED BY <2>1, Passed DEF Positions
<1>3. ~Closes(tokens[current]) /\ c = current + 1
  <2>1. ~Closes(tokens[current])
    BY <1>1, Zenon DEF Cur, Closes
  <2>2. c = current + 1
    BY <1>1, <1>2, Passed DEF Cur
  <2> QED BY <2>1, <2>2
<1>4. CASE tokens[c] # "as"
  <2> DEFINE f == AliasEnd(c)
  <2>1. Step(f, FALSE, nodes, <<Aliases>>)
    <3>1. Goes(f, <<Aliases>>)
      BY <1>4 DEF ParseAlias
    <3> QED BY <3>1, Zenon DEF Goes
  <2>2. f \in Positions /\ c <= f /\ \A j \in c .. f - 1 : ~Closes(tokens[j])
    BY <1>2, Between
  <2> HIDE DEF f, c
  <2>3. current <= f /\ f \in Nat
    BY <1>2, <1>3, <2>2
  <2>4. ASSUME NEW j \in current .. f - 1 PROVE ~Closes(tokens[j])
    <3>1. j = current \/ j \in c .. f - 1
      BY <1>2, <1>3, <2>3
    <3> QED BY <1>3, <2>2, <3>1
  <2>5. PICK new : new = {}
    OBVIOUS
  <2>6. PICK tree : tree = nodes
    OBVIOUS
  <2>7. Grown(nodes, tree, new) /\ Step(f, FALSE, tree, <<Aliases>>) /\ \A l \in new : l.node \notin Holes
    BY <2>1, <2>5, <2>6, QuietFacts, GrownFacts
  <2> QED BY ONLY Quiet, <1>1, <2>2, <2>3, <2>4, <2>7, AliasesGo
<1>5. CASE tokens[c] = "as" /\ tokens[d] # "name"
  <2>1. Reports(AliasEnd(d), <<Aliases>>)
    BY <1>5 DEF ParseAlias
  <2> QED BY <2>1, LoudStep DEF Reports
<1>6. CASE tokens[c] = "as" /\ tokens[d] = "name"
  <2> DEFINE k == Node("alias", current, Base + 1)
  <2>1. PICK error \in BOOLEAN : error = (tokens[e] = "," /\ tokens[Forward(e)] = "}")
    OBVIOUS
  <2>2. Step(next, error, Append(nodes, k), <<Aliases>>)
    <3>1. Step(next, tokens[e] = "," /\ tokens[Forward(e)] = "}", Leaf("alias", current), <<Aliases>>)
      BY <1>6 DEF ParseAlias
    <3> QED BY <2>1, <3>1 DEF Leaf
  <2>3. CASE error = TRUE
    BY <2>2, <2>3, LoudStep
  <2>4. CASE error = FALSE
    <3>1. d = c + 1 /\ e = d + 1
      BY <1>2, <1>6, Passed
    <3>2. next \in Positions /\ (next = e \/ (next = e + 1 /\ ~Closes(tokens[e])))
      <4>1. tokens[e] = "," => Forward(e) = e + 1 /\ ~Closes(tokens[e])
        <5>1. tokens[e] = "," => tokens[e] # "EOF" /\ ~Closes(tokens[e])
          BY Zenon DEF Closes
        <5> QED BY <1>2, <5>1, Passed, Zenon
      <4> QED BY <1>2, <4>1, Zenon
    <3>3. ~Closes(tokens[c]) /\ ~Closes(tokens[d])
      BY <1>6, Zenon DEF Closes
    <3> HIDE DEF next, e, d, c
    <3>4. current <= next /\ next \in Nat
      BY <1>2, <1>3, <3>1, <3>2
    <3>5. ASSUME NEW j \in current .. next - 1 PROVE ~Closes(tokens[j])
      <4>1. j = current \/ j = c \/ j = d \/ (j = e /\ ~Closes(tokens[e]))
        BY <1>2, <1>3, <3>1, <3>2, <3>4
      <4> QED BY <1>3, <3>3, <4>1
    <3>6. PICK new : new = {k}
      OBVIOUS
    <3>7. PICK tree : tree = Append(nodes, k)
      OBVIOUS
    <3>8. k.node \notin Holes
      BY DeclTokens DEF Node
    <3>9. Grown(nodes, tree, new) /\ Step(next, FALSE, tree, <<Aliases>>)
          /\ \A l \in new : l.node \notin Holes
      BY <2>2, <2>4, <3>6, <3>7, <3>8, QuietFacts, GrownFacts
    <3> QED BY ONLY Quiet, <1>1, <3>2, <3>4, <3>5, <3>9, AliasesGo
  <2> QED BY <2>3, <2>4
<1> QED BY <1>4, <1>5, <1>6

LEMMA LoudDeclSteps ==
  ASSUME NotADeclaration \/ NotAParent \/ NotAnAlias \/ NotAMember \/ NotAParam
  PROVE  CompleteInv'
<1>1. PICK c, w : Reports(c, w)
  BY Zenon DEF NotADeclaration, NotAParent, NotAnAlias, NotAMember, NotAParam
<1>2. Step(c, TRUE, nodes, w)
  BY <1>1, Zenon DEF Reports
<1> QED BY <1>2, LoudStep

LEMMA QuietDeclSteps ==
  ASSUME Quiet,
         \/ NextDeclaration \/ EndProgram \/ NotADeclaration
         \/ ParseBlueprint \/ EndParents \/ NotAParent \/ ParseParent \/ NextParent
         \/ EndAliases \/ NotAnAlias \/ ParseAlias
         \/ ParseBody \/ EndMembers \/ NotAMember \/ ParseField \/ ParseMethod
         \/ ParseSelf \/ EndParams \/ NotAParam \/ ParseParam \/ NextParam
         \/ ParseReturns \/ ParseMethodBody
         \/ ParseFunc \/ EndFuncParams \/ ParseFuncParam \/ NextFuncParam
         \/ ParseFuncReturns \/ ParseFuncBody
  PROVE  CompleteInv'
<1>1. CASE NotADeclaration \/ NotAParent \/ NotAnAlias \/ NotAMember \/ NotAParam
  BY <1>1, LoudDeclSteps
<1>2. CASE NextDeclaration \/ EndProgram \/ ParseBlueprint \/ EndParents \/ ParseParent \/ NextParent
           \/ EndAliases \/ ParseAlias
  BY <1>2, QuietDeclaration, QuietEndProgram, QuietBlueprint, QuietEndParents, QuietParent,
     QuietNextParent, QuietEndAliases, QuietAlias
<1>3. CASE ParseBody \/ EndMembers \/ ParseField \/ ParseMethod \/ ParseSelf \/ EndParams
           \/ ParseParam \/ NextParam \/ ParseReturns \/ ParseMethodBody
  BY <1>3, QuietBody, QuietEndMembers, QuietField, QuietMethod, QuietSelf, QuietEndParams, QuietParam,
     QuietNextParam, QuietReturns, QuietMethodBody
<1>4. CASE ParseFunc \/ EndFuncParams \/ ParseFuncParam \/ NextFuncParam \/ ParseFuncReturns
           \/ ParseFuncBody
  BY <1>4, QuietFunc, QuietEndFuncParams, QuietFuncParam, QuietNextFuncParam, QuietFuncReturns,
     QuietFuncBody
<1> QED BY <1>1, <1>2, <1>3, <1>4, Zenon

(* Nothing takes back that something has been reported. *)
Raised == tokens' = tokens /\ (reported => reported') /\ (crashed => crashed')

LEMMA StepRaises == \A c, error, tree, work : Step(c, error, tree, work) => Raised
<1> SUFFICES ASSUME NEW c, NEW error, NEW tree, NEW work, Step(c, error, tree, work) PROVE Raised
  OBVIOUS
<1>1. tokens' = tokens /\ crashed' = crashed
  BY DEF Step
<1>2. reported => reported'
  BY Zenon DEF Step
<1> QED BY <1>1, <1>2, Zenon DEF Raised

LEMMA ExprRaise ==
  /\ Expected => Raised
  /\ NotExpected => Raised
  /\ BuildNode => Raised
  /\ MatchComma => Raised
  /\ ParseDefault => Raised
  /\ ParseNothing => Raised
  /\ ParseAtom => Raised
  /\ ParseUnary => Raised
  /\ ParseLeadingDot => Raised
  /\ ParseFfi => Raised
  /\ ParseAggregate => Raised
  /\ ParseArray => Raised
  /\ ParseGroupOrCast => Raised
  /\ DecideCast => Raised
  /\ NotAnExpr => Raised
  /\ EndItems => Raised
  /\ ParseItem => Raised
  /\ ParseIndexed => Raised
  /\ ParseNamed => Raised
  /\ EndExpr => Raised
  /\ ParseInfix => Raised
  /\ ParseMember => Raised
  /\ ParseCall => Raised
  /\ ParseIndex => Raised
  /\ ParseNamedType => Raised
  /\ ParseAnonType => Raised
  /\ NotAType => Raised
  /\ ParsePointer => Raised
  /\ ParseArrayType => Raised
  /\ EndType => Raised
  /\ EndAnon => Raised
  /\ NotAField => Raised
  /\ ParseAnonField => Raised
  /\ EndAnonField => Raised
<1>1. Expected => Raised
  BY StepRaises, Zenon DEF Expected, Goes, Makes, Reports
<1>2. NotExpected => Raised
  BY StepRaises, Zenon DEF NotExpected, Goes, Makes, Reports
<1>3. BuildNode => Raised
  BY StepRaises, Zenon DEF BuildNode, Goes, Makes, Reports
<1>4. MatchComma => Raised
  BY StepRaises, Zenon DEF MatchComma, Goes, Makes, Reports
<1>5. ParseDefault => Raised
  BY StepRaises, Zenon DEF ParseDefault, Goes, Makes, Reports
<1>6. ParseNothing => Raised
  BY StepRaises, Zenon DEF ParseNothing, Goes, Makes, Reports
<1>7. ParseAtom => Raised
  BY StepRaises, Zenon DEF ParseAtom, Goes, Makes, Reports
<1>8. ParseUnary => Raised
  BY StepRaises, Zenon DEF ParseUnary, Goes, Makes, Reports
<1>9. ParseLeadingDot => Raised
  BY StepRaises, Zenon DEF ParseLeadingDot, Goes, Makes, Reports
<1>10. ParseFfi => Raised
  BY StepRaises, Zenon DEF ParseFfi, Goes, Makes, Reports
<1>11. ParseAggregate => Raised
  BY StepRaises, Zenon DEF ParseAggregate, Goes, Makes, Reports
<1>12. ParseArray => Raised
  BY StepRaises, Zenon DEF ParseArray, Goes, Makes, Reports
<1>13. ParseGroupOrCast => Raised
  BY StepRaises, Zenon DEF ParseGroupOrCast, Goes, Makes, Reports
<1>14. DecideCast => Raised
  BY StepRaises, Zenon DEF DecideCast, Goes, Makes, Reports
<1>15. NotAnExpr => Raised
  BY StepRaises, Zenon DEF NotAnExpr, Goes, Makes, Reports
<1>16. EndItems => Raised
  BY StepRaises, Zenon DEF EndItems, Goes, Makes, Reports
<1>17. ParseItem => Raised
  BY StepRaises, Zenon DEF ParseItem, Goes, Makes, Reports
<1>18. ParseIndexed => Raised
  BY StepRaises, Zenon DEF ParseIndexed, Goes, Makes, Reports
<1>19. ParseNamed => Raised
  BY StepRaises, Zenon DEF ParseNamed, Goes, Makes, Reports
<1>20. EndExpr => Raised
  BY StepRaises, Zenon DEF EndExpr, Goes, Makes, Reports
<1>21. ParseInfix => Raised
  BY StepRaises, Zenon DEF ParseInfix, Goes, Makes, Reports
<1>22. ParseMember => Raised
  BY StepRaises, Zenon DEF ParseMember, Goes, Makes, Reports
<1>23. ParseCall => Raised
  BY StepRaises, Zenon DEF ParseCall, Goes, Makes, Reports
<1>24. ParseIndex => Raised
  BY StepRaises, Zenon DEF ParseIndex, Goes, Makes, Reports
<1>25. ParseNamedType => Raised
  BY StepRaises, Zenon DEF ParseNamedType, Goes, Makes, Reports
<1>26. ParseAnonType => Raised
  BY StepRaises, Zenon DEF ParseAnonType, Goes, Makes, Reports
<1>27. NotAType => Raised
  BY StepRaises, Zenon DEF NotAType, Goes, Makes, Reports
<1>28. ParsePointer => Raised
  BY StepRaises, Zenon DEF ParsePointer, Goes, Makes, Reports
<1>29. ParseArrayType => Raised
  BY StepRaises, Zenon DEF ParseArrayType, Goes, Makes, Reports
<1>30. EndType => Raised
  BY StepRaises, Zenon DEF EndType, Goes, Makes, Reports
<1>31. EndAnon => Raised
  BY StepRaises, Zenon DEF EndAnon, Goes, Makes, Reports
<1>32. NotAField => Raised
  BY StepRaises, Zenon DEF NotAField, Goes, Makes, Reports
<1>33. ParseAnonField => Raised
  BY StepRaises, Zenon DEF ParseAnonField, Goes, Makes, Reports
<1>34. EndAnonField => Raised
  BY StepRaises, Zenon DEF EndAnonField, Goes, Makes, Reports
<1> QED BY <1>1, <1>2, <1>3, <1>4, <1>5, <1>6, <1>7, <1>8, <1>9, <1>10, <1>11, <1>12, <1>13, <1>14, <1>15, <1>16, <1>17, <1>18, <1>19, <1>20, <1>21, <1>22, <1>23, <1>24, <1>25, <1>26, <1>27, <1>28, <1>29, <1>30, <1>31, <1>32, <1>33, <1>34

LEMMA StmtRaise ==
  /\ EmptyBlock => Raised
  /\ NoStmt => Raised
  /\ ParseExprStmt => Raised
  /\ ParseBlock => Raised
  /\ NoBlock => Raised
  /\ EndStmts => Raised
  /\ NextStmt => Raised
  /\ ParseReturn => Raised
  /\ ParseExit => Raised
  /\ ParseDecl => Raised
  /\ ParseIf => Raised
  /\ ParseThen => Raised
  /\ ParseElse => Raised
  /\ ParseWhile => Raised
  /\ ParseDoWhile => Raised
  /\ ParseDoCond => Raised
  /\ ParseFor => Raised
  /\ ParseForInit => Raised
  /\ ParseClause => Raised
<1>1. EmptyBlock => Raised
  BY StepRaises, Zenon DEF EmptyBlock, Goes, Makes, Reports
<1>2. NoStmt => Raised
  BY StepRaises, Zenon DEF NoStmt, Goes, Makes, Reports
<1>3. ParseExprStmt => Raised
  BY StepRaises, Zenon DEF ParseExprStmt, Goes, Makes, Reports
<1>4. ParseBlock => Raised
  BY StepRaises, Zenon DEF ParseBlock, Goes, Makes, Reports
<1>5. NoBlock => Raised
  BY StepRaises, Zenon DEF NoBlock, Goes, Makes, Reports
<1>6. EndStmts => Raised
  BY StepRaises, Zenon DEF EndStmts, Goes, Makes, Reports
<1>7. NextStmt => Raised
  BY StepRaises, Zenon DEF NextStmt, Goes, Makes, Reports
<1>8. ParseReturn => Raised
  BY StepRaises, Zenon DEF ParseReturn, Goes, Makes, Reports
<1>9. ParseExit => Raised
  BY StepRaises, Zenon DEF ParseExit, Goes, Makes, Reports
<1>10. ParseDecl => Raised
  BY StepRaises, Zenon DEF ParseDecl, Goes, Makes, Reports
<1>11. ParseIf => Raised
  BY StepRaises, Zenon DEF ParseIf, Goes, Makes, Reports
<1>12. ParseThen => Raised
  BY StepRaises, Zenon DEF ParseThen, Goes, Makes, Reports
<1>13. ParseElse => Raised
  BY StepRaises, Zenon DEF ParseElse, Goes, Makes, Reports
<1>14. ParseWhile => Raised
  BY StepRaises, Zenon DEF ParseWhile, Goes, Makes, Reports
<1>15. ParseDoWhile => Raised
  BY StepRaises, Zenon DEF ParseDoWhile, Goes, Makes, Reports
<1>16. ParseDoCond => Raised
  BY StepRaises, Zenon DEF ParseDoCond, Goes, Makes, Reports
<1>17. ParseFor => Raised
  BY StepRaises, Zenon DEF ParseFor, Goes, Makes, Reports
<1>18. ParseForInit => Raised
  BY StepRaises, Zenon DEF ParseForInit, Goes, Makes, Reports
<1>19. ParseClause => Raised
  BY StepRaises, Zenon DEF ParseClause, Goes, Makes, Reports
<1> QED BY <1>1, <1>2, <1>3, <1>4, <1>5, <1>6, <1>7, <1>8, <1>9, <1>10, <1>11, <1>12, <1>13, <1>14, <1>15, <1>16, <1>17, <1>18, <1>19

LEMMA DeclRaise ==
  /\ NextDeclaration => Raised
  /\ EndProgram => Raised
  /\ NotADeclaration => Raised
  /\ ParseBlueprint => Raised
  /\ EndParents => Raised
  /\ NotAParent => Raised
  /\ ParseParent => Raised
  /\ NextParent => Raised
  /\ EndAliases => Raised
  /\ NotAnAlias => Raised
  /\ ParseAlias => Raised
  /\ ParseBody => Raised
  /\ EndMembers => Raised
  /\ NotAMember => Raised
  /\ ParseField => Raised
  /\ ParseMethod => Raised
  /\ ParseSelf => Raised
  /\ EndParams => Raised
  /\ NotAParam => Raised
  /\ ParseParam => Raised
  /\ NextParam => Raised
  /\ ParseReturns => Raised
  /\ ParseMethodBody => Raised
  /\ ParseFunc => Raised
  /\ EndFuncParams => Raised
  /\ ParseFuncParam => Raised
  /\ NextFuncParam => Raised
  /\ ParseFuncReturns => Raised
  /\ ParseFuncBody => Raised
<1>1. NextDeclaration => Raised
  BY StepRaises, Zenon DEF NextDeclaration, Goes, Makes, Reports
<1>2. EndProgram => Raised
  BY StepRaises, Zenon DEF EndProgram, Goes, Makes, Reports
<1>3. NotADeclaration => Raised
  BY StepRaises, Zenon DEF NotADeclaration, Goes, Makes, Reports
<1>4. ParseBlueprint => Raised
  BY StepRaises, Zenon DEF ParseBlueprint, Goes, Makes, Reports
<1>5. EndParents => Raised
  BY StepRaises, Zenon DEF EndParents, Goes, Makes, Reports
<1>6. NotAParent => Raised
  BY StepRaises, Zenon DEF NotAParent, Goes, Makes, Reports
<1>7. ParseParent => Raised
  BY StepRaises, Zenon DEF ParseParent, Goes, Makes, Reports
<1>8. NextParent => Raised
  BY StepRaises, Zenon DEF NextParent, Goes, Makes, Reports
<1>9. EndAliases => Raised
  BY StepRaises, Zenon DEF EndAliases, Goes, Makes, Reports
<1>10. NotAnAlias => Raised
  BY StepRaises, Zenon DEF NotAnAlias, Goes, Makes, Reports
<1>11. ParseAlias => Raised
  BY StepRaises, Zenon DEF ParseAlias, Goes, Makes, Reports
<1>12. ParseBody => Raised
  BY StepRaises, Zenon DEF ParseBody, Goes, Makes, Reports
<1>13. EndMembers => Raised
  BY StepRaises, Zenon DEF EndMembers, Goes, Makes, Reports
<1>14. NotAMember => Raised
  BY StepRaises, Zenon DEF NotAMember, Goes, Makes, Reports
<1>15. ParseField => Raised
  BY StepRaises, Zenon DEF ParseField, Goes, Makes, Reports
<1>16. ParseMethod => Raised
  BY StepRaises, Zenon DEF ParseMethod, Goes, Makes, Reports
<1>17. ParseSelf => Raised
  BY StepRaises, Zenon DEF ParseSelf, Goes, Makes, Reports
<1>18. EndParams => Raised
  BY StepRaises, Zenon DEF EndParams, Goes, Makes, Reports
<1>19. NotAParam => Raised
  BY StepRaises, Zenon DEF NotAParam, Goes, Makes, Reports
<1>20. ParseParam => Raised
  BY StepRaises, Zenon DEF ParseParam, Goes, Makes, Reports
<1>21. NextParam => Raised
  BY StepRaises, Zenon DEF NextParam, Goes, Makes, Reports
<1>22. ParseReturns => Raised
  BY StepRaises, Zenon DEF ParseReturns, Goes, Makes, Reports
<1>23. ParseMethodBody => Raised
  BY StepRaises, Zenon DEF ParseMethodBody, Goes, Makes, Reports
<1>24. ParseFunc => Raised
  BY StepRaises, Zenon DEF ParseFunc, Goes, Makes, Reports
<1>25. EndFuncParams => Raised
  BY StepRaises, Zenon DEF EndFuncParams, Goes, Makes, Reports
<1>26. ParseFuncParam => Raised
  BY StepRaises, Zenon DEF ParseFuncParam, Goes, Makes, Reports
<1>27. NextFuncParam => Raised
  BY StepRaises, Zenon DEF NextFuncParam, Goes, Makes, Reports
<1>28. ParseFuncReturns => Raised
  BY StepRaises, Zenon DEF ParseFuncReturns, Goes, Makes, Reports
<1>29. ParseFuncBody => Raised
  BY StepRaises, Zenon DEF ParseFuncBody, Goes, Makes, Reports
<1> QED BY <1>1, <1>2, <1>3, <1>4, <1>5, <1>6, <1>7, <1>8, <1>9, <1>10, <1>11, <1>12, <1>13, <1>14, <1>15, <1>16, <1>17, <1>18, <1>19, <1>20, <1>21, <1>22, <1>23, <1>24, <1>25, <1>26, <1>27, <1>28, <1>29

LEMMA NextRaises == ASSUME [Next]_vars PROVE Raised
<1>1. CASE UNCHANGED vars
  BY <1>1 DEF vars, Raised
<1>2. CASE CrashInNamed \/ CrashInFfi
  <2>1. tokens' = tokens /\ reported' = reported /\ crashed' = TRUE
    BY <1>2, CrashFacts, Zenon
  <2>2. (reported => reported') /\ (crashed => crashed')
    BY <2>1, Zenon
  <2> QED BY <2>1, <2>2, Zenon DEF Raised
<1>3. CASE ExprStep
  BY <1>2, <1>3, ExprRaise, Zenon DEF ExprStep
<1>4. Next => ExprStep \/ Raised \/ UNCHANGED vars
  BY StmtRaise, DeclRaise, Zenon DEF Next, Stays
<1> QED BY <1>1, <1>3, <1>4, Zenon

LEMMA CompleteKept == ASSUME IInv, CompleteInv, [Next]_vars PROVE CompleteInv'
<1>1. tokens' = tokens /\ (reported => reported') /\ (crashed => crashed')
  BY NextRaises, Zenon DEF Raised
<1>2. CASE Silent
  <2>1. Quiet
    BY <1>2 DEF Quiet
  <2>2. CASE UNCHANGED vars
    <3>1. /\ tokens' = tokens /\ current' = current /\ nodes' = nodes /\ todo' = todo
          /\ reported' = reported
      BY <2>2 DEF vars
    <3>2. Complete(tokens, current, nodes, todo) /\ \A i \in DOMAIN tokens : tokens[i] # "ERROR"
      BY <2>1, QuietFacts, Zenon
    <3>3. Complete(tokens', current', nodes', todo') /\ \A i \in DOMAIN tokens' : tokens'[i] # "ERROR"
      BY <3>1, <3>2, Zenon
    <3> QED BY <3>3, Zenon DEF CompleteInv
  <2> QED BY <2>1, <2>2, QuietExprSteps, QuietStmtSteps, QuietDeclSteps, Zenon DEF Next, Stays
<1>3. CASE ~Silent
  <2>1. HasIndexed => HasIndexed'
    BY <1>1, Zenon DEF HasIndexed
  <2>2. ~Silent'
    BY <1>1, <1>3, <2>1, Zenon DEF Silent
  <2>3. reported' \/ \A i \in DOMAIN tokens' : tokens'[i] # "ERROR"
    BY <1>1, Zenon DEF CompleteInv
  <2> QED BY <2>2, <2>3, Zenon DEF CompleteInv
<1> QED BY <1>2, <1>3

LEMMA CompleteFirst == Init => CompleteInv
<1> SUFFICES ASSUME Init PROVE CompleteInv
  OBVIOUS
<1>1. current = 1 /\ todo = <<Program>> /\ nodes = <<>>
  BY Zenon DEF Init
<1>2. reported \/ \A i \in DOMAIN tokens : tokens[i] # "ERROR"
  BY Zenon DEF Init
<1>3. PICK s : s = <<Program>>
  OBVIOUS
<1>4. Len(s) = 1 /\ DOMAIN s = 1 .. 1 /\ s[1][1] = "program"
  BY <1>3 DEF Program
<1>5. \A m \in DOMAIN s : m = 1
  BY <1>4
<1>6. ~IsCast(s[1]) /\ ~Opens(s[1]) /\ ~IsAliases(s[1]) /\ FormKnown(s[1])
  BY <1>4 DEF IsCast, Opens, IsAliases, FormKnown
<1>7. PICK tree : tree = <<>>
  OBVIOUS
<1>8. Len(tree) = 0 /\ DOMAIN tree = {}
  BY <1>7
<1>9. PICK c : c = 1
  OBVIOUS
<1>10. Covered(tokens, c, tree, Len(tree), s, 0)
  <2>1. 1 .. c - 1 = {}
    BY <1>9
  <2> QED BY <2>1 DEF Covered
<1>11. CastsCovered(tokens, tree, s) /\ Watched(s) /\ AliasesHeld(tokens, c, s) /\ FormsKnown(s)
  <2>1. CastsCovered(tokens, tree, s)
    BY <1>5, <1>6, Zenon DEF CastsCovered
  <2>2. Watched(s)
    BY <1>5, <1>6, Zenon DEF Watched
  <2>3. AliasesHeld(tokens, c, s)
    BY <1>5, <1>6, Zenon DEF AliasesHeld
  <2>4. FormsKnown(s)
    BY <1>5, <1>6, Zenon DEF FormsKnown
  <2> QED BY <2>1, <2>2, <2>3, <2>4
<1>12. HolesSeen(tokens, c, tree, s)
  BY <1>8 DEF HolesSeen
<1>13. Complete(tokens, c, tree, s)
  BY <1>10, <1>11, <1>12 DEF Complete
<1>14. Complete(tokens, current, nodes, todo)
  BY <1>1, <1>3, <1>7, <1>9, <1>13
<1> QED BY <1>2, <1>14 DEF CompleteInv

LEMMA CompleteHolds == Spec => [](IInv /\ CompleteInv)
<1>1. IInv /\ CompleteInv /\ [Next]_vars => IInv' /\ CompleteInv'
  BY NextKeeps, CompleteKept
<1> QED BY InitHolds, CompleteFirst, <1>1, PTL DEF Spec

(* What the invariant says when nothing is left to do. *)
LEMMA KeptAtEnd == ASSUME IInv, CompleteInv PROVE NothingLost
<1> SUFFICES ASSUME Accepted, ~HasIndexed
             PROVE  /\ \A k \in DOMAIN nodes : nodes[k].node \notin {"error", "none"}
                    /\ \A i \in DOMAIN tokens :
                         tokens[i] \in {"name", "self", "literal", "prim"} =>
                           \/ InLiteral(i) \/ InAliases(i)
                           \/ \E k \in AtNames : nodes[k].at = i
  BY Zenon DEF NothingLost
<1>1. todo = <<>> /\ current = Len(tokens) /\ Quiet
  BY Zenon DEF Accepted, Finished, Quiet, Silent
<1>2. /\ tokens \in Seq(Token) /\ Len(tokens) \in Nat /\ nodes \in Seq(NodeSet)
      /\ Complete(tokens, current, nodes, todo)
      /\ \A i \in 1 .. Len(tokens) : tokens[i] = "EOF" <=> i = Len(tokens)
  BY <1>1, QuietFacts
<1>3. PICK s : s = todo
  OBVIOUS
<1>4. DOMAIN s = {}
  BY <1>1, <1>3
<1>5. Covered(tokens, current, nodes, Len(nodes), s, 0) /\ HolesSeen(tokens, current, nodes, s)
  BY <1>2, <1>3 DEF Complete
<1>6. \A k \in DOMAIN nodes : nodes[k].node \notin {"error", "none"}
  <2>1. ~Seen(s, 1)
    BY <1>4, Zenon DEF Seen
  <2> QED BY <1>5, <2>1, Zenon DEF HolesSeen, Holes
<1>7. ASSUME NEW i \in DOMAIN tokens, tokens[i] \in {"name", "self", "literal", "prim"}
      PROVE  \/ InLiteral(i) \/ InAliases(i)
             \/ \E k \in AtNames : nodes[k].at = i
  <2>1. tokens[i] \in Worded /\ tokens[i] # "EOF"
    BY <1>7, Zenon DEF Worded
  <2>2. i \in 1 .. Len(tokens) /\ i \in 1 .. current - 1
    BY <1>1, <1>2, <2>1
  <2>3. ~Held(tokens, s, 0, i)
    BY <1>4, Zenon DEF Held
  <2>4. Marked(tokens, nodes, Len(nodes), i)
    BY <1>5, <2>1, <2>2, <2>3, Zenon DEF Covered
  <2>5. PICK k \in 1 .. Len(nodes) : Marks(tokens, nodes[k].node, nodes[k].at, i)
    BY <2>4, Zenon DEF Marked
  <2>6. k \in DOMAIN nodes /\ nodes[k] \in NodeSet
    BY <1>2
  <2>7. nodes[k].at \in Nat /\ nodes[k].at > 0
    <3>1. nodes[k].at \in Positions
      BY <2>6 DEF NodeSet
    <3> QED BY <1>2, <3>1 DEF Positions
  <2>8. CASE nodes[k].node \in Named /\ nodes[k].at = i
    BY <2>6, <2>8, Zenon DEF AtNames
  <2>9. CASE nodes[k].node \in Named /\ tokens[nodes[k].at] = "." /\ i = nodes[k].at + 1
    <3>1. k \in AtNames
      BY <2>6, <2>9, Zenon DEF AtNames
    <3>2. i > 1 /\ i - 1 = nodes[k].at
      BY <2>7, <2>9
    <3>3. tokens[i - 1] = "." /\ nodes[k].at = i - 1
      BY <2>9, <3>2, Zenon
    <3> QED BY <3>1, <3>2, <3>3, Zenon DEF InLiteral
  <2>10. CASE nodes[k].node = "inherit" /\ InList(tokens, nodes[k].at, i)
    BY <2>6, <2>10, Zenon DEF InList, InAliases, Closes
  <2> QED BY <2>5, <2>8, <2>9, <2>10, Zenon DEF Marks
<1> QED BY <1>6, <1>7, Zenon

(* Whatever the file, a program that no error has been reported for is in  *)
(* the tree with all its names and values, and there is no hole in the     *)
(* tree.  What a call has read and not made a node of is remembered by a   *)
(* call in progress; a cast that goes back (_parse_group_or_cast) takes    *)
(* only nodes made after its position; and the hole that _nud leaves at    *)
(* the EOF is always inside a call that will want a token and report that  *)
(* it is not there.                                                        *)
THEOREM NamesAlwaysKept == Spec => []NothingLost
<1>1. IInv /\ CompleteInv => NothingLost
  BY KeptAtEnd
<1> QED BY <1>1, CompleteHolds, PTL

-----------------------------------------------------------------------------
(* Names for what the rest of the proofs looks at.                         *)

OpenParen(t) == t = "("
IsBuild(task) == task[1] = "build"

(* The places of the work before and behind the step. *)
LEMMA JoinsBehind ==
  ASSUME NEW w, NEW s, NEW r, Joins(w, s, r)
  PROVE  \A m \in 1 .. Len(r) : m > Len(w) => \E a \in 2 .. Len(s) : m = Len(w) + a - 1 /\ r[m] = s[a]
<1>1. Len(w) \in Nat /\ Len(s) \in Nat /\ Len(r) \in Nat
  BY DEF Joins
<1> SUFFICES ASSUME NEW m \in 1 .. Len(r), m > Len(w)
             PROVE  \E a \in 2 .. Len(s) : m = Len(w) + a - 1 /\ r[m] = s[a]
  OBVIOUS
<1>2. m - Len(w) + 1 \in 2 .. Len(s) /\ r[m] = s[m - Len(w) + 1]
  BY <1>1 DEF Joins
<1>3. m = Len(w) + (m - Len(w) + 1) - 1
  BY <1>1
<1> QED BY <1>2, <1>3

LEMMA JoinPlaces ==
  ASSUME NEW w, NEW s, NEW r, Joins(w, s, r)
  PROVE  /\ Len(w) \in Nat /\ Len(s) \in Nat /\ Len(r) \in Nat /\ Len(s) > 0
         /\ DOMAIN w = 1 .. Len(w) /\ DOMAIN s = 1 .. Len(s) /\ DOMAIN r = 1 .. Len(r)
         /\ Len(r) = Len(w) + Len(s) - 1
         /\ \A m \in 1 .. Len(w) : m \in 1 .. Len(r) /\ r[m] = w[m]
         /\ \A m \in 1 .. Len(r) : m > Len(w) =>
              \E j \in 2 .. Len(s) : m = Len(w) + j - 1 /\ r[m] = s[j]
         /\ \A j \in 2 .. Len(s) : Len(w) + j - 1 \in 1 .. Len(r) /\ r[Len(w) + j - 1] = s[j]
<1>1. /\ Len(w) \in Nat /\ Len(s) \in Nat /\ Len(r) \in Nat /\ Len(s) > 0
      /\ DOMAIN w = 1 .. Len(w) /\ DOMAIN s = 1 .. Len(s) /\ DOMAIN r = 1 .. Len(r)
      /\ Len(r) = Len(w) + Len(s) - 1
  BY DEF Joins
<1>2. \A m \in 1 .. Len(w) : m \in 1 .. Len(r) /\ r[m] = w[m]
  BY <1>1 DEF Joins
<1>3. \A m \in 1 .. Len(r) : m > Len(w) => \E j \in 2 .. Len(s) : m = Len(w) + j - 1 /\ r[m] = s[j]
  BY JoinsBehind
<1>4. \A j \in 2 .. Len(s) : Len(w) + j - 1 \in 1 .. Len(r) /\ r[Len(w) + j - 1] = s[j]
  BY DEF Joins
<1> QED BY <1>1, <1>2, <1>3, <1>4

-----------------------------------------------------------------------------
(* The structure is kept: the invariant.                                   *)

LeftBrace == "{"
RightBrace == "}"
SemiSign == ";"
Ends(t) == t = SemiSign \/ t = RightBrace

(* The parser passes over the position i on account of a node of this kind *)
(* at this position: behind a leading dot, in the rest of an alias, and    *)
(* where a keyword names a field of an aggregate.                          *)
Passes(p, kind, at, i) ==
  \/ kind \in Named /\ p[at] = "." /\ i = at + 1
  \/ kind = "inherit" /\ InList(p, at, i)
  \/ kind = "field" /\ at = i /\ p[i] \in Keywords
PassesIn(p, task, i) == IsBuild(task) /\ Passes(p, task[2], task[3], i)

(* By the first b nodes and the calls outside the m innermost.             *)
PassedBy(p, tree, b, tasks, m, i) ==
  \/ \E k \in 1 .. b : Passes(p, tree[k].node, tree[k].at, i)
  \/ \E k \in DOMAIN tasks : k > m /\ PassesIn(p, tasks[k], i)
Hidden(p, tree, b, tasks, m) == {i \in 1 .. Len(p) - 1 : PassedBy(p, tree, b, tasks, m, i)}

(* How many braces are open before c, and how many words while have no     *)
(* loop among the first b nodes.                                           *)
Where(p, hid, c, t) == {j \in 1 .. c - 1 : p[j] = t /\ j \notin hid}
Number(p, hid, c, t) == Cardinality(Where(p, hid, c, t))
Depth(p, hid, c) == Number(p, hid, c, LeftBrace) - Number(p, hid, c, RightBrace)
IsLoop(kind) == kind = "while" \/ kind = "do"
IsDoCond(task) == task[1] = "do cond"
IsForInit(task) == task[1] = "for init"
LoopNodes(tree, b) == Cardinality({k \in 1 .. b : IsLoop(tree[k].node)})
Surplus(p, hid, c, tree, b) == Number(p, hid, c, "while") - LoopNodes(tree, b)

(* What a call will close and make: a ledger says for every call how much  *)
(* is due to it and those outside.                                         *)
BraceCost(task) == IF IsExpect(task) /\ task[2] = RightBrace THEN 1 ELSE 0
LoopCost(task) ==
  IF IsBuild(task) /\ IsLoop(task[2]) THEN 1 ELSE IF IsDoCond(task) THEN -1 ELSE 0
Cost(kind, task) == IF kind = "brace" THEN BraceCost(task) ELSE LoopCost(task)
Ledger(kind, z, tasks) ==
  /\ DOMAIN z = 1 .. Len(tasks) + 1
  /\ \A m \in 1 .. Len(tasks) + 1 : z[m] \in Int
  /\ z[Len(tasks) + 1] = 0
  /\ \A m \in 1 .. Len(tasks) : z[m] = z[m + 1] + Cost(kind, tasks[m])

(* The node that a keyword or the name of a declaration becomes, and the   *)
(* call that will make it.                                                 *)
Stands(p, kind, at, i) ==
  \/ p[i] \in StmtKeywords /\ kind = p[i] /\ at = i
  \/ p[i] = "var" /\ kind = "decl" /\ at = i + 1
  \/ p[i] = "name" /\ kind \in {"func", "blueprint"} /\ at = i
IsThen(task) == task[1] = "then"
Declares(task) == task[1] \in {"body", "func returns", "func body"}
StandsIn(p, task, i) ==
  \/ IsBuild(task) /\ Stands(p, task[2], task[3], i)
  \/ IsThen(task) /\ p[i] = "if" /\ task[2] = i
  \/ Declares(task) /\ p[i] = "name" /\ task[2] = i
Stood(p, tree, b, tasks, m, i) ==
  \/ \E k \in 1 .. b : Stands(p, tree[k].node, tree[k].at, i)
  \/ \E k \in DOMAIN tasks : k > m /\ StandsIn(p, tasks[k], i)

(* What becomes one.                                                       *)
Begins(p, hid, i) == p[i] = "name" /\ Depth(p, hid, i) = 0 /\ (i = 1 \/ Ends(p[i - 1]))
Wanted(p, hid, i) ==
  /\ i \notin hid
  /\ p[i] \in StmtKeywords \/ (p[i] = "var" /\ p[i + 1] # SemiSign) \/ Begins(p, hid, i)

(* A for loop has just dropped its var, and wants a semicolon.             *)
Semicolon(task) == IsExpect(task) /\ task[2] = SemiSign
Dropped(p, c, tasks, i) == i = c - 1 /\ p[i] = "var" /\ 1 \in DOMAIN tasks /\ Semicolon(tasks[1])

(* Only an open list of aliases passes over what is to come.               *)
NoneAhead(p, c, hid, tasks) ==
  \A j \in hid : j >= c => 1 \in DOMAIN tasks /\ IsAliases(tasks[1]) /\ \A i \in c .. j : ~Closes(p[i])

(* Calls that may read a name outside of all braces, if it does not begin  *)
(* a declaration; calls that are inside of braces.                         *)
Starter(task) == task[1] \in {"expr", "type", "items", "parents", "func params"}
Inner(task) ==
  task[1] \in {"aliases", "members", "self", "params", "after param", "returns", "method body",
               "anon", "anon field", "stmt", "stmts", "else", "then", "do cond", "for init", "clause"}
Opening(task) == IsExpect(task) /\ OpenParen(task[2])
AtName(p, task) ==
  /\ IsBuild(task) /\ task[2] \in Named => p[task[3]] = "name"
  /\ Declares(task) \/ task[1] = "anon field" => p[task[2]] = "name"
  /\ IsExpect(task) => task[2] # "name" /\ task[2] \notin Keywords /\ task[2] # LeftBrace
Placed(p, tasks) ==
  \A m \in DOMAIN tasks :
    /\ AtName(p, tasks[m])
    /\ m > 1 /\ Starter(tasks[m]) => Opening(tasks[m - 1])
    /\ IsForInit(tasks[m]) => m + 1 \in DOMAIN tasks /\ Semicolon(tasks[m + 1])

(* What a cast finds where it goes back to.                                *)
Resumes(p, c, tree, tasks, x, y, hid, m) ==
  LET saved == tasks[m][2]
      b == tasks[m][3]
  IN /\ saved <= c /\ saved > 1 /\ OpenParen(p[saved - 1])
     /\ \A l \in 1 .. m - 1 : IsCast(tasks[l]) => saved <= tasks[l][2]
     /\ x[m] = Depth(p, hid, saved) /\ y[m] = Surplus(p, hid, saved, tree, b)
     /\ \A j \in 1 .. Len(p) - 1 : PassedBy(p, tree, b, tasks, m, j) <=> j \in hid /\ j < saved
     /\ \A i \in 1 .. saved - 1 : Wanted(p, hid, i) => Stood(p, tree, b, tasks, m, i)

(* The braces (x) and loops (y) that are due to the calls are those that   *)
(* are still to come at c, and what was wanted before c is there.          *)
Whole(p, c, tree, tasks, x, y, hid) ==
  /\ Ledger("brace", x, tasks) /\ Ledger("loop", y, tasks)
  /\ \A m \in 1 .. Len(tasks) + 1 : x[m] >= 0
  /\ x[1] = Depth(p, hid, c) /\ y[1] = Surplus(p, hid, c, tree, Len(tree))
  /\ \A i \in 1 .. c - 1 :
       Wanted(p, hid, i) => Stood(p, tree, Len(tree), tasks, 0, i) \/ Dropped(p, c, tasks, i)
  /\ NoneAhead(p, c, hid, tasks)
  /\ Placed(p, tasks)
  /\ \A m \in DOMAIN tasks : Inner(tasks[m]) => x[m] > 0
  /\ 1 \in DOMAIN tasks /\ Starter(tasks[1]) /\ x[1] = 0 => c > 1 /\ ~Ends(p[c - 1])
  /\ \A m \in DOMAIN tasks : IsCast(tasks[m]) => Resumes(p, c, tree, tasks, x, y, hid, m)

StructureInv ==
  Silent => \E x, y : Whole(tokens, current, nodes, todo, x, y, Hidden(tokens, nodes, Len(nodes), todo, 0))

-----------------------------------------------------------------------------
(* Numbers of tokens and of nodes.                                         *)

LEMMA NumberIsNat ==
  ASSUME NEW p, NEW hid, NEW c \in Nat, NEW t
  PROVE  /\ IsFiniteSet(Where(p, hid, c, t))
         /\ Number(p, hid, c, t) \in Nat
<1>1. IsFiniteSet(1 .. c - 1)
  BY FS_Interval
<1>2. Where(p, hid, c, t) \subseteq 1 .. c - 1
  BY DEF Where
<1>3. IsFiniteSet(Where(p, hid, c, t))
  BY <1>1, <1>2, FS_Subset
<1> QED BY <1>3, FS_CardinalityType DEF Number

(* What is hidden behind a position does not count there. *)
LEMMA NumberSame ==
  ASSUME NEW p, NEW hid, NEW new, NEW c \in Nat, \A j \in 1 .. c - 1 : j \in hid <=> j \in new
  PROVE  \A t, i : i \in 1 .. c => Number(p, new, i, t) = Number(p, hid, i, t)
<1> SUFFICES ASSUME NEW t, NEW i \in 1 .. c
             PROVE  Number(p, new, i, t) = Number(p, hid, i, t)
  OBVIOUS
<1>1. \A j \in 1 .. i - 1 : j \in 1 .. c - 1
  OBVIOUS
<1>2. Where(p, new, i, t) = Where(p, hid, i, t)
  BY <1>1 DEF Where
<1> QED BY <1>2 DEF Number

(* Between two positions that token does not occur. *)
LEMMA NumberStays ==
  ASSUME NEW p, NEW hid, NEW t, NEW c \in Nat, NEW d \in Nat, 1 <= c, c <= d,
         \A j \in c .. d - 1 : p[j] = t => j \in hid
  PROVE  Number(p, hid, d, t) = Number(p, hid, c, t)
<1>1. \A j \in 1 .. d - 1 : j \in 1 .. c - 1 \/ j \in c .. d - 1
  OBVIOUS
<1>2. \A j \in 1 .. c - 1 : j \in 1 .. d - 1
  OBVIOUS
<1>3. Where(p, hid, d, t) = Where(p, hid, c, t)
  BY <1>1, <1>2 DEF Where
<1> QED BY <1>3 DEF Number

(* It occurs at the first of them. *)
LEMMA NumberGrows ==
  ASSUME NEW p, NEW hid, NEW t, NEW c \in Nat, 1 <= c, p[c] = t, c \notin hid
  PROVE  Number(p, hid, c + 1, t) = Number(p, hid, c, t) + 1
<1>1. \A j : j \in 1 .. (c + 1) - 1 <=> j \in 1 .. c - 1 \/ j = c
  OBVIOUS
<1>2. Where(p, hid, c + 1, t) = Where(p, hid, c, t) \cup {c}
  BY <1>1 DEF Where
<1>3. IsFiniteSet(Where(p, hid, c, t)) /\ c \notin Where(p, hid, c, t)
  <2>1. IsFiniteSet(Where(p, hid, c, t))
    BY NumberIsNat
  <2>2. c \notin 1 .. c - 1
    OBVIOUS
  <2> QED BY <2>1, <2>2 DEF Where
<1>4. Cardinality(Where(p, hid, c, t) \cup {c}) = Cardinality(Where(p, hid, c, t)) + 1
  BY <1>3, FS_AddElement
<1> QED BY <1>2, <1>4 DEF Number

(* The same of the loops among the nodes. *)
LEMMA LoopsAreNat ==
  ASSUME NEW tree, NEW b \in Nat
  PROVE  /\ IsFiniteSet({k \in 1 .. b : IsLoop(tree[k].node)})
         /\ LoopNodes(tree, b) \in Nat
<1>1. IsFiniteSet(1 .. b)
  BY FS_Interval
<1>2. {k \in 1 .. b : IsLoop(tree[k].node)} \subseteq 1 .. b
  OBVIOUS
<1>3. IsFiniteSet({k \in 1 .. b : IsLoop(tree[k].node)})
  BY <1>1, <1>2, FS_Subset
<1> QED BY <1>3, FS_CardinalityType DEF LoopNodes

LEMMA LoopsSame ==
  ASSUME NEW tree, NEW more, NEW b \in Nat, \A k \in 1 .. b : more[k] = tree[k]
  PROVE  LoopNodes(more, b) = LoopNodes(tree, b)
<1>1. {k \in 1 .. b : IsLoop(more[k].node)} = {k \in 1 .. b : IsLoop(tree[k].node)}
  OBVIOUS
<1> QED BY <1>1 DEF LoopNodes

LEMMA LoopsStay ==
  ASSUME NEW tree, NEW more, NEW new, Grown(tree, more, new), \A n \in new : ~IsLoop(n.node)
  PROVE  LoopNodes(more, Len(more)) = LoopNodes(tree, Len(tree))
<1>1. {k \in 1 .. Len(more) : IsLoop(more[k].node)} = {k \in 1 .. Len(tree) : IsLoop(tree[k].node)}
  BY DEF Grown
<1> QED BY <1>1 DEF LoopNodes

LEMMA LoopsGrow ==
  ASSUME NEW tree \in Seq(NodeSet), NEW n, IsLoop(n.node)
  PROVE  LoopNodes(Append(tree, n), Len(Append(tree, n))) = LoopNodes(tree, Len(tree)) + 1
<1> DEFINE S == {k \in 1 .. Len(tree) : IsLoop(tree[k].node)}
           more == Append(tree, n)
           l == Len(tree) + 1
<1>1. Len(tree) \in Nat /\ Len(more) = l /\ more[l] = n /\ \A k \in 1 .. Len(tree) : more[k] = tree[k]
  <2> DEFINE T == NodeSet \cup {n}
  <2>1. tree \in Seq(T) /\ n \in T
    OBVIOUS
  <2> HIDE DEF T
  <2> QED BY <2>1
<1> HIDE DEF more
<1>2. \A k : k \in 1 .. l <=> k \in 1 .. Len(tree) \/ k = l
  BY <1>1
<1>3. {k \in 1 .. l : IsLoop(more[k].node)} = S \cup {l}
  BY <1>1, <1>2
<1>4. IsFiniteSet(S) /\ l \notin S
  <2>1. IsFiniteSet(S)
    BY <1>1, LoopsAreNat
  <2>2. l \notin 1 .. Len(tree)
    BY <1>1
  <2> QED BY <2>1, <2>2
<1>5. Cardinality(S \cup {l}) = Cardinality(S) + 1
  BY <1>4, FS_AddElement
<1>6. LoopNodes(more, Len(more)) = LoopNodes(tree, Len(tree)) + 1
  BY <1>1, <1>3, <1>5 DEF LoopNodes
<1> QED BY <1>6 DEF more

-----------------------------------------------------------------------------
(* What a step does to it.                                                 *)

(* What is due to the work of a step, before the rest.                     *)
Due(kind, u, w, rest) ==
  /\ \A m \in 1 .. Len(w) + 1 : u[m] \in Int
  /\ u[Len(w) + 1] = rest
  /\ \A m \in 1 .. Len(w) : u[m] = u[m + 1] + Cost(kind, w[m])
Spliced(u, w, z, r) ==
  [m \in 1 .. Len(r) + 1 |-> IF m <= Len(w) THEN u[m] ELSE z[m - Len(w) + 1]]

LEMMA SplicedPlaces ==
  ASSUME NEW w, NEW s, NEW r, Joins(w, s, r), NEW u, NEW z, u[Len(w) + 1] = z[2]
  PROVE  /\ DOMAIN Spliced(u, w, z, r) = 1 .. Len(r) + 1
         /\ \A m \in 1 .. Len(w) + 1 : m \in 1 .. Len(r) + 1 /\ Spliced(u, w, z, r)[m] = u[m]
         /\ \A l \in 2 .. Len(s) + 1 : /\ Len(w) + l - 1 \in 1 .. Len(r) + 1
                                      /\ Spliced(u, w, z, r)[Len(w) + l - 1] = z[l]
<1>1. Len(w) \in Nat /\ Len(s) \in Nat /\ Len(r) \in Nat /\ Len(s) > 0 /\ Len(r) = Len(w) + Len(s) - 1
  BY JoinPlaces
<1>2. ASSUME NEW m \in 1 .. Len(w) + 1
      PROVE  m \in 1 .. Len(r) + 1 /\ Spliced(u, w, z, r)[m] = u[m]
  <2>1. m \in 1 .. Len(r) + 1
    BY <1>1
  <2>2. CASE m <= Len(w)
    BY <2>1, <2>2 DEF Spliced
  <2>3. CASE ~(m <= Len(w))
    <3>1. m = Len(w) + 1 /\ m - Len(w) + 1 = 2
      BY <1>1, <2>3
    <3> QED BY <2>1, <2>3, <3>1 DEF Spliced
  <2> QED BY <2>1, <2>2, <2>3
<1>3. ASSUME NEW l \in 2 .. Len(s) + 1
      PROVE  Len(w) + l - 1 \in 1 .. Len(r) + 1 /\ Spliced(u, w, z, r)[Len(w) + l - 1] = z[l]
  <2>1. /\ Len(w) + l - 1 \in 1 .. Len(r) + 1 /\ ~(Len(w) + l - 1 <= Len(w))
        /\ (Len(w) + l - 1) - Len(w) + 1 = l
    BY <1>1
  <2> QED BY <2>1 DEF Spliced
<1> QED BY <1>2, <1>3 DEF Spliced

LEMMA SplicedWork ==
  ASSUME NEW w, NEW s, NEW r, Joins(w, s, r), NEW u, NEW z, u[Len(w) + 1] = z[2]
  PROVE  \A m \in 1 .. Len(w) + 1 : m \in 1 .. Len(r) + 1 /\ Spliced(u, w, z, r)[m] = u[m]
BY ONLY Joins(w, s, r), u[Len(w) + 1] = z[2], SplicedPlaces

LEMMA SplicedRest ==
  ASSUME NEW w, NEW s, NEW r, Joins(w, s, r), NEW u, NEW z, u[Len(w) + 1] = z[2]
  PROVE  \A l \in 2 .. Len(s) + 1 : Spliced(u, w, z, r)[Len(w) + l - 1] = z[l]
BY ONLY Joins(w, s, r), u[Len(w) + 1] = z[2], SplicedPlaces

LEMMA LedgerAfter ==
  ASSUME NEW w, NEW s, NEW r, Joins(w, s, r), NEW kind, NEW z, Ledger(kind, z, s),
         NEW u, Due(kind, u, w, z[2])
  PROVE  Ledger(kind, Spliced(u, w, z, r), r)
<1> DEFINE v == Spliced(u, w, z, r)
<1>1. Len(w) \in Nat /\ Len(s) \in Nat /\ Len(r) \in Nat /\ Len(s) > 0 /\ Len(r) = Len(w) + Len(s) - 1
  BY JoinPlaces
<1>2. /\ DOMAIN v = 1 .. Len(r) + 1 /\ \A m \in 1 .. Len(w) + 1 : v[m] = u[m]
      /\ \A l \in 2 .. Len(s) + 1 : v[Len(w) + l - 1] = z[l]
  BY SplicedPlaces DEF Due
<1>a. \A m \in 1 .. Len(w) : r[m] = w[m]
  BY ONLY Joins(w, s, r), Zenon DEF Joins
<1>b. \A a \in 2 .. Len(s) : Len(w) + a - 1 \in 1 .. Len(r) /\ r[Len(w) + a - 1] = s[a]
  BY ONLY Joins(w, s, r), Zenon DEF Joins
<1> HIDE DEF v
<1>3. ASSUME NEW m \in 1 .. Len(r) + 1, m > Len(w)
      PROVE  m - Len(w) + 1 \in 2 .. Len(s) + 1 /\ v[m] = z[m - Len(w) + 1]
  <2>1. m - Len(w) + 1 \in 2 .. Len(s) + 1 /\ Len(w) + (m - Len(w) + 1) - 1 = m
    BY <1>1, <1>3
  <2> QED BY <1>2, <2>1
<1>4. \A m \in 1 .. Len(r) + 1 : v[m] \in Int
  <2> SUFFICES ASSUME NEW m \in 1 .. Len(r) + 1 PROVE v[m] \in Int
    OBVIOUS
  <2>1. CASE m <= Len(w)
    <3>1. m \in 1 .. Len(w) + 1
      BY <1>1, <2>1
    <3> QED BY <1>2, <3>1 DEF Due
  <2>2. CASE m > Len(w)
    <3>1. m - Len(w) + 1 \in 1 .. Len(s) + 1
      BY <1>1, <2>2
    <3> QED BY <1>3, <2>2, <3>1 DEF Ledger
  <2> QED BY <1>1, <2>1, <2>2
<1>5. v[Len(r) + 1] = 0
  <2>1. Len(r) + 1 \in 1 .. Len(r) + 1 /\ Len(r) + 1 > Len(w) /\ Len(r) + 1 - Len(w) + 1 = Len(s) + 1
    BY <1>1
  <2> QED BY <1>3, <2>1 DEF Ledger
<1>6. \A m \in 1 .. Len(r) : v[m] = v[m + 1] + Cost(kind, r[m])
  <2> SUFFICES ASSUME NEW m \in 1 .. Len(r) PROVE v[m] = v[m + 1] + Cost(kind, r[m])
    OBVIOUS
  <2>1. CASE m <= Len(w)
    <3>1. m \in 1 .. Len(w) /\ m \in 1 .. Len(w) + 1 /\ m + 1 \in 1 .. Len(w) + 1
      BY <1>1, <2>1
    <3> QED BY <1>2, <1>a, <3>1 DEF Due
  <2>2. CASE m > Len(w)
    <3>1. PICK a : a = m - Len(w) + 1
      OBVIOUS
    <3>2. /\ a \in 2 .. Len(s) /\ a \in 1 .. Len(s) /\ Len(w) + a - 1 = m
          /\ a \in 2 .. Len(s) + 1 /\ a + 1 \in 2 .. Len(s) + 1 /\ Len(w) + (a + 1) - 1 = m + 1
      BY <1>1, <2>2, <3>1
    <3>3. v[m] = z[a] /\ v[m + 1] = z[a + 1] /\ r[m] = s[a]
      BY <1>2, <1>b, <3>2
    <3> QED BY <3>2, <3>3 DEF Ledger
  <2> QED BY <1>1, <2>1, <2>2
<1>7. Ledger(kind, v, r)
  BY <1>2, <1>4, <1>5, <1>6 DEF Ledger
<1> QED BY <1>7 DEF v

(* What is passed over before c does not change: what the innermost call   *)
(* and the nodes account for, the work and the new nodes do.               *)
HandsHiding(p, c, s, w, new) ==
  /\ \A i : PassesIn(p, s[1], i) =>
       (\E n \in new : Passes(p, n.node, n.at, i)) \/ \E k \in 1 .. Len(w) : PassesIn(p, w[k], i)
  /\ \A i \in Int :
       i < c /\ ((\E n \in new : Passes(p, n.node, n.at, i)) \/ \E k \in 1 .. Len(w) : PassesIn(p, w[k], i))
           => PassesIn(p, s[1], i)

LEMMA PassedAfter ==
  ASSUME NEW p, NEW w, NEW s, NEW r, Joins(w, s, r), NEW tree, NEW more, NEW new, Grown(tree, more, new)
  PROVE  \A m \in 2 .. Len(s), b \in 0 .. Len(tree) : \A i :
           PassedBy(p, more, b, r, Len(w) + m - 1, i) <=> PassedBy(p, tree, b, s, m, i)
<1> SUFFICES ASSUME NEW m \in 2 .. Len(s), NEW b \in 0 .. Len(tree), NEW i
             PROVE  PassedBy(p, more, b, r, Len(w) + m - 1, i) <=> PassedBy(p, tree, b, s, m, i)
  OBVIOUS
<1>1. \A k \in 1 .. b : more[k] = tree[k]
  BY DEF Grown
<1>2. /\ Len(w) \in Nat /\ Len(s) \in Nat /\ Len(r) \in Nat /\ Len(r) = Len(w) + Len(s) - 1
      /\ DOMAIN s = 1 .. Len(s) /\ DOMAIN r = 1 .. Len(r)
  BY JoinPlaces
<1>b. \A a \in 2 .. Len(s) : Len(w) + a - 1 \in 1 .. Len(r) /\ r[Len(w) + a - 1] = s[a]
  BY ONLY Joins(w, s, r), Zenon DEF Joins
<1>3. ASSUME NEW k \in DOMAIN s, k > m, PassesIn(p, s[k], i)
      PROVE  \E l \in DOMAIN r : l > Len(w) + m - 1 /\ PassesIn(p, r[l], i)
  <2>1. k \in 2 .. Len(s) /\ Len(w) + k - 1 > Len(w) + m - 1
    BY <1>2, <1>3
  <2> QED BY <1>2, <1>3, <1>b, <2>1
<1>4. ASSUME NEW l \in DOMAIN r, l > Len(w) + m - 1, PassesIn(p, r[l], i)
      PROVE  \E k \in DOMAIN s : k > m /\ PassesIn(p, s[k], i)
  <2>1. PICK k : k = l - Len(w) + 1
    OBVIOUS
  <2>2. k \in 2 .. Len(s) /\ k \in DOMAIN s /\ k > m /\ Len(w) + k - 1 = l
    BY <1>2, <1>4, <2>1
  <2> QED BY <1>4, <1>b, <2>2
<1> QED BY <1>1, <1>3, <1>4 DEF PassedBy

LEMMA HiddenAfter ==
  ASSUME NEW p, NEW c \in Nat, NEW w, NEW s, NEW r, Joins(w, s, r), NEW tree, NEW more, NEW new,
         Grown(tree, more, new), HandsHiding(p, c, s, w, new), NEW i \in Int, i < c
  PROVE  PassedBy(p, more, Len(more), r, 0, i) <=> PassedBy(p, tree, Len(tree), s, 0, i)
<1>2. /\ Len(w) \in Nat /\ Len(s) \in Nat /\ Len(r) \in Nat /\ Len(r) = Len(w) + Len(s) - 1
      /\ DOMAIN s = 1 .. Len(s) /\ DOMAIN r = 1 .. Len(r) /\ Len(s) > 0
  BY JoinPlaces
<1>a. \A k \in 1 .. Len(w) : r[k] = w[k]
  BY ONLY Joins(w, s, r), Zenon DEF Joins
<1>b. \A a \in 2 .. Len(s) : Len(w) + a - 1 \in 1 .. Len(r) /\ r[Len(w) + a - 1] = s[a]
  BY ONLY Joins(w, s, r), Zenon DEF Joins
<1>c. \A l \in 1 .. Len(r) : l > Len(w) => \E a \in 2 .. Len(s) : l = Len(w) + a - 1 /\ r[l] = s[a]
  BY ONLY Joins(w, s, r), JoinsBehind
<1>d. \A k \in 1 .. Len(w) : k \in 1 .. Len(r)
  BY <1>2
<1>3. ASSUME PassedBy(p, tree, Len(tree), s, 0, i) PROVE PassedBy(p, more, Len(more), r, 0, i)
  <2>1. CASE \E k \in 1 .. Len(tree) : Passes(p, tree[k].node, tree[k].at, i)
    <3>1. PICK k \in 1 .. Len(tree) : Passes(p, tree[k].node, tree[k].at, i)
      BY <2>1
    <3>2. k \in 1 .. Len(more) /\ more[k] = tree[k]
      BY DEF Grown
    <3>3. Passes(p, more[k].node, more[k].at, i)
      BY <3>1, <3>2
    <3> QED BY <3>2, <3>3 DEF PassedBy
  <2>2. CASE \E k \in DOMAIN s : k > 0 /\ PassesIn(p, s[k], i)
    <3>1. PICK k \in 1 .. Len(s) : PassesIn(p, s[k], i)
      BY <1>2, <2>2
    <3>2. CASE k = 1
      <4>1. (\E n \in new : Passes(p, n.node, n.at, i)) \/ \E l \in 1 .. Len(w) : PassesIn(p, w[l], i)
        BY <3>1, <3>2 DEF HandsHiding
      <4>2. ASSUME NEW n \in new, Passes(p, n.node, n.at, i) PROVE PassedBy(p, more, Len(more), r, 0, i)
        <5>1. PICK l \in 1 .. Len(more) : more[l] = n
          BY DEF Grown
        <5>2. Passes(p, more[l].node, more[l].at, i)
          BY <4>2, <5>1
        <5> QED BY <5>2 DEF PassedBy
      <4>3. ASSUME NEW l \in 1 .. Len(w), PassesIn(p, w[l], i) PROVE PassedBy(p, more, Len(more), r, 0, i)
        <5>1. l \in DOMAIN r /\ l > 0 /\ PassesIn(p, r[l], i)
          BY <1>2, <1>a, <1>d, <4>3
        <5> QED BY <5>1 DEF PassedBy
      <4> QED BY <4>1, <4>2, <4>3
    <3>3. CASE k # 1
      <4>1. k \in 2 .. Len(s)
        BY <1>2, <3>3
      <4>2. Len(w) + k - 1 \in DOMAIN r /\ Len(w) + k - 1 > 0 /\ PassesIn(p, r[Len(w) + k - 1], i)
        BY <1>2, <1>b, <3>1, <4>1
      <4> QED BY <4>2 DEF PassedBy
    <3> QED BY <3>2, <3>3
  <2> QED BY <1>3, <2>1, <2>2 DEF PassedBy
<1>4. ASSUME PassedBy(p, more, Len(more), r, 0, i) PROVE PassedBy(p, tree, Len(tree), s, 0, i)
  <2>0. ASSUME PassesIn(p, s[1], i) PROVE PassedBy(p, tree, Len(tree), s, 0, i)
    <3>1. 1 \in DOMAIN s /\ 1 > 0
      BY <1>2
    <3> QED BY <2>0, <3>1 DEF PassedBy
  <2>1. CASE \E k \in 1 .. Len(more) : Passes(p, more[k].node, more[k].at, i)
    <3>1. PICK k \in 1 .. Len(more) : Passes(p, more[k].node, more[k].at, i)
      BY <2>1
    <3>2. CASE k \in 1 .. Len(tree)
      <4>1. Passes(p, tree[k].node, tree[k].at, i)
        BY <3>1, <3>2 DEF Grown
      <4> QED BY <3>2, <4>1 DEF PassedBy
    <3>3. CASE more[k] \in new
      <4>1. PICK n \in new : n = more[k]
        BY <3>3
      <4>2. Passes(p, n.node, n.at, i)
        BY <3>1, <4>1
      <4> QED BY <2>0, <4>1, <4>2 DEF HandsHiding
    <3> QED BY <3>1, <3>2, <3>3 DEF Grown
  <2>2. CASE \E l \in DOMAIN r : l > 0 /\ PassesIn(p, r[l], i)
    <3>1. PICK l \in 1 .. Len(r) : PassesIn(p, r[l], i)
      BY <1>2, <2>2
    <3>2. CASE l \in 1 .. Len(w)
      <4>1. PassesIn(p, w[l], i)
        BY <1>a, <3>1, <3>2
      <4> QED BY <2>0, <3>2, <4>1 DEF HandsHiding
    <3>3. CASE l \notin 1 .. Len(w)
      <4>1. l > Len(w)
        BY <1>2, <3>3
      <4>2. PICK a \in 2 .. Len(s) : r[l] = s[a]
        BY <1>c, <4>1
      <4>3. a \in DOMAIN s /\ a > 0 /\ PassesIn(p, s[a], i)
        BY <1>2, <3>1, <4>2
      <4> QED BY <4>3 DEF PassedBy
    <3> QED BY <3>2, <3>3
  <2> QED BY <1>4, <2>1, <2>2 DEF PassedBy
<1> QED BY <1>3, <1>4

(* What stands for a keyword or a declaration still does.                  *)
HandsStanding(p, c, s, w, new) ==
  \A i : i < c /\ StandsIn(p, s[1], i) =>
    (\E n \in new : Stands(p, n.node, n.at, i)) \/ \E k \in 1 .. Len(w) : StandsIn(p, w[k], i)

LEMMA StoodAround ==
  ASSUME NEW p, NEW w, NEW s, NEW r, Joins(w, s, r), NEW tree, NEW more, NEW new, Grown(tree, more, new),
         NEW m \in 1 .. Len(s), NEW b \in 0 .. Len(tree), NEW i, Stood(p, tree, b, s, m, i)
  PROVE  Stood(p, more, b, r, Len(w) + m - 1, i)
<1>1. CASE \E k \in 1 .. b : Stands(p, tree[k].node, tree[k].at, i)
  <2>1. PICK k \in 1 .. b : Stands(p, tree[k].node, tree[k].at, i)
    BY <1>1
  <2>2. more[k] = tree[k]
    BY DEF Grown
  <2>3. Stands(p, more[k].node, more[k].at, i)
    BY <2>1, <2>2
  <2> QED BY <2>3 DEF Stood
<1>2. CASE \E k \in DOMAIN s : k > m /\ StandsIn(p, s[k], i)
  <2>0. Len(w) \in Nat /\ Len(s) \in Nat /\ DOMAIN s = 1 .. Len(s) /\ DOMAIN r = 1 .. Len(r)
    BY JoinPlaces
  <2>1. PICK k \in DOMAIN s : k > m /\ StandsIn(p, s[k], i)
    BY <1>2
  <2>2. k \in 2 .. Len(s) /\ Len(w) + k - 1 > Len(w) + m - 1
    BY <2>0, <2>1
  <2>3. Len(w) + k - 1 \in 1 .. Len(r) /\ r[Len(w) + k - 1] = s[k]
    BY ONLY Joins(w, s, r), <2>2, JoinPlaces
  <2> QED BY <2>0, <2>1, <2>2, <2>3 DEF Stood
<1> QED BY <1>1, <1>2 DEF Stood

LEMMA StoodAfter ==
  ASSUME NEW p, NEW w, NEW s, NEW r, Joins(w, s, r), NEW tree, NEW more, NEW new, Grown(tree, more, new),
         NEW c, HandsStanding(p, c, s, w, new), NEW i,
         \/ Stood(p, tree, Len(tree), s, 0, i) /\ i < c
         \/ \E n \in new : Stands(p, n.node, n.at, i)
         \/ \E k \in 1 .. Len(w) : StandsIn(p, w[k], i)
  PROVE  Stood(p, more, Len(more), r, 0, i)
<1>0. /\ Len(w) \in Nat /\ Len(s) \in Nat /\ DOMAIN s = 1 .. Len(s) /\ DOMAIN r = 1 .. Len(r)
      /\ Len(s) > 0 /\ Len(r) = Len(w) + Len(s) - 1
  BY JoinPlaces
<1>1. ASSUME NEW n \in new, Stands(p, n.node, n.at, i) PROVE Stood(p, more, Len(more), r, 0, i)
  <2>1. PICK l \in 1 .. Len(more) : more[l] = n
    BY DEF Grown
  <2>2. Stands(p, more[l].node, more[l].at, i)
    BY <1>1, <2>1
  <2> QED BY <2>2 DEF Stood
<1>2. ASSUME NEW k \in 1 .. Len(w), StandsIn(p, w[k], i) PROVE Stood(p, more, Len(more), r, 0, i)
  <2>1. k \in DOMAIN r /\ k > 0
    BY <1>0
  <2>2. r[k] = w[k]
    BY ONLY Joins(w, s, r), k \in 1 .. Len(w), JoinPlaces
  <2> QED BY <1>2, <2>1, <2>2 DEF Stood
<1>3. ASSUME Stood(p, tree, Len(tree), s, 0, i), i < c PROVE Stood(p, more, Len(more), r, 0, i)
  <2>1. CASE \E k \in 1 .. Len(tree) : Stands(p, tree[k].node, tree[k].at, i)
    <3>1. PICK k \in 1 .. Len(tree) : Stands(p, tree[k].node, tree[k].at, i)
      BY <2>1
    <3>2. k \in 1 .. Len(more) /\ more[k] = tree[k]
      BY DEF Grown
    <3>3. Stands(p, more[k].node, more[k].at, i)
      BY <3>1, <3>2
    <3> QED BY <3>2, <3>3 DEF Stood
  <2>2. CASE StandsIn(p, s[1], i)
    BY <1>1, <1>2, <1>3, <2>2 DEF HandsStanding
  <2>3. ASSUME NEW k \in DOMAIN s, k > 0, k # 1, StandsIn(p, s[k], i)
        PROVE  Stood(p, more, Len(more), r, 0, i)
    <3>1. k \in 2 .. Len(s)
      BY <1>0, <2>3
    <3>2. Len(w) + k - 1 \in 1 .. Len(r) /\ r[Len(w) + k - 1] = s[k]
      BY ONLY Joins(w, s, r), <3>1, JoinPlaces
    <3>3. Len(w) + k - 1 \in DOMAIN r /\ Len(w) + k - 1 > 0
      BY <1>0, <3>1, <3>2
    <3> QED BY <2>3, <3>2, <3>3 DEF Stood
  <2> QED BY <1>3, <2>1, <2>2, <2>3 DEF Stood
<1> QED BY <1>1, <1>2, <1>3

-----------------------------------------------------------------------------
(* The parts of the invariant after a step.                                *)

(* Hidden positions agree before c. *)
Agree(hid, new, c) == \A j \in 1 .. c - 1 : j \in hid <=> j \in new

LEMMA AgreeFacts ==
  ASSUME NEW p, NEW G, NEW H, NEW c \in Nat, Agree(G, H, c)
  PROVE  /\ \A i \in 1 .. c : Depth(p, H, i) = Depth(p, G, i)
         /\ \A i \in 1 .. c - 1 : Wanted(p, H, i) => Wanted(p, G, i)
<1>1. \A t, i : i \in 1 .. c => Number(p, H, i, t) = Number(p, G, i, t)
  BY NumberSame DEF Agree
<1>2. \A i \in 1 .. c : Depth(p, H, i) = Depth(p, G, i)
  BY <1>1 DEF Depth
<1>4. ASSUME NEW i \in 1 .. c - 1, Wanted(p, H, i) PROVE Wanted(p, G, i)
  <2>1. i \in 1 .. c
    OBVIOUS
  <2>2. Depth(p, H, i) = Depth(p, G, i) /\ (i \in G <=> i \in H)
    BY <1>2, <2>1 DEF Agree
  <2> QED BY <1>4, <2>2, Zenon DEF Wanted, Begins
<1> QED BY <1>2, <1>4

LEMMA SurplusAgrees ==
  ASSUME NEW p, NEW G, NEW H, NEW c \in Nat, Agree(G, H, c), NEW i \in 1 .. c, NEW tree, NEW b
  PROVE  Surplus(p, H, i, tree, b) = Surplus(p, G, i, tree, b)
<1>1. Number(p, H, i, "while") = Number(p, G, i, "while")
  BY NumberSame DEF Agree
<1> QED BY <1>1 DEF Surplus

(* Of a step that reads from c to d, does this work and adds these nodes.  *)
Standing(p, w, new, i) ==
  (\E n \in new : Stands(p, n.node, n.at, i)) \/ \E k \in 1 .. Len(w) : StandsIn(p, w[k], i)
Recorded(p, d, r, w, new, i) == Standing(p, w, new, i) \/ Dropped(p, d, r, i)

(* What is wanted stands.                                                  *)
WantedStand(p, c, tree, tasks, hid) ==
  \A i \in 1 .. c - 1 :
    Wanted(p, hid, i) => Stood(p, tree, Len(tree), tasks, 0, i) \/ Dropped(p, c, tasks, i)

LEMMA WantedAfter ==
  ASSUME NEW p, NEW c \in Nat, NEW d \in Nat, NEW w, NEW s, NEW r, Joins(w, s, r),
         NEW tree, NEW more, NEW new, Grown(tree, more, new), NEW G, NEW H, Agree(G, H, c),
         WantedStand(p, c, tree, s, G), HandsStanding(p, c, s, w, new),
         Semicolon(s[1]) => p[c] = SemiSign,
         \A i \in c .. d - 1 : Wanted(p, H, i) => Recorded(p, d, r, w, new, i)
  PROVE  WantedStand(p, d, more, r, H)
<1> SUFFICES ASSUME NEW i \in 1 .. d - 1, Wanted(p, H, i)
             PROVE  Stood(p, more, Len(more), r, 0, i) \/ Dropped(p, d, r, i)
  BY DEF WantedStand
<1>1. CASE i < c
  <2>1. i \in 1 .. c - 1 /\ Wanted(p, G, i)
    BY <1>1, AgreeFacts
  <2>2. ~Dropped(p, c, s, i)
    <3> SUFFICES ASSUME Dropped(p, c, s, i) PROVE FALSE
      OBVIOUS
    <3>1. i + 1 = c /\ p[i] = "var" /\ Semicolon(s[1])
      BY DEF Dropped
    <3>2. p[i + 1] = SemiSign
      BY <3>1
    <3>3. p[i] \notin StmtKeywords /\ p[i] # "name"
      BY <3>1 DEF StmtKeywords
    <3> QED BY <2>1, <3>1, <3>2, <3>3 DEF Wanted, Begins
  <2>3. Stood(p, tree, Len(tree), s, 0, i)
    BY <2>1, <2>2 DEF WantedStand
  <2> QED BY ONLY Joins(w, s, r), Grown(tree, more, new), HandsStanding(p, c, s, w, new), <1>1, <2>3, StoodAfter
<1>2. CASE c <= i
  <2>1. i \in c .. d - 1
    BY <1>2
  <2>2. Recorded(p, d, r, w, new, i)
    BY <2>1
  <2>3. CASE Dropped(p, d, r, i)
    BY <2>3
  <2>4. CASE (\E n \in new : Stands(p, n.node, n.at, i)) \/ (\E k \in 1 .. Len(w) : StandsIn(p, w[k], i))
    BY ONLY Joins(w, s, r), Grown(tree, more, new), HandsStanding(p, c, s, w, new), <2>4, StoodAfter
  <2> QED BY <2>2, <2>3, <2>4, Zenon DEF Recorded, Standing
<1> QED BY <1>1, <1>2

(* The work comes after a call that lets it.                               *)
LEMMA PlacedAfter ==
  ASSUME NEW p, NEW w, NEW s, NEW r, Joins(w, s, r), Placed(p, s), Placed(p, w),
         Len(w) > 0 => ~Opening(s[1])
  PROVE  Placed(p, r)
<1>1. /\ Len(w) \in Nat /\ Len(s) \in Nat /\ Len(r) \in Nat /\ Len(s) > 0 /\ Len(r) = Len(w) + Len(s) - 1
      /\ DOMAIN w = 1 .. Len(w) /\ DOMAIN s = 1 .. Len(s) /\ DOMAIN r = 1 .. Len(r)
  BY JoinPlaces
<1>a. \A m \in 1 .. Len(w) : r[m] = w[m]
  BY ONLY Joins(w, s, r), Zenon DEF Joins
<1>b. \A a \in 2 .. Len(s) : Len(w) + a - 1 \in 1 .. Len(r) /\ r[Len(w) + a - 1] = s[a]
  BY ONLY Joins(w, s, r), Zenon DEF Joins
<1>c. \A m \in 1 .. Len(r) : m > Len(w) => \E a \in 2 .. Len(s) : m = Len(w) + a - 1 /\ r[m] = s[a]
  BY ONLY Joins(w, s, r), JoinsBehind
<1>2. ASSUME NEW m \in 1 .. Len(w)
      PROVE  /\ AtName(p, r[m]) /\ (m > 1 /\ Starter(r[m]) => Opening(r[m - 1]))
             /\ IsForInit(r[m]) => m + 1 \in DOMAIN r /\ Semicolon(r[m + 1])
  <2>1. r[m] = w[m] /\ (m > 1 => m - 1 \in 1 .. Len(w))
    BY <1>1, <1>a
  <2>2. /\ AtName(p, w[m]) /\ (m > 1 /\ Starter(w[m]) => Opening(w[m - 1]))
        /\ IsForInit(w[m]) => m + 1 \in DOMAIN w /\ Semicolon(w[m + 1])
    BY <1>1 DEF Placed
  <2>3. m > 1 => r[m - 1] = w[m - 1]
    BY <1>a, <2>1
  <2>4. m + 1 \in DOMAIN w => m + 1 \in DOMAIN r /\ r[m + 1] = w[m + 1]
    BY <1>1, <1>a
  <2> QED BY <2>1, <2>2, <2>3, <2>4
<1>3. ASSUME NEW m \in 1 .. Len(r), m > Len(w)
      PROVE  /\ AtName(p, r[m]) /\ (m > 1 /\ Starter(r[m]) => Opening(r[m - 1]))
             /\ IsForInit(r[m]) => m + 1 \in DOMAIN r /\ Semicolon(r[m + 1])
  <2>1. PICK a \in 2 .. Len(s) : m = Len(w) + a - 1 /\ r[m] = s[a]
    BY <1>3, <1>c
  <2>2. a \in DOMAIN s /\ a > 1
    BY <1>1
  <2>3. /\ AtName(p, s[a]) /\ (Starter(s[a]) => Opening(s[a - 1]))
        /\ IsForInit(s[a]) => a + 1 \in DOMAIN s /\ Semicolon(s[a + 1])
    BY <2>2 DEF Placed
  <2>4. m > 1 /\ Starter(r[m]) => Opening(r[m - 1])
    <3> SUFFICES ASSUME m > 1, Starter(r[m]) PROVE Opening(r[m - 1])
      OBVIOUS
    <3>1. Opening(s[a - 1])
      BY <2>1, <2>3
    <3>2. CASE a = 2
      <4>1. a - 1 = 1 /\ Len(w) = 0
        BY <1>1, <3>1, <3>2
      <4> QED BY <2>1, <3>2, <4>1
    <3>3. CASE a # 2
      <4>1. a - 1 \in 2 .. Len(s) /\ Len(w) + (a - 1) - 1 = m - 1
        BY <1>1, <2>1, <3>3
      <4>2. r[m - 1] = s[a - 1]
        BY <1>b, <4>1
      <4> QED BY <3>1, <4>2
    <3> QED BY <3>2, <3>3
  <2>5. IsForInit(r[m]) => m + 1 \in DOMAIN r /\ Semicolon(r[m + 1])
    <3> SUFFICES ASSUME IsForInit(r[m]) PROVE m + 1 \in DOMAIN r /\ Semicolon(r[m + 1])
      OBVIOUS
    <3>1. a + 1 \in DOMAIN s /\ Semicolon(s[a + 1])
      BY <2>1, <2>3
    <3>2. a + 1 \in 2 .. Len(s) /\ Len(w) + (a + 1) - 1 = m + 1
      BY <1>1, <2>1, <3>1
    <3>3. m + 1 \in 1 .. Len(r) /\ r[m + 1] = s[a + 1]
      BY <1>b, <3>2
    <3> QED BY <1>1, <3>1, <3>3
  <2> QED BY <2>1, <2>3, <2>4, <2>5
<1> SUFFICES ASSUME NEW m \in DOMAIN r
             PROVE  /\ AtName(p, r[m]) /\ (m > 1 /\ Starter(r[m]) => Opening(r[m - 1]))
                    /\ IsForInit(r[m]) => m + 1 \in DOMAIN r /\ Semicolon(r[m + 1])
  BY Zenon DEF Placed
<1>4. m \in 1 .. Len(r) /\ (m \in 1 .. Len(w) \/ m > Len(w))
  BY <1>1
<1> QED BY <1>2, <1>3, <1>4

(* Calls inside of braces stay there. *)
LEMMA InnerAfter ==
  ASSUME NEW w, NEW s, NEW r, Joins(w, s, r), NEW u, NEW x, u[Len(w) + 1] = x[2],
         \A m \in DOMAIN s : Inner(s[m]) => x[m] > 0,
         \A m \in 1 .. Len(w) : Inner(w[m]) => u[m] > 0
  PROVE  \A m \in DOMAIN r : Inner(r[m]) => Spliced(u, w, x, r)[m] > 0
<1>1. /\ Len(w) \in Nat /\ Len(s) \in Nat /\ Len(s) > 0
      /\ DOMAIN s = 1 .. Len(s) /\ DOMAIN r = 1 .. Len(r)
  BY JoinPlaces
<1>2. /\ \A m \in 1 .. Len(w) + 1 : Spliced(u, w, x, r)[m] = u[m]
      /\ \A l \in 2 .. Len(s) + 1 : Spliced(u, w, x, r)[Len(w) + l - 1] = x[l]
  <2>1. \A m \in 1 .. Len(w) + 1 : Spliced(u, w, x, r)[m] = u[m]
    BY ONLY Joins(w, s, r), u[Len(w) + 1] = x[2], SplicedWork
  <2>2. \A l \in 2 .. Len(s) + 1 : Spliced(u, w, x, r)[Len(w) + l - 1] = x[l]
    BY ONLY Joins(w, s, r), u[Len(w) + 1] = x[2], SplicedRest
  <2> QED BY ONLY <2>1, <2>2
<1>a. \A m \in 1 .. Len(w) : r[m] = w[m]
  BY ONLY Joins(w, s, r), Zenon DEF Joins
<1>c. \A m \in 1 .. Len(r) : m > Len(w) => \E a \in 2 .. Len(s) : m = Len(w) + a - 1 /\ r[m] = s[a]
  BY ONLY Joins(w, s, r), JoinsBehind
<1> SUFFICES ASSUME NEW m \in 1 .. Len(r), Inner(r[m])
             PROVE  Spliced(u, w, x, r)[m] > 0
  BY <1>1
<1>3. CASE m \in 1 .. Len(w)
  <2>1. m \in 1 .. Len(w) + 1
    BY <1>1, <1>3
  <2> QED BY <1>2, <1>3, <1>a, <2>1
<1>4. CASE m \notin 1 .. Len(w)
  <2>1. m > Len(w)
    BY <1>1, <1>4
  <2>2. PICK a \in 2 .. Len(s) : m = Len(w) + a - 1 /\ r[m] = s[a]
    BY <1>c, <2>1
  <2>3. a \in DOMAIN s /\ a \in 2 .. Len(s) + 1
    BY <1>1
  <2>4. x[a] > 0 /\ Spliced(u, w, x, r)[m] = x[a]
    BY <1>2, <2>2, <2>3
  <2> QED BY <2>4
<1> QED BY <1>3, <1>4

(* A cast around finds the same. *)
LEMMA OldCasts ==
  ASSUME NEW p, NEW c \in Nat, NEW d \in Nat, c <= d, NEW w, NEW s, NEW r, Joins(w, s, r),
         NEW tree, NEW more, NEW new, Grown(tree, more, new), NEW G, NEW H, Agree(G, H, c),
         NEW u, NEW v, NEW x, NEW y, u[Len(w) + 1] = x[2], v[Len(w) + 1] = y[2],
         \A m \in 1 .. Len(w) : IsCast(w[m]) => w[m][2] = d,
         NEW a \in 2 .. Len(s), Resumes(p, c, tree, s, x, y, G, a),
         s[a][2] \in Nat, s[a][3] \in 0 .. Len(tree)
  PROVE  Resumes(p, d, more, r, Spliced(u, w, x, r), Spliced(v, w, y, r), H, Len(w) + a - 1)
<1> DEFINE m == Len(w) + a - 1
           saved == s[a][2]
           b == s[a][3]
<1>1. /\ Len(w) \in Nat /\ Len(s) \in Nat /\ Len(s) > 0 /\ Len(r) = Len(w) + Len(s) - 1
      /\ DOMAIN s = 1 .. Len(s) /\ DOMAIN r = 1 .. Len(r)
  BY JoinPlaces
<1>a. \A l \in 1 .. Len(w) : r[l] = w[l]
  BY ONLY Joins(w, s, r), Zenon DEF Joins
<1>b. \A l \in 2 .. Len(s) : Len(w) + l - 1 \in 1 .. Len(r) /\ r[Len(w) + l - 1] = s[l]
  BY ONLY Joins(w, s, r), Zenon DEF Joins
<1>c. \A l \in 1 .. Len(r) : l > Len(w) => \E k \in 2 .. Len(s) : l = Len(w) + k - 1 /\ r[l] = s[k]
  BY ONLY Joins(w, s, r), JoinsBehind
<1>2. m \in 1 .. Len(r) /\ r[m] = s[a]
  BY <1>b
<1>3. /\ saved <= c /\ saved > 1 /\ OpenParen(p[saved - 1])
      /\ \A l \in 1 .. a - 1 : IsCast(s[l]) => saved <= s[l][2]
      /\ x[a] = Depth(p, G, saved) /\ y[a] = Surplus(p, G, saved, tree, b)
      /\ \A j \in 1 .. Len(p) - 1 : PassedBy(p, tree, b, s, a, j) <=> j \in G /\ j < saved
      /\ \A i \in 1 .. saved - 1 : Wanted(p, G, i) => Stood(p, tree, b, s, a, i)
  BY DEF Resumes
<1>4. saved \in 1 .. c /\ saved \in Nat /\ b \in 0 .. Len(tree) /\ saved <= d
  BY <1>3
<1>5. Spliced(u, w, x, r)[m] = x[a] /\ Spliced(v, w, y, r)[m] = y[a]
  <2>1. a \in 2 .. Len(s) + 1
    BY <1>1
  <2>2. \A l \in 2 .. Len(s) + 1 : Spliced(u, w, x, r)[Len(w) + l - 1] = x[l]
    BY ONLY Joins(w, s, r), u[Len(w) + 1] = x[2], SplicedRest
  <2>3. \A l \in 2 .. Len(s) + 1 : Spliced(v, w, y, r)[Len(w) + l - 1] = y[l]
    BY ONLY Joins(w, s, r), v[Len(w) + 1] = y[2], SplicedRest
  <2> QED BY ONLY <2>1, <2>2, <2>3, Zenon
<1> HIDE DEF m, saved, b
<1>6. Depth(p, H, saved) = Depth(p, G, saved)
      /\ Surplus(p, H, saved, tree, b) = Surplus(p, G, saved, tree, b)
  <2>1. Depth(p, H, saved) = Depth(p, G, saved)
    BY <1>4, AgreeFacts
  <2>2. Surplus(p, H, saved, tree, b) = Surplus(p, G, saved, tree, b)
    BY <1>4, SurplusAgrees
  <2> QED BY <2>1, <2>2
<1>7. Surplus(p, H, saved, more, b) = Surplus(p, H, saved, tree, b)
  <2>1. b \in Nat /\ \A k \in 1 .. b : more[k] = tree[k]
    BY <1>4 DEF Grown
  <2>2. LoopNodes(more, b) = LoopNodes(tree, b)
    BY <2>1, LoopsSame
  <2> QED BY <2>2 DEF Surplus
<1>8. ASSUME NEW l \in 1 .. m - 1, IsCast(r[l]) PROVE saved <= r[l][2]
  <2>1. CASE l \in 1 .. Len(w)
    BY <1>4, <1>8, <1>a, <2>1
  <2>2. CASE l \notin 1 .. Len(w)
    <3>1. l \in 1 .. Len(r) /\ l > Len(w)
      BY <1>1, <1>2, <2>2
    <3>2. PICK k \in 2 .. Len(s) : l = Len(w) + k - 1 /\ r[l] = s[k]
      BY <1>c, <3>1
    <3>3. k \in 1 .. a - 1
      BY <1>1, <3>2 DEF m
    <3> QED BY <1>3, <1>8, <3>2, <3>3
  <2> QED BY <2>1, <2>2
<1>9. ASSUME NEW j \in 1 .. Len(p) - 1 PROVE PassedBy(p, more, b, r, m, j) <=> j \in H /\ j < saved
  <2>1. PassedBy(p, more, b, r, m, j) <=> PassedBy(p, tree, b, s, a, j)
    BY ONLY Joins(w, s, r), Grown(tree, more, new), a \in 2 .. Len(s), <1>4, PassedAfter DEF m
  <2>2. j < saved => (j \in G <=> j \in H)
    BY <1>4 DEF Agree
  <2> QED BY <1>3, <2>1, <2>2
<1>10. ASSUME NEW i \in 1 .. saved - 1, Wanted(p, H, i) PROVE Stood(p, more, b, r, m, i)
  <2>1. i \in 1 .. c - 1
    BY <1>4
  <2>2. Stood(p, tree, b, s, a, i)
    BY <1>3, <1>10, <2>1, AgreeFacts
  <2>3. a \in 1 .. Len(s)
    BY <1>1
  <2> QED BY ONLY Joins(w, s, r), Grown(tree, more, new), <2>3, <1>4, <2>2, StoodAround DEF m
<1>11. Resumes(p, d, more, r, Spliced(u, w, x, r), Spliced(v, w, y, r), H, m)
  <2>1. r[m][2] = saved /\ r[m][3] = b
    BY <1>2 DEF saved, b
  <2> QED BY <1>3, <1>4, <1>5, <1>6, <1>7, <1>8, <1>9, <1>10, <2>1, Zenon DEF Resumes
<1> QED BY <1>11 DEF m

(* A new one remembers this place. *)
NewCast(p, d, more, w, u, v) ==
  \A m \in 1 .. Len(w) :
    IsCast(w[m]) =>
      /\ w[m][2] = d /\ w[m][3] = Len(more) /\ u[m] = u[1] /\ v[m] = v[1]
      /\ d > 1 /\ OpenParen(p[d - 1]) /\ ~Semicolon(w[1])
      /\ \A k \in 1 .. m : (\A i : ~PassesIn(p, w[k], i) /\ ~StandsIn(p, w[k], i)) /\ (k < m => ~IsCast(w[k]))

LEMMA NewCastAfter ==
  ASSUME NEW p, NEW d \in Nat, NEW w, NEW s, NEW r, Joins(w, s, r), NEW more, NEW H,
         H = Hidden(p, more, Len(more), r, 0), \A j \in H : j < d,
         NEW u, NEW v, NEW x, NEW y, u[Len(w) + 1] = x[2], v[Len(w) + 1] = y[2],
         u[1] = Depth(p, H, d), v[1] = Surplus(p, H, d, more, Len(more)),
         NewCast(p, d, more, w, u, v), WantedStand(p, d, more, r, H),
         NEW m \in 1 .. Len(w), IsCast(w[m])
  PROVE  Resumes(p, d, more, r, Spliced(u, w, x, r), Spliced(v, w, y, r), H, m)
<1>1. /\ Len(w) \in Nat /\ DOMAIN r = 1 .. Len(r) /\ 1 \in 1 .. Len(w)
  BY JoinPlaces
<1>a. \A l \in 1 .. Len(w) : r[l] = w[l]
  BY ONLY Joins(w, s, r), Zenon DEF Joins
<1>2. /\ w[m][2] = d /\ w[m][3] = Len(more) /\ u[m] = u[1] /\ v[m] = v[1]
      /\ d > 1 /\ OpenParen(p[d - 1]) /\ ~Semicolon(w[1])
      /\ \A k \in 1 .. m : (\A i : ~PassesIn(p, w[k], i) /\ ~StandsIn(p, w[k], i)) /\ (k < m => ~IsCast(w[k]))
  BY DEF NewCast
<1>3. \A k \in 1 .. m : k \in 1 .. Len(w) /\ r[k] = w[k]
  BY <1>1, <1>a
<1>4. Spliced(u, w, x, r)[m] = Depth(p, H, d) /\ Spliced(v, w, y, r)[m] = Surplus(p, H, d, more, Len(more))
  <2>1. m \in 1 .. Len(w) + 1
    BY <1>1
  <2>2. \A l \in 1 .. Len(w) + 1 : Spliced(u, w, x, r)[l] = u[l]
    BY ONLY Joins(w, s, r), u[Len(w) + 1] = x[2], SplicedWork
  <2>3. \A l \in 1 .. Len(w) + 1 : Spliced(v, w, y, r)[l] = v[l]
    BY ONLY Joins(w, s, r), v[Len(w) + 1] = y[2], SplicedWork
  <2>4. u[m] = Depth(p, H, d) /\ v[m] = Surplus(p, H, d, more, Len(more))
    BY <1>2, Zenon
  <2> QED BY ONLY <2>1, <2>2, <2>3, <2>4, Zenon
<1>5. ASSUME NEW l \in 1 .. m - 1, IsCast(r[l]) PROVE d <= r[l][2]
  <2>1. l \in 1 .. m /\ l < m
    BY <1>1
  <2> QED BY <1>2, <1>3, <1>5, <2>1
<1>6. ASSUME NEW k \in DOMAIN r, NEW i, PassesIn(p, r[k], i) \/ StandsIn(p, r[k], i) PROVE k > m
  <2>1. k \notin 1 .. m
    BY <1>2, <1>3, <1>6
  <2> QED BY <1>1, <2>1
<1>0. \A k \in DOMAIN r : k > m => k > 0
  BY <1>1
<1>7. ASSUME NEW j \in 1 .. Len(p) - 1 PROVE PassedBy(p, more, Len(more), r, m, j) <=> j \in H /\ j < d
  <2>1. PassedBy(p, more, Len(more), r, m, j) <=> PassedBy(p, more, Len(more), r, 0, j)
    BY <1>0, <1>6 DEF PassedBy
  <2>2. j \in H <=> PassedBy(p, more, Len(more), r, 0, j)
    BY DEF Hidden
  <2> QED BY <2>1, <2>2
<1>8. ASSUME NEW i \in 1 .. d - 1, Wanted(p, H, i) PROVE Stood(p, more, Len(more), r, m, i)
  <2>1. ~Dropped(p, d, r, i)
    BY <1>1, <1>2, <1>a DEF Dropped
  <2>2. Stood(p, more, Len(more), r, 0, i)
    BY <1>8, <2>1 DEF WantedStand
  <2> QED BY <2>2, <1>6 DEF Stood
<1>9. r[m][2] = d /\ r[m][3] = Len(more) /\ d <= d
  BY <1>2, <1>a
<1> QED BY <1>2, <1>4, <1>5, <1>7, <1>8, <1>9, Zenon DEF Resumes

(* What the calls and the nodes of the step before pass over, those after  *)
(* it do.                                                                  *)
LEMMA HiddenAgree ==
  ASSUME NEW p, NEW c \in Nat, Len(p) \in Nat, c <= Len(p), NEW w, NEW s, NEW r, Joins(w, s, r),
         NEW tree, NEW more, NEW new, Grown(tree, more, new), HandsHiding(p, c, s, w, new)
  PROVE  Agree(Hidden(p, tree, Len(tree), s, 0), Hidden(p, more, Len(more), r, 0), c)
<1> SUFFICES ASSUME NEW j \in 1 .. c - 1
             PROVE  j \in Hidden(p, tree, Len(tree), s, 0) <=> j \in Hidden(p, more, Len(more), r, 0)
  BY DEF Agree
<1>1. j < c /\ j \in 1 .. Len(p) - 1
  OBVIOUS
<1>2. PassedBy(p, more, Len(more), r, 0, j) <=> PassedBy(p, tree, Len(tree), s, 0, j)
  BY ONLY c \in Nat, Joins(w, s, r), Grown(tree, more, new), HandsHiding(p, c, s, w, new), <1>1, HiddenAfter
<1> QED BY <1>1, <1>2 DEF Hidden

LEMMA StructAfter ==
  ASSUME NEW p, NEW c \in Nat, NEW d \in Nat, c <= d, Len(p) \in Nat, c <= Len(p),
         NEW w, NEW s, NEW r, Joins(w, s, r), NEW tree, NEW more, NEW new, Grown(tree, more, new),
         NEW G, NEW H, G = Hidden(p, tree, Len(tree), s, 0), H = Hidden(p, more, Len(more), r, 0),
         NEW x, NEW y, Whole(p, c, tree, s, x, y, G),
         \A a \in 2 .. Len(s) : IsCast(s[a]) => s[a][2] \in Nat /\ s[a][3] \in 0 .. Len(tree),
         HandsHiding(p, c, s, w, new), HandsStanding(p, c, s, w, new),
         NEW u, NEW v, Due("brace", u, w, x[2]), Due("loop", v, w, y[2]),
         \A m \in 1 .. Len(w) + 1 : u[m] >= 0,
         u[1] = Depth(p, H, d), v[1] = Surplus(p, H, d, more, Len(more)),
         NoneAhead(p, d, H, r), Semicolon(s[1]) => p[c] = SemiSign,
         \A i \in c .. d - 1 : Wanted(p, H, i) => Recorded(p, d, r, w, new, i),
         Placed(p, w), Len(w) > 0 => ~Opening(s[1]),
         \A m \in 1 .. Len(w) : Inner(w[m]) => u[m] > 0,
         1 \in DOMAIN r /\ Starter(r[1]) /\ u[1] = 0 => d > 1 /\ ~Ends(p[d - 1]),
         NewCast(p, d, more, w, u, v), (\E m \in 1 .. Len(w) : IsCast(w[m])) => \A j \in H : j < d
  PROVE  Whole(p, d, more, r, Spliced(u, w, x, r), Spliced(v, w, y, r), H)
<1> DEFINE x1 == Spliced(u, w, x, r)
           y1 == Spliced(v, w, y, r)
<1>1. /\ Len(w) \in Nat /\ Len(s) \in Nat /\ Len(s) > 0 /\ Len(r) \in Nat /\ Len(r) = Len(w) + Len(s) - 1
      /\ DOMAIN s = 1 .. Len(s) /\ DOMAIN r = 1 .. Len(r)
  BY JoinPlaces
<1>2. /\ Ledger("brace", x, s) /\ Ledger("loop", y, s) /\ WantedStand(p, c, tree, s, G)
      /\ Placed(p, s) /\ \A m \in DOMAIN s : Inner(s[m]) => x[m] > 0
      /\ \A m \in 1 .. Len(s) + 1 : x[m] >= 0
      /\ \A m \in DOMAIN s : IsCast(s[m]) => Resumes(p, c, tree, s, x, y, G, m)
  BY Zenon DEF Whole, WantedStand
<1>3. Agree(G, H, c)
  BY ONLY c \in Nat, Len(p) \in Nat, c <= Len(p), Joins(w, s, r), Grown(tree, more, new),
          HandsHiding(p, c, s, w, new), HiddenAgree,
          G = Hidden(p, tree, Len(tree), s, 0), H = Hidden(p, more, Len(more), r, 0)
<1>4. u[Len(w) + 1] = x[2] /\ v[Len(w) + 1] = y[2]
  BY DEF Due
<1>5. Ledger("brace", x1, r) /\ Ledger("loop", y1, r)
  BY ONLY Joins(w, s, r), <1>2, Due("brace", u, w, x[2]), Due("loop", v, w, y[2]), LedgerAfter
<1>6. /\ \A m \in 1 .. Len(w) + 1 : m \in 1 .. Len(r) + 1 /\ x1[m] = u[m] /\ y1[m] = v[m]
      /\ \A l \in 2 .. Len(s) + 1 : x1[Len(w) + l - 1] = x[l]
  <2>1. \A m \in 1 .. Len(w) + 1 : m \in 1 .. Len(r) + 1 /\ x1[m] = u[m]
    BY ONLY Joins(w, s, r), <1>4, SplicedWork
  <2>2. \A l \in 2 .. Len(s) + 1 : x1[Len(w) + l - 1] = x[l]
    BY ONLY Joins(w, s, r), <1>4, SplicedRest
  <2>3. \A m \in 1 .. Len(w) + 1 : y1[m] = v[m]
    BY ONLY Joins(w, s, r), <1>4, SplicedWork
  <2> QED BY ONLY <2>1, <2>2, <2>3, Zenon
<1>7. x1[1] = u[1] /\ y1[1] = v[1]
  <2>1. 1 \in 1 .. Len(w) + 1
    BY <1>1
  <2> QED BY <1>6, <2>1
<1>8. \A m \in 1 .. Len(r) + 1 : x1[m] >= 0
  <2> SUFFICES ASSUME NEW m \in 1 .. Len(r) + 1 PROVE x1[m] >= 0
    OBVIOUS
  <2> HIDE DEF x1
  <2>1. CASE m \in 1 .. Len(w) + 1
    BY <1>6, <2>1
  <2>2. CASE m \notin 1 .. Len(w) + 1
    <3>1. m - Len(w) + 1 \in 2 .. Len(s) + 1 /\ Len(w) + (m - Len(w) + 1) - 1 = m
          /\ m - Len(w) + 1 \in 1 .. Len(s) + 1
      BY <1>1, <2>2
    <3> QED BY <1>2, <1>6, <3>1
  <2> QED BY <2>1, <2>2
<1>9. WantedStand(p, d, more, r, H)
  BY ONLY c \in Nat, d \in Nat, Joins(w, s, r), Grown(tree, more, new), <1>3, <1>2,
          HandsStanding(p, c, s, w, new), Semicolon(s[1]) => p[c] = SemiSign,
          \A i \in c .. d - 1 : Wanted(p, H, i) => Recorded(p, d, r, w, new, i), WantedAfter
<1>10. Placed(p, r)
  BY ONLY Joins(w, s, r), <1>2, Placed(p, w), Len(w) > 0 => ~Opening(s[1]), PlacedAfter
<1>11. \A m \in DOMAIN r : Inner(r[m]) => x1[m] > 0
  BY ONLY Joins(w, s, r), <1>2, <1>4, \A m \in 1 .. Len(w) : Inner(w[m]) => u[m] > 0, InnerAfter
<1>12. 1 \in DOMAIN r /\ Starter(r[1]) /\ x1[1] = 0 => d > 1 /\ ~Ends(p[d - 1])
  BY <1>7
<1>13. ASSUME NEW m \in DOMAIN r, IsCast(r[m]) PROVE Resumes(p, d, more, r, x1, y1, H, m)
  <2>a. \A l \in 1 .. Len(w) : r[l] = w[l]
    BY ONLY Joins(w, s, r), Zenon DEF Joins
  <2>c. \A l \in 1 .. Len(r) : l > Len(w) => \E k \in 2 .. Len(s) : l = Len(w) + k - 1 /\ r[l] = s[k]
    BY ONLY Joins(w, s, r), JoinsBehind
  <2>1. CASE m \in 1 .. Len(w)
    <3>1. IsCast(w[m])
      BY <1>13, <2>a, <2>1
    <3>2. \A j \in H : j < d
      BY <2>1, <3>1
    <3> QED BY ONLY d \in Nat, Joins(w, s, r), H = Hidden(p, more, Len(more), r, 0), <3>1, <3>2, <2>1, <1>4,
                    u[1] = Depth(p, H, d), v[1] = Surplus(p, H, d, more, Len(more)),
                    NewCast(p, d, more, w, u, v), <1>9, NewCastAfter
  <2>2. CASE m \notin 1 .. Len(w)
    <3>1. m \in 1 .. Len(r) /\ m > Len(w)
      BY <1>1, <2>2
    <3>2. PICK a \in 2 .. Len(s) : m = Len(w) + a - 1 /\ r[m] = s[a]
      BY <2>c, <3>1
    <3>3. a \in DOMAIN s /\ IsCast(s[a])
      BY <1>1, <1>13, <3>2
    <3>4. Resumes(p, c, tree, s, x, y, G, a) /\ s[a][2] \in Nat /\ s[a][3] \in 0 .. Len(tree)
      BY <1>2, <3>3
    <3>5. \A l \in 1 .. Len(w) : IsCast(w[l]) => w[l][2] = d
      BY DEF NewCast
    <3>6. Resumes(p, d, more, r, x1, y1, H, Len(w) + a - 1)
      BY ONLY c \in Nat, d \in Nat, c <= d, Joins(w, s, r), Grown(tree, more, new), <1>3, <1>4, <3>4, <3>5,
              a \in 2 .. Len(s), OldCasts
    <3> QED BY <3>2, <3>6
  <2> QED BY <2>1, <2>2
<1> HIDE DEF x1, y1
<1>14. Whole(p, d, more, r, x1, y1, H)
  BY <1>5, <1>7, <1>8, <1>9, <1>10, <1>11, <1>12, <1>13, Zenon DEF Whole, WantedStand
<1> QED BY <1>14 DEF x1, y1

(* Where a cast goes back to, the invariant held.                          *)
LEMMA StructBack ==
  ASSUME NEW p, NEW c \in Nat, NEW tree, NEW s, NEW x, NEW y, NEW G, NEW b, NEW saved, NEW low,
         Whole(p, c, tree, s, x, y, G), 1 \in DOMAIN s, IsCast(s[1]), s[1][2] = saved, s[1][3] = b,
         saved \in Nat, DOMAIN s = 1 .. Len(s), Len(s) \in Nat, b \in Nat, Len(p) \in Nat, c <= Len(p),
         G \subseteq 1 .. Len(p) - 1,
         b <= Len(tree), Len(low) = b, \A k \in 1 .. b : low[k] = tree[k],
         \A a \in 2 .. Len(s) : IsCast(s[a]) => s[a][2] \in Nat /\ s[a][3] \in 0 .. b
  PROVE  Whole(p, saved, low, s, x, y, Hidden(p, low, Len(low), s, 0))
<1> DEFINE H == Hidden(p, low, Len(low), s, 0)
<1>1. /\ Ledger("brace", x, s) /\ Ledger("loop", y, s)
      /\ Placed(p, s) /\ \A m \in DOMAIN s : Inner(s[m]) => x[m] > 0
      /\ \A m \in 1 .. Len(s) + 1 : x[m] >= 0
      /\ \A m \in DOMAIN s : IsCast(s[m]) => Resumes(p, c, tree, s, x, y, G, m)
  BY Zenon DEF Whole
<1>2. Resumes(p, c, tree, s, x, y, G, 1)
  BY <1>1
<1>3. /\ saved <= c /\ saved > 1 /\ OpenParen(p[saved - 1])
      /\ x[1] = Depth(p, G, saved) /\ y[1] = Surplus(p, G, saved, tree, b)
      /\ \A j \in 1 .. Len(p) - 1 : PassedBy(p, tree, b, s, 1, j) <=> j \in G /\ j < saved
      /\ \A i \in 1 .. saved - 1 : Wanted(p, G, i) => Stood(p, tree, b, s, 1, i)
  BY <1>2, Zenon DEF Resumes
<1>4. \A i : ~PassesIn(p, s[1], i) /\ ~StandsIn(p, s[1], i)
  BY DEF IsCast, PassesIn, StandsIn, IsBuild, IsThen, Declares
<1>5. \A k \in DOMAIN s : k > 0 <=> k = 1 \/ k > 1
  OBVIOUS
<1>a. \A k \in 1 .. b : \A i : Passes(p, low[k].node, low[k].at, i) <=> Passes(p, tree[k].node, tree[k].at, i)
  OBVIOUS
<1>6. ASSUME NEW j \in 1 .. Len(p) - 1 PROVE PassedBy(p, low, b, s, 0, j) <=> j \in G /\ j < saved
  <2>1. PassedBy(p, low, b, s, 0, j) <=> PassedBy(p, tree, b, s, 1, j)
    BY <1>4, <1>5 DEF PassedBy
  <2> QED BY <1>3, <2>1
<1>7. \A j : j \in H <=> j \in G /\ j < saved
  BY <1>6 DEF Hidden
<1> HIDE DEF H
<1>8. Agree(G, H, saved)
  BY <1>7 DEF Agree
<1>9. ASSUME NEW l \in 0 .. b, NEW i \in 1 .. saved
      PROVE  Depth(p, H, i) = Depth(p, G, i) /\ Surplus(p, H, i, low, l) = Surplus(p, G, i, tree, l)
  <2>1. LoopNodes(low, l) = LoopNodes(tree, l)
    <3>1. \A k \in 1 .. l : low[k] = tree[k]
      OBVIOUS
    <3> QED BY <3>1, LoopsSame
  <2>2. Depth(p, H, i) = Depth(p, G, i)
    BY <1>8, AgreeFacts
  <2>3. Surplus(p, H, i, tree, l) = Surplus(p, G, i, tree, l)
    BY <1>8, SurplusAgrees
  <2> QED BY <2>1, <2>2, <2>3 DEF Surplus
<1>10. x[1] = Depth(p, H, saved) /\ y[1] = Surplus(p, H, saved, low, Len(low))
  <2>1. saved \in 1 .. saved /\ b \in 0 .. b
    BY <1>3
  <2> QED BY <1>3, <1>9, <2>1
<1>11. ASSUME NEW i \in 1 .. saved - 1, Wanted(p, H, i) PROVE Stood(p, low, Len(low), s, 0, i)
  <2>1. Wanted(p, G, i)
    BY <1>8, <1>11, AgreeFacts
  <2>2. Stood(p, tree, b, s, 1, i)
    BY <1>3, <2>1
  <2> QED BY <2>2, <1>5 DEF Stood
<1>12. NoneAhead(p, saved, H, s)
  <2>1. \A j \in H : j \in 1 .. Len(p) - 1 /\ j < saved
    BY <1>7
  <2>2. \A j \in H : ~(j >= saved)
    BY <2>1
  <2> QED BY <2>2, Zenon DEF NoneAhead
<1>13. ~Starter(s[1])
  BY DEF Starter, IsCast
<1>14. ASSUME NEW m \in DOMAIN s, IsCast(s[m]) PROVE Resumes(p, saved, low, s, x, y, H, m)
  <2>1. Resumes(p, c, tree, s, x, y, G, m)
    BY <1>1, <1>14
  <2> DEFINE back == s[m][2]
             l == s[m][3]
  <2>2. /\ back <= c /\ back > 1 /\ OpenParen(p[back - 1])
        /\ \A a \in 1 .. m - 1 : IsCast(s[a]) => back <= s[a][2]
        /\ x[m] = Depth(p, G, back) /\ y[m] = Surplus(p, G, back, tree, l)
        /\ \A j \in 1 .. Len(p) - 1 : PassedBy(p, tree, l, s, m, j) <=> j \in G /\ j < back
        /\ \A i \in 1 .. back - 1 : Wanted(p, G, i) => Stood(p, tree, l, s, m, i)
    BY <2>1, Zenon DEF Resumes
  <2>3. back <= saved /\ back \in Nat /\ l \in 0 .. b
    <3>1. CASE m = 1
      BY <3>1
    <3>2. CASE m # 1
      <4>1. 1 \in 1 .. m - 1 /\ m \in 2 .. Len(s)
        BY <3>2
      <4> QED BY <1>14, <2>2, <4>1
    <3> QED BY <3>1, <3>2
  <2> HIDE DEF back, l
  <2>4. x[m] = Depth(p, H, back) /\ y[m] = Surplus(p, H, back, low, l)
    <3>1. back \in 1 .. saved
      BY <2>2, <2>3
    <3> QED BY <1>9, <2>2, <2>3, <3>1
  <2>5. ASSUME NEW j \in 1 .. Len(p) - 1 PROVE PassedBy(p, low, l, s, m, j) <=> j \in H /\ j < back
    <3>1. PassedBy(p, low, l, s, m, j) <=> PassedBy(p, tree, l, s, m, j)
      <4>1. \A k \in 1 .. l : low[k] = tree[k]
        BY <2>3
      <4> QED BY <4>1 DEF PassedBy
    <3>2. j < back => j < saved
      BY <2>3
    <3> QED BY <1>7, <2>2, <3>1, <3>2
  <2>6. ASSUME NEW i \in 1 .. back - 1, Wanted(p, H, i) PROVE Stood(p, low, l, s, m, i)
    <3>1. i \in 1 .. saved - 1
      BY <2>3
    <3>2. Stood(p, tree, l, s, m, i)
      BY <1>8, <2>2, <2>6, <3>1, AgreeFacts
    <3>3. \A k \in 1 .. l : low[k] = tree[k]
      BY <2>3
    <3> QED BY <3>2, <3>3 DEF Stood
  <2> QED BY <2>2, <2>3, <2>4, <2>5, <2>6, Zenon DEF Resumes, back, l
<1>15. Whole(p, saved, low, s, x, y, H)
  BY <1>1, <1>10, <1>11, <1>12, <1>13, <1>14, Zenon DEF Whole
<1> QED BY <1>15 DEF H

-----------------------------------------------------------------------------
(* The steps that report nothing, once more.                               *)

Passing == Hidden(tokens, nodes, Len(nodes), todo, 0)
Settled == Quiet /\ StructureInv
WholeNow(x, y) == Whole(tokens, current, nodes, todo, x, y, Passing)

LEMMA SettledFacts ==
  ASSUME Settled
  PROVE  /\ Quiet /\ tokens \in Seq(Token) /\ Len(tokens) \in Nat
         /\ current \in 1 .. Len(tokens) /\ current \in Nat /\ current <= Len(tokens)
         /\ todo \in Seq(Tasks) /\ nodes \in Seq(NodeSet)
         /\ \E x, y : WholeNow(x, y)
<1>1. Quiet /\ Silent /\ StructureInv
  BY DEF Settled, Quiet
<1>2. /\ tokens \in Seq(Token) /\ Len(tokens) \in Nat /\ current \in 1 .. Len(tokens)
      /\ todo \in Seq(Tasks) /\ nodes \in Seq(NodeSet)
  BY <1>1, QuietFacts
<1>3. \E x, y : WholeNow(x, y)
  BY <1>1, Zenon DEF StructureInv, WholeNow, Passing
<1> QED BY <1>1, <1>2, <1>3

(* What a cast remembers is a position and how many nodes there were.      *)
LEMMA CastTypes ==
  ASSUME Quiet
  PROVE  \A a \in 1 .. Len(todo) : IsCast(todo[a]) => todo[a][2] \in Nat /\ todo[a][3] \in 0 .. Len(nodes)
<1> SUFFICES ASSUME NEW a \in 1 .. Len(todo), IsCast(todo[a])
             PROVE  todo[a][2] \in Nat /\ todo[a][3] \in 0 .. Len(nodes)
  OBVIOUS
<1>1. todo \in Seq(Tasks) /\ a \in DOMAIN todo /\ todo[a] \in Tasks
  BY QuietFacts
<1>2. todo[a][2] \in Positions
  BY <1>1, TaskForms DEF TaskForm, IsCast
<1>3. HasBase(todo[a]) /\ BaseOf(todo[a]) = todo[a][3]
  BY DEF IsCast, HasBase, BaseOf
<1>4. Boundary(nodes, BaseOf(todo[a]))
  BY <1>1, <1>3, Zenon DEF Quiet, IInv, BasesHold
<1> QED BY <1>2, <1>3, <1>4 DEF Boundary, Positions

LEMMA StructStep ==
  ASSUME Settled, todo # <<>>, NEW d \in Positions, current <= d,
         NEW new, NEW more, Grown(nodes, more, new), NEW w, Work(w), Step(d, FALSE, more, w),
         NEW r, r = w \o Tail(todo), NEW H, H = Hidden(tokens, more, Len(more), r, 0),
         NEW x, NEW y, WholeNow(x, y),
         HandsHiding(tokens, current, todo, w, new), HandsStanding(tokens, current, todo, w, new),
         NEW u, NEW v, Due("brace", u, w, x[2]), Due("loop", v, w, y[2]),
         \A m \in 1 .. Len(w) + 1 : u[m] >= 0,
         u[1] = Depth(tokens, H, d), v[1] = Surplus(tokens, H, d, more, Len(more)),
         NoneAhead(tokens, d, H, r), Semicolon(todo[1]) => tokens[current] = SemiSign,
         \A i \in current .. d - 1 : Wanted(tokens, H, i) => Recorded(tokens, d, r, w, new, i),
         Placed(tokens, w), Len(w) > 0 => ~Opening(todo[1]),
         \A m \in 1 .. Len(w) : Inner(w[m]) => u[m] > 0,
         1 \in DOMAIN r /\ Starter(r[1]) /\ u[1] = 0 => d > 1 /\ ~Ends(tokens[d - 1]),
         NewCast(tokens, d, more, w, u, v), (\E m \in 1 .. Len(w) : IsCast(w[m])) => \A j \in H : j < d
  PROVE  StructureInv'
<1>1. /\ Quiet /\ Len(tokens) \in Nat /\ current \in Nat /\ current <= Len(tokens)
      /\ todo \in Seq(Tasks)
  BY SettledFacts
<1>2. Joins(w, todo, r)
  BY <1>1, JoinFacts
<1>3. d \in Nat
  BY DEF Positions
<1>4. \A a \in 2 .. Len(todo) : IsCast(todo[a]) => todo[a][2] \in Nat /\ todo[a][3] \in 0 .. Len(nodes)
  <2>1. \A a \in 1 .. Len(todo) : IsCast(todo[a]) => todo[a][2] \in Nat /\ todo[a][3] \in 0 .. Len(nodes)
    BY <1>1, CastTypes
  <2> QED BY <1>1, <2>1
<1>5. PICK G : G = Passing
  OBVIOUS
<1>6. G = Hidden(tokens, nodes, Len(nodes), todo, 0) /\ Whole(tokens, current, nodes, todo, x, y, G)
  BY <1>5 DEF Passing, WholeNow
<1>7. Whole(tokens, d, more, r, Spliced(u, w, x, r), Spliced(v, w, y, r), H)
  BY ONLY <1>1, <1>2, <1>3, <1>4, <1>6, current <= d, Grown(nodes, more, new),
          H = Hidden(tokens, more, Len(more), r, 0),
          HandsHiding(tokens, current, todo, w, new), HandsStanding(tokens, current, todo, w, new),
          Due("brace", u, w, x[2]), Due("loop", v, w, y[2]),
          \A m \in 1 .. Len(w) + 1 : u[m] >= 0,
          u[1] = Depth(tokens, H, d), v[1] = Surplus(tokens, H, d, more, Len(more)),
          NoneAhead(tokens, d, H, r), Semicolon(todo[1]) => tokens[current] = SemiSign,
          \A i \in current .. d - 1 : Wanted(tokens, H, i) => Recorded(tokens, d, r, w, new, i),
          Placed(tokens, w), Len(w) > 0 => ~Opening(todo[1]),
          \A m \in 1 .. Len(w) : Inner(w[m]) => u[m] > 0,
          1 \in DOMAIN r /\ Starter(r[1]) /\ u[1] = 0 => d > 1 /\ ~Ends(tokens[d - 1]),
          NewCast(tokens, d, more, w, u, v), (\E m \in 1 .. Len(w) : IsCast(w[m])) => \A j \in H : j < d,
          StructAfter
<1>8. current' = d /\ nodes' = more /\ todo' = r /\ tokens' = tokens
  BY DEF Step
<1>9. Whole(tokens', current', nodes', todo', Spliced(u, w, x, r), Spliced(v, w, y, r),
            Hidden(tokens', nodes', Len(nodes'), todo', 0))
  BY <1>7, <1>8, Zenon
<1> QED BY <1>9, Zenon DEF StructureInv

(* What the step passes over, the call before it did.                      *)
SameHiding(p, s, w, new) ==
  \A i : PassesIn(p, s[1], i) <=>
           (\E n \in new : Passes(p, n.node, n.at, i)) \/ \E k \in 1 .. Len(w) : PassesIn(p, w[k], i)

LEMMA SameHidden ==
  ASSUME NEW p, Len(p) \in Nat, NEW w, NEW s, NEW r, Joins(w, s, r),
         NEW tree, NEW more, NEW new, Grown(tree, more, new), SameHiding(p, s, w, new)
  PROVE  Hidden(p, more, Len(more), r, 0) = Hidden(p, tree, Len(tree), s, 0)
<1> SUFFICES ASSUME NEW i \in 1 .. Len(p) - 1
             PROVE  PassedBy(p, more, Len(more), r, 0, i) <=> PassedBy(p, tree, Len(tree), s, 0, i)
  BY DEF Hidden
<1>1. PICK c \in Nat : i < c
  <2>1. i + 1 \in Nat /\ i < i + 1
    OBVIOUS
  <2> QED BY <2>1
<1>2. HandsHiding(p, c, s, w, new)
  BY Zenon DEF SameHiding, HandsHiding
<1> QED BY ONLY Joins(w, s, r), Grown(tree, more, new), <1>1, <1>2, HiddenAfter

(* The work of a usual step: every call has its place there.               *)
Fitting(p, t, inner) ==
  AtName(p, t) /\ ~IsCast(t) /\ ~IsForInit(t) /\ (Inner(t) => inner)
Usual(p, w, inner) ==
  /\ Work(w)
  /\ \A m \in 1 .. Len(w) : Fitting(p, w[m], inner) /\ (m > 1 /\ Starter(w[m]) => Opening(w[m - 1]))

(* A call that makes no node itself and does not expect anything.          *)
PlainHead(t) ==
  /\ ~IsExpect(t) /\ ~IsBuild(t) /\ ~IsCast(t) /\ ~IsAliases(t) /\ ~Declares(t)
  /\ ~IsThen(t) /\ ~IsDoCond(t)
Light(p, t) == BraceCost(t) = 0 /\ LoopCost(t) = 0 /\ \A i : ~PassesIn(p, t, i)

Dull(t) == t \notin StmtKeywords \cup {LeftBrace, RightBrace, "while", "var", "name"}
Bounds == {LeftBrace, RightBrace, "while"}
(* A name that begins nothing.                                             *)
Idle(p, c, head, i) ==
  p[i] = "name" /\ IF i = c THEN Starter(head) \/ Inner(head) ELSE ~Ends(p[i - 1])

LEMMA HeadIs ==
  ASSUME Quiet, todo # <<>>
  PROVE  1 \in DOMAIN todo /\ todo[1] \in Tasks /\ Len(todo) \in Nat /\ Len(todo) > 0
         /\ DOMAIN todo = 1 .. Len(todo)
<1>1. todo \in Seq(Tasks)
  BY QuietFacts
<1> QED BY <1>1

(* The call that has become the innermost. *)
LEMMA NextHead ==
  ASSUME NEW w, NEW s, NEW r, Joins(w, s, r), NEW p, Placed(p, s), ~Opening(s[1]),
         1 \in DOMAIN r, Starter(r[1])
  PROVE  Len(w) > 0 /\ Starter(w[1])
<1>1. /\ Len(w) \in Nat /\ Len(s) \in Nat /\ Len(s) > 0
      /\ DOMAIN s = 1 .. Len(s) /\ DOMAIN r = 1 .. Len(r)
  BY JoinPlaces
<1>2. CASE Len(w) > 0
  <2>1. 1 \in 1 .. Len(w)
    BY <1>1, <1>2
  <2>2. r[1] = w[1]
    BY ONLY Joins(w, s, r), <2>1, JoinPlaces
  <2> QED BY <1>2, <2>2
<1>3. CASE ~(Len(w) > 0)
  <2>1. Len(w) = 0 /\ 1 > Len(w) /\ 1 \in 1 .. Len(r)
    BY <1>1, <1>3
  <2>2. PICK a \in 2 .. Len(s) : 1 = Len(w) + a - 1 /\ r[1] = s[a]
    BY ONLY Joins(w, s, r), <2>1, JoinPlaces
  <2>3. a = 2 /\ 2 \in DOMAIN s /\ a - 1 = 1 /\ a > 1
    BY <1>1, <2>1, <2>2
  <2>4. Starter(s[a]) => Opening(s[a - 1])
    BY <2>3 DEF Placed
  <2> QED BY <2>2, <2>3, <2>4
<1> QED BY <1>2, <1>3

(* Work that has its place, and no cast. *)
Tidy(p, w) == Work(w) /\ Placed(p, w) /\ \A m \in 1 .. Len(w) : ~IsCast(w[m])

LEMMA UsualTidy ==
  ASSUME NEW p, NEW w, NEW inner, Usual(p, w, inner)
  PROVE  Tidy(p, w) /\ \A m \in 1 .. Len(w) : Inner(w[m]) => inner
<1>1. PICK S : w \in Seq(S)
  BY DEF Usual, Work
<1>2. DOMAIN w = 1 .. Len(w)
  BY <1>1
<1>3. \A m \in 1 .. Len(w) : /\ AtName(p, w[m]) /\ ~IsCast(w[m]) /\ ~IsForInit(w[m])
                             /\ m > 1 /\ Starter(w[m]) => Opening(w[m - 1])
  BY DEF Usual, Fitting
<1>4. Placed(p, w)
  BY <1>2, <1>3 DEF Placed
<1> QED BY <1>3, <1>4 DEF Usual, Tidy, Fitting

(* A step after which the same is passed over. *)
LEMMA SameStep ==
  ASSUME Settled, todo # <<>>, NEW d \in Positions, current <= d,
         NEW new, NEW more, Grown(nodes, more, new), NEW w, Step(d, FALSE, more, w),
         NEW x, NEW y, WholeNow(x, y), ~IsAliases(todo[1]), ~IsExpect(todo[1]),
         SameHiding(tokens, todo, w, new), HandsStanding(tokens, current, todo, w, new),
         NEW u, NEW v, Due("brace", u, w, x[2]), Due("loop", v, w, y[2]),
         \A m \in 1 .. Len(w) + 1 : u[m] >= 0,
         u[1] = Depth(tokens, Passing, d), v[1] = Surplus(tokens, Passing, d, more, Len(more)),
         \A i \in current .. d - 1 :
           Wanted(tokens, Passing, i) => Recorded(tokens, d, w \o Tail(todo), w, new, i),
         Tidy(tokens, w), \A m \in 1 .. Len(w) : Inner(w[m]) => u[m] > 0,
         Len(w) > 0 /\ Starter(w[1]) /\ u[1] = 0 => d > 1 /\ ~Ends(tokens[d - 1])
  PROVE  StructureInv'
<1>1. /\ Quiet /\ Len(tokens) \in Nat /\ todo \in Seq(Tasks) /\ 1 \in DOMAIN todo /\ current \in Nat
      /\ current <= Len(tokens)
  BY SettledFacts, HeadIs
<1>2. PICK r : r = w \o Tail(todo)
  OBVIOUS
<1>3. Work(w)
  BY DEF Tidy
<1>4. Joins(w, todo, r)
  BY <1>1, <1>2, <1>3, JoinFacts
<1>5. PICK H : H = Hidden(tokens, more, Len(more), r, 0)
  OBVIOUS
<1>6. H = Passing
  BY ONLY <1>1, <1>4, <1>5, Grown(nodes, more, new), SameHiding(tokens, todo, w, new), SameHidden DEF Passing
<1>7. HandsHiding(tokens, current, todo, w, new)
  BY Zenon DEF SameHiding, HandsHiding
<1>8. Placed(tokens, todo) /\ NoneAhead(tokens, current, Passing, todo)
  BY Zenon DEF WholeNow, Whole
<1>9. NoneAhead(tokens, d, H, r)
  <2> SUFFICES ASSUME NEW j \in H, j >= d PROVE FALSE
    BY DEF NoneAhead
  <2>1. j \in 1 .. Len(tokens) - 1
    BY <1>5 DEF Hidden
  <2>2. j >= current
    BY <1>1, <2>1 DEF Positions
  <2> QED BY <1>6, <1>8, <2>2 DEF NoneAhead
<1>11. Placed(tokens, w)
  BY DEF Tidy
<1>12. ~Opening(todo[1]) /\ ~Semicolon(todo[1])
  BY DEF Opening, Semicolon
<1>13. NewCast(tokens, d, more, w, u, v) /\ ~(\E m \in 1 .. Len(w) : IsCast(w[m]))
  BY DEF NewCast, Tidy
<1>14. 1 \in DOMAIN r /\ Starter(r[1]) /\ u[1] = 0 => d > 1 /\ ~Ends(tokens[d - 1])
  BY ONLY <1>4, <1>8, <1>12, NextHead,
          Len(w) > 0 /\ Starter(w[1]) /\ u[1] = 0 => d > 1 /\ ~Ends(tokens[d - 1])
<1>15. \A i \in current .. d - 1 : Wanted(tokens, H, i) => Recorded(tokens, d, r, w, new, i)
  BY <1>2, <1>6
<1>16. u[1] = Depth(tokens, H, d) /\ v[1] = Surplus(tokens, H, d, more, Len(more))
  BY <1>6
<1> QED BY ONLY Settled, todo # <<>>, d \in Positions, current <= d, Grown(nodes, more, new),
                Step(d, FALSE, more, w), WholeNow(x, y), <1>2, <1>3, <1>5, <1>7,
                HandsStanding(tokens, current, todo, w, new),
                Due("brace", u, w, x[2]), Due("loop", v, w, y[2]),
                \A m \in 1 .. Len(w) + 1 : u[m] >= 0, <1>9, <1>11, <1>12, <1>13, <1>14, <1>15, <1>16,
                \A m \in 1 .. Len(w) : Inner(w[m]) => u[m] > 0, StructStep

(* What is read and begins nothing. *)
LEMMA NotWanted ==
  ASSUME Settled, todo # <<>>, NEW x, NEW y, WholeNow(x, y), NEW i \in Nat, i >= current,
         Dull(tokens[i]) \/ Idle(tokens, current, todo[1], i)
  PROVE  ~Wanted(tokens, Passing, i)
<1> SUFFICES ASSUME Wanted(tokens, Passing, i) PROVE FALSE
  OBVIOUS
<1>1. current \in Nat /\ current >= 1 /\ 1 \in DOMAIN todo
  BY SettledFacts, HeadIs
<1>2. CASE Dull(tokens[i])
  BY <1>2 DEF Dull, Wanted, Begins
<1>3. CASE Idle(tokens, current, todo[1], i)
  <2>1. tokens[i] = "name" /\ "name" \notin StmtKeywords
    BY <1>3 DEF Idle, StmtKeywords
  <2>2. Depth(tokens, Passing, i) = 0 /\ (i = 1 \/ Ends(tokens[i - 1]))
    BY <2>1 DEF Wanted, Begins
  <2>3. CASE i = current
    <3>1. Starter(todo[1]) \/ Inner(todo[1])
      BY <1>3, <2>3 DEF Idle
    <3>2. x[1] = 0
      BY <2>2, <2>3 DEF WholeNow, Whole
    <3>3. ~Inner(todo[1])
      BY <1>1, <3>2 DEF WholeNow, Whole
    <3>4. current > 1 /\ ~Ends(tokens[current - 1])
      BY <1>1, <3>1, <3>2, <3>3 DEF WholeNow, Whole
    <3> QED BY <2>2, <2>3, <3>4
  <2>4. CASE i # current
    <3>1. i # 1 /\ ~Ends(tokens[i - 1])
      BY <1>1, <1>3, <2>4 DEF Idle
    <3> QED BY <2>2, <3>1
  <2> QED BY <2>3, <2>4
<1> QED BY <1>2, <1>3

(* No brace and no while among what is read. *)
LEMMA SameDepth ==
  ASSUME NEW p, NEW hid, NEW c \in Nat, NEW d \in Nat, 1 <= c, c <= d, \A i \in c .. d - 1 : p[i] \notin Bounds
  PROVE  /\ Depth(p, hid, d) = Depth(p, hid, c)
         /\ Number(p, hid, d, "while") = Number(p, hid, c, "while")
<1>1. \A t \in Bounds : Number(p, hid, d, t) = Number(p, hid, c, t)
  <2> SUFFICES ASSUME NEW t \in Bounds PROVE Number(p, hid, d, t) = Number(p, hid, c, t)
    OBVIOUS
  <2>1. \A i \in c .. d - 1 : p[i] = t => i \in hid
    OBVIOUS
  <2> QED BY <2>1, NumberStays
<1>2. LeftBrace \in Bounds /\ RightBrace \in Bounds /\ "while" \in Bounds
  BY DEF Bounds
<1> QED BY <1>1, <1>2 DEF Depth

LEMMA PlainCosts ==
  ASSUME NEW t, PlainHead(t)
  PROVE  /\ BraceCost(t) = 0 /\ LoopCost(t) = 0 /\ \A p, i : ~PassesIn(p, t, i) /\ ~StandsIn(p, t, i)
         /\ ~IsExpect(t) /\ ~IsAliases(t) /\ ~IsBuild(t)
BY DEF PlainHead, BraceCost, LoopCost, PassesIn, StandsIn

(* The same is due to the innermost call as to those outside. *)
LEMMA HeadCosts ==
  ASSUME Settled, todo # <<>>, NEW x, NEW y, WholeNow(x, y)
  PROVE  /\ x[1] \in Nat /\ x[2] \in Nat /\ y[1] \in Int /\ y[2] \in Int
         /\ x[1] = x[2] + BraceCost(todo[1]) /\ y[1] = y[2] + LoopCost(todo[1])
         /\ x[1] = Depth(tokens, Passing, current)
         /\ y[1] = Surplus(tokens, Passing, current, nodes, Len(nodes))
         /\ Inner(todo[1]) => x[1] > 0
<1>1. 1 \in DOMAIN todo /\ Len(todo) \in Nat /\ Len(todo) > 0
  BY SettledFacts, HeadIs
<1>2. 1 \in 1 .. Len(todo) /\ 1 \in 1 .. Len(todo) + 1 /\ 2 \in 1 .. Len(todo) + 1 /\ 1 + 1 = 2
  BY <1>1
<1>3. Ledger("brace", x, todo) /\ Ledger("loop", y, todo) /\ (\A m \in 1 .. Len(todo) + 1 : x[m] >= 0)
      /\ x[1] = Depth(tokens, Passing, current)
      /\ y[1] = Surplus(tokens, Passing, current, nodes, Len(nodes))
      /\ \A m \in DOMAIN todo : Inner(todo[m]) => x[m] > 0
  BY Zenon DEF WholeNow, Whole
<1>4. /\ (\A m \in 1 .. Len(todo) + 1 : x[m] \in Int /\ y[m] \in Int)
      /\ \A m \in 1 .. Len(todo) : /\ x[m] = x[m + 1] + BraceCost(todo[m])
                                   /\ y[m] = y[m + 1] + LoopCost(todo[m])
  BY <1>3 DEF Ledger, Cost
<1>5. x[1] \in Nat /\ x[2] \in Nat
  BY <1>2, <1>3, <1>4
<1>6. x[1] = x[2] + BraceCost(todo[1]) /\ y[1] = y[2] + LoopCost(todo[1])
  BY <1>2, <1>4
<1> QED BY <1>1, <1>2, <1>3, <1>4, <1>5, <1>6

(* Every call of the work costs nothing. *)
LEMMA NothingDue ==
  ASSUME NEW p, NEW w, Len(w) \in Nat, \A k \in 1 .. Len(w) : Light(p, w[k]), NEW z \in Int,
         NEW u, u = [m \in 1 .. Len(w) + 1 |-> z]
  PROVE  Due("brace", u, w, z) /\ Due("loop", u, w, z)
<1>1. \A m \in 1 .. Len(w) + 1 : u[m] = z
  OBVIOUS
<1>2. Len(w) + 1 \in 1 .. Len(w) + 1
      /\ \A m \in 1 .. Len(w) : m \in 1 .. Len(w) + 1 /\ m + 1 \in 1 .. Len(w) + 1
  OBVIOUS
<1>3. \A m \in 1 .. Len(w) : Cost("brace", w[m]) = 0 /\ Cost("loop", w[m]) = 0
  BY DEF Light, Cost
<1> QED BY <1>1, <1>2, <1>3 DEF Due

(* A step that opens and closes nothing. *)
PlainNodes(new) == \A n \in new : ~IsLoop(n.node) /\ \A i : ~Passes(tokens, n.node, n.at, i)
StartsRight(d, w) ==
  Len(w) > 0 /\ Starter(w[1]) =>
    \/ Inner(todo[1])
    \/ d > 1 /\ ~Ends(tokens[d - 1])
    \/ d = current /\ Starter(todo[1])
Calm(w, new, i) ==
  Dull(tokens[i]) \/ Idle(tokens, current, todo[1], i)
    \/ (tokens[i] \notin Bounds /\ Standing(tokens, w, new, i))
CalmAfter(d, w, new, i) ==
  Dull(tokens[i]) \/ Idle(tokens, current, todo[1], i)
    \/ (tokens[i] \notin Bounds /\ Recorded(tokens, d, w \o Tail(todo), w, new, i))

LEMMA NoBound == ASSUME NEW p, NEW c, NEW head, NEW i, Dull(p[i]) \/ Idle(p, c, head, i) PROVE p[i] \notin Bounds
<1>1. "name" \notin Bounds
  BY Zenon DEF Bounds, LeftBrace, RightBrace
<1> QED BY <1>1 DEF Dull, Idle, Bounds

LEMMA TidyStep ==
  ASSUME Settled, todo # <<>>, ~IsAliases(todo[1]), ~IsExpect(todo[1]),
         BraceCost(todo[1]) = 0, LoopCost(todo[1]) = 0, \A i : ~PassesIn(tokens, todo[1], i), NEW d \in Positions, current <= d,
         NEW new, NEW more, Grown(nodes, more, new), PlainNodes(new),
         NEW w, Step(d, FALSE, more, w), Tidy(tokens, w), HandsStanding(tokens, current, todo, w, new),
         \A m \in 1 .. Len(w) : Inner(w[m]) => Inner(todo[1]),
         \A k \in 1 .. Len(w) : Light(tokens, w[k]),
         \A i \in current .. d - 1 : CalmAfter(d, w, new, i), StartsRight(d, w)
  PROVE  StructureInv'
<1>1. PICK x, y : WholeNow(x, y)
  BY SettledFacts
<1>2. /\ x[1] \in Nat /\ x[2] \in Nat /\ y[1] \in Int /\ y[2] \in Int
      /\ x[1] = x[2] + BraceCost(todo[1]) /\ y[1] = y[2] + LoopCost(todo[1])
      /\ x[1] = Depth(tokens, Passing, current)
      /\ y[1] = Surplus(tokens, Passing, current, nodes, Len(nodes))
      /\ Inner(todo[1]) => x[1] > 0
  BY <1>1, HeadCosts
<1>3. x[1] = x[2] /\ y[1] = y[2]
  BY <1>2
<1>4. current \in Nat /\ d \in Nat /\ 1 <= current /\ Len(w) \in Nat
  BY SettledFacts DEF Positions, Tidy, Work
<1>5. \A i \in current .. d - 1 : tokens[i] \notin Bounds
  BY NoBound DEF CalmAfter
<1>6. /\ Depth(tokens, Passing, d) = Depth(tokens, Passing, current)
      /\ Number(tokens, Passing, d, "while") = Number(tokens, Passing, current, "while")
  BY <1>4, <1>5, SameDepth
<1>7. LoopNodes(more, Len(more)) = LoopNodes(nodes, Len(nodes))
  BY LoopsStay DEF PlainNodes
<1>8. PICK u : u = [m \in 1 .. Len(w) + 1 |-> x[2]]
  OBVIOUS
<1>9. PICK v : v = [m \in 1 .. Len(w) + 1 |-> y[2]]
  OBVIOUS
<1>10. 1 \in 1 .. Len(w) + 1 /\ (\A m \in 1 .. Len(w) + 1 : u[m] = x[2] /\ v[m] = y[2])
       /\ \A m \in 1 .. Len(w) : m \in 1 .. Len(w) + 1
  BY <1>4, <1>8, <1>9
<1>11. Due("brace", u, w, x[2]) /\ Due("loop", v, w, y[2])
  <2>0. x[2] \in Int
    BY <1>2
  <2>1. Due("brace", u, w, x[2])
    BY ONLY <2>0, <1>4, <1>8, \A k \in 1 .. Len(w) : Light(tokens, w[k]), NothingDue
  <2>2. Due("loop", v, w, y[2])
    BY ONLY <1>2, <1>4, <1>9, \A k \in 1 .. Len(w) : Light(tokens, w[k]), NothingDue
  <2> QED BY <2>1, <2>2
<1>12. u[1] = Depth(tokens, Passing, d) /\ v[1] = Surplus(tokens, Passing, d, more, Len(more))
  BY <1>2, <1>3, <1>6, <1>7, <1>10 DEF Surplus
<1>13. \A m \in 1 .. Len(w) + 1 : u[m] >= 0
  BY <1>2, <1>10
<1>14. ASSUME NEW i \in current .. d - 1, Wanted(tokens, Passing, i)
      PROVE  Recorded(tokens, d, w \o Tail(todo), w, new, i)
  <2>1. i \in Nat /\ i >= current
    BY <1>4
  <2>2. ~(Dull(tokens[i]) \/ Idle(tokens, current, todo[1], i))
    BY <1>1, <1>14, <2>1, NotWanted
  <2> QED BY <2>2, Zenon DEF CalmAfter
<1>15. \A m \in 1 .. Len(w) : Inner(w[m]) => u[m] > 0
  BY <1>2, <1>3, <1>10
<1>16. Len(w) > 0 /\ Starter(w[1]) /\ u[1] = 0 => d > 1 /\ ~Ends(tokens[d - 1])
  <2> SUFFICES ASSUME Len(w) > 0, Starter(w[1]), u[1] = 0 PROVE d > 1 /\ ~Ends(tokens[d - 1])
    OBVIOUS
  <2>1. x[1] = 0 /\ ~Inner(todo[1])
    BY <1>2, <1>3, <1>10
  <2>2. CASE d = current /\ Starter(todo[1])
    <3>1. 1 \in DOMAIN todo
      BY SettledFacts, HeadIs
    <3> QED BY <1>1, <2>1, <2>2, <3>1 DEF WholeNow, Whole
  <2> QED BY <2>1, <2>2 DEF StartsRight
<1>18. SameHiding(tokens, todo, w, new)
  BY Zenon DEF SameHiding, PlainNodes, Light
<1> QED BY ONLY Settled, todo # <<>>, d \in Positions, current <= d, Grown(nodes, more, new),
                Step(d, FALSE, more, w), <1>1, ~IsAliases(todo[1]), ~IsExpect(todo[1]), <1>18, <1>11, <1>13,
                HandsStanding(tokens, current, todo, w, new), <1>12, <1>14, Tidy(tokens, w), <1>15, <1>16, SameStep

(* A call that makes no node. *)
LEMMA PlainStep ==
  ASSUME Settled, todo # <<>>, PlainHead(todo[1]), NEW d \in Positions, current <= d,
         NEW new, NEW more, Grown(nodes, more, new), PlainNodes(new),
         NEW w, Step(d, FALSE, more, w), Usual(tokens, w, Inner(todo[1])),
         \A k \in 1 .. Len(w) : Light(tokens, w[k]),
         \A i \in current .. d - 1 : Calm(w, new, i), StartsRight(d, w)
  PROVE  StructureInv'
<1>1. /\ ~IsAliases(todo[1]) /\ ~IsExpect(todo[1]) /\ BraceCost(todo[1]) = 0 /\ LoopCost(todo[1]) = 0
      /\ \A i : ~PassesIn(tokens, todo[1], i) /\ ~StandsIn(tokens, todo[1], i)
  BY PlainCosts
<1>2. HandsStanding(tokens, current, todo, w, new)
  BY <1>1, Zenon DEF HandsStanding
<1>3. Tidy(tokens, w) /\ \A m \in 1 .. Len(w) : Inner(w[m]) => Inner(todo[1])
  BY UsualTidy
<1>4. \A i \in current .. d - 1 : CalmAfter(d, w, new, i)
  BY Zenon DEF Calm, CalmAfter, Recorded
<1> QED BY ONLY Settled, todo # <<>>, d \in Positions, current <= d, Grown(nodes, more, new), PlainNodes(new),
                Step(d, FALSE, more, w), <1>1, <1>2, <1>3, \A k \in 1 .. Len(w) : Light(tokens, w[k]),
                <1>4, StartsRight(d, w), TidyStep

-----------------------------------------------------------------------------
(* The calls that a step leaves.                                           *)

Easy(p, t) == Light(p, t) /\ AtName(p, t) /\ ~IsCast(t) /\ ~IsForInit(t)
Outer(p, t) == Easy(p, t) /\ ~Inner(t) /\ ~Starter(t)
Within(p, t) == Easy(p, t) /\ Inner(t) /\ ~Starter(t)
Opener(p, t) == Easy(p, t) /\ ~Inner(t) /\ Starter(t)

(* What a call is by its name. *)
LooseNames ==
  {"expr", "led", "type", "suffixes", "anon", "default", "items", "comma", "stmt", "stmts", "block",
   "else", "then", "clause", "program", "declaration", "parents", "after parent", "aliases", "members",
   "self", "params", "after param", "returns", "method body", "func params", "after func param"}

LEMMA LooseTasks ==
  ASSUME NEW t, t[1] \in LooseNames
  PROVE  \A p : Easy(p, t)
<1>1. ~IsExpect(t) /\ ~IsBuild(t) /\ ~IsDoCond(t) /\ ~IsForInit(t) /\ ~IsCast(t) /\ ~Declares(t)
      /\ t[1] # "anon field"
  BY Zenon DEF LooseNames, IsExpect, IsBuild, IsDoCond, IsForInit, IsCast, Declares
<1>2. BraceCost(t) = 0 /\ LoopCost(t) = 0
  BY <1>1 DEF BraceCost, LoopCost
<1> QED BY <1>1, <1>2 DEF Easy, Light, AtName, PassesIn

OpenerNames ==
  {"expr", "type", "items", "parents", "func params"}
LEMMA OpenerTasks ==
  /\ \A p : Opener(p, Type) /\ Opener(p, Parents) /\ Opener(p, FuncParams)
  /\ \A p, m : Opener(p, Expr(m))
  /\ \A p, f, t : Opener(p, Items(f, t))
<1>1. ASSUME NEW t, t[1] \in OpenerNames
      PROVE  \A p : Opener(p, t)
  <2>1. t[1] \in LooseNames
    BY <1>1, Zenon DEF LooseNames, OpenerNames
  <2>2. Starter(t) /\ ~Inner(t)
    BY <1>1, Zenon DEF Starter, Inner, OpenerNames
  <2> QED BY <2>1, <2>2, LooseTasks DEF Opener
<1>2. Type[1] \in OpenerNames /\ Parents[1] \in OpenerNames /\ FuncParams[1] \in OpenerNames
      /\ (\A m : Expr(m)[1] \in OpenerNames) /\ \A f, t : Items(f, t)[1] \in OpenerNames
  BY Zenon DEF OpenerNames, Type, Parents, FuncParams, Expr, Items
<1> QED BY <1>1, <1>2, Zenon

OuterNames ==
  {"led", "suffixes", "default", "comma", "block", "program", "declaration", "after parent",
   "after func param"}
LEMMA OuterTasks ==
  /\ \A p : Outer(p, Suffixes) /\ Outer(p, Default) /\ Outer(p, Block) /\ Outer(p, Program)
  /\ \A p : Outer(p, Declaration) /\ Outer(p, AfterParent) /\ Outer(p, AfterFuncParam)
  /\ \A p, m : Outer(p, Led(m)) /\ Outer(p, Comma(m))
<1>1. ASSUME NEW t, t[1] \in OuterNames
      PROVE  \A p : Outer(p, t)
  <2>1. t[1] \in LooseNames
    BY <1>1, Zenon DEF LooseNames, OuterNames
  <2>2. ~Starter(t) /\ ~Inner(t)
    BY <1>1, Zenon DEF Starter, Inner, OuterNames
  <2> QED BY <2>1, <2>2, LooseTasks DEF Outer
<1>2. Suffixes[1] \in OuterNames /\ Default[1] \in OuterNames /\ Block[1] \in OuterNames /\ Program[1] \in OuterNames
      /\ Declaration[1] \in OuterNames /\ AfterParent[1] \in OuterNames
      /\ AfterFuncParam[1] \in OuterNames /\ \A m : Led(m)[1] \in OuterNames /\ Comma(m)[1] \in OuterNames
  BY Zenon DEF OuterNames, Suffixes, Default, Block, Program, Declaration, AfterParent, AfterFuncParam, Led, Comma
<1> QED BY <1>1, <1>2, Zenon

WithinNames ==
  {"anon", "stmt", "stmts", "else", "aliases", "members", "self", "params", "after param", "returns",
   "method body", "clause", "then"}
LEMMA WithinTasks ==
  /\ \A p : Within(p, Anon) /\ Within(p, Stmt) /\ Within(p, Stmts) /\ Within(p, Else) /\ Within(p, Aliases)
  /\ \A p : Within(p, Members) /\ Within(p, Self) /\ Within(p, Params) /\ Within(p, AfterParam)
  /\ \A p : Within(p, Returns) /\ Within(p, MethodBody)
  /\ \A p, t : Within(p, Clause(t))
  /\ \A p, at, b : Within(p, Then(at, b))
<1>1. ASSUME NEW t, t[1] \in WithinNames
      PROVE  \A p : Within(p, t)
  <2>1. t[1] \in LooseNames
    BY <1>1, Zenon DEF LooseNames, WithinNames
  <2>2. ~Starter(t) /\ Inner(t)
    BY <1>1, Zenon DEF Starter, Inner, WithinNames
  <2> QED BY <2>1, <2>2, LooseTasks DEF Within
<1>2. Anon[1] \in WithinNames /\ Stmt[1] \in WithinNames /\ Stmts[1] \in WithinNames /\ Else[1] \in WithinNames /\ Aliases[1] \in WithinNames
      /\ Members[1] \in WithinNames /\ Self[1] \in WithinNames /\ Params[1] \in WithinNames
      /\ AfterParam[1] \in WithinNames /\ Returns[1] \in WithinNames /\ MethodBody[1] \in WithinNames
      /\ (\A t : Clause(t)[1] \in WithinNames) /\ \A at, b : Then(at, b)[1] \in WithinNames
  BY Zenon DEF WithinNames, Anon, Stmt, Stmts, Else, Aliases, Members, Self, Params, AfterParam, Returns, MethodBody, Clause, Then
<1> QED BY <1>1, <1>2, Zenon

(* Closing signs. *)
Sign(t) == t \notin Keywords \cup {"name", LeftBrace}

LEMMA ExpectsOuter ==
  ASSUME NEW t, Sign(t), NEW f
  PROVE  /\ \A p : AtName(p, ExpectOr(t, f)) /\ ~IsCast(ExpectOr(t, f)) /\ ~IsForInit(ExpectOr(t, f))
         /\ ~Inner(ExpectOr(t, f)) /\ ~Starter(ExpectOr(t, f)) /\ LoopCost(ExpectOr(t, f)) = 0
         /\ \A p, i : ~PassesIn(p, ExpectOr(t, f), i)
         /\ BraceCost(ExpectOr(t, f)) = (IF t = RightBrace THEN 1 ELSE 0)
         /\ t # RightBrace => \A p : Outer(p, ExpectOr(t, f))
<1> DEFINE e == ExpectOr(t, f)
<1>1. e[1] = "expect" /\ e[2] = t
  BY DEF ExpectOr
<1> HIDE DEF e
<1>2. IsExpect(e) /\ ~IsBuild(e) /\ ~IsDoCond(e) /\ ~IsForInit(e) /\ ~IsCast(e) /\ ~Declares(e)
      /\ e[1] # "anon field" /\ ~Inner(e) /\ ~Starter(e)
  BY <1>1, Zenon DEF IsExpect, IsBuild, IsDoCond, IsForInit, IsCast, Declares, Inner, Starter
<1>3. LoopCost(e) = 0 /\ BraceCost(e) = (IF t = RightBrace THEN 1 ELSE 0)
  BY <1>1, <1>2 DEF LoopCost, BraceCost
<1>4. \A p : AtName(p, e)
  BY <1>1, <1>2, Zenon DEF AtName, Sign
<1>5. \A p, i : ~PassesIn(p, e, i)
  BY <1>2 DEF PassesIn
<1>6. t # RightBrace => \A p : Outer(p, e)
  BY <1>2, <1>3, <1>4, <1>5 DEF Outer, Easy, Light
<1> QED BY <1>2, <1>3, <1>4, <1>5, <1>6 DEF e

LEMMA Signs ==
  /\ Sign("(") /\ Sign(")") /\ Sign("]") /\ Sign(SemiSign) /\ Sign(RightBrace)
  /\ "(" # RightBrace /\ ")" # RightBrace /\ "]" # RightBrace /\ SemiSign # RightBrace
BY Zenon DEF Sign, Keywords, LeftBrace, RightBrace, SemiSign

(* A node in its place: not a loop, and if it is named it is at a name.    *)
Sits(p, n, at) == ~IsLoop(n) /\ (n \in Named => p[at] = "name" /\ n # "inherit")

LEMMA BuildsOuter ==
  ASSUME NEW p, NEW n, NEW at, NEW b, Sits(p, n, at)
  PROVE  /\ Outer(p, Build(n, at, b)) /\ \A i : ~Passes(p, n, at, i)
<1> DEFINE e == Build(n, at, b)
<1>1. e[1] = "build" /\ e[2] = n /\ e[3] = at
  BY DEF Build
<1> HIDE DEF e
<1>2. IsBuild(e) /\ ~IsExpect(e) /\ ~IsDoCond(e) /\ ~IsForInit(e) /\ ~IsCast(e) /\ ~Declares(e)
      /\ e[1] # "anon field" /\ ~Inner(e) /\ ~Starter(e)
  BY <1>1, Zenon DEF IsExpect, IsBuild, IsDoCond, IsForInit, IsCast, Declares, Inner, Starter
<1>3. LoopCost(e) = 0 /\ BraceCost(e) = 0
  BY <1>1, <1>2 DEF LoopCost, BraceCost, Sits
<1>4. AtName(p, e)
  BY <1>1, <1>2, Zenon DEF AtName, Sits
<1>5. \A i : ~Passes(p, n, at, i)
  <2>1. "field" \in Named /\ "inherit" \in Named /\ "name" # "." /\ "name" \notin Keywords
    BY DEF Named, Keywords
  <2> QED BY <2>1, Zenon DEF Passes, Sits
<1>6. \A i : ~PassesIn(p, e, i)
  BY <1>1, <1>5 DEF PassesIn
<1> QED BY <1>2, <1>3, <1>4, <1>5, <1>6 DEF Outer, Easy, Light, e

(* Calls that have read the name of what they make. *)
LEMMA NamedOuter ==
  ASSUME NEW p, NEW at, p[at] = "name", NEW b
  PROVE  /\ Outer(p, Body(at, b)) /\ Outer(p, FuncReturns(at, b)) /\ Outer(p, FuncBody(at, b))
         /\ Within(p, AnonField(at, b))
<1>1. ASSUME NEW e, Holder(e), e[1] # "build", e[2] = at
      PROVE  Easy(p, e) /\ ~Starter(e) /\ (Inner(e) <=> e[1] = "anon field")
  <2>1. ~IsExpect(e) /\ ~IsBuild(e) /\ ~IsDoCond(e) /\ ~IsForInit(e) /\ ~IsCast(e) /\ ~Starter(e)
        /\ (Inner(e) <=> e[1] = "anon field")
    BY <1>1, Zenon DEF Holder, IsExpect, IsBuild, IsDoCond, IsForInit, IsCast, Inner, Starter
  <2>2. LoopCost(e) = 0 /\ BraceCost(e) = 0
    BY <2>1 DEF LoopCost, BraceCost
  <2>3. AtName(p, e)
    BY <1>1, <2>1, Zenon DEF AtName
  <2> QED BY <2>1, <2>2, <2>3 DEF Easy, Light, PassesIn
<1>2. /\ Holder(Body(at, b)) /\ Body(at, b)[1] # "build" /\ Body(at, b)[2] = at /\ Body(at, b)[1] # "anon field"
      /\ Holder(FuncReturns(at, b)) /\ FuncReturns(at, b)[1] # "build" /\ FuncReturns(at, b)[2] = at
      /\ FuncReturns(at, b)[1] # "anon field"
      /\ Holder(FuncBody(at, b)) /\ FuncBody(at, b)[1] # "build" /\ FuncBody(at, b)[2] = at
      /\ FuncBody(at, b)[1] # "anon field"
      /\ Holder(AnonField(at, b)) /\ AnonField(at, b)[1] # "build" /\ AnonField(at, b)[2] = at
      /\ AnonField(at, b)[1] = "anon field"
  BY DEF Holder, Body, FuncReturns, FuncBody, AnonField
<1>3. Outer(p, Body(at, b)) /\ Outer(p, FuncReturns(at, b)) /\ Outer(p, FuncBody(at, b))
  BY <1>1, <1>2 DEF Outer
<1>4. Within(p, AnonField(at, b))
  BY <1>1, <1>2 DEF Within
<1> QED BY <1>3, <1>4

-----------------------------------------------------------------------------
(* Sequences of calls.                                                     *)

Row(p, w, inner) == Usual(p, w, inner) /\ \A k \in 1 .. Len(w) : Light(p, w[k])
Lead(p, inner, t) == Easy(p, t) /\ (Inner(t) => inner)
After(p, inner, a, t) == Lead(p, inner, t) /\ (Starter(t) => Opening(a))

LEMMA Leads ==
  ASSUME NEW p, NEW inner \in BOOLEAN, NEW t
  PROVE  /\ Outer(p, t) => Lead(p, inner, t) /\ \A a : After(p, inner, a, t)
         /\ Opener(p, t) => Lead(p, inner, t) /\ \A a : Opening(a) => After(p, inner, a, t)
         /\ inner /\ Within(p, t) => Lead(p, inner, t) /\ \A a : After(p, inner, a, t)
BY Zenon DEF Outer, Opener, Within, Lead, After

LEMMA RowOne ==
  ASSUME NEW p, NEW inner
  PROVE  /\ Row(p, <<>>, inner) /\ Len(<<>>) = 0
         /\ \A a : Lead(p, inner, a) => Row(p, <<a>>, inner) /\ Len(<<a>>) = 1
<1>1. Work(<<>>) /\ Len(<<>>) = 0
  <2>1. <<>> \in Seq({})
    OBVIOUS
  <2> QED BY <2>1 DEF Work
<1>2. ASSUME NEW a, Lead(p, inner, a) PROVE Row(p, <<a>>, inner) /\ Len(<<a>>) = 1
  <2>0. PICK w : w = <<a>>
    OBVIOUS
  <2>1. w \in Seq({a}) /\ Len(w) = 1 /\ w[1] = a
    BY <2>0
  <2>2. Work(w)
    BY <2>1 DEF Work
  <2>3. \A m \in 1 .. Len(w) : m = 1
    BY <2>1
  <2>4. Easy(p, a) /\ (Inner(a) => inner)
    BY <1>2 DEF Lead
  <2>5. Usual(p, w, inner)
    BY <2>1, <2>2, <2>3, <2>4 DEF Usual, Fitting, Easy
  <2>6. Row(p, w, inner)
    BY <2>1, <2>3, <2>4, <2>5 DEF Row, Easy
  <2> QED BY <2>0, <2>1, <2>6
<1>3. Row(p, <<>>, inner)
  <2>0. PICK w : w = <<>>
    OBVIOUS
  <2>1. Work(w) /\ 1 .. Len(w) = {}
    BY <1>1, <2>0
  <2>2. Row(p, w, inner)
    BY <2>1 DEF Row, Usual
  <2> QED BY <2>0, <2>2
<1> QED BY <1>1, <1>2, <1>3

LEMMA RowMore ==
  ASSUME NEW p, NEW inner, NEW w, Row(p, w, inner), Len(w) > 0, NEW t, After(p, inner, w[Len(w)], t)
  PROVE  Row(p, Append(w, t), inner) /\ Len(Append(w, t)) = Len(w) + 1 /\ Append(w, t)[Len(w) + 1] = t
<1>1. PICK S : w \in Seq(S)
  BY DEF Row, Usual, Work
<1> DEFINE T == S \cup {t}
           v == Append(w, t)
<1>2. w \in Seq(T) /\ t \in T
  BY <1>1
<1> HIDE DEF T
<1>3. /\ v \in Seq(T) /\ Len(w) \in Nat /\ Len(v) = Len(w) + 1 /\ v[Len(w) + 1] = t
      /\ \A i \in 1 .. Len(w) : v[i] = w[i]
  BY <1>2
<1> HIDE DEF v
<1>4. Work(v)
  BY <1>3 DEF Work
<1>5. ASSUME NEW m \in 1 .. Len(v)
      PROVE  Light(p, v[m]) /\ Fitting(p, v[m], inner) /\ (m > 1 /\ Starter(v[m]) => Opening(v[m - 1]))
  <2>1. CASE m \in 1 .. Len(w)
    <3>1. v[m] = w[m] /\ (m > 1 => v[m - 1] = w[m - 1])
      BY <1>3, <2>1
    <3> QED BY <2>1, <3>1 DEF Row, Usual
  <2>2. CASE m = Len(w) + 1
    <3>1. v[m] = t /\ v[m - 1] = w[Len(w)]
      BY <1>3, <2>2
    <3>2. Light(p, t) /\ Fitting(p, t, inner) /\ (Starter(t) => Opening(w[Len(w)]))
      BY DEF After, Lead, Easy, Fitting
    <3> QED BY <3>1, <3>2
  <2> QED BY <1>3, <2>1, <2>2
<1>6. Row(p, v, inner)
  BY <1>4, <1>5 DEF Row, Usual
<1> QED BY <1>3, <1>6 DEF v

LEMMA RowTwo ==
  ASSUME NEW p, NEW inner, NEW a1, Lead(p, inner, a1), NEW a2, After(p, inner, a1, a2)
  PROVE  Row(p, <<a1, a2>>, inner) /\ Len(<<a1, a2>>) = 2 /\ <<a1, a2>>[2] = a2
<1>1. PICK w : w = <<a1>>
  OBVIOUS
<1>2. Row(p, w, inner) /\ Len(w) = 1 /\ w[1] = a1
  BY <1>1, RowOne
<1>3. <<a1, a2>> = Append(w, a2)
  BY <1>1
<1>4. After(p, inner, w[Len(w)], a2) /\ Len(w) > 0
  BY <1>2
<1>5. Row(p, Append(w, a2), inner) /\ Len(Append(w, a2)) = Len(w) + 1 /\ Append(w, a2)[Len(w) + 1] = a2
  <2>1. Row(p, w, inner) /\ Len(w) > 0 /\ After(p, inner, w[Len(w)], a2)
    BY ONLY <1>2, <1>4
  <2> QED BY ONLY <2>1, RowMore
<1> QED BY <1>2, <1>3, <1>5

LEMMA RowThree ==
  ASSUME NEW p, NEW inner, NEW a1, Lead(p, inner, a1), NEW a2, After(p, inner, a1, a2),
         NEW a3, After(p, inner, a2, a3)
  PROVE  Row(p, <<a1, a2, a3>>, inner) /\ Len(<<a1, a2, a3>>) = 3 /\ <<a1, a2, a3>>[3] = a3
<1>1. PICK w : w = <<a1, a2>>
  OBVIOUS
<1>2. Row(p, w, inner) /\ Len(w) = 2 /\ w[2] = a2
  BY <1>1, RowTwo
<1>3. <<a1, a2, a3>> = Append(w, a3)
  BY <1>1
<1>4. After(p, inner, w[Len(w)], a3) /\ Len(w) > 0
  BY <1>2
<1>5. Row(p, Append(w, a3), inner) /\ Len(Append(w, a3)) = Len(w) + 1 /\ Append(w, a3)[Len(w) + 1] = a3
  <2>1. Row(p, w, inner) /\ Len(w) > 0 /\ After(p, inner, w[Len(w)], a3)
    BY ONLY <1>2, <1>4
  <2> QED BY ONLY <2>1, RowMore
<1> QED BY <1>2, <1>3, <1>5

LEMMA RowFour ==
  ASSUME NEW p, NEW inner, NEW a1, Lead(p, inner, a1), NEW a2, After(p, inner, a1, a2),
         NEW a3, After(p, inner, a2, a3), NEW a4, After(p, inner, a3, a4)
  PROVE  Row(p, <<a1, a2, a3, a4>>, inner) /\ Len(<<a1, a2, a3, a4>>) = 4 /\ <<a1, a2, a3, a4>>[4] = a4
<1>1. PICK w : w = <<a1, a2, a3>>
  OBVIOUS
<1>2. Row(p, w, inner) /\ Len(w) = 3 /\ w[3] = a3
  BY <1>1, RowThree
<1>3. <<a1, a2, a3, a4>> = Append(w, a4)
  BY <1>1
<1>4. After(p, inner, w[Len(w)], a4) /\ Len(w) > 0
  BY <1>2
<1>5. Row(p, Append(w, a4), inner) /\ Len(Append(w, a4)) = Len(w) + 1 /\ Append(w, a4)[Len(w) + 1] = a4
  <2>1. Row(p, w, inner) /\ Len(w) > 0 /\ After(p, inner, w[Len(w)], a4)
    BY ONLY <1>2, <1>4
  <2> QED BY ONLY <2>1, RowMore
<1> QED BY <1>2, <1>3, <1>5

LEMMA RowFive ==
  ASSUME NEW p, NEW inner, NEW a1, Lead(p, inner, a1), NEW a2, After(p, inner, a1, a2),
         NEW a3, After(p, inner, a2, a3), NEW a4, After(p, inner, a3, a4), NEW a5, After(p, inner, a4, a5)
  PROVE  /\ Row(p, <<a1, a2, a3, a4, a5>>, inner) /\ Len(<<a1, a2, a3, a4, a5>>) = 5
         /\ <<a1, a2, a3, a4, a5>>[5] = a5
<1>1. PICK w : w = <<a1, a2, a3, a4>>
  OBVIOUS
<1>2. Row(p, w, inner) /\ Len(w) = 4 /\ w[4] = a4
  BY <1>1, RowFour
<1>3. <<a1, a2, a3, a4, a5>> = Append(w, a5)
  BY <1>1
<1>4. After(p, inner, w[Len(w)], a5) /\ Len(w) > 0
  BY <1>2
<1>5. Row(p, Append(w, a5), inner) /\ Len(Append(w, a5)) = Len(w) + 1 /\ Append(w, a5)[Len(w) + 1] = a5
  <2>1. Row(p, w, inner) /\ Len(w) > 0 /\ After(p, inner, w[Len(w)], a5)
    BY ONLY <1>2, <1>4
  <2> QED BY ONLY <2>1, RowMore
<1> QED BY <1>2, <1>3, <1>5

LEMMA RowSix ==
  ASSUME NEW p, NEW inner, NEW a1, Lead(p, inner, a1), NEW a2, After(p, inner, a1, a2),
         NEW a3, After(p, inner, a2, a3), NEW a4, After(p, inner, a3, a4), NEW a5, After(p, inner, a4, a5),
         NEW a6, After(p, inner, a5, a6)
  PROVE  /\ Row(p, <<a1, a2, a3, a4, a5, a6>>, inner) /\ Len(<<a1, a2, a3, a4, a5, a6>>) = 6
         /\ <<a1, a2, a3, a4, a5, a6>>[6] = a6
<1>1. PICK w : w = <<a1, a2, a3, a4, a5>>
  OBVIOUS
<1>2. Row(p, w, inner) /\ Len(w) = 5 /\ w[5] = a5
  BY <1>1, RowFive
<1>3. <<a1, a2, a3, a4, a5, a6>> = Append(w, a6)
  BY <1>1
<1>4. After(p, inner, w[Len(w)], a6) /\ Len(w) > 0
  BY <1>2
<1>5. Row(p, Append(w, a6), inner) /\ Len(Append(w, a6)) = Len(w) + 1 /\ Append(w, a6)[Len(w) + 1] = a6
  <2>1. Row(p, w, inner) /\ Len(w) > 0 /\ After(p, inner, w[Len(w)], a6)
    BY ONLY <1>2, <1>4
  <2> QED BY ONLY <2>1, RowMore
<1> QED BY <1>2, <1>3, <1>5

-----------------------------------------------------------------------------
(* The innermost call, and what is read.                                   *)

BareNames ==
  {"expr", "led", "type", "suffixes", "anon", "default", "items", "comma", "stmt", "stmts", "block",
   "else", "clause", "program", "declaration", "parents", "after parent", "members", "for init",
   "self", "params", "after param", "returns", "method body", "func params", "after func param",
   "anon field"}
InnerNames ==
  {"aliases", "members", "self", "params", "after param", "returns", "method body",
   "anon", "anon field", "stmt", "stmts", "else", "then", "do cond", "for init", "clause"}

LEMMA HeadShape ==
  ASSUME Settled, NEW n, Doing(n)
  PROVE  /\ Quiet /\ todo # <<>> /\ Head(todo) = todo[1] /\ todo[1][1] = n
         /\ n \in BareNames => PlainHead(todo[1])
         /\ Starter(todo[1]) <=> n \in OpenerNames
         /\ Inner(todo[1]) <=> n \in InnerNames
         /\ Inner(todo[1]) \in BOOLEAN
<1>1. Quiet /\ todo # <<>> /\ Head(todo) = todo[1] /\ todo[1][1] = n
  BY SettledFacts, HeadKinds
<1>2. n \in BareNames => PlainHead(todo[1])
  BY <1>1, Zenon DEF BareNames, PlainHead, IsExpect, IsBuild, IsCast, IsAliases, Declares, IsThen, IsDoCond
<1>3. Starter(todo[1]) <=> n \in OpenerNames
  BY <1>1, Zenon DEF Starter, OpenerNames
<1>4. Inner(todo[1]) <=> n \in InnerNames
  BY <1>1, Zenon DEF Inner, InnerNames
<1>5. Inner(todo[1]) \in BOOLEAN
  BY DEF Inner
<1> QED BY <1>1, <1>2, <1>3, <1>4, <1>5

(* What is read begins nothing, or the work stands for it. *)
Idles(i) == Dull(tokens[i]) \/ Idle(tokens, current, todo[1], i)
Still(d, w) ==
  \A i \in current .. d - 1 :
    Idles(i) \/ (tokens[i] \notin Bounds /\ \E k \in 1 .. Len(w) : StandsIn(tokens, w[k], i))

LEMMA StillFacts ==
  ASSUME Quiet
  PROVE  /\ \A w : Still(current, w)
         /\ current \in Positions /\ current <= current /\ current \in Nat
         /\ Forward(current) \in Positions /\ current <= Forward(current)
         /\ Idles(current) => \A w : Still(Forward(current), w)
         /\ Forward(Forward(current)) \in Positions /\ current <= Forward(Forward(current))
         /\ Idles(current) /\ Idles(Forward(current)) => \A w : Still(Forward(Forward(current)), w)
         /\ Cur # "EOF" => Forward(current) = current + 1 /\ Forward(current) - 1 = current
                           /\ Forward(current) > 1
         /\ Cur # "EOF" /\ tokens[Forward(current)] # "EOF" =>
              Forward(Forward(current)) - 1 = Forward(current) /\ Forward(Forward(current)) > 1
              /\ Forward(Forward(current)) = current + 2
<1>1. current \in Positions /\ current <= current /\ current \in Nat /\ current .. current - 1 = {}
      /\ current >= 1
  BY QuietFacts
<1>2. Forward(current) \in Positions /\ current <= Forward(current)
      /\ (\A i \in current .. Forward(current) - 1 : i = current)
      /\ (Cur # "EOF" => Forward(current) = current + 1)
  BY <1>1, Passed DEF Cur
<1>3. /\ Forward(Forward(current)) \in Positions /\ current <= Forward(Forward(current))
      /\ \A i \in current .. Forward(Forward(current)) - 1 : i = current \/ i = Forward(current)
  BY <1>1, PassedTwo
<1>4. tokens[Forward(current)] # "EOF" => Forward(Forward(current)) = Forward(current) + 1
  BY <1>2, Passed
<1>5. /\ Cur # "EOF" => Forward(current) = current + 1 /\ Forward(current) - 1 = current
                        /\ Forward(current) > 1
      /\ Cur # "EOF" /\ tokens[Forward(current)] # "EOF" =>
              Forward(Forward(current)) - 1 = Forward(current) /\ Forward(Forward(current)) > 1
              /\ Forward(Forward(current)) = current + 2
  BY <1>1, <1>2, <1>4
<1> QED BY <1>1, <1>2, <1>3, <1>5, Zenon DEF Still

(* Which tokens are dull, and which names idle. *)
LEMMA DullTokens ==
  \A t : t \in {"(", ")", "[", "]", SemiSign, ":", "=", ",", ".", "$", "*", "literal", "self", "prim", "else",
                "as", "case", "EOF"} => Dull(t)
BY Zenon DEF Dull, StmtKeywords, LeftBrace, RightBrace, SemiSign

LEMMA IdleNames ==
  ASSUME Settled, NEW n, Doing(n)
  PROVE  /\ Cur = "name" /\ n \in OpenerNames \cup InnerNames => Idles(current)
         /\ Cur # "EOF" /\ ~Ends(Cur) => \/ tokens[Forward(current)] # "name"
                                        \/ Idles(Forward(current))
<1>1. Quiet /\ todo[1][1] = n /\ (Starter(todo[1]) <=> n \in OpenerNames) /\ (Inner(todo[1]) <=> n \in InnerNames)
  BY HeadShape
<1>2. Cur = "name" /\ n \in OpenerNames \cup InnerNames => Idles(current)
  BY <1>1, Zenon DEF Idles, Idle, Cur
<1>3. ASSUME Cur # "EOF", ~Ends(Cur), tokens[Forward(current)] = "name" PROVE Idles(Forward(current))
  <2>1. Forward(current) - 1 = current /\ Forward(current) = current + 1 /\ current \in Nat
    BY <1>1, <1>3, StillFacts
  <2>2. Forward(current) # current
    BY <2>1
  <2>3. ~Ends(tokens[Forward(current) - 1])
    BY <1>3, <2>1 DEF Cur
  <2> QED BY <1>3, <2>2, <2>3, Zenon DEF Idles, Idle
<1> QED BY <1>2, <1>3

-----------------------------------------------------------------------------
(* Steps that open and close nothing.                                      *)

LEMMA LoudStructure ==
  ASSUME NEW c, NEW tree, NEW w, Step(c, TRUE, tree, w)
  PROVE  StructureInv'
BY DEF Step, StructureInv, Silent

LEMMA StillCalm ==
  ASSUME NEW d, NEW w, Still(d, w), NEW new
  PROVE  \A i \in current .. d - 1 : Calm(w, new, i)
BY Zenon DEF Still, Calm, Idles, Standing

LEMMA PlainGoes ==
  ASSUME Settled, NEW n \in BareNames, Doing(n), NEW d \in Positions, current <= d,
         NEW w, Row(tokens, w, Inner(todo[1])), Still(d, w), StartsRight(d, w), Step(d, FALSE, nodes, w)
  PROVE  StructureInv'
<1>1. Quiet /\ todo # <<>> /\ PlainHead(todo[1])
  BY HeadShape
<1>2. PICK new : new = {}
  OBVIOUS
<1>3. PICK more : more = nodes
  OBVIOUS
<1>4. Grown(nodes, more, new) /\ Step(d, FALSE, more, w) /\ PlainNodes(new)
  BY <1>1, <1>2, <1>3, QuietFacts, GrownFacts DEF PlainNodes
<1>5. Usual(tokens, w, Inner(todo[1])) /\ \A k \in 1 .. Len(w) : Light(tokens, w[k])
  BY DEF Row
<1>6. \A i \in current .. d - 1 : Calm(w, new, i)
  BY StillCalm
<1> QED BY ONLY Settled, <1>1, d \in Positions, current <= d, <1>4, <1>5, <1>6, StartsRight(d, w), PlainStep

(* A new node for which nothing need stand. *)
Unobtrusive(k) == ~IsLoop(k.node) /\ \A i : ~Passes(tokens, k.node, k.at, i)

LEMMA PlainMakes ==
  ASSUME Settled, NEW n \in BareNames, Doing(n), NEW d \in Positions, current <= d,
         NEW k, Unobtrusive(k),
         NEW w, Row(tokens, w, Inner(todo[1])), Still(d, w), StartsRight(d, w), Step(d, FALSE, Append(nodes, k), w)
  PROVE  StructureInv'
<1>1. Quiet /\ todo # <<>> /\ PlainHead(todo[1])
  BY HeadShape
<1>2. PICK new : new = {k}
  OBVIOUS
<1>3. PICK more : more = Append(nodes, k)
  OBVIOUS
<1>4. Grown(nodes, more, new) /\ Step(d, FALSE, more, w)
  BY <1>1, <1>2, <1>3, QuietFacts, GrownFacts
<1>7. PlainNodes(new)
  BY <1>2, Zenon DEF PlainNodes, Unobtrusive
<1>5. Usual(tokens, w, Inner(todo[1])) /\ \A m \in 1 .. Len(w) : Light(tokens, w[m])
  BY DEF Row
<1>6. \A i \in current .. d - 1 : Calm(w, new, i)
  BY StillCalm
<1> QED BY ONLY Settled, <1>1, d \in Positions, current <= d, <1>4, <1>5, <1>6, <1>7, StartsRight(d, w), PlainStep

LEMMA PlainLeaf ==
  ASSUME NEW n, NEW at, NEW from, ~IsLoop(n), n \in Named => tokens[at] # ".", n \notin {"inherit", "field"}
  PROVE  Unobtrusive(Node(n, at, from))
BY DEF Unobtrusive, Node, Passes

(* Where the work does not begin an expression or a type, or has its place. *)
LEMMA StartsFacts ==
  ASSUME NEW d, NEW w
  PROVE  /\ Len(w) = 0 => StartsRight(d, w)
         /\ ~Starter(w[1]) => StartsRight(d, w)
         /\ Inner(todo[1]) => StartsRight(d, w)
         /\ d > 1 /\ ~Ends(tokens[d - 1]) => StartsRight(d, w)
         /\ d = current /\ Starter(todo[1]) => StartsRight(d, w)
BY DEF StartsRight

=============================================================================
