---------------------------- MODULE Bodies_proofs ----------------------------
(***************************************************************************)
(* Proofs about the analysis of bodies, for every program: the slots of a  *)
(* frame do not overlap, and a name stands for a variable of the body it   *)
(* is used in.                                                             *)
(***************************************************************************)
EXTENDS Bodies, TLAPS, SequenceTheorems, WellFoundedInduction

-----------------------------------------------------------------------------
(* The values of the variables.                                            *)

NameSet == Names \cup {""}
ParamSet == [name : Names, size : Nat]
SymbolSet == [kind : {"func", "param", "var"}, decl : Nat]
ScopeSet == UNION {[S -> SymbolSet] : S \in SUBSET NameSet}
DeclSet == [name : NameSet, body : Nat, slot : Nat, size : Nat]
UseSet == [name : NameSet, body : Nat, kind : {"none", "func", "param", "var"}, decl : Nat]
ReportSet ==
  [what : {"duplicate", "shadows", "no return", "break", "continue", "undefined", "not a function"},
   name : NameSet, body : Nat]

(* What a task may leave: all but entering a body and popping a scope.     *)
PlainTasks ==
  ({"param"} \X ParamSet)
  \cup ({"block", "loop body"} \X Seq(Stmts))
  \cup ({"stmt", "declare"} \X Stmts)
  \cup ({"expr", "right"} \X Exprs)
  \cup ({"both"} \X BOOLEAN)
  \cup ({"parts"} \X Exprs \X (Nat \ {0}))
  \cup {ExitLoop, CheckReturn, Succeed}

Tasks == PlainTasks \cup {PopBlock, PopBody} \cup ({"body"} \X Nat)

TypeInv ==
  /\ program \in Programs
  /\ todo \in Seq(Tasks)
  /\ scopes \in Seq(ScopeSet)
  /\ loops \in Nat /\ nextSlot \in Nat /\ maxSlot \in Nat
  /\ ok \in BOOLEAN
  /\ decls \in Seq(DeclSet) /\ uses \in Seq(UseSet) /\ reports \in Seq(ReportSet)
  /\ frames \in Seq(Nat)

-----------------------------------------------------------------------------
(* The inductive invariant.                                                *)

(* What is left of the current body comes first and ends by leaving it;    *)
(* the bodies that follow come after it, in order.                         *)
IsBody(task) == task[1] = "body"
IsPopBody(task) == task[1] = "pop body"

Count == Len(program.bodies)
Inner == Len(todo) - (Count - body)

BodiesInOrder ==
  /\ body \in 0 .. Count
  /\ Inner >= 0
  /\ \A i \in DOMAIN todo :
       /\ i > Inner => todo[i] = Body(body + i - Inner)
       /\ i < Inner => ~IsBody(todo[i]) /\ ~IsPopBody(todo[i])
       /\ i = Inner => todo[i] = PopBody
  /\ Len(frames) = IF Inner > 0 THEN body - 1 ELSE body

(* Every scope but the global one is popped by what is left to do: e tells *)
(* how many scopes there are when a task begins.                           *)
Pops(task) == IF task[1] \in {"pop block", "pop body"} THEN 1 ELSE 0

DepthAt(e) ==
  /\ e \in [1 .. Len(todo) + 1 -> Nat]
  /\ e[1] = Len(scopes) /\ e[Len(todo) + 1] = 1
  /\ \A i \in DOMAIN todo :
       /\ e[i] = e[i + 1] + Pops(todo[i])
       /\ IsBody(todo[i]) => e[i] = 1
       /\ ~IsBody(todo[i]) => e[i] >= 2

ScopesMatch == \E e \in [1 .. Len(todo) + 1 -> Nat] : DepthAt(e)

(* The variables in scope are those of the current body.                   *)
ScopesOfBody ==
  /\ scopes # <<>>
  /\ \A n \in DOMAIN scopes[Len(scopes)] : scopes[Len(scopes)][n].kind = "func"
  /\ \A i \in 1 .. Len(scopes) - 1 : \A n \in DOMAIN scopes[i] :
       /\ scopes[i][n].decl \in DOMAIN decls
       /\ decls[scopes[i][n].decl].body = body

UsesKnown ==
  \A u \in DOMAIN uses :
    uses[u].kind \in {"param", "var"} =>
      /\ uses[u].decl \in DOMAIN decls
      /\ decls[uses[u].decl].body = uses[u].body

(* nextSlot is beyond the variables of the current body.                   *)
End(d) == 8 * decls[d].slot + Bytes(decls[d].size)

SlotsTaken ==
  /\ nextSlot <= maxSlot
  /\ \A d \in DOMAIN decls :
       /\ decls[d].body \in 1 .. body
       /\ decls[d].body = body => End(d) <= 8 * nextSlot

IInv ==
  /\ TypeInv
  /\ BodiesInOrder
  /\ ScopesMatch
  /\ ScopesOfBody
  /\ UsesKnown
  /\ SlotsTaken
  /\ SlotsApart

-----------------------------------------------------------------------------
(* Numbers.                                                                *)

(* A value fits into the slots it gets. *)
LEMMA SlotsSuffice ==
  ASSUME NEW size \in Nat
  PROVE  SlotsOf(size) \in Nat /\ Bytes(size) \in Nat /\ Bytes(size) <= 8 * SlotsOf(size)
<1>1. CASE size = 0
  BY <1>1 DEF SlotsOf, Bytes
<1>2. CASE size # 0
  <2>1. (size + 7) \div 8 \in Nat /\ size <= 8 * ((size + 7) \div 8)
    OBVIOUS
  <2> QED BY <1>2, <2>1 DEF SlotsOf, Bytes
<1> QED BY <1>1, <1>2

(* The frame has all the slots. *)
LEMMA FrameSuffices ==
  ASSUME NEW slots \in Nat
  PROVE  FrameSize(slots) \in Nat /\ 8 * slots <= FrameSize(slots)
<1>1. (slots * 8 + 7) \div 8 = slots
  OBVIOUS
<1> QED BY <1>1 DEF FrameSize

(* Every non-empty set of positions has a first one. *)
LEMMA MinIsThere ==
  ASSUME NEW S, S \subseteq Nat, S # {}
  PROVE  Min(S) \in S
<1>1. IsWellFoundedOn(OpToRel(<, Nat), Nat)
  BY NatLessThanWellFounded
<1>2. PICK i \in S : \A j \in S : ~ (<<j, i>> \in OpToRel(<, Nat))
  BY <1>1, WFMin
<1>3. \A j \in S : ~ (j < i)
  BY <1>2 DEF OpToRel
<1>4. \A j \in S : i <= j
  BY <1>3
<1> QED BY <1>4 DEF Min

-----------------------------------------------------------------------------
(* Tasks.                                                                  *)

(* What a task is made of tells it from the others. *)
TaskForm(t) ==
  /\ t[1] = "param" => t[2] \in ParamSet
  /\ t[1] \in {"block", "loop body"} => t[2] \in Seq(Stmts)
  /\ t[1] \in {"stmt", "declare"} => t[2] \in Stmts
  /\ t[1] \in {"expr", "right"} => t[2] \in Exprs
  /\ t[1] = "both" => t[2] \in BOOLEAN
  /\ t[1] = "parts" => t[2] \in Exprs /\ t[3] \in Nat \ {0}

LEMMA PlainParts ==
  ASSUME NEW t \in PlainTasks
  PROVE  /\ t \in Tasks
         /\ ~IsBody(t) /\ ~IsPopBody(t)
         /\ Pops(t) = 0
         /\ TaskForm(t)
<1>1. (t[1] # "body" /\ t[1] # "pop block" /\ t[1] # "pop body") /\ TaskForm(t)
  <2>1. CASE t \in {"param"} \X ParamSet
    <3>1. t[1] = "param" /\ t[2] \in ParamSet
      BY <2>1
    <3> QED BY <3>1 DEF TaskForm
  <2>2. CASE t \in {"block", "loop body"} \X Seq(Stmts)
    <3>1. t[1] \in {"block", "loop body"} /\ t[2] \in Seq(Stmts)
      BY <2>2
    <3> QED BY <3>1 DEF TaskForm
  <2>3. CASE t \in {"stmt", "declare"} \X Stmts
    <3>1. t[1] \in {"stmt", "declare"} /\ t[2] \in Stmts
      BY <2>3
    <3> QED BY <3>1 DEF TaskForm
  <2>4. CASE t \in {"expr", "right"} \X Exprs
    <3>1. t[1] \in {"expr", "right"} /\ t[2] \in Exprs
      BY <2>4
    <3> QED BY <3>1 DEF TaskForm
  <2>5. CASE t \in {"both"} \X BOOLEAN
    <3>1. t[1] = "both" /\ t[2] \in BOOLEAN
      BY <2>5
    <3> QED BY <3>1 DEF TaskForm
  <2>6. CASE t \in {"parts"} \X Exprs \X (Nat \ {0})
    <3>1. t[1] = "parts" /\ t[2] \in Exprs /\ t[3] \in Nat \ {0}
      BY <2>6
    <3> QED BY <3>1 DEF TaskForm
  <2>7. CASE t \in {ExitLoop, CheckReturn, Succeed}
    <3>1. t[1] \in {"exit loop", "check return", "succeed"}
      <4>1. ExitLoop[1] = "exit loop" /\ CheckReturn[1] = "check return" /\ Succeed[1] = "succeed"
        BY DEF ExitLoop, CheckReturn, Succeed
      <4> QED BY <2>7, <4>1
    <3> QED BY <3>1 DEF TaskForm
  <2> QED BY <2>1, <2>2, <2>3, <2>4, <2>5, <2>6, <2>7 DEF PlainTasks
<1>2. ~IsBody(t) /\ ~IsPopBody(t)
  BY <1>1 DEF IsBody, IsPopBody
<1>3. Pops(t) = 0
  BY <1>1 DEF Pops
<1>4. t \in Tasks
  BY DEF Tasks
<1> QED BY <1>1, <1>2, <1>3, <1>4

LEMMA TaskParts ==
  ASSUME NEW t \in Tasks
  PROVE  /\ TaskForm(t)
         /\ IsPopBody(t) => t = PopBody
         /\ Pops(t) \in {0, 1}
<1>1. Pops(t) \in {0, 1}
  BY DEF Pops
<1>2. CASE t \in PlainTasks
  BY <1>1, <1>2, PlainParts
<1>3. CASE t = PopBlock
  <2>1. t[1] = "pop block"
    BY <1>3 DEF PopBlock
  <2> QED BY <1>1, <2>1 DEF TaskForm, IsPopBody
<1>4. CASE t = PopBody
  <2>1. t[1] = "pop body"
    BY <1>4 DEF PopBody
  <2> QED BY <1>1, <1>4, <2>1 DEF TaskForm
<1>5. CASE t \in {"body"} \X Nat
  <2>1. t[1] = "body"
    BY <1>5
  <2> QED BY <1>1, <2>1 DEF TaskForm, IsPopBody
<1> QED BY <1>2, <1>3, <1>4, <1>5 DEF Tasks

(* The tasks that handlers leave. *)
LEMMA PlainOnes ==
  /\ \A p \in ParamSet : Param(p) \in PlainTasks
  /\ \A b \in Seq(Stmts) : Block(b) \in PlainTasks /\ LoopBody(b) \in PlainTasks
  /\ \A s \in Stmts : Stmt(s) \in PlainTasks /\ Declare(s) \in PlainTasks
  /\ \A e \in Exprs : Expr(e) \in PlainTasks /\ Right(e) \in PlainTasks
  /\ \A b \in BOOLEAN : Both(b) \in PlainTasks
  /\ \A e \in Exprs, i \in Nat \ {0} : Parts(e, i) \in PlainTasks
  /\ ExitLoop \in PlainTasks /\ CheckReturn \in PlainTasks /\ Succeed \in PlainTasks
BY DEF PlainTasks, Param, Block, LoopBody, Stmt, Declare, Expr, Right, Both, Parts

LEMMA PlainEach ==
  /\ \A es \in Seq(Exprs) : Exprs1(es) \in Seq(PlainTasks)
  /\ \A ss \in Seq(Stmts) : Stmts1(ss) \in Seq(PlainTasks)
  /\ \A ps \in Seq(ParamSet) : Each(Param, ps) \in Seq(PlainTasks)
  /\ \A bs \in Seq(Seq(Stmts)) : Each(Block, bs) \in Seq(PlainTasks)
<1>1. ASSUME NEW es \in Seq(Exprs) PROVE Exprs1(es) \in Seq(PlainTasks)
  <2>1. Exprs1(es) = [i \in 1 .. Len(es) |-> Expr(es[i])] /\ Len(es) \in Nat
    BY DEF Exprs1, Each
  <2>2. \A i \in 1 .. Len(es) : Expr(es[i]) \in PlainTasks
    BY PlainOnes
  <2> QED BY <2>1, <2>2
<1>2. ASSUME NEW ss \in Seq(Stmts) PROVE Stmts1(ss) \in Seq(PlainTasks)
  <2>1. Stmts1(ss) = [i \in 1 .. Len(ss) |-> Stmt(ss[i])] /\ Len(ss) \in Nat
    BY DEF Stmts1, Each
  <2>2. \A i \in 1 .. Len(ss) : Stmt(ss[i]) \in PlainTasks
    BY PlainOnes
  <2> QED BY <2>1, <2>2
<1>3. ASSUME NEW ps \in Seq(ParamSet) PROVE Each(Param, ps) \in Seq(PlainTasks)
  <2>1. Each(Param, ps) = [i \in 1 .. Len(ps) |-> Param(ps[i])] /\ Len(ps) \in Nat
    BY DEF Each
  <2>2. \A i \in 1 .. Len(ps) : Param(ps[i]) \in PlainTasks
    BY PlainOnes
  <2> QED BY <2>1, <2>2
<1>4. ASSUME NEW bs \in Seq(Seq(Stmts)) PROVE Each(Block, bs) \in Seq(PlainTasks)
  <2>1. Each(Block, bs) = [i \in 1 .. Len(bs) |-> Block(bs[i])] /\ Len(bs) \in Nat
    BY DEF Each
  <2>2. \A i \in 1 .. Len(bs) : Block(bs[i]) \in PlainTasks
    BY PlainOnes
  <2> QED BY <2>1, <2>2
<1> QED BY <1>1, <1>2, <1>3, <1>4

(* What a step leaves comes before the rest. *)
LEMMA WorkFacts ==
  ASSUME todo \in Seq(Tasks), todo # <<>>, NEW tasks \in Seq(Tasks), Work(tasks)
  PROVE  /\ todo' \in Seq(Tasks)
         /\ Len(todo) \in Nat /\ Len(todo) > 0 /\ Len(tasks) \in Nat /\ Head(todo) = todo[1]
         /\ DOMAIN todo = 1 .. Len(todo) /\ DOMAIN todo' = 1 .. Len(todo')
         /\ Len(todo') = Len(tasks) + Len(todo) - 1
         /\ \A i \in 1 .. Len(tasks) : i \in DOMAIN todo' /\ todo'[i] = tasks[i]
         /\ \A i \in 2 .. Len(todo) : /\ Len(tasks) + i - 1 \in DOMAIN todo'
                                      /\ todo'[Len(tasks) + i - 1] = todo[i]
         /\ \A i \in DOMAIN todo' :
              \/ i \in 1 .. Len(tasks)
              \/ i - Len(tasks) + 1 \in 2 .. Len(todo) /\ todo'[i] = todo[i - Len(tasks) + 1]
<1> DEFINE t == Tail(todo)
<1>1. /\ Len(todo) \in Nat /\ Len(todo) > 0 /\ DOMAIN todo = 1 .. Len(todo)
      /\ Head(todo) = todo[1]
      /\ t \in Seq(Tasks) /\ Len(t) = Len(todo) - 1
      /\ \A i \in 1 .. Len(t) : t[i] = todo[i + 1]
      /\ Len(tasks) \in Nat
  OBVIOUS
<1> HIDE DEF t
<1>2. todo' = tasks \o t
  BY DEF Work, t
<1>3. /\ todo' \in Seq(Tasks)
      /\ Len(todo') = Len(tasks) + Len(t)
      /\ \A i \in 1 .. Len(tasks) + Len(t) :
           todo'[i] = IF i <= Len(tasks) THEN tasks[i] ELSE t[i - Len(tasks)]
  BY <1>1, <1>2, ConcatProperties
<1>4. DOMAIN todo' = 1 .. Len(todo')
  BY <1>3
<1>5. \A i \in 1 .. Len(tasks) : i \in DOMAIN todo' /\ todo'[i] = tasks[i]
  BY <1>1, <1>3, <1>4
<1>6. ASSUME NEW i \in 2 .. Len(todo)
      PROVE  Len(tasks) + i - 1 \in DOMAIN todo' /\ todo'[Len(tasks) + i - 1] = todo[i]
  <2> DEFINE k == Len(tasks) + i - 1
  <2>1. /\ k \in 1 .. Len(tasks) + Len(t) /\ ~(k <= Len(tasks))
        /\ k - Len(tasks) \in 1 .. Len(t) /\ (k - Len(tasks)) + 1 = i
    BY <1>1
  <2> HIDE DEF k
  <2>2. k \in DOMAIN todo' /\ todo'[k] = todo[i]
    BY <1>1, <1>3, <1>4, <2>1
  <2> QED BY <2>2 DEF k
<1>7. ASSUME NEW i \in DOMAIN todo', i \notin 1 .. Len(tasks)
      PROVE  i - Len(tasks) + 1 \in 2 .. Len(todo) /\ todo'[i] = todo[i - Len(tasks) + 1]
  <2>1. /\ i \in 1 .. Len(tasks) + Len(t) /\ ~(i <= Len(tasks))
        /\ i - Len(tasks) \in 1 .. Len(t) /\ i - Len(tasks) + 1 \in 2 .. Len(todo)
    BY <1>1, <1>3, <1>4, <1>7
  <2> QED BY <1>1, <1>3, <2>1
<1> QED BY <1>1, <1>3, <1>4, <1>5, <1>6, <1>7

-----------------------------------------------------------------------------
(* The order of the bodies and the depth of the scopes.                    *)

LEMMA CountFacts == TypeInv => Count \in Nat /\ program.bodies \in Seq(FuncShape)
BY ProgramsAssumption DEF TypeInv, Count

(* Which part of what is left the first task belongs to. *)
LEMMA HeadFacts ==
  ASSUME TypeInv, BodiesInOrder, todo # <<>>
  PROVE  /\ Inner \in Int /\ Count \in Nat /\ body \in Nat
         /\ Head(todo) \in Tasks /\ Head(todo) = todo[1] /\ 1 \in DOMAIN todo
         /\ IsBody(Head(todo)) => Inner = 0 /\ Head(todo) = Body(body + 1)
         /\ ~IsBody(Head(todo)) => Inner > 0 /\ body \in 1 .. Count
         /\ IsPopBody(Head(todo)) => Inner = 1
<1>1. /\ Len(todo) \in Nat /\ Len(todo) > 0 /\ DOMAIN todo = 1 .. Len(todo)
      /\ Head(todo) = todo[1] /\ Head(todo) \in Tasks
  BY DEF TypeInv
<1>2. Count \in Nat /\ body \in Nat /\ Inner \in Int /\ Inner >= 0 /\ body <= Count
  <2>1. body \in 0 .. Count /\ Inner >= 0
    BY DEF BodiesInOrder
  <2>2. Count \in Nat
    BY CountFacts
  <2>3. body \in Nat /\ body <= Count
    BY <2>1, <2>2
  <2>4. Inner \in Int
    BY <1>1, <2>2, <2>3 DEF Inner
  <2> QED BY <2>1, <2>2, <2>3, <2>4
<1>3. 1 \in DOMAIN todo
  BY <1>1
<1>4. /\ 1 > Inner => todo[1] = Body(body + 1 - Inner)
      /\ 1 < Inner => ~IsBody(todo[1]) /\ ~IsPopBody(todo[1])
      /\ 1 = Inner => todo[1] = PopBody
  BY <1>3 DEF BodiesInOrder
<1>5. CASE Inner = 0
  <2>1. 1 > Inner /\ body + 1 - Inner = body + 1 /\ ~(Inner > 0)
    BY <1>2, <1>5
  <2>2. todo[1] = Body(body + 1)
    BY <1>4, <2>1
  <2>3. IsBody(todo[1]) /\ ~IsPopBody(todo[1])
    BY <2>2 DEF Body, IsBody, IsPopBody
  <2> QED BY <1>1, <1>2, <1>3, <1>5, <2>2, <2>3
<1>6. CASE Inner > 0
  <2>1. ~IsBody(todo[1]) /\ (IsPopBody(todo[1]) => Inner = 1)
    <3>1. IsPopBody(PopBody) /\ ~IsBody(PopBody)
      BY DEF PopBody, IsPopBody, IsBody
    <3>2. Inner = 1 \/ 1 < Inner
      BY <1>2, <1>6
    <3> QED BY <1>4, <3>1, <3>2
  <2>2. body \in 1 .. Count
    <3>1. Len(frames) = body - 1
      BY <1>6 DEF BodiesInOrder
    <3>2. Len(frames) \in Nat
      BY DEF TypeInv
    <3> QED BY <1>2, <3>1, <3>2
  <2> QED BY <1>1, <1>2, <1>3, <1>6, <2>1, <2>2
<1>7. Inner = 0 \/ Inner > 0
  BY <1>2
<1> QED BY <1>5, <1>6, <1>7

(* A step inside a body keeps to the order. *)
LEMMA OrderKept ==
  ASSUME TypeInv, BodiesInOrder, todo # <<>>, ~IsBody(Head(todo)), ~IsPopBody(Head(todo)),
         NEW tasks \in Seq(Tasks), Work(tasks),
         \A i \in 1 .. Len(tasks) : ~IsBody(tasks[i]) /\ ~IsPopBody(tasks[i]),
         UNCHANGED <<program, body, frames>>
  PROVE  BodiesInOrder'
<1>1. /\ Inner \in Int /\ Inner > 0 /\ Count \in Nat /\ body \in Nat
  BY HeadFacts
<1>2. Inner # 1
  <2>1. 1 = Inner => todo[1] = PopBody
    BY HeadFacts DEF BodiesInOrder
  <2>2. IsPopBody(PopBody)
    BY DEF PopBody, IsPopBody
  <2> QED BY HeadFacts, <2>1, <2>2
<1>3. todo \in Seq(Tasks)
  BY DEF TypeInv
<1> DEFINE n == Len(tasks)
<1>4. /\ Len(todo) \in Nat /\ n \in Nat
      /\ DOMAIN todo = 1 .. Len(todo)
      /\ DOMAIN todo' = 1 .. Len(todo') /\ Len(todo') = n + Len(todo) - 1
      /\ \A i \in 1 .. n : todo'[i] = tasks[i]
      /\ \A i \in DOMAIN todo' :
           \/ i \in 1 .. n
           \/ i - n + 1 \in 2 .. Len(todo) /\ todo'[i] = todo[i - n + 1]
  BY <1>3, WorkFacts
<1>5. Count' = Count /\ body' = body /\ frames' = frames
  BY DEF Count
<1>6. Inner' = n + Inner - 1
  BY <1>1, <1>4, <1>5 DEF Inner
<1> HIDE DEF n
<1>7. ASSUME NEW i \in DOMAIN todo'
      PROVE  /\ i > Inner' => todo'[i] = Body(body' + i - Inner')
             /\ i < Inner' => ~IsBody(todo'[i]) /\ ~IsPopBody(todo'[i])
             /\ i = Inner' => todo'[i] = PopBody
  <2>1. CASE i \in 1 .. n
    <3>1. i < Inner'
      BY <1>1, <1>2, <1>4, <1>6, <2>1
    <3>2. ~IsBody(todo'[i]) /\ ~IsPopBody(todo'[i])
      BY <1>4, <2>1 DEF n
    <3> QED BY <1>1, <1>4, <1>6, <2>1, <3>1, <3>2
  <2>2. CASE i \notin 1 .. n
    <3> DEFINE k == i - n + 1
    <3>1. k \in 2 .. Len(todo) /\ todo'[i] = todo[k]
      BY <1>4, <2>2
    <3>2. i \in Int
      BY <1>4
    <3>3. k - Inner = i - Inner' /\ k \in Int /\ body + k - Inner = body' + i - Inner'
      BY <1>1, <1>4, <1>5, <1>6, <3>2
    <3>4. (i > Inner' <=> k > Inner) /\ (i < Inner' <=> k < Inner) /\ (i = Inner' <=> k = Inner)
      <4>1. Inner' \in Int /\ n \in Int
        BY <1>1, <1>4, <1>6
      <4> QED BY <1>1, <1>6, <3>2, <4>1
    <3> HIDE DEF k
    <3>5. k \in DOMAIN todo
      BY <1>4, <3>1
    <3>6. /\ k > Inner => todo[k] = Body(body + k - Inner)
          /\ k < Inner => ~IsBody(todo[k]) /\ ~IsPopBody(todo[k])
          /\ k = Inner => todo[k] = PopBody
      BY <3>5 DEF BodiesInOrder
    <3> QED BY <3>1, <3>3, <3>4, <3>6
  <2> QED BY <2>1, <2>2
<1>8. Inner' > 0
  BY <1>1, <1>2, <1>4, <1>6
<1>9. Len(frames') = IF Inner' > 0 THEN body' - 1 ELSE body'
  BY <1>1, <1>5, <1>8 DEF BodiesInOrder
<1>10. body' \in 0 .. Count' /\ Inner' >= 0
  BY <1>5, <1>8, <1>6, <1>1, <1>4 DEF BodiesInOrder
<1> QED BY <1>7, <1>9, <1>10 DEF BodiesInOrder

(* What a step leaves pops the scopes that the step has pushed. *)
LEMMA DepthKept ==
  ASSUME todo \in Seq(Tasks), ScopesMatch, todo # <<>>,
         NEW tasks \in Seq(Tasks), Work(tasks), NEW n \in Nat, Len(scopes') = n,
         \A i \in 1 .. Len(tasks) :
           ~IsBody(tasks[i]) /\ (i # Len(tasks) => Pops(tasks[i]) = 0),
         tasks = <<>> => n = Len(scopes) - Pops(Head(todo)),
         tasks # <<>> => /\ n >= 2
                         /\ n = Len(scopes) - Pops(Head(todo)) + Pops(tasks[Len(tasks)])
  PROVE  ScopesMatch'
<1> DEFINE m == Len(tasks)
<1>1. /\ todo' \in Seq(Tasks)
      /\ Len(todo) \in Nat /\ Len(todo) > 0 /\ m \in Nat /\ Head(todo) = todo[1]
      /\ DOMAIN todo = 1 .. Len(todo)
      /\ DOMAIN todo' = 1 .. Len(todo') /\ Len(todo') = m + Len(todo) - 1
      /\ \A i \in 1 .. m : todo'[i] = tasks[i]
      /\ \A i \in DOMAIN todo' :
           \/ i \in 1 .. m
           \/ i - m + 1 \in 2 .. Len(todo) /\ todo'[i] = todo[i - m + 1]
  BY WorkFacts
<1>2. PICK e \in [1 .. Len(todo) + 1 -> Nat] : DepthAt(e)
  BY DEF ScopesMatch
<1>3. /\ e[1] = Len(scopes) /\ e[Len(todo) + 1] = 1
      /\ \A i \in 1 .. Len(todo) :
           /\ e[i] = e[i + 1] + Pops(todo[i])
           /\ IsBody(todo[i]) => e[i] = 1
           /\ ~IsBody(todo[i]) => e[i] >= 2
  BY <1>1, <1>2 DEF DepthAt
<1>4. e[2] \in Nat /\ e[2] = Len(scopes) - Pops(Head(todo)) /\ Pops(Head(todo)) \in Nat
  <2>1. 2 \in 1 .. Len(todo) + 1 /\ 1 \in 1 .. Len(todo) /\ 1 + 1 = 2
    BY <1>1
  <2>2. e[2] \in Nat /\ e[1] = e[2] + Pops(todo[1])
    BY <1>2, <1>3, <2>1
  <2>3. Pops(todo[1]) \in Nat
    BY DEF Pops
  <2> QED BY <1>1, <1>3, <2>2, <2>3
<1> DEFINE f == [i \in 1 .. Len(todo') + 1 |-> IF i <= m THEN n ELSE e[i - m + 1]]
<1>11. Len(todo') \in Nat /\ Len(todo') = m + Len(todo) - 1 /\ m \in Nat /\ Len(todo) \in Nat
  BY <1>1
<1>5. f \in [1 .. Len(todo') + 1 -> Nat]
  <2> SUFFICES ASSUME NEW i \in 1 .. Len(todo') + 1, ~(i <= m) PROVE e[i - m + 1] \in Nat
    OBVIOUS
  <2>1. i - m + 1 \in 1 .. Len(todo) + 1
    BY <1>1
  <2> QED BY <1>2, <2>1
<1>6. /\ \A i \in 1 .. m : f[i] = n
      /\ \A i \in 1 .. Len(todo') + 1 : i \notin 1 .. m => f[i] = e[i - m + 1]
  BY <1>1
<1>13. \A i \in 1 .. m : ~IsBody(tasks[i]) /\ (i # m => Pops(tasks[i]) = 0)
  OBVIOUS
<1> HIDE DEF f, m
<1>14. ASSUME NEW i \in 1 .. Len(todo') + 1, i \notin 1 .. m PROVE f[i] = e[i - m + 1]
  BY <1>6, <1>14
<1>7. f[1] = n
  <2>1. CASE m = 0
    <3>1. tasks = <<>>
      BY <2>1 DEF m
    <3>2. 1 \in 1 .. Len(todo') + 1 /\ 1 \notin 1 .. m /\ 1 - m + 1 = 2
      BY <1>1, <2>1
    <3> QED BY <1>4, <1>6, <3>1, <3>2
  <2>2. CASE m # 0
    BY <1>1, <1>6, <2>2
  <2> QED BY <2>1, <2>2
<1>8. f[Len(todo') + 1] = 1
  <2> DEFINE k == Len(todo') + 1
  <2>1. k \in 1 .. Len(todo') + 1 /\ k \notin 1 .. m /\ k - m + 1 = Len(todo) + 1
    BY <1>1, <1>11
  <2> HIDE DEF k
  <2>2. f[k] = e[k - m + 1]
    BY <1>6, <2>1
  <2> QED BY <1>3, <2>1, <2>2 DEF k
<1>9. ASSUME NEW i \in DOMAIN todo'
      PROVE  /\ f[i] = f[i + 1] + Pops(todo'[i])
             /\ IsBody(todo'[i]) => f[i] = 1
             /\ ~IsBody(todo'[i]) => f[i] >= 2
  <2>1. CASE i \in 1 .. m
    <3>1. tasks # <<>> /\ todo'[i] = tasks[i] /\ f[i] = n /\ n >= 2 /\ i \in Nat
      BY <1>1, <1>6, <2>1 DEF m
    <3>2. ~IsBody(tasks[i]) /\ (i # m => Pops(tasks[i]) = 0)
      BY <1>13, <2>1
    <3>3. f[i] = f[i + 1] + Pops(tasks[i])
      <4>1. CASE i = m
        <5>1. i + 1 \in 1 .. Len(todo') + 1 /\ i + 1 \notin 1 .. m /\ (i + 1) - m + 1 = 2
          BY <1>1, <2>1, <4>1
        <5>2. f[i + 1] = e[(i + 1) - m + 1]
          <6> DEFINE j == i + 1
          <6> HIDE DEF j
          <6>1. j \in 1 .. Len(todo') + 1 /\ j \notin 1 .. m
            BY <5>1 DEF j
          <6>2. f[j] = e[j - m + 1]
            BY <1>14, <6>1, Zenon
          <6> QED BY <6>2, Zenon DEF j
        <5>3. n = e[2] + Pops(tasks[m])
          <6>1. n = Len(scopes) - Pops(Head(todo)) + Pops(tasks[m])
            BY <3>1 DEF m
          <6> QED BY <1>4, <6>1
        <5> QED BY <3>1, <4>1, <5>1, <5>2, <5>3
      <4>2. CASE i # m
        <5>1. i + 1 \in 1 .. m
          BY <1>11, <2>1, <4>2
        <5>2. Pops(tasks[i]) = 0
          BY <3>2, <4>2
        <5> QED BY <1>6, <3>1, <5>1, <5>2
      <4> QED BY <4>1, <4>2
    <3> QED BY <3>1, <3>2, <3>3
  <2>2. CASE i \notin 1 .. m
    <3> DEFINE k == i - m + 1
    <3>1. k \in 2 .. Len(todo) /\ todo'[i] = todo[k]
      BY <1>1, <2>2
    <3>2. /\ i \in 1 .. Len(todo') + 1 /\ i + 1 \in 1 .. Len(todo') + 1
          /\ i + 1 \notin 1 .. m /\ (i + 1) - m + 1 = k + 1
      <4>1. i \in 1 .. Len(todo')
        BY <1>1
      <4>2. i \in Int /\ m < i /\ i <= Len(todo')
        BY <1>11, <2>2, <4>1
      <4>3. (i + 1) - m + 1 = k + 1
        BY <1>11, <4>2
      <4>4. i \in 1 .. Len(todo') + 1 /\ i + 1 \in 1 .. Len(todo') + 1
        BY <1>11, <4>1
      <4>5. i + 1 \notin 1 .. m
        BY <1>11, <4>2
      <4> QED BY <4>3, <4>4, <4>5, Zenon
    <3>3. f[i] = e[k] /\ f[i + 1] = e[k + 1]
      <4>1. f[i] = e[i - m + 1]
        BY <1>6, <2>2, <3>2
      <4>2. f[i + 1] = e[(i + 1) - m + 1]
        <5> DEFINE j == i + 1
        <5> HIDE DEF j
        <5>1. j \in 1 .. Len(todo') + 1 /\ j \notin 1 .. m
          BY <3>2 DEF j
        <5>2. f[j] = e[j - m + 1]
          BY <1>14, <5>1, Zenon
        <5> QED BY <5>2, Zenon DEF j
      <4> QED BY <3>2, <4>1, <4>2
    <3> HIDE DEF k
    <3>4. k \in 1 .. Len(todo)
      BY <1>1, <3>1
    <3>5. /\ e[k] = e[k + 1] + Pops(todo[k])
          /\ IsBody(todo[k]) => e[k] = 1
          /\ ~IsBody(todo[k]) => e[k] >= 2
      BY <1>3, <3>4
    <3> QED BY <3>1, <3>3, <3>5
  <2> QED BY <2>1, <2>2
<1>10. PICK g \in [1 .. Len(todo') + 1 -> Nat] :
         /\ g[1] = Len(scopes') /\ g[Len(todo') + 1] = 1
         /\ \A i \in DOMAIN todo' :
              /\ g[i] = g[i + 1] + Pops(todo'[i])
              /\ IsBody(todo'[i]) => g[i] = 1
              /\ ~IsBody(todo'[i]) => g[i] >= 2
  BY <1>5, <1>7, <1>8, <1>9, Zenon
<1>12. DepthAt(g)'
  BY <1>10, Zenon DEF DepthAt, Pops, IsBody
<1> QED BY <1>10, <1>12, Zenon DEF ScopesMatch

(* How many scopes there are when a task is taken up. *)
LEMMA DepthNow ==
  ASSUME todo \in Seq(Tasks), ScopesMatch, todo # <<>>
  PROVE  /\ Len(scopes) \in Nat
         /\ IsBody(Head(todo)) => Len(scopes) = 1
         /\ ~IsBody(Head(todo)) => Len(scopes) >= 2
<1>1. PICK e \in [1 .. Len(todo) + 1 -> Nat] : DepthAt(e)
  BY DEF ScopesMatch
<1>2. 1 \in DOMAIN todo /\ Head(todo) = todo[1] /\ 1 \in 1 .. Len(todo) + 1
  OBVIOUS
<1> QED BY <1>1, <1>2 DEF DepthAt

-----------------------------------------------------------------------------
(* Steps that declare nothing and enter or leave no scope.                 *)

LEMMA PlainSeq ==
  ASSUME NEW tasks \in Seq(PlainTasks)
  PROVE  /\ tasks \in Seq(Tasks) /\ Len(tasks) \in Nat
         /\ \A i \in 1 .. Len(tasks) :
              ~IsBody(tasks[i]) /\ ~IsPopBody(tasks[i]) /\ Pops(tasks[i]) = 0
         /\ tasks # <<>> => Len(tasks) \in 1 .. Len(tasks)
<1>1. \A i \in 1 .. Len(tasks) : tasks[i] \in PlainTasks
  OBVIOUS
<1>2. \A i \in 1 .. Len(tasks) :
        ~IsBody(tasks[i]) /\ ~IsPopBody(tasks[i]) /\ Pops(tasks[i]) = 0
  BY <1>1, PlainParts
<1>3. PlainTasks \subseteq Tasks
  BY DEF Tasks
<1>4. tasks \in Seq(Tasks) /\ Len(tasks) \in Nat
  BY <1>3
<1>5. tasks # <<>> => Len(tasks) \in 1 .. Len(tasks)
  OBVIOUS
<1> QED BY <1>2, <1>4, <1>5

LEMMA PlainSeqs ==
  /\ <<>> \in Seq(PlainTasks)
  /\ \A t \in PlainTasks : <<t>> \in Seq(PlainTasks)
  /\ \A t, u \in PlainTasks : <<t, u>> \in Seq(PlainTasks)
  /\ \A a, b \in Seq(PlainTasks) : a \o b \in Seq(PlainTasks)
<1>1. \A a, b \in Seq(PlainTasks) : a \o b \in Seq(PlainTasks)
  BY ConcatProperties
<1> QED BY <1>1

(* The next task is one. *)
LEMMA HeadIsTask == ASSUME TypeInv, todo # <<>> PROVE Head(todo) \in Tasks
BY DEF TypeInv

(* A task that is neither a body nor a pop. *)
LEMMA DoingPlain ==
  ASSUME TypeInv, NEW kind, Doing(kind), kind \notin {"body", "pop block", "pop body"}
  PROVE  /\ todo # <<>> /\ Head(todo) \in Tasks
         /\ ~IsBody(Head(todo)) /\ ~IsPopBody(Head(todo)) /\ Pops(Head(todo)) = 0
         /\ TaskForm(Head(todo)) /\ Head(todo)[1] = kind
<1>1. todo # <<>> /\ Head(todo)[1] = kind
  BY DEF Doing
<1>2. Head(todo) \in Tasks
  BY <1>1, HeadIsTask, Zenon
<1>3. ~IsBody(Head(todo)) /\ ~IsPopBody(Head(todo)) /\ Pops(Head(todo)) = 0
  BY <1>1 DEF IsBody, IsPopBody, Pops
<1> QED BY <1>1, <1>2, <1>3, TaskParts

LEMMA QuietKeeps ==
  ASSUME IInv, todo # <<>>,
         ~IsBody(Head(todo)), ~IsPopBody(Head(todo)), Pops(Head(todo)) = 0,
         NEW tasks \in Seq(PlainTasks), Work(tasks),
         UNCHANGED <<program, body, scopeVars, slotVars, frames>>,
         ok' \in BOOLEAN, loops' \in Nat, reports' \in Seq(ReportSet),
         uses' \in Seq(UseSet), UsesKnown'
  PROVE  IInv'
<1>1. /\ TypeInv /\ BodiesInOrder /\ ScopesMatch /\ ScopesOfBody /\ SlotsTaken /\ SlotsApart
      /\ todo \in Seq(Tasks)
  BY DEF IInv, TypeInv
<1>2. /\ program' = program /\ body' = body /\ scopes' = scopes /\ decls' = decls
      /\ nextSlot' = nextSlot /\ maxSlot' = maxSlot /\ frames' = frames
  BY DEF scopeVars, slotVars
<1>3. /\ tasks \in Seq(Tasks)
      /\ \A i \in 1 .. Len(tasks) :
           ~IsBody(tasks[i]) /\ ~IsPopBody(tasks[i]) /\ Pops(tasks[i]) = 0
      /\ tasks # <<>> => Len(tasks) \in 1 .. Len(tasks)
  BY PlainSeq
<1>4. todo' \in Seq(Tasks)
  BY <1>1, <1>3, WorkFacts
<1>5. TypeInv'
  BY <1>1, <1>2, <1>4 DEF TypeInv
<1>6. BodiesInOrder'
  BY <1>1, <1>2, <1>3, OrderKept
<1>7. ScopesMatch'
  <2>1. Len(scopes) \in Nat /\ Len(scopes) >= 2
    BY <1>1, DepthNow
  <2>2. Len(scopes') = Len(scopes)
    BY <1>2
  <2>3. tasks # <<>> => Pops(tasks[Len(tasks)]) = 0
    BY <1>3
  <2>4. tasks = <<>> => Len(scopes) = Len(scopes) - Pops(Head(todo))
    BY <2>1
  <2>5. tasks # <<>> => /\ Len(scopes) >= 2
                        /\ Len(scopes) = Len(scopes) - Pops(Head(todo)) + Pops(tasks[Len(tasks)])
    BY <2>1, <2>3
  <2> QED BY <1>1, <1>3, <2>1, <2>2, <2>4, <2>5, DepthKept
<1>8. ScopesOfBody'
  BY <1>1, <1>2 DEF ScopesOfBody
<1>9. SlotsTaken'
  BY <1>1, <1>2 DEF SlotsTaken, End
<1>10. SlotsApart'
  BY <1>1, <1>2 DEF SlotsApart
<1> QED BY <1>5, <1>6, <1>7, <1>8, <1>9, <1>10 DEF IInv

(* The parts of a statement and of an expression. *)
LEMMA StmtParts ==
  ASSUME NEW s \in Stmts
  PROVE  /\ s.name \in NameSet /\ s.size \in Nat
         /\ s.expr \in Seq(Exprs) /\ s.iter \in Seq(Exprs)
         /\ s.init \in Seq(Stmts) /\ s.body \in Seq(Stmts) /\ s.else \in Seq(Stmts)
BY StmtsAssumption DEF StmtShape, NameSet

LEMMA ExprParts ==
  ASSUME NEW e \in Exprs
  PROVE  /\ e.name \in NameSet /\ e.parts \in Seq(Exprs)
         /\ e.form = "binary" => e.parts[1] \in Exprs /\ e.parts[2] \in Exprs
         /\ e.form \in {"call", "parts"} => e.parts[1] \in Exprs
<1>1. e \in ExprShape
  BY ExprsAssumption
<1>2. e.name \in NameSet /\ e.parts \in Seq(Exprs)
  BY <1>1 DEF ExprShape, NameSet
<1>3. e.form = "binary" => Len(e.parts) = 2
  BY ExprsAssumption
<1>4. e.form \in {"call", "parts"} => e.parts # <<>>
  BY ExprsAssumption
<1> QED BY <1>2, <1>3, <1>4

(* Statements that only hand over what is inside them. *)
LEMMA AnalyzesKeeps ==
  ASSUME IInv, NEW kind, Doing(kind), kind \notin {"body", "pop block", "pop body"},
         NEW tasks \in Seq(PlainTasks), Analyzes(tasks)
  PROVE  IInv'
<1>1. TypeInv /\ UsesKnown
  BY DEF IInv
<1>2. /\ todo # <<>> /\ ~IsBody(Head(todo)) /\ ~IsPopBody(Head(todo)) /\ Pops(Head(todo)) = 0
  BY <1>1, DoingPlain
<1>3. /\ Work(tasks) /\ UNCHANGED <<program, body, scopeVars, slotVars, frames>>
      /\ ok' = ok /\ loops' = loops /\ reports' = reports /\ uses' = uses /\ decls' = decls
  BY DEF Analyzes, scopeVars
<1>4. /\ ok' \in BOOLEAN /\ loops' \in Nat /\ reports' \in Seq(ReportSet)
      /\ uses' \in Seq(UseSet)
  BY <1>1, <1>3 DEF TypeInv
<1>5. UsesKnown'
  BY <1>1, <1>3 DEF UsesKnown
<1> QED BY <1>2, <1>3, <1>4, <1>5, QuietKeeps

LEMMA StatementsKeep ==
  ASSUME IInv, \/ AnalyzeBlock \/ AnalyzeDecl \/ AnalyzeExprStmt \/ AnalyzeIf
               \/ AnalyzeFor \/ AnalyzeWhile \/ AnalyzeDoWhile
  PROVE  IInv'
<1>1. TypeInv
  BY DEF IInv
<1>2. Doing("stmt")
  BY DEF AnalyzeBlock, AnalyzeDecl, AnalyzeExprStmt, AnalyzeIf, AnalyzeFor, AnalyzeWhile,
         AnalyzeDoWhile, Is
<1>3. Arg \in Stmts
  BY <1>1, <1>2, DoingPlain DEF TaskForm, Arg
<1> DEFINE s == Arg
<1> HIDE DEF s
<1>4. /\ s.expr \in Seq(Exprs) /\ s.iter \in Seq(Exprs) /\ s.init \in Seq(Stmts)
      /\ s.body \in Seq(Stmts) /\ s.else \in Seq(Stmts)
  BY <1>3, StmtParts DEF s
<1>5. /\ Exprs1(s.expr) \in Seq(PlainTasks) /\ Exprs1(s.iter) \in Seq(PlainTasks)
      /\ Stmts1(s.init) \in Seq(PlainTasks) /\ Stmts1(s.else) \in Seq(PlainTasks)
      /\ Stmts1(<<>>) \in Seq(PlainTasks)
  <2>1. <<>> \in Seq(Stmts)
    OBVIOUS
  <2> QED BY <1>4, <2>1, PlainEach
<1>6. /\ <<Block(s.body)>> \in Seq(PlainTasks) /\ <<LoopBody(s.body)>> \in Seq(PlainTasks)
      /\ <<Declare(s)>> \in Seq(PlainTasks)
  BY <1>3, <1>4, PlainOnes, PlainSeqs DEF s
<1>7. ASSUME NEW tasks \in Seq(PlainTasks), Analyzes(tasks) PROVE IInv'
  <2>1. "stmt" \notin {"body", "pop block", "pop body"}
    OBVIOUS
  <2> QED BY <1>2, <1>7, <2>1, AnalyzesKeeps
<1>8. CASE AnalyzeBlock
  BY <1>6, <1>7, <1>8 DEF AnalyzeBlock, s
<1>9. CASE AnalyzeDecl
  <2>1. Exprs1(s.expr) \o <<Declare(s)>> \in Seq(PlainTasks)
    BY <1>5, <1>6, PlainSeqs
  <2> QED BY <1>7, <1>9, <2>1 DEF AnalyzeDecl, s
<1>10. CASE AnalyzeExprStmt
  BY <1>5, <1>7, <1>10 DEF AnalyzeExprStmt, s
<1>11. CASE AnalyzeIf
  <2> DEFINE followed == s.else # <<>> /\ s.else[1].kind \in {"block", "if"}
             e == IF followed THEN s.else ELSE <<>>
  <2>1. Analyzes(Exprs1(s.expr) \o <<Block(s.body)>> \o Stmts1(e))
    BY <1>11, Zenon DEF AnalyzeIf, s
  <2>2. Stmts1(e) \in Seq(PlainTasks)
    <3>1. e = s.else \/ e = <<>>
      OBVIOUS
    <3> HIDE DEF e
    <3> QED BY <1>5, <3>1
  <2> HIDE DEF e, followed
  <2>3. Exprs1(s.expr) \o <<Block(s.body)>> \in Seq(PlainTasks)
    BY <1>5, <1>6, PlainSeqs
  <2>4. Exprs1(s.expr) \o <<Block(s.body)>> \o Stmts1(e) \in Seq(PlainTasks)
    BY <2>2, <2>3, PlainSeqs
  <2> QED BY <1>7, <2>1, <2>4
<1>12. CASE AnalyzeFor
  <2>1. Stmts1(s.init) \o Exprs1(s.expr) \in Seq(PlainTasks)
    BY <1>5, PlainSeqs
  <2>2. Stmts1(s.init) \o Exprs1(s.expr) \o Exprs1(s.iter) \in Seq(PlainTasks)
    BY <1>5, <2>1, PlainSeqs
  <2>3. Stmts1(s.init) \o Exprs1(s.expr) \o Exprs1(s.iter) \o <<LoopBody(s.body)>> \in Seq(PlainTasks)
    BY <1>6, <2>2, PlainSeqs
  <2> QED BY <1>7, <1>12, <2>3 DEF AnalyzeFor, s
<1>13. CASE AnalyzeWhile
  <2>1. Exprs1(s.expr) \o <<LoopBody(s.body)>> \in Seq(PlainTasks)
    BY <1>5, <1>6, PlainSeqs
  <2> QED BY <1>7, <1>13, <2>1 DEF AnalyzeWhile, s
<1>14. CASE AnalyzeDoWhile
  <2>1. <<LoopBody(s.body)>> \o Exprs1(s.expr) \in Seq(PlainTasks)
    BY <1>5, <1>6, PlainSeqs
  <2> QED BY <1>7, <1>14, <2>1 DEF AnalyzeDoWhile, s
<1> QED BY <1>8, <1>9, <1>10, <1>11, <1>12, <1>13, <1>14

(* Loops are counted up and down; a stray exit is reported. *)
LEMMA LoopsKeep ==
  ASSUME IInv, EnterLoop \/ LeaveLoop \/ AnalyzeExit
  PROVE  IInv'
<1>1. TypeInv /\ UsesKnown
  BY DEF IInv
<1>2. body \in Nat
  <2>1. Count \in Nat /\ body \in 0 .. Count
    BY <1>1, CountFacts DEF IInv, BodiesInOrder
  <2> QED BY <2>1
<1>3. ASSUME NEW kind, Doing(kind), kind \notin {"body", "pop block", "pop body"},
             NEW tasks \in Seq(PlainTasks), Work(tasks),
             UNCHANGED <<program, body, scopeVars, slotVars, ok, uses, frames>>,
             loops' \in Nat, reports' \in Seq(ReportSet)
      PROVE  IInv'
  <2>1. /\ todo # <<>> /\ ~IsBody(Head(todo)) /\ ~IsPopBody(Head(todo)) /\ Pops(Head(todo)) = 0
    BY <1>1, <1>3, DoingPlain
  <2>2. /\ UNCHANGED <<program, body, scopeVars, slotVars, frames>>
        /\ ok' = ok /\ uses' = uses /\ decls' = decls
    BY <1>3 DEF scopeVars
  <2>3. ok' \in BOOLEAN /\ uses' \in Seq(UseSet)
    BY <1>1, <2>2 DEF TypeInv
  <2>4. UsesKnown'
    BY <1>1, <2>2 DEF UsesKnown
  <2> QED BY <1>3, <2>1, <2>2, <2>3, <2>4, QuietKeeps
<1>4. /\ loops \in Nat /\ reports \in Seq(ReportSet) /\ <<>> \in Seq(PlainTasks)
  BY <1>1, PlainSeqs DEF TypeInv
<1>8. loops + 1 \in Nat /\ (IF loops = 0 THEN 0 ELSE loops - 1) \in Nat
  BY <1>4
<1>5. CASE EnterLoop
  <2>1. /\ Doing("loop body") /\ Work(<<Block(Arg), ExitLoop>>) /\ loops' = loops + 1
        /\ UNCHANGED <<program, body, scopeVars, slotVars, ok, uses, reports, frames>>
    BY <1>5 DEF EnterLoop
  <2>2. "loop body" \notin {"body", "pop block", "pop body"}
    OBVIOUS
  <2>3. Arg \in Seq(Stmts)
    BY <1>1, <2>1, <2>2, DoingPlain DEF TaskForm, Arg
  <2>4. Block(Arg) \in PlainTasks /\ ExitLoop \in PlainTasks
    BY <2>3, PlainOnes
  <2>5. <<Block(Arg), ExitLoop>> \in Seq(PlainTasks)
    BY <2>4, PlainSeqs
  <2>6. loops' \in Nat /\ reports' \in Seq(ReportSet)
    BY <1>4, <1>8, <2>1, Zenon
  <2> QED BY <1>3, <2>1, <2>2, <2>5, <2>6
<1>6. CASE LeaveLoop
  <2>1. /\ Doing("exit loop") /\ Work(<<>>) /\ loops' = IF loops = 0 THEN 0 ELSE loops - 1
        /\ UNCHANGED <<program, body, scopeVars, slotVars, ok, uses, reports, frames>>
    BY <1>6 DEF LeaveLoop
  <2>2. "exit loop" \notin {"body", "pop block", "pop body"}
    OBVIOUS
  <2>3. loops' \in Nat /\ reports' \in Seq(ReportSet)
    BY <1>4, <1>8, <2>1, Zenon
  <2> QED BY <1>3, <1>4, <2>1, <2>2, <2>3
<1>7. CASE AnalyzeExit
  <2>1. /\ Doing("stmt") /\ Work(<<>>) /\ loops' = loops
        /\ Arg.kind \in {"break", "continue"}
        /\ reports' = IF loops = 0 THEN Append(reports, Report(Arg.kind, "")) ELSE reports
        /\ UNCHANGED <<program, body, scopeVars, slotVars, ok, uses, frames>>
    BY <1>7 DEF AnalyzeExit, Is
  <2>2. "stmt" \notin {"body", "pop block", "pop body"}
    OBVIOUS
  <2>3. Report(Arg.kind, "") \in ReportSet
    BY <1>2, <2>1 DEF Report, ReportSet, NameSet
  <2>4. loops' \in Nat /\ reports' \in Seq(ReportSet)
    BY <1>4, <2>1, <2>3, AppendProperties
  <2> QED BY <1>3, <1>4, <2>1, <2>2, <2>4
<1> QED BY <1>5, <1>6, <1>7

(* A missing return is reported. *)
LEMMA CheckKeeps ==
  ASSUME IInv, CheckReturns
  PROVE  IInv'
<1>1. TypeInv /\ UsesKnown
  BY DEF IInv
<1>2. body \in Nat
  <2>1. Count \in Nat /\ body \in 0 .. Count
    BY <1>1, CountFacts DEF IInv, BodiesInOrder
  <2> QED BY <2>1
<1>3. /\ Doing("check return") /\ Work(<<>>)
      /\ reports' \in {reports, Append(reports, Report("no return", ""))}
      /\ UNCHANGED <<program, body, scopeVars, slotVars, frames>>
      /\ ok' = ok /\ loops' = loops /\ uses' = uses /\ decls' = decls
  BY DEF CheckReturns, scopeVars
<1>4. "check return" \notin {"body", "pop block", "pop body"}
  OBVIOUS
<1>5. todo # <<>> /\ ~IsBody(Head(todo)) /\ ~IsPopBody(Head(todo)) /\ Pops(Head(todo)) = 0
  BY <1>1, <1>3, <1>4, DoingPlain
<1>6. Report("no return", "") \in ReportSet
  BY <1>2 DEF Report, ReportSet, NameSet
<1>7. /\ ok' \in BOOLEAN /\ loops' \in Nat /\ uses' \in Seq(UseSet) /\ reports \in Seq(ReportSet)
  BY <1>1, <1>3 DEF TypeInv
<1>8. reports' \in Seq(ReportSet)
  <2>1. Append(reports, Report("no return", "")) \in Seq(ReportSet)
    BY <1>6, <1>7, AppendProperties
  <2>2. reports' = reports \/ reports' = Append(reports, Report("no return", ""))
    BY <1>3, Zenon
  <2> QED BY <1>7, <2>1, <2>2, Zenon
<1>9. UsesKnown' /\ <<>> \in Seq(PlainTasks)
  BY <1>1, <1>3, PlainSeqs DEF UsesKnown
<1> QED BY <1>3, <1>5, <1>7, <1>8, <1>9, QuietKeeps

-----------------------------------------------------------------------------
(* Expressions.                                                            *)

(* What Lookup finds: a symbol of one of the scopes, the global one's are  *)
(* functions and the others' variables of this body.                       *)
LEMMA LookupFacts ==
  ASSUME TypeInv, ScopesOfBody, NEW n
  PROVE  /\ Lookup(n).kind \in {"none", "func", "param", "var"} /\ Lookup(n).decl \in Nat
         /\ Lookup(n).kind \in {"param", "var"} =>
              Lookup(n).decl \in DOMAIN decls /\ decls[Lookup(n).decl].body = body
<1>1. CASE Holding(n) = {}
  <2>1. Lookup(n) = Symbol("none", 0)
    BY <1>1 DEF Lookup
  <2>2. Symbol("none", 0).kind = "none" /\ Symbol("none", 0).decl = 0
    BY DEF Symbol
  <2> QED BY <2>1, <2>2
<1>2. CASE Holding(n) # {}
  <2> DEFINE i == Min(Holding(n))
  <2>1. scopes \in Seq(ScopeSet)
    BY DEF TypeInv
  <2>2. Holding(n) \subseteq DOMAIN scopes /\ DOMAIN scopes = 1 .. Len(scopes) /\ Len(scopes) \in Nat
    BY <2>1 DEF Holding
  <2>3. i \in Holding(n)
    <3>1. Holding(n) \subseteq Nat
      BY <2>2
    <3> QED BY <1>2, <3>1, MinIsThere
  <2>4. Lookup(n) = scopes[i][n]
    BY <1>2 DEF Lookup
  <2> HIDE DEF i
  <2>5. i \in 1 .. Len(scopes) /\ n \in DOMAIN scopes[i]
    BY <2>2, <2>3 DEF Holding
  <2>6. scopes[i][n] \in SymbolSet
    <3>1. scopes[i] \in ScopeSet
      BY <2>1, <2>5
    <3>2. PICK S \in SUBSET NameSet : scopes[i] \in [S -> SymbolSet]
      BY <3>1 DEF ScopeSet
    <3> QED BY <2>5, <3>2
  <2>7. scopes[i][n].kind \in {"func", "param", "var"} /\ scopes[i][n].decl \in Nat
    BY <2>6 DEF SymbolSet
  <2>8. CASE i = Len(scopes)
    <3>1. scopes[i][n].kind = "func"
      BY <2>5, <2>8 DEF ScopesOfBody
    <3> QED BY <2>4, <2>7, <3>1
  <2>9. CASE i # Len(scopes)
    <3>1. i \in 1 .. Len(scopes) - 1
      <4>1. i \in 1 .. Len(scopes) /\ Len(scopes) \in Nat
        BY <2>2, <2>5, Zenon
      <4> DEFINE m == Len(scopes)
      <4>2. i \in 1 .. m /\ m \in Nat /\ i # m
        BY <2>9, <4>1, Zenon
      <4> HIDE DEF m
      <4>3. i \in 1 .. m - 1
        BY <4>2
      <4> QED BY <4>3 DEF m
    <3>2. scopes[i][n].decl \in DOMAIN decls /\ decls[scopes[i][n].decl].body = body
      BY <2>5, <3>1 DEF ScopesOfBody
    <3> QED BY <2>4, <2>7, <3>2
  <2> QED BY <2>8, <2>9
<1> QED BY <1>1, <1>2

(* What is added to a list is its last element. *)
LEMMA AppendFacts ==
  ASSUME NEW S, NEW s \in Seq(S), NEW x \in S
  PROVE  /\ Append(s, x) \in Seq(S) /\ Len(s) \in Nat
         /\ DOMAIN s = 1 .. Len(s) /\ DOMAIN Append(s, x) = 1 .. Len(s) + 1
         /\ \A i \in DOMAIN s : i \in DOMAIN Append(s, x) /\ Append(s, x)[i] = s[i]
         /\ Append(s, x)[Len(s) + 1] = x
         /\ \A i \in DOMAIN Append(s, x) : i \in DOMAIN s \/ i = Len(s) + 1
OBVIOUS

(* Expressions that only hand over what is inside them. *)
LEMMA YieldsKeeps ==
  ASSUME IInv, NEW kind, Doing(kind), kind \notin {"body", "pop block", "pop body"},
         NEW result \in BOOLEAN, NEW tasks \in Seq(PlainTasks), Yields(result, tasks)
  PROVE  IInv'
<1>1. TypeInv /\ UsesKnown
  BY DEF IInv
<1>2. /\ todo # <<>> /\ ~IsBody(Head(todo)) /\ ~IsPopBody(Head(todo)) /\ Pops(Head(todo)) = 0
  BY <1>1, DoingPlain
<1>3. /\ Work(tasks) /\ UNCHANGED <<program, body, scopeVars, slotVars, frames>>
      /\ ok' = result /\ loops' = loops /\ reports' = reports /\ uses' = uses /\ decls' = decls
  BY DEF Yields, scopeVars
<1>4. /\ ok' \in BOOLEAN /\ loops' \in Nat /\ reports' \in Seq(ReportSet)
      /\ uses' \in Seq(UseSet)
  BY <1>1, <1>3 DEF TypeInv
<1>5. UsesKnown'
  BY <1>1, <1>3 DEF UsesKnown
<1> QED BY <1>2, <1>3, <1>4, <1>5, QuietKeeps

(* What an expression leaves to do is inside it. *)
LEMMA ExpressionsKeep ==
  ASSUME IInv, \/ AnalyzeLiteral \/ AnalyzeBinary \/ AnalyzeRight \/ EndBinary
               \/ AnalyzeParts \/ AnalyzePart \/ AnalyzeAll \/ EndAll
  PROVE  IInv'
<1>1. TypeInv
  BY DEF IInv
<1>2. ok \in BOOLEAN /\ <<>> \in Seq(PlainTasks) /\ TRUE \in BOOLEAN
  BY <1>1, PlainSeqs DEF TypeInv
<1>3. ASSUME NEW form, Of(form) PROVE Doing("expr") /\ Arg \in Exprs /\ Arg.form = form
  <2>1. Doing("expr") /\ Arg.form = form
    BY <1>3 DEF Of
  <2>2. "expr" \notin {"body", "pop block", "pop body"}
    OBVIOUS
  <2>3. Arg \in Exprs
    BY <1>1, <2>1, <2>2, DoingPlain DEF TaskForm, Arg
  <2> QED BY <2>1, <2>3
<1>4. ASSUME NEW kind \in {"expr", "right", "both", "parts", "succeed"}, Doing(kind),
             NEW result \in BOOLEAN, NEW tasks \in Seq(PlainTasks), Yields(result, tasks)
      PROVE  IInv'
  <2>1. kind \notin {"body", "pop block", "pop body"}
    OBVIOUS
  <2> QED BY <1>4, <2>1, YieldsKeeps
<1>5. CASE AnalyzeLiteral
  BY <1>2, <1>3, <1>4, <1>5 DEF AnalyzeLiteral
<1>6. CASE AnalyzeBinary
  <2>1. Of("binary") /\ Yields(ok, <<Expr(Arg.parts[1]), Right(Arg.parts[2])>>)
    BY <1>6 DEF AnalyzeBinary
  <2>2. Doing("expr") /\ Arg \in Exprs /\ Arg.form = "binary"
    BY <1>3, <2>1
  <2>3. Arg.parts[1] \in Exprs /\ Arg.parts[2] \in Exprs
    BY <2>2, ExprParts
  <2>4. <<Expr(Arg.parts[1]), Right(Arg.parts[2])>> \in Seq(PlainTasks)
    BY <2>3, PlainOnes, PlainSeqs
  <2> QED BY <1>2, <1>4, <2>1, <2>2, <2>4
<1>7. CASE AnalyzeRight
  <2>1. Doing("right") /\ Yields(ok, <<Expr(Arg), Both(ok)>>)
    BY <1>7 DEF AnalyzeRight
  <2>2. "right" \notin {"body", "pop block", "pop body"}
    OBVIOUS
  <2>3. Arg \in Exprs
    BY <1>1, <2>1, <2>2, DoingPlain DEF TaskForm, Arg
  <2>4. <<Expr(Arg), Both(ok)>> \in Seq(PlainTasks)
    BY <1>2, <2>3, PlainOnes, PlainSeqs
  <2> QED BY <1>2, <1>4, <2>1, <2>4
<1>8. CASE EndBinary
  <2>1. Doing("both") /\ Yields(ok /\ Arg, <<>>)
    BY <1>8 DEF EndBinary
  <2>2. (ok /\ Arg) \in BOOLEAN
    OBVIOUS
  <2> QED BY <1>2, <1>4, <2>1, <2>2
<1>9. CASE AnalyzeParts
  <2>1. Yields(TRUE, <<Parts(Arg, 1)>>) /\ Doing("expr") /\ Arg \in Exprs
    BY <1>3, <1>9 DEF AnalyzeParts
  <2>2. 1 \in Nat \ {0}
    OBVIOUS
  <2>3. <<Parts(Arg, 1)>> \in Seq(PlainTasks)
    BY <2>1, <2>2, PlainOnes, PlainSeqs
  <2> QED BY <1>2, <1>4, <2>1, <2>3
<1>10. CASE AnalyzePart
  <2> DEFINE e == Arg
             i == Head(todo)[3]
  <2>1. Doing("parts") /\ i <= Len(e.parts) /\ Yields(ok, <<Expr(e.parts[i]), Parts(e, i + 1)>>)
    BY <1>10 DEF AnalyzePart
  <2>2. "parts" \notin {"body", "pop block", "pop body"}
    OBVIOUS
  <2>3. e \in Exprs /\ i \in Nat \ {0}
    BY <1>1, <2>1, <2>2, DoingPlain DEF TaskForm, Arg
  <2>4. e.parts \in Seq(Exprs)
    BY <2>3, ExprParts
  <2>5. /\ i + 1 \in Nat \ {0}
        /\ i <= Len(e.parts) => e.parts[i] \in Exprs
    <3> HIDE DEF e, i
    <3> QED BY <2>3, <2>4
  <2>6. <<Expr(e.parts[i]), Parts(e, i + 1)>> \in Seq(PlainTasks)
    BY <2>1, <2>3, <2>5, PlainOnes, PlainSeqs
  <2> QED BY <1>2, <1>4, <2>1, <2>6
<1>11. CASE AnalyzeAll
  <2>1. Of("all") /\ Yields(ok, Exprs1(Arg.parts) \o <<Succeed>>)
    BY <1>11 DEF AnalyzeAll
  <2>2. Doing("expr") /\ Arg \in Exprs
    BY <1>3, <2>1
  <2>3. Exprs1(Arg.parts) \in Seq(PlainTasks) /\ <<Succeed>> \in Seq(PlainTasks)
    BY <2>2, ExprParts, PlainEach, PlainOnes, PlainSeqs
  <2>4. Exprs1(Arg.parts) \o <<Succeed>> \in Seq(PlainTasks)
    BY <2>3, PlainSeqs
  <2> QED BY <1>2, <1>4, <2>1, <2>2, <2>4
<1>12. CASE EndAll
  BY <1>2, <1>4, <1>12 DEF EndAll
<1> QED BY <1>5, <1>6, <1>7, <1>8, <1>9, <1>10, <1>11, <1>12

(* A name stands for what Lookup finds. *)
LEMMA IdentKeeps ==
  ASSUME IInv, AnalyzeIdent
  PROVE  IInv'
<1>1. TypeInv /\ UsesKnown /\ ScopesOfBody
  BY DEF IInv
<1>2. body \in Nat
  <2>1. Count \in Nat /\ body \in 0 .. Count
    BY <1>1, CountFacts DEF IInv, BodiesInOrder
  <2> QED BY <2>1
<1> DEFINE n == Arg.name
           use == [name |-> n, body |-> body, kind |-> Lookup(n).kind, decl |-> Lookup(n).decl]
<1>3. /\ Doing("expr") /\ Work(<<>>)
      /\ ok' \in BOOLEAN
      /\ uses' = Append(uses, use)
      /\ reports' = reports \/ reports' = Append(reports, Report("undefined", n))
      /\ UNCHANGED <<program, body, scopeVars, slotVars, frames>>
      /\ loops' = loops /\ decls' = decls
  BY DEF AnalyzeIdent, Of, scopeVars
<1>4. "expr" \notin {"body", "pop block", "pop body"}
  OBVIOUS
<1>5. /\ todo # <<>> /\ ~IsBody(Head(todo)) /\ ~IsPopBody(Head(todo)) /\ Pops(Head(todo)) = 0
      /\ Arg \in Exprs
  BY <1>1, <1>3, <1>4, DoingPlain DEF TaskForm, Arg
<1>6. n \in NameSet
  BY <1>5, ExprParts
<1> HIDE DEF n
<1>7. /\ Lookup(n).kind \in {"none", "func", "param", "var"} /\ Lookup(n).decl \in Nat
      /\ Lookup(n).kind \in {"param", "var"} =>
           Lookup(n).decl \in DOMAIN decls /\ decls[Lookup(n).decl].body = body
  BY <1>1, LookupFacts
<1>8. /\ use \in UseSet
      /\ use.kind \in {"param", "var"} =>
           use.decl \in DOMAIN decls /\ decls[use.decl].body = use.body
  BY <1>2, <1>6, <1>7 DEF UseSet
<1> HIDE DEF use
<1>9. uses \in Seq(UseSet) /\ reports \in Seq(ReportSet) /\ loops' \in Nat
  BY <1>1, <1>3 DEF TypeInv
<1>10. /\ uses' \in Seq(UseSet)
       /\ \A u \in DOMAIN uses : uses'[u] = uses[u]
       /\ uses'[Len(uses) + 1] = use
       /\ \A u \in DOMAIN uses' : u \in DOMAIN uses \/ u = Len(uses) + 1
  BY <1>3, <1>8, <1>9, AppendFacts
<1>11. UsesKnown'
  <2> SUFFICES ASSUME NEW u \in DOMAIN uses', uses'[u].kind \in {"param", "var"}
               PROVE  /\ uses'[u].decl \in DOMAIN decls
                      /\ decls[uses'[u].decl].body = uses'[u].body
    BY <1>3 DEF UsesKnown
  <2>1. CASE u \in DOMAIN uses
    BY <1>1, <1>10, <2>1 DEF UsesKnown
  <2>2. CASE u = Len(uses) + 1
    BY <1>8, <1>10, <2>2
  <2> QED BY <1>10, <2>1, <2>2
<1>12. reports' \in Seq(ReportSet)
  <2>1. Report("undefined", n) \in ReportSet
    BY <1>2, <1>6 DEF Report, ReportSet
  <2>2. Append(reports, Report("undefined", n)) \in Seq(ReportSet)
    BY <1>9, <2>1, AppendProperties
  <2> QED BY <1>3, <1>9, <2>2, Zenon
<1>13. <<>> \in Seq(PlainTasks)
  BY PlainSeqs
<1> QED BY <1>3, <1>5, <1>9, <1>10, <1>11, <1>12, <1>13, QuietKeeps

(* What is called and is no function is reported. *)
LEMMA EndPartsKeeps ==
  ASSUME IInv, EndParts
  PROVE  IInv'
<1>1. TypeInv /\ UsesKnown
  BY DEF IInv
<1>2. body \in Nat
  <2>1. Count \in Nat /\ body \in 0 .. Count
    BY <1>1, CountFacts DEF IInv, BodiesInOrder
  <2> QED BY <2>1
<1> DEFINE report == Report("not a function", Arg.parts[1].name)
<1>3. /\ Doing("parts") /\ Work(<<>>)
      /\ ok' \in BOOLEAN
      /\ reports' = reports \/ (Arg.form = "call" /\ reports' = Append(reports, report))
      /\ UNCHANGED <<program, body, scopeVars, slotVars, frames>>
      /\ loops' = loops /\ decls' = decls /\ uses' = uses
  <2> DEFINE wrong == ok /\ Arg.form = "call" /\ Lookup(Arg.parts[1].name).kind # "func"
  <2>1. /\ Doing("parts") /\ Work(<<>>)
        /\ ok' = (ok /\ ~wrong)
        /\ reports' = IF wrong THEN Append(reports, report) ELSE reports
        /\ UNCHANGED <<program, body, scopeVars, loops, slotVars, uses, frames>>
    BY Zenon DEF EndParts
  <2>2. wrong => Arg.form = "call"
    OBVIOUS
  <2> HIDE DEF wrong, report
  <2>3. ok' \in BOOLEAN
    BY <2>1
  <2>4. reports' = reports \/ (Arg.form = "call" /\ reports' = Append(reports, report))
    BY <2>1, <2>2, Zenon
  <2>5. loops' = loops /\ decls' = decls /\ uses' = uses
    BY <2>1 DEF scopeVars
  <2> QED BY <2>1, <2>3, <2>4, <2>5, Zenon
<1>4. "parts" \notin {"body", "pop block", "pop body"}
  OBVIOUS
<1>5. /\ todo # <<>> /\ ~IsBody(Head(todo)) /\ ~IsPopBody(Head(todo)) /\ Pops(Head(todo)) = 0
      /\ Arg \in Exprs
  BY <1>1, <1>3, <1>4, DoingPlain DEF TaskForm, Arg
<1>6. uses' \in Seq(UseSet) /\ reports \in Seq(ReportSet) /\ loops' \in Nat
  BY <1>1, <1>3 DEF TypeInv
<1>7. Arg.form = "call" => report \in ReportSet
  <2>1. Arg.form = "call" => Arg.parts[1].name \in NameSet
    BY <1>5, ExprParts
  <2> QED BY <1>2, <2>1 DEF Report, ReportSet
<1> HIDE DEF report
<1>8. reports' \in Seq(ReportSet)
  <2>1. report \in ReportSet => Append(reports, report) \in Seq(ReportSet)
    BY <1>6, AppendProperties
  <2> QED BY <1>3, <1>6, <1>7, <2>1, Zenon
<1>9. UsesKnown' /\ <<>> \in Seq(PlainTasks)
  BY <1>1, <1>3, PlainSeqs DEF UsesKnown
<1> QED BY <1>3, <1>5, <1>6, <1>8, <1>9, QuietKeeps

-----------------------------------------------------------------------------
(* Parameters and variables.                                               *)

(* The slots of what is declared come after those taken before. *)
LEMMA DeclaresKeeps ==
  ASSUME IInv, NEW task, Doing(task), task \in {"param", "declare"},
         NEW kind \in {"param", "var"}, NEW name \in NameSet, NEW size \in Nat,
         Declares(kind, name, size), Work(<<>>),
         UNCHANGED <<program, body, loops, ok, uses, frames>>
  PROVE  IInv'
<1> DEFINE slots == SlotsOf(size)
           known == Holding(name)
           decl == [name |-> name, body |-> body, slot |-> nextSlot, size |-> size]
           symbol == Symbol(kind, Len(decls) + 1)
<1>1. /\ TypeInv /\ BodiesInOrder /\ ScopesMatch /\ ScopesOfBody /\ UsesKnown
      /\ SlotsTaken /\ SlotsApart
  BY DEF IInv
<1>2. task \notin {"body", "pop block", "pop body"}
  OBVIOUS
<1>3. todo # <<>> /\ ~IsBody(Head(todo)) /\ ~IsPopBody(Head(todo)) /\ Pops(Head(todo)) = 0
  BY <1>1, <1>2, DoingPlain
<1>4. /\ todo \in Seq(Tasks) /\ scopes \in Seq(ScopeSet) /\ nextSlot \in Nat /\ maxSlot \in Nat
      /\ decls \in Seq(DeclSet) /\ reports \in Seq(ReportSet) /\ frames \in Seq(Nat)
  BY <1>1 DEF TypeInv
<1>5. body \in Nat /\ body \in 1 .. Count /\ body \notin DOMAIN frames
  <2>1. Inner > 0 /\ body \in 1 .. Count /\ body \in Nat
    BY <1>1, <1>3, HeadFacts
  <2>2. Len(frames) = body - 1
    BY <1>1, <2>1 DEF BodiesInOrder
  <2>3. DOMAIN frames = 1 .. Len(frames) /\ Len(frames) \in Nat
    BY <1>4
  <2> QED BY <2>1, <2>2, <2>3
<1>6. Len(scopes) \in Nat /\ Len(scopes) >= 2
  BY <1>1, <1>3, <1>4, DepthNow
<1>7. slots \in Nat /\ Bytes(size) \in Nat /\ Bytes(size) <= 8 * slots
  BY SlotsSuffice
<1>8. /\ nextSlot' = nextSlot + slots
      /\ maxSlot' = MaxSlot(nextSlot + slots)
      /\ decls' = Append(decls, decl)
      /\ scopes' = IF 1 \in known THEN scopes
                   ELSE [scopes EXCEPT ![1] = WithSymbol(@, name, symbol)]
      /\ \/ reports' = Append(reports, Report("duplicate", name))
         \/ reports' = Append(reports, Report("shadows", name))
         \/ reports' = reports
  BY Zenon DEF Declares
<1> HIDE DEF slots, known
<1>9. /\ nextSlot' \in Nat /\ maxSlot' \in Nat
      /\ nextSlot' <= maxSlot' /\ maxSlot <= maxSlot' /\ nextSlot <= nextSlot'
      /\ 8 * nextSlot + Bytes(size) <= 8 * nextSlot'
  BY <1>4, <1>7, <1>8 DEF MaxSlot
<1>10. decl \in DeclSet
  BY <1>4, <1>5 DEF DeclSet
<1>11. symbol \in SymbolSet /\ symbol.kind = kind /\ symbol.decl = Len(decls) + 1
  BY <1>4 DEF Symbol, SymbolSet
<1>12. decl.body = body /\ decl.slot = nextSlot /\ decl.size = size
  OBVIOUS
<1> HIDE DEF decl, symbol
<1>13. /\ decls' \in Seq(DeclSet) /\ Len(decls) \in Nat
       /\ DOMAIN decls = 1 .. Len(decls) /\ DOMAIN decls' = 1 .. Len(decls) + 1
       /\ \A d \in DOMAIN decls : d \in DOMAIN decls' /\ decls'[d] = decls[d]
       /\ decls'[Len(decls) + 1] = decl
       /\ \A d \in DOMAIN decls' : d \in DOMAIN decls \/ d = Len(decls) + 1
  BY <1>4, <1>8, <1>10, AppendFacts
<1>23. ASSUME NEW d \in DOMAIN decls
       PROVE  decls[d].slot \in Nat /\ decls[d].size \in Nat
  <2>1. decls[d] \in DeclSet
    BY <1>4
  <2> QED BY <2>1 DEF DeclSet
<1>14. \A what \in {"duplicate", "shadows"} : Report(what, name) \in ReportSet
  BY <1>5 DEF Report, ReportSet
<1>15. reports' \in Seq(ReportSet)
  <2>1. \A what \in {"duplicate", "shadows"} :
          Append(reports, Report(what, name)) \in Seq(ReportSet)
    BY <1>4, <1>14, AppendProperties
  <2>2. reports \in Seq(ReportSet)
    BY <1>4
  <2> QED BY <1>8, <2>1, <2>2, Zenon
<1>16. /\ scopes' \in Seq(ScopeSet) /\ Len(scopes') = Len(scopes)
       /\ \A i \in 2 .. Len(scopes) : scopes'[i] = scopes[i]
       /\ \A n \in DOMAIN scopes'[1] :
            \/ n \in DOMAIN scopes[1] /\ scopes'[1][n] = scopes[1][n]
            \/ scopes'[1][n] = symbol
  <2>1. CASE 1 \in known
    BY <1>4, <1>8, <2>1
  <2>2. CASE 1 \notin known
    <3> DEFINE new == WithSymbol(scopes[1], name, symbol)
    <3>1. scopes' = [scopes EXCEPT ![1] = new]
      BY <1>8, <2>2
    <3>7. scopes[1] \in ScopeSet
      <4>1. scopes \in Seq(ScopeSet) /\ 1 \in 1 .. Len(scopes)
        BY <1>4, <1>6
      <4> QED BY <4>1
    <3>2. PICK S \in SUBSET NameSet : scopes[1] \in [S -> SymbolSet]
      BY <3>7, Zenon DEF ScopeSet
    <3>3. new \in [S \cup {name} -> SymbolSet]
      BY <1>11, <3>2 DEF WithSymbol
    <3>4. new \in ScopeSet
      <4>1. S \cup {name} \in SUBSET NameSet
        OBVIOUS
      <4> HIDE DEF new
      <4> QED BY <3>3, <4>1, Zenon DEF ScopeSet
    <3>5. \A n \in DOMAIN new : (n \in DOMAIN scopes[1] /\ new[n] = scopes[1][n]) \/ new[n] = symbol
      BY DEF WithSymbol
    <3> HIDE DEF new
    <3>6. /\ scopes' \in Seq(ScopeSet) /\ Len(scopes') = Len(scopes) /\ scopes'[1] = new
          /\ \A i \in 2 .. Len(scopes) : scopes'[i] = scopes[i]
      BY <1>4, <1>6, <3>1, <3>4
    <3> QED BY <3>5, <3>6, Zenon
  <2> QED BY <2>1, <2>2
<1>17. TypeInv'
  <2>1. todo' \in Seq(Tasks)
    <3>1. <<>> \in Seq(Tasks)
      OBVIOUS
    <3> QED BY <1>3, <1>4, <3>1, WorkFacts
  <2>2. program' \in Programs /\ loops' \in Nat /\ ok' \in BOOLEAN /\ uses' \in Seq(UseSet)
        /\ frames' \in Seq(Nat)
    BY <1>1 DEF TypeInv
  <2> QED BY <1>9, <1>13, <1>15, <1>16, <2>1, <2>2, Zenon DEF TypeInv
<1>18. BodiesInOrder'
  <2>1. <<>> \in Seq(Tasks) /\ \A i \in 1 .. Len(<<>>) : ~IsBody(<<>>[i]) /\ ~IsPopBody(<<>>[i])
    OBVIOUS
  <2> QED BY <1>1, <1>3, <2>1, OrderKept
<1>19. ScopesMatch'
  <2> DEFINE tasks == <<>>
  <2>1. tasks \in Seq(Tasks) /\ Work(tasks) /\ tasks = <<>>
        /\ \A i \in 1 .. Len(tasks) : ~IsBody(tasks[i]) /\ (i # Len(tasks) => Pops(tasks[i]) = 0)
    OBVIOUS
  <2>2. Len(scopes') \in Nat /\ Len(scopes') = Len(scopes) - Pops(Head(todo))
    BY <1>3, <1>6, <1>16
  <2> HIDE DEF tasks
  <2> QED BY <1>1, <1>3, <1>4, <2>1, <2>2, DepthKept
<1>20. ScopesOfBody'
  <2> DEFINE k == Len(scopes)
  <2>1. /\ scopes' # <<>> /\ Len(scopes') = k /\ scopes'[k] = scopes[k] /\ k \in Nat
        /\ \A i \in 1 .. k - 1 : i = 1 \/ i \in 2 .. Len(scopes)
        /\ 1 \in 1 .. k - 1
    BY <1>6, <1>16
  <2>2. \A n \in DOMAIN scopes'[k] : scopes'[k][n].kind = "func"
    BY <1>1, <2>1 DEF ScopesOfBody
  <2>3. ASSUME NEW i \in 1 .. k - 1, NEW n \in DOMAIN scopes'[i]
        PROVE  scopes'[i][n].decl \in DOMAIN decls' /\ decls'[scopes'[i][n].decl].body = body'
    <3>1. CASE n \in DOMAIN scopes[i] /\ scopes'[i][n] = scopes[i][n]
      <4>1. scopes[i][n].decl \in DOMAIN decls /\ decls[scopes[i][n].decl].body = body
        BY <1>1, <3>1, Zenon DEF ScopesOfBody
      <4> QED BY <1>13, <3>1, <4>1, Zenon
    <3>2. CASE scopes'[i][n] = symbol
      BY <1>11, <1>12, <1>13, <3>2
    <3>3. CASE i = 1
      BY <1>16, <3>1, <3>2, <3>3, Zenon
    <3>4. CASE i # 1
      BY <1>16, <2>1, <3>1, <3>4, Zenon
    <3> QED BY <3>3, <3>4
  <2> QED BY <2>1, <2>2, <2>3, Zenon DEF ScopesOfBody
<1>21. UsesKnown'
  BY <1>1, <1>13, Zenon DEF UsesKnown
<1>22. SlotsTaken'
  <2> SUFFICES ASSUME NEW d \in DOMAIN decls'
               PROVE  /\ decls'[d].body \in 1 .. body
                      /\ decls'[d].body = body => End(d)' <= 8 * nextSlot'
    BY <1>9, Zenon DEF SlotsTaken
  <2>1. CASE d \in DOMAIN decls
    <3>1. decls'[d] = decls[d] /\ End(d)' = End(d)
      BY <1>13, <2>1, Zenon DEF End, Bytes
    <3>2. decls[d].body \in 1 .. body /\ (decls[d].body = body => End(d) <= 8 * nextSlot)
      BY <1>1, <2>1, Zenon DEF SlotsTaken
    <3>3. End(d) \in Nat
      <4>1. decls[d].slot \in Nat /\ decls[d].size \in Nat
        BY <1>23, <2>1
      <4> QED BY <4>1 DEF End, Bytes
    <3> HIDE DEF End
    <3>4. End(d) <= 8 * nextSlot => End(d) <= 8 * nextSlot'
      BY <1>4, <1>9, <3>3
    <3> QED BY <3>1, <3>2, <3>4, Zenon
  <2>2. CASE d = Len(decls) + 1
    <3>1. End(d)' = 8 * nextSlot + Bytes(size)
      BY <1>12, <1>13, <2>2, Zenon DEF End, Bytes
    <3>2. decls'[d].body \in 1 .. body
      BY <1>5, <1>12, <1>13, <2>2
    <3> QED BY <1>9, <3>1, <3>2, Zenon
  <2> QED BY <1>13, <2>1, <2>2, Zenon
<1>24. SlotsApart'
  <2> SUFFICES ASSUME NEW d \in DOMAIN decls'
               PROVE  /\ \A e \in DOMAIN decls' :
                           d < e /\ decls'[e].body = decls'[d].body
                             => End(d)' <= 8 * decls'[e].slot
                      /\ End(d)' <= IF decls'[d].body \in DOMAIN frames
                                      THEN frames[decls'[d].body] ELSE 8 * maxSlot'
    BY Zenon DEF SlotsApart, End, Bytes
  <2>1. CASE d \in DOMAIN decls
    <3>1. decls'[d] = decls[d] /\ End(d)' = End(d)
      BY <1>13, <2>1, Zenon DEF End, Bytes
    <3>2. /\ \A e \in DOMAIN decls : d < e /\ decls[e].body = decls[d].body
                                       => End(d) <= 8 * decls[e].slot
          /\ End(d) <= IF decls[d].body \in DOMAIN frames
                         THEN frames[decls[d].body] ELSE 8 * maxSlot
          /\ decls[d].body = body => End(d) <= 8 * nextSlot
      BY <1>1, <2>1, Zenon DEF SlotsApart, SlotsTaken, End
    <3>3. End(d) \in Nat
      <4>1. decls[d].slot \in Nat /\ decls[d].size \in Nat
        BY <1>23, <2>1
      <4> QED BY <4>1 DEF End, Bytes
    <3> HIDE DEF End
    <3>4. End(d) <= 8 * maxSlot => End(d) <= 8 * maxSlot'
      BY <1>4, <1>9, <3>3
    <3>5. ASSUME NEW e \in DOMAIN decls', d < e, decls'[e].body = decls'[d].body
          PROVE  End(d) <= 8 * decls'[e].slot
      <4>1. CASE e \in DOMAIN decls
        BY <1>13, <3>1, <3>2, <3>5, <4>1, Zenon
      <4>2. CASE e = Len(decls) + 1
        BY <1>12, <1>13, <3>1, <3>2, <3>5, <4>2, Zenon
      <4> QED BY <1>13, <4>1, <4>2, Zenon
    <3> QED BY <3>1, <3>2, <3>4, <3>5, Zenon
  <2>2. CASE d = Len(decls) + 1
    <3>1. End(d)' = 8 * nextSlot + Bytes(size) /\ decls'[d].body = body
      BY <1>12, <1>13, <2>2, Zenon DEF End, Bytes
    <3>2. 8 * nextSlot + Bytes(size) <= 8 * maxSlot'
      BY <1>4, <1>7, <1>9
    <3>3. \A e \in DOMAIN decls' : ~(d < e)
      BY <1>13, <2>2
    <3> QED BY <1>5, <3>1, <3>2, <3>3, Zenon
  <2> QED BY <1>13, <2>1, <2>2, Zenon
<1> QED BY <1>17, <1>18, <1>19, <1>20, <1>21, <1>22, <1>24, Zenon DEF IInv

(* A parameter and a variable declare their name. *)
LEMMA DeclarationsKeep ==
  ASSUME IInv, AnalyzeParam \/ DeclareVar
  PROVE  IInv'
<1>1. TypeInv
  BY DEF IInv
<1>2. CASE AnalyzeParam
  <2>1. /\ Doing("param") /\ Declares("param", Arg.name, Arg.size) /\ Work(<<>>)
        /\ UNCHANGED <<program, body, loops, ok, uses, frames>>
    BY <1>2, Zenon DEF AnalyzeParam
  <2>2. "param" \notin {"body", "pop block", "pop body"}
    OBVIOUS
  <2>3. Arg \in ParamSet
    BY <1>1, <2>1, <2>2, DoingPlain DEF TaskForm, Arg
  <2>4. Arg.name \in NameSet /\ Arg.size \in Nat
    BY <2>3 DEF ParamSet, NameSet
  <2>5. "param" \in {"param", "declare"} /\ "param" \in {"param", "var"}
    OBVIOUS
  <2> QED BY <2>1, <2>4, <2>5, DeclaresKeeps
<1>3. CASE DeclareVar
  <2>1. /\ Doing("declare") /\ Declares("var", Arg.name, Arg.size) /\ Work(<<>>)
        /\ UNCHANGED <<program, body, loops, ok, uses, frames>>
    BY <1>3, Zenon DEF DeclareVar
  <2>2. "declare" \notin {"body", "pop block", "pop body"}
    OBVIOUS
  <2>3. Arg \in Stmts
    BY <1>1, <2>1, <2>2, DoingPlain DEF TaskForm, Arg
  <2>4. Arg.name \in NameSet /\ Arg.size \in Nat
    BY <2>3, StmtParts
  <2>5. "declare" \in {"param", "declare"} /\ "var" \in {"param", "var"}
    OBVIOUS
  <2> QED BY <2>1, <2>4, <2>5, DeclaresKeeps
<1> QED BY <1>2, <1>3

-----------------------------------------------------------------------------
(* Scopes are entered and left.                                            *)

(* An empty scope comes before the others. *)
LEMMA Pushed ==
  ASSUME TypeInv, ScopesOfBody, scopes' = <<Empty>> \o scopes, decls' = decls,
         body' = body \/ Len(scopes) = 1
  PROVE  scopes' \in Seq(ScopeSet) /\ Len(scopes') = Len(scopes) + 1 /\ ScopesOfBody'
<1>1. scopes \in Seq(ScopeSet) /\ scopes # <<>> /\ Len(scopes) \in Nat /\ Len(scopes) > 0
  BY DEF TypeInv, ScopesOfBody
<1>2. Empty \in ScopeSet /\ DOMAIN Empty = {}
  <2>1. Empty \in [{} -> SymbolSet]
    BY DEF Empty
  <2>2. {} \in SUBSET NameSet
    OBVIOUS
  <2> QED BY <2>1, <2>2, Zenon DEF ScopeSet
<1>3. /\ scopes' \in Seq(ScopeSet) /\ Len(scopes') = Len(scopes) + 1 /\ scopes' # <<>>
      /\ scopes'[1] = Empty
      /\ \A i \in 1 .. Len(scopes) : scopes'[i + 1] = scopes[i]
  BY <1>1, <1>2
<1> DEFINE k == Len(scopes)
<1>4. \A n \in DOMAIN scopes'[k + 1] : scopes'[k + 1][n].kind = "func"
  BY <1>1, <1>3 DEF ScopesOfBody
<1>5. ASSUME NEW i \in 1 .. (k + 1) - 1, NEW n \in DOMAIN scopes'[i]
      PROVE  scopes'[i][n].decl \in DOMAIN decls' /\ decls'[scopes'[i][n].decl].body = body'
  <2>1. i # 1
    BY <1>2, <1>3
  <2>2. i - 1 \in 1 .. k - 1 /\ i - 1 \in 1 .. k /\ (i - 1) + 1 = i /\ k # 1
    BY <1>1, <2>1
  <2>3. scopes'[i] = scopes[i - 1]
    BY <1>3, <2>2
  <2>4. scopes[i - 1][n].decl \in DOMAIN decls /\ decls[scopes[i - 1][n].decl].body = body
    BY <2>2, <2>3, Zenon DEF ScopesOfBody
  <2> QED BY <2>2, <2>3, <2>4, Zenon
<1> QED BY <1>3, <1>4, <1>5, Zenon DEF ScopesOfBody

(* The first scope is dropped, and is not the global one. *)
LEMMA Popped ==
  ASSUME TypeInv, ScopesOfBody, Len(scopes) >= 2, scopes' = Tail(scopes), decls' = decls,
         body' = body
  PROVE  scopes' \in Seq(ScopeSet) /\ Len(scopes') = Len(scopes) - 1 /\ ScopesOfBody'
<1>1. scopes \in Seq(ScopeSet) /\ scopes # <<>> /\ Len(scopes) \in Nat
  BY DEF TypeInv, ScopesOfBody
<1>2. /\ scopes' \in Seq(ScopeSet) /\ Len(scopes') = Len(scopes) - 1 /\ scopes' # <<>>
      /\ \A i \in 1 .. Len(scopes) - 1 : scopes'[i] = scopes[i + 1]
  BY <1>1
<1> DEFINE k == Len(scopes)
<1>3. k - 1 \in 1 .. k - 1 /\ (k - 1) + 1 = k
  BY <1>1
<1>4. \A n \in DOMAIN scopes'[k - 1] : scopes'[k - 1][n].kind = "func"
  <2>1. scopes'[k - 1] = scopes[k]
    BY <1>2, <1>3
  <2> QED BY <2>1, Zenon DEF ScopesOfBody
<1>5. ASSUME NEW i \in 1 .. (k - 1) - 1, NEW n \in DOMAIN scopes'[i]
      PROVE  scopes'[i][n].decl \in DOMAIN decls' /\ decls'[scopes'[i][n].decl].body = body'
  <2>1. i \in 1 .. k - 1 /\ i + 1 \in 1 .. k - 1
    BY <1>1
  <2>2. scopes'[i] = scopes[i + 1]
    BY <1>2, <2>1
  <2>3. scopes[i + 1][n].decl \in DOMAIN decls /\ decls[scopes[i + 1][n].decl].body = body
    BY <2>1, <2>2, Zenon DEF ScopesOfBody
  <2> QED BY <2>2, <2>3, Zenon
<1> QED BY <1>2, <1>4, <1>5, Zenon DEF ScopesOfBody

(* The statements of a block come before its scope is popped. *)
LEMMA EnterBlockKeeps ==
  ASSUME IInv, EnterBlock
  PROVE  IInv'
<1> DEFINE inside == Stmts1(Arg)
           tasks == inside \o <<PopBlock>>
<1>1. /\ TypeInv /\ BodiesInOrder /\ ScopesMatch /\ ScopesOfBody /\ UsesKnown
      /\ SlotsTaken /\ SlotsApart
  BY DEF IInv
<1>2. /\ Doing("block") /\ scopes' = <<Empty>> \o scopes /\ Work(tasks)
      /\ program' = program /\ body' = body /\ loops' = loops
      /\ nextSlot' = nextSlot /\ maxSlot' = maxSlot /\ ok' = ok /\ decls' = decls
      /\ uses' = uses /\ reports' = reports /\ frames' = frames
  BY Zenon DEF EnterBlock, slotVars
<1>3. "block" \notin {"body", "pop block", "pop body"}
  OBVIOUS
<1>4. /\ todo # <<>> /\ ~IsBody(Head(todo)) /\ ~IsPopBody(Head(todo)) /\ Pops(Head(todo)) = 0
      /\ Arg \in Seq(Stmts)
  BY <1>1, <1>2, <1>3, DoingPlain DEF TaskForm, Arg
<1>5. inside \in Seq(PlainTasks)
  BY <1>4, PlainEach
<1>6. /\ inside \in Seq(Tasks) /\ Len(inside) \in Nat
      /\ \A i \in 1 .. Len(inside) :
           ~IsBody(inside[i]) /\ ~IsPopBody(inside[i]) /\ Pops(inside[i]) = 0
  BY <1>5, PlainSeq
<1>7. PopBlock \in Tasks /\ ~IsBody(PopBlock) /\ ~IsPopBody(PopBlock) /\ Pops(PopBlock) = 1
  <2>1. PopBlock[1] = "pop block"
    BY DEF PopBlock
  <2>2. PopBlock \in Tasks
    BY DEF Tasks
  <2> QED BY <2>1, <2>2 DEF IsBody, IsPopBody, Pops
<1> HIDE DEF inside
<1>8. /\ tasks \in Seq(Tasks) /\ tasks # <<>> /\ Len(tasks) = Len(inside) + 1
      /\ \A i \in 1 .. Len(inside) : tasks[i] = inside[i]
      /\ tasks[Len(tasks)] = PopBlock
  BY <1>6, <1>7
<1>9. \A i \in 1 .. Len(tasks) : i \in 1 .. Len(inside) \/ i = Len(tasks)
  BY <1>6, <1>8
<1> HIDE DEF tasks
<1>10. \A i \in 1 .. Len(tasks) :
         ~IsBody(tasks[i]) /\ ~IsPopBody(tasks[i]) /\ (i # Len(tasks) => Pops(tasks[i]) = 0)
  BY <1>6, <1>7, <1>8, <1>9, Zenon
<1>11. todo \in Seq(Tasks) /\ todo' \in Seq(Tasks)
  <2>1. todo \in Seq(Tasks)
    BY <1>1 DEF TypeInv
  <2> QED BY <1>2, <1>4, <1>8, <2>1, WorkFacts
<1>12. scopes' \in Seq(ScopeSet) /\ Len(scopes') = Len(scopes) + 1 /\ ScopesOfBody'
  BY <1>1, <1>2, Pushed
<1>13. Len(scopes) \in Nat /\ Len(scopes) >= 2
  BY <1>1, <1>4, <1>11, DepthNow
<1>14. TypeInv'
  BY <1>1, <1>2, <1>11, <1>12, Zenon DEF TypeInv
<1>15. BodiesInOrder'
  BY <1>1, <1>2, <1>4, <1>8, <1>10, OrderKept
<1>16. ScopesMatch'
  <2> DEFINE n == Len(scopes')
  <2>1. /\ n \in Nat /\ n >= 2
        /\ n = Len(scopes) - Pops(Head(todo)) + Pops(tasks[Len(tasks)])
    BY <1>4, <1>7, <1>8, <1>12, <1>13
  <2> QED BY <1>1, <1>2, <1>4, <1>8, <1>10, <1>11, <2>1, DepthKept
<1>17. UsesKnown' /\ SlotsTaken' /\ SlotsApart'
  BY <1>1, <1>2, Zenon DEF UsesKnown, SlotsTaken, SlotsApart, End, Bytes
<1> QED BY <1>12, <1>14, <1>15, <1>16, <1>17, Zenon DEF IInv

(* The scope of a block is not that of a body. *)
LEMMA LeaveBlockKeeps ==
  ASSUME IInv, LeaveBlock
  PROVE  IInv'
<1>1. /\ TypeInv /\ BodiesInOrder /\ ScopesMatch /\ ScopesOfBody /\ UsesKnown
      /\ SlotsTaken /\ SlotsApart
  BY DEF IInv
<1>2. /\ Doing("pop block") /\ scopes' = Tail(scopes) /\ Work(<<>>)
      /\ program' = program /\ body' = body /\ loops' = loops
      /\ nextSlot' = nextSlot /\ maxSlot' = maxSlot /\ ok' = ok /\ decls' = decls
      /\ uses' = uses /\ reports' = reports /\ frames' = frames
  BY Zenon DEF LeaveBlock, slotVars
<1>3. /\ todo # <<>> /\ ~IsBody(Head(todo)) /\ ~IsPopBody(Head(todo)) /\ Pops(Head(todo)) = 1
  <2>1. todo # <<>> /\ Head(todo)[1] = "pop block"
    BY <1>2, Zenon DEF Doing
  <2> QED BY <2>1 DEF IsBody, IsPopBody, Pops
<1>4. /\ <<>> \in Seq(Tasks)
      /\ \A i \in 1 .. Len(<<>>) :
           ~IsBody(<<>>[i]) /\ ~IsPopBody(<<>>[i]) /\ (i # Len(<<>>) => Pops(<<>>[i]) = 0)
  OBVIOUS
<1>5. todo \in Seq(Tasks) /\ todo' \in Seq(Tasks)
  <2>1. todo \in Seq(Tasks)
    BY <1>1 DEF TypeInv
  <2> QED BY <1>2, <1>3, <1>4, <2>1, WorkFacts
<1>6. Len(scopes) \in Nat /\ Len(scopes) >= 2
  BY <1>1, <1>3, <1>5, DepthNow
<1>7. scopes' \in Seq(ScopeSet) /\ Len(scopes') = Len(scopes) - 1 /\ ScopesOfBody'
  BY <1>1, <1>2, <1>6, Popped
<1>8. TypeInv'
  BY <1>1, <1>2, <1>5, <1>7, Zenon DEF TypeInv
<1>9. BodiesInOrder'
  BY <1>1, <1>2, <1>3, <1>4, OrderKept
<1>10. ScopesMatch'
  <2> DEFINE tasks == <<>>
             n == Len(scopes')
  <2>1. tasks \in Seq(Tasks) /\ Work(tasks) /\ tasks = <<>>
        /\ \A i \in 1 .. Len(tasks) : ~IsBody(tasks[i]) /\ (i # Len(tasks) => Pops(tasks[i]) = 0)
    BY <1>2, <1>4, Zenon
  <2>2. n \in Nat /\ n = Len(scopes) - Pops(Head(todo))
    BY <1>3, <1>6, <1>7
  <2> HIDE DEF tasks
  <2> QED BY <1>1, <1>3, <1>5, <2>1, <2>2, DepthKept
<1>11. UsesKnown' /\ SlotsTaken' /\ SlotsApart'
  BY <1>1, <1>2, Zenon DEF UsesKnown, SlotsTaken, SlotsApart, End, Bytes
<1> QED BY <1>7, <1>8, <1>9, <1>10, <1>11, Zenon DEF IInv

-----------------------------------------------------------------------------
(* Bodies are entered and left.                                            *)

(* Two tasks at the end come one after the other. *)
LEMMA TwoAppended ==
  ASSUME NEW S, NEW c \in Seq(S), NEW x \in S, NEW y \in S
  PROVE  c \o <<x, y>> = c \o <<x>> \o <<y>>
<1>2. <<x>> \in Seq(S) /\ <<y>> \in Seq(S)
  OBVIOUS
<1>1. <<x, y>> = <<x>> \o <<y>>
  <2> DEFINE a == <<x, y>>
             b == <<x>> \o <<y>>
  <2>1. a \in Seq(S) /\ Len(a) = 2 /\ a[1] = x /\ a[2] = y
    OBVIOUS
  <2>2. b \in Seq(S) /\ Len(b) = 2 /\ b[1] = x /\ b[2] = y
    BY <1>2
  <2> HIDE DEF a, b
  <2>3. \A i \in 1 .. 2 : i = 1 \/ i = 2
    OBVIOUS
  <2>4. a = b
    BY <2>1, <2>2, <2>3
  <2> QED BY <2>4 DEF a, b
<1> QED BY <1>1, <1>2, ConcatAssociative

(* A body is entered when the ones before it have been left. *)
LEMMA EnterBodyKeeps ==
  ASSUME IInv, EnterBody
  PROVE  IInv'
<1> DEFINE f == program.bodies[Arg]
           inside == Each(Param, f.params) \o Each(Block, f.body) \o <<CheckReturn>>
           tasks == Each(Param, f.params) \o Each(Block, f.body) \o <<CheckReturn, PopBody>>
           m == Len(tasks)
<1>1. /\ TypeInv /\ BodiesInOrder /\ ScopesMatch /\ ScopesOfBody /\ UsesKnown
      /\ SlotsTaken /\ SlotsApart
  BY DEF IInv
<1>2. /\ Doing("body") /\ body' = Arg /\ scopes' = <<Empty>> \o scopes /\ Work(tasks)
      /\ nextSlot' = 0 /\ maxSlot' = 0
      /\ program' = program /\ loops' = loops /\ ok' = ok /\ decls' = decls
      /\ uses' = uses /\ reports' = reports /\ frames' = frames
  BY Zenon DEF EnterBody
<1>3. todo # <<>> /\ IsBody(Head(todo)) /\ Pops(Head(todo)) = 0
  <2>1. todo # <<>> /\ Head(todo)[1] = "body"
    BY <1>2, Zenon DEF Doing
  <2> QED BY <2>1 DEF IsBody, Pops
<1>4. /\ todo \in Seq(Tasks) /\ Inner = 0 /\ Count \in Nat /\ body \in Nat /\ Arg = body + 1
      /\ Len(frames) = body /\ program.bodies \in Seq(FuncShape)
  <2>1. Inner = 0 /\ Count \in Nat /\ body \in Nat /\ Head(todo) = Body(body + 1)
    BY <1>1, <1>3, HeadFacts
  <2>2. Arg = body + 1
    BY <2>1 DEF Arg, Body
  <2>3. Len(frames) = body
    BY <1>1, <2>1 DEF BodiesInOrder
  <2>4. todo \in Seq(Tasks) /\ program.bodies \in Seq(FuncShape)
    BY <1>1, CountFacts DEF TypeInv
  <2> QED BY <2>1, <2>2, <2>3, <2>4
<1>5. body + 1 \in 1 .. Count
  <2>1. Len(todo) - (Count - body) = 0
    BY <1>4 DEF Inner
  <2>2. Len(todo) \in Nat /\ Len(todo) > 0
    BY <1>3, <1>4
  <2> QED BY <1>4, <2>1, <2>2
<1>6. f \in FuncShape
  BY <1>4, <1>5 DEF Count
<1>7. f.params \in Seq(ParamSet) /\ f.body \in Seq(Seq(Stmts))
  BY <1>6 DEF FuncShape, ParamSet
<1>8. /\ Each(Param, f.params) \in Seq(PlainTasks) /\ Each(Block, f.body) \in Seq(PlainTasks)
      /\ <<CheckReturn>> \in Seq(PlainTasks)
  BY <1>7, PlainEach, PlainOnes, PlainSeqs
<1> HIDE DEF f
<1>9. inside \in Seq(PlainTasks) /\ tasks = inside \o <<PopBody>>
  <2> DEFINE a == Each(Param, f.params)
             b == Each(Block, f.body)
  <2>1. a \in Seq(PlainTasks) /\ b \in Seq(PlainTasks)
    BY <1>8
  <2> HIDE DEF a, b
  <2>2. a \o b \in Seq(PlainTasks)
    BY <2>1, PlainSeqs
  <2>3. a \o b \o <<CheckReturn>> \in Seq(PlainTasks)
    BY <1>8, <2>2, PlainSeqs
  <2> DEFINE c == a \o b
  <2>4. c \o <<CheckReturn, PopBody>> = c \o <<CheckReturn>> \o <<PopBody>>
    <3> HIDE DEF c
    <3>1. c \in Seq(Tasks)
      BY <2>2, PlainSeq DEF c
    <3>2. CheckReturn \in Tasks /\ PopBody \in Tasks
      BY DEF Tasks, PlainTasks
    <3> QED BY <3>1, <3>2, TwoAppended
  <2> QED BY <2>3, <2>4 DEF a, b
<1>10. /\ inside \in Seq(Tasks) /\ Len(inside) \in Nat
       /\ \A i \in 1 .. Len(inside) :
            ~IsBody(inside[i]) /\ ~IsPopBody(inside[i]) /\ Pops(inside[i]) = 0
  BY <1>9, PlainSeq
<1>11. PopBody \in Tasks /\ ~IsBody(PopBody) /\ Pops(PopBody) = 1
  <2>1. PopBody[1] = "pop body"
    BY DEF PopBody
  <2>2. PopBody \in Tasks
    BY DEF Tasks
  <2> QED BY <2>1, <2>2 DEF IsBody, Pops
<1> HIDE DEF inside, tasks
<1>12. /\ tasks \in Seq(Tasks) /\ tasks # <<>> /\ m = Len(inside) + 1
       /\ \A i \in 1 .. Len(inside) : tasks[i] = inside[i]
       /\ tasks[m] = PopBody
  BY <1>9, <1>10, <1>11
<1>13. m \in Nat /\ m > 0 /\ \A i \in 1 .. m : (i < m => i \in 1 .. Len(inside))
  BY <1>10, <1>12
<1>14. /\ todo' \in Seq(Tasks) /\ Len(todo) \in Nat /\ Len(todo') = m + Len(todo) - 1
       /\ DOMAIN todo = 1 .. Len(todo) /\ DOMAIN todo' = 1 .. Len(todo')
       /\ \A i \in 1 .. m : todo'[i] = tasks[i]
       /\ \A i \in DOMAIN todo' :
            \/ i \in 1 .. m
            \/ i - m + 1 \in 2 .. Len(todo) /\ todo'[i] = todo[i - m + 1]
  BY <1>2, <1>3, <1>4, <1>12, WorkFacts
<1> HIDE DEF m
<1>15. /\ scopes' \in Seq(ScopeSet) /\ Len(scopes') = Len(scopes) + 1 /\ ScopesOfBody'
       /\ Len(scopes) = 1
  <2>1. Len(scopes) = 1
    BY <1>1, <1>3, <1>4, DepthNow
  <2> QED BY <1>1, <1>2, <2>1, Pushed
<1>16. TypeInv'
  <2>1. 0 \in Nat
    OBVIOUS
  <2> QED BY <1>1, <1>2, <1>14, <1>15, <2>1, Zenon DEF TypeInv
<1>17. Count' = Count /\ body' = body + 1 /\ Inner' = m
  <2>1. Count' = Count /\ body' = body + 1
    BY <1>2, <1>4, Zenon DEF Count
  <2>2. Inner' = Len(todo') - (Count - (body + 1))
    BY <2>1, Zenon DEF Inner
  <2>3. Len(todo) - (Count - body) = 0
    BY <1>4, Zenon DEF Inner
  <2>4. /\ m \in Nat /\ Len(todo) \in Nat /\ Len(todo') = m + Len(todo) - 1
        /\ Count \in Nat /\ body \in Nat
    BY <1>4, <1>13, <1>14, Zenon
  <2>5. Len(todo') - (Count - (body + 1)) = m
    BY <2>3, <2>4
  <2> QED BY <2>1, <2>2, <2>5, Zenon
<1>18. BodiesInOrder'
  <2>1. ASSUME NEW i \in DOMAIN todo'
        PROVE  /\ i > Inner' => todo'[i] = Body(body' + i - Inner')
               /\ i < Inner' => ~IsBody(todo'[i]) /\ ~IsPopBody(todo'[i])
               /\ i = Inner' => todo'[i] = PopBody
    <3>1. CASE i \in 1 .. m
      <4>1. ~(i > m) /\ todo'[i] = tasks[i]
        BY <1>13, <1>14, <3>1
      <4>2. i < m => ~IsBody(tasks[i]) /\ ~IsPopBody(tasks[i])
        BY <1>10, <1>12, <1>13, <3>1, Zenon
      <4> QED BY <1>12, <1>17, <4>1, <4>2, Zenon
    <3>2. CASE i \notin 1 .. m
      <4> DEFINE k == i - m + 1
      <4>1. k \in 2 .. Len(todo) /\ todo'[i] = todo[k]
        BY <1>14, <3>2
      <4>2. i \in Int /\ i > m /\ body + k - 0 = (body + 1) + i - m /\ ~(i < m) /\ i # m
        <5>1. i \in 1 .. Len(todo') /\ m \in Nat /\ body \in Nat /\ Len(todo') \in Nat
          BY <1>4, <1>13, <1>14
        <5> QED BY <3>2, <5>1
      <4>3. k \in DOMAIN todo /\ k > 0
        BY <1>14, <4>1
      <4> HIDE DEF k
      <4>4. todo[k] = Body(body + k - 0)
        BY <1>1, <1>4, <4>3, Zenon DEF BodiesInOrder
      <4> QED BY <1>17, <4>1, <4>2, <4>4, Zenon
    <3> QED BY <3>1, <3>2
  <2>2. body' \in 0 .. Count' /\ Inner' >= 0 /\ Inner' > 0 /\ Len(frames') = body' - 1
    <3>1. (body + 1) - 1 = body /\ body + 1 \in 0 .. Count /\ m >= 0
      BY <1>4, <1>5, <1>13
    <3> QED BY <1>2, <1>4, <1>13, <1>17, <3>1, Zenon
  <2> QED BY <2>1, <2>2, Zenon DEF BodiesInOrder
<1>19. ScopesMatch'
  <2> DEFINE n == Len(scopes')
  <2>1. n \in Nat /\ n >= 2 /\ n = Len(scopes) - Pops(Head(todo)) + Pops(tasks[m])
    BY <1>3, <1>11, <1>12, <1>15
  <2>2. \A i \in 1 .. m : i # m => i < m
    BY <1>13
  <2>3. \A i \in 1 .. m : ~IsBody(tasks[i]) /\ (i # m => Pops(tasks[i]) = 0)
    BY <1>10, <1>11, <1>12, <1>13, <2>2, Zenon
  <2> QED BY <1>1, <1>2, <1>3, <1>4, <1>12, <2>1, <2>3, DepthKept DEF m
<1>20. UsesKnown'
  BY <1>1, <1>2, Zenon DEF UsesKnown
<1>21. SlotsTaken'
  <2>1. ASSUME NEW d \in DOMAIN decls
        PROVE  decls[d].body \in 1 .. body + 1 /\ decls[d].body # body + 1
    <3>1. decls[d].body \in 1 .. body
      BY <1>1 DEF SlotsTaken
    <3> QED BY <1>4, <3>1
  <2>2. 0 <= 0
    OBVIOUS
  <2> QED BY <1>2, <1>17, <2>1, <2>2, Zenon DEF SlotsTaken
<1>22. SlotsApart'
  <2>1. ASSUME NEW d \in DOMAIN decls PROVE decls[d].body \in DOMAIN frames
    <3>1. decls[d].body \in 1 .. body
      BY <1>1 DEF SlotsTaken
    <3>2. DOMAIN frames = 1 .. Len(frames)
      BY <1>1 DEF TypeInv
    <3> QED BY <1>4, <3>1, <3>2
  <2> QED BY <1>1, <1>2, <2>1, Zenon DEF SlotsApart, Bytes
<1> QED BY <1>15, <1>16, <1>18, <1>19, <1>20, <1>21, <1>22, Zenon DEF IInv

(* A body is left when all of it has been analysed. *)
LEMMA LeaveBodyKeeps ==
  ASSUME IInv, LeaveBody
  PROVE  IInv'
<1>1. /\ TypeInv /\ BodiesInOrder /\ ScopesMatch /\ ScopesOfBody /\ UsesKnown
      /\ SlotsTaken /\ SlotsApart
  BY DEF IInv
<1>2. /\ Doing("pop body") /\ frames' = Append(frames, FrameSize(maxSlot))
      /\ scopes' = Tail(scopes) /\ Work(<<>>)
      /\ program' = program /\ body' = body /\ loops' = loops
      /\ nextSlot' = nextSlot /\ maxSlot' = maxSlot /\ ok' = ok /\ decls' = decls
      /\ uses' = uses /\ reports' = reports
  BY Zenon DEF LeaveBody, slotVars
<1>3. /\ todo # <<>> /\ ~IsBody(Head(todo)) /\ IsPopBody(Head(todo)) /\ Pops(Head(todo)) = 1
  <2>1. todo # <<>> /\ Head(todo)[1] = "pop body"
    BY <1>2, Zenon DEF Doing
  <2> QED BY <2>1 DEF IsBody, IsPopBody, Pops
<1>4. /\ todo \in Seq(Tasks) /\ Inner = 1 /\ Count \in Nat /\ body \in Nat /\ body \in 1 .. Count
      /\ Len(frames) = body - 1
  <2>1. Inner = 1 /\ Count \in Nat /\ body \in Nat /\ body \in 1 .. Count
    BY <1>1, <1>3, HeadFacts
  <2>2. Len(frames) = body - 1
    BY <1>1, <2>1 DEF BodiesInOrder
  <2> QED BY <1>1, <2>1, <2>2 DEF TypeInv
<1>5. <<>> \in Seq(Tasks)
  OBVIOUS
<1>6. /\ todo' \in Seq(Tasks) /\ Len(todo) \in Nat /\ Len(todo') = Len(todo) - 1
      /\ DOMAIN todo = 1 .. Len(todo) /\ DOMAIN todo' = 1 .. Len(todo')
      /\ \A i \in DOMAIN todo' : i + 1 \in 2 .. Len(todo) /\ todo'[i] = todo[i + 1]
  <2> DEFINE tasks == <<>>
  <2>1. tasks \in Seq(Tasks) /\ Len(tasks) = 0 /\ Work(tasks)
    BY <1>2, <1>5
  <2> HIDE DEF tasks
  <2>2. /\ todo' \in Seq(Tasks) /\ Len(todo) \in Nat /\ Len(todo') = Len(tasks) + Len(todo) - 1
        /\ DOMAIN todo = 1 .. Len(todo) /\ DOMAIN todo' = 1 .. Len(todo')
        /\ \A i \in DOMAIN todo' :
             \/ i \in 1 .. Len(tasks)
             \/ i - Len(tasks) + 1 \in 2 .. Len(todo) /\ todo'[i] = todo[i - Len(tasks) + 1]
    BY <1>3, <1>4, <2>1, WorkFacts
  <2>3. ASSUME NEW i \in DOMAIN todo' PROVE i + 1 \in 2 .. Len(todo) /\ todo'[i] = todo[i + 1]
    <3>1. i \notin 1 .. Len(tasks) /\ i - Len(tasks) + 1 = i + 1
      BY <2>1, <2>2
    <3> QED BY <2>2, <3>1
  <2>4. Len(todo') = Len(todo) - 1
    BY <2>1, <2>2
  <2> QED BY <2>2, <2>3, <2>4
<1>7. Len(scopes) \in Nat /\ Len(scopes) >= 2
  BY <1>1, <1>3, <1>4, DepthNow
<1>8. scopes' \in Seq(ScopeSet) /\ Len(scopes') = Len(scopes) - 1 /\ ScopesOfBody'
  BY <1>1, <1>2, <1>7, Popped
<1>9. maxSlot \in Nat /\ frames \in Seq(Nat) /\ nextSlot \in Nat /\ decls \in Seq(DeclSet)
  BY <1>1 DEF TypeInv
<1>10. FrameSize(maxSlot) \in Nat /\ 8 * maxSlot <= FrameSize(maxSlot)
  BY <1>9, FrameSuffices
<1>11. /\ frames' \in Seq(Nat) /\ DOMAIN frames = 1 .. body - 1 /\ DOMAIN frames' = 1 .. body
       /\ \A i \in DOMAIN frames : frames'[i] = frames[i]
       /\ frames'[body] = FrameSize(maxSlot)
       /\ Len(frames') = body
  <2>1. /\ frames' \in Seq(Nat) /\ DOMAIN frames = 1 .. Len(frames)
        /\ DOMAIN frames' = 1 .. Len(frames) + 1
        /\ \A i \in DOMAIN frames : frames'[i] = frames[i]
        /\ frames'[Len(frames) + 1] = FrameSize(maxSlot)
    <3> DEFINE size == FrameSize(maxSlot)
    <3>1. size \in Nat /\ frames \in Seq(Nat) /\ frames' = Append(frames, size)
      BY <1>2, <1>9, <1>10
    <3> HIDE DEF size
    <3> QED BY <3>1, AppendFacts DEF size
  <2>2. Len(frames) + 1 = body
    BY <1>4
  <2>3. Len(frames') = body
    BY <1>4, <2>1, <2>2
  <2> QED BY <1>4, <2>1, <2>2, <2>3
<1>12. TypeInv'
  BY <1>1, <1>2, <1>6, <1>8, <1>11, Zenon DEF TypeInv
<1>13. Count' = Count /\ Inner' = 0
  <2>1. Count' = Count
    BY <1>2, Zenon DEF Count
  <2>2. Inner' = Len(todo') - (Count - body) /\ Len(todo) - (Count - body) = 1
    BY <1>2, <1>4, <2>1, Zenon DEF Inner
  <2> QED BY <1>4, <1>6, <2>1, <2>2
<1>14. BodiesInOrder'
  <2>1. ASSUME NEW i \in DOMAIN todo'
        PROVE  /\ i > Inner' => todo'[i] = Body(body' + i - Inner')
               /\ i < Inner' => ~IsBody(todo'[i]) /\ ~IsPopBody(todo'[i])
               /\ i = Inner' => todo'[i] = PopBody
    <3> DEFINE k == i + 1
    <3>1. k \in DOMAIN todo /\ k > 1 /\ todo'[i] = todo[k]
      BY <1>6
    <3>2. body + k - 1 = body + i - 0 /\ ~(i < 0) /\ i # 0
      BY <1>4, <1>6
    <3> HIDE DEF k
    <3>3. todo[k] = Body(body + k - 1)
      BY <1>1, <1>4, <3>1, Zenon DEF BodiesInOrder
    <3> QED BY <1>2, <1>13, <3>1, <3>2, <3>3, Zenon
  <2>2. body' \in 0 .. Count' /\ Inner' >= 0 /\ ~(Inner' > 0) /\ Len(frames') = body'
    <3>1. body \in 0 .. Count /\ 0 >= 0 /\ ~(0 > 0)
      BY <1>4
    <3> QED BY <1>2, <1>11, <1>13, <3>1, Zenon
  <2> QED BY <2>1, <2>2, Zenon DEF BodiesInOrder
<1>15. ScopesMatch'
  <2> DEFINE tasks == <<>>
             n == Len(scopes')
  <2>1. tasks \in Seq(Tasks) /\ Work(tasks) /\ tasks = <<>>
    BY <1>2, <1>5, Zenon
  <2>2. \A i \in 1 .. Len(tasks) : ~IsBody(tasks[i]) /\ (i # Len(tasks) => Pops(tasks[i]) = 0)
    OBVIOUS
  <2>3. n \in Nat /\ n = Len(scopes) - Pops(Head(todo))
    BY <1>3, <1>7, <1>8
  <2> HIDE DEF tasks
  <2> QED BY <1>1, <1>3, <1>4, <2>1, <2>2, <2>3, DepthKept
<1>16. UsesKnown' /\ SlotsTaken'
  BY <1>1, <1>2, Zenon DEF UsesKnown, SlotsTaken, End, Bytes
<1>17. SlotsApart'
  <2> SUFFICES ASSUME NEW d \in DOMAIN decls
               PROVE  /\ \A e \in DOMAIN decls : d < e /\ decls[e].body = decls[d].body
                                                   => End(d) <= 8 * decls[e].slot
                      /\ End(d) <= IF decls[d].body \in DOMAIN frames'
                                     THEN frames'[decls[d].body] ELSE 8 * maxSlot
    BY <1>2, Zenon DEF SlotsApart, End, Bytes
  <2>1. /\ \A e \in DOMAIN decls : d < e /\ decls[e].body = decls[d].body
                                     => End(d) <= 8 * decls[e].slot
        /\ End(d) <= IF decls[d].body \in DOMAIN frames
                       THEN frames[decls[d].body] ELSE 8 * maxSlot
    BY <1>1, Zenon DEF SlotsApart, End
  <2>2. decls[d].body \in 1 .. body
    BY <1>1, Zenon DEF SlotsTaken
  <2>3. decls[d].body \in DOMAIN frames'
    BY <1>11, <2>2
  <2>4. CASE decls[d].body \in DOMAIN frames
    BY <1>11, <2>1, <2>3, <2>4, Zenon
  <2>5. CASE decls[d].body \notin DOMAIN frames
    <3>1. decls[d].body = body
      BY <1>4, <1>11, <2>2, <2>5
    <3>2. End(d) \in Nat
      <4>1. decls[d] \in DeclSet
        BY <1>9
      <4>2. decls[d].slot \in Nat /\ decls[d].size \in Nat
        BY <4>1 DEF DeclSet
      <4> QED BY <4>2 DEF End, Bytes
    <3>3. End(d) <= 8 * maxSlot
      BY <2>1, <2>5, Zenon
    <3> HIDE DEF End
    <3>4. End(d) <= FrameSize(maxSlot)
      BY <1>9, <1>10, <3>2, <3>3
    <3> QED BY <1>11, <2>1, <2>3, <3>1, <3>4, Zenon
  <2> QED BY <2>4, <2>5
<1> QED BY <1>8, <1>12, <1>14, <1>15, <1>16, <1>17, Zenon DEF IInv

-----------------------------------------------------------------------------
(* The theorems.                                                           *)

(* The first state: the bodies to come, and the global scope. *)
LEMMA InitHolds == Init => IInv
<1> SUFFICES ASSUME Init PROVE IInv
  OBVIOUS
<1> DEFINE bodies == program.bodies
           m == Len(bodies)
           global == [n \in program.globals |-> Symbol("func", 0)]
<1>1. /\ program \in Programs /\ body = 0 /\ todo = [b \in DOMAIN bodies |-> Body(b)]
      /\ scopes = <<global>>
      /\ loops = 0 /\ nextSlot = 0 /\ maxSlot = 0 /\ ok = TRUE
      /\ decls = <<>> /\ uses = <<>> /\ reports = <<>> /\ frames = <<>>
  BY Zenon DEF Init
<1>2. bodies \in Seq(FuncShape) /\ program.globals \in SUBSET Names
  BY <1>1, ProgramsAssumption
<1>3. m \in Nat /\ DOMAIN bodies = 1 .. m
  BY <1>2
<1>4. \A b \in Nat : Body(b) \in Tasks /\ IsBody(Body(b)) /\ Pops(Body(b)) = 0
  BY DEF Body, Tasks, IsBody, Pops
<1>5. /\ todo \in Seq(Tasks) /\ Len(todo) = m /\ DOMAIN todo = 1 .. m
      /\ \A i \in 1 .. m : todo[i] = Body(i)
  <2> HIDE DEF m, bodies
  <2>1. todo = [b \in 1 .. m |-> Body(b)]
    BY <1>1, <1>3
  <2>2. \A b \in 1 .. m : Body(b) \in Tasks
    BY <1>4
  <2> QED BY <1>3, <2>1, <2>2
<1>6. /\ global \in ScopeSet
      /\ \A n \in DOMAIN global : global[n].kind = "func"
  <2>1. Symbol("func", 0) \in SymbolSet /\ Symbol("func", 0).kind = "func"
    BY DEF Symbol, SymbolSet
  <2>2. global \in [program.globals -> SymbolSet]
    BY <2>1
  <2>3. program.globals \in SUBSET NameSet
    BY <1>2 DEF NameSet
  <2>4. global \in ScopeSet
    BY <2>2, <2>3, Zenon DEF ScopeSet
  <2> QED BY <2>1, <2>4
<1> HIDE DEF global
<1>7. scopes \in Seq(ScopeSet) /\ Len(scopes) = 1 /\ scopes[1] = global /\ scopes # <<>>
  BY <1>1, <1>6
<1>8. /\ decls \in Seq(DeclSet) /\ uses \in Seq(UseSet) /\ reports \in Seq(ReportSet)
      /\ frames \in Seq(Nat) /\ Len(frames) = 0
      /\ DOMAIN decls = {} /\ DOMAIN uses = {}
  BY <1>1
<1>9. TypeInv
  BY <1>1, <1>5, <1>7, <1>8 DEF TypeInv
<1>10. Count = m /\ Inner = 0
  <2>1. Count = m
    BY DEF Count
  <2> QED BY <1>1, <1>3, <1>5, <2>1 DEF Inner
<1>11. BodiesInOrder
  <2>1. ASSUME NEW i \in DOMAIN todo
        PROVE  todo[i] = Body(body + i - Inner) /\ ~(i < Inner) /\ i # Inner
    BY <1>1, <1>3, <1>5, <1>10
  <2>2. body \in 0 .. Count /\ Inner >= 0 /\ ~(Inner > 0) /\ Len(frames) = body
    BY <1>1, <1>3, <1>8, <1>10
  <2> QED BY <2>1, <2>2, Zenon DEF BodiesInOrder
<1>12. ScopesMatch
  <2> DEFINE e == [i \in 1 .. Len(todo) + 1 |-> 1]
  <2>1. DepthAt(e)
    <3>1. e \in [1 .. Len(todo) + 1 -> Nat] /\ e[1] = 1 /\ e[Len(todo) + 1] = 1
      BY <1>3, <1>5
    <3>2. ASSUME NEW i \in DOMAIN todo
          PROVE  e[i] = e[i + 1] + Pops(todo[i]) /\ e[i] = 1 /\ IsBody(todo[i])
      <4>1. i \in 1 .. Len(todo) + 1 /\ i + 1 \in 1 .. Len(todo) + 1 /\ todo[i] = Body(i) /\ i \in Nat
        BY <1>3, <1>5
      <4> QED BY <1>4, <4>1
    <3> HIDE DEF e
    <3> QED BY <1>7, <3>1, <3>2 DEF DepthAt
  <2>2. e \in [1 .. Len(todo) + 1 -> Nat]
    OBVIOUS
  <2> HIDE DEF e
  <2> QED BY <2>1, <2>2 DEF ScopesMatch
<1>13. ScopesOfBody
  <2>1. \A i \in 1 .. Len(scopes) - 1 : FALSE
    BY <1>7
  <2> QED BY <1>6, <1>7, <2>1 DEF ScopesOfBody
<1>14. UsesKnown /\ SlotsTaken /\ SlotsApart
  BY <1>1, <1>8 DEF UsesKnown, SlotsTaken, SlotsApart
<1> QED BY <1>9, <1>11, <1>12, <1>13, <1>14 DEF IInv

(* What does not change what the invariant is about keeps it. *)
LEMMA StutterKeeps ==
  ASSUME IInv, UNCHANGED vars
  PROVE  IInv'
<1>1. /\ program' = program /\ body' = body /\ todo' = todo /\ scopes' = scopes
      /\ loops' = loops /\ nextSlot' = nextSlot /\ maxSlot' = maxSlot /\ ok' = ok
      /\ decls' = decls /\ uses' = uses /\ reports' = reports /\ frames' = frames
  BY DEF vars
<1>2. /\ TypeInv /\ BodiesInOrder /\ ScopesMatch /\ ScopesOfBody /\ UsesKnown
      /\ SlotsTaken /\ SlotsApart
  BY DEF IInv
<1>3. TypeInv' /\ ScopesOfBody' /\ UsesKnown'
  BY <1>1, <1>2, Zenon DEF TypeInv, ScopesOfBody, UsesKnown
<1>4. BodiesInOrder'
  BY <1>1, <1>2, Zenon DEF BodiesInOrder, Inner, Count
<1>5. ScopesMatch'
  <2>1. PICK e \in [1 .. Len(todo) + 1 -> Nat] : DepthAt(e)
    BY <1>2 DEF ScopesMatch
  <2>2. DepthAt(e)'
    BY <1>1, <2>1, Zenon DEF DepthAt, Pops, IsBody
  <2> QED BY <1>1, <2>1, <2>2, Zenon DEF ScopesMatch
<1>6. SlotsTaken' /\ SlotsApart'
  BY <1>1, <1>2, Zenon DEF SlotsTaken, SlotsApart, End, Bytes
<1> QED BY <1>3, <1>4, <1>5, <1>6, Zenon DEF IInv

(* Every step of the analysis keeps the invariant. *)
LEMMA NextKeeps == IInv /\ [Next]_vars => IInv'
<1> SUFFICES ASSUME IInv, [Next]_vars PROVE IInv'
  OBVIOUS
<1>1. CASE EnterBody \/ LeaveBody \/ EnterBlock \/ LeaveBlock
  BY <1>1, EnterBodyKeeps, LeaveBodyKeeps, EnterBlockKeeps, LeaveBlockKeeps
<1>2. CASE AnalyzeParam \/ DeclareVar
  BY <1>2, DeclarationsKeep
<1>3. CASE CheckReturns
  BY <1>3, CheckKeeps
<1>4. CASE \/ AnalyzeBlock \/ AnalyzeDecl \/ AnalyzeExprStmt \/ AnalyzeIf
           \/ AnalyzeFor \/ AnalyzeWhile \/ AnalyzeDoWhile
  BY <1>4, StatementsKeep
<1>5. CASE EnterLoop \/ LeaveLoop \/ AnalyzeExit
  BY <1>5, LoopsKeep
<1>6. CASE \/ AnalyzeLiteral \/ AnalyzeBinary \/ AnalyzeRight \/ EndBinary
           \/ AnalyzeParts \/ AnalyzePart \/ AnalyzeAll \/ EndAll
  BY <1>6, ExpressionsKeep
<1>7. CASE AnalyzeIdent
  BY <1>7, IdentKeeps
<1>8. CASE EndParts
  BY <1>8, EndPartsKeeps
<1>9. CASE Stays \/ UNCHANGED vars
  BY <1>9, StutterKeeps DEF Stays
<1> QED BY <1>1, <1>2, <1>3, <1>4, <1>5, <1>6, <1>7, <1>8, <1>9, Zenon DEF Next

(* What is left to do, the scopes and the slots stay in step. *)
THEOREM InvariantHolds == Spec => []IInv
BY InitHolds, NextKeeps, PTL DEF Spec

(* No two variables of a function have a byte in common, and all are       *)
(* inside its frame: SymbolTable.next_stack_slot, max_stack_slots and      *)
(* frame_size, whatever the program.                                       *)
THEOREM SlotsAlwaysApart == Spec => []SlotsApart
<1>1. IInv => SlotsApart
  BY DEF IInv
<1> QED BY <1>1, InvariantHolds, PTL

(* A name never stands for a variable of another function: what symtable_  *)
(* lookup finds is global or belongs to the body under analysis.           *)
THEOREM UsesStayInFrame == Spec => []UsesOwnFrame
<1>1. IInv => UsesOwnFrame
  BY Zenon DEF IInv, UsesKnown, UsesOwnFrame
<1> QED BY <1>1, InvariantHolds, PTL

=============================================================================
