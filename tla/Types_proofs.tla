---------------------------- MODULE Types_proofs -----------------------------
(***************************************************************************)
(* Proofs about phase 3 and what asks it for the types of a function, for  *)
(* all programs: a type is in progress exactly while a call of             *)
(* _resolve_type for it is, and never twice.                               *)
(***************************************************************************)
EXTENDS CodegenExpr, TLAPS, SequenceTheorems, NaturalsInduction, WellFoundedInduction

-----------------------------------------------------------------------------
(* The inductive invariant.                                                *)

IsSeq(s) == s \in Seq({s[i] : i \in DOMAIN s})
IsList(s) == \E n \in Nat : DOMAIN s = 1 .. n

(* The nodes that the parser made, which are all that is ever resolved.    *)
Written == DOMAIN program.types

Loose == Outermost(program)
Inside(t) == InsideOf(program, t)

(* The nodes of the parser stay what they are, and what is known of a node *)
(* names a blueprint or none.                                              *)
NodesKept ==
  /\ program \in Programs
  /\ IsSeq(types) /\ IsSeq(tasts) /\ Len(types) = Len(tasts)
  /\ \A t \in Written : t \in DOMAIN types /\ types[t] = program.types[t]
  /\ \A t \in DOMAIN tasts :
       /\ "state" \in DOMAIN tasts[t] /\ "decl" \in DOMAIN tasts[t]
       /\ tasts[t].decl \in 0 .. Len(blueprints)

HasFields(b) ==
  /\ "fields" \in DOMAIN b /\ IsList(b.fields)
  /\ \A i \in DOMAIN b.fields : b.fields[i].type \in Loose

BlueprintsKept ==
  /\ IsSeq(blueprints) /\ Len(program.blueprints) <= Len(blueprints)
  /\ \A b \in DOMAIN blueprints : HasFields(blueprints[b])

ScopeKept == \A name \in DOMAIN scope : scope[name].type \in 0 .. Len(tasts)

Call == [type : Written, next : Nat \ {0}]

CallsKept == calls \in Seq(Call) /\ roots \in Seq(Loose)

(* A node inside of one that has been resolved is resolved before anything *)
(* leads to it; so is one inside of no other.                              *)
Safe(t) == t \in Loose \/ \E u \in Written : IsResolved(u) /\ t \in Inside(u)

(* A call resolves what is inside of that for which the call before it is, *)
(* or what is safe.                                                        *)
Linked(k) ==
  \/ Safe(calls[k].type)
  \/ k + 1 \in DOMAIN calls /\ calls[k].type \in Inside(calls[k + 1].type)

Chained == \A k \in DOMAIN calls : Linked(k)

TargetsSafe ==
  /\ targets \in [DOMAIN program.exprs -> 0 .. Len(program.types)]
  /\ \A e \in DOMAIN targets : Safe(targets[e])

StmtTasks == {"statement", "sized", "after"}
ExprTasks == {"visit", "rest"}

IsTask(x) ==
  \/ x[1] \in StmtTasks /\ x[2] \in DOMAIN program.body
  \/ x[1] \in ExprTasks /\ x[2] \in DOMAIN program.exprs

(* A statement is finished before the next, an expression before the one   *)
(* that it is part of.                                                     *)
Precedes(x, y) ==
  /\ x[1] \in StmtTasks => y[1] = "statement"
  /\ x[1] \in ExprTasks /\ y[1] \in ExprTasks => x[2] < y[2]

(* The type of an aggregate in work is resolved, or about to be.           *)
AwaitsType(t) == calls # <<>> /\ calls[Len(calls)].type = t

Settled(t) == IsResolved(t) \/ AwaitsType(t)

InitInWork(i) ==
  todo[i][1] = "rest" /\ Kind(todo[i][2]) = "init" =>
    LET t == targets[todo[i][2]]
    IN t # 0 /\ (IsResolved(t) \/ (i = 1 /\ AwaitsType(t)))

TodoKept ==
  phase = "bodies" =>
    /\ IsSeq(todo)
    /\ \A i \in DOMAIN todo : IsTask(todo[i]) /\ InitInWork(i)
    /\ \A i, j \in DOMAIN todo : i < j => Precedes(todo[i], todo[j])

TypesKept ==
  /\ NodesKept /\ BlueprintsKept /\ ScopeKept /\ CallsKept
  /\ ResolvedOnce /\ Chained /\ TargetsSafe

IInv == TypesKept /\ TodoKept

-----------------------------------------------------------------------------
(* Sequences, and the least of some numbers.                               *)

(* A sequence is made of its elements. *)
LEMMA SeqOfAny == ASSUME NEW V, NEW s \in Seq(V) PROVE IsSeq(s)
<1>1. Len(s) \in Nat /\ DOMAIN s = 1 .. Len(s)
  OBVIOUS
<1> DEFINE R == {s[i] : i \in DOMAIN s}
<1>2. s \in [1 .. Len(s) -> R]
  BY <1>1
<1> HIDE DEF R
<1>3. s \in Seq(R)
  BY <1>1, <1>2
<1> QED BY <1>3 DEF IsSeq, R

(* A function on the numbers up to n is a sequence. *)
LEMMA ListIsSeq ==
  ASSUME NEW n \in Nat, NEW V, NEW s \in [1 .. n -> V]
  PROVE  IsSeq(s) /\ Len(s) = n
<1>1. s \in Seq(V) /\ Len(s) = n
  OBVIOUS
<1> QED BY <1>1, SeqOfAny

(* Two sequences have their elements in a common set. *)
LEMMA CommonSet ==
  ASSUME NEW s, IsSeq(s), NEW u, IsSeq(u)
  PROVE  \E R : s \in Seq(R) /\ u \in Seq(R)
<1> DEFINE Q == {s[i] : i \in DOMAIN s}
           T == {u[i] : i \in DOMAIN u}
<1>1. s \in Seq(Q) /\ u \in Seq(T)
  BY DEF IsSeq
<1> HIDE DEF Q, T
<1>2. s \in Seq(Q \cup T) /\ u \in Seq(Q \cup T)
  BY <1>1
<1> QED BY <1>2

(* What follows another sequence. *)
LEMMA Joined ==
  ASSUME NEW s, IsSeq(s), NEW u, IsSeq(u)
  PROVE  /\ IsSeq(s \o u)
         /\ Len(s) \in Nat /\ DOMAIN s = 1 .. Len(s) /\ Len(u) \in Nat /\ DOMAIN u = 1 .. Len(u)
         /\ Len(s \o u) = Len(s) + Len(u) /\ DOMAIN (s \o u) = 1 .. Len(s) + Len(u)
         /\ \A i \in DOMAIN s : (s \o u)[i] = s[i]
         /\ \A i \in DOMAIN u : (s \o u)[Len(s) + i] = u[i]
<1>1. PICK R : s \in Seq(R) /\ u \in Seq(R)
  BY CommonSet
<1>2. s \o u \in Seq(R)
  BY <1>1
<1>3. IsSeq(s \o u)
  BY <1>2, SeqOfAny
<1> QED BY <1>1, <1>2, <1>3

(* One element more. *)
LEMMA Appended ==
  ASSUME NEW s, IsSeq(s), NEW x
  PROVE  /\ IsSeq(Append(s, x))
         /\ Len(s) \in Nat /\ DOMAIN s = 1 .. Len(s)
         /\ Len(Append(s, x)) = Len(s) + 1 /\ DOMAIN Append(s, x) = 1 .. Len(s) + 1
         /\ \A i \in DOMAIN s : Append(s, x)[i] = s[i]
         /\ Append(s, x)[Len(s) + 1] = x
<1>1. IsSeq(<<x>>)
  BY SeqOfAny, <<x>> \in Seq({x})
<1>2. PICK R : s \in Seq(R) /\ <<x>> \in Seq(R)
  BY <1>1, CommonSet
<1>3. x \in R
  BY <1>2
<1>4. Append(s, x) \in Seq(R)
  BY <1>2, <1>3
<1>5. IsSeq(Append(s, x))
  BY <1>4, SeqOfAny
<1> QED BY <1>2, <1>3, <1>5

(* The rest of a sequence. *)
LEMMA TailOfAny ==
  ASSUME NEW s, IsSeq(s), s # <<>>
  PROVE  /\ IsSeq(Tail(s))
         /\ Len(s) \in Nat \ {0} /\ DOMAIN s = 1 .. Len(s) /\ Head(s) = s[1]
         /\ Len(Tail(s)) = Len(s) - 1 /\ DOMAIN Tail(s) = 1 .. Len(s) - 1
         /\ \A i \in DOMAIN Tail(s) : Tail(s)[i] = s[i + 1]
<1> DEFINE R == {s[i] : i \in DOMAIN s}
<1>1. s \in Seq(R)
  BY DEF IsSeq
<1> HIDE DEF R
<1>2. Tail(s) \in Seq(R)
  BY <1>1
<1>3. IsSeq(Tail(s))
  BY <1>2, SeqOfAny
<1> QED BY <1>1, <1>3

(* What SequencesExt and the finite sets call the least is one of them. *)
LEMMA LeastIsOne == ASSUME NEW V, V \subseteq Nat, V # {} PROVE Min(V) \in V
<1>1. IsWellFoundedOn(OpToRel(<, Nat), Nat)
  BY NatLessThanWellFounded
<1>2. PICK x \in V : \A y \in V : ~(<<y, x>> \in OpToRel(<, Nat))
  BY <1>1, WFMin
<1>3. \A y \in V : ~(y < x)
  BY <1>2 DEF OpToRel
<1>4. \A y \in V : x <= y
  BY <1>3
<1> QED BY <1>4 DEF Min

-----------------------------------------------------------------------------
(* The program.                                                            *)

(* A node inside of another is a node of the parser's, and inside of no    *)
(* other. *)
LEMMA Trees ==
  ASSUME program \in Programs
  PROVE  /\ Len(program.types) \in Nat /\ Written = 1 .. Len(program.types)
         /\ 0 \in Loose /\ Loose \subseteq 0 .. Len(program.types)
         /\ \A t \in Written : Inside(t) \subseteq Written /\ Inside(t) \cap Loose = {}
         /\ \A t, u \in Written : Inside(t) \cap Inside(u) # {} => t = u
<1>1. program.types \in Seq(Type)
  BY TypesAssumption
<1>2. /\ \A t \in Written : Inside(t) \subseteq Written
      /\ \A t, u \in Written : Inside(t) \cap Inside(u) # {} => t = u
  BY TreesAssumption DEF Inside, Written
<1>3. \A t \in Written : 0 \notin Inside(t)
  BY DEF Inside, InsideOf
<1>4. Loose = (0 .. Len(program.types)) \ UNION {Inside(t) : t \in Written}
  BY DEF Loose, Outermost, Inside, Written
<1>5. Len(program.types) \in Nat /\ Written = 1 .. Len(program.types)
  BY <1>1 DEF Written
<1>6. Loose \subseteq 0 .. Len(program.types)
  BY <1>4
<1>7. 0 \in Loose
  BY <1>3, <1>4, <1>5
<1>8. \A t \in Written : Inside(t) \cap Loose = {}
  BY <1>4
<1> QED BY <1>2, <1>5, <1>6, <1>7, <1>8

(* What a node leads to, other than by a name, is inside of it or missing. *)
LEMMA Inners ==
  ASSUME program \in Programs, NEW t \in Written
  PROVE  /\ program.types[t].inner \in Seq(Nat)
         /\ \A i \in DOMAIN program.types[t].inner :
              program.types[t].inner[i] = 0 \/ program.types[t].inner[i] \in Inside(t)
         /\ program.types[t].tag = "array" => 1 \in DOMAIN program.types[t].inner
<1>1. program.types \in Seq(Type)
  BY TypesAssumption
<1>2. program.types[t] \in Type
  BY <1>1 DEF Written
<1>3. program.types[t].inner \in Seq(Nat)
  BY <1>2 DEF Type
<1>4. program.types[t].tag \in {"pointer", "array"} => Len(program.types[t].inner) = 1
  BY TreesAssumption DEF Written
<1>5. program.types[t].tag = "array" => 1 \in DOMAIN program.types[t].inner
  BY <1>3, <1>4
<1>6. \A i \in DOMAIN program.types[t].inner :
        program.types[t].inner[i] = 0 \/ program.types[t].inner[i] \in Inside(t)
  BY DEF Inside, InsideOf
<1> QED BY <1>3, <1>5, <1>6

(* The types that phase 3 begins with, and those of statements and         *)
(* signatures, are loose; a value is an expression. *)
LEMMA Mentions ==
  ASSUME program \in Programs
  PROVE  /\ AllRoots(program) \in Seq(Loose)
         /\ \A s \in DOMAIN program.body :
              /\ S(s).type \in Loose /\ S(s).expr \in Seq(DOMAIN program.exprs)
              /\ S(s).kind = "expr" => Has(s)
              /\ Has(s) => Value(s) \in DOMAIN program.exprs
         /\ IsSeq(program.body)
         /\ Func.result \in Loose
<1>1. AllRoots(program) \in Seq(Loose)
  BY TreesAssumption DEF Loose
<1>2. \A s \in DOMAIN program.body :
        /\ S(s).type \in Loose /\ S(s).expr \in Seq(DOMAIN program.exprs)
        /\ S(s).kind = "expr" => Has(s)
  BY TypingAssumption DEF Loose, S, Has
<1>3. ASSUME NEW s \in DOMAIN program.body, Has(s)
      PROVE  Value(s) \in DOMAIN program.exprs
  <2>1. S(s).expr \in Seq(DOMAIN program.exprs) /\ S(s).expr # <<>>
    BY <1>2, <1>3 DEF Has
  <2> QED BY <2>1 DEF Value
<1>4. IsSeq(program.body)
  <2>1. program.body \in Seq(Stmt)
    BY TypingAssumption
  <2> QED BY <2>1, SeqOfAny
<1>5. Func.result \in Loose
  <2>1. CASE InMethod
    <3> DEFINE b == program.method[1]
               m == program.method[2]
               o == program.method[3]
    <3>1. /\ b \in DOMAIN program.blueprints /\ m \in DOMAIN program.blueprints[b].methods
          /\ o \in DOMAIN program.blueprints[b].methods[m].overloads
      BY <2>1, TypingAssumption DEF InMethod
    <3>2. program.blueprints[b].methods[m].overloads[o].result \in Loose
      BY <3>1, TreesAssumption DEF Loose
    <3> QED BY <2>1, <3>2 DEF Func
  <2>2. CASE ~InMethod
    <3>1. program.funcs \in Seq(FuncDecl) /\ program.funcs # <<>>
      BY TypesAssumption, TypingAssumption
    <3>2. Len(program.funcs) \in DOMAIN program.funcs
      BY <3>1
    <3>3. program.funcs[Len(program.funcs)].result \in Loose
      BY <3>2, TreesAssumption DEF Loose
    <3> QED BY <2>2, <3>3 DEF Func
  <2> QED BY <2>1, <2>2
<1> QED BY <1>1, <1>2, <1>3, <1>4, <1>5

(* The parameters have loose types, but for self, which methods have. *)
LEMMA Parameters ==
  ASSUME program \in Programs
  PROVE  /\ IsSeq(Func.params)
         /\ \A i \in DOMAIN Func.params : Func.params[i] \in Param /\ Func.params[i].type \in Loose
         /\ HasSelf => InMethod /\ program.method[1] \in DOMAIN program.blueprints
<1>1. Func.params \in Seq(Param) /\ \A i \in DOMAIN Func.params : Func.params[i].type \in Loose
  <2>1. CASE InMethod
    <3> DEFINE b == program.method[1]
               m == program.method[2]
               o == program.method[3]
    <3>1. /\ b \in DOMAIN program.blueprints /\ m \in DOMAIN program.blueprints[b].methods
          /\ o \in DOMAIN program.blueprints[b].methods[m].overloads
      BY <2>1, TypingAssumption DEF InMethod
    <3>2. \A i \in DOMAIN program.blueprints[b].methods[m].overloads[o].params :
            program.blueprints[b].methods[m].overloads[o].params[i].type \in Loose
      BY <3>1, TreesAssumption DEF Loose
    <3>3. program.blueprints \in Seq(BlueprintDecl)
      BY TypesAssumption
    <3>4. program.blueprints[b] \in BlueprintDecl
      BY <3>1, <3>3
    <3>5. program.blueprints[b].methods \in Seq(MethodDecl)
      BY <3>4 DEF BlueprintDecl
    <3>6. program.blueprints[b].methods[m] \in MethodDecl
      BY <3>1, <3>5
    <3>7. program.blueprints[b].methods[m].overloads \in Seq(Signature)
      BY <3>6 DEF MethodDecl
    <3>8. program.blueprints[b].methods[m].overloads[o] \in Signature
      BY <3>1, <3>7
    <3>9. program.blueprints[b].methods[m].overloads[o].params \in Seq(Param)
      BY <3>8 DEF Signature
    <3> QED BY <2>1, <3>2, <3>9 DEF Func
  <2>2. CASE ~InMethod
    <3>1. program.funcs \in Seq(FuncDecl) /\ program.funcs # <<>>
      BY TypesAssumption, TypingAssumption
    <3>2. Len(program.funcs) \in DOMAIN program.funcs
      BY <3>1
    <3>3. program.funcs[Len(program.funcs)] \in FuncDecl
      BY <3>1, <3>2
    <3>4. program.funcs[Len(program.funcs)].params \in Seq(Param)
      BY <3>3 DEF FuncDecl
    <3>5. \A i \in DOMAIN program.funcs[Len(program.funcs)].params :
            program.funcs[Len(program.funcs)].params[i].type \in Loose
      BY <3>2, TreesAssumption DEF Loose
    <3> QED BY <2>2, <3>4, <3>5 DEF Func
  <2> QED BY <2>1, <2>2
<1>2. IsSeq(Func.params)
  BY <1>1, SeqOfAny
<1>3. \A i \in DOMAIN Func.params : Func.params[i] \in Param
  BY <1>1
<1>4. ASSUME HasSelf
      PROVE  InMethod /\ program.method[1] \in DOMAIN program.blueprints
  <2>1. CASE ~InMethod
    <3>1. program.funcs \in Seq(FuncDecl) /\ program.funcs # <<>>
      BY TypesAssumption, TypingAssumption
    <3>2. Len(program.funcs) \in DOMAIN program.funcs
      BY <3>1
    <3>3. \A i \in DOMAIN program.funcs[Len(program.funcs)].params :
            program.funcs[Len(program.funcs)].params[i].type # 0
      BY <3>2, TypingAssumption
    <3> QED BY <2>1, <3>3, <1>4 DEF HasSelf, Func
  <2>2. CASE InMethod
    BY <2>2, TypingAssumption DEF InMethod
  <2> QED BY <2>1, <2>2
<1> QED BY <1>1, <1>2, <1>3, <1>4

-----------------------------------------------------------------------------
(* What is known of the types, from one state to the next.                 *)

(* What was resolved stays so, and no node is lost. *)
StaysResolved ==
  /\ Len(tasts) <= Len(tasts')
  /\ \A t \in DOMAIN tasts : IsResolved(t) => IsResolved(t)'

(* The nodes of the parser are among those of which something is known. *)
LEMMA Known ==
  ASSUME NodesKept
  PROVE  /\ Len(tasts) \in Nat /\ DOMAIN tasts = 1 .. Len(tasts) /\ Written \subseteq DOMAIN tasts
         /\ Len(types) = Len(tasts) /\ DOMAIN types = 1 .. Len(types)
         /\ Len(program.types) <= Len(tasts)
<1>1. IsSeq(tasts) /\ IsSeq(types) /\ Len(types) = Len(tasts)
  BY DEF NodesKept
<1>2. Len(tasts) \in Nat /\ DOMAIN tasts = 1 .. Len(tasts) /\ DOMAIN types = 1 .. Len(types)
  BY <1>1 DEF IsSeq
<1>3. Written \subseteq DOMAIN tasts
  BY <1>1, <1>2 DEF NodesKept
<1>4. Len(program.types) \in Nat /\ Written = 1 .. Len(program.types)
  BY Trees DEF NodesKept
<1>5. Len(program.types) <= Len(tasts)
  <2>1. CASE Len(program.types) = 0
    BY <2>1, <1>2
  <2>2. CASE Len(program.types) # 0
    <3>1. Len(program.types) \in Written
      BY <1>4, <2>2
    <3> QED BY <3>1, <1>2, <1>3
  <2> QED BY <2>1, <2>2
<1> QED BY <1>1, <1>2, <1>3, <1>5

(* What is safe is a node of the parser's, or missing. *)
LEMMA SafeIsWritten ==
  ASSUME program \in Programs, NEW t, Safe(t)
  PROVE  t \in 0 .. Len(program.types) /\ (t = 0 \/ t \in Written)
<1>1. CASE t \in Loose
  BY <1>1, Trees
<1>2. CASE \E u \in Written : t \in Inside(u)
  BY <1>2, Trees
<1> QED BY <1>1, <1>2 DEF Safe

(* And stays safe. *)
LEMMA SafeStays ==
  ASSUME NodesKept, StaysResolved, program' = program, NEW t, Safe(t)
  PROVE  Safe(t)'
<1>1. CASE t \in Loose
  BY <1>1 DEF Safe, Loose
<1>2. ASSUME NEW u \in Written, IsResolved(u), t \in Inside(u)
      PROVE  Safe(t)'
  <2>1. u \in DOMAIN tasts
    BY Known
  <2>2. IsResolved(u)'
    BY <2>1, <1>2 DEF StaysResolved
  <2>3. u \in Written' /\ t \in Inside(u)'
    BY <1>2 DEF Written, Inside
  <2> QED BY <2>2, <2>3 DEF Safe
<1> QED BY <1>1, <1>2 DEF Safe

(* A name stands for a blueprint or for none. *)
LEMMA DeclaredIsOne ==
  ASSUME BlueprintsKept, NEW type
  PROVE  Declared(type) \in 0 .. Len(blueprints)
<1>1. Len(blueprints) \in Nat /\ DOMAIN blueprints = 1 .. Len(blueprints)
  BY DEF BlueprintsKept, IsSeq
<1>2. CASE type.tag # "blueprint" \/ Named(type.name) = {}
  BY <1>1, <1>2 DEF Declared
<1>3. CASE ~(type.tag # "blueprint" \/ Named(type.name) = {})
  <2>1. Named(type.name) \subseteq Nat
    BY <1>1 DEF Named
  <2>2. Min(Named(type.name)) \in Named(type.name)
    BY <2>1, <1>3, LeastIsOne
  <2>3. Declared(type) = Min(Named(type.name))
    BY <1>3 DEF Declared
  <2> QED BY <2>2, <2>3, <1>1 DEF Named
<1> QED BY <1>2, <1>3

(* What does not change with the types. *)
LEMMA OthersKept ==
  ASSUME TypesKept, StaysResolved, Len(tasts') \in Nat, UNCHANGED <<program, scope, targets>>
  PROVE  ScopeKept' /\ TargetsSafe'
<1>1. ScopeKept'
  <2>1. ScopeKept /\ Len(tasts) \in Nat
    BY Known DEF TypesKept
  <2> QED BY <2>1 DEF ScopeKept, StaysResolved
<1>2. TargetsSafe'
  <2>1. TargetsSafe /\ NodesKept
    BY DEF TypesKept
  <2>2. \A e \in DOMAIN targets : Safe(targets[e])'
    BY <2>1, SafeStays DEF TargetsSafe
  <2> QED BY <2>1, <2>2 DEF TargetsSafe
<1> QED BY <1>1, <1>2

(* The blueprints do not. *)
LEMMA BlueprintsStay ==
  ASSUME BlueprintsKept, UNCHANGED <<program, blueprints>>
  PROVE  BlueprintsKept'
BY DEF BlueprintsKept, HasFields, Loose

(* A call of _resolve_type for a type that is not in progress. *)
LEMMA Pushed ==
  ASSUME TypesKept, NEW t \in Written, ~IsResolved(t), \A k \in DOMAIN calls : calls[k].type # t,
         NEW rest \in Seq(Call), Len(rest) = Len(calls), \A k \in DOMAIN calls : rest[k].type = calls[k].type,
         Safe(t) \/ (calls # <<>> /\ t \in Inside(calls[1].type)),
         calls' = <<[type |-> t, next |-> 1]>> \o rest,
         tasts' = [tasts EXCEPT ![t].state = "RESOLVING", ![t].decl = Declared(types[t])],
         UNCHANGED <<program, types, blueprints, scope, targets>>, roots' \in Seq(Loose)
  PROVE  TypesKept' /\ StaysResolved
<1> DEFINE call == [type |-> t, next |-> 1]
           decl == Declared(types[t])
<1>1. NodesKept /\ BlueprintsKept /\ CallsKept /\ ResolvedOnce /\ Chained
  BY DEF TypesKept
<1>2. /\ Len(tasts) \in Nat /\ DOMAIN tasts = 1 .. Len(tasts) /\ Written \subseteq DOMAIN tasts
      /\ IsSeq(tasts)
  BY <1>1, Known DEF NodesKept
<1>3. decl \in 0 .. Len(blueprints)
  BY <1>1, DeclaredIsOne
<1> HIDE DEF decl
<1>4. t \in DOMAIN tasts /\ "state" \in DOMAIN tasts[t] /\ "decl" \in DOMAIN tasts[t]
  BY <1>1, <1>2 DEF NodesKept
<1>5. /\ DOMAIN tasts' = DOMAIN tasts
      /\ \A u \in DOMAIN tasts : u # t => tasts'[u] = tasts[u]
      /\ tasts'[t].state = "RESOLVING" /\ tasts'[t].decl = decl
      /\ DOMAIN tasts'[t] = DOMAIN tasts[t]
  BY <1>4 DEF decl
<1>6. IsSeq(tasts') /\ Len(tasts') = Len(tasts)
  <2>1. PICK V : tasts' \in [1 .. Len(tasts) -> V]
    <3>1. tasts' \in [1 .. Len(tasts) -> {tasts'[i] : i \in DOMAIN tasts}]
      BY <1>2, <1>5
    <3> QED BY <3>1
  <2> QED BY <2>1, <1>2, ListIsSeq
<1>7. NodesKept'
  <2>1. \A u \in DOMAIN tasts' :
          /\ "state" \in DOMAIN tasts'[u] /\ "decl" \in DOMAIN tasts'[u]
          /\ tasts'[u].decl \in 0 .. Len(blueprints)
    BY <1>1, <1>3, <1>4, <1>5 DEF NodesKept
  <2> QED BY <1>1, <1>6, <2>1 DEF NodesKept, Written
<1>8. StaysResolved
  BY <1>2, <1>4, <1>5, <1>6 DEF StaysResolved, IsResolved
<1>9. BlueprintsKept' /\ ScopeKept' /\ TargetsSafe'
  BY <1>1, <1>8, <1>6, <1>2, OthersKept, BlueprintsStay
<1>10. /\ calls' \in Seq(Call) /\ Len(calls') = Len(calls) + 1
       /\ Len(calls) \in Nat /\ DOMAIN calls = 1 .. Len(calls) /\ DOMAIN calls' = 1 .. Len(calls) + 1
       /\ calls'[1].type = t
       /\ \A k \in DOMAIN calls : calls'[k + 1] = rest[k]
  <2>1. call \in Call
    BY DEF Call
  <2>2. calls \in Seq(Call)
    BY <1>1 DEF CallsKept
  <2>3. call.type = t
    OBVIOUS
  <2> HIDE DEF call
  <2>4. calls' = <<call>> \o rest
    BY DEF call
  <2>5. /\ calls' \in Seq(Call) /\ Len(calls') = Len(calls) + 1 /\ calls'[1] = call
        /\ \A k \in 1 .. Len(calls) : calls'[k + 1] = rest[k]
    BY <2>1, <2>2, <2>4
  <2> QED BY <2>2, <2>3, <2>5
<1>11. \A k \in DOMAIN calls : k + 1 \in DOMAIN calls' /\ calls'[k + 1].type = calls[k].type
  BY <1>10
<1>12. \A k \in DOMAIN calls' : k = 1 \/ (k - 1 \in DOMAIN calls /\ calls'[k].type = calls[k - 1].type)
  <2>1. ASSUME NEW k \in DOMAIN calls', k # 1
        PROVE  k - 1 \in DOMAIN calls /\ k = (k - 1) + 1
    BY <2>1, <1>10
  <2> QED BY <2>1, <1>11
<1>13. CallsKept'
  BY <1>10 DEF CallsKept, Call, Written, Loose
<1>14. ResolvedOnce'
  <2>1. ASSUME NEW i \in DOMAIN calls', NEW j \in DOMAIN calls', calls'[i].type = calls'[j].type
        PROVE  i = j
    <3>1. CASE i = 1 \/ j = 1
      BY <3>1, <2>1, <1>10, <1>12
    <3>2. CASE i # 1 /\ j # 1
      <4>1. i - 1 \in DOMAIN calls /\ j - 1 \in DOMAIN calls /\ calls[i - 1].type = calls[j - 1].type
        BY <3>2, <2>1, <1>12
      <4>2. i - 1 = j - 1
        BY <4>1, <1>1 DEF ResolvedOnce
      <4> QED BY <4>2, <1>10
    <3> QED BY <3>1, <3>2
  <2>2. ASSUME NEW u \in DOMAIN tasts'
        PROVE  tasts'[u].state = "RESOLVING" <=> \E i \in DOMAIN calls' : calls'[i].type = u
    <3>1. CASE u = t
      <4>1. 1 \in DOMAIN calls'
        BY <1>10
      <4> QED BY <3>1, <4>1, <1>5, <1>10
    <3>2. CASE u # t
      <4>1. u \in DOMAIN tasts /\ tasts'[u] = tasts[u]
        BY <3>2, <1>5
      <4>2. IsResolving(u) <=> (\E i \in DOMAIN calls : calls[i].type = u)
        BY <4>1, <1>1 DEF ResolvedOnce
      <4>3. (\E i \in DOMAIN calls : calls[i].type = u) => (\E i \in DOMAIN calls' : calls'[i].type = u)
        BY <1>11
      <4>4. (\E i \in DOMAIN calls' : calls'[i].type = u) => (\E i \in DOMAIN calls : calls[i].type = u)
        BY <3>2, <1>10, <1>12
      <4> QED BY <4>1, <4>2, <4>3, <4>4 DEF IsResolving
    <3> QED BY <3>1, <3>2
  <2>3. ASSUME NEW i \in DOMAIN calls'
        PROVE  calls'[i].type \in DOMAIN tasts'
    <3>1. calls'[i] \in Call
      BY <1>10
    <3> QED BY <3>1, <1>2, <1>5 DEF Call
  <2>4. {u \in DOMAIN tasts' : tasts'[u].state = "RESOLVING"} = {calls'[i].type : i \in DOMAIN calls'}
    BY <2>2, <2>3
  <2> QED BY <2>1, <2>4 DEF ResolvedOnce, IsResolving
<1>15. Chained'
  <2>1. ASSUME NEW k \in DOMAIN calls', k # 1
        PROVE  Linked(k)'
    <3>1. k - 1 \in DOMAIN calls /\ calls'[k].type = calls[k - 1].type
      BY <2>1, <1>12
    <3>2. PICK u : u = calls[k - 1].type
      OBVIOUS
    <3>3. CASE Safe(u)
      <4>1. Safe(u)'
        BY <3>3, <1>1, <1>8, SafeStays
      <4> QED BY <3>1, <3>2, <4>1 DEF Linked
    <3>4. CASE (k - 1) + 1 \in DOMAIN calls /\ u \in Inside(calls[(k - 1) + 1].type)
      <4>1. (k - 1) + 1 = k
        BY <1>10
      <4>2. k + 1 \in DOMAIN calls' /\ calls'[k + 1].type = calls[k].type
        BY <3>4, <4>1, <1>11
      <4>3. u \in Inside(calls'[k + 1].type)
        BY <3>4, <4>1, <4>2
      <4> QED BY <3>1, <3>2, <4>2, <4>3 DEF Linked, Inside
    <3> QED BY <3>1, <3>2, <3>3, <3>4, <1>1 DEF Chained, Linked
  <2>2. Linked(1)'
    <3>1. CASE Safe(t)
      <4>1. Safe(t)'
        BY <3>1, <1>1, <1>8, SafeStays
      <4> QED BY <4>1, <1>10 DEF Linked
    <3>2. CASE calls # <<>> /\ t \in Inside(calls[1].type)
      <4>1. calls \in Seq(Call)
        BY <1>1 DEF CallsKept
      <4>2. 1 \in DOMAIN calls
        BY <3>2, <4>1
      <4>3. 1 + 1 \in DOMAIN calls' /\ calls'[1 + 1].type = calls[1].type
        BY <4>2, <1>11
      <4> QED BY <3>2, <4>3, <1>10 DEF Linked, Inside
    <3> QED BY <3>1, <3>2
  <2> QED BY <2>1, <2>2 DEF Chained
<1> QED BY <1>7, <1>8, <1>9, <1>13, <1>14, <1>15 DEF TypesKept

(* The end of a call. *)
LEMMA Left ==
  ASSUME TypesKept, calls # <<>>, calls' = Tail(calls), NEW t, t = calls[1].type,
         NEW r, r.state = "RESOLVED", "state" \in DOMAIN r, "decl" \in DOMAIN r,
         r.decl \in 0 .. Len(blueprints'), tasts' = [tasts EXCEPT ![Top.type] = r],
         Len(blueprints) <= Len(blueprints'), Len(blueprints') \in Nat, BlueprintsKept',
         UNCHANGED <<program, types, scope, roots, targets>>
  PROVE  TypesKept' /\ StaysResolved /\ IsResolved(t)'
<1>1. NodesKept /\ BlueprintsKept /\ CallsKept /\ ResolvedOnce /\ Chained
  BY DEF TypesKept
<1>2. /\ Len(tasts) \in Nat /\ DOMAIN tasts = 1 .. Len(tasts) /\ Written \subseteq DOMAIN tasts
      /\ IsSeq(tasts)
  BY <1>1, Known DEF NodesKept
<1>3. /\ calls \in Seq(Call) /\ Len(calls) \in Nat \ {0} /\ DOMAIN calls = 1 .. Len(calls)
      /\ Head(calls) = calls[1] /\ calls' \in Seq(Call) /\ DOMAIN calls' = 1 .. Len(calls) - 1
      /\ \A k \in DOMAIN calls' : k + 1 \in DOMAIN calls /\ calls'[k] = calls[k + 1]
  <2>1. calls \in Seq(Call)
    BY <1>1 DEF CallsKept
  <2> QED BY <2>1
<1>4. t = calls[1].type
  OBVIOUS
<1>5. Top.type = t /\ t \in DOMAIN tasts
  <2>1. calls[1] \in Call
    BY <1>3
  <2> QED BY <2>1, <1>2, <1>3, <1>4 DEF Top, Call
<1>6. /\ DOMAIN tasts' = DOMAIN tasts
      /\ \A u \in DOMAIN tasts : u # t => tasts'[u] = tasts[u]
      /\ tasts'[t] = r
  BY <1>5
<1>7. IsSeq(tasts') /\ Len(tasts') = Len(tasts)
  <2>1. PICK V : tasts' \in [1 .. Len(tasts) -> V]
    <3>1. tasts' \in [1 .. Len(tasts) -> {tasts'[i] : i \in DOMAIN tasts}]
      BY <1>2, <1>6
    <3> QED BY <3>1
  <2> QED BY <2>1, <1>2, ListIsSeq
<1>8. NodesKept'
  <2>1. Len(blueprints) \in Nat
    BY <1>1 DEF BlueprintsKept, IsSeq
  <2>2. \A u \in DOMAIN tasts' :
          /\ "state" \in DOMAIN tasts'[u] /\ "decl" \in DOMAIN tasts'[u]
          /\ tasts'[u].decl \in 0 .. Len(blueprints')
    <3>1. ASSUME NEW u \in DOMAIN tasts, u # t
          PROVE  /\ "state" \in DOMAIN tasts'[u] /\ "decl" \in DOMAIN tasts'[u]
                 /\ tasts'[u].decl \in 0 .. Len(blueprints')
      <4>1. tasts'[u] = tasts[u]
        BY <3>1, <1>6
      <4>2. "state" \in DOMAIN tasts[u] /\ "decl" \in DOMAIN tasts[u]
        BY <1>1 DEF NodesKept
      <4>3. tasts[u].decl \in 0 .. Len(blueprints)
        BY <1>1 DEF NodesKept
      <4>4. tasts[u].decl \in 0 .. Len(blueprints')
        BY <4>3, <2>1
      <4> QED BY <4>1, <4>2, <4>4
    <3> QED BY <3>1, <1>6
  <2> QED BY <1>1, <1>7, <2>2 DEF NodesKept, Written
<1>9. StaysResolved /\ IsResolved(t)'
  BY <1>2, <1>6, <1>7 DEF StaysResolved, IsResolved
<1>10. ScopeKept' /\ TargetsSafe'
  BY <1>9, <1>7, <1>2, OthersKept
<1>11. CallsKept'
  BY <1>1, <1>3 DEF CallsKept, Call, Written, Loose
<1>12. ResolvedOnce'
  <2>1. ASSUME NEW i \in DOMAIN calls', NEW j \in DOMAIN calls', calls'[i].type = calls'[j].type
        PROVE  i = j
    <3>1. i + 1 = j + 1
      BY <2>1, <1>1, <1>3 DEF ResolvedOnce
    <3> QED BY <3>1, <1>3
  <2>2. ASSUME NEW u \in DOMAIN tasts'
        PROVE  tasts'[u].state = "RESOLVING" <=> \E i \in DOMAIN calls' : calls'[i].type = u
    <3>1. CASE u = t
      <4>1. ASSUME NEW i \in DOMAIN calls', calls'[i].type = t
            PROVE  FALSE
        <5>1. i + 1 \in DOMAIN calls /\ calls[i + 1].type = t /\ 1 \in DOMAIN calls /\ i + 1 # 1
          BY <4>1, <1>3
        <5> QED BY <5>1, <1>1, <1>4 DEF ResolvedOnce
      <4> QED BY <3>1, <4>1, <1>6
    <3>2. CASE u # t
      <4>1. u \in DOMAIN tasts /\ tasts'[u] = tasts[u]
        BY <3>2, <1>6
      <4>2. IsResolving(u) <=> (\E i \in DOMAIN calls : calls[i].type = u)
        BY <4>1, <1>1 DEF ResolvedOnce
      <4>3. (\E i \in DOMAIN calls' : calls'[i].type = u) => (\E i \in DOMAIN calls : calls[i].type = u)
        BY <1>3
      <4>4. ASSUME NEW i \in DOMAIN calls, calls[i].type = u
            PROVE  i - 1 \in DOMAIN calls' /\ calls'[i - 1].type = u
        <5>1. i # 1
          BY <4>4, <3>2, <1>4
        <5>2. i - 1 \in DOMAIN calls' /\ (i - 1) + 1 = i
          BY <5>1, <1>3
        <5> QED BY <4>4, <5>2, <1>3
      <4> QED BY <4>1, <4>2, <4>3, <4>4 DEF IsResolving
    <3> QED BY <3>1, <3>2
  <2>3. ASSUME NEW i \in DOMAIN calls'
        PROVE  calls'[i].type \in DOMAIN tasts'
    <3>1. calls'[i] \in Call
      BY <1>3
    <3> QED BY <3>1, <1>2, <1>6 DEF Call
  <2>4. {u \in DOMAIN tasts' : tasts'[u].state = "RESOLVING"} = {calls'[i].type : i \in DOMAIN calls'}
    BY <2>2, <2>3
  <2> QED BY <2>1, <2>4 DEF ResolvedOnce, IsResolving
<1>13. Chained'
  <2>1. ASSUME NEW k \in DOMAIN calls'
        PROVE  Linked(k)'
    <3>1. k + 1 \in DOMAIN calls /\ calls'[k].type = calls[k + 1].type /\ Linked(k + 1)
      BY <1>1, <1>3 DEF Chained
    <3>2. PICK u : u = calls[k + 1].type
      OBVIOUS
    <3>3. CASE Safe(u)
      <4>1. Safe(u)'
        BY <3>3, <1>1, <1>9, SafeStays
      <4> QED BY <3>1, <3>2, <4>1 DEF Linked
    <3>4. CASE (k + 1) + 1 \in DOMAIN calls /\ u \in Inside(calls[(k + 1) + 1].type)
      <4>1. k + 1 \in DOMAIN calls'
        BY <3>4, <1>3
      <4>2. calls'[k + 1].type = calls[(k + 1) + 1].type
        BY <4>1, <1>3
      <4>3. u \in Inside(calls'[k + 1].type)
        BY <3>4, <4>2
      <4> QED BY <3>1, <3>2, <4>1, <4>3 DEF Linked, Inside
    <3> QED BY <3>1, <3>2, <3>3, <3>4 DEF Linked
  <2> QED BY <2>1 DEF Chained
<1> QED BY <1>4, <1>8, <1>9, <1>10, <1>11, <1>12, <1>13 DEF TypesKept

(* A step that changes no more than what a call has still to visit. *)
LEMMA Visited ==
  ASSUME TypesKept, calls' \in Seq(Call), Len(calls') = Len(calls),
         \A k \in DOMAIN calls : calls'[k].type = calls[k].type,
         UNCHANGED <<program, types, tasts, blueprints, scope, targets>>, roots' \in Seq(Loose)
  PROVE  TypesKept' /\ StaysResolved
<1>1. NodesKept /\ BlueprintsKept /\ CallsKept /\ ResolvedOnce /\ Chained
  BY DEF TypesKept
<1>2. Len(tasts) \in Nat /\ IsSeq(tasts)
  BY <1>1, Known DEF NodesKept
<1>3. DOMAIN calls' = DOMAIN calls
  BY <1>1 DEF CallsKept
<1>4. NodesKept'
  BY <1>1 DEF NodesKept, Written
<1>5. StaysResolved
  BY <1>2 DEF StaysResolved, IsResolved
<1>6. BlueprintsKept' /\ ScopeKept' /\ TargetsSafe'
  BY <1>1, <1>2, <1>5, OthersKept, BlueprintsStay
<1>7. CallsKept'
  BY DEF CallsKept, Call, Written, Loose
<1>8. ResolvedOnce'
  <2>1. {calls'[i].type : i \in DOMAIN calls'} = {calls[i].type : i \in DOMAIN calls}
    BY <1>3
  <2>2. {t \in DOMAIN tasts' : IsResolving(t)'} = {t \in DOMAIN tasts : IsResolving(t)}
    BY DEF IsResolving
  <2> QED BY <1>1, <1>3, <2>1, <2>2 DEF ResolvedOnce
<1>9. Chained'
  <2>1. ASSUME NEW k \in DOMAIN calls
        PROVE  Linked(k)'
    <3>1. k + 1 \in DOMAIN calls => calls'[k + 1].type = calls[k + 1].type
      OBVIOUS
    <3> QED BY <3>1, <1>1, <1>3 DEF Chained, Linked, Safe, Inside, Loose, Written, IsResolved
  <2> QED BY <2>1, <1>3 DEF Chained
<1> QED BY <1>4, <1>5, <1>6, <1>7, <1>8, <1>9 DEF TypesKept

-----------------------------------------------------------------------------
(* The calls of _resolve_type.                                             *)

(* A type is asked for when no other is in progress. *)
LEMMA AsksFor ==
  ASSUME TypesKept, calls = <<>>, NEW t, Safe(t), Resolves(t, <<>>),
         UNCHANGED <<program, types, blueprints, scope, targets>>, roots' \in Seq(Loose)
  PROVE  TypesKept' /\ StaysResolved /\ (t # 0 => Settled(t)')
<1>1. program \in Programs
  BY DEF TypesKept, NodesKept
<1>2. CASE t = 0 \/ IsResolved(t)
  <2>1. calls' = <<>> /\ tasts' = tasts
    BY <1>2 DEF Resolves
  <2>2. calls' \in Seq(Call) /\ Len(calls') = Len(calls) /\ \A k \in DOMAIN calls : calls'[k].type = calls[k].type
    BY <2>1
  <2>3. TypesKept' /\ StaysResolved
    BY <2>1, <2>2, Visited
  <2> QED BY <1>2, <2>1, <2>3 DEF Settled, IsResolved
<1>3. CASE ~(t = 0 \/ IsResolved(t))
  <2>1. t \in Written
    BY <1>1, <1>3, SafeIsWritten
  <2>2. PICK rest : rest = <<>>
    OBVIOUS
  <2>3. /\ calls' = <<[type |-> t, next |-> 1]>> \o rest
        /\ tasts' = [tasts EXCEPT ![t].state = "RESOLVING", ![t].decl = Declared(types[t])]
    BY <1>3, <2>2 DEF Resolves
  <2>4. rest \in Seq(Call) /\ Len(rest) = Len(calls) /\ (\A k \in DOMAIN calls : rest[k].type = calls[k].type)
    BY <2>2
  <2>5. \A k \in DOMAIN calls : calls[k].type # t
    OBVIOUS
  <2>6. TypesKept' /\ StaysResolved
    BY <1>3, <2>1, <2>3, <2>4, <2>5, Pushed
  <2>7. AwaitsType(t)'
    <3> DEFINE call == [type |-> t, next |-> 1]
    <3>1. call.type = t
      OBVIOUS
    <3> HIDE DEF call
    <3>2. calls' = <<call>>
      BY <2>2, <2>3 DEF call
    <3> QED BY <3>1, <3>2 DEF AwaitsType
  <2> QED BY <2>6, <2>7 DEF Settled
<1> QED BY <1>2, <1>3

(* The innermost call is for a node of the parser's, which is not resolved *)
(* yet. *)
LEMMA Innermost ==
  ASSUME TypesKept, calls # <<>>
  PROVE  /\ Top = calls[1] /\ Top.type \in Written /\ Top.next \in Nat \ {0}
         /\ Top.type \in DOMAIN tasts /\ types[Top.type] = program.types[Top.type]
         /\ ~IsResolved(Top.type)
         /\ calls \in Seq(Call) /\ Len(calls) \in Nat \ {0} /\ DOMAIN calls = 1 .. Len(calls)
<1>1. calls \in Seq(Call) /\ NodesKept /\ ResolvedOnce
  BY DEF TypesKept, CallsKept
<1>2. Len(calls) \in Nat \ {0} /\ DOMAIN calls = 1 .. Len(calls) /\ Head(calls) = calls[1] /\ calls[1] \in Call
  BY <1>1
<1>3. Top = calls[1] /\ Top.type \in Written /\ Top.next \in Nat \ {0}
  BY <1>2 DEF Top, Call
<1>4. Top.type \in DOMAIN tasts /\ types[Top.type] = program.types[Top.type]
  BY <1>1, <1>3, Known DEF NodesKept
<1>5. IsResolving(Top.type)
  BY <1>1, <1>2, <1>3, <1>4 DEF ResolvedOnce
<1>6. ~IsResolved(Top.type)
  BY <1>5 DEF IsResolving, IsResolved
<1> QED BY <1>1, <1>2, <1>3, <1>4, <1>6

(* The fields by the name of a blueprint are loose, ... *)
LEMMA FieldsAreLoose ==
  ASSUME TypesKept, NEW t \in DOMAIN tasts
  PROVE  /\ IsList(FieldsOf(t))
         /\ \A i \in DOMAIN FieldsOf(t) : FieldsOf(t)[i].type \in Loose
<1>1. tasts[t].decl \in 0 .. Len(blueprints)
  BY DEF TypesKept, NodesKept
<1>2. Len(blueprints) \in Nat /\ DOMAIN blueprints = 1 .. Len(blueprints)
  BY DEF TypesKept, BlueprintsKept, IsSeq
<1>3. CASE tasts[t].decl = 0
  <2>1. FieldsOf(t) = <<>>
    BY <1>3 DEF FieldsOf
  <2>2. DOMAIN FieldsOf(t) = 1 .. 0
    BY <2>1
  <2> QED BY <2>2 DEF IsList
<1>4. CASE tasts[t].decl # 0
  <2>1. tasts[t].decl \in DOMAIN blueprints
    BY <1>1, <1>2, <1>4
  <2>2. HasFields(blueprints[tasts[t].decl])
    BY <2>1 DEF TypesKept, BlueprintsKept
  <2> QED BY <1>4, <2>2 DEF FieldsOf, HasFields
<1> QED BY <1>3, <1>4

(* ... and what other types lead to is inside of them. *)
LEMMA PartIsSafe ==
  ASSUME TypesKept, calls # <<>>, ~AllVisited, NEW t, t = PartTypes(Top.type)[Top.next]
  PROVE  \/ t = 0 \/ (types[Top.type].tag = "blueprint" /\ t \in Loose)
         \/ types[Top.type].tag # "blueprint" /\ t \in Inside(Top.type)
<1>1. /\ Top.type \in Written /\ Top.next \in Nat \ {0} /\ Top.type \in DOMAIN tasts
      /\ types[Top.type] = program.types[Top.type] /\ program \in Programs
  BY Innermost DEF TypesKept, NodesKept
<1>2. CASE types[Top.type].tag = "blueprint"
  <2> DEFINE fields == FieldsOf(Top.type)
  <2>1. PICK n \in Nat : DOMAIN fields = 1 .. n
    BY <1>1, FieldsAreLoose DEF IsList
  <2>2. \A i \in DOMAIN fields : fields[i].type \in Loose
    BY <1>1, FieldsAreLoose
  <2>3. PartTypes(Top.type) = [i \in DOMAIN fields |-> fields[i].type]
    BY <1>2 DEF PartTypes, FieldTypes
  <2> HIDE DEF fields
  <2>4. PartTypes(Top.type) \in [1 .. n -> Loose]
    BY <2>1, <2>2, <2>3
  <2>5. Len(PartTypes(Top.type)) = n
    BY <2>4
  <2>6. Top.next \in 1 .. n
    BY <2>5, <1>1 DEF AllVisited
  <2> QED BY <1>2, <2>4, <2>6
<1>3. CASE types[Top.type].tag # "blueprint"
  <2>1. PartTypes(Top.type) = program.types[Top.type].inner
    BY <1>1, <1>3 DEF PartTypes
  <2>2. PartTypes(Top.type) \in Seq(Nat)
    BY <1>1, <2>1, Inners
  <2>3. Top.next \in DOMAIN PartTypes(Top.type)
    BY <2>2, <1>1 DEF AllVisited
  <2> QED BY <1>1, <1>3, <2>1, <2>3, Inners
<1> QED BY <1>2, <1>3

(* What is resolved or waited for stays so. *)
StaysSettled == \A t \in DOMAIN tasts : Settled(t) => Settled(t)'

(* A part is visited: a node that is inside of the innermost one is not in *)
(* progress, for then something else would have led to it. *)
LEMMA VisitKeeps ==
  ASSUME TypesKept, VisitPart, UNCHANGED targets
  PROVE  TypesKept' /\ StaysResolved /\ StaysSettled
<1>1. /\ calls # <<>> /\ ~AllVisited
      /\ UNCHANGED <<program, types, blueprints, scope, roots>>
  BY DEF VisitPart, InCall
<1>2. PICK t : t = PartTypes(Top.type)[Top.next]
  OBVIOUS
<1>3. IF Skips(t) THEN calls' = Passed /\ tasts' = tasts ELSE Resolves(t, Passed)
  BY <1>2 DEF VisitPart
<1>4. PICK passed : passed = Passed
  OBVIOUS
<1>5. /\ Top = calls[1] /\ Top.type \in Written /\ Top.type \in DOMAIN tasts /\ ~IsResolved(Top.type)
      /\ calls \in Seq(Call) /\ Len(calls) \in Nat \ {0} /\ DOMAIN calls = 1 .. Len(calls)
      /\ program \in Programs
  BY <1>1, Innermost DEF TypesKept, NodesKept
<1>6. /\ passed \in Seq(Call) /\ Len(passed) = Len(calls)
      /\ \A k \in DOMAIN calls : passed[k].type = calls[k].type
  <2>1. calls[1] \in Call
    BY <1>5
  <2>2. calls[1].next + 1 \in Nat \ {0}
    BY <2>1 DEF Call
  <2>3. passed = [calls EXCEPT ![1] = [calls[1] EXCEPT !.next = calls[1].next + 1]]
    BY <1>4 DEF Passed
  <2>4. [calls[1] EXCEPT !.next = calls[1].next + 1] \in Call
    BY <2>1, <2>2 DEF Call
  <2>5. [calls[1] EXCEPT !.next = calls[1].next + 1].type = calls[1].type
    BY <2>1 DEF Call
  <2> QED BY <1>5, <2>3, <2>4, <2>5
<1>7. roots' \in Seq(Loose)
  BY <1>1 DEF TypesKept, CallsKept
<1>8. CASE Skips(t) \/ t = 0 \/ IsResolved(t)
  <2>1. calls' = passed /\ tasts' = tasts
    BY <1>3, <1>4, <1>8 DEF Resolves
  <2>2. TypesKept' /\ StaysResolved
    BY <1>1, <1>6, <1>7, <2>1, Visited
  <2>3. StaysSettled
    <3>1. Len(calls) \in DOMAIN calls /\ calls' # <<>>
      BY <1>5, <1>6, <2>1
    <3> QED BY <3>1, <2>1, <1>6 DEF StaysSettled, Settled, IsResolved, AwaitsType
  <2> QED BY <2>2, <2>3
<1>9. CASE ~(Skips(t) \/ t = 0 \/ IsResolved(t))
  <2>1. /\ calls' = <<[type |-> t, next |-> 1]>> \o passed
        /\ tasts' = [tasts EXCEPT ![t].state = "RESOLVING", ![t].decl = Declared(types[t])]
    BY <1>3, <1>4, <1>9 DEF Resolves
  <2>2. Safe(t) \/ t \in Inside(calls[1].type)
    BY <1>1, <1>2, <1>5, <1>9, PartIsSafe DEF Safe
  <2>3. t \in Written
    BY <1>5, <1>9, <2>2, SafeIsWritten, Trees
  <2>4. ASSUME NEW k \in DOMAIN calls, calls[k].type = t
        PROVE  FALSE
    <3>1. t \in DOMAIN tasts /\ IsResolving(t)
      <4>1. NodesKept /\ ResolvedOnce
        BY DEF TypesKept
      <4> QED BY <2>3, <2>4, <4>1, Known DEF ResolvedOnce
    <3>2. types[Top.type].tag # "blueprint"
      BY <1>9, <3>1 DEF Skips
    <3>3. t \in Inside(Top.type) /\ t \notin Loose
      BY <1>1, <1>2, <1>5, <1>9, <3>2, PartIsSafe, Trees
    <3>4. Linked(k)
      BY DEF TypesKept, Chained
    <3>5. CASE Safe(t)
      <4>1. PICK u \in Written : IsResolved(u) /\ t \in Inside(u)
        BY <3>3, <3>5 DEF Safe
      <4>2. u = Top.type
        BY <1>5, <3>3, <4>1, Trees
      <4> QED BY <1>5, <4>1, <4>2
    <3>6. CASE k + 1 \in DOMAIN calls /\ t \in Inside(calls[k + 1].type)
      <4>1. calls[k + 1] \in Call
        BY <1>5, <3>6
      <4>2. calls[k + 1].type \in Written
        BY <4>1 DEF Call
      <4>3. calls[k + 1].type = calls[1].type
        BY <1>5, <3>3, <3>6, <4>2, Trees
      <4>4. 1 \in DOMAIN calls
        BY <1>5
      <4>5. k + 1 = 1
        BY <3>6, <4>3, <4>4 DEF TypesKept, ResolvedOnce
      <4> QED BY <4>5, <1>5
    <3> QED BY <2>4, <3>4, <3>5, <3>6 DEF Linked
  <2>5. TypesKept' /\ StaysResolved
    <3>1. \A k \in DOMAIN calls : calls[k].type # t
      BY <2>4
    <3>2. ~IsResolved(t)
      BY <1>9
    <3> QED BY <1>1, <1>6, <1>7, <2>1, <2>2, <2>3, <3>1, <3>2, Pushed
  <2>6. StaysSettled
    <3>1. PICK call : call = [type |-> t, next |-> 1]
      OBVIOUS
    <3>2. call \in Call
      BY <2>3, <3>1 DEF Call
    <3>3. calls' = <<call>> \o passed
      BY <2>1, <3>1
    <3>4. calls' # <<>> /\ Len(calls') = Len(calls) + 1 /\ calls'[Len(calls) + 1] = passed[Len(calls)]
      BY <1>5, <1>6, <3>2, <3>3
    <3>5. Len(calls) \in DOMAIN calls
      BY <1>5
    <3>6. \A u : AwaitsType(u) => AwaitsType(u)'
      BY <1>6, <3>4, <3>5 DEF AwaitsType
    <3>7. \A u \in DOMAIN tasts : IsResolved(u) => IsResolved(u)'
      BY <2>5 DEF StaysResolved
    <3> QED BY <3>6, <3>7 DEF StaysSettled, Settled
  <2> QED BY <2>5, <2>6
<1> QED BY <1>8, <1>9

(* A call ends, and the type is resolved. *)
LEMMA LeaveKeeps ==
  ASSUME TypesKept, calls # <<>>, calls' = Tail(calls),
         NEW r, r.state = "RESOLVED", "state" \in DOMAIN r, "decl" \in DOMAIN r,
         r.decl \in 0 .. Len(blueprints'), tasts' = [tasts EXCEPT ![Top.type] = r],
         Len(blueprints) <= Len(blueprints'), Len(blueprints') \in Nat, BlueprintsKept',
         UNCHANGED <<program, types, scope, roots, targets>>
  PROVE  TypesKept' /\ StaysResolved /\ StaysSettled
<1>1. PICK t : t = calls[1].type
  OBVIOUS
<1>2. TypesKept' /\ StaysResolved /\ IsResolved(t)'
  BY <1>1, Left
<1>3. calls \in Seq(Call) /\ Len(calls) \in Nat \ {0} /\ DOMAIN calls = 1 .. Len(calls)
  BY Innermost
<1>4. ASSUME NEW u, AwaitsType(u)
      PROVE  Settled(u)'
  <2>1. CASE Len(calls) = 1
    BY <1>1, <1>2, <1>4, <2>1 DEF AwaitsType, Settled
  <2>2. CASE Len(calls) # 1
    <3> DEFINE n == Len(calls) - 1
    <3>1. n \in 1 .. n /\ n + 1 = Len(calls)
      BY <1>3, <2>2
    <3>2. Len(calls') = n /\ DOMAIN calls' = 1 .. n /\ \A i \in 1 .. n : calls'[i] = calls[i + 1]
      BY <1>3, SeqOfAny, TailOfAny
    <3> HIDE DEF n
    <3>3. calls'[n] = calls[Len(calls)] /\ calls' # <<>>
      <4>1. calls'[n] = calls[n + 1]
        BY <3>1, <3>2
      <4>2. Len(calls') # 0
        BY <3>1, <3>2
      <4>3. calls' # <<>>
        BY <4>2
      <4> QED BY <3>1, <4>1, <4>3
    <3> QED BY <1>4, <3>2, <3>3 DEF AwaitsType, Settled
  <2> QED BY <2>1, <2>2
<1>5. \A u \in DOMAIN tasts : IsResolved(u) => IsResolved(u)'
  BY <1>2 DEF StaysResolved
<1> QED BY <1>2, <1>4, <1>5 DEF StaysSettled, Settled

(* What the end of a call has found out of a type. *)
LEMMA MeasuredKeeps ==
  ASSUME TypesKept, calls # <<>>, NEW m, NEW fixed, Leaves(m, fixed), UNCHANGED targets
  PROVE  TypesKept' /\ StaysResolved /\ StaysSettled
<1>1. PICK r : r = [tasts[Top.type] EXCEPT !.state = "RESOLVED", !.size = m.size, !.align = m.align,
                                          !.repr = m.repr, !.fixed = fixed]
  OBVIOUS
<1>2. /\ "state" \in DOMAIN tasts[Top.type] /\ "decl" \in DOMAIN tasts[Top.type]
      /\ tasts[Top.type].decl \in 0 .. Len(blueprints)
  BY Innermost DEF TypesKept, NodesKept
<1>3. r.state = "RESOLVED" /\ r.decl = tasts[Top.type].decl /\ "state" \in DOMAIN r /\ "decl" \in DOMAIN r
  BY <1>1, <1>2
<1>4. /\ tasts' = [tasts EXCEPT ![Top.type] = r] /\ calls' = Tail(calls)
      /\ UNCHANGED <<program, types, blueprints, scope, roots>>
  BY <1>1 DEF Leaves
<1>5. BlueprintsKept /\ Len(blueprints) \in Nat
  BY DEF TypesKept, BlueprintsKept, IsSeq
<1>6. BlueprintsKept'
  BY <1>4, <1>5, BlueprintsStay
<1>7. r.decl \in 0 .. Len(blueprints') /\ Len(blueprints') \in Nat /\ Len(blueprints) <= Len(blueprints')
  BY <1>2, <1>3, <1>4, <1>5
<1> QED BY <1>3, <1>4, <1>6, <1>7, LeaveKeeps

(* A name that is no blueprint's stands for that of a variable, if any. *)
LEMMA ModelIsOne ==
  ASSUME TypesKept, NEW name, ModelOf(name) # 0
  PROVE  ModelOf(name) \in DOMAIN blueprints
<1>1. Len(blueprints) \in Nat /\ DOMAIN blueprints = 1 .. Len(blueprints)
  BY DEF TypesKept, BlueprintsKept, IsSeq
<1>2. name \in DOMAIN scope
  BY DEF ModelOf
<1>3. PICK t : t = scope[name].type
  OBVIOUS
<1>4. ModelOf(name) = tasts[t].decl /\ t # 0
  BY <1>2, <1>3 DEF ModelOf
<1>5. t \in 0 .. Len(tasts) /\ DOMAIN tasts = 1 .. Len(tasts) /\ Len(tasts) \in Nat
  BY <1>2, <1>3, Known DEF TypesKept, ScopeKept
<1>6. t \in DOMAIN tasts
  BY <1>4, <1>5
<1>7. tasts[t].decl \in 0 .. Len(blueprints)
  BY <1>6 DEF TypesKept, NodesKept
<1> QED BY <1>1, <1>4, <1>7

(* The new blueprint has the fields of another. *)
LEMMA PrototypeKeeps ==
  ASSUME TypesKept, LeavePrototype, UNCHANGED targets
  PROVE  TypesKept' /\ StaysResolved /\ StaysSettled
<1> DEFINE model == blueprints[ModelOf(types[Top.type].name)]
           copies == [i \in DOMAIN model.fields |-> [model.fields[i] EXCEPT !.offset = 0]]
           b == [name |-> "", fields |-> copies, methods |-> model.methods]
           ms == [i \in DOMAIN copies |-> FieldMeasure(copies[i].type)]
           m == NeverEmpty(Aggregate(ms))
           r == [tasts[Top.type] EXCEPT !.state = "RESOLVED", !.size = m.size, !.align = m.align,
                                        !.repr = "l", !.decl = Len(blueprints) + 1]
<1>1. /\ blueprints' = Append(blueprints, b)
      /\ tasts' = [tasts EXCEPT ![Top.type] = r]
      /\ calls # <<>> /\ calls' = Tail(calls) /\ ModelOf(types[Top.type].name) # 0
      /\ UNCHANGED <<program, types, scope, roots>>
  BY DEF LeavePrototype, Undeclared, Leaving, InCall
<1>2. HasFields(model)
  <2>1. ModelOf(types[Top.type].name) \in DOMAIN blueprints
    BY <1>1, ModelIsOne
  <2> QED BY <2>1 DEF TypesKept, BlueprintsKept
<1> HIDE DEF model
<1>3. IsList(copies) /\ \A i \in DOMAIN copies : copies[i].type \in Loose
  <2>1. DOMAIN copies = DOMAIN model.fields
    OBVIOUS
  <2>2. ASSUME NEW i \in DOMAIN copies
        PROVE  copies[i].type = model.fields[i].type
    <3>1. copies[i] = [model.fields[i] EXCEPT !.offset = 0]
      BY <2>1
    <3>2. model.fields[i].type \in Loose
      BY <1>2, <2>1 DEF HasFields
    <3> QED BY <3>1
  <2> HIDE DEF copies
  <2> QED BY <1>2, <2>1, <2>2 DEF HasFields, IsList
<1> HIDE DEF copies, m
<1>4. HasFields(b)
  BY <1>3 DEF HasFields
<1> HIDE DEF b
<1>5. BlueprintsKept /\ IsSeq(blueprints) /\ Len(blueprints) \in Nat /\ Len(program.blueprints) <= Len(blueprints)
  BY DEF TypesKept, BlueprintsKept, IsSeq
<1>6. /\ IsSeq(blueprints') /\ Len(blueprints') = Len(blueprints) + 1
      /\ DOMAIN blueprints = 1 .. Len(blueprints) /\ DOMAIN blueprints' = 1 .. Len(blueprints) + 1
      /\ \A i \in DOMAIN blueprints : blueprints'[i] = blueprints[i]
      /\ blueprints'[Len(blueprints) + 1] = b
  BY <1>1, <1>5, Appended
<1>7. BlueprintsKept'
  <2>1. ASSUME NEW i \in DOMAIN blueprints'
        PROVE  HasFields(blueprints'[i])
    <3>1. CASE i \in DOMAIN blueprints
      BY <3>1, <1>5, <1>6 DEF BlueprintsKept
    <3>2. CASE i \notin DOMAIN blueprints
      <4>1. i = Len(blueprints) + 1
        BY <3>2, <1>5, <1>6
      <4> QED BY <4>1, <1>4, <1>6
    <3> QED BY <3>1, <3>2
  <2>2. Len(program'.blueprints) <= Len(blueprints')
    <3>1. Len(program.blueprints) \in Nat
      <4>1. program.blueprints \in Seq(BlueprintDecl)
        BY TypesAssumption DEF TypesKept, NodesKept
      <4> QED BY <4>1
    <3> QED BY <3>1, <1>1, <1>5, <1>6
  <2> QED BY <2>1, <2>2, <1>1, <1>6 DEF BlueprintsKept, HasFields, Loose
<1>8. r.state = "RESOLVED" /\ r.decl = Len(blueprints) + 1 /\ "state" \in DOMAIN r /\ "decl" \in DOMAIN r
  <2>1. "state" \in DOMAIN tasts[Top.type] /\ "decl" \in DOMAIN tasts[Top.type]
    BY <1>1, Innermost DEF TypesKept, NodesKept
  <2> QED BY <2>1
<1> HIDE DEF r
<1>9. r.decl \in 0 .. Len(blueprints') /\ Len(blueprints') \in Nat /\ Len(blueprints) <= Len(blueprints')
  BY <1>5, <1>6, <1>8
<1> QED BY <1>1, <1>7, <1>8, <1>9, LeaveKeeps

(* A name that stands for nothing counts as resolved. *)
LEMMA UnknownKeeps ==
  ASSUME TypesKept, LeaveUnknown, UNCHANGED targets
  PROVE  TypesKept' /\ StaysResolved /\ StaysSettled
<1>1. PICK r : r = [tasts[Top.type] EXCEPT !.state = "RESOLVED"]
  OBVIOUS
<1>2. /\ calls # <<>> /\ calls' = Tail(calls) /\ tasts' = [tasts EXCEPT ![Top.type] = r]
      /\ UNCHANGED <<program, types, blueprints, scope, roots>>
  BY <1>1 DEF LeaveUnknown, Undeclared, Leaving, InCall
<1>3. /\ "state" \in DOMAIN tasts[Top.type] /\ "decl" \in DOMAIN tasts[Top.type]
      /\ tasts[Top.type].decl \in 0 .. Len(blueprints)
  BY <1>2, Innermost DEF TypesKept, NodesKept
<1>4. r.state = "RESOLVED" /\ r.decl = tasts[Top.type].decl /\ "state" \in DOMAIN r /\ "decl" \in DOMAIN r
  BY <1>1, <1>3
<1>5. BlueprintsKept /\ Len(blueprints) \in Nat
  BY DEF TypesKept, BlueprintsKept, IsSeq
<1>6. BlueprintsKept'
  BY <1>2, <1>5, BlueprintsStay
<1>7. r.decl \in 0 .. Len(blueprints') /\ Len(blueprints') \in Nat /\ Len(blueprints) <= Len(blueprints')
  BY <1>2, <1>3, <1>4, <1>5
<1> QED BY <1>2, <1>4, <1>6, <1>7, LeaveKeeps

(* A step of _resolve_type. *)
LEMMA ResolveKeeps ==
  ASSUME TypesKept, ResolveStep, UNCHANGED targets
  PROVE  TypesKept' /\ StaysResolved /\ StaysSettled
<1>1. CASE VisitPart
  BY <1>1, VisitKeeps
<1>2. CASE LeavePrimitive
  BY <1>2, MeasuredKeeps DEF LeavePrimitive, Leaving, InCall
<1>3. CASE LeavePointer
  BY <1>3, MeasuredKeeps DEF LeavePointer, Leaving, InCall
<1>4. CASE LeaveArray
  BY <1>4, MeasuredKeeps DEF LeaveArray, Leaving, InCall
<1>5. CASE LeaveAggregate
  <2>1. calls # <<>> /\ Leaves(NeverEmpty(SizeOfTop), 0)
    BY <1>5 DEF LeaveAggregate, Leaving, InCall
  <2> QED BY <2>1, MeasuredKeeps
<1>6. CASE AssertionFails
  <2>1. UNCHANGED <<program, types, tasts, blueprints, scope, calls, roots>>
    BY <1>6 DEF AssertionFails
  <2>2. calls \in Seq(Call) /\ roots \in Seq(Loose)
    BY DEF TypesKept, CallsKept
  <2>3. TypesKept' /\ StaysResolved
    BY <2>1, <2>2, Visited
  <2> QED BY <2>1, <2>3 DEF StaysSettled, Settled, AwaitsType, IsResolved
<1>7. CASE LeaveUnknown
  BY <1>7, UnknownKeeps
<1>8. CASE LeavePrototype
  BY <1>8, PrototypeKeeps
<1> QED BY <1>1, <1>2, <1>3, <1>4, <1>5, <1>6, <1>7, <1>8 DEF ResolveStep

(* Nodes are made, and what is known of them changes, but not whether they *)
(* are resolved. *)
LEMMA Extended ==
  ASSUME TypesKept,
         IsSeq(types'), IsSeq(tasts'), Len(types') = Len(tasts'), Len(tasts) <= Len(tasts'),
         \A t \in Written : types'[t] = types[t],
         \A t \in DOMAIN tasts : tasts'[t].state = tasts[t].state,
         \A t \in DOMAIN tasts' : t \in DOMAIN tasts \/ tasts'[t].state # "RESOLVING",
         \A t \in DOMAIN tasts' :
           /\ "state" \in DOMAIN tasts'[t] /\ "decl" \in DOMAIN tasts'[t]
           /\ tasts'[t].decl \in 0 .. Len(blueprints),
         BlueprintsKept', Len(blueprints') = Len(blueprints),
         UNCHANGED <<program, calls, roots>>
  PROVE  NodesKept' /\ CallsKept' /\ ResolvedOnce' /\ Chained' /\ StaysResolved
<1>1. NodesKept /\ CallsKept /\ ResolvedOnce /\ Chained
  BY DEF TypesKept
<1>2. Len(tasts) \in Nat /\ DOMAIN tasts = 1 .. Len(tasts) /\ Written \subseteq DOMAIN tasts
  BY <1>1, Known
<1>3. Len(tasts') \in Nat /\ DOMAIN tasts' = 1 .. Len(tasts') /\ DOMAIN types' = 1 .. Len(tasts')
  BY DEF IsSeq
<1>4. DOMAIN tasts \subseteq DOMAIN tasts'
  BY <1>2, <1>3
<1>5. NodesKept'
  <2>1. \A t \in Written : t \in DOMAIN types' /\ types'[t] = program.types[t]
    BY <1>1, <1>2, <1>3, <1>4 DEF NodesKept
  <2> QED BY <1>1, <2>1 DEF NodesKept, Written
<1>6. StaysResolved
  BY DEF StaysResolved, IsResolved
<1>7. CallsKept'
  BY <1>1 DEF CallsKept, Call, Written, Loose
<1>8. ResolvedOnce'
  <2>1. {t \in DOMAIN tasts' : tasts'[t].state = "RESOLVING"} = {t \in DOMAIN tasts : tasts[t].state = "RESOLVING"}
    BY <1>4
  <2> QED BY <1>1, <2>1 DEF ResolvedOnce, IsResolving
<1>9. Chained'
  <2>1. ASSUME NEW k \in DOMAIN calls
        PROVE  Linked(k)'
    <3>1. PICK u : u = calls[k].type
      OBVIOUS
    <3>2. CASE Safe(u)
      <4>1. Safe(u)'
        BY <3>2, <1>1, <1>6, SafeStays
      <4> QED BY <3>1, <4>1 DEF Linked
    <3>3. CASE k + 1 \in DOMAIN calls /\ u \in Inside(calls[k + 1].type)
      BY <3>1, <3>3 DEF Linked, Inside
    <3> QED BY <3>1, <3>2, <3>3, <1>1 DEF Chained, Linked
  <2> QED BY <2>1 DEF Chained
<1> QED BY <1>5, <1>6, <1>7, <1>8, <1>9

(* As before. *)
LEMMA NothingKnown ==
  ASSUME TypesKept, UNCHANGED <<program, types, tasts, blueprints, calls, roots>>
  PROVE  NodesKept' /\ BlueprintsKept' /\ CallsKept' /\ ResolvedOnce' /\ Chained' /\ StaysResolved
<1>1. NodesKept /\ BlueprintsKept /\ CallsKept /\ ResolvedOnce /\ Chained /\ Len(tasts) \in Nat
  BY Known DEF TypesKept
<1>2. NodesKept' /\ CallsKept'
  BY <1>1 DEF NodesKept, CallsKept, Call, Written, Loose
<1>3. ResolvedOnce'
  BY <1>1 DEF ResolvedOnce, IsResolving
<1>4. Chained'
  BY <1>1 DEF Chained, Linked, Safe, Inside, Loose, Written, IsResolved
<1>5. StaysResolved
  BY <1>1 DEF StaysResolved, IsResolved
<1> QED BY <1>1, <1>2, <1>3, <1>4, <1>5, BlueprintsStay

(* New nodes are not resolved, or at once. *)
LEMMA Grown ==
  ASSUME TypesKept, NEW nodes, IsSeq(nodes), NEW more, IsSeq(more), Len(more) = Len(nodes),
         \A i \in DOMAIN more :
           /\ more[i].state # "RESOLVING" /\ "state" \in DOMAIN more[i] /\ "decl" \in DOMAIN more[i]
           /\ more[i].decl \in 0 .. Len(blueprints),
         types' = types \o nodes, tasts' = tasts \o more,
         UNCHANGED <<program, blueprints, calls, roots, scope, targets>>
  PROVE  TypesKept' /\ StaysResolved
<1>1. IsSeq(types) /\ IsSeq(tasts) /\ Len(types) = Len(tasts) /\ NodesKept /\ BlueprintsKept
  BY DEF TypesKept, NodesKept
<1>2. /\ IsSeq(types') /\ Len(types) \in Nat /\ Len(nodes) \in Nat /\ Len(types') = Len(types) + Len(nodes)
      /\ \A i \in DOMAIN types : types'[i] = types[i]
  BY <1>1, Joined
<1>3. /\ IsSeq(tasts') /\ Len(tasts') = Len(tasts) + Len(more)
      /\ DOMAIN tasts = 1 .. Len(tasts) /\ DOMAIN more = 1 .. Len(more) /\ DOMAIN tasts' = 1 .. Len(tasts) + Len(more)
      /\ \A i \in DOMAIN tasts : tasts'[i] = tasts[i]
      /\ \A i \in DOMAIN more : tasts'[Len(tasts) + i] = more[i]
  <2>1. IsSeq(tasts) /\ IsSeq(more) /\ tasts' = tasts \o more
    BY <1>1
  <2>2. PICK s : s = tasts \o more
    OBVIOUS
  <2>3. /\ IsSeq(s) /\ Len(s) = Len(tasts) + Len(more)
        /\ DOMAIN tasts = 1 .. Len(tasts) /\ DOMAIN more = 1 .. Len(more) /\ DOMAIN s = 1 .. Len(tasts) + Len(more)
    BY ONLY <2>1, <2>2, Joined
  <2>4. \A i \in DOMAIN tasts : s[i] = tasts[i]
    BY ONLY <2>1, <2>2, Joined
  <2>5. ASSUME NEW i \in DOMAIN more
        PROVE  s[Len(tasts) + i] = more[i]
    <3>1. PICK R : tasts \in Seq(R) /\ more \in Seq(R)
      BY <2>1, CommonSet
    <3>2. i \in 1 .. Len(more) /\ Len(tasts) \in Nat
      BY <3>1
    <3>3. s[Len(tasts) + i] = more[i]
      BY ONLY <3>1, <3>2, <2>2
    <3> QED BY <3>3
  <2> QED BY ONLY <2>1, <2>2, <2>3, <2>4, <2>5
<1>4. Len(types') = Len(tasts') /\ Len(tasts) <= Len(tasts') /\ Len(tasts') \in Nat
  BY <1>1, <1>2, <1>3
<1>5. \A t \in Written : types'[t] = types[t]
  BY <1>1, <1>2 DEF NodesKept
<1>6. ASSUME NEW t \in DOMAIN tasts'
      PROVE  t \in DOMAIN tasts \/ \E i \in DOMAIN more : tasts'[t] = more[i]
  <2>1. CASE t > Len(tasts)
    <3>1. t - Len(tasts) \in DOMAIN more /\ t = Len(tasts) + (t - Len(tasts))
      BY <2>1, <1>1, <1>2, <1>3
    <3> QED BY <3>1, <1>3
  <2>2. CASE t <= Len(tasts)
    BY <2>2, <1>1, <1>2, <1>3
  <2> QED BY <2>1, <2>2, <1>1, <1>2, <1>3
<1>7. \A t \in DOMAIN tasts : tasts'[t].state = tasts[t].state
  BY <1>3
<1>8. \A t \in DOMAIN tasts' : t \in DOMAIN tasts \/ tasts'[t].state # "RESOLVING"
  BY <1>6
<1>9. \A t \in DOMAIN tasts' :
        /\ "state" \in DOMAIN tasts'[t] /\ "decl" \in DOMAIN tasts'[t]
        /\ tasts'[t].decl \in 0 .. Len(blueprints)
  BY <1>1, <1>3, <1>6 DEF NodesKept
<1>10. BlueprintsKept'
  BY <1>1, BlueprintsStay
<1>11. NodesKept' /\ CallsKept' /\ ResolvedOnce' /\ Chained' /\ StaysResolved
  BY <1>2, <1>3, <1>4, <1>5, <1>7, <1>8, <1>9, <1>10, Extended
<1>12. ScopeKept' /\ TargetsSafe'
  BY <1>4, <1>11, OthersKept
<1> QED BY <1>10, <1>11, <1>12 DEF TypesKept

-----------------------------------------------------------------------------
(* Tasks.                                                                  *)

(* What a task is made of. *)
LEMMA TaskParts ==
  \A s, e, i : /\ Statement(s)[1] = "statement" /\ Statement(s)[2] = s
               /\ Sized(s)[1] = "sized" /\ Sized(s)[2] = s
               /\ After(s)[1] = "after" /\ After(s)[2] = s
               /\ Visit(e)[1] = "visit" /\ Visit(e)[2] = e
               /\ Rest(e, i)[1] = "rest" /\ Rest(e, i)[2] = e
BY DEF Statement, Sized, After, Visit, Rest

(* Tasks wait while types are resolved. *)
LEMMA TodoWaits ==
  ASSUME IInv, StaysResolved, StaysSettled, phase' = "bodies" => phase = "bodies",
         UNCHANGED <<program, todo, targets>>
  PROVE  TodoKept'
<1> SUFFICES ASSUME phase' = "bodies" PROVE TodoKept'
  BY DEF TodoKept
<1>1. /\ IsSeq(todo)
      /\ \A i \in DOMAIN todo : IsTask(todo[i]) /\ InitInWork(i)
      /\ \A i, j \in DOMAIN todo : i < j => Precedes(todo[i], todo[j])
  BY DEF IInv, TodoKept
<1>2. ASSUME NEW i \in DOMAIN todo
      PROVE  IsTask(todo[i])' /\ InitInWork(i)'
  <2>1. IsTask(todo[i])'
    BY <1>1 DEF IsTask
  <2>2. ASSUME todo[i][1] = "rest", Kind(todo[i][2]) = "init", NEW t, t = targets[todo[i][2]]
        PROVE  t # 0 /\ (IsResolved(t)' \/ (i = 1 /\ AwaitsType(t)'))
    <3>1. t # 0 /\ (IsResolved(t) \/ (i = 1 /\ AwaitsType(t)))
      BY <1>1, <2>2 DEF InitInWork
    <3>2. t \in DOMAIN tasts
      <4>1. todo[i][2] \in DOMAIN targets
        BY <1>1, <2>2 DEF IInv, TypesKept, TargetsSafe, IsTask, StmtTasks
      <4>2. Safe(t)
        BY <4>1, <2>2 DEF IInv, TypesKept, TargetsSafe
      <4>3. t \in Written
        BY <4>2, <3>1, SafeIsWritten DEF IInv, TypesKept, NodesKept
      <4> QED BY <4>3, Known DEF IInv, TypesKept
    <3>3. IsResolved(t) => IsResolved(t)'
      BY <3>2 DEF StaysResolved
    <3>4. i = 1 /\ AwaitsType(t) => IsResolved(t)' \/ AwaitsType(t)'
      BY <3>2 DEF StaysSettled, Settled
    <3> QED BY <3>1, <3>3, <3>4
  <2>3. InitInWork(i)'
    <3>1. Kind(todo[i][2])' = Kind(todo[i][2])
      BY DEF Kind, E
    <3>2. PICK t : t = targets[todo[i][2]]
      OBVIOUS
    <3> QED BY <2>2, <3>1, <3>2 DEF InitInWork
  <2> QED BY <2>1, <2>3
<1>3. \A i, j \in DOMAIN todo : i < j => Precedes(todo[i], todo[j])'
  BY <1>1 DEF Precedes, StmtTasks, ExprTasks
<1> QED BY <1>1, <1>2, <1>3 DEF TodoKept

(* The first task is replaced by others, which is seldom more than one. *)
LEMMA TodoGoesOn ==
  ASSUME IInv, NEW task, Doing(task), NEW tasks, IsSeq(tasks), todo' = tasks \o Tail(todo),
         program' = program, StaysResolved,
         \A i \in DOMAIN tasks : IsTask(tasks[i]) /\ InitInWork(i)' /\ \A y : IsTask(y) /\ Precedes(todo[1], y) => Precedes(tasks[i], y),
         \A i, j \in DOMAIN tasks : i < j => Precedes(tasks[i], tasks[j]),
         \A i \in DOMAIN todo :
           i # 1 /\ todo[i][1] = "rest" => targets'[todo[i][2]] = targets[todo[i][2]]
  PROVE  TodoKept'
<1>1. phase = "bodies" /\ calls = <<>> /\ todo # <<>>
  BY DEF Doing
<1>2. /\ IsSeq(todo)
      /\ \A i \in DOMAIN todo : IsTask(todo[i]) /\ InitInWork(i)
      /\ \A i, j \in DOMAIN todo : i < j => Precedes(todo[i], todo[j])
  BY <1>1 DEF IInv, TodoKept
<1>3. PICK n : n = Len(tasks)
  OBVIOUS
<1>4. PICK rest : rest = Tail(todo)
  OBVIOUS
<1>5. /\ IsSeq(rest) /\ Len(todo) \in Nat \ {0} /\ DOMAIN todo = 1 .. Len(todo)
      /\ Len(rest) = Len(todo) - 1 /\ DOMAIN rest = 1 .. Len(todo) - 1
      /\ \A i \in DOMAIN rest : rest[i] = todo[i + 1]
  BY <1>1, <1>2, <1>4, TailOfAny
<1>6. PICK V : tasks \in Seq(V) /\ rest \in Seq(V)
  BY <1>5, CommonSet
<1>7. /\ todo' \in Seq(V) /\ n \in Nat /\ DOMAIN tasks = 1 .. n /\ DOMAIN todo' = 1 .. n + Len(rest)
      /\ \A i \in 1 .. n : todo'[i] = tasks[i]
      /\ \A i \in 1 .. Len(rest) : todo'[n + i] = rest[i]
  BY <1>3, <1>4, <1>6
<1>8. IsSeq(todo')
  BY <1>7, SeqOfAny
<1>9. ASSUME NEW i \in DOMAIN todo', i > n
      PROVE  /\ i - n + 1 \in DOMAIN todo /\ i - n + 1 # 1 /\ todo'[i] = todo[i - n + 1]
  <2>1. PICK j : j = i - n
    OBVIOUS
  <2>2. j \in 1 .. Len(rest) /\ i = n + j
    <3>1. i \in 1 .. n + Len(rest) /\ Len(rest) \in Nat
      BY <1>5, <1>7
    <3> QED BY <3>1, <1>7, <1>9, <2>1
  <2>3. todo'[i] = todo[j + 1]
    BY <1>5, <1>7, <2>2
  <2> QED BY <1>5, <2>1, <2>2, <2>3
<1>10. ASSUME NEW i \in DOMAIN todo'
       PROVE  IsTask(todo[i])' /\ InitInWork(i)'
  <2>1. CASE i <= n
    <3>1. i \in DOMAIN tasks /\ todo'[i] = tasks[i]
      BY <1>7, <2>1
    <3> QED BY <3>1 DEF IsTask, StmtTasks, ExprTasks
  <2>2. CASE i > n
    <3>1. PICK j : j = i - n + 1
      OBVIOUS
    <3>2. j \in DOMAIN todo /\ j # 1 /\ todo'[i] = todo[j]
      BY <1>9, <2>2, <3>1
    <3>3. IsTask(todo[j]) /\ InitInWork(j)
      BY <1>2, <3>2
    <3>4. IsTask(todo[i])'
      BY <3>2, <3>3 DEF IsTask, StmtTasks, ExprTasks
    <3>5. ASSUME todo[j][1] = "rest", Kind(todo[j][2]) = "init", NEW t, t = targets[todo[j][2]]
          PROVE  t # 0 /\ IsResolved(t)'
      <4>1. t # 0 /\ IsResolved(t)
        BY <1>1, <3>3, <3>5 DEF InitInWork, AwaitsType
      <4>2. todo[j][2] \in DOMAIN targets
        BY <3>3, <3>5 DEF IInv, TypesKept, TargetsSafe, IsTask, StmtTasks
      <4>3. Safe(t)
        BY <4>2, <3>5 DEF IInv, TypesKept, TargetsSafe
      <4>4. t \in DOMAIN tasts
        BY <4>1, <4>3, SafeIsWritten, Known DEF IInv, TypesKept, NodesKept
      <4> QED BY <4>1, <4>4 DEF StaysResolved
    <3>6. InitInWork(i)'
      <4>1. Kind(todo[i][2])' = Kind(todo[j][2])
        BY <3>2 DEF Kind, E
      <4>2. PICK t : t = targets[todo[j][2]]
        OBVIOUS
      <4>3. todo[j][1] = "rest" => targets'[todo'[i][2]] = t
        BY <3>2, <4>2
      <4> QED BY <3>2, <3>5, <4>1, <4>2, <4>3 DEF InitInWork
    <3> QED BY <3>4, <3>6
  <2> QED BY <2>1, <2>2, <1>7
<1>11. ASSUME NEW i \in DOMAIN todo', NEW j \in DOMAIN todo', i < j
       PROVE  Precedes(todo'[i], todo'[j])
  <2>1. CASE j <= n
    <3>1. i \in DOMAIN tasks /\ j \in DOMAIN tasks /\ todo'[i] = tasks[i] /\ todo'[j] = tasks[j]
      BY <1>7, <1>11, <2>1
    <3> QED BY <3>1, <1>11
  <2>2. CASE i <= n /\ j > n
    <3>1. i \in DOMAIN tasks /\ todo'[i] = tasks[i]
      BY <1>7, <2>2
    <3>2. PICK k : k = j - n + 1
      OBVIOUS
    <3>3. k \in DOMAIN todo /\ k # 1 /\ todo'[j] = todo[k]
      BY <1>9, <2>2, <3>2
    <3>4. 1 \in DOMAIN todo /\ 1 < k
      BY <1>5, <3>3
    <3>5. Precedes(todo[1], todo[k]) /\ IsTask(todo[k])
      BY <1>2, <3>3, <3>4
    <3> QED BY <3>1, <3>3, <3>5
  <2>3. CASE i > n
    <3>1. PICK k, l : k = i - n + 1 /\ l = j - n + 1
      OBVIOUS
    <3>2. j > n
      BY <1>7, <1>11, <2>3
    <3>3. k \in DOMAIN todo /\ l \in DOMAIN todo /\ todo'[i] = todo[k] /\ todo'[j] = todo[l]
      BY <1>9, <2>3, <3>1, <3>2
    <3>4. k < l
      BY <1>7, <1>11, <3>1
    <3>5. Precedes(todo[k], todo[l])
      <4>1. \A a, b \in DOMAIN todo : a < b => Precedes(todo[a], todo[b])
        BY <1>2
      <4> QED BY ONLY <3>3, <3>4, <4>1
    <3> QED BY <3>3, <3>5
  <2>4. i \in Int /\ j \in Int /\ n \in Int
    BY <1>7
  <2>5. j <= n \/ (i <= n /\ j > n) \/ i > n
    BY ONLY <2>4
  <2> QED BY ONLY <2>1, <2>2, <2>3, <2>5
<1> QED BY <1>8, <1>10, <1>11 DEF TodoKept

(* The first task. *)
LEMMA AtWork ==
  ASSUME IInv, NEW task, Doing(task)
  PROVE  /\ phase = "bodies" /\ calls = <<>> /\ todo # <<>> /\ IsSeq(todo) /\ 1 \in DOMAIN todo
         /\ todo[1][1] = task /\ Arg = todo[1][2] /\ IsTask(todo[1]) /\ InitInWork(1)
         /\ \A j \in DOMAIN todo : j # 1 => Precedes(todo[1], todo[j])
         /\ task \in StmtTasks => Arg \in DOMAIN program.body
         /\ task \in ExprTasks => Arg \in DOMAIN program.exprs
         /\ IsSeq(Tail(todo)) /\ program \in Programs
<1>1. phase = "bodies" /\ calls = <<>> /\ todo # <<>> /\ Head(todo)[1] = task
  BY DEF Doing
<1>2. /\ IsSeq(todo)
      /\ \A i \in DOMAIN todo : IsTask(todo[i]) /\ InitInWork(i)
      /\ \A i, j \in DOMAIN todo : i < j => Precedes(todo[i], todo[j])
  BY <1>1 DEF IInv, TodoKept
<1>3. /\ Len(todo) \in Nat \ {0} /\ DOMAIN todo = 1 .. Len(todo) /\ Head(todo) = todo[1]
      /\ IsSeq(Tail(todo))
  BY <1>1, <1>2, TailOfAny
<1>4. 1 \in DOMAIN todo /\ \A j \in DOMAIN todo : j # 1 => 1 < j
  BY <1>3
<1>5. \A j \in DOMAIN todo : j # 1 => Precedes(todo[1], todo[j])
  BY <1>2, <1>4
<1>6. IsTask(todo[1]) /\ InitInWork(1)
  BY <1>2, <1>4
<1>7. todo[1][1] = task /\ Arg = todo[1][2]
  BY <1>1, <1>3 DEF Arg
<1>8. /\ task \in StmtTasks => Arg \in DOMAIN program.body
      /\ task \in ExprTasks => Arg \in DOMAIN program.exprs
  BY <1>6, <1>7 DEF IsTask, StmtTasks, ExprTasks
<1> QED BY <1>1, <1>2, <1>3, <1>4, <1>5, <1>6, <1>7, <1>8 DEF IInv, TypesKept, NodesKept

(* A task is done. *)
LEMMA TaskDone ==
  ASSUME IInv, NEW task, Doing(task), Work(<<>>), UNCHANGED <<program, targets>>, StaysResolved
  PROVE  TodoKept'
<1>1. PICK tasks : tasks = <<>>
  OBVIOUS
<1>2. IsSeq(tasks) /\ DOMAIN tasks = {}
  <2>1. tasks \in Seq({1})
    BY <1>1
  <2>2. IsSeq(tasks)
    BY <2>1, SeqOfAny
  <2> QED BY <1>1, <2>2
<1>3. todo' = tasks \o Tail(todo)
  BY <1>1 DEF Work
<1> QED BY <1>2, <1>3, TodoGoesOn

(* A task leads to another. *)
LEMMA TaskGoesOn ==
  ASSUME IInv, NEW task, Doing(task), NEW x, Work(<<x>>), program' = program, StaysResolved,
         IsTask(x), InitInWork(1)', \A y : IsTask(y) /\ Precedes(todo[1], y) => Precedes(x, y),
         \A i \in DOMAIN todo :
           i # 1 /\ todo[i][1] = "rest" => targets'[todo[i][2]] = targets[todo[i][2]]
  PROVE  TodoKept'
<1>1. PICK tasks : tasks = <<x>>
  OBVIOUS
<1>2. IsSeq(tasks) /\ DOMAIN tasks = {1} /\ tasks[1] = x
  <2>1. tasks \in Seq({x}) /\ DOMAIN tasks = {1} /\ tasks[1] = x
    BY <1>1
  <2> QED BY <2>1, SeqOfAny
<1>3. todo' = tasks \o Tail(todo)
  BY <1>1 DEF Work
<1>4. \A i \in DOMAIN tasks : IsTask(tasks[i]) /\ InitInWork(i)' /\ \A y : IsTask(y) /\ Precedes(todo[1], y) => Precedes(tasks[i], y)
  BY <1>2
<1>5. \A i, j \in DOMAIN tasks : i < j => Precedes(tasks[i], tasks[j])
  BY <1>2
<1> QED BY <1>2, <1>3, <1>4, <1>5, TodoGoesOn

(* Or to two. *)
LEMMA TaskGoesOnTwice ==
  ASSUME IInv, NEW task, Doing(task), NEW x, NEW z, Work(<<x, z>>), program' = program, StaysResolved,
         IsTask(x), InitInWork(1)', \A y : IsTask(y) /\ Precedes(todo[1], y) => Precedes(x, y),
         IsTask(z), InitInWork(2)', \A y : IsTask(y) /\ Precedes(todo[1], y) => Precedes(z, y),
         Precedes(x, z),
         \A i \in DOMAIN todo :
           i # 1 /\ todo[i][1] = "rest" => targets'[todo[i][2]] = targets[todo[i][2]]
  PROVE  TodoKept'
<1>1. PICK tasks : tasks = <<x, z>>
  OBVIOUS
<1>2. IsSeq(tasks) /\ DOMAIN tasks = {1, 2} /\ tasks[1] = x /\ tasks[2] = z
  <2>1. tasks \in Seq({x, z}) /\ DOMAIN tasks = 1 .. 2 /\ tasks[1] = x /\ tasks[2] = z
    BY <1>1
  <2> QED BY <2>1, SeqOfAny
<1>3. todo' = tasks \o Tail(todo)
  BY <1>1 DEF Work
<1>4. \A i \in DOMAIN tasks : IsTask(tasks[i]) /\ InitInWork(i)' /\ \A y : IsTask(y) /\ Precedes(todo[1], y) => Precedes(tasks[i], y)
  BY <1>2
<1>5. \A i, j \in DOMAIN tasks : i < j => Precedes(tasks[i], tasks[j])
  BY <1>2
<1> QED BY <1>2, <1>3, <1>4, <1>5, TodoGoesOn

(* The first of the tasks to come. *)
LEMMA FirstToCome ==
  ASSUME NEW s, IsSeq(s), NEW x, NEW z
  PROVE  (<<x>> \o s)[1] = x /\ (<<x, z>> \o s)[1] = x /\ (<<x, z>> \o s)[2] = z
<1> DEFINE V == {s[i] : i \in DOMAIN s} \cup {x, z}
<1>1. s \in Seq(V) /\ x \in V /\ z \in V
  <2> DEFINE Q == {s[i] : i \in DOMAIN s}
  <2>1. s \in Seq(Q) /\ Q \subseteq V
    BY DEF IsSeq
  <2> HIDE DEF Q, V
  <2>2. s \in Seq(V)
    BY <2>1
  <2> QED BY <2>2 DEF V
<1> HIDE DEF V
<1> QED BY <1>1

(* What comes after a statement's task comes after what it leads to. *)
LEMMA StmtLeads ==
  ASSUME NEW x, x[1] \in StmtTasks, NEW z, z[1] \in StmtTasks \cup ExprTasks
  PROVE  \A y : Precedes(x, y) => Precedes(z, y)
BY DEF Precedes, StmtTasks, ExprTasks

(* So it is with an expression and its parts. *)
LEMMA ExprLeads ==
  ASSUME program \in Programs, NEW x, x[1] \in ExprTasks, NEW z, z[1] \in ExprTasks,
         x[2] \in Nat, z[2] \in Nat, z[2] <= x[2]
  PROVE  \A y : IsTask(y) /\ Precedes(x, y) => Precedes(z, y)
<1>1. program.exprs \in Seq(Expr)
  BY TypingAssumption
<1>2. DOMAIN program.exprs \subseteq Nat
  BY <1>1
<1>3. ASSUME NEW y, IsTask(y), Precedes(x, y)
      PROVE  Precedes(z, y)
  <2>1. z[1] \notin StmtTasks
    BY DEF StmtTasks, ExprTasks
  <2>2. ASSUME y[1] \in ExprTasks
        PROVE  z[2] < y[2]
    <3>1. y[2] \in Nat
      BY <1>2, <1>3, <2>2 DEF IsTask, StmtTasks, ExprTasks
    <3>2. x[2] < y[2]
      BY <1>3, <2>2 DEF Precedes
    <3> QED BY <3>1, <3>2
  <2> QED BY <2>1, <2>2 DEF Precedes
<1> QED BY <1>3

-----------------------------------------------------------------------------
(* The analysis of statements and expressions.                             *)

(* The end of a task at which nothing is known but what was. *)
LEMMA EndsWithout ==
  ASSUME IInv, NEW task, Doing(task), Work(<<>>),
         UNCHANGED <<program, types, tasts, blueprints, calls, roots, scope, targets>>
  PROVE  IInv'
<1>1. TypesKept /\ Len(tasts) \in Nat
  BY Known DEF IInv, TypesKept
<1>2. NodesKept' /\ BlueprintsKept' /\ CallsKept' /\ ResolvedOnce' /\ Chained' /\ StaysResolved
  BY <1>1, NothingKnown
<1>3. ScopeKept' /\ TargetsSafe'
  BY <1>1, <1>2, OthersKept
<1>4. TodoKept'
  BY <1>2, TaskDone
<1> QED BY <1>2, <1>3, <1>4 DEF IInv, TypesKept

(* The end of an expression that has a type of its own. *)
LEMMA EndsWithNew ==
  ASSUME IInv, NEW task, Doing(task), NEW e, NEW nodes, IsSeq(nodes), GetsNew(e, nodes)
  PROVE  IInv'
<1> DEFINE more == [i \in DOMAIN nodes |-> Unresolved]
<1>1. /\ types' = types \o nodes /\ tasts' = tasts \o more
      /\ Work(<<>>) /\ UNCHANGED <<program, blueprints, calls, roots, scope, targets>>
  BY DEF GetsNew, Gets, unchangedTypes
<1>2. Len(nodes) \in Nat /\ DOMAIN nodes = 1 .. Len(nodes)
  BY DEF IsSeq
<1>3. more \in [1 .. Len(nodes) -> {Unresolved}]
  BY <1>2
<1>4. IsSeq(more) /\ Len(more) = Len(nodes)
  BY <1>2, <1>3, ListIsSeq
<1>5. TypesKept /\ Len(blueprints) \in Nat
  BY DEF IInv, TypesKept, BlueprintsKept, IsSeq
<1>6. /\ Unresolved.state # "RESOLVING" /\ "state" \in DOMAIN Unresolved /\ "decl" \in DOMAIN Unresolved
      /\ Unresolved.decl = 0
  BY DEF Unresolved
<1>7. \A i \in DOMAIN more :
        /\ more[i].state # "RESOLVING" /\ "state" \in DOMAIN more[i] /\ "decl" \in DOMAIN more[i]
        /\ more[i].decl \in 0 .. Len(blueprints)
  BY <1>5, <1>6
<1> HIDE DEF more
<1>8. TypesKept' /\ StaysResolved
  BY <1>1, <1>4, <1>5, <1>7, Grown
<1>9. TodoKept'
  BY <1>1, <1>8, TaskDone
<1> QED BY <1>8, <1>9 DEF IInv

(* An expression that is given up. *)
LEMMA EndsWithNone ==
  ASSUME IInv, NEW task, Doing(task), NEW reports, GetsNone(reports)
  PROVE  IInv'
BY EndsWithout DEF GetsNone, unchangedTypes

(* An expression with the type of another. *)
LEMMA EndsWithType ==
  ASSUME IInv, NEW task, Doing(task), NEW e, NEW tast, Gets(e, tast), UNCHANGED <<types, tasts>>
  PROVE  IInv'
BY EndsWithout DEF Gets, unchangedTypes

(* A literal has a type of its own. *)
LEMMA VisitLiteralKeeps ==
  ASSUME IInv, VisitLiteral
  PROVE  IInv'
<1> DEFINE string == <<NewPrim("char"), NewType("array", "", <<Len(types) + 1>>)>>
           null == <<NewPrim("void"), NewType("pointer", "", <<Len(types) + 1>>)>>
           other == <<NewPrim(E(Arg).op)>>
<1>1. IsSeq(string)
  <2>1. string \in Seq({NewPrim("char"), NewType("array", "", <<Len(types) + 1>>)})
    OBVIOUS
  <2> QED BY <2>1, SeqOfAny
<1>2. IsSeq(null)
  <2>1. null \in Seq({NewPrim("void"), NewType("pointer", "", <<Len(types) + 1>>)})
    OBVIOUS
  <2> QED BY <2>1, SeqOfAny
<1>3. IsSeq(other)
  <2>1. other \in Seq({NewPrim(E(Arg).op)})
    OBVIOUS
  <2> QED BY <2>1, SeqOfAny
<1>4. Doing("visit") /\ GetsNew(Arg, CASE E(Arg).op = "string" -> string [] E(Arg).op = "null" -> null [] OTHER -> other)
  BY DEF VisitLiteral
<1> HIDE DEF string, null, other
<1>5. PICK nodes : nodes = CASE E(Arg).op = "string" -> string [] E(Arg).op = "null" -> null [] OTHER -> other
  OBVIOUS
<1>6. nodes \in {string, null, other}
  BY <1>5
<1>7. IsSeq(nodes)
  BY <1>1, <1>2, <1>3, <1>6
<1> QED BY <1>4, <1>5, <1>7, EndsWithNew

(* A name has the type of what it stands for. *)
LEMMA VisitIdentKeeps ==
  ASSUME IInv, VisitIdent
  PROVE  IInv'
<1>1. Doing("visit")
  BY DEF VisitIdent
<1>2. PICK symbol : symbol = Lookup(E(Arg).name)
  OBVIOUS
<1>3. IF symbol = NoSymbol THEN GetsNone(<<"refused">>)
      ELSE /\ Gets(Arg, [typed |-> TRUE, type |-> symbol.type, lvalue |-> symbol.kind = "var", symbol |-> symbol])
           /\ UNCHANGED <<types, tasts>>
  BY <1>2 DEF VisitIdent, Refused
<1>4. CASE symbol = NoSymbol
  BY <1>1, <1>3, <1>4, EndsWithNone
<1>5. CASE symbol # NoSymbol
  BY <1>1, <1>3, <1>5, EndsWithType
<1> QED BY <1>4, <1>5

(* The type of a comparison is made for it. *)
LEMMA BoolNode == IsSeq(<<NewPrim("bool")>>)
<1>1. <<NewPrim("bool")>> \in Seq({NewPrim("bool")})
  OBVIOUS
<1> QED BY <1>1, SeqOfAny

(* An operator's operands may be refused, or the type of the first be that *)
(* of the whole, or a new one made. *)
LEMMA FinishBinaryKeeps ==
  ASSUME IInv, FinishBinary
  PROVE  IInv'
<1>1. Doing("rest")
  BY DEF FinishBinary, Finishing
<1>2. \/ GivenUp \/ Refused \/ GetsNew(Arg, <<NewPrim("bool")>>) \/ GetsType(Arg, TypeOf(Part(1)), FALSE)
  BY DEF FinishBinary
<1>3. CASE GivenUp
  BY <1>1, <1>3, EndsWithNone DEF GivenUp
<1>4. CASE Refused
  BY <1>1, <1>4, EndsWithNone DEF Refused
<1>5. CASE GetsNew(Arg, <<NewPrim("bool")>>)
  BY <1>1, <1>5, EndsWithNew, BoolNode
<1>6. CASE GetsType(Arg, TypeOf(Part(1)), FALSE)
  BY <1>1, <1>6, EndsWithType DEF GetsType
<1> QED BY <1>2, <1>3, <1>4, <1>5, <1>6

(* So it is with one operand. *)
LEMMA FinishUnaryKeeps ==
  ASSUME IInv, FinishUnary
  PROVE  IInv'
<1>1. Doing("rest")
  BY DEF FinishUnary, Finishing
<1>2. PICK t, op : t = TypeOf(Part(1)) /\ op = E(Arg).op
  OBVIOUS
<1>3. IF ~UnaryFits(op, Part(1)) THEN Refused
      ELSE CASE op = "!" -> GetsNew(Arg, <<NewPrim("bool")>>)
             [] op = "&" -> GetsNew(Arg, <<NewType("pointer", "", <<t>>)>>)
             [] op = "*" -> GetsType(Arg, Inner(t), TRUE)
             [] OTHER -> GetsType(Arg, t, FALSE)
  BY <1>2 DEF FinishUnary
<1>4. CASE Refused
  BY <1>1, <1>4, EndsWithNone DEF Refused
<1>5. CASE GetsNew(Arg, <<NewPrim("bool")>>)
  BY <1>1, <1>5, EndsWithNew, BoolNode
<1>6. CASE GetsNew(Arg, <<NewType("pointer", "", <<t>>)>>)
  <2>1. PICK node : node = NewType("pointer", "", <<t>>)
    OBVIOUS
  <2>2. <<node>> \in Seq({node})
    OBVIOUS
  <2>3. IsSeq(<<node>>)
    BY <2>2, SeqOfAny
  <2> QED BY <1>1, <1>6, <2>1, <2>3, EndsWithNew
<1>7. CASE GetsType(Arg, Inner(t), TRUE)
  BY <1>1, <1>7, EndsWithType DEF GetsType
<1>8. CASE GetsType(Arg, t, FALSE)
  BY <1>1, <1>8, EndsWithType DEF GetsType
<1>9. CASE ~UnaryFits(op, Part(1))
  BY <1>3, <1>4, <1>9
<1>10. CASE UnaryFits(op, Part(1))
  <2>1. CASE op = "!"
    BY <1>3, <1>5, <1>10, <2>1
  <2>2. CASE op = "&"
    BY <1>3, <1>6, <1>10, <2>2
  <2>3. CASE op = "*"
    BY <1>3, <1>7, <1>10, <2>3
  <2>4. CASE op \notin {"!", "&", "*"}
    BY <1>3, <1>8, <1>10, <2>4
  <2> QED BY <2>1, <2>2, <2>3, <2>4
<1> QED BY <1>9, <1>10

(* A call has the type of its result. *)
LEMMA FinishCallKeeps ==
  ASSUME IInv, FinishCall
  PROVE  IInv'
<1>1. Doing("rest")
  BY DEF FinishCall, Finishing
<1>2. PICK found : IF found = <<>> \/ ~found[1].body THEN Refused ELSE GetsType(Arg, found[1].result, FALSE)
  BY DEF FinishCall
<1>3. CASE Refused
  BY <1>1, <1>3, EndsWithNone DEF Refused
<1>4. CASE GetsType(Arg, found[1].result, FALSE)
  BY <1>1, <1>4, EndsWithType DEF GetsType
<1> QED BY <1>2, <1>3, <1>4

(* An element has the type inside that of the array. *)
LEMMA FinishIndexKeeps ==
  ASSUME IInv, FinishIndex
  PROVE  IInv'
<1>1. Doing("rest")
  BY DEF FinishIndex, Finishing
<1>2. GetsType(Arg, Inner(TypeOf(Part(1))), TRUE) \/ Refused
  BY DEF FinishIndex
<1>3. CASE Refused
  BY <1>1, <1>3, EndsWithNone DEF Refused
<1>4. CASE GetsType(Arg, Inner(TypeOf(Part(1))), TRUE)
  BY <1>1, <1>4, EndsWithType DEF GetsType
<1> QED BY <1>2, <1>3, <1>4

(* A cast has the type it names, which nothing resolves. *)
LEMMA FinishCastKeeps ==
  ASSUME IInv, FinishCast
  PROVE  IInv'
<1>1. Doing("rest")
  BY DEF FinishCast, Finishing
<1>2. GivenUp \/ GetsType(Arg, E(Arg).type, FALSE) \/ Refused
  BY DEF FinishCast
<1>3. CASE Refused
  BY <1>1, <1>3, EndsWithNone DEF Refused
<1>4. CASE GetsType(Arg, E(Arg).type, FALSE)
  BY <1>1, <1>4, EndsWithType DEF GetsType
<1>5. CASE GivenUp
  BY <1>1, <1>5, EndsWithNone DEF GivenUp
<1> QED BY <1>2, <1>3, <1>4, <1>5

(* A field has its type, a method that of its result. *)
LEMMA FinishMemberKeeps ==
  ASSUME IInv, FinishMember
  PROVE  IInv'
<1>1. Doing("rest")
  BY DEF FinishMember, Finishing
<1>2. PICK t, b, name : /\ t = Reached(TypeOf(Part(1)))
                        /\ b = (IF Tag(t) = "blueprint" THEN tasts[t].decl ELSE 0)
                        /\ name = E(Arg).name
  OBVIOUS
<1> DEFINE Gets1(kind, type, slot, result, lvalue) ==
             /\ Gets(Arg, [typed |-> TRUE, type |-> result, lvalue |-> lvalue, symbol |-> Variable(kind, type, slot)])
             /\ UNCHANGED <<types, tasts>>
           f == Min(FieldNamed(b, name))
           m == Min(MethodNamed(b, name))
<1>3. (CASE TypeOf(Part(1)) = 0 -> GivenUp
        [] TypeOf(Part(1)) # 0 /\ b = 0 -> Refused
        [] b # 0 /\ FieldNamed(b, name) # {} -> Gets1("field", b, f, blueprints[b].fields[f].type, TRUE)
        [] b # 0 /\ FieldNamed(b, name) = {} /\ MethodNamed(b, name) # {} ->
             Gets1("method", b, m, blueprints[b].methods[m].overloads[1].result, FALSE)
        [] OTHER -> Refused)
  BY <1>2 DEF FinishMember
<1>4. CASE Refused
  BY <1>1, <1>4, EndsWithNone DEF Refused
<1>5. CASE GivenUp
  BY <1>1, <1>5, EndsWithNone DEF GivenUp
<1>6. CASE Gets1("field", b, f, blueprints[b].fields[f].type, TRUE)
  BY <1>1, <1>6, EndsWithType
<1>7. CASE Gets1("method", b, m, blueprints[b].methods[m].overloads[1].result, FALSE)
  BY <1>1, <1>7, EndsWithType
<1> HIDE DEF Gets1
<1>8. \/ GivenUp \/ Refused \/ Gets1("field", b, f, blueprints[b].fields[f].type, TRUE)
      \/ Gets1("method", b, m, blueprints[b].methods[m].overloads[1].result, FALSE)
  BY <1>3
<1> QED BY <1>4, <1>5, <1>6, <1>7, <1>8

(* An aggregate has the type it was meant for. *)
LEMMA FinishInitKeeps ==
  ASSUME IInv, FinishInit
  PROVE  IInv'
<1>1. Doing("rest")
  BY DEF FinishInit, Finishing
<1>2. CASE CanInit(targets[Arg])
  <2>1. Work(<<>>) /\ UNCHANGED <<program, types, tasts, blueprints, calls, roots, scope, targets>>
    BY <1>2 DEF FinishInit, unchangedTypes
  <2> QED BY <1>1, <2>1, EndsWithout
<1>3. CASE ~CanInit(targets[Arg])
  <2>1. GetsNone(<<"refused">>)
    BY <1>3 DEF FinishInit, Refused
  <2> QED BY <1>1, <2>1, EndsWithNone
<1> QED BY <1>2, <1>3

(* A part that is given up. *)
LEMMA GiveUpKeeps ==
  ASSUME IInv, GiveUp \/ FinishFfi
  PROVE  IInv'
<1>1. CASE GiveUp
  BY <1>1, EndsWithNone DEF GiveUp, GivenUp
<1>2. CASE FinishFfi
  BY <1>2, EndsWithType DEF FinishFfi, Finishing, GetsType
<1> QED BY <1>1, <1>2

(* The type of an aggregate is asked for before its values are looked at. *)
LEMMA VisitInitKeeps ==
  ASSUME IInv, VisitInit
  PROVE  IInv'
<1>1. Doing("visit") /\ Kind(Arg) = "init"
  BY DEF VisitInit
<1>2. PICK t : t = targets[Arg]
  OBVIOUS
<1>3. CASE t = 0
  BY <1>1, <1>2, <1>3, EndsWithNone DEF VisitInit, Refused
<1>4. CASE t # 0
  <2>1. /\ Resolves(t, <<>>) /\ Work(<<Rest(Arg, 1)>>)
        /\ UNCHANGED <<program, phase, types, blueprints, scope, roots, targets>>
    BY <1>2, <1>4 DEF VisitInit
  <2>2. /\ calls = <<>> /\ todo[1][1] = "visit" /\ todo[1][2] = Arg /\ Arg \in DOMAIN program.exprs
        /\ IsSeq(Tail(todo)) /\ program \in Programs
    BY <1>1, AtWork DEF ExprTasks
  <2>3. TypesKept /\ Safe(t) /\ roots' \in Seq(Loose)
    BY <1>2, <2>1, <2>2 DEF IInv, TypesKept, TargetsSafe, CallsKept
  <2>4. TypesKept' /\ StaysResolved /\ Settled(t)'
    BY <1>4, <2>1, <2>2, <2>3, AsksFor
  <2>5. PICK e, x : e = Arg /\ x = Rest(e, 1)
    OBVIOUS
  <2>6. x[1] = "rest" /\ x[2] = e
    BY <2>5, TaskParts
  <2>7. todo' = <<x>> \o Tail(todo) /\ todo'[1] = x
    BY <2>1, <2>2, <2>5, FirstToCome DEF Work
  <2>8. InitInWork(1)'
    <3>1. targets'[e] = t
      BY <1>2, <2>1, <2>5
    <3> QED BY <1>4, <2>4, <2>6, <2>7, <3>1 DEF InitInWork, Settled
  <2>9. IsTask(x)
    BY <2>2, <2>5, <2>6 DEF IsTask, ExprTasks
  <2>10. \A y : IsTask(y) /\ Precedes(todo[1], y) => Precedes(x, y)
    BY <2>2, <2>5, <2>6 DEF Precedes, StmtTasks, ExprTasks
  <2>11. Work(<<x>>)
    BY <2>1, <2>5
  <2>12. TodoKept'
    BY <1>1, <2>1, <2>4, <2>8, <2>9, <2>10, <2>11, TaskGoesOn
  <2> QED BY <2>4, <2>12 DEF IInv
<1> QED BY <1>3, <1>4

(* A step that goes on with other tasks, and with nothing else. *)
LEMMA VisitOtherKeeps ==
  ASSUME IInv, VisitOther
  PROVE  IInv'
<1>1. /\ Doing("visit") /\ Kind(Arg) # "init" /\ Work(<<Rest(Arg, 1)>>)
      /\ UNCHANGED <<program, types, tasts, blueprints, calls, roots, scope, targets>>
  BY DEF VisitOther, GoesOn, unchangedTypes
<1>2. TypesKept /\ Len(tasts) \in Nat
  BY Known DEF IInv, TypesKept
<1>3. NodesKept' /\ BlueprintsKept' /\ CallsKept' /\ ResolvedOnce' /\ Chained' /\ StaysResolved
  BY <1>1, <1>2, NothingKnown
<1>4. ScopeKept' /\ TargetsSafe'
  BY <1>1, <1>2, <1>3, OthersKept
<1>5. /\ todo[1][1] = "visit" /\ todo[1][2] = Arg /\ Arg \in DOMAIN program.exprs
      /\ IsSeq(Tail(todo))
  BY <1>1, AtWork DEF ExprTasks
<1>6. PICK e, x : e = Arg /\ x = Rest(e, 1)
  OBVIOUS
<1>7. x[1] = "rest" /\ x[2] = e
  BY <1>6, TaskParts
<1>8. todo' = <<x>> \o Tail(todo) /\ todo'[1] = x
  BY <1>1, <1>5, <1>6, FirstToCome DEF Work
<1>9. InitInWork(1)'
  <2>1. program'.exprs[e].kind # "init"
    BY <1>1, <1>6 DEF Kind, E
  <2> QED BY <1>7, <1>8, <2>1 DEF InitInWork, Kind, E
<1>10. IsTask(x)
  BY <1>5, <1>6, <1>7 DEF IsTask, ExprTasks
<1>11. \A y : IsTask(y) /\ Precedes(todo[1], y) => Precedes(x, y)
  BY <1>5, <1>6, <1>7 DEF Precedes, StmtTasks, ExprTasks
<1>12. Work(<<x>>)
  BY <1>1, <1>6
<1>13. TodoKept'
  BY <1>1, <1>3, <1>9, <1>10, <1>11, <1>12, TaskGoesOn
<1> QED BY <1>3, <1>4, <1>13 DEF IInv, TypesKept

(* A nested aggregate is meant for the type inside of that of the whole,   *)
(* which is resolved, so that the type inside is safe. *)
LEMMA VisitNextKeeps ==
  ASSUME IInv, VisitNext
  PROVE  IInv'
<1>1. Doing("rest") /\ Ahead(Arg, At) # {}
  BY DEF VisitNext, AllSeen
<1>2. PICK e, at, part : e = Arg /\ at = Min(Ahead(Arg, At)) /\ part = E(Arg).parts[at]
  OBVIOUS
<1>3. /\ targets' = IF Kind(e) = "init" /\ Kind(part) = "init" /\ Tag(targets[e]) = "array" /\ E(e).indices = <<>>
                      THEN [targets EXCEPT ![part] = Inner(targets[e])]
                      ELSE targets
      /\ Work(<<Visit(part), Rest(e, at + 1)>>)
      /\ UNCHANGED <<program, types, tasts, blueprints, calls, roots, scope>>
  BY <1>2 DEF VisitNext, unchangedTypes
<1>4. /\ calls = <<>> /\ todo[1][1] = "rest" /\ todo[1][2] = e /\ e \in DOMAIN program.exprs
      /\ IsSeq(Tail(todo)) /\ program \in Programs /\ InitInWork(1) /\ phase = "bodies"
      /\ \A j \in DOMAIN todo : j # 1 => Precedes(todo[1], todo[j])
  BY <1>1, <1>2, AtWork DEF ExprTasks
<1>5. DOMAIN program.exprs \subseteq Nat /\ program.exprs[e].parts \in Seq(1 .. e - 1)
  <2>1. program.exprs \in Seq(Expr) /\ program.exprs[e].parts \in Seq(1 .. e - 1)
    BY <1>4, TypingAssumption
  <2> QED BY <2>1
<1>6. part \in 1 .. e - 1 /\ part \in DOMAIN program.exprs
  <2>1. Ahead(e, At) \subseteq DOMAIN program.exprs[e].parts
    BY DEF Ahead, E
  <2>2. DOMAIN program.exprs[e].parts \subseteq Nat
    BY <1>5
  <2>3. Ahead(e, At) # {} /\ Ahead(e, At) \subseteq Nat
    BY <1>1, <1>2, <2>1, <2>2
  <2>4. at \in DOMAIN program.exprs[e].parts
    BY <1>2, <2>1, <2>3, LeastIsOne
  <2>5. part \in 1 .. e - 1
    <3>1. part = program.exprs[e].parts[at]
      BY <1>2 DEF E
    <3>2. program.exprs[e].parts[at] \in 1 .. e - 1
      <4>1. PICK parts, V : parts = program.exprs[e].parts /\ V = 1 .. e - 1
        OBVIOUS
      <4>2. parts \in Seq(V) /\ at \in DOMAIN parts
        BY <1>5, <2>4, <4>1
      <4>3. parts[at] \in V
        BY ONLY <4>2
      <4> QED BY <4>1, <4>3
    <3> QED BY ONLY <3>1, <3>2
  <2>6. program.exprs \in Seq(Expr)
    BY <1>4, TypingAssumption
  <2> QED BY <1>4, <1>5, <2>5, <2>6
<1>7. TypesKept /\ Len(tasts) \in Nat
  BY Known DEF IInv, TypesKept
<1>8. NodesKept' /\ BlueprintsKept' /\ CallsKept' /\ ResolvedOnce' /\ Chained' /\ StaysResolved
  BY <1>3, <1>7, NothingKnown
<1>9. ScopeKept'
  BY <1>3, <1>7 DEF TypesKept, ScopeKept
<1>10. ASSUME Kind(e) = "init"
       PROVE  targets[e] # 0 /\ IsResolved(targets[e])
  BY <1>4, <1>10 DEF InitInWork, AwaitsType
<1>11. targets \in [DOMAIN program.exprs -> 0 .. Len(program.types)] /\ \A f \in DOMAIN targets : Safe(targets[f])
  BY DEF IInv, TypesKept, TargetsSafe
<1>12. TargetsSafe'
  <2>1. CASE targets' = targets
    <3>1. ASSUME NEW f \in DOMAIN targets
          PROVE  Safe(targets[f])'
      <4>1. PICK t : t = targets[f]
        OBVIOUS
      <4>2. Safe(t)'
        BY <1>3, <1>7, <1>8, <1>11, <4>1, SafeStays DEF TypesKept
      <4> QED BY <2>1, <4>1, <4>2
    <3> QED BY <1>3, <1>11, <2>1, <3>1 DEF TargetsSafe
  <2>2. CASE targets' # targets
    <3>1. PICK t, i : t = targets[e] /\ i = types[t].inner[1]
      OBVIOUS
    <3>2. Kind(e) = "init" /\ Tag(t) = "array" /\ targets' = [targets EXCEPT ![part] = i]
      BY <1>3, <2>2, <3>1 DEF Inner
    <3>3. t # 0 /\ IsResolved(t)
      BY <1>10, <3>1, <3>2
    <3>4. t \in Written
      BY <1>4, <1>11, <3>1, <3>3, SafeIsWritten
    <3>5. types[t] = program.types[t] /\ program.types[t].tag = "array"
      BY <1>7, <3>2, <3>3, <3>4 DEF Tag, TypesKept, NodesKept
    <3>6. i = 0 \/ i \in Inside(t)
      BY <1>4, <3>1, <3>4, <3>5, Inners
    <3>7. Safe(i)
      BY <1>4, <3>3, <3>4, <3>6, Trees DEF Safe
    <3>8. Safe(i)' /\ i \in 0 .. Len(program.types)
      BY <1>3, <1>4, <1>7, <1>8, <3>7, SafeStays, SafeIsWritten DEF TypesKept
    <3>9. targets' \in [DOMAIN program.exprs -> 0 .. Len(program.types)]
      BY <1>6, <1>11, <3>2, <3>8
    <3>10. ASSUME NEW f \in DOMAIN targets'
           PROVE  Safe(targets[f])'
      <4>1. PICK u : u = targets'[f]
        OBVIOUS
      <4>2. Safe(u)'
        <5>1. CASE f = part
          BY <1>6, <1>11, <3>2, <3>8, <4>1, <5>1
        <5>2. CASE f # part
          <6>1. u = targets[f] /\ f \in DOMAIN targets
            BY <1>6, <1>11, <3>2, <4>1, <5>2
          <6>2. Safe(u)
            BY <1>11, <6>1
          <6> QED BY <1>3, <1>7, <1>8, <6>2, SafeStays DEF TypesKept
        <5> QED BY <5>1, <5>2
      <4> QED BY <4>1, <4>2
    <3> QED BY <1>3, <3>9, <3>10 DEF TargetsSafe
  <2> QED BY <2>1, <2>2
<1>13. \A f : f # part => targets'[f] = targets[f]
  BY <1>3, <1>6, <1>11
<1>14. PICK x, z : x = Visit(part) /\ z = Rest(e, at + 1)
  OBVIOUS
<1>15. x[1] = "visit" /\ x[2] = part /\ z[1] = "rest" /\ z[2] = e
  BY <1>14, TaskParts
<1>16. todo' = <<x, z>> \o Tail(todo) /\ todo'[1] = x /\ todo'[2] = z
  BY <1>3, <1>4, <1>14, FirstToCome DEF Work
<1>17. InitInWork(1)'
  BY <1>15, <1>16 DEF InitInWork
<1>18. InitInWork(2)'
  <2>1. Kind(todo[2][2])' = Kind(e) /\ targets'[e] = targets[e]
    BY <1>3, <1>5, <1>6, <1>13, <1>15, <1>16 DEF Kind, E
  <2>2. PICK t : t = targets[e]
    OBVIOUS
  <2>3. IsResolved(t)' <=> IsResolved(t)
    BY <1>3 DEF IsResolved
  <2> QED BY <1>10, <1>15, <1>16, <2>1, <2>2, <2>3 DEF InitInWork
<1>19. IsTask(x) /\ IsTask(z)
  BY <1>4, <1>6, <1>15 DEF IsTask, ExprTasks
<1>20. \A y : IsTask(y) /\ Precedes(todo[1], y) => Precedes(x, y)
  <2>1. x[1] \in ExprTasks /\ todo[1][1] \in ExprTasks /\ todo[1][2] \in Nat /\ x[2] \in Nat /\ x[2] <= todo[1][2]
    BY <1>4, <1>5, <1>6, <1>15 DEF ExprTasks
  <2> QED BY <1>4, <2>1, ExprLeads
<1>21. \A y : IsTask(y) /\ Precedes(todo[1], y) => Precedes(z, y)
  BY <1>4, <1>15 DEF Precedes, StmtTasks, ExprTasks
<1>22. Precedes(x, z)
  BY <1>4, <1>5, <1>6, <1>15 DEF Precedes, StmtTasks, ExprTasks
<1>23. ASSUME NEW i \in DOMAIN todo, i # 1, todo[i][1] = "rest"
       PROVE  targets'[todo[i][2]] = targets[todo[i][2]]
  <2>1. Precedes(todo[1], todo[i])
    BY <1>4, <1>23
  <2>2. e < todo[i][2]
    BY <1>4, <1>23, <2>1 DEF Precedes, ExprTasks
  <2>3. todo[i][2] # part
    BY <1>4, <1>5, <1>6, <2>2
  <2> QED BY <1>13, <2>3
<1>24. Work(<<x, z>>)
  BY <1>3, <1>14
<1>25. TodoKept'
  BY <1>1, <1>3, <1>8, <1>17, <1>18, <1>19, <1>20, <1>21, <1>22, <1>23, <1>24, TaskGoesOnTwice
<1> QED BY <1>8, <1>9, <1>12, <1>25 DEF IInv, TypesKept

(* A statement's value is meant for a type that is inside of none. *)
LEMMA TargetGiven ==
  ASSUME IInv, StaysResolved, program' = program, NEW s \in DOMAIN program.body, NEW t \in Loose,
         targets' = WithTarget(s, t)
  PROVE  TargetsSafe'
<1>1. TypesKept /\ program \in Programs
  BY DEF IInv, TypesKept, NodesKept
<1>2. targets \in [DOMAIN program.exprs -> 0 .. Len(program.types)] /\ \A f \in DOMAIN targets : Safe(targets[f])
  BY DEF IInv, TypesKept, TargetsSafe
<1>3. t \in 0 .. Len(program.types) /\ Safe(t)
  BY <1>1, Trees DEF Safe
<1>4. targets' \in [DOMAIN program.exprs -> 0 .. Len(program.types)]
  BY <1>2, <1>3 DEF WithTarget
<1>5. \A f \in DOMAIN targets : targets'[f] = targets[f] \/ targets'[f] = t
  BY <1>2 DEF WithTarget
<1>6. ASSUME NEW f \in DOMAIN targets'
      PROVE  Safe(targets[f])'
  <2>1. PICK u : u = targets'[f]
    OBVIOUS
  <2>2. Safe(u)
    BY <1>2, <1>3, <1>4, <1>5, <2>1
  <2>3. Safe(u)'
    BY <1>1, <2>2, SafeStays DEF TypesKept
  <2> QED BY <2>1, <2>3
<1> QED BY <1>4, <1>6 DEF TargetsSafe

(* No aggregate is in work when a statement begins. *)
LEMMA NothingInWork ==
  ASSUME IInv, NEW task \in StmtTasks, Doing(task), NEW i \in DOMAIN todo, i # 1
  PROVE  todo[i][1] # "rest"
<1>1. todo[1][1] = task /\ Precedes(todo[1], todo[i])
  BY AtWork
<1> QED BY <1>1 DEF Precedes

(* The type of a declaration is asked for first. *)
LEMMA StartDeclKeeps ==
  ASSUME IInv, StartDecl
  PROVE  IInv'
<1>1. /\ Doing("statement") /\ Resolves(S(Arg).type, <<>>) /\ Work(<<Sized(Arg)>>)
      /\ UNCHANGED <<program, types, blueprints, scope, roots, targets>>
  BY DEF StartDecl
<1>2. /\ calls = <<>> /\ todo[1][1] = "statement" /\ Arg \in DOMAIN program.body
      /\ IsSeq(Tail(todo)) /\ program \in Programs
  BY <1>1, AtWork DEF StmtTasks
<1>3. PICK s, t, x : s = Arg /\ t = S(s).type /\ x = Sized(s)
  OBVIOUS
<1>4. TypesKept /\ Safe(t) /\ roots' \in Seq(Loose)
  BY <1>1, <1>2, <1>3, Mentions DEF Safe, IInv, TypesKept, CallsKept
<1>5. Resolves(t, <<>>)
  BY <1>1, <1>3
<1>6. TypesKept' /\ StaysResolved
  BY <1>1, <1>2, <1>4, <1>5, AsksFor
<1>7. x[1] = "sized" /\ x[2] = s
  BY <1>3, TaskParts
<1>8. todo'[1] = x /\ Work(<<x>>)
  BY <1>1, <1>2, <1>3, FirstToCome DEF Work
<1>9. InitInWork(1)'
  BY <1>7, <1>8 DEF InitInWork
<1>10. IsTask(x)
  BY <1>2, <1>3, <1>7 DEF IsTask, StmtTasks
<1>11. \A y : IsTask(y) /\ Precedes(todo[1], y) => Precedes(x, y)
  BY <1>2, <1>7, StmtLeads DEF StmtTasks
<1>12. TodoKept'
  BY <1>1, <1>6, <1>8, <1>9, <1>10, <1>11, TaskGoesOn
<1> QED BY <1>6, <1>12 DEF IInv

(* The tasks of a value and of what follows it. *)
LEMMA ValueGoesOn ==
  ASSUME IInv, NEW task \in StmtTasks, Doing(task), Has(Arg), Work(<<Visit(Value(Arg)), After(Arg)>>),
         program' = program, StaysResolved
  PROVE  TodoKept'
<1>1. todo[1][1] = task /\ Arg \in DOMAIN program.body /\ IsSeq(Tail(todo)) /\ program \in Programs
  BY AtWork
<1>2. PICK s, e, x, z : s = Arg /\ e = Value(s) /\ x = Visit(e) /\ z = After(s)
  OBVIOUS
<1>3. e \in DOMAIN program.exprs
  BY <1>1, <1>2, Mentions
<1>4. x[1] = "visit" /\ x[2] = e /\ z[1] = "after" /\ z[2] = s
  BY <1>2, TaskParts
<1>5. todo'[1] = x /\ todo'[2] = z /\ Work(<<x, z>>)
  BY <1>1, <1>2, FirstToCome DEF Work
<1>6. InitInWork(1)' /\ InitInWork(2)'
  BY <1>4, <1>5 DEF InitInWork
<1>7. IsTask(x) /\ IsTask(z)
  BY <1>1, <1>2, <1>3, <1>4 DEF IsTask, StmtTasks, ExprTasks
<1>8. \A y : IsTask(y) /\ Precedes(todo[1], y) => Precedes(x, y)
  BY <1>1, <1>4, StmtLeads DEF StmtTasks, ExprTasks
<1>9. \A y : IsTask(y) /\ Precedes(todo[1], y) => Precedes(z, y)
  BY <1>1, <1>4, StmtLeads DEF StmtTasks, ExprTasks
<1>10. Precedes(x, z)
  BY <1>4 DEF Precedes, StmtTasks, ExprTasks
<1>11. \A i \in DOMAIN todo : i # 1 /\ todo[i][1] = "rest" => targets'[todo[i][2]] = targets[todo[i][2]]
  BY NothingInWork
<1> QED BY <1>5, <1>6, <1>7, <1>8, <1>9, <1>10, <1>11, TaskGoesOnTwice

(* What follows without a value. *)
LEMMA NothingGoesOn ==
  ASSUME IInv, NEW task \in StmtTasks, Doing(task), program' = program, StaysResolved,
         Work(<<After(Arg)>>) \/ Work(<<>>)
  PROVE  TodoKept'
<1>1. todo[1][1] = task /\ Arg \in DOMAIN program.body /\ IsSeq(Tail(todo))
  BY AtWork
<1>2. \A i \in DOMAIN todo : i # 1 /\ todo[i][1] = "rest" => targets'[todo[i][2]] = targets[todo[i][2]]
  BY NothingInWork
<1>3. CASE Work(<<After(Arg)>>)
  <2>1. PICK s, z : s = Arg /\ z = After(s)
    OBVIOUS
  <2>2. z[1] = "after" /\ z[2] = s
    BY <2>1, TaskParts
  <2>3. todo'[1] = z /\ Work(<<z>>)
    BY <1>1, <1>3, <2>1, FirstToCome DEF Work
  <2>4. InitInWork(1)'
    BY <2>2, <2>3 DEF InitInWork
  <2>5. IsTask(z)
    BY <1>1, <2>1, <2>2 DEF IsTask, StmtTasks
  <2>6. \A y : IsTask(y) /\ Precedes(todo[1], y) => Precedes(z, y)
    BY <1>1, <2>2, StmtLeads DEF StmtTasks
  <2> QED BY <1>2, <2>3, <2>4, <2>5, <2>6, TaskGoesOn
<1>4. CASE Work(<<>>)
  <2>1. PICK tasks : tasks = <<>>
    OBVIOUS
  <2>2. IsSeq(tasks) /\ DOMAIN tasks = {}
    <3>1. tasks \in Seq({1})
      BY <2>1
    <3>2. IsSeq(tasks)
      BY <3>1, SeqOfAny
    <3> QED BY <2>1, <3>2
  <2>3. todo' = tasks \o Tail(todo)
    BY <1>4, <2>1 DEF Work
  <2> QED BY <1>2, <2>2, <2>3, TodoGoesOn
<1> QED BY <1>3, <1>4

(* An array gets its size from its values; it stays resolved. *)
LEMMA CountValuesKeeps ==
  ASSUME IInv, CountValues
  PROVE  IInv'
<1>1. /\ Doing("sized") /\ targets' = WithTarget(Arg, S(Arg).type)
      /\ Work(IF Has(Arg) THEN <<Visit(Value(Arg)), After(Arg)>> ELSE <<After(Arg)>>)
      /\ UNCHANGED <<program, types, blueprints, calls, roots, scope>>
      /\ \E n : tasts' = tasts \/ (Tag(S(Arg).type) = "array" /\ tasts' = [tasts EXCEPT ![S(Arg).type].size = n])
  BY DEF CountValues, unchangedTypes
<1>2. Arg \in DOMAIN program.body /\ program \in Programs
  BY <1>1, AtWork DEF StmtTasks
<1>3. PICK t : t = S(Arg).type
  OBVIOUS
<1>4. t \in Loose
  BY <1>2, <1>3, Mentions
<1>5. /\ TypesKept /\ NodesKept /\ BlueprintsKept /\ Len(tasts) \in Nat /\ DOMAIN tasts = 1 .. Len(tasts)
      /\ IsSeq(types) /\ IsSeq(tasts) /\ Len(types) = Len(tasts)
  BY Known DEF IInv, TypesKept, NodesKept
<1>6. /\ DOMAIN tasts' = DOMAIN tasts /\ IsSeq(tasts') /\ Len(tasts') = Len(tasts)
      /\ \A u \in DOMAIN tasts :
           /\ tasts'[u].state = tasts[u].state /\ tasts'[u].decl = tasts[u].decl
           /\ "state" \in DOMAIN tasts'[u] /\ "decl" \in DOMAIN tasts'[u]
  <2>1. \A u \in DOMAIN tasts : "state" \in DOMAIN tasts[u] /\ "decl" \in DOMAIN tasts[u]
    BY <1>5 DEF NodesKept
  <2>2. CASE tasts' = tasts
    BY <1>5, <2>1, <2>2
  <2>3. CASE tasts' # tasts
    <3>1. PICK n : Tag(t) = "array" /\ tasts' = [tasts EXCEPT ![t].size = n]
      BY <1>1, <1>3, <2>3
    <3>2. t \in DOMAIN tasts
      <4>1. t # 0
        BY <3>1 DEF Tag
      <4> QED BY <1>2, <1>4, <1>5, <4>1, Trees, Known
    <3>3. \A u \in DOMAIN tasts :
            /\ tasts'[u].state = tasts[u].state /\ tasts'[u].decl = tasts[u].decl
            /\ "state" \in DOMAIN tasts'[u] /\ "decl" \in DOMAIN tasts'[u]
      BY <2>1, <3>1, <3>2
    <3>4. DOMAIN tasts' = DOMAIN tasts
      BY <3>1
    <3>5. IsSeq(tasts') /\ Len(tasts') = Len(tasts)
      <4>1. PICK V : tasts' \in [1 .. Len(tasts) -> V]
        <5>1. tasts' \in [1 .. Len(tasts) -> {tasts'[i] : i \in DOMAIN tasts}]
          BY <1>5, <3>1
        <5> QED BY <5>1
      <4> QED BY <1>5, <4>1, ListIsSeq
    <3> QED BY <3>3, <3>4, <3>5
  <2> QED BY <2>2, <2>3
<1>7. IsSeq(types') /\ Len(types') = Len(tasts') /\ (\A u \in Written : types'[u] = types[u]) /\ Len(tasts) <= Len(tasts')
  BY <1>1, <1>5, <1>6
<1>8. BlueprintsKept'
  BY <1>1, <1>5, BlueprintsStay
<1>9. \A u \in DOMAIN tasts' :
        /\ "state" \in DOMAIN tasts'[u] /\ "decl" \in DOMAIN tasts'[u]
        /\ tasts'[u].decl \in 0 .. Len(blueprints)
  BY <1>5, <1>6 DEF NodesKept
<1>10. NodesKept' /\ CallsKept' /\ ResolvedOnce' /\ Chained' /\ StaysResolved
  BY <1>1, <1>5, <1>6, <1>7, <1>8, <1>9, Extended
<1>11. ScopeKept'
  BY <1>1, <1>5, <1>6 DEF TypesKept, ScopeKept
<1>12. TargetsSafe'
  BY <1>1, <1>2, <1>3, <1>4, <1>10, TargetGiven
<1>13. TodoKept'
  <2>1. CASE Has(Arg)
    BY <1>1, <1>10, <2>1, ValueGoesOn DEF StmtTasks
  <2>2. CASE ~Has(Arg)
    BY <1>1, <1>10, <2>2, NothingGoesOn DEF StmtTasks
  <2> QED BY <2>1, <2>2
<1> QED BY <1>8, <1>10, <1>11, <1>12, <1>13 DEF IInv, TypesKept

(* The value of a return is meant for the type of the result. *)
LEMMA StartReturnKeeps ==
  ASSUME IInv, StartReturn
  PROVE  IInv'
<1>1. /\ Doing("statement") /\ targets' = WithTarget(Arg, Func.result)
      /\ Work(IF Has(Arg) THEN <<Visit(Value(Arg)), After(Arg)>> ELSE <<>>)
      /\ UNCHANGED <<program, types, tasts, blueprints, calls, roots, scope>>
  BY DEF StartReturn, unchangedTypes
<1>2. Arg \in DOMAIN program.body /\ program \in Programs
  BY <1>1, AtWork DEF StmtTasks
<1>3. TypesKept
  BY DEF IInv
<1>4. NodesKept' /\ BlueprintsKept' /\ CallsKept' /\ ResolvedOnce' /\ Chained' /\ StaysResolved
  BY <1>1, <1>3, NothingKnown
<1>5. ScopeKept'
  BY <1>1, <1>3 DEF TypesKept, ScopeKept
<1>6. TargetsSafe'
  BY <1>1, <1>2, <1>4, Mentions, TargetGiven
<1>7. TodoKept'
  <2>1. CASE Has(Arg)
    BY <1>1, <1>4, <2>1, ValueGoesOn DEF StmtTasks
  <2>2. CASE ~Has(Arg)
    BY <1>1, <1>4, <2>2, NothingGoesOn DEF StmtTasks
  <2> QED BY <2>1, <2>2
<1> QED BY <1>4, <1>5, <1>6, <1>7 DEF IInv, TypesKept

(* An expression as a statement. *)
LEMMA StartExprStmtKeeps ==
  ASSUME IInv, StartExprStmt
  PROVE  IInv'
<1>1. /\ Doing("statement") /\ S(Arg).kind = "expr" /\ Work(<<Visit(Value(Arg))>>)
      /\ UNCHANGED <<program, types, tasts, blueprints, calls, roots, scope, targets>>
  BY DEF StartExprStmt, GoesOn, unchangedTypes
<1>2. /\ todo[1][1] = "statement" /\ Arg \in DOMAIN program.body /\ program \in Programs
      /\ IsSeq(Tail(todo))
  BY <1>1, AtWork DEF StmtTasks
<1>3. TypesKept /\ Len(tasts) \in Nat
  BY Known DEF IInv, TypesKept
<1>4. NodesKept' /\ BlueprintsKept' /\ CallsKept' /\ ResolvedOnce' /\ Chained' /\ StaysResolved
  BY <1>1, <1>3, NothingKnown
<1>5. ScopeKept' /\ TargetsSafe'
  BY <1>1, <1>3, <1>4, OthersKept
<1>6. PICK e, x : e = Value(Arg) /\ x = Visit(e)
  OBVIOUS
<1>7. e \in DOMAIN program.exprs
  BY <1>1, <1>2, <1>6, Mentions
<1>8. x[1] = "visit" /\ x[2] = e
  BY <1>6, TaskParts
<1>9. todo'[1] = x /\ Work(<<x>>)
  BY <1>1, <1>2, <1>6, FirstToCome DEF Work
<1>10. InitInWork(1)'
  BY <1>8, <1>9 DEF InitInWork
<1>11. IsTask(x)
  BY <1>7, <1>8 DEF IsTask, ExprTasks
<1>12. \A y : IsTask(y) /\ Precedes(todo[1], y) => Precedes(x, y)
  BY <1>2, <1>8, StmtLeads DEF StmtTasks, ExprTasks
<1>13. TodoKept'
  BY <1>1, <1>4, <1>9, <1>10, <1>11, <1>12, TaskGoesOn
<1> QED BY <1>4, <1>5, <1>13 DEF IInv, TypesKept

(* A return has been checked. *)
LEMMA EndReturnKeeps ==
  ASSUME IInv, EndReturn
  PROVE  IInv'
BY EndsWithout DEF EndReturn, unchangedTypes

(* A variable is declared. *)
LEMMA EndDeclKeeps ==
  ASSUME IInv, EndDecl
  PROVE  IInv'
<1>1. /\ Doing("after") /\ Work(<<>>) /\ DeclareVar(S(Arg).name, S(Arg).type)
      /\ UNCHANGED <<program, types, tasts, blueprints, calls, roots, targets>>
  BY DEF EndDecl, unchangedTypes
<1>2. Arg \in DOMAIN program.body /\ program \in Programs
  BY <1>1, AtWork DEF StmtTasks
<1>3. TypesKept
  BY DEF IInv
<1>4. NodesKept' /\ BlueprintsKept' /\ CallsKept' /\ ResolvedOnce' /\ Chained' /\ StaysResolved
  BY <1>1, <1>3, NothingKnown
<1>5. PICK name, t, v : name = S(Arg).name /\ t = S(Arg).type /\ v = Variable("var", t, nextSlot)
  OBVIOUS
<1>6. t \in 0 .. Len(tasts) /\ v.type = t
  <2>1. t \in Loose
    BY <1>2, <1>5, Mentions
  <2>2. t \in 0 .. Len(program.types)
    BY <1>2, <2>1, Trees
  <2>3. t \in 0 .. Len(tasts)
    BY <1>2, <1>3, <2>2, Known, Trees DEF TypesKept
  <2> QED BY <1>5, <2>3 DEF Variable
<1>7. scope' = IF Again(name) THEN scope ELSE [n \in DOMAIN scope \cup {name} |-> IF n = name THEN v ELSE scope[n]]
  BY <1>1, <1>5 DEF DeclareVar
<1>8. ScopeKept'
  <2>1. ScopeKept
    BY <1>3 DEF TypesKept
  <2>2. CASE Again(name)
    BY <1>1, <1>7, <2>1, <2>2 DEF ScopeKept
  <2>3. CASE ~Again(name)
    <3>1. scope' = [n \in DOMAIN scope \cup {name} |-> IF n = name THEN v ELSE scope[n]]
      BY <1>7, <2>3
    <3>2. /\ DOMAIN scope' = {name} \cup DOMAIN scope
          /\ \A n \in DOMAIN scope' : scope'[n] = v \/ (n \in DOMAIN scope /\ scope'[n] = scope[n])
      BY <3>1
    <3> QED BY <1>1, <1>6, <2>1, <3>2 DEF ScopeKept
  <2> QED BY <2>2, <2>3
<1>9. TargetsSafe'
  <2>1. Len(tasts') \in Nat
    BY <1>1, <1>3, Known DEF TypesKept
  <2>2. ASSUME NEW f \in DOMAIN targets
        PROVE  Safe(targets[f])'
    <3>1. PICK u : u = targets[f]
      OBVIOUS
    <3>2. Safe(u)
      BY <1>3, <3>1 DEF TypesKept, TargetsSafe
    <3>3. Safe(u)'
      BY <1>1, <1>3, <1>4, <3>2, SafeStays DEF TypesKept
    <3> QED BY <1>1, <3>1, <3>3
  <2> QED BY <1>1, <1>3, <2>2 DEF TypesKept, TargetsSafe
<1>10. TodoKept'
  BY <1>1, <1>4, TaskDone
<1> QED BY <1>4, <1>8, <1>9, <1>10 DEF IInv, TypesKept

-----------------------------------------------------------------------------
(* The steps between those of the analysis.                                *)

(* The tasks are those of the body only while it is analysed. *)
LEMMA NoTasks == ASSUME phase' # "bodies" PROVE TodoKept'
BY DEF TodoKept

(* A step that changes nothing that the invariant is about, other than the *)
(* tasks and the phase. *)
LEMMA NothingTyped ==
  ASSUME TypesKept, UNCHANGED <<program, types, tasts, blueprints, scope, calls, roots, targets>>
  PROVE  TypesKept'
<1>1. NodesKept' /\ BlueprintsKept' /\ CallsKept' /\ ResolvedOnce' /\ Chained' /\ StaysResolved
  BY NothingKnown
<1>2. Len(tasts') \in Nat
  BY Known DEF TypesKept
<1>3. ScopeKept' /\ TargetsSafe'
  BY <1>1, <1>2, OthersKept
<1> QED BY <1>1, <1>3 DEF TypesKept

(* The code is generated from what is known. *)
LEMMA GeneratedFrom ==
  ASSUME GenStep
  PROVE  UNCHANGED unchangedAnalysis /\ phase' # "bodies"
<1>1. ASSUME NEW tasks, Before(tasks), phase # "bodies"
      PROVE  UNCHANGED unchangedAnalysis /\ phase' # "bodies"
  BY <1>1 DEF Before
<1>2. ASSUME NEW value, Leave(value), phase # "bodies"
      PROVE  UNCHANGED unchangedAnalysis /\ phase' # "bodies"
  BY <1>2 DEF Leave
<1>3. ASSUME NEW task, Emitting(task)
      PROVE  phase # "bodies"
  BY <1>3 DEF Emitting
<1>4. ASSUME NEW kind, Emitted(kind)
      PROVE  phase # "bodies"
  BY <1>3, <1>4 DEF Emitted
<1>5. CASE StartEmit \/ EndEmit
  BY <1>5 DEF StartEmit, EndEmit
<1>6. CASE EmitExprStmt \/ EmitReturn \/ EmitReturned \/ EmitDecl \/ PlaceMemory \/ PlaceScalar
  BY <1>1, <1>3, <1>6 DEF EmitExprStmt, EmitReturn, EmitReturned, EmitDecl, PlaceMemory, PlaceScalar
<1>7. CASE EmitLiteral \/ EmitVariable \/ EmitFunctionName \/ EmitNoVariable
  BY <1>2, <1>3, <1>7 DEF EmitLiteral, EmitVariable, EmitFunctionName, EmitNoVariable
<1>8. CASE EnterParts \/ EnterCall \/ EnterInit \/ EmitNext \/ StoreElement
  BY <1>1, <1>3, <1>8 DEF EnterParts, EnterCall, EnterInit, EmitNext, StoreElement
<1>9. CASE EnterMethodName
  BY <1>9 DEF EnterMethodName
<1>10. CASE EmitComparison \/ EmitBinary \/ EmitLogical \/ EmitAssignment \/ EmitUnary \/ EmitCall \/ EmitFfi
  BY <1>2, <1>4, <1>10 DEF EmitComparison, EmitBinary, EmitLogical, EmitAssignment, EmitUnary, EmitCall, EmitFfi
<1>11. CASE EmitMember \/ EmitNoMember \/ EmitIndex \/ EmitCast \/ FinishEmit
  BY <1>2, <1>4, <1>11 DEF EmitMember, EmitNoMember, EmitIndex, EmitCast, FinishEmit
<1> QED BY <1>5, <1>6, <1>7, <1>8, <1>9, <1>10, <1>11 DEF GenStep

(* Nothing generated changes a type. *)
LEMMA GenKeeps ==
  ASSUME IInv, GenStep
  PROVE  IInv'
<1>1. UNCHANGED unchangedAnalysis /\ phase' # "bodies"
  BY GeneratedFrom
<1>2. TypesKept'
  BY <1>1, NothingTyped DEF IInv, unchangedAnalysis
<1> QED BY <1>1, <1>2, NoTasks DEF IInv

(* The body has been analysed, or its analysis ends with a panic. *)
LEMMA EndKeeps ==
  ASSUME IInv, EndBodies \/ InitPanics
  PROVE  IInv'
<1>1. UNCHANGED <<program, types, tasts, blueprints, scope, calls, roots, targets>> /\ phase' # "bodies"
  BY DEF EndBodies, InitPanics, typingVars
<1> QED BY <1>1, NothingTyped, NoTasks DEF IInv

(* The phase of the types ends. *)
LEMMA EndTypesKeeps ==
  ASSUME IInv, EndTypes, UNCHANGED typingVars
  PROVE  IInv'
<1>1. UNCHANGED <<program, types, tasts, blueprints, scope, calls, roots, targets>> /\ phase' # "bodies"
  BY DEF EndTypes, typingVars
<1> QED BY <1>1, NothingTyped, NoTasks DEF IInv

(* The types that phase 3 resolves are inside of none. *)
LEMMA NextRootKeeps ==
  ASSUME IInv, NextRoot, UNCHANGED typingVars
  PROVE  IInv'
<1>1. /\ phase' = "types" /\ calls = <<>> /\ roots # <<>> /\ Resolves(Head(roots), <<>>) /\ roots' = Tail(roots)
      /\ UNCHANGED <<program, types, blueprints, scope, targets>>
  BY DEF NextRoot, typingVars
<1>2. TypesKept /\ roots \in Seq(Loose)
  BY DEF IInv, TypesKept, CallsKept
<1>3. PICK t : t = Head(roots)
  OBVIOUS
<1>4. t \in Loose /\ roots' \in Seq(Loose)
  BY <1>1, <1>2, <1>3
<1>5. Safe(t)
  BY <1>4 DEF Safe
<1>6. Resolves(t, <<>>)
  BY <1>1, <1>3
<1>7. TypesKept'
  BY <1>1, <1>2, <1>4, <1>5, <1>6, AsksFor
<1> QED BY <1>1, <1>7, NoTasks DEF IInv

(* Types are resolved while the tasks wait. *)
LEMMA ResolveStepKeeps ==
  ASSUME IInv, ResolveStep, UNCHANGED typingVars
  PROVE  IInv'
<1>1. TypesKept /\ UNCHANGED <<todo, targets>>
  BY DEF IInv, typingVars
<1>2. TypesKept' /\ StaysResolved /\ StaysSettled
  BY <1>1, ResolveKeeps
<1>3. program' = program /\ (phase' = "bodies" => phase = "bodies")
  BY DEF ResolveStep, VisitPart, LeavePrimitive, LeavePointer, LeaveArray, LeaveAggregate, AssertionFails,
         LeaveUnknown, LeavePrototype, Leaves
<1>4. TodoKept'
  BY <1>1, <1>2, <1>3, TodoWaits
<1> QED BY <1>2, <1>4 DEF IInv


(* The offsets of the fields leave their types alone. *)
LEMMA OffsetsKeepFields ==
  ASSUME NEW b, HasFields(b)
  PROVE  HasFields([b EXCEPT !.fields = WithOffsets(@)])
<1>1. PICK fields : fields = b.fields
  OBVIOUS
<1>2. PICK placed : placed = WithOffsets(fields)
  OBVIOUS
<1>3. "fields" \in DOMAIN b /\ IsList(fields) /\ \A i \in DOMAIN fields : fields[i].type \in Loose
  BY <1>1 DEF HasFields
<1>4. DOMAIN placed = DOMAIN fields
  BY <1>2 DEF WithOffsets
<1>5. ASSUME NEW i \in DOMAIN fields
      PROVE  placed[i].type \in Loose
  <2>1. PICK field, at : field = fields[i] /\ at = FieldPlace(fields, i).at
    OBVIOUS
  <2>2. placed[i] = [field EXCEPT !.offset = at]
    BY <1>2, <2>1 DEF WithOffsets
  <2>3. field.type \in Loose
    BY <1>3, <2>1
  <2> QED BY <2>2, <2>3
<1>6. PICK c : c = [b EXCEPT !.fields = placed]
  OBVIOUS
<1>7. "fields" \in DOMAIN c /\ c.fields = placed
  BY <1>3, <1>6
<1>8. HasFields(c)
  BY <1>3, <1>4, <1>5, <1>7 DEF HasFields, IsList
<1>9. c = [b EXCEPT !.fields = WithOffsets(@)]
  BY <1>1, <1>2, <1>6
<1> QED BY <1>8, <1>9

(* Phase 3b computes the offsets. *)
LEMMA OffsetsKeep ==
  ASSUME IInv, ComputeOffsets, UNCHANGED typingVars
  PROVE  IInv'
<1>1. /\ blueprints' = [b \in DOMAIN blueprints |-> [blueprints[b] EXCEPT !.fields = WithOffsets(@)]]
      /\ phase' # "bodies"
      /\ UNCHANGED <<program, types, tasts, scope, calls, roots, targets>>
  BY DEF ComputeOffsets, typingVars
<1>2. TypesKept /\ BlueprintsKept /\ NodesKept
  BY DEF IInv, TypesKept
<1>3. Len(blueprints) \in Nat /\ DOMAIN blueprints = 1 .. Len(blueprints)
  BY <1>2 DEF BlueprintsKept, IsSeq
<1>4. IsSeq(blueprints') /\ Len(blueprints') = Len(blueprints)
  <2>1. PICK n : n = Len(blueprints)
    OBVIOUS
  <2>2. PICK V : V = {blueprints'[b] : b \in 1 .. n}
    OBVIOUS
  <2>3. n \in Nat /\ blueprints' \in [1 .. n -> V]
    BY <1>1, <1>3, <2>1, <2>2
  <2> QED BY <2>1, <2>3, ListIsSeq
<1>5. BlueprintsKept'
  <2>1. ASSUME NEW b \in DOMAIN blueprints'
        PROVE  HasFields(blueprints'[b])
    <3>1. b \in DOMAIN blueprints /\ blueprints'[b] = [blueprints[b] EXCEPT !.fields = WithOffsets(@)]
      BY <1>1
    <3>2. HasFields(blueprints[b])
      BY <1>2, <3>1 DEF BlueprintsKept
    <3> QED BY <3>1, <3>2, OffsetsKeepFields
  <2>2. Loose' = Loose
    BY <1>1 DEF Loose
  <2> QED BY <1>1, <1>2, <1>4, <2>1, <2>2 DEF BlueprintsKept, HasFields
<1>6. NodesKept' /\ CallsKept' /\ ResolvedOnce' /\ Chained' /\ StaysResolved
  <2>1. /\ IsSeq(types') /\ IsSeq(tasts') /\ Len(types') = Len(tasts') /\ Len(tasts) <= Len(tasts')
        /\ \A t \in Written : types'[t] = types[t]
        /\ \A t \in DOMAIN tasts : tasts'[t].state = tasts[t].state
        /\ \A t \in DOMAIN tasts' : t \in DOMAIN tasts \/ tasts'[t].state # "RESOLVING"
        /\ \A t \in DOMAIN tasts' :
             /\ "state" \in DOMAIN tasts'[t] /\ "decl" \in DOMAIN tasts'[t]
             /\ tasts'[t].decl \in 0 .. Len(blueprints)
        /\ UNCHANGED <<program, calls, roots>>
    BY <1>1, <1>2, Known DEF NodesKept
  <2> QED BY <1>2, <1>4, <1>5, <2>1, Extended
<1>7. ScopeKept' /\ TargetsSafe'
  <2>1. Len(tasts') \in Nat
    BY <1>1, <1>2, Known
  <2> QED BY <1>1, <1>2, <1>6, <2>1, OthersKept
<1>8. TypesKept'
  BY <1>5, <1>6, <1>7 DEF TypesKept
<1> QED BY <1>1, <1>8, NoTasks DEF IInv

(* Every step of phase 3. *)
LEMMA TypesNextKeeps ==
  ASSUME IInv, TypesNext, UNCHANGED typingVars
  PROVE  IInv'
BY ResolveStepKeeps, NextRootKeeps, EndTypesKeeps, OffsetsKeep DEF TypesNext

(* The type of self is resolved at once, and stands for the blueprint of   *)
(* the method. *)
LEMMA MakeSelfKeeps ==
  ASSUME IInv, MakeSelf
  PROVE  IInv'
<1>1. PICK b, node, r :
        /\ b = program.method[1]
        /\ node = [NewType("blueprint", "", <<>>) EXCEPT !.name = blueprints[b].name]
        /\ r = [state |-> "RESOLVED", size |-> 8, align |-> 8, repr |-> "l", fixed |-> 0, decl |-> b]
  OBVIOUS
<1>2. /\ HasSelf /\ phase' # "bodies"
      /\ types' = Append(types, node) /\ tasts' = Append(tasts, r)
      /\ UNCHANGED <<program, blueprints, calls, roots, scope, targets>>
  BY <1>1 DEF MakeSelf, unchangedTypes, typingVars
<1>3. TypesKept /\ NodesKept /\ BlueprintsKept /\ program \in Programs
  BY DEF IInv, TypesKept, NodesKept
<1>4. IsSeq(types) /\ IsSeq(tasts)
  BY <1>3 DEF NodesKept
<1>5. b \in 0 .. Len(blueprints)
  <2>1. b \in DOMAIN program.blueprints
    BY <1>1, <1>2, <1>3, Parameters
  <2>2. program.blueprints \in Seq(BlueprintDecl)
    BY <1>3, TypesAssumption
  <2>3. Len(program.blueprints) <= Len(blueprints) /\ Len(blueprints) \in Nat
    BY <1>3 DEF BlueprintsKept, IsSeq
  <2> QED BY <2>1, <2>2, <2>3
<1>6. PICK nodes, more : nodes = <<node>> /\ more = <<r>>
  OBVIOUS
<1>7. IsSeq(nodes) /\ IsSeq(more) /\ Len(more) = Len(nodes)
  <2>1. nodes \in Seq({node}) /\ more \in Seq({r})
    BY <1>6
  <2> QED BY <1>6, <2>1, SeqOfAny
<1>8. types' = types \o nodes /\ tasts' = tasts \o more
  <2>1. PICK R : types \in Seq(R) /\ nodes \in Seq(R)
    BY <1>4, <1>7, CommonSet
  <2>2. PICK Q : tasts \in Seq(Q) /\ more \in Seq(Q)
    BY <1>4, <1>7, CommonSet
  <2>3. Append(types, node) = types \o <<node>>
    BY <2>1, <1>6
  <2>4. Append(tasts, r) = tasts \o <<r>>
    BY <2>2, <1>6
  <2> QED BY <1>2, <1>6, <2>3, <2>4
<1>9. \A i \in DOMAIN more :
        /\ more[i].state # "RESOLVING" /\ "state" \in DOMAIN more[i] /\ "decl" \in DOMAIN more[i]
        /\ more[i].decl \in 0 .. Len(blueprints)
  <2>1. \A i \in DOMAIN more : more[i] = r
    BY <1>6
  <2>2. r.state # "RESOLVING" /\ "state" \in DOMAIN r /\ "decl" \in DOMAIN r /\ r.decl = b
    BY <1>1
  <2> QED BY <1>5, <2>1, <2>2
<1>10. TypesKept'
  BY <1>2, <1>3, <1>7, <1>8, <1>9, Grown
<1> QED BY <1>2, <1>10, NoTasks DEF IInv


(* The parameters are given their slots, and the body is to be analysed. *)
LEMMA EnterFunctionKeeps ==
  ASSUME IInv, EnterFunction
  PROVE  IInv'
<1>1. /\ HasSelf => SelfType \in DOMAIN types
      /\ todo' = [s \in DOMAIN program.body |-> Statement(s)]
      /\ UNCHANGED <<program, types, tasts, blueprints, calls, roots, targets>>
  BY DEF EnterFunction
<1>2. TypesKept /\ NodesKept /\ program \in Programs
  BY DEF IInv, TypesKept, NodesKept
<1>3. NodesKept' /\ BlueprintsKept' /\ CallsKept' /\ ResolvedOnce' /\ Chained' /\ StaysResolved
  BY <1>1, <1>2, NothingKnown
<1>4. ScopeKept'
  <2>1. PICK ps, names : ps = Params /\ names = {ps[i].name : i \in DOMAIN ps}
    OBVIOUS
  <2>2. DOMAIN ps = DOMAIN Func.params /\ IsSeq(Func.params)
    BY <2>1, <1>2, Parameters DEF Params
  <2>3. DOMAIN ps \subseteq Nat
    BY <2>2 DEF IsSeq
  <2>4. ASSUME NEW i \in DOMAIN ps
        PROVE  ps[i].type \in 0 .. Len(tasts)
    <3>1. PICK p : p = Func.params[i]
      OBVIOUS
    <3>2. p \in Param /\ p.type \in Loose
      BY <2>2, <3>1, <1>2, Parameters
    <3>3. ps[i] = [p EXCEPT !.type = IF p.type = 0 THEN SelfType ELSE p.type]
      BY <2>1, <2>2, <3>1 DEF Params
    <3>4. ps[i].type = IF p.type = 0 THEN SelfType ELSE p.type
      BY <3>2, <3>3 DEF Param
    <3>5. CASE p.type = 0
      <4>1. HasSelf
        BY <2>2, <3>1, <3>5 DEF HasSelf
      <4>2. ps[i].type \in DOMAIN types
        BY <1>1, <3>4, <3>5, <4>1
      <4> QED BY <1>2, <4>2, Known
    <3>6. CASE p.type # 0
      <4>1. p.type \in 0 .. Len(program.types) /\ Len(program.types) \in Nat
        BY <1>2, <3>2, Trees
      <4>2. Len(program.types) <= Len(tasts) /\ Len(tasts) \in Nat
        BY <1>2, Known
      <4>3. ps[i].type = p.type
        BY <3>4, <3>6
      <4> QED BY ONLY <4>1, <4>2, <4>3
    <3> QED BY <3>5, <3>6
  <2> DEFINE First(name) == Min({i \in DOMAIN ps : ps[i].name = name})
             SlotAt(i) == FoldLeft(LAMBDA n, p : n + SlotsOf(p.type), 0, SubSeq(ps, 1, i - 1))
  <2>5. scope' = [name \in names |-> Variable("param", ps[First(name)].type, SlotAt(First(name)))]
    BY <2>1 DEF EnterFunction
  <2> HIDE DEF SlotAt
  <2>6. ASSUME NEW name \in names
        PROVE  scope'[name].type \in 0 .. Len(tasts)
    <3>1. PICK V : V = {i \in DOMAIN ps : ps[i].name = name}
      OBVIOUS
    <3>2. V \subseteq Nat /\ V # {}
      BY <2>1, <2>3, <3>1
    <3>3. Min(V) \in V
      BY <3>2, LeastIsOne
    <3>4. First(name) \in DOMAIN ps
      BY <3>1, <3>3
    <3> HIDE DEF First
    <3>5. scope'[name] = Variable("param", ps[First(name)].type, SlotAt(First(name)))
      BY <2>5
    <3>6. scope'[name].type = ps[First(name)].type
      BY <3>5 DEF Variable
    <3> QED BY <2>4, <3>4, <3>6
  <2> HIDE DEF First
  <2>7. DOMAIN scope' = names
    BY <2>5
  <2> QED BY <1>1, <2>6, <2>7 DEF ScopeKept
<1>5. TargetsSafe'
  <2>1. Len(tasts') \in Nat
    BY <1>1, <1>2, Known
  <2>2. ASSUME NEW e \in DOMAIN targets
        PROVE  Safe(targets[e])'
    <3>1. PICK u : u = targets[e]
      OBVIOUS
    <3>2. Safe(u)
      BY <1>2, <3>1 DEF TypesKept, TargetsSafe
    <3>3. Safe(u)'
      BY <1>1, <1>2, <1>3, <3>2, SafeStays
    <3> QED BY <1>1, <3>1, <3>3
  <2> QED BY <1>1, <1>2, <2>2 DEF TypesKept, TargetsSafe
<1>6. TodoKept'
  <2>1. PICK n : n = Len(program.body)
    OBVIOUS
  <2>2. n \in Nat /\ DOMAIN program.body = 1 .. n
    BY <1>2, <2>1, Mentions DEF IsSeq
  <2>3. PICK V : V = {Statement(s) : s \in 1 .. n}
    OBVIOUS
  <2>4. todo' \in [1 .. n -> V]
    BY <1>1, <2>2, <2>3
  <2>5. IsSeq(todo') /\ DOMAIN todo' = 1 .. n
    BY <2>2, <2>4, ListIsSeq
  <2>6. ASSUME NEW i \in 1 .. n
        PROVE  todo'[i][1] = "statement" /\ todo'[i][2] = i
    BY <1>1, <2>2, TaskParts
  <2>7. ASSUME NEW i \in DOMAIN todo'
        PROVE  IsTask(todo[i])' /\ InitInWork(i)'
    BY <1>1, <2>2, <2>5, <2>6 DEF IsTask, InitInWork, StmtTasks
  <2>8. ASSUME NEW i \in DOMAIN todo', NEW j \in DOMAIN todo', i < j
        PROVE  Precedes(todo[i], todo[j])'
    BY <2>5, <2>6 DEF Precedes, ExprTasks
  <2> QED BY <2>5, <2>7, <2>8 DEF TodoKept
<1> QED BY <1>3, <1>4, <1>5, <1>6 DEF IInv, TypesKept

-----------------------------------------------------------------------------
(* The theorem.                                                            *)

(* A step of the analysis of the body. *)
LEMMA TypingStepKeeps ==
  ASSUME IInv, TypingStep
  PROVE  IInv'
<1>1. CASE MakeSelf \/ EnterFunction
  BY <1>1, MakeSelfKeeps, EnterFunctionKeeps
<1>2. CASE StartDecl \/ CountValues \/ EndDecl \/ StartReturn \/ EndReturn \/ StartExprStmt
  BY <1>2, StartDeclKeeps, CountValuesKeeps, EndDeclKeeps, StartReturnKeeps, EndReturnKeeps, StartExprStmtKeeps
<1>3. CASE VisitLiteral \/ VisitIdent \/ VisitInit \/ VisitOther \/ VisitNext
  BY <1>3, VisitLiteralKeeps, VisitIdentKeeps, VisitInitKeeps, VisitOtherKeeps, VisitNextKeeps
<1>4. CASE GiveUp \/ FinishFfi
  BY <1>4, GiveUpKeeps
<1>5. CASE FinishBinary \/ FinishUnary \/ FinishCall \/ FinishMember \/ FinishIndex \/ FinishCast \/ FinishInit
  BY <1>5, FinishBinaryKeeps, FinishUnaryKeeps, FinishCallKeeps, FinishMemberKeeps, FinishIndexKeeps,
     FinishCastKeeps, FinishInitKeeps
<1>6. CASE EndBodies \/ InitPanics
  BY <1>6, EndKeeps
<1> QED BY <1>1, <1>2, <1>3, <1>4, <1>5, <1>6 DEF TypingStep

(* The compilation begins with the types of the parser, none resolved. *)
LEMMA InitKept == ASSUME Init PROVE IInv
<1>1. /\ program \in Programs /\ types = program.types /\ tasts = [t \in DOMAIN types |-> Unresolved]
      /\ calls = <<>> /\ roots = AllRoots(program) /\ phase = "types" /\ DOMAIN scope = {}
      /\ targets = [e \in DOMAIN program.exprs |-> 0]
  BY DEF Init, TypesInit, TypingInit
<1>2. PICK n : n = Len(types)
  OBVIOUS
<1>3. n \in Nat /\ DOMAIN types = 1 .. n /\ IsSeq(types)
  <2>1. program.types \in Seq(Type)
    BY <1>1, TypesAssumption
  <2> QED BY <1>1, <1>2, <2>1, SeqOfAny
<1>4. IsSeq(tasts) /\ Len(tasts) = n /\ DOMAIN tasts = 1 .. n
  <2>1. tasts \in [1 .. n -> {Unresolved}]
    BY <1>1, <1>3
  <2>2. IsSeq(tasts) /\ Len(tasts) = n
    BY <1>3, <2>1, ListIsSeq
  <2> QED BY <2>1, <2>2
<1>5. \A t \in DOMAIN tasts :
        /\ "state" \in DOMAIN tasts[t] /\ "decl" \in DOMAIN tasts[t]
        /\ tasts[t].state = "UNRESOLVED" /\ tasts[t].decl = 0
  <2>1. \A t \in DOMAIN tasts : tasts[t] = Unresolved
    BY <1>1
  <2>2. PICK r : r = Unresolved
    OBVIOUS
  <2>3. "state" \in DOMAIN r /\ "decl" \in DOMAIN r /\ r.state = "UNRESOLVED" /\ r.decl = 0
    BY <2>2 DEF Unresolved
  <2> QED BY <2>1, <2>2, <2>3
<1>6. BlueprintsKept
  <2>1. PICK k : k = Len(program.blueprints)
    OBVIOUS
  <2>2. program.blueprints \in Seq(BlueprintDecl)
    BY <1>1, TypesAssumption
  <2>3. k \in Nat /\ DOMAIN program.blueprints = 1 .. k
    BY <2>1, <2>2
  <2> DEFINE WithOffset(f) == [name |-> f.name, type |-> f.type, offset |-> 0]
             WithFields(b) == [b EXCEPT !.fields = [i \in DOMAIN @ |-> WithOffset(@[i])]]
  <2>4. blueprints = [b \in DOMAIN program.blueprints |-> WithFields(program.blueprints[b])]
    BY DEF Init, TypesInit
  <2>5. ASSUME NEW b \in 1 .. k
        PROVE  HasFields(blueprints[b])
    <3>1. PICK d, fields : d = program.blueprints[b] /\ fields = d.fields
      OBVIOUS
    <3>2. d \in BlueprintDecl
      BY <2>2, <2>3, <3>1
    <3>3. "fields" \in DOMAIN d /\ fields \in Seq(FieldDecl)
      BY <3>1, <3>2 DEF BlueprintDecl
    <3>4. \A i \in DOMAIN fields : fields[i].type \in Loose
      BY <1>1, <2>3, <3>1, TreesAssumption DEF Loose
    <3>5. PICK placed : placed = [i \in DOMAIN fields |-> WithOffset(fields[i])]
      OBVIOUS
    <3>6. blueprints[b] = [d EXCEPT !.fields = placed]
      BY <2>3, <2>4, <3>1, <3>5
    <3>7. blueprints[b].fields = placed /\ "fields" \in DOMAIN blueprints[b]
      BY <3>3, <3>6
    <3>8. DOMAIN placed = DOMAIN fields /\ \A i \in DOMAIN placed : placed[i].type = fields[i].type
      BY <3>5
    <3>9. IsList(placed)
      <4>1. Len(fields) \in Nat /\ DOMAIN fields = 1 .. Len(fields)
        BY <3>3
      <4> QED BY <3>8, <4>1 DEF IsList
    <3> QED BY <3>4, <3>7, <3>8, <3>9 DEF HasFields
  <2>6. DOMAIN blueprints = 1 .. k
    BY <2>3, <2>4
  <2>7. IsSeq(blueprints) /\ Len(blueprints) = k
    <3>1. PICK V : V = {blueprints[b] : b \in 1 .. k}
      OBVIOUS
    <3>2. blueprints \in [1 .. k -> V]
      BY <2>4, <2>6, <3>1
    <3> QED BY <2>3, <3>2, ListIsSeq
  <2> QED BY <2>1, <2>3, <2>5, <2>6, <2>7 DEF BlueprintsKept
<1>7. NodesKept
  <2>1. Len(blueprints) \in Nat
    BY <1>6 DEF BlueprintsKept, IsSeq
  <2> QED BY <1>1, <1>2, <1>3, <1>4, <1>5, <2>1 DEF NodesKept, Written
<1>8. ScopeKept /\ CallsKept /\ Chained
  <2>1. calls \in Seq(Call) /\ DOMAIN calls = {}
    BY <1>1
  <2>2. roots \in Seq(Loose)
    BY <1>1, Mentions
  <2> QED BY <1>1, <2>1, <2>2 DEF ScopeKept, CallsKept, Chained
<1>9. ResolvedOnce
  <2>1. DOMAIN calls = {}
    BY <1>1
  <2> QED BY <1>5, <2>1 DEF ResolvedOnce, IsResolving
<1>10. TargetsSafe
  <2>1. 0 \in Loose /\ 0 \in 0 .. Len(program.types)
    BY <1>1, Trees
  <2>2. Safe(0)
    BY <2>1 DEF Safe
  <2> QED BY <1>1, <2>1, <2>2 DEF TargetsSafe
<1>11. TodoKept
  BY <1>1 DEF TodoKept
<1> QED BY <1>6, <1>7, <1>8, <1>9, <1>10, <1>11 DEF IInv, TypesKept

(* The recursion of _resolve_type enters every type at most once, for      *)
(* every program: a type is in progress exactly while a call for it is.    *)
THEOREM NeverResolvedTwice == Spec => []ResolvedOnce
<1>1. Init => IInv
  BY InitKept
<1>2. IInv /\ [Next]_vars => IInv'
  <2> SUFFICES ASSUME IInv, [Next]_vars PROVE IInv'
    OBVIOUS
  <2>1. CASE TypesNext /\ UNCHANGED typingVars
    BY <2>1, TypesNextKeeps
  <2>2. CASE TypingStep
    BY <2>2, TypingStepKeeps
  <2>3. CASE GenStep
    BY <2>3, GenKeeps
  <2>4. CASE UNCHANGED vars
    <3>1. UNCHANGED <<program, types, tasts, blueprints, scope, calls, roots, targets, todo, phase>>
      BY <2>4 DEF vars, typeVars, typingVars
    <3>2. TypesKept'
      BY <3>1, NothingTyped DEF IInv
    <3>3. TodoKept'
      BY <3>1 DEF IInv, TodoKept, IsTask, InitInWork, AwaitsType, IsResolved, Kind, E
    <3> QED BY <3>2, <3>3 DEF IInv
  <2> QED BY <2>1, <2>2, <2>3, <2>4 DEF Next, TypingNext, Ended
<1>3. IInv => ResolvedOnce
  BY DEF IInv, TypesKept
<1> QED BY <1>1, <1>2, <1>3, PTL DEF Spec

=============================================================================
