------------------------------- MODULE Typing -------------------------------
(***************************************************************************)
(* Phase 4 of the analysis, where types decide: the declarations, returns  *)
(* and expressions of one function or method of the program                *)
(* (iira/source/ii_semantic_stmt.c, ii_semantic_expr.c, and the rules for  *)
(* matching types in ii_semantic_types.c).  The statements around them and *)
(* the scopes are the subject of Bodies: here the body is a list, with one *)
(* scope for its parameters and variables.                                 *)
(*                                                                         *)
(* The analysis of an expression gives it a TastExpr or none at all.  An   *)
(* expression that is given up takes those around it with it, but the code *)
(* does not always report it.                                              *)
(***************************************************************************)
EXTENDS Types

Arithmetic == {"+", "-", "*", "/", "%"}
Ordering == {"<", ">", "<=", ">="}
Equality == {"==", "!="}
Logical == {"&&", "||"}
BitOps == {"&", "|", "^"}
Assignment == {"=", "+=", "-=", "*=", "/="}

(* parts are the expressions inside, those of a call with the callee first.*)
(* A cast and the values of an aggregate have a type; the latter get it.   *)
(* An aggregate has either values, or names or indices (which are integer  *)
(* literals) to go with them.                                              *)
Expr ==
  [kind : {"literal", "ident", "binary", "unary", "call", "member", "index", "init", "cast", "ffi"},
   op : Arithmetic \cup Ordering \cup Equality \cup Logical \cup BitOps \cup Assignment
          \cup {"!", "~", "", "int", "float", "string", "bool", "char", "null"},
   parts : Seq(Nat), name : STRING, value : Nat, type : Nat, names : Seq(STRING), indices : Seq(Nat)]

Stmt == [kind : {"decl", "expr", "return"}, name : STRING, type : Nat, expr : Seq(Nat)]

(* method is empty, or the numbers of a blueprint, a method and an         *)
(* overload; then the body is that of a method, else of the last function. *)
(* The parts of an expression are numbered before it.  The types in        *)
(* statements are not inside of others, and only a method has a self.      *)
ASSUME TypingAssumption ==
  LET programs == Programs
  IN \A p \in programs :
       /\ p.exprs \in Seq(Expr) /\ p.body \in Seq(Stmt) /\ p.funcs # <<>>
       /\ p.method # <<>> =>
            /\ Len(p.method) = 3 /\ p.method[1] \in DOMAIN p.blueprints
            /\ p.method[2] \in DOMAIN p.blueprints[p.method[1]].methods
            /\ p.method[3] \in DOMAIN p.blueprints[p.method[1]].methods[p.method[2]].overloads
       /\ \A f \in DOMAIN p.funcs : \A i \in DOMAIN p.funcs[f].params : p.funcs[f].params[i].type # 0
       /\ \A e \in DOMAIN p.exprs : p.exprs[e].parts \in Seq(1 .. e - 1)
       /\ LET outermost == Outermost(p)
          IN \A s \in DOMAIN p.body :
               /\ p.body[s].type \in outermost
               /\ p.body[s].expr \in Seq(DOMAIN p.exprs)
               /\ p.body[s].kind = "expr" => p.body[s].expr # <<>>

VARIABLES
  texprs,     \* the TastExpr of every expression, and what its name stands for
  targets,    \* target_type, of the values of aggregates
  todo,       \* what the calls in progress have still to do
  last,       \* whether the last expression has a TastExpr
  nextSlot

typingVars == <<texprs, targets, todo, last, nextSlot>>

-----------------------------------------------------------------------------
(* Expressions, types and the scope.                                       *)

E(e) == program.exprs[e]
Kind(e) == E(e).kind
IsLiteral(e, op) == Kind(e) = "literal" /\ E(e).op = op
IsZero(e) == IsLiteral(e, "int") /\ E(e).value = 0
IsNull(e) == IsLiteral(e, "null")

NoSymbol == [kind |-> "none", type |-> 0, slot |-> 0]
Untyped == [typed |-> FALSE, type |-> 0, lvalue |-> FALSE, symbol |-> NoSymbol]
Typed(type, lvalue) == [typed |-> TRUE, type |-> type, lvalue |-> lvalue, symbol |-> NoSymbol]

TypeOf(e) == texprs[e].type
Tag(t) == IF t = 0 THEN "" ELSE types[t].tag
Prim(t) == IF Tag(t) = "primitive" THEN types[t].prim ELSE ""
Inner(t) == types[t].inner[1]

IsNumeric(t) == Prim(t) \in {"int", "long", "short", "float", "double"}
IsInteger(t) == Prim(t) \in {"int", "long", "short", "char"}
IsInt(t) == Prim(t) \in {"int", "long", "short"}
IsFloat(t) == Prim(t) \in {"float", "double"}
IsBool(t) == Prim(t) = "bool"
IsPointer(t) == Tag(t) = "pointer"
IsVoidPointer(t) == IsPointer(t) /\ Prim(Inner(t)) = "void"

InMethod == program.method # <<>>

Func ==
  IF InMethod
    THEN program.blueprints[program.method[1]].methods[program.method[2]].overloads[program.method[3]]
    ELSE program.funcs[Len(program.funcs)]

(* The type of self is left out, and made before its slot is given out.    *)
HasSelf == \E i \in DOMAIN Func.params : Func.params[i].type = 0
SelfType == Len(program.types) + 1
Params ==
  [i \in DOMAIN Func.params |-> [Func.params[i] EXCEPT !.type = IF @ = 0 THEN SelfType ELSE @]]

FuncNamed(name) == {f \in DOMAIN program.funcs : program.funcs[f].name = name}

Lookup(name) ==
  CASE name \in DOMAIN scope -> scope[name]
    [] name \notin DOMAIN scope /\ FuncNamed(name) # {} ->
         [kind |-> "func", type |-> program.funcs[Min(FuncNamed(name))].result, slot |-> 0]
    [] name \notin DOMAIN scope /\ FuncNamed(name) = {} /\ Named(name) # {} ->
         [kind |-> "blueprint", type |-> 0, slot |-> 0]
    [] OTHER -> NoSymbol

-----------------------------------------------------------------------------
(* Which types match, and which values are taken for another type.         *)

(* Primitive types that match although they are not the same.              *)
Alike == {{"int", "long"}, {"int", "double"}, {"int", "short"}, {"float", "double"}}

TypesMatch[a \in 0 .. Len(types), b \in 0 .. Len(types)] ==
  IF a = 0 \/ b = 0 THEN a = b
  ELSE
    /\ Tag(a) = Tag(b)
    /\ CASE Tag(a) = "primitive" -> Prim(a) = Prim(b) \/ {Prim(a), Prim(b)} \in Alike
         [] Tag(a) = "pointer" ->
              IsVoidPointer(a) \/ IsVoidPointer(b) \/ TypesMatch[Inner(a), Inner(b)]
         [] Tag(a) = "array" ->
              TypesMatch[Inner(a), Inner(b)] /\ tasts[a].fixed = tasts[b].fixed
         [] Tag(a) = "blueprint" -> tasts[a].decl = tasts[b].decl
         [] Tag(a) = "anon" -> Len(types[a].inner) = Len(types[b].inner)

CoercesNumeric(target, source) == IsFloat(target) /\ IsInt(source)

TakenFor(target, source) == TypesMatch[source, target] \/ CoercesNumeric(target, source)

(* A value for a variable of its own, or one that is returned.             *)
CoercesExpr(target, source, e) ==
  /\ target # 0 /\ source # 0
  /\ \/ CoercesNumeric(target, source)
     \/ IsPointer(target) /\ (IsZero(e) \/ IsNull(e))
     \/ /\ Tag(target) = "blueprint" /\ tasts[target].decl # 0
        /\ LET fields == FieldsOf(target)
           IN Len(fields) = 1 /\ TypesMatch[fields[1].type, source]

(* Any value is compared with zero and with null.                          *)
CoercesEqual(left, right) ==
  /\ TypeOf(left) # 0 /\ TypeOf(right) # 0
  /\ \/ TypesMatch[TypeOf(left), TypeOf(right)]
     \/ \E e \in {left, right} : IsZero(e) \/ IsNull(e)

-----------------------------------------------------------------------------
(* Tasks.                                                                  *)

Statement(s) == <<"statement", s>>
Sized(s) == <<"sized", s>>
After(s) == <<"after", s>>
Visit(e) == <<"visit", e>>
Rest(e, i) == <<"rest", e, i>>

(* No task goes on before the types it asked for are resolved.             *)
Doing(task) == phase = "bodies" /\ calls = <<>> /\ todo # <<>> /\ Head(todo)[1] = task
Arg == Head(todo)[2]
At == Head(todo)[3]
Work(tasks) == todo' = tasks \o Tail(todo)

Report(what) == errors' = Append(errors, what)

unchangedTypes == <<program, phase, blueprints, calls, roots>>

(* The end of an expression with the type t, ...                           *)
Gets(e, tast) ==
  /\ texprs' = [texprs EXCEPT ![e] = tast]
  /\ last' = TRUE
  /\ Work(<<>>)
  /\ UNCHANGED <<unchangedTypes, scope, targets, nextSlot, errors>>

GetsType(e, t, lvalue) == Gets(e, Typed(t, lvalue)) /\ UNCHANGED <<types, tasts>>

(* ... with new types, of which the last is its own, ...                   *)
NewType(tag, prim, inner) ==
  [tag |-> tag, prim |-> prim, inner |-> inner, count |-> NoSize, name |-> ""]

NewPrim(prim) == NewType("primitive", prim, <<>>)

GetsNew(e, nodes) ==
  /\ types' = types \o nodes
  /\ tasts' = tasts \o [i \in DOMAIN nodes |-> Unresolved]
  /\ Gets(e, Typed(Len(types) + Len(nodes), FALSE))

(* ... or none.                                                            *)
GetsNone(reports) ==
  /\ errors' = errors \o reports
  /\ last' = FALSE
  /\ Work(<<>>)
  /\ UNCHANGED <<unchangedTypes, types, tasts, scope, texprs, targets, nextSlot>>

Refused == GetsNone(<<"refused">>)
GivenUp == GetsNone(<<>>)

(* More to do first.                                                       *)
GoesOn(tasks) ==
  /\ Work(tasks)
  /\ UNCHANGED <<unchangedTypes, types, tasts, scope, texprs, targets, nextSlot, errors>>

-----------------------------------------------------------------------------
(* Statements.                                                             *)

(* The slots of a variable; one without a size takes one.                  *)
SlotsOf(t) == IF tasts[t].size = 0 THEN 1 ELSE (tasts[t].size + 7) \div 8

Variable(kind, type, slot) == [kind |-> kind, type |-> type, slot |-> slot]

(* self is a blueprint of eight bytes: a pointer to the object.            *)
MakeSelf ==
  /\ phase = "params" /\ HasSelf /\ SelfType \notin DOMAIN types
  /\ LET b == program.method[1]
     IN /\ types' = Append(types, [NewType("blueprint", "", <<>>) EXCEPT !.name = blueprints[b].name])
        /\ tasts' = Append(tasts, [state |-> "RESOLVED", size |-> 8, align |-> 8, repr |-> "l", fixed |-> 0, decl |-> b])
  /\ UNCHANGED <<unchangedTypes, scope, errors, typingVars>>

EnterFunction ==
  /\ phase = "params" /\ (HasSelf => SelfType \in DOMAIN types)
  /\ LET ps == Params
         SlotAt(i) == FoldLeft(LAMBDA n, p : n + SlotsOf(p.type), 0, SubSeq(ps, 1, i - 1))
         First(name) == Min({i \in DOMAIN ps : ps[i].name = name})
     IN /\ scope' = [name \in {ps[i].name : i \in DOMAIN ps} |->
                       Variable("param", ps[First(name)].type, SlotAt(First(name)))]
        /\ errors' = IF \A i \in DOMAIN ps : First(ps[i].name) = i THEN errors ELSE Append(errors, "duplicate")
        /\ nextSlot' = SlotAt(Len(ps) + 1)
  /\ todo' = [s \in DOMAIN program.body |-> Statement(s)]
  /\ phase' = "bodies"
  /\ UNCHANGED <<program, types, tasts, blueprints, calls, roots, texprs, targets, last>>

S(s) == program.body[s]
Has(s) == S(s).expr # <<>>
Value(s) == S(s).expr[1]

(* The type of a statement's value is that of the aggregate it may be.     *)
WithTarget(s, t) ==
  IF Has(s) /\ Kind(Value(s)) = "init" THEN [targets EXCEPT ![Value(s)] = t] ELSE targets

StartDecl ==
  /\ Doing("statement") /\ S(Arg).kind = "decl"
  /\ Resolves(S(Arg).type, <<>>)
  /\ Work(<<Sized(Arg)>>)
  /\ UNCHANGED <<program, phase, types, blueprints, scope, roots, errors, texprs, targets, last, nextSlot>>

(* An array without a size takes that of its values.                       *)
CountValues ==
  /\ Doing("sized")
  /\ LET t == S(Arg).type
         open == Tag(t) = "array" /\ types[t].count = NoSize
         values == Has(Arg) /\ Kind(Value(Arg)) = "init" /\ E(Value(Arg)).names = <<>> /\ E(Value(Arg)).indices = <<>>
         n == IF values THEN Len(E(Value(Arg)).parts) ELSE 0
     IN /\ tasts' = IF open /\ n > 0 THEN [tasts EXCEPT ![t].size = n * tasts[Inner(t)].size] ELSE tasts
        /\ errors' = IF open /\ ~Has(Arg) THEN Append(errors, "array size") ELSE errors
        /\ targets' = WithTarget(Arg, t)
  /\ Work(IF Has(Arg) THEN <<Visit(Value(Arg)), After(Arg)>> ELSE <<After(Arg)>>)
  /\ UNCHANGED <<unchangedTypes, types, scope, texprs, last, nextSlot>>

Suits(t, e) ==
  texprs[e].typed => TypesMatch[t, TypeOf(e)] \/ CoercesExpr(t, TypeOf(e), e)

(* The variables are in a scope inside that of the parameters.             *)
Again(name) == name \in DOMAIN scope /\ scope[name].kind = "var"

(* A new variable, with its slots.                                         *)
DeclareVar(name, t) ==
  /\ scope' = IF Again(name) THEN scope
               ELSE [n \in DOMAIN scope \cup {name} |-> IF n = name THEN Variable("var", t, nextSlot) ELSE scope[n]]
  /\ nextSlot' = nextSlot + SlotsOf(t)

EndDecl ==
  /\ Doing("after") /\ S(Arg).kind = "decl"
  /\ errors' = errors
       \o (IF Has(Arg) /\ ~Suits(S(Arg).type, Value(Arg)) THEN <<"type mismatch">> ELSE <<>>)
       \o (IF Again(S(Arg).name) THEN <<"duplicate">> ELSE <<>>)
  /\ DeclareVar(S(Arg).name, S(Arg).type)
  /\ Work(<<>>)
  /\ UNCHANGED <<unchangedTypes, types, tasts, texprs, targets, last>>

StartReturn ==
  /\ Doing("statement") /\ S(Arg).kind = "return"
  /\ targets' = WithTarget(Arg, Func.result)
  /\ Work(IF Has(Arg) THEN <<Visit(Value(Arg)), After(Arg)>> ELSE <<>>)
  /\ UNCHANGED <<unchangedTypes, types, tasts, scope, texprs, last, nextSlot, errors>>

EndReturn ==
  /\ Doing("after") /\ S(Arg).kind = "return"
  /\ errors' = IF Suits(Func.result, Value(Arg)) THEN errors ELSE Append(errors, "return type")
  /\ Work(<<>>)
  /\ UNCHANGED <<unchangedTypes, types, tasts, scope, texprs, targets, last, nextSlot>>

StartExprStmt ==
  /\ Doing("statement") /\ S(Arg).kind = "expr"
  /\ GoesOn(<<Visit(Value(Arg))>>)
  /\ last' = last

-----------------------------------------------------------------------------
(* Expressions.                                                            *)

VisitLiteral ==
  /\ Doing("visit") /\ Kind(Arg) = "literal"
  /\ GetsNew(Arg, CASE E(Arg).op = "string" -> <<NewPrim("char"), NewType("array", "", <<Len(types) + 1>>)>>
                    [] E(Arg).op = "null" -> <<NewPrim("void"), NewType("pointer", "", <<Len(types) + 1>>)>>
                    [] OTHER -> <<NewPrim(E(Arg).op)>>)

(* The types of symbols are resolved already.  A parameter is no lvalue.   *)
VisitIdent ==
  /\ Doing("visit") /\ Kind(Arg) = "ident"
  /\ LET symbol == Lookup(E(Arg).name)
     IN IF symbol = NoSymbol
          THEN Refused
          ELSE /\ Gets(Arg, [typed |-> TRUE, type |-> symbol.type, lvalue |-> symbol.kind = "var", symbol |-> symbol])
               /\ UNCHANGED <<types, tasts>>

VisitInit ==
  /\ Doing("visit") /\ Kind(Arg) = "init"
  /\ IF targets[Arg] = 0
       THEN Refused
       ELSE /\ Resolves(targets[Arg], <<>>)
            /\ Work(<<Rest(Arg, 1)>>)
            /\ UNCHANGED <<program, phase, types, blueprints, scope, roots, errors, texprs, targets, last, nextSlot>>

VisitOther ==
  /\ Doing("visit") /\ Kind(Arg) \notin {"literal", "ident", "init"}
  /\ GoesOn(<<Rest(Arg, 1)>>)
  /\ last' = TRUE

(* The values of an aggregate that are looked at: those of an anonymous    *)
(* one are not, nor those named in an array.                               *)
FieldNames(t) == LET fs == FieldsOf(t) IN {fs[i].name : i \in DOMAIN fs}

IsLookedAt(e, i) ==
  LET t == targets[e]
  IN CASE Tag(t) = "array" -> E(e).names = <<>>
       [] Tag(t) = "blueprint" ->
            /\ tasts[t].decl # 0
            /\ E(e).names # <<>> => E(e).names[i] \in FieldNames(t)
            /\ E(e).indices # <<>> => E(e).indices[i] < Len(FieldsOf(t))
       [] OTHER -> FALSE

LooksAt(e, i) == Kind(e) = "init" => IsLookedAt(e, i)

(* The parts from the i-th on at which the analysis looks.                 *)
Ahead(e, i) == {j \in DOMAIN E(e).parts : i <= j /\ LooksAt(e, j)}

(* The expressions given up with the first part that is.                   *)
Strict(e) == Kind(e) \in {"unary", "call", "member", "index", "cast"}
GivesUp == Strict(Arg) /\ ~last
AllSeen == Ahead(Arg, At) = {}

(* A nested aggregate has a type only as the value of an array.            *)
VisitNext ==
  /\ Doing("rest") /\ ~GivesUp /\ ~AllSeen
  /\ LET at == Min(Ahead(Arg, At))
         part == E(Arg).parts[at]
     IN /\ targets' = IF Kind(Arg) = "init" /\ Kind(part) = "init" /\ Tag(targets[Arg]) = "array" /\ E(Arg).indices = <<>>
                        THEN [targets EXCEPT ![part] = Inner(targets[Arg])]
                        ELSE targets
        /\ Work(<<Visit(part), Rest(Arg, at + 1)>>)
  /\ last' = TRUE
  /\ UNCHANGED <<unchangedTypes, types, tasts, scope, texprs, nextSlot, errors>>

GiveUp == Doing("rest") /\ GivesUp /\ GivenUp

Finishing(kind) == Doing("rest") /\ ~GivesUp /\ AllSeen /\ Kind(Arg) = kind
Part(i) == E(Arg).parts[i]

BothAre(Is(_), l, r) == Is(TypeOf(l)) /\ Is(TypeOf(r))

BinaryFits(op, l, r) ==
  LET match == TypesMatch[TypeOf(l), TypeOf(r)]
  IN CASE op \in Arithmetic -> BothAre(IsNumeric, l, r) /\ match
       [] op \in Ordering ->
            /\ BothAre(IsNumeric, l, r)
            /\ \/ match
               \/ IsInt(TypeOf(l)) /\ IsFloat(TypeOf(r))
               \/ IsFloat(TypeOf(l)) /\ IsInt(TypeOf(r))
       [] op \in Equality -> CoercesEqual(l, r)
       [] op \in Logical -> BothAre(IsBool, l, r)
       [] op \in BitOps -> BothAre(IsInteger, l, r) /\ match
       [] op \in Assignment -> texprs[l].lvalue /\ (match \/ CoercesNumeric(TypeOf(l), TypeOf(r)))

FinishBinary ==
  /\ Finishing("binary")
  /\ IF ~texprs[Part(1)].typed \/ ~texprs[Part(2)].typed THEN GivenUp
     ELSE IF ~BinaryFits(E(Arg).op, Part(1), Part(2)) THEN Refused
     ELSE IF E(Arg).op \in Ordering \cup Equality \cup Logical THEN GetsNew(Arg, <<NewPrim("bool")>>)
     ELSE GetsType(Arg, TypeOf(Part(1)), FALSE)

UnaryFits(op, e) ==
  CASE op \in {"-", "+"} -> IsNumeric(TypeOf(e))
    [] op = "!" -> IsBool(TypeOf(e))
    [] op = "~" -> IsInteger(TypeOf(e))
    [] op = "*" -> IsPointer(TypeOf(e))
    [] op = "&" -> texprs[e].lvalue

FinishUnary ==
  /\ Finishing("unary")
  /\ LET t == TypeOf(Part(1))
         op == E(Arg).op
     IN IF ~UnaryFits(op, Part(1)) THEN Refused
        ELSE CASE op = "!" -> GetsNew(Arg, <<NewPrim("bool")>>)
               [] op = "&" -> GetsNew(Arg, <<NewType("pointer", "", <<t>>)>>)
               [] op = "*" -> GetsType(Arg, Inner(t), TRUE)
               [] OTHER -> GetsType(Arg, t, FALSE)

Takes(params, args) ==
  Len(params) = Len(args) /\ \A i \in DOMAIN args : TypesMatch[TypeOf(args[i]), params[i].type]

(* Without the receiver, which the caller does not name.                   *)
ParamsTaken(overload) == IF overload.static THEN overload.params ELSE Tail(overload.params)

(* The functions a callee may stand for.  The slot of a method's symbol is *)
(* its place in the blueprint.                                             *)
Candidates(callee) ==
  LET symbol == texprs[callee].symbol
  IN CASE symbol.kind = "method" -> blueprints[symbol.type].methods[symbol.slot].overloads
       [] symbol.kind = "func" -> <<program.funcs[Min(FuncNamed(E(callee).name))]>>
       [] OTHER -> <<>>

Fitting(callee, args) ==
  LET ps(f) == IF texprs[callee].symbol.kind = "method" THEN ParamsTaken(f) ELSE f.params
  IN SelectSeq(Candidates(callee), LAMBDA f : Takes(ps(f), args))

FinishCall ==
  /\ Finishing("call")
  /\ LET found == IF Kind(Part(1)) \in {"ident", "member"} THEN Fitting(Part(1), Tail(E(Arg).parts)) ELSE <<>>
     IN IF found = <<>> \/ ~found[1].body THEN Refused ELSE GetsType(Arg, found[1].result, FALSE)

FieldNamed(b, name) == {i \in DOMAIN blueprints[b].fields : blueprints[b].fields[i].name = name}
MethodNamed(b, name) == {i \in DOMAIN blueprints[b].methods : blueprints[b].methods[i].name = name}

(* What is reached through a pointer.                                      *)
Reached(t) == IF IsPointer(t) THEN Inner(t) ELSE t

(* A field hides a method; of a method, the result of the first overload.  *)
FinishMember ==
  /\ Finishing("member")
  /\ LET t == Reached(TypeOf(Part(1)))
         b == IF Tag(t) = "blueprint" THEN tasts[t].decl ELSE 0
         name == E(Arg).name
         Gets1(kind, type, slot, result, lvalue) ==
           /\ Gets(Arg, [typed |-> TRUE, type |-> result, lvalue |-> lvalue, symbol |-> Variable(kind, type, slot)])
           /\ UNCHANGED <<types, tasts>>
     IN CASE TypeOf(Part(1)) = 0 -> GivenUp
          [] TypeOf(Part(1)) # 0 /\ b = 0 -> Refused
          [] b # 0 /\ FieldNamed(b, name) # {} ->
               LET i == Min(FieldNamed(b, name))
               IN Gets1("field", b, i, blueprints[b].fields[i].type, TRUE)
          [] b # 0 /\ FieldNamed(b, name) = {} /\ MethodNamed(b, name) # {} ->
               LET i == Min(MethodNamed(b, name))
               IN Gets1("method", b, i, blueprints[b].methods[i].overloads[1].result, FALSE)
          [] OTHER -> Refused

FinishIndex ==
  /\ Finishing("index")
  /\ IF Tag(TypeOf(Part(1))) = "array" /\ IsInteger(TypeOf(Part(2)))
       THEN GetsType(Arg, Inner(TypeOf(Part(1))), TRUE)
       ELSE Refused

(* The type of a cast is not resolved.                                     *)
Scalar == {"primitive", "pointer"}

FinishCast ==
  /\ Finishing("cast")
  /\ LET tags == {Tag(TypeOf(Part(1))), Tag(E(Arg).type)}
     IN IF TypeOf(Part(1)) = 0 THEN GivenUp
        ELSE IF tags \subseteq Scalar \/ tags = {"blueprint"} THEN GetsType(Arg, E(Arg).type, FALSE)
        ELSE Refused

FinishFfi == Finishing("ffi") /\ GetsType(Arg, 0, FALSE)

(* The type a value of an aggregate is meant for, or 0 if there is none.   *)
Wanted(e, i) ==
  LET t == targets[e]
      fs == FieldsOf(t)
      Named1 == {j \in DOMAIN fs : fs[j].name = E(e).names[i]}
      at == IF E(e).indices # <<>> THEN E(e).indices[i] + 1
            ELSE IF E(e).names # <<>> THEN (IF Named1 = {} THEN 0 ELSE Min(Named1))
            ELSE i
  IN IF Tag(t) = "array" THEN Inner(t) ELSE IF at \in DOMAIN fs THEN fs[at].type ELSE 0

(* A value without a type is let pass, except by place or index in a       *)
(* blueprint.                                                              *)
ValueFits(e, i) ==
  LET v == E(e).parts[i]
      lenient == Tag(targets[e]) = "array" \/ E(e).names # <<>>
  IN texprs[v].typed /\ ~(TypeOf(v) = 0 /\ lenient) => TakenFor(Wanted(e, i), TypeOf(v))

(* As many values as fields or elements, and none for what there is not.   *)
ShapeFits(e) ==
  LET t == targets[e]
  IN CASE Tag(t) = "array" ->
            /\ E(e).names = <<>>
            /\ types[t].count >= 0 /\ E(e).indices = <<>> => Len(E(e).parts) <= types[t].count
       [] Tag(t) = "blueprint" -> \A i \in DOMAIN E(e).parts : Wanted(e, i) # 0

Initializes(e) == Tag(targets[e]) = "anon" \/ (ShapeFits(e) /\ \A i \in DOMAIN E(e).parts : ValueFits(e, i))

CanInit(t) == Tag(t) \in {"array", "anon"} \/ (Tag(t) = "blueprint" /\ tasts[t].decl # 0)

(* Values past the last field are reported and then looked up.             *)
LooksPastFields(e) ==
  /\ Tag(targets[e]) = "blueprint" /\ E(e).names = <<>> /\ E(e).indices = <<>>
  /\ \E i \in DOMAIN E(e).parts : texprs[E(e).parts[i]].typed /\ i > Len(FieldsOf(targets[e]))

FinishInit ==
  /\ Finishing("init") /\ ~LooksPastFields(Arg)
  /\ IF CanInit(targets[Arg])
       THEN /\ texprs' = [texprs EXCEPT ![Arg] = Typed(targets[Arg], FALSE)]
            /\ last' = TRUE
            /\ errors' = IF Initializes(Arg) THEN errors ELSE Append(errors, "initialization")
            /\ Work(<<>>)
            /\ UNCHANGED <<unchangedTypes, types, tasts, scope, targets, nextSlot>>
       ELSE Refused

(* The vector of fields answers with a panic.                              *)
InitPanics ==
  /\ Finishing("init") /\ CanInit(targets[Arg]) /\ LooksPastFields(Arg)
  /\ phase' = "aborted"
  /\ UNCHANGED <<program, types, tasts, blueprints, scope, calls, roots, errors, typingVars>>

-----------------------------------------------------------------------------
(* A function that is not void has a return; of methods nobody asks it.    *)
ReturnMissing ==
  /\ ~InMethod
  /\ Tag(Func.result) = "primitive" /\ Prim(Func.result) # "void"
  /\ \A s \in DOMAIN program.body : ~(S(s).kind = "return" /\ Has(s))

EndBodies ==
  /\ phase = "bodies" /\ calls = <<>> /\ todo = <<>>
  /\ errors' = IF ReturnMissing THEN Append(errors, "missing return") ELSE errors
  /\ phase' = IF errors' = <<>> THEN "emit" ELSE "failed"
  /\ UNCHANGED <<program, types, tasts, blueprints, scope, calls, roots, typingVars>>

TypingInit ==
  /\ texprs = [e \in DOMAIN program.exprs |-> Untyped]
  /\ targets = [e \in DOMAIN program.exprs |-> 0]
  /\ todo = <<>>
  /\ last = TRUE
  /\ nextSlot = 0

TypingStep ==
  \/ MakeSelf \/ EnterFunction \/ StartDecl \/ CountValues \/ EndDecl \/ StartReturn \/ EndReturn \/ StartExprStmt \/ EndBodies
  \/ VisitLiteral \/ VisitIdent \/ VisitInit \/ VisitOther \/ VisitNext \/ GiveUp
  \/ FinishBinary \/ FinishUnary \/ FinishCall \/ FinishMember \/ FinishIndex \/ FinishCast \/ FinishFfi
  \/ FinishInit \/ InitPanics

TypingNext == (TypesNext /\ UNCHANGED typingVars) \/ TypingStep

=============================================================================
