------------------------------ MODULE CodegenExpr ------------------------------
(***************************************************************************)
(* The QBE code of declarations, returns and expressions                   *)
(* (iirac/source/iic_codegen_expr.c, iic_codegen_stmt.c), of the function  *)
(* that Typing has analysed.                                               *)
(*                                                                         *)
(* An expression leaves a GenValue: where its value is, where it can be    *)
(* stored to, and the suffix of its QBE type, "" for a null pointer.  The  *)
(* code is a sequence of instructions; an operand is a pair of what it is  *)
(* and which.                                                              *)
(***************************************************************************)
EXTENDS Typing

VARIABLES
  code,
  strings,   \* the literals of the data section
  gen,       \* the GenValue of every expression
  temps      \* temporaries given out

genVars == <<code, strings, gen, temps>>
vars == <<typeVars, typingVars, genVars>>

GenStmt(s) == <<"gen statement", s>>
GenPlace(s, n) == <<"place", s, n>>
GenReturn(s) == <<"ret", s>>
GenValue(e) == <<"gen", e>>
GenRest(e, i) == <<"gen rest", e, i>>
GenElement(e, i) == <<"element", e, i>>

Temp(n) == <<"tmp", n>>
IntConst(n) == <<"int", n>>
Slot(k) == <<"slot", k>>
Frame == <<"frame", 0>>
Nowhere == <<"nowhere", 0>>

(* as is the suffix of the operation, cls the class of its result, and     *)
(* sigs the suffixes of the arguments of a call.                           *)
Instr(op, as, cls, res, args) ==
  [op |-> op, as |-> as, cls |-> cls, res |-> res, args |-> args, sigs |-> <<>>]

Store(suffix, value, addr) == Instr("store", suffix, "", Nowhere, <<value, addr>>)
Copy(cls, res, value) == Instr("copy", "", cls, res, <<value>>)
AddTo(res, base, n) == Instr("add", "", "l", res, <<base, IntConst(n)>>)

(* Bytes and halves are extended to a word when they are loaded.           *)
Load(suffix, res, addr) ==
  IF suffix \in {"b", "h"}
    THEN Instr("load", "s" \o suffix, "w", res, <<addr>>)
    ELSE Instr("load", suffix, suffix, res, <<addr>>)

Generated(temp, addr, suffix) == [temp |-> temp, addr |-> addr, suffix |-> suffix]
NotGenerated == Generated(IntConst(0), Nowhere, "")

Default(suffix) == IF suffix = "" THEN "w" ELSE suffix

-----------------------------------------------------------------------------
(* _get_type_suffix                                                        *)

PrimSuffix ==
  [int |-> "w", bool |-> "w", char |-> "w", long |-> "l", short |-> "h", float |-> "s",
   double |-> "d", void |-> ""]

Suffix(t) ==
  IF t = 0 THEN ""
  ELSE IF tasts[t].repr # "" THEN tasts[t].repr
  ELSE IF Tag(t) = "primitive" THEN PrimSuffix[Prim(t)] ELSE "l"

(* That of an expression, where code asks for its type.                    *)
SuffixOf(e) == IF TypeOf(e) = 0 THEN "w" ELSE Suffix(TypeOf(e))

-----------------------------------------------------------------------------
(* Tasks.                                                                  *)

Emitting(task) == phase = "code" /\ todo # <<>> /\ Head(todo)[1] = task

unchangedAnalysis ==
  <<program, types, tasts, blueprints, scope, calls, roots, errors, texprs, targets, last, nextSlot>>

(* Instructions that take n temporaries more.                              *)
Emits(n, instrs) ==
  /\ code' = code \o instrs
  /\ temps' = temps + n

New(n) == Temp(temps + n)

(* The end of an expression.                                               *)
Leave(value) ==
  /\ gen' = [gen EXCEPT ![Arg] = value]
  /\ Work(<<>>)
  /\ UNCHANGED <<unchangedAnalysis, phase>>

Before(tasks) == Work(tasks) /\ UNCHANGED <<unchangedAnalysis, phase>>

-----------------------------------------------------------------------------
(* The function.                                                           *)

(* A parameter is passed in %slot and kept in the frame.                   *)
KeepParam(p, slot) ==
  <<AddTo(<<"addr", slot>>, Frame, 8 * slot), Store(Suffix(p.type), Slot(slot), <<"addr", slot>>)>>

ParamSlots ==
  [i \in DOMAIN Params |-> FoldLeft(LAMBDA n, p : n + SlotsOf(p.type), 0, SubSeq(Params, 1, i - 1))]

StartEmit ==
  /\ phase = "emit"
  /\ phase' = "code"
  /\ code' = IF nextSlot = 0 THEN <<>>
             ELSE <<Instr("alloc8", "", "l", Frame, <<IntConst(8 * nextSlot)>>)>>
                    \o FlattenSeq([i \in DOMAIN Params |-> KeepParam(Params[i], ParamSlots[i])])
  /\ todo' = [s \in DOMAIN program.body |-> GenStmt(s)]
  /\ UNCHANGED <<unchangedAnalysis, strings, gen, temps>>

EndEmit ==
  /\ phase = "code" /\ todo = <<>>
  /\ phase' = "done"
  /\ UNCHANGED <<unchangedAnalysis, todo, genVars>>

EmitExprStmt ==
  /\ Emitting("gen statement") /\ S(Arg).kind = "expr"
  /\ Before(<<GenValue(Value(Arg))>>)
  /\ UNCHANGED genVars

EmitReturn ==
  /\ Emitting("gen statement") /\ S(Arg).kind = "return"
  /\ Before(IF Has(Arg) THEN <<GenValue(Value(Arg)), GenReturn(Arg)>> ELSE <<>>)
  /\ code' = IF Has(Arg) THEN code ELSE Append(code, Instr("ret", "", "", Nowhere, <<>>))
  /\ UNCHANGED <<strings, gen, temps>>

EmitReturned ==
  /\ Emitting("ret")
  /\ Before(<<>>)
  /\ Emits(0, <<Instr("ret", "", "", Nowhere, <<gen[Value(Arg)].temp>>)>>)
  /\ UNCHANGED <<strings, gen>>

(* Variables of these types are memory of their own, and the slot has its  *)
(* address.                                                                *)
OneField(t) == Tag(t) = "blueprint" /\ Len(FieldsOf(t)) = 1
OwnMemory(t) == (Tag(t) = "array" \/ (Tag(t) = "blueprint" /\ ~OneField(t))) /\ tasts[t].size > 0

SlotOfDecl(s) == scope[S(s).name].slot
AddressSlot(s) == AddTo(Slot(SlotOfDecl(s)), Frame, 8 * SlotOfDecl(s))

EmitDecl ==
  /\ Emitting("gen statement") /\ S(Arg).kind = "decl"
  /\ Before(IF Has(Arg) THEN <<GenValue(Value(Arg)), GenPlace(Arg, temps)>> ELSE <<GenPlace(Arg, temps)>>)
  /\ IF OwnMemory(S(Arg).type)
       THEN Emits(1, <<Instr("alloc8", "", "l", New(0), <<IntConst(tasts[S(Arg).type].size)>>)>>)
       ELSE Emits(0, <<AddressSlot(Arg)>>)
  /\ UNCHANGED <<strings, gen>>

PlaceMemory ==
  /\ Emitting("place") /\ OwnMemory(S(Arg).type)
  /\ LET size == tasts[S(Arg).type].size
         blit == Instr("blit", "", "", Nowhere, <<gen[Value(Arg)].temp, Temp(At), IntConst(size)>>)
     IN Emits(0, (IF Has(Arg) THEN <<blit>> ELSE <<>>)
                   \o <<AddressSlot(Arg), Store("l", Temp(At), Slot(SlotOfDecl(Arg)))>>)
  /\ Before(<<>>)
  /\ UNCHANGED <<strings, gen>>

(* From a value of the second type to a variable of the first.             *)
Converts == [b |-> [w |-> "extsb", l |-> "extsb"], h |-> [w |-> "extsh", l |-> "extsh"],
             l |-> [w |-> "extsw"], d |-> [s |-> "exts", w |-> "swtof", l |-> "sltof"],
             s |-> [d |-> "truncd", w |-> "swtof", l |-> "sltof"], w |-> <<>>]

Conversion(to, from) ==
  IF to # "" /\ from # "" /\ from \in DOMAIN Converts[to] THEN Converts[to][from] ELSE ""

(* What a blueprint of one field is stored as.                             *)
StoreSuffix(t) == IF OneField(t) THEN Suffix(FieldsOf(t)[1].type) ELSE Suffix(t)

(* Mutant: a value is stored as it is.                                     *)
PlaceAsItIs(s, value, to) ==
  Emits(0, <<Store(StoreSuffix(S(s).type), value.temp, Slot(SlotOfDecl(s)))>>)

PlaceConverted(s, value, to) ==
  LET how == Conversion(to, value.suffix)
      cls == IF to \in {"b", "h"} THEN "w" ELSE to
  IN IF how = ""
       THEN Emits(0, <<Store(StoreSuffix(S(s).type), value.temp, Slot(SlotOfDecl(s)))>>)
       ELSE Emits(1, <<Instr(how, "", cls, New(0), <<value.temp>>), Store(to, New(0), Slot(SlotOfDecl(s)))>>)

PlaceZero(s, to) ==
  IF to \in {"b", "h"}
    THEN Emits(1, <<Copy("w", New(0), IntConst(0)), Store(to, New(0), Slot(SlotOfDecl(s)))>>)
    ELSE Emits(0, <<Store(to, IntConst(0), Slot(SlotOfDecl(s)))>>)

PlaceScalar ==
  /\ Emitting("place") /\ ~OwnMemory(S(Arg).type)
  /\ LET to == Suffix(S(Arg).type)
     IN IF Has(Arg) THEN PlaceConverted(Arg, gen[Value(Arg)], to) ELSE PlaceZero(Arg, to)
  /\ Before(<<>>)
  /\ UNCHANGED <<strings, gen>>

-----------------------------------------------------------------------------
(* Literals and names.                                                     *)

LiteralOf(e) ==
  LET v == E(e).value
  IN CASE E(e).op = "float" -> [suffix |-> "s", value |-> <<"float", v>>]
       [] E(e).op = "string" -> [suffix |-> "l", value |-> <<"str", Len(strings)>>]
       [] E(e).op = "null" -> [suffix |-> "l", value |-> IntConst(0)]
       [] E(e).op \in {"int", "bool", "char"} -> [suffix |-> "w", value |-> IntConst(v)]

EmitLiteral ==
  /\ Emitting("gen") /\ Kind(Arg) = "literal"
  /\ LET lit == LiteralOf(Arg)
     IN /\ Emits(1, <<Copy(lit.suffix, New(0), lit.value)>>)
        /\ Leave(Generated(New(0), Nowhere, lit.suffix))
  /\ strings' = IF E(Arg).op = "string" THEN Append(strings, E(Arg).value) ELSE strings

Names(e, kinds) == Kind(e) = "ident" /\ texprs[e].symbol.kind \in kinds

(* A blueprint is its address, and as a parameter behind a pointer.        *)
EmitVariable ==
  /\ Emitting("gen") /\ Names(Arg, {"var", "param"})
  /\ LET symbol == texprs[Arg].symbol
         aggregate == Tag(symbol.type) \in {"blueprint", "anon"}
         pointed == Tag(symbol.type) \in {"pointer", "array"} \/ (aggregate /\ symbol.kind = "param")
         at == AddTo(New(0), Frame, 8 * symbol.slot)
     IN IF aggregate /\ ~pointed
          THEN /\ Emits(1, <<at>>)
               /\ Leave(Generated(New(0), New(0), Suffix(symbol.type)))
          ELSE /\ Emits(2, <<at, Load(IF pointed THEN "l" ELSE Suffix(symbol.type), New(1), New(0))>>)
               /\ Leave(Generated(New(1), New(0), Suffix(symbol.type)))
  /\ UNCHANGED strings

EmitFunctionName ==
  /\ Emitting("gen") /\ Names(Arg, {"func"})
  /\ Emits(1, <<Copy("l", New(0), <<"func", E(Arg).name>>)>>)
  /\ Leave(Generated(New(0), Nowhere, "w"))
  /\ UNCHANGED strings

(* A blueprint, or a name that was never looked up.                        *)
EmitNoVariable ==
  /\ Emitting("gen") /\ Names(Arg, {"blueprint", "none"})
  /\ Leave(Generated(IntConst(0), Nowhere, "w"))
  /\ UNCHANGED <<code, strings, temps>>

-----------------------------------------------------------------------------
(* The parts of the others come first.  The callee of a call is not one,   *)
(* but the object of a method is.                                          *)

IsMethod(e) == texprs[e].symbol.kind = "method"

GenParts(e) ==
  CASE Kind(e) = "call" ->
         LET callee == E(e).parts[1]
         IN (IF Kind(callee) = "member" THEN E(callee).parts ELSE <<>>) \o Tail(E(e).parts)
    [] Kind(e) = "init" -> IF E(e).names = <<>> /\ E(e).indices = <<>> THEN E(e).parts ELSE <<>>
    [] OTHER -> E(e).parts

Composite == {"binary", "unary", "call", "member", "index", "init", "cast", "ffi"}

EnterParts ==
  /\ Emitting("gen") /\ Kind(Arg) \in Composite \ {"call", "init"} /\ ~IsMethod(Arg)
  /\ Before(<<GenRest(Arg, 1)>>)
  /\ UNCHANGED genVars

(* A method that is named but not called is taken for a call, which it is  *)
(* not: what follows is undefined.                                         *)
EnterMethodName ==
  /\ Emitting("gen") /\ Kind(Arg) = "member" /\ IsMethod(Arg)
  /\ phase' = "undefined"
  /\ UNCHANGED <<unchangedAnalysis, todo, genVars>>

(* The temporary of the result is taken before those of the arguments.     *)
EnterCall ==
  /\ Emitting("gen") /\ Kind(Arg) = "call"
  /\ LET result == Suffix(TypeOf(Arg)) # ""
     IN /\ gen' = [gen EXCEPT ![Arg] = Generated(IF result THEN New(0) ELSE IntConst(0), Nowhere, "")]
        /\ temps' = temps + (IF result THEN 1 ELSE 0)
  /\ Before(<<GenRest(Arg, 1)>>)
  /\ UNCHANGED <<code, strings>>

EnterInit ==
  /\ Emitting("gen") /\ Kind(Arg) = "init"
  /\ Emits(1, <<Instr("alloc8", "", "l", New(0), <<IntConst(IF targets[Arg] = 0 THEN 8 ELSE tasts[targets[Arg]].size)>>)>>)
  /\ gen' = [gen EXCEPT ![Arg] = Generated(New(0), New(0), "")]
  /\ Before(<<GenRest(Arg, 1)>>)
  /\ UNCHANGED strings

EmitNext ==
  /\ Emitting("gen rest") /\ At <= Len(GenParts(Arg))
  /\ Before(<<GenValue(GenParts(Arg)[At])>>
              \o (IF Kind(Arg) = "init" THEN <<GenElement(Arg, At)>> ELSE <<>>)
              \o <<GenRest(Arg, At + 1)>>)
  /\ UNCHANGED genVars

(* Every value of an aggregate is stored as one of an array.               *)
StoreElement ==
  /\ Emitting("element")
  /\ LET t == targets[Arg]
         size == IF Tag(t) = "array" THEN tasts[Inner(t)].size ELSE 4
         e == E(Arg).parts[At]
         suffix == IF TypeOf(e) # 0 THEN Suffix(TypeOf(e)) ELSE IF Tag(t) = "array" THEN Suffix(Inner(t)) ELSE "w"
     IN Emits(2, <<Instr("mul", "", "l", New(0), <<IntConst(At - 1), IntConst(size)>>),
                   Instr("add", "", "l", New(1), <<gen[Arg].temp, New(0)>>),
                   Store(suffix, gen[e].temp, New(1))>>)
  /\ Before(<<>>)
  /\ UNCHANGED <<strings, gen>>

Emitted(kind) == Emitting("gen rest") /\ At > Len(GenParts(Arg)) /\ Kind(Arg) = kind
GenPart(i) == gen[E(Arg).parts[i]]

-----------------------------------------------------------------------------
(* Operators.                                                              *)

OpName ==
  [o \in Arithmetic \cup BitOps |->
     CASE o = "+" -> "add" [] o = "-" -> "sub" [] o = "*" -> "mul" [] o = "/" -> "div" [] o = "%" -> "rem"
       [] o = "&" -> "and" [] o = "|" -> "or" [] o = "^" -> "xor"]

Simple == [o \in Assignment \ {"="} |-> CASE o = "+=" -> "+" [] o = "-=" -> "-" [] o = "*=" -> "*" [] o = "/=" -> "/"]

IsFloating(suffix) == suffix \in {"s", "d"}

(* Of two operands, one that is no floating-point number is made one if    *)
(* the other is; otherwise words are compared.                             *)
Compared(l, r, result, free) ==
  LET ls == Default(l.suffix)
      rs == Default(r.suffix)
      From(suffix) == IF suffix = "w" THEN "swtof" ELSE "sltof"
      Compare(as, x, y) == Instr(E(Arg).op, as, "w", result, <<x, y>>)
  IN CASE IsFloating(ls) /\ ~IsFloating(rs) ->
            <<Instr(From(rs), "", ls, free, <<r.temp>>), Compare(ls, l.temp, free)>>
       [] IsFloating(rs) /\ ~IsFloating(ls) ->
            <<Instr(From(ls), "", rs, free, <<l.temp>>), Compare(rs, free, r.temp)>>
       [] IsFloating(ls) /\ IsFloating(rs) -> <<Compare(ls, l.temp, r.temp)>>
       [] OTHER -> <<Compare("w", l.temp, r.temp)>>

(* Orderings of floating-point numbers take a temporary more.              *)
EmitComparison ==
  /\ Emitted("binary") /\ E(Arg).op \in Ordering \cup Equality
  /\ LET l == GenPart(1)
         r == GenPart(2)
         converts == IsFloating(Default(l.suffix)) # IsFloating(Default(r.suffix))
         n == IF converts THEN 2 ELSE 1
         floating == IsFloating(Default(l.suffix)) \/ IsFloating(Default(r.suffix))
     IN IF floating /\ E(Arg).op \in Ordering
          THEN Emits(n + 1, Append(Compared(l, r, New(n), New(1)), Copy("w", New(0), New(n))))
          ELSE Emits(n, Compared(l, r, New(0), New(1)))
  /\ Leave(Generated(New(0), Nowhere, SuffixOf(Arg)))
  /\ UNCHANGED strings

EmitBinary ==
  /\ Emitted("binary") /\ E(Arg).op \in Arithmetic \cup BitOps
  /\ Emits(1, <<Instr(OpName[E(Arg).op], "", SuffixOf(Arg), New(0), <<GenPart(1).temp, GenPart(2).temp>>)>>)
  /\ Leave(Generated(New(0), Nowhere, SuffixOf(Arg)))
  /\ UNCHANGED strings

(* Both operands have been computed.                                       *)
EmitLogical ==
  /\ Emitted("binary") /\ E(Arg).op \in Logical
  /\ LET op == IF E(Arg).op = "&&" THEN "and" ELSE "or"
     IN Emits(1, <<Instr(op, "", "w", New(0), <<GenPart(1).temp, GenPart(2).temp>>)>>)
  /\ Leave(Generated(New(0), Nowhere, SuffixOf(Arg)))
  /\ UNCHANGED strings

(* Mutant: an operator of assignment loads the value of the right operand. *)
UpdatedSwapped(op, suffix, l, r) ==
  <<Instr("load", suffix, suffix, New(1), <<l.addr>>),
    Instr(OpName[Simple[op]], "", suffix, New(2), <<r.temp, New(1)>>),
    Store(suffix, New(2), l.addr), Copy(suffix, New(0), New(2))>>

Updated(op, suffix, l, r) ==
  <<Instr("load", suffix, suffix, New(1), <<l.addr>>),
    Instr(OpName[Simple[op]], "", suffix, New(2), <<New(1), r.temp>>),
    Store(suffix, New(2), l.addr), Copy(suffix, New(0), New(2))>>

EmitAssignment ==
  /\ Emitted("binary") /\ E(Arg).op \in Assignment
  /\ LET l == GenPart(1)
         suffix == Default(l.suffix)
     IN IF l.addr = Nowhere THEN Emits(1, <<Copy(suffix, New(0), IntConst(0))>>)
        ELSE IF E(Arg).op = "="
          THEN Emits(1, <<Store(suffix, GenPart(2).temp, l.addr), Copy(suffix, New(0), GenPart(2).temp)>>)
          ELSE Emits(3, Updated(E(Arg).op, suffix, l, GenPart(2)))
  /\ Leave(Generated(New(0), Nowhere, SuffixOf(Arg)))
  /\ UNCHANGED strings

EmitUnary ==
  /\ Emitted("unary")
  /\ LET operand == GenPart(1)
         suffix == SuffixOf(Arg)
         op == E(Arg).op
     IN /\ Emits(1, CASE op = "-" -> <<Instr("neg", "", suffix, New(0), <<operand.temp>>)>>
                      [] op = "!" -> <<Instr("==", "w", "w", New(0), <<operand.temp, IntConst(0)>>)>>
                      [] op = "~" -> <<Instr("xor", "", "w", New(0), <<operand.temp, IntConst(-1)>>)>>
                      [] op = "+" -> <<>>
                      [] op = "*" -> <<Instr("load", suffix, suffix, New(0), <<operand.temp>>)>>
                      [] op = "&" -> <<Copy("l", New(0), operand.addr)>>)
        /\ Leave(CASE op = "+" -> Generated(operand.temp, Nowhere, "")
                   [] op = "*" -> Generated(New(0), operand.temp, "")
                   [] op = "&" -> Generated(New(0), operand.addr, "l")
                   [] OTHER -> Generated(New(0), Nowhere, ""))
  /\ UNCHANGED strings

ArgTemps(es) == [i \in DOMAIN es |-> gen[es[i]].temp]

ArgSuffixes(es) == [i \in DOMAIN es |-> SuffixOf(es[i])]

CallOf(name, cls, res, args, sigs) ==
  [op |-> "call", as |-> name, cls |-> cls, res |-> res, args |-> args, sigs |-> sigs]

(* The object of a method is passed as a pointer.                          *)
EmitCall ==
  /\ Emitted("call")
  /\ LET method == Kind(E(Arg).parts[1]) = "member"
         args == Tail(E(Arg).parts)
         cls == Suffix(TypeOf(Arg))
         res == IF cls = "" THEN Nowhere ELSE gen[Arg].temp
         sigs == (IF method THEN <<"l">> ELSE <<>>) \o ArgSuffixes(args)
     IN Emits(0, <<CallOf(E(E(Arg).parts[1]).name, cls, res, ArgTemps(GenParts(Arg)), sigs)>>)
  /\ Leave(gen[Arg])
  /\ UNCHANGED strings

EmitFfi ==
  /\ Emitted("ffi")
  /\ Emits(1, <<CallOf(E(Arg).name, SuffixOf(Arg), New(0), ArgTemps(E(Arg).parts), ArgSuffixes(E(Arg).parts))>>)
  /\ Leave(Generated(New(0), Nowhere, ""))
  /\ UNCHANGED strings

EmitMember ==
  /\ Emitted("member") /\ texprs[Arg].typed
  /\ LET field == blueprints[texprs[Arg].symbol.type].fields[texprs[Arg].symbol.slot]
     IN /\ Emits(2, <<AddTo(New(0), GenPart(1).temp, field.offset), Load(Suffix(field.type), New(1), New(0))>>)
        /\ Leave(Generated(New(1), New(0), Suffix(field.type)))
  /\ UNCHANGED strings

(* A member that was given up.                                             *)
EmitNoMember ==
  /\ Emitted("member") /\ ~texprs[Arg].typed
  /\ Leave(NotGenerated)
  /\ UNCHANGED <<code, strings, temps>>

EmitIndex ==
  /\ Emitted("index")
  /\ LET element == TypeOf(Arg)
         widen == IF SuffixOf(E(Arg).parts[2]) = "w" THEN "extsw" ELSE "copy"
         size == IF element = 0 THEN 4 ELSE tasts[element].size
     IN /\ Emits(4, <<Instr(widen, "", "l", New(0), <<GenPart(2).temp>>),
                      Instr("mul", "", "l", New(1), <<New(0), IntConst(size)>>),
                      Instr("add", "", "l", New(2), <<GenPart(1).temp, New(1)>>),
                      Load(SuffixOf(Arg), New(3), New(2))>>)
        /\ Leave(Generated(New(3), New(2), SuffixOf(Arg)))
  /\ UNCHANGED strings

CastOp(from, to) ==
  CASE from \in {"w", "l"} /\ IsFloating(to) -> IF from = "w" THEN "swtof" ELSE "sltof"
    [] IsFloating(from) /\ to \in {"w", "l"} -> IF from = "s" THEN "stosi" ELSE "dtosi"
    [] from = "w" /\ to = "l" -> "extsw"
    [] OTHER -> "copy"

EmitCast ==
  /\ Emitted("cast")
  /\ LET to == Suffix(E(Arg).type)
     IN Emits(1, <<Instr(CastOp(SuffixOf(E(Arg).parts[1]), to), "", to, New(0), <<GenPart(1).temp>>)>>)
  /\ Leave(Generated(New(0), Nowhere, ""))
  /\ UNCHANGED strings

FinishEmit == Emitted("init") /\ Leave(gen[Arg]) /\ UNCHANGED <<code, strings, temps>>

-----------------------------------------------------------------------------
GenInit ==
  /\ code = <<>>
  /\ strings = <<>>
  /\ gen = [e \in DOMAIN program.exprs |-> NotGenerated]
  /\ temps = 0

GenStep ==
  \/ StartEmit \/ EndEmit \/ EmitExprStmt \/ EmitReturn \/ EmitReturned \/ EmitDecl \/ PlaceMemory \/ PlaceScalar
  \/ EmitLiteral \/ EmitVariable \/ EmitFunctionName \/ EmitNoVariable
  \/ EnterParts \/ EnterMethodName \/ EnterCall \/ EnterInit \/ EmitNext \/ StoreElement
  \/ EmitComparison \/ EmitBinary \/ EmitLogical \/ EmitAssignment \/ EmitUnary \/ EmitCall \/ EmitFfi
  \/ EmitMember \/ EmitNoMember \/ EmitIndex \/ EmitCast \/ FinishEmit

Ended == phase \in {"failed", "aborted", "undefined", "done"} /\ UNCHANGED vars

Init == TypesInit /\ TypingInit /\ GenInit

Next == (TypingNext /\ UNCHANGED genVars) \/ GenStep \/ Ended

Spec == Init /\ [][Next]_vars /\ WF_vars(Next)

-----------------------------------------------------------------------------
(* Properties.                                                             *)

(* Every compilation ends: the recursion of the types leads nowhere twice, *)
(* and neither pass over the body stands still.                            *)
Ends == <>(phase \in {"failed", "aborted", "undefined", "done"})

=============================================================================
