---------------------------------- MODULE Qbe ----------------------------------
(***************************************************************************)
(* What QBE, to which the compiler hands its output, makes of the code of  *)
(* a function without jumps: which instructions it accepts and what they   *)
(* do when they run.  QBE is not part of the repository; this is its       *)
(* intermediate language as far as the code generator uses it.             *)
(***************************************************************************)
EXTENDS CodegenExpr

(* F(x) with x evaluated once: TLC evaluates an argument wherever it is    *)
(* used.                                                                   *)
With(x, F(_)) == CHOOSE y \in {F(v) : v \in {x}} : TRUE

(* What is left of a start after every member of a sequence.               *)
Through(F(_, _), start, xs) ==
  LET before[i \in 1 .. Len(xs) + 1] ==
        IF i = 1 THEN start ELSE With(before[i - 1], LAMBDA v : F(v, xs[i - 1]))
  IN before[Len(xs) + 1]

Classes == {"w", "l", "s", "d"}

(* Parameters and results of functions may be bytes and halves as well.    *)
AbiClass(suffix) == IF suffix \in {"b", "h"} THEN "w" ELSE suffix

ParamClasses ==
  [x \in {Slot(ParamSlots[i]) : i \in DOMAIN Params} |->
     AbiClass(Suffix(Params[CHOOSE i \in DOMAIN Params : Slot(ParamSlots[i]) = x].type))]

-----------------------------------------------------------------------------
(* Types.  A long is taken for a word, of which it is the lower half; only *)
(* temporaries are checked.                                                *)

Constants == {"int", "float", "str", "func"}

Fits(classes, x, class) ==
  IF x[1] \in Constants THEN TRUE
  ELSE x \in DOMAIN classes /\ (classes[x] = class \/ (classes[x] = "l" /\ class = "w"))

(* The classes of the results and of the operands of an operation.         *)
Rules ==
  [extsb |-> [to |-> {"w", "l"}, from |-> "w"], extsh |-> [to |-> {"w", "l"}, from |-> "w"],
   extsw |-> [to |-> {"l"}, from |-> "w"], exts |-> [to |-> {"d"}, from |-> "s"],
   truncd |-> [to |-> {"s"}, from |-> "d"], swtof |-> [to |-> {"s", "d"}, from |-> "w"],
   sltof |-> [to |-> {"s", "d"}, from |-> "l"], stosi |-> [to |-> {"w", "l"}, from |-> "s"],
   dtosi |-> [to |-> {"w", "l"}, from |-> "d"]]

Stored(as) == IF as \in {"b", "h"} THEN "w" ELSE as

IsValid(classes, x) ==
  LET Arg1(class) == Fits(classes, x.args[1], class)
      Arg2(class) == Fits(classes, x.args[2], class)
  IN CASE x.op \in {"add", "sub", "mul", "div"} -> x.cls \in Classes /\ Arg1(x.cls) /\ Arg2(x.cls)
       [] x.op \in {"rem", "and", "or", "xor"} -> x.cls \in {"w", "l"} /\ Arg1(x.cls) /\ Arg2(x.cls)
       [] x.op \in {"neg", "copy"} -> x.cls \in Classes /\ Arg1(x.cls)
       [] x.op \in DOMAIN Rules -> x.cls \in Rules[x.op].to /\ Arg1(Rules[x.op].from)
       [] x.op \in Ordering \cup Equality -> Arg1(x.as) /\ Arg2(x.as)
       [] x.op = "load" -> x.as \in Classes \cup {"sb", "sh"} /\ Arg1("l")
       [] x.op = "store" -> x.as \in Classes \cup {"b", "h"} /\ Arg1(Stored(x.as)) /\ Arg2("l")
       [] x.op = "alloc8" -> TRUE
       [] x.op = "blit" -> Arg1("l") /\ Arg2("l")
       [] x.op = "call" ->
            /\ x.res # Nowhere => x.cls \in Classes
            /\ \A i \in DOMAIN x.args : x.sigs[i] \in Classes /\ Fits(classes, x.args[i], x.sigs[i])
       [] x.op = "ret" -> x.args # <<>> => Prim(Func.result) # "void" /\ Arg1(AbiClass(Suffix(Func.result)))

(* Accepts(code): the rest of the code, given the temporaries so far, is   *)
(* valid.                                                                  *)
Accepts(instrs) ==
  LET Check(so, x) ==
        [classes |-> IF x.res = Nowhere THEN so.classes ELSE x.res :> x.cls @@ so.classes,
         valid |-> so.valid /\ IsValid(so.classes, x)]
      start == [classes |-> ParamClasses, valid |-> TRUE]
  IN /\ Through(Check, start, instrs).valid
     /\ \A i \in DOMAIN instrs : instrs[i].op = "ret" <=> i = Len(instrs)

-----------------------------------------------------------------------------
(* Running the code.  A value is a number of some class, or an address:    *)
(* an object and a place in it.  What was never stored, or stored as       *)
(* something else, or is half of a value, is junk.                         *)

Number(class, n) == [obj |-> 0, n |-> n, class |-> class]
Address(obj, n) == [obj |-> obj, n |-> n, class |-> "l"]
Junk(class) == [obj |-> -1, n |-> 0, class |-> class]
IsNumber(v) == v.obj = 0
IsAddress(v) == v.obj > 0

Width == [b |-> 1, h |-> 2, w |-> 4, l |-> 8, s |-> 4, d |-> 8, sb |-> 1, sh |-> 2]

StringObject(i) == 1000 + i
FuncObject == 2000

(* An operand, as a class.                                                 *)
Read(m, x, class) ==
  CASE x[1] \in {"int", "float"} -> Number(class, x[2])
    [] x[1] = "str" -> Address(StringObject(x[2]), 0)
    [] x[1] = "func" -> Address(FuncObject, 0)
    [] OTHER -> IF m.temps[x].class = class THEN m.temps[x] ELSE Junk(class)

Bit(n) == n \in {0, 1}

Calculate(op, class, a, b) ==
  IF IsAddress(a) /\ IsNumber(b) /\ op = "add" THEN Address(a.obj, a.n + b.n)
  ELSE IF ~IsNumber(a) \/ ~IsNumber(b) THEN Junk(class)
  ELSE CASE op = "add" -> Number(class, a.n + b.n)
         [] op = "sub" -> Number(class, a.n - b.n)
         [] op = "mul" -> Number(class, a.n * b.n)
         [] op = "and" /\ Bit(a.n) /\ Bit(b.n) -> Number(class, a.n * b.n)
         [] op = "or" /\ Bit(a.n) /\ Bit(b.n) -> Number(class, IF a.n + b.n > 0 THEN 1 ELSE 0)
         [] op = "xor" /\ b.n = -1 -> Number(class, -a.n - 1)
         [] OTHER -> Junk(class)

Holds(op, a, b) ==
  CASE op = "<" -> a < b [] op = ">" -> a > b [] op = "<=" -> a <= b [] op = ">=" -> a >= b
    [] op = "==" -> a = b [] op = "!=" -> a # b

Compare(op, a, b) ==
  IF IsNumber(a) /\ IsNumber(b) THEN Number("w", IF Holds(op, a.n, b.n) THEN 1 ELSE 0) ELSE Junk("w")

Inside(m, addr, width) ==
  IsAddress(addr) /\ addr.obj \in DOMAIN m.sizes /\ addr.n >= 0 /\ addr.n + width <= m.sizes[addr.obj]

Integral(as) == as \notin {"s", "d"}

(* The lower part of a number stands at its beginning, and zero is zero as *)
(* a number of any kind.                                                   *)
Loaded(m, addr, as, class) ==
  IF ~IsAddress(addr) \/ <<addr.obj, addr.n>> \notin DOMAIN m.mem THEN Junk(class)
  ELSE LET cell == m.mem[<<addr.obj, addr.n>>]
       IN IF cell.as = as THEN [cell.value EXCEPT !.class = class]
          ELSE IF /\ Width[as] <= Width[cell.as] /\ IsNumber(cell.value)
                  /\ (Integral(as) /\ Integral(cell.as)) \/ cell.value.n = 0
            THEN Number(class, cell.value.n)
            ELSE Junk(class)

LoadedAs(as) == IF as = "sb" THEN "b" ELSE IF as = "sh" THEN "h" ELSE as

Overlaps(cell, at, addr, width) ==
  at[1] = addr.obj /\ at[2] < addr.n + width /\ addr.n < at[2] + Width[cell.as]

Without(mem, addr, width) ==
  [at \in {at \in DOMAIN mem : ~Overlaps(mem[at], at, addr, width)} |-> mem[at]]

StoredIn(mem, addr, as, value) ==
  IF ~IsAddress(addr) THEN mem
  ELSE <<addr.obj, addr.n>> :> [as |-> as, value |-> value] @@ Without(mem, addr, Width[as])

Copied(mem, from, to, n) ==
  LET whole == {at \in DOMAIN mem :
                  at[1] = from.obj /\ at[2] >= from.n /\ at[2] + Width[mem[at].as] <= from.n + n}
      Moved(at) == <<to.obj, at[2] - from.n + to.n>>
  IN [at \in {Moved(x) : x \in whole} |-> mem[CHOOSE x \in whole : Moved(x) = at]] @@ Without(mem, to, n)

Gives(m, x, value) == [m EXCEPT !.temps = x.res :> value @@ @]

Calls(m) == Len(SelectSeq(m.trace, LAMBDA call : call.name # "ret"))

(* A call is seen from outside with its arguments and has a result of its  *)
(* own.                                                                    *)
Execute(m, x) ==
  LET A(class) == Read(m, x.args[1], class)
      B(class) == Read(m, x.args[2], class)
  IN CASE x.op \in {"add", "sub", "mul", "div", "rem", "and", "or", "xor"} ->
            Gives(m, x, Calculate(x.op, x.cls, A(x.cls), B(x.cls)))
       [] x.op = "neg" -> Gives(m, x, Calculate("sub", x.cls, Number(x.cls, 0), A(x.cls)))
       [] x.op = "copy" -> Gives(m, x, A(x.cls))
       [] x.op \in DOMAIN Rules ->
            LET v == A(Rules[x.op].from)
            IN Gives(m, x, IF IsNumber(v) THEN Number(x.cls, v.n) ELSE Junk(x.cls))
       [] x.op \in Ordering \cup Equality -> Gives(m, x, Compare(x.op, A(x.as), B(x.as)))
       [] x.op = "load" ->
            [Gives(m, x, Loaded(m, A("l"), LoadedAs(x.as), x.cls)) EXCEPT
               !.inside = @ /\ Inside(m, A("l"), Width[x.as])]
       [] x.op = "store" ->
            [m EXCEPT !.mem = StoredIn(@, B("l"), x.as, A(Stored(x.as))),
                      !.inside = @ /\ Inside(m, B("l"), Width[x.as])]
       [] x.op = "alloc8" ->
            LET obj == Cardinality(DOMAIN m.sizes) + 1
            IN [Gives(m, x, Address(obj, 0)) EXCEPT !.sizes = obj :> x.args[1][2] @@ @]
       [] x.op = "blit" ->
            LET n == x.args[3][2]
            IN [m EXCEPT !.mem = IF IsAddress(A("l")) /\ IsAddress(B("l")) THEN Copied(@, A("l"), B("l"), n) ELSE @,
                         !.inside = @ /\ Inside(m, A("l"), n) /\ Inside(m, B("l"), n)]
       [] x.op = "call" ->
            LET values == [i \in DOMAIN x.args |-> Read(m, x.args[i], x.sigs[i])]
                called == [m EXCEPT !.trace = Append(@, [name |-> x.as, args |-> values])]
            IN IF x.res = Nowhere THEN called ELSE Gives(called, x, Number(x.cls, 100 + Calls(m)))
       [] x.op = "ret" ->
            IF x.args = <<>> THEN m
            ELSE [m EXCEPT !.trace =
                    Append(@, [name |-> "ret", args |-> <<Read(m, x.args[1], AbiClass(Suffix(Func.result)))>>])]

(* The parameters are the numbers 1, 2 and so on, but self is the address  *)
(* of an object, the first one; what its fields are is not known.          *)
SelfObject == 1
IsSelf(x) == HasSelf /\ x = Slot(0)

ObjectSize ==
  LET fields == blueprints[program.method[1]].fields
  IN FieldPlace(fields, Len(fields)).size

Started ==
  [temps |-> [x \in DOMAIN ParamClasses |->
                IF IsSelf(x) THEN Address(SelfObject, 0) ELSE Number(ParamClasses[x], x[2] + 1)],
   mem |-> [at \in {} |-> [as |-> "", value |-> Junk("w")]],
   sizes |-> [o \in (IF HasSelf THEN {SelfObject} ELSE {}) |-> ObjectSize],
   trace |-> <<>>, inside |-> TRUE]

Run(instrs) == Through(Execute, Started, instrs)

=============================================================================
