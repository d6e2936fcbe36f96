-------------------------------- MODULE MCExprs --------------------------------
(***************************************************************************)
(* Small programs for the analysis of types and the code of expressions,   *)
(* and what is expected of them: the layout C gives to types, the programs *)
(* that compile, and the values a program has by its source.               *)
(***************************************************************************)
EXTENDS Qbe

-----------------------------------------------------------------------------
(* Programs are written as terms, and then numbered.                       *)

TypeTerm(tag, prim, inner, count, name) ==
  [tag |-> tag, prim |-> prim, inner |-> inner, count |-> count, name |-> name]
NoTerm == TypeTerm("", "", <<>>, NoSize, "")
P(prim) == TypeTerm("primitive", prim, <<>>, NoSize, "")
PtrTo(t) == TypeTerm("pointer", "", <<t>>, NoSize, "")
ArrayOf(n, t) == TypeTerm("array", "", <<t>>, n, "")
Bp(name) == TypeTerm("blueprint", "", <<>>, NoSize, name)
Anon(ts) == TypeTerm("anon", "", ts, NoSize, "")

Term(kind, op, parts) ==
  [kind |-> kind, op |-> op, parts |-> parts, name |-> "", value |-> 0, type |-> NoTerm,
   names |-> <<>>, indices |-> <<>>]
Lit(op, v) == [Term("literal", op, <<>>) EXCEPT !.value = v]
Num(v) == Lit("int", v)
V(name) == [Term("ident", "", <<>>) EXCEPT !.name = name]
Bin(op, a, b) == Term("binary", op, <<a, b>>)
Un(op, a) == Term("unary", op, <<a>>)
Call(f, args) == [Term("call", "", <<V(f)>> \o args) EXCEPT !.name = f]
Mem(object, name) == [Term("member", "", <<object>>) EXCEPT !.name = name]
CallOn(object, method, args) == Term("call", "", <<Mem(object, method)>> \o args)
Idx(a, i) == Term("index", "", <<a, i>>)
Vals(vs) == Term("init", "", vs)
NamedVals(ns, vs) == [Term("init", "", vs) EXCEPT !.names = ns]
IndexedVals(is, vs) == [Term("init", "", vs) EXCEPT !.indices = is]
CastTo(t, a) == [Term("cast", "", <<a>>) EXCEPT !.type = t]
Ffi(args) == [Term("ffi", "", args) EXCEPT !.name = "printf"]

StmtTerm(kind, name, type, expr) == [kind |-> kind, name |-> name, type |-> type, expr |-> expr]
Var(name, t) == StmtTerm("decl", name, t, <<>>)
VarIs(name, t, e) == StmtTerm("decl", name, t, <<e>>)
Do(e) == StmtTerm("expr", "", NoTerm, <<e>>)
Ret(e) == StmtTerm("return", "", NoTerm, <<e>>)
RetNone == StmtTerm("return", "", NoTerm, <<>>)

(* [n |-> the nodes so far, at |-> the numbers of those put last].  With   *)
(* evaluates x once: TLC evaluates the argument of an operator at every use. *)

Put(node, put, field) == With(put, LAMBDA p : [n |-> p.n, at |-> [node EXCEPT ![field] = p.at]])

RECURSIVE PutAll(_, _, _)
PutAll(PutOne(_, _), nodes, xs) ==
  IF xs = <<>> THEN [n |-> nodes, at |-> <<>>]
  ELSE With(PutOne(nodes, Head(xs)), LAMBDA first :
       With(PutAll(PutOne, first.n, Tail(xs)), LAMBDA rest :
         [n |-> rest.n, at |-> <<first.at>> \o rest.at]))

RECURSIVE PutType(_, _)
PutType(nodes, t) ==
  IF t.tag = "" THEN [n |-> nodes, at |-> 0]
  ELSE With(PutAll(PutType, nodes, t.inner), LAMBDA inner :
         [n |-> [inner.n EXCEPT !.types = Append(@, [t EXCEPT !.inner = inner.at])],
          at |-> Len(inner.n.types) + 1])

RECURSIVE PutExpr(_, _)
PutExpr(nodes, e) ==
  With(PutAll(PutExpr, nodes, e.parts), LAMBDA parts :
  With(PutType(parts.n, e.type), LAMBDA type :
    [n |-> [type.n EXCEPT !.exprs = Append(@, [e EXCEPT !.parts = parts.at, !.type = type.at])],
     at |-> Len(type.n.exprs) + 1]))

PutStmt(nodes, s) ==
  With(Put(s, PutType(nodes, s.type), "type"), LAMBDA p : Put(p.at, PutAll(PutExpr, p.n, s.expr), "expr"))

PutNamed(nodes, f) == Put(f, PutType(nodes, f.type), "type")

PutOverload(nodes, o) ==
  With(Put(o, PutAll(PutNamed, nodes, o.params), "params"),
       LAMBDA p : Put(p.at, PutType(p.n, o.result), "result"))

PutMethod(nodes, m) == Put(m, PutAll(PutOverload, nodes, m.overloads), "overloads")

PutBlueprint(nodes, b) ==
  With(Put(b, PutAll(PutNamed, nodes, b.fields), "fields"),
       LAMBDA p : Put(p.at, PutAll(PutMethod, p.n, b.methods), "methods"))

ProgramOf(bs, fs, method, body) ==
  With(PutAll(PutBlueprint, [types |-> <<>>, exprs |-> <<>>], bs), LAMBDA b :
  With(PutAll(PutOverload, b.n, fs), LAMBDA f :
  With(PutAll(PutStmt, f.n, body), LAMBDA s :
    [types |-> s.n.types, blueprints |-> b.at, funcs |-> f.at, exprs |-> s.n.exprs, method |-> method,
     body |-> s.at])))

Program(bs, fs, body) == ProgramOf(bs, fs, <<>>, body)

Named1(name, t) == [name |-> name, type |-> t]
Blueprint(name, fields) == [name |-> name, fields |-> fields, methods |-> <<>>]
FuncTerm(name, params, result, body) == [name |-> name, params |-> params, result |-> result, body |-> body]
Overload(static, params, result, body) ==
  [static |-> static, params |-> params, result |-> result, body |-> body]
Method(name, overloads) == [name |-> name, overloads |-> overloads]

-----------------------------------------------------------------------------
(* Programs about layout: two blueprints that may mention each other.      *)

FieldTypes1 ==
  {P("char"), P("short"), P("int"), P("long"), P("void"), PtrTo(Bp("A")), Bp("A"), Bp("B"), Bp("Nope"),
   ArrayOf(3, P("char")), Anon(<<P("short"), P("char")>>)}

FieldTypes2 == {P("char"), P("double"), PtrTo(Bp("B")), Bp("A"), ArrayOf(2, Bp("A"))}

FieldsWith(ts) == [i \in DOMAIN ts |-> Named1(<<"x", "y", "z">>[i], ts[i])]

Main(result) == FuncTerm("main", <<>>, result, TRUE)
Trivial == <<Ret(Num(0))>>

TwoBlueprints(as, bs) ==
  Program(<<Blueprint("A", FieldsWith(as)), Blueprint("B", FieldsWith(bs))>>, <<Main(P("int"))>>, Trivial)

LayoutPrograms ==
  {TwoBlueprints(<<t, u>>, <<v, P("char")>>) : t \in FieldTypes1, u \in FieldTypes1, v \in FieldTypes2}
    \cup {TwoBlueprints(<<>>, <<P("char"), t>>) : t \in FieldTypes2}

-----------------------------------------------------------------------------
(* Programs about one operator, of a variable and a parameter, and about   *)
(* one variable and what it is initialized with.                           *)

SomeTypes ==
  {P("bool"), P("char"), P("short"), P("int"), P("long"), P("float"), P("double"), PtrTo(P("int"))}

SomeOperators == {"+", "%", "&", "<", "==", "&&", "=", "-="}

Show(e) == Do(Ffi(<<e>>))

Function(params, body) == Program(<<>>, <<FuncTerm("f", params, P("int"), TRUE)>>, body)

OperatorProgram(op, t, u) ==
  Function(<<Named1("a", t), Named1("b", u)>>,
           <<VarIs("x", t, V("a")), Show(Bin(op, V("x"), V("b"))), Show(V("x")), Ret(Num(0))>>)

OperatorPrograms == {OperatorProgram(op, t, u) : op \in SomeOperators, t \in SomeTypes, u \in SomeTypes}

(* A value of the type t, in the different ways in which a value comes.    *)
ValuesOf(t) ==
  {V("b"), Call("f", <<V("a"), V("b")>>), Mem(V("s"), "y"), Idx(V("v"), Num(1)), Un("-", V("b")),
   CastTo(t, V("b"))}

DeclProgram(t, e, u) ==
  Program(<<Blueprint("S", <<Named1("x", P("char")), Named1("y", t)>>)>>,
          <<FuncTerm("f", <<Named1("a", u), Named1("b", t)>>, t, TRUE)>>,
          <<Var("s", Bp("S")), Var("v", ArrayOf(2, t)), Do(Bin("=", Mem(V("s"), "y"), V("b"))),
            Do(Bin("=", Idx(V("v"), Num(1)), V("b"))), VarIs("z", u, e), Show(V("z")), Ret(V("b"))>>)

DeclPrograms == UNION {{DeclProgram(t, e, u) : e \in ValuesOf(t)} : t \in SomeTypes, u \in SomeTypes}

-----------------------------------------------------------------------------
(* Programs about everything else: the body of a function, after a         *)
(* declaration of a blueprint with methods, one with one field, one with   *)
(* none, and two functions.                                                *)

I4 == P("int")
Self == Named1("self", NoTerm)
Point ==
  [name |-> "Point", fields |-> <<Named1("x", P("int")), Named1("y", P("long"))>>,
   methods |->
     <<Method("sum", <<Overload(FALSE, <<Self>>, P("int"), TRUE),
                       Overload(FALSE, <<Self, Named1("by", P("long"))>>, P("long"), TRUE)>>),
       Method("of", <<Overload(TRUE, <<Named1("n", P("int"))>>, P("void"), TRUE)>>),
       Method("scale", <<Overload(FALSE, <<Self, Named1("by", I4)>>, I4, TRUE)>>),
       Method("x", <<Overload(FALSE, <<Self>>, P("int"), TRUE)>>),
       Method("later", <<Overload(FALSE, <<Self>>, P("int"), FALSE)>>),
       Method("inverted", <<Overload(FALSE, <<Self>>, Bp("Point"), TRUE)>>)>>]

Decls ==
  <<Point, Blueprint("One", <<Named1("v", P("float"))>>), Blueprint("None", <<>>),
    Blueprint("Pair", <<Named1("a", P("int")), Named1("b", P("int"))>>),
    Blueprint("Line", <<Named1("from", Bp("Point")), Named1("to", PtrTo(Bp("Point")))>>)>>

Functions ==
  <<FuncTerm("nothing", <<Named1("p", PtrTo(P("int")))>>, P("void"), TRUE),
    FuncTerm("later", <<>>, P("int"), FALSE), FuncTerm("name", <<>>, PtrTo(P("char")), TRUE),
    FuncTerm("show", <<Named1("p", Bp("Point"))>>, P("void"), TRUE),
    FuncTerm("main", <<Named1("n", P("int")), Named1("l", P("long"))>>, P("int"), TRUE)>>

Body(statements) == Program(Decls, Functions, statements \o <<Ret(V("n"))>>)

(* The body of a method of Point.                                          *)
MethodBody(m, o, statements) == ProgramOf(Decls, Functions, <<1, m, o>>, statements)

Str(v) == Lit("string", v)
Null == Lit("null", 0)

VarPoint == <<Var("p", Bp("Point"))>>
SetPoint == VarPoint \o <<Do(Bin("=", Mem(V("p"), "x"), Num(7))), Do(Bin("=", Mem(V("p"), "y"), V("l")))>>
Shows(es) == [i \in DOMAIN es |-> Show(es[i])]

AddressBodies ==
  {<<VarIs("x", I4, V("n")), VarIs("q", PtrTo(I4), Un("&", V("x"))), Do(Bin("=", Un("*", V("q")), Num(5)))>>
     \o Shows(<<V("x"), Un("*", V("q")), Bin("==", V("q"), Null)>>),
   <<VarIs("x", P("long"), V("l")), VarIs("q", PtrTo(P("long")), Un("&", V("x"))), Show(Un("*", V("q"))),
     Do(Bin("=", Un("*", V("q")), V("l"))), Show(V("x"))>>,
   SetPoint \o <<VarIs("q", PtrTo(Bp("Point")), Un("&", V("p"))), Do(Bin("=", Mem(V("q"), "x"), Num(3)))>>
     \o Shows(<<Mem(V("p"), "x"), Mem(V("q"), "y"), Mem(Un("*", V("q")), "x")>>),
   <<VarIs("q", PtrTo(I4), Num(0)), VarIs("r", PtrTo(PtrTo(I4)), Un("&", V("q"))), Do(Call("nothing", <<Un("*", V("r"))>>))>>,
   <<VarIs("q", PtrTo(P("void")), Call("name", <<>>)), Do(Call("nothing", <<V("q")>>))>>,
   <<VarIs("q", PtrTo(P("void")), Null), Show(Un("*", V("q")))>>, <<VarIs("q", PtrTo(I4), Null), Show(Un("*", V("q")))>>}

StructBodies ==
  {SetPoint \o <<VarIs("i", I4, CallOn(V("p"), "scale", <<Mem(V("p"), "x")>>)), Show(V("i"))>>,
   SetPoint \o Shows(<<Mem(V("p"), "x"), Mem(V("p"), "y"), CallOn(V("p"), "sum", <<>>), CallOn(V("p"), "sum", <<V("l")>>)>>),
   SetPoint \o <<Do(Bin("+=", Mem(V("p"), "x"), Num(2))), Do(CallOn(V("p"), "of", <<Mem(V("p"), "x")>>))>>,
   SetPoint \o <<VarIs("r", Bp("Point"), V("p")), Show(Mem(V("r"), "x"))>>,
   <<VarIs("p", Bp("Point"), Vals(<<V("n"), V("l")>>)), Show(Mem(V("p"), "x"))>>,
   <<VarIs("p", Bp("Point"), NamedVals(<<"y">>, <<V("l")>>)), Show(Mem(V("p"), "y"))>>,
   <<VarIs("p", Bp("Point"), IndexedVals(<<1>>, <<V("l")>>)), Show(Mem(V("p"), "y"))>>,
   <<VarIs("p", Bp("Pair"), Vals(<<Num(4), V("n")>>)), Show(Mem(V("p"), "b"))>>,
   <<VarIs("p", Bp("Point"), Vals(<<Num(1), V("l"), Num(3)>>))>>,
   <<VarIs("p", Bp("Point"), NamedVals(<<"z">>, <<Num(1)>>))>>,
   <<VarIs("p", Bp("None"), Vals(<<>>)), Show(V("p"))>>,
   <<VarIs("o", Bp("One"), Lit("float", 4)), Show(Bin("<", Mem(V("o"), "v"), Lit("float", 5)))>>,
   <<Var("o", Bp("One")), Show(Mem(V("o"), "v")), Do(Bin("=", Mem(V("o"), "v"), Lit("float", 5))), Show(Mem(V("o"), "v"))>>,
   <<VarIs("o", Bp("One"), Num(4))>>,
   SetPoint \o <<Var("k", Bp("Line")), Do(Bin("=", Mem(V("k"), "to"), Un("&", V("p")))),
                 Show(Mem(Mem(V("k"), "to"), "y"))>>,
   VarPoint \o <<Var("k", Bp("Line")), Do(Bin("=", Mem(Mem(V("k"), "from"), "x"), Num(1)))>>,
   <<Var("t", Anon(<<P("char"), I4>>)), Do(V("t"))>>,
   <<VarIs("t", Anon(<<I4, I4>>), Vals(<<Num(1), Num(2)>>))>>,
   VarPoint \o <<Var("r", Bp("p")), Do(Bin("=", Mem(V("r"), "y"), V("l"))), Show(Mem(V("r"), "y"))>>}

NameBodies ==
  {VarPoint \o <<VarIs("x", I4, CallOn(V("Point"), "sum", <<>>))>>, VarPoint \o <<Do(CallOn(V("Point"), "of", <<V("n")>>))>>,
   <<Do(Mem(V("Point"), "x"))>>,
   VarPoint \o <<Do(Mem(V("p"), "sum"))>>, VarPoint \o <<Show(Mem(V("p"), "x"))>>, VarPoint \o <<Do(CallOn(V("p"), "x", <<>>))>>,
   VarPoint \o <<Do(CallOn(V("p"), "later", <<>>))>>, VarPoint \o <<Do(CallOn(V("p"), "sum", <<Null>>))>>,
   <<Do(Call("later", <<>>))>>, <<Do(V("nothing"))>>, <<Do(V("Point"))>>, <<Do(V("unknown"))>>, <<Do(Call("n", <<>>))>>,
   <<Show(Un("-", V("unknown")))>>, <<Show(Mem(V("n"), "x"))>>, <<Show(Idx(V("n"), Num(0)))>>, <<Do(Bin("=", V("n"), Num(1)))>>,
   <<Var("x", Bp("Nope"))>>, <<Var("x", I4), Var("x", I4)>>, <<VarIs("n", P("long"), V("l")), Show(V("n"))>>,
   <<Do(Bin("+", Un("-", Null), Num(1)))>>, <<Do(Un("&", V("n")))>>, <<Do(Un("*", V("n")))>>, <<Do(Un("!", V("n")))>>,
   <<Show(CastTo(I4, Ffi(<<>>)))>>, <<Show(CastTo(ArrayOf(2, I4), V("n")))>>, <<Do(Vals(<<>>))>>,
   VarPoint \o <<Do(CastTo(Bp("Point"), V("p")))>>, <<Do(Bin("+", Ffi(<<>>), Num(1)))>>, <<VarIs("x", I4, Str(3))>>,
   <<Do(Call("nothing", <<Num(1)>>))>>, <<VarIs("x", I4, Vals(<<Num(1)>>))>>}

Flag == VarIs("t", P("bool"), Bin("<", V("n"), Num(5)))

ValueBodies ==
  {<<Flag, Show(Bin("&&", V("t"), Un("!", V("t")))), Show(Un("~", V("n"))), Show(Un("+", V("n")))>>,
   <<VarIs("f", P("float"), V("n")), VarIs("d", P("double"), V("f")), Show(Bin("<", V("d"), Lit("float", 3)))>>
     \o Shows(<<Bin(">=", V("n"), V("f")), Bin("!=", V("f"), Null), Bin("*", V("d"), V("d"))>>),
   <<VarIs("f", P("float"), V("n"))>> \o Shows(<<CastTo(I4, V("f")), CastTo(P("long"), V("n")), CastTo(P("double"), V("n"))>>),
   <<VarIs("c", P("char"), Lit("char", 9)), VarIs("i", I4, Num(2)), Show(Bin("||", Bin("==", V("c"), V("c")), Lit("bool", 0)))>>
     \o <<Do(Bin("*=", V("i"), Bin("-", V("n"), Num(4)))), Show(V("i"))>>,
   <<VarIs("s", ArrayOf(NoSize, P("char")), Str(8)), Show(Str(8)), Show(Str(9))>>,
   <<Show(Ffi(<<V("n")>>)), VarIs("x", I4, Un("-", V("n"))), Show(Bin("-", V("x"), Un("-", V("x"))))>>,
   <<Var("x", P("short")), Show(Bin("==", V("x"), Num(0))), Var("y", P("bool")), Show(Un("!", V("y")))>>}

ArrayBodies ==
  {<<VarIs("v", ArrayOf(3, I4), Vals(<<Num(1), V("n"), Num(3)>>)), Do(Bin("=", Idx(V("v"), V("n")), Num(8)))>>
     \o Shows(<<Idx(V("v"), Num(0)), Idx(V("v"), V("n")), Idx(V("v"), CastTo(P("long"), Num(2)))>>),
   <<VarIs("v", ArrayOf(NoSize, P("long")), Vals(<<V("l"), V("l")>>)), Show(Idx(V("v"), Num(1)))>>,
   <<VarIs("v", ArrayOf(2, P("long")), Vals(<<V("n"), V("l")>>)), Show(Idx(V("v"), Num(1)))>>,
   <<VarIs("v", ArrayOf(3, I4), IndexedVals(<<2, 0>>, <<Num(1), Num(2)>>)), Show(Idx(V("v"), Num(2)))>>,
   <<VarIs("v", ArrayOf(1, I4), Vals(<<Num(1), Num(2)>>))>>, <<Var("v", ArrayOf(NoSize, I4))>>,
   <<VarIs("v", ArrayOf(2, Bp("Pair")), Vals(<<Vals(<<Num(1), Num(2)>>), Vals(<<Num(3), Num(4)>>)>>)),
     Show(Mem(Idx(V("v"), Num(1)), "a"))>>,
   <<VarIs("v", ArrayOf(2, Bp("Pair")), Vals(<<NamedVals(<<"b">>, <<Num(1)>>), Vals(<<Num(3)>>)>>))>>,
   <<Var("v", ArrayOf(2, I4)), Do(Bin("=", Idx(V("v"), Num(2)), Num(5)))>>,
   <<Var("v", ArrayOf(2, ArrayOf(2, I4))), Do(Bin("=", Idx(Idx(V("v"), Num(1)), Num(0)), Num(5)))>>,
   <<Var("v", ArrayOf(Computed, I4)), Var("w", I4)>>,
   <<Var("v", ArrayOf(2, I4)), VarIs("w", ArrayOf(2, I4), V("v")), Show(Idx(V("w"), Num(0)))>>}

OtherPrograms ==
  {Program(<<>>, <<Main(I4)>>, <<Do(Num(1))>>), Program(<<>>, <<Main(P("void"))>>, <<RetNone>>),
   Program(<<>>, <<Main(P("void"))>>, <<Ret(Call("main", <<>>))>>), Program(<<>>, <<Main(P("double"))>>, <<Ret(Num(1))>>),
   Program(<<>>, <<Main(PtrTo(I4))>>, <<Ret(Null)>>), Program(<<>>, <<Main(I4)>>, <<Ret(Lit("float", 1)), Ret(Num(1))>>),
   Program(<<Point>>, <<Main(Bp("Point"))>>, <<Ret(Vals(<<Num(1), Num(2)>>))>>),
   Program(<<>>, <<FuncTerm("f", <<Named1("a", I4), Named1("a", I4)>>, I4, TRUE)>>, <<Ret(V("a"))>>),
   Program(<<Point>>, <<FuncTerm("f", <<Named1("p", Bp("Point")), Named1("i", P("char"))>>, I4, TRUE)>>,
           <<Show(Mem(V("p"), "x")), Ret(V("i"))>>)}

SelfX == Mem(V("self"), "x")
SelfY == Mem(V("self"), "y")

(* Of its methods sum, of, scale and inverted.                             *)
MethodPrograms ==
  {MethodBody(1, 1, body) : body \in
     {<<Ret(SelfX)>>, <<Do(Bin("=", SelfX, Num(4))), Ret(SelfX)>>, <<Ret(V("x"))>>, <<Ret(V("self"))>>, <<Ret(V("Point"))>>,
      <<VarIs("r", Bp("Point"), V("self")), Do(Bin("=", Mem(V("r"), "x"), Num(2))), Ret(Mem(V("r"), "x"))>>,
      <<VarIs("q", PtrTo(Bp("Point")), Un("&", V("self"))), Ret(SelfX)>>, <<Do(Call("show", <<V("self")>>)), Ret(SelfX)>>,
      <<Do(Call("nothing", <<Un("&", SelfX)>>)), Ret(Num(0))>>, <<Show(SelfX)>>}}
    \cup {MethodBody(1, 2, body) : body \in
     {<<Do(Bin("=", SelfY, V("by"))), Do(Bin("-=", SelfY, V("by"))), Ret(SelfY)>>,
      <<Ret(CallOn(V("self"), "sum", <<V("by")>>))>>}}
    \cup {MethodBody(2, 1, body) : body \in {<<Show(V("n")), RetNone>>, <<Show(SelfX), RetNone>>, <<Show(V("n"))>>}}
    \cup {MethodBody(3, 1, body) : body \in
     {<<Do(Bin("=", SelfX, V("by"))), Do(Bin("=", SelfY, CastTo(P("long"), V("by")))), Show(SelfY),
        Ret(Bin("*", SelfX, CallOn(V("self"), "scale", <<SelfX>>)))>>,
      <<VarIs("q", PtrTo(I4), Un("&", SelfX)), Do(Bin("=", Un("*", V("q")), V("by"))), Ret(SelfX)>>,
      <<Do(Bin("=", V("self"), V("self"))), Ret(V("by"))>>}}
    \cup {MethodBody(6, 1, body) : body \in
     {<<Ret(V("self"))>>, <<Ret(Vals(<<Un("-", SelfX), Un("-", SelfY)>>))>>, <<Ret(CallOn(V("self"), "inverted", <<>>))>>,
      VarPoint \o <<Ret(V("p"))>>}}

BodyPrograms ==
  {Body(statements) : statements \in AddressBodies \cup StructBodies \cup NameBodies \cup ValueBodies \cup ArrayBodies}
    \cup MethodPrograms \cup OtherPrograms

-----------------------------------------------------------------------------
(* The layout of C, of the types as they are written.  A blueprint without *)
(* fields has eight bytes.                                                 *)

CSize == [void |-> 0, bool |-> 1, char |-> 1, short |-> 2, int |-> 4, long |-> 8, float |-> 4, double |-> 8]
CAlign == [CSize EXCEPT !.void = 1]

RoundUp(n, align) == CHOOSE m \in n .. n + align - 1 : m % align = 0

Member(before, m) ==
  LET at == RoundUp(before.end, m.align)
  IN [end |-> at + m.size, align |-> Max({before.align, m.align}), offsets |-> Append(before.offsets, at)]

Struct(ms) == Through(Member, [end |-> 0, align |-> 1, offsets |-> <<>>], ms)

RECURSIVE CLayout(_)
CStruct(ts) == Struct([i \in DOMAIN ts |-> CLayout(ts[i])])

CLayout(t) ==
  LET type == program.types[t]
      Whole(s) == [size |-> IF s.end = 0 THEN 8 ELSE RoundUp(s.end, s.align), align |-> s.align]
  IN CASE type.tag = "primitive" -> [size |-> CSize[type.prim], align |-> CAlign[type.prim]]
       [] type.tag = "pointer" -> [size |-> 8, align |-> 8]
       [] type.tag = "array" -> With(CLayout(type.inner[1]), LAMBDA m : [m EXCEPT !.size = type.count * @])
       [] type.tag = "anon" -> With(CStruct(type.inner), Whole)
       [] type.tag = "blueprint" ->
            With(CStruct(FieldTypes(program.blueprints[Min(Named(type.name))].fields)), Whole)

(* The blueprints that a type mentions, and those that follow from them.   *)
Mentions[t \in DOMAIN program.types] ==
  IF program.types[t].tag = "blueprint" THEN Named(program.types[t].name)
  ELSE UNION {Mentions[i] : i \in ToSet(program.types[t].inner)}

FieldTypesOf(b) == ToSet(FieldTypes(program.blueprints[b].fields))

Follow(bs) ==
  Through(LAMBDA known, b : IF b \in known THEN known \cup UNION {Mentions[t] : t \in FieldTypesOf(b)} ELSE known,
          bs, FlattenSeq([n \in DOMAIN program.blueprints |-> [b \in DOMAIN program.blueprints |-> b]]))

(* Such a blueprint has no layout, but for one that has pointers to itself *)
(* inside an array.                                                        *)
ContainsItself(b) ==
  \E t \in FieldTypesOf(b) : program.types[t].tag # "pointer" /\ b \in Follow(Mentions[t])

HasLayout == \A b \in DOMAIN program.blueprints : ~ContainsItself(b)

(* Every type has the size and the alignment it has in C, and every field  *)
(* its offset, whatever the order in which types are resolved: an example  *)
(* says that a blueprint is like a struct in C, and C code is called.      *)
SizesRight ==
  phase = "params" /\ HasLayout =>
    /\ \A t \in DOMAIN program.types :
         IsResolved(t) /\ (Tag(t) = "array" => types[t].count >= 0) =>
           [size |-> tasts[t].size, align |-> tasts[t].align] = CLayout(t)
    /\ \A b \in DOMAIN program.blueprints :
         [i \in DOMAIN blueprints[b].fields |-> blueprints[b].fields[i].offset]
           = CStruct(FieldTypes(program.blueprints[b].fields)).offsets

-----------------------------------------------------------------------------
(* The programs whose code QBE accepts, by the types of their expressions. *)

ClassOf(t) ==
  CASE Prim(t) \in {"int", "bool", "char", "short"} -> "w"
    [] Prim(t) = "float" -> "s"
    [] Prim(t) = "double" -> "d"
    [] t = 0 \/ Prim(t) = "void" -> ""
    [] OTHER -> "l"

ClassOfExpr(e) == IF Kind(e) = "ffi" THEN "w" ELSE ClassOf(TypeOf(e))

(* A long is taken where a word is wanted.                                 *)
Takes1(class, e) == ClassOfExpr(e) = class \/ (class = "w" /\ ClassOfExpr(e) = "l")
Takes2(l, r) == Takes1(ClassOfExpr(l), r)

(* Not a byte or a half.  The types of literals, comparisons and casts are *)
(* never resolved, and are taken for words.                                *)
IsPlain(e) ==
  /\ ClassOfExpr(e) # ""
  /\ Prim(TypeOf(e)) \in {"bool", "char", "short"} => ~IsResolved(TypeOf(e)) /\ Prim(TypeOf(e)) # "short"

(* Expressions that do not say what they are, and are taken for a word     *)
(* where the code asks their value instead of their type.                  *)
IsSilent(e) == Kind(e) \in {"call", "cast", "ffi", "init"} \/ (Kind(e) = "unary" /\ E(e).op # "&")

FloatExpr(e) == IsFloat(TypeOf(e))

BinarySupported(op, l, r) ==
  CASE op \in Arithmetic \ {"%"} -> IsPlain(l) /\ Takes2(l, r)
    [] op \in BitOps \cup {"%"} -> IsPlain(l) /\ Takes2(l, r) /\ ~FloatExpr(l)
    [] op \in Ordering \cup Equality ->
         /\ \A e \in {l, r} : FloatExpr(e) => ~IsSilent(e)
         /\ FloatExpr(l) /\ FloatExpr(r) => ClassOfExpr(l) = ClassOfExpr(r)
         /\ FloatExpr(l) # FloatExpr(r) => \A e \in {l, r} : IsPlain(e) \/ IsSilent(e)
    [] op \in Logical -> TRUE
    [] op \in Assignment -> IF Kind(l) = "unary" THEN Takes1("w", r) ELSE IsPlain(l) /\ Takes2(l, r)

CastSupported(e, t) ==
  /\ ClassOf(t) # "" /\ Prim(t) # "short"
  /\ IF IsPlain(e)
       THEN ~(IsFloat(t) /\ FloatExpr(e)) \/ ClassOf(t) = ClassOfExpr(e)
       ELSE ClassOf(t) = ClassOfExpr(e)

Operand(e) == E(e).parts[1]

Supports(e) ==
  CASE Kind(e) = "literal" -> TRUE
    [] Kind(e) = "ident" -> texprs[e].symbol.kind \in {"var", "param"} => ClassOfExpr(e) # ""
    [] Kind(e) = "binary" -> BinarySupported(E(e).op, Operand(e), E(e).parts[2])
    [] Kind(e) = "unary" -> E(e).op \in {"-", "*"} => IsPlain(e)
    [] Kind(e) = "call" ->
         /\ Prim(TypeOf(e)) = "void" \/ IsPlain(e)
         /\ \A i \in 2 .. Len(E(e).parts) : IsPlain(E(e).parts[i])
    [] Kind(e) = "ffi" -> \A i \in DOMAIN E(e).parts : IsPlain(E(e).parts[i])
    [] Kind(e) = "member" -> ClassOfExpr(e) # ""
    [] Kind(e) = "index" -> ClassOfExpr(e) # "" /\ IsPlain(E(e).parts[2])
    [] Kind(e) = "cast" -> CastSupported(Operand(e), E(e).type)
    [] Kind(e) = "init" ->
         \A p \in ToSet(GenParts(e)) :
           ClassOfExpr(p) # "" /\ (TypeOf(p) = 0 => Tag(targets[e]) = "array" /\ ClassOf(Inner(targets[e])) = "w")

RECURSIVE AllSupported(_)
AllSupported(e) == Supports(e) /\ \A p \in ToSet(GenParts(e)) : AllSupported(p)

(* A value that says what it is is converted, if it is not too narrow.     *)
DeclSupported(t, e) ==
  LET stored == IF OneField(t) THEN FieldsOf(t)[1].type ELSE t
  IN \/ OwnMemory(t)
     \/ Takes1(ClassOf(stored), e)
     \/ ~IsSilent(e) /\ IsPlain(e)
        /\ ClassOfExpr(e) \in (IF ClassOf(t) \in {"s", "d"} THEN {"w", "l", "s", "d"} ELSE {"w"})

ReturnSupported(e) == Prim(Func.result) # "void" /\ Takes1(ClassOf(Func.result), e)

StmtSupported(s) ==
  /\ Has(s) => AllSupported(Value(s))
  /\ S(s).kind = "decl" => ClassOf(S(s).type) # "" /\ (Has(s) => DeclSupported(S(s).type, Value(s)))
  /\ S(s).kind = "return" => s = Len(program.body) /\ (Has(s) => ReturnSupported(Value(s)))

Supported ==
  /\ \A i \in DOMAIN Params : ClassOf(Params[i].type) # ""
  /\ \A s \in DOMAIN program.body : StmtSupported(s)
  /\ program.body # <<>> /\ Last(program.body).kind = "return"

(* Nothing was given up without a word.                                    *)
AllTyped == \A e \in DOMAIN program.exprs : texprs[e].typed

(* What keeps to what is supported is compiled to code that QBE takes,     *)
(* whatever the types of its operands and the conversions between them.    *)
QbeAccepts == phase = "done" /\ AllTyped /\ Supported => Accepts(code)

-----------------------------------------------------------------------------
(* What the documentation says and the code does not do.                   *)

(* Example.iira:73 and 137: a blueprint whose fields are of type float, a  *)
(* field that gets an integer, and a function of type void without a       *)
(* return.                                                                 *)
ExamplePrograms ==
  {Program(<<Blueprint("Point", <<Named1("positionX", P("float")), Named1("positionY", P("float"))>>)>>,
           <<FuncTerm("test", <<>>, P("void"), TRUE)>>,
           <<Var("p1", Bp("Point")), Do(Bin("=", Mem(V("p1"), "positionX"), Num(3)))>>)}

(* test.sh:12 pipes the output for every correct program into QBE and asks *)
(* it to succeed.                                                          *)
ExamplesCompile == phase = "done" /\ AllTyped => Accepts(code)

-----------------------------------------------------------------------------
(* What the body of a function does by its source: the calls it makes, and *)
(* the value it returns.  A place is a variable, a field or an element; a  *)
(* value may be unknown, as that of a variable C would not initialize.     *)

NoPlace == <<>>
Step(name, i) == [name |-> name, i |-> i]

Known(n) == [is |-> "number", n |-> n, at |-> NoPlace]
StringValue(v) == [is |-> "string", n |-> v, at |-> NoPlace]
AddressOf(place) == [is |-> "address", n |-> 0, at |-> place]
Unknown == [is |-> "unknown", n |-> 0, at |-> NoPlace]

At1(st, place) == IF place \in DOMAIN st.env THEN st.env[place] ELSE Unknown
SetTo(st, place, v) == [st EXCEPT !.env = place :> v @@ @]

(* The state after an expression has its value and, if it has one, its     *)
(* place.                                                                  *)
Gives1(st, v) == [st EXCEPT !.v = v, !.at = NoPlace]
GivesPlace(st, place) == [st EXCEPT !.v = At1(st, place), !.at = place]

(* Through a value that is no address, nothing is defined.                 *)
GoTo(st, v, path) == [GivesPlace(st, v.at \o path) EXCEPT !.defined = @ /\ v.is = "address"]

Arith(op, a, b) ==
  IF a.is # "number" \/ b.is # "number" THEN Unknown
  ELSE CASE op = "+" -> Known(a.n + b.n)
         [] op = "-" -> Known(a.n - b.n)
         [] op = "*" -> Known(a.n * b.n)
         [] op = "&&" -> Known(IF a.n # 0 /\ b.n # 0 THEN 1 ELSE 0)
         [] op = "||" -> Known(IF a.n # 0 \/ b.n # 0 THEN 1 ELSE 0)
         [] op \in Ordering \cup Equality -> Known(IF Holds(op, a.n, b.n) THEN 1 ELSE 0)
         [] OTHER -> Unknown

(* What is passed for an argument or returned has the class asked for.     *)
Event(name, classes, values) == [name |-> name, args |-> [i \in DOMAIN values |-> [class |-> classes[i], v |-> values[i]]]]
Made(st) == Len(SelectSeq(st.trace, LAMBDA event : event.name # "ret"))

Called(st, name, classes, values) ==
  [Gives1(st, Known(100 + Made(st))) EXCEPT !.trace = Append(@, Event(name, classes, values))]

Callee(e) == Head(Fitting(E(e).parts[1], Tail(E(e).parts)))
WantedClasses(e) == [i \in DOMAIN Tail(E(e).parts) |->
                       LET ps == IF IsMethod(E(e).parts[1]) THEN ParamsTaken(Callee(e)) ELSE Callee(e).params
                       IN AbiClass(ClassOf(ps[i].type))]

RECURSIVE Eval(_, _)
EvalAll(st, es) ==
  Through(LAMBDA so, e : With(Eval(so.st, e), LAMBDA next : [st |-> next, vs |-> Append(so.vs, next.v)]),
          [st |-> st, vs |-> <<>>], es)

VarPlace(symbol, e) == <<Step(symbol.kind, 0), Step(E(e).name, 0)>>

Assigned(st, op, place, old, v) ==
  With(IF op = "=" THEN v ELSE Arith(Simple[op], old, v),
       LAMBDA new : [Gives1(SetTo(st, place, new), new) EXCEPT !.defined = @ /\ place # NoPlace])

EvalUnary(st, op) ==
  CASE op = "-" -> Gives1(st, Arith("-", Known(0), st.v))
    [] op = "!" -> Gives1(st, Arith("==", st.v, Known(0)))
    [] op = "~" -> Gives1(st, Arith("-", Known(-1), st.v))
    [] op = "+" -> Gives1(st, st.v)
    [] op = "&" -> Gives1(st, AddressOf(st.at))
    [] op = "*" -> GoTo(st, st.v, <<>>)

Eval(st, e) ==
  CASE Kind(e) = "literal" ->
         Gives1(st, IF E(e).op = "string" THEN StringValue(E(e).value) ELSE Known(E(e).value))
    [] Kind(e) = "ident" ->
         IF texprs[e].symbol.kind \in {"var", "param"} THEN GivesPlace(st, VarPlace(texprs[e].symbol, e)) ELSE Gives1(st, Unknown)
    [] Kind(e) = "binary" ->
         With(Eval(st, Operand(e)), LAMBDA l :
         With(Eval(l, E(e).parts[2]), LAMBDA r :
           IF E(e).op \in Assignment THEN Assigned(r, E(e).op, l.at, l.v, r.v) ELSE Gives1(r, Arith(E(e).op, l.v, r.v))))
    [] Kind(e) = "unary" -> With(Eval(st, Operand(e)), LAMBDA o : EvalUnary(o, E(e).op))
    [] Kind(e) = "cast" -> With(Eval(st, Operand(e)), LAMBDA o : Gives1(o, o.v))
    [] Kind(e) = "member" ->
         With(Eval(st, Operand(e)), LAMBDA o :
           GoTo(o, IF IsPointer(TypeOf(Operand(e))) THEN o.v ELSE AddressOf(o.at), <<Step(E(e).name, 0)>>))
    [] Kind(e) = "index" ->
         With(Eval(st, Operand(e)), LAMBDA a :
         With(Eval(a, E(e).parts[2]), LAMBDA i :
           [GivesPlace(i, Append(a.at, Step("", i.v.n))) EXCEPT
              !.defined = @ /\ i.v.is = "number" /\ i.v.n \in 0 .. (tasts[TypeOf(Operand(e))].size \div tasts[TypeOf(e)].size) - 1]))
    [] Kind(e) = "call" /\ IsMethod(Operand(e)) ->
         With(Eval(st, Operand(Operand(e))), LAMBDA o :
         With(EvalAll(o, Tail(E(e).parts)), LAMBDA as :
           Called(as.st, E(Operand(e)).name, <<"l">> \o WantedClasses(e), <<AddressOf(o.at)>> \o as.vs)))
    [] Kind(e) = "call" /\ ~IsMethod(Operand(e)) ->
         With(EvalAll(st, Tail(E(e).parts)), LAMBDA as : Called(as.st, E(Operand(e)).name, WantedClasses(e), as.vs))
    [] Kind(e) = "ffi" ->
         With(EvalAll(st, E(e).parts), LAMBDA as :
           Called(as.st, E(e).name, [i \in DOMAIN E(e).parts |-> ClassOfExpr(E(e).parts[i])], as.vs))

(* Variables of primitive types, and of one field, are zero initialized.   *)
ZeroPlaces(s, place) ==
  CASE Tag(S(s).type) \in Scalar -> {place}
    [] OneField(S(s).type) -> {Append(place, Step(FieldsOf(S(s).type)[1].name, 0))}
    [] OTHER -> {}

EvalDecl(st, s) ==
  LET place == <<Step("var", 0), Step(S(s).name, 0)>>
  IN IF ~Has(s) THEN [st EXCEPT !.env = [p \in ZeroPlaces(s, place) |-> Known(0)] @@ @]
     ELSE IF Kind(Value(s)) = "init"
       THEN With(EvalAll(st, E(Value(s)).parts), LAMBDA as :
              [as.st EXCEPT !.env = [p \in {Append(place, Step("", i - 1)) : i \in DOMAIN as.vs}
                                       |-> as.vs[Last(p).i + 1]] @@ @])
       ELSE With(Eval(st, Value(s)), LAMBDA so : [so EXCEPT !.env = [p \in ZeroPlaces(s, place) |-> so.v] @@ @])

EvalStmt(st, s) ==
  CASE S(s).kind = "decl" -> EvalDecl(st, s)
    [] S(s).kind = "expr" -> Eval(st, Value(s))
    [] S(s).kind = "return" /\ ~Has(s) -> st
    [] S(s).kind = "return" /\ Has(s) ->
         With(Eval(st, Value(s)), LAMBDA so :
           [so EXCEPT !.trace = Append(@, Event("ret", <<AbiClass(ClassOf(Func.result))>>, <<so.v>>))])

Meaning ==
  Through(EvalStmt,
          [env |-> [p \in {<<Step("param", 0), Step(Params[i].name, 0)>> : i \in DOMAIN Params} |->
                      IF p[2].name = "self" THEN Unknown
                      ELSE Known(CHOOSE i \in DOMAIN Params : Params[i].name = p[2].name)],
           trace |-> <<>>, v |-> Unknown, at |-> NoPlace, defined |-> TRUE],
          [s \in DOMAIN program.body |-> s])

-----------------------------------------------------------------------------
(* Of the programs that compile, those whose code does what they say.  It  *)
(* does not where a long is cut to a word, where what a blueprint or an    *)
(* array holds is asked for its address, where the values of a blueprint   *)
(* are to be stored, and where operands are evaluated that should not be.  *)

IsScalar(t) == Tag(t) \in Scalar
IsVariable(e) == Kind(e) = "ident" /\ texprs[e].symbol.kind \in {"var", "param"}

RECURSIVE HasEffect(_)
HasEffect(e) ==
  \/ Kind(e) \in {"call", "ffi"} \/ (Kind(e) = "binary" /\ E(e).op \in Assignment)
  \/ \E p \in ToSet(E(e).parts) : HasEffect(p)

BinaryFaithful(op, l, r) ==
  CASE op \in Ordering \cup Equality ->
         \A e \in {l, r} : ClassOfExpr(e) = "l" => FloatExpr(IF e = l THEN r ELSE l) /\ ~IsSilent(e)
    [] op \in Logical -> ~HasEffect(r)
    [] op \in Assignment /\ Kind(l) = "unary" -> ClassOfExpr(l) = "w" /\ ClassOfExpr(r) = "w"
    [] OTHER -> IsScalar(TypeOf(l)) /\ ClassOfExpr(l) = ClassOfExpr(r)

(* The function that is called is told by its name alone.                  *)
CallFaithful(e) ==
  /\ IsMethod(Operand(e)) =>
       /\ ~Callee(e).static
       /\ Len(Candidates(Operand(e))) = 1
       /\ IsVariable(Operand(Operand(e)))
  /\ \A i \in DOMAIN WantedClasses(e) : ClassOfExpr(E(e).parts[i + 1]) = WantedClasses(e)[i]

ExprFaithful(e) ==
  CASE Kind(e) \in {"literal", "ident"} -> TRUE
    [] Kind(e) = "binary" -> BinaryFaithful(E(e).op, Operand(e), E(e).parts[2])
    [] Kind(e) = "unary" ->
         CASE E(e).op = "*" -> IsScalar(TypeOf(e))
           [] E(e).op = "~" -> ClassOfExpr(e) = "w"
           [] E(e).op = "&" -> Tag(TypeOf(Operand(e))) # "array"
           [] OTHER -> TRUE
    [] Kind(e) = "call" -> CallFaithful(e)
    [] Kind(e) = "ffi" -> TRUE
    [] Kind(e) = "member" -> IsScalar(TypeOf(e)) /\ (IsPointer(TypeOf(Operand(e))) \/ IsVariable(Operand(e)))
    [] Kind(e) = "index" -> IsScalar(TypeOf(e)) /\ IsVariable(Operand(e))
    [] Kind(e) = "cast" -> ClassOfExpr(Operand(e)) = "l" => ClassOf(E(e).type) # "w"
    [] Kind(e) = "init" -> FALSE

RECURSIVE AllFaithful(_)
AllFaithful(e) == ExprFaithful(e) /\ \A p \in ToSet(GenParts(e)) : AllFaithful(p)

(* The values of an array are stored one by one.                           *)
ValuesFaithful(t, e) ==
  /\ Tag(t) = "array" /\ E(e).indices = <<>>
  /\ \A p \in ToSet(E(e).parts) :
       /\ AllFaithful(p)
       /\ Prim(Inner(t)) \notin {"bool", "char", "short"}
       /\ IsScalar(Inner(t)) /\ ClassOfExpr(p) = ClassOf(Inner(t))

DeclFaithful(t, e) ==
  IF Kind(e) = "init" THEN ValuesFaithful(t, e)
  ELSE /\ AllFaithful(e)
       /\ IsScalar(t) \/ OneField(t)
       /\ ClassOfExpr(e) = "l" => ClassOf(t) # "w"

StmtFaithful(s) ==
  Has(s) =>
    CASE S(s).kind = "decl" -> DeclFaithful(S(s).type, Value(s))
      [] S(s).kind = "expr" -> AllFaithful(Value(s))
      [] S(s).kind = "return" -> AllFaithful(Value(s)) /\ ClassOfExpr(Value(s)) = AbiClass(ClassOf(Func.result))

Faithful ==
  /\ phase = "done" /\ AllTyped /\ Supported
  /\ \A i \in DOMAIN Params : IsScalar(Params[i].type) \/ Params[i].type = SelfType
  /\ \A s \in DOMAIN program.body : StmtFaithful(s)

IsValue(c, v) ==
  CASE v.is = "number" -> IsNumber(c) /\ c.n = v.n
    [] v.is = "address" -> IsAddress(c)
    [] v.is = "string" -> IsAddress(c) /\ c.obj - 1000 \in 0 .. Len(strings) - 1 /\ strings[c.obj - 999] = v.n
    [] v.is = "unknown" -> TRUE

IsEvent(c, event) ==
  /\ c.name = event.name
  /\ Len(c.args) = Len(event.args)
  /\ \A i \in DOMAIN c.args : c.args[i].class = event.args[i].class /\ IsValue(c.args[i], event.args[i].v)

(* Such code does what the program says: the same calls in the same order, *)
(* with the values and the classes that the functions called expect, and   *)
(* the same result, through every conversion, variable, pointer, field and *)
(* element on the way; and it stays inside of its variables and of what it *)
(* has allocated.                                                          *)
ValuesFollow ==
  Faithful =>
    With(Meaning, LAMBDA means :
    With(Run(code), LAMBDA ran :
      means.defined =>
        /\ ran.inside
        /\ Len(ran.trace) = Len(means.trace)
        /\ \A i \in DOMAIN means.trace : IsEvent(ran.trace[i], means.trace[i])))

-----------------------------------------------------------------------------
MCPrograms == LayoutPrograms \cup OperatorPrograms \cup DeclPrograms \cup BodyPrograms

=============================================================================
