------------------------------ MODULE MCBodies ------------------------------
(***************************************************************************)
(* Programs for Bodies, and what their names should stand for.  Each has a *)
(* function f, which calls of f mean; in its first body one compound       *)
(* statement of each form is around every pair of leaves, after and before *)
(* other declarations and uses, or loops are nested; its last body is      *)
(* always the same, and would see what is left of the first.               *)
(***************************************************************************)
EXTENDS Bodies, TLC

(* Expressions.                                                            *)
E(form, name, parts) == [form |-> form, name |-> name, parts |-> parts]
Lit == E("literal", "", <<>>)
N(name) == E("name", name, <<>>)
Forms ==
  {E("binary", "", <<N("x"), N("y")>>), E("call", "", <<N("f"), N("y"), N("x")>>),
   E("call", "", <<N("x"), N("y")>>), E("parts", "", <<N("y"), N("x")>>),
   E("all", "", <<N("y"), N("x"), Lit>>)}
Nested ==
  {E("binary", "", <<e, N("x")>>) : e \in Forms} \cup {E("call", "", <<N("f"), e, N("x")>>) : e \in Forms}
MCExprs == {Lit, N("x"), N("y"), N("f")} \cup Forms \cup Nested

(* Statements.                                                             *)
S(kind, e, i, t, b, l) ==
  [kind |-> kind, name |-> "", size |-> 0, expr |-> e, init |-> i, iter |-> t, body |-> b, else |-> l]
Var(n, size, e) == [S("decl", e, <<>>, <<>>, <<>>, <<>>) EXCEPT !.name = n, !.size = size]
Expression(e) == S("expr", <<e>>, <<>>, <<>>, <<>>, <<>>)
Return(e) == S("return", e, <<>>, <<>>, <<>>, <<>>)
Break == S("break", <<>>, <<>>, <<>>, <<>>, <<>>)
Continue == S("continue", <<>>, <<>>, <<>>, <<>>, <<>>)
BlockOf(b) == S("block", <<>>, <<>>, <<>>, b, <<>>)
If(b, l) == S("if", <<N("x")>>, <<>>, <<>>, b, l)
While(b) == S("while", <<N("y")>>, <<>>, <<>>, b, <<>>)
Do(b) == S("do", <<N("y")>>, <<>>, <<>>, b, <<>>)
For(i, t, b) == S("for", <<N("x")>>, i, t, b, <<>>)

AskX == Expression(N("x"))
CallF == Expression(E("call", "", <<N("f"), N("y"), N("x")>>))
Leaves ==
  {Var("x", 12, <<>>), Var("x", 4, <<N("x")>>), Var("y", 0, <<N("x")>>), Var("f", 8, <<>>),
   AskX, CallF, Return(<<N("y")>>), Return(<<>>), Break, Continue}

Compounds(b, c) ==
  {BlockOf(b), While(b), Do(b), If(b, <<>>), If(b, <<BlockOf(c)>>), If(b, <<If(c, <<BlockOf(b)>>)>>),
   If(b, <<Break>>), If(b, <<AskX>>), For(<<>>, <<>>, b), For(<<Var("x", 20, <<Lit>>)>>, <<N("x")>>, b)}

Pairs == {<<a, b>> : a \in Leaves, b \in Leaves}
OneDeep == UNION {Compounds(b, <<b[2], b[1]>>) : b \in Pairs}
TwoDeep ==
  UNION {Compounds(<<s, Break>>, <<AskX>>) :
           s \in UNION {Compounds(<<a>>, <<Continue>>) : a \in {Var("y", 4, <<>>), AskX, Break}}}

Before == {<<>>, <<Var("x", 9, <<>>)>>}
After == <<CallF, Var("x", 8, <<N("x")>>), Break>>

Blocks ==
  {p \o <<s>> \o After : p \in Before, s \in OneDeep \cup TwoDeep} \cup
  {<<Expression(e), Var("x", 8, <<e>>), Return(<<e>>)>> : e \in MCExprs}

Last == [params |-> <<[name |-> "y", size |-> 8]>>, body |-> <<<<CallF, Continue>>>>, value |-> FALSE]
Params == {<<>>, <<[name |-> "x", size |-> 12], [name |-> "x", size |-> 0]>>}

MCPrograms ==
  {[globals |-> {"f"},
    bodies |-> <<[params |-> ps, body |-> <<b>>, value |-> ps # <<>>], Last>>] : ps \in Params, b \in Blocks}
    \cup {[globals |-> {"f", "y"}, bodies |-> <<[params |-> <<>>, body |-> <<>>, value |-> TRUE], Last>>]}

SubStmts(T) ==
  UNION {UNION {{part[i] : i \in DOMAIN part} : part \in {s.init, s.body, s.else}} : s \in T}
WithParts(T) == T \cup SubStmts(T)
MCStmts ==
  WithParts(WithParts(WithParts(UNION {{b[i] : i \in DOMAIN b} : b \in Blocks \cup {Last.body[1]}})))

-----------------------------------------------------------------------------
(* What every name stands for, without a chain of scopes: the declarations *)
(* in force are handed down, and what a block adds to them ends with it.   *)
(* st has what has been met so far, env the declarations, own the names    *)
(* declared in the innermost block.                                        *)

Use(n, env) == IF n \in DOMAIN env THEN env[n] ELSE Symbol("none", 0)
Complain(st, b, what, n) == [st EXCEPT !.reports = Append(@, [what |-> what, name |-> n, body |-> b])]

RECURSIVE AfterExpr(_, _, _, _), AfterExprs(_, _, _, _, _)

(* Records whether the expression is right as st.ok.                       *)
AfterExpr(st, b, env, e) ==
  CASE e.form = "literal" -> [st EXCEPT !.ok = TRUE]
    [] e.form = "name" ->
         LET symbol == Use(e.name, env)
             used == [st EXCEPT !.ok = symbol.kind # "none",
                                !.uses = Append(@, [name |-> e.name, body |-> b, kind |-> symbol.kind,
                                                    decl |-> symbol.decl])]
         IN IF used.ok THEN used ELSE Complain(used, b, "undefined", e.name)
    [] e.form = "binary" ->
         LET left == AfterExpr(st, b, env, e.parts[1])
             right == AfterExpr(left, b, env, e.parts[2])
         IN [right EXCEPT !.ok = @ /\ left.ok]
    [] e.form \in {"call", "parts"} ->
         LET all == AfterExprs(st, b, env, e.parts, TRUE)
             callee == e.parts[1].name
         IN IF all.ok /\ e.form = "call" /\ Use(callee, env).kind # "func"
              THEN [Complain(all, b, "not a function", callee) EXCEPT !.ok = FALSE]
              ELSE all
    [] e.form = "all" -> [AfterExprs(st, b, env, e.parts, FALSE) EXCEPT !.ok = TRUE]

AfterExprs(st, b, env, es, strict) ==
  IF es = <<>> THEN st
  ELSE LET first == AfterExpr(st, b, env, Head(es))
       IN IF strict /\ ~first.ok THEN first ELSE AfterExprs(first, b, env, Tail(es), strict)

(* A declaration extends env unless the block already has one of the name. *)
AfterDecl(st, b, env, own, kind, n) ==
  LET told == IF n \in own THEN Complain(st, b, "duplicate", n)
              ELSE IF n \in DOMAIN env THEN Complain(st, b, "shadows", n)
              ELSE st
      id == st.decls + 1
  IN [st |-> [told EXCEPT !.decls = id], own |-> own \cup {n},
      env |-> IF n \in own THEN env ELSE (n :> Symbol(kind, id)) @@ env]

RECURSIVE AfterStmts(_, _, _, _, _, _), AfterStmt(_, _, _, _, _, _)

AfterBlock(st, b, env, inLoop, ss) == AfterStmts(st, b, env, {}, inLoop, ss)

AfterStmts(st, b, env, own, inLoop, ss) ==
  IF ss = <<>> THEN st
  ELSE LET first == AfterStmt(st, b, env, own, inLoop, Head(ss))
       IN AfterStmts(first.st, b, first.env, first.own, inLoop, Tail(ss))

(* What follows else is left out unless it is a block or another if.       *)
AfterStmt(st, b, env, own, inLoop, s) ==
  LET Same(t) == [st |-> t, env |-> env, own |-> own]
      value == AfterExprs(st, b, env, s.expr, FALSE)
  IN CASE s.kind = "decl" -> AfterDecl(value, b, env, own, "var", s.name)
       [] s.kind \in {"expr", "return"} -> Same(value)
       [] s.kind = "block" -> Same(AfterBlock(st, b, env, inLoop, s.body))
       [] s.kind = "if" ->
            LET then == AfterBlock(value, b, env, inLoop, s.body)
                skipped == s.else = <<>> \/ s.else[1].kind \notin {"block", "if"}
            IN Same(IF skipped THEN then ELSE AfterStmts(then, b, env, own, inLoop, s.else))
       [] s.kind = "while" -> Same(AfterBlock(value, b, env, TRUE, s.body))
       [] s.kind = "do" -> Same(AfterExprs(AfterBlock(st, b, env, TRUE, s.body), b, env, s.expr, FALSE))
       [] s.kind = "for" ->
            LET start == IF s.init = <<>> THEN Same(st) ELSE AfterStmt(st, b, env, own, inLoop, s.init[1])
                asked == AfterExprs(start.st, b, start.env, s.expr \o s.iter, FALSE)
            IN [start EXCEPT !.st = AfterBlock(asked, b, start.env, TRUE, s.body)]
       [] s.kind \in {"break", "continue"} -> Same(IF inLoop THEN st ELSE Complain(st, b, s.kind, ""))

(* Parameters are declarations of a block around that of the body.         *)
RECURSIVE AfterParams(_, _, _), AfterBodies(_, _)
AfterParams(at, b, ps) ==
  IF ps = <<>> THEN at
  ELSE AfterParams(AfterDecl(at.st, b, at.env, at.own, "param", Head(ps).name), b, Tail(ps))

AfterBodies(st, b) ==
  IF b > Len(program.bodies) THEN st
  ELSE LET f == program.bodies[b]
           outer == [n \in program.globals |-> Symbol("func", 0)]
           at == AfterParams([st |-> st, env |-> outer, own |-> {}], b, f.params)
       IN AfterBodies(IF f.body = <<>> THEN at.st ELSE AfterBlock(at.st, b, at.env, FALSE, f.body[1]), b + 1)

Expected ==
  AfterBodies([decls |-> 0, uses |-> <<>>, reports |-> <<>>, ok |-> TRUE], 1)

(* A name stands for the declaration that is in force where it is: pushing *)
(* and popping scopes, of blocks, loops and bodies, in the order in which  *)
(* the statements are analysed, comes to the lexical scoping of the source.*)
ResolvesLexically == Finished => uses = Expected.uses

(* What is reported, in this order and nothing else, are the names without *)
(* a declaration, the declarations that repeat or hide another, the calls  *)
(* of what is no function, and the break and continue outside every loop   *)
(* of their own body (and functions without a return).                     *)
ReportsExactly ==
  Finished => SelectSeq(reports, LAMBDA r : r.what # "no return") = Expected.reports

RECURSIVE StrayExits(_, _)
StrayExits(ss, inLoop) ==
  IF ss = <<>> THEN 0
  ELSE LET s == Head(ss)
           within == inLoop \/ s.kind \in {"while", "do", "for"}
       IN (IF s.kind \in {"break", "continue"} /\ ~inLoop THEN 1 ELSE 0)
            + StrayExits(s.body, within) + StrayExits(s.else, within) + StrayExits(Tail(ss), inLoop)

(* "Break statement: only valid inside loop context": as many are reported *)
(* as there are outside every loop.                                        *)
BreaksReported ==
  Finished =>
    \A b \in DOMAIN program.bodies :
      LET block == program.bodies[b].body
          stray == IF block = <<>> THEN 0 ELSE StrayExits(block[1], FALSE)
      IN stray = Cardinality({r \in DOMAIN reports :
                                reports[r].what \in {"break", "continue"} /\ reports[r].body = b})

=============================================================================
