----------------------------- MODULE MCCodegen ------------------------------
(***************************************************************************)
(* Function bodies for Codegen: a loop of any kind, or an if, around every *)
(* leaf, every if of leaves and every inner loop, with and without code    *)
(* after them.  An expression is named by its path in the function, so no  *)
(* two are the same.                                                       *)
(***************************************************************************)
EXTENDS CodegenExec

Make(k, e, i, t, b, l) ==
  [kind |-> k, expr |-> e, init |-> i, iter |-> t, body |-> b, else |-> l]

(* Expressions are filled in by Tag.                                       *)
X == <<<<>>>>
E == Make("expr", X, <<>>, <<>>, <<>>, <<>>)
R == Make("return", X, <<>>, <<>>, <<>>, <<>>)
B == Make("break", <<>>, <<>>, <<>>, <<>>, <<>>)
C == Make("continue", <<>>, <<>>, <<>>, <<>>, <<>>)
BlockOf(b) == Make("block", <<>>, <<>>, <<>>, b, <<>>)
If(b, l) == Make("if", X, <<>>, <<>>, b, l)
While(b) == Make("while", X, <<>>, <<>>, b, <<>>)
Do(b) == Make("do", X, <<>>, <<>>, b, <<>>)
For(i, e, t, b) == Make("for", e, i, t, b, <<>>)

Loops(b) ==
  {While(b), Do(b)} \cup {For(i, e, t, b) : i \in {<<>>, <<E>>}, e \in {<<>>, X}, t \in {<<>>, X}}

Leaves == {E, R, B, C}

Ifs ==
  {If(<<a>>, <<>>) : a \in Leaves} \cup
  {If(<<a>>, <<BlockOf(<<b>>)>>) : a \in Leaves, b \in Leaves} \cup
  {If(<<E, a>>, <<If(<<b>>, <<BlockOf(<<>>)>>)>>) : a \in Leaves, b \in {E, B}} \cup
  {If(<<>>, <<If(<<R>>, <<BlockOf(<<a>>)>>)>>) : a \in Leaves}

InnerLoops == UNION {Loops(b) : b \in {<<E>>, <<B>>, <<If(<<B>>, <<>>), E>>, <<If(<<C>>, <<>>), E>>}}

LoopBodies ==
  {<<>>, <<E, E>>} \cup {<<a>> : a \in Leaves \cup Ifs} \cup {<<a, E>> : a \in {B} \cup Ifs}

OuterBodies ==
  {<<s, If(<<B>>, <<>>)>> : s \in InnerLoops} \cup {<<If(<<s>>, <<>>), C>> : s \in InnerLoops}

(* Statements that need no loop around them.                               *)
FreeLeaves == {E, R}

FreeIfs ==
  {If(<<a>>, <<>>) : a \in FreeLeaves} \cup
  {If(<<a>>, <<BlockOf(<<b>>)>>) : a \in FreeLeaves, b \in FreeLeaves} \cup
  {If(<<E, a>>, <<If(<<b>>, <<BlockOf(<<>>)>>)>>) : a \in FreeLeaves, b \in FreeLeaves}

Outer ==
  UNION {Loops(b) : b \in LoopBodies} \cup
  UNION {{While(b), Do(b), For(<<>>, X, <<>>, b)} : b \in OuterBodies} \cup
  FreeIfs \cup {If(<<s>>, <<BlockOf(<<E>>)>>) : s \in InnerLoops}

Functions ==
  {<<E>>} \cup {<<s>> : s \in Outer} \cup {<<s, R>> : s \in Outer} \cup {<<s, E, R>> : s \in Outer}

(* Names for the expressions.  Statements are nested five deep at most.    *)
Name(s, p, Inner(_, _)) ==
  [s EXCEPT !.expr = [i \in DOMAIN @ |-> Append(p, 0)],
            !.iter = [i \in DOMAIN @ |-> Append(p, 1)],
            !.init = [i \in DOMAIN @ |-> Inner(@[i], Append(p, 2))],
            !.body = [i \in DOMAIN @ |-> Inner(@[i], Append(p, 10 + i))],
            !.else = [i \in DOMAIN @ |-> Inner(@[i], Append(p, 3))]]

Unnamed(s, p) == s
Name1(s, p) == Name(s, p, Unnamed)
Name2(s, p) == Name(s, p, Name1)
Name3(s, p) == Name(s, p, Name2)
Name4(s, p) == Name(s, p, Name3)
Name5(s, p) == Name(s, p, Name4)

Parts(S) ==
  UNION {UNION {{part[i] : i \in DOMAIN part} : part \in {s.init, s.body, s.else}} : s \in S}
WithParts(S) == {s : s \in S \cup Parts(S)}

MCExprs == Seq(Nat)
MCBodies == {[i \in DOMAIN b |-> Name5(b[i], <<i>>)] : b \in Functions}
MCStmts ==
  WithParts(WithParts(WithParts(WithParts(UNION {{b[i] : i \in DOMAIN b} : b \in MCBodies}))))

=============================================================================
