----------------------------- MODULE ExprParser -----------------------------
(***************************************************************************)
(* The parser of expressions and types (iira/source/ii_parser_expr.c,      *)
(* ii_parser_type.c and the helpers of ii_parser_internal.h), which call   *)
(* each other: a Pratt parser for the operators, recursive descent for     *)
(* everything else.                                                        *)
(*                                                                         *)
(* The calls in progress are the variable todo: what they have still to    *)
(* do, the innermost first.  A step is the part of a function up to the    *)
(* next call it makes.  A token is its type; its text is the position it   *)
(* is at.  The syntax tree is in nodes, children before their parent: the  *)
(* tree of a node begins with the node number from and ends with itself.   *)
(***************************************************************************)
EXTENDS Integers, Sequences, FiniteSetsExt

CONSTANT Programs  \* what the lexer hands over

Keywords == {"var", "if", "else", "while", "for", "do", "return", "break", "continue",
             "as", "case"}
Symbols == Keywords \cup {"name", "self", "literal", "prim"}
Brackets == {"(", ")", "[", "]", "{", "}"}
Operators == {"=", "+=", "||", "&&", "|", "^", "&", "==", "<", "+", "-", "*", "/", "%",
              "!", "~"}
Token == Symbols \cup Brackets \cup Operators \cup {":", ";", ",", ".", "$", "?", "EOF", "ERROR"}

(* The tokens whose text can be asked for: where a symbol has its pointer  *)
(* an error has its message, which is read as one and does no harm; any    *)
(* other token has a null pointer there.                                   *)
Texts == Symbols \cup {"ERROR"}

(* One EOF, at the end.                                                    *)
ASSUME ProgramsAssumption ==
  \A p \in Programs :
    /\ p \in Seq(Token) /\ p # <<>>
    /\ \A i \in DOMAIN p : p[i] = "EOF" <=> i = Len(p)

VARIABLES
  tokens,
  current,
  reported,  \* an error is among the diagnostics
  crashed,   \* the text of a token that has none has been asked for
  todo,      \* what the calls in progress have still to do
  nodes      \* the syntax tree

vars == <<tokens, current, reported, crashed, todo, nodes>>

-----------------------------------------------------------------------------
(* Helpers of ii_parser_internal.h.                                        *)

Cur == tokens[current]

Forward(c) == IF c < Len(tokens) THEN c + 1 ELSE c
PeekAt(c) == tokens[IF c > Len(tokens) THEN Len(tokens) ELSE c]
Peek(n) == PeekAt(current + n)

SyncStmts == {"var", "if", "while", "for", "do", "return", "break", "continue",
              ";", "{", "}", "EOF"}
SyncDecls == Symbols \cup {"EOF"}

FirstFrom(c, S) == Min({i \in c .. Len(tokens) : tokens[i] \in S \/ i = Len(tokens)})

(* Mutant: a synchronisation that has found nothing to skip stays there.   *)
SyncInPlace(c, S) == FirstFrom(c, S)

(* Where panic mode ends: it always moves on, unless it is at the EOF.     *)
Sync(c, S) == IF FirstFrom(c, S) = c THEN Forward(c) ELSE FirstFrom(c, S)

SyncStmt(c) == Sync(c, SyncStmts)
SyncDecl(c) == Sync(c, SyncDecls)

(* Mutant: a primitive type is not a type where there can be a cast.       *)
CanBeTypeNamed(t) == t \in {"name", "{"}

CanBeType(t) == t \in {"prim", "name", "{"}
StartsExpr(t) == t \in Symbols \cup {"-", "+", "!", "~", ".", "$", "(", "{", "["}

-----------------------------------------------------------------------------
(* Tasks and steps.                                                        *)

Expr(min) == <<"expr", min>>
Led(min) == <<"led", min>>
Type == <<"type">>
Suffixes == <<"suffixes">>
Anon == <<"anon">>
AnonField(at, base) == <<"anon field", at, base>>
Default == <<"default">>
Items(form, close) == <<"items", form, close>>
Comma(task) == <<"comma", task>>
CastOrGroup(saved, base) == <<"cast", saved, base>>
(* _expect, and how the caller recovers further.                           *)
ExpectOr(t, further) == <<"expect", t, further>>
Expect(t) == ExpectOr(t, "nothing")
(* A node whose children are the trees after the first base nodes.         *)
Build(node, at, base) == <<"build", node, at, base>>

Doing(task) == todo # <<>> /\ Head(todo)[1] = task
Arg(i) == Head(todo)[i + 1]

Node(node, at, from) == [node |-> node, at |-> at, from |-> from]
Base == Len(nodes)
Below(base) == SubSeq(nodes, 1, base)

(* The last tree begins after so many nodes.                               *)
LastBase == nodes[Base].from - 1

(* A leaf; a node around the last tree; a leaf in its place.               *)
Leaf(node, at) == Append(nodes, Node(node, at, Base + 1))
Around(node, at) == Append(nodes, Node(node, at, LastBase + 1))
Instead(node, at) == Append(Below(LastBase), Node(node, at, LastBase + 1))

Step(c, error, tree, work) ==
  /\ current' = c
  /\ reported' = (reported \/ error)
  /\ nodes' = tree
  /\ todo' = work \o Tail(todo)
  /\ UNCHANGED <<tokens, crashed>>

(* The text of the token at c has been asked for, and it has none.         *)
Crashes(c) ==
  /\ current' = c
  /\ crashed' = TRUE
  /\ todo' = <<>>
  /\ UNCHANGED <<tokens, reported, nodes>>

Goes(c, work) == Step(c, FALSE, nodes, work)
Makes(c, tree, work) == Step(c, FALSE, tree, work)
Reports(c, work) == Step(c, TRUE, nodes, work)

Further(c, set) ==
  CASE set = "nothing" -> c
    [] set = "stmt" -> SyncStmt(c)
    [] set = "decl" -> SyncDecl(c)

Expected ==
  /\ Doing("expect") /\ Cur = Arg(1)
  /\ Goes(Forward(current), <<>>)

NotExpected ==
  /\ Doing("expect") /\ Cur # Arg(1)
  /\ Reports(Further(SyncStmt(current), Arg(2)), <<>>)

BuildNode ==
  /\ Doing("build")
  /\ Step(current, FALSE, Append(nodes, Node(Arg(1), Arg(2), Arg(3) + 1)), <<>>)

(* An optional comma, and what follows it.                                 *)
MatchComma ==
  /\ Doing("comma")
  /\ IF Cur = "," THEN Goes(Forward(current), <<Arg(1)>>) ELSE Goes(current, <<>>)

(* An optional "=" and the expression after it.                            *)
ParseDefault ==
  /\ Doing("default")
  /\ IF Cur = "=" THEN Goes(Forward(current), <<Expr(0)>>) ELSE Goes(current, <<>>)

-----------------------------------------------------------------------------
(* _nud: what begins an expression.                                        *)

(* Nothing is reported: whoever wants a token after it will.               *)
ParseNothing ==
  /\ Doing("expr") /\ Cur \in {"EOF", "ERROR"}
  /\ Makes(current, Leaf("error", current), <<>>)

ParseAtom ==
  /\ Doing("expr") /\ Cur \in {"name", "self", "literal"}
  /\ Makes(Forward(current), Leaf(IF Cur = "literal" THEN "literal" ELSE "ident", current),
           <<Led(Arg(1))>>)

(* The operand of a unary operator is a whole expression.                  *)
ParseUnary ==
  /\ Doing("expr") /\ Cur \in {"-", "+", "!", "~", "*", "&"}
  /\ Goes(Forward(current), <<Expr(0), Build("unary", current, Base), Led(Arg(1))>>)

(* The literal "." takes the token after the dot too, whatever it is.      *)
ParseLeadingDot ==
  /\ Doing("expr") /\ Cur = "."
  /\ Makes(Forward(Forward(current)), Leaf("literal", current), <<Led(Arg(1))>>)

(* The text of the name is read before there is known to be one.           *)
NoTextInFfi == Doing("expr") /\ Cur = "$" /\ tokens[Forward(current)] \notin Texts

CrashInFfi ==
  /\ NoTextInFfi
  /\ Crashes(Forward(current))

ParseFfi ==
  /\ Doing("expr") /\ Cur = "$" /\ tokens[Forward(current)] \in Texts
  /\ LET c == Forward(current)
     IN IF tokens[c] = "name"
          THEN Goes(Forward(c), <<Expect("("), Items("args", ")"), Expect(")"),
                                  Build("ffi", c, Base), Led(Arg(1))>>)
          ELSE Step(SyncStmt(c), TRUE, Leaf("error", c), <<Led(Arg(1))>>)

(* The first token after the brace tells which form it is.                 *)
InitForm(c) ==
  CASE tokens[c] = "[" -> "indexed"
    [] tokens[c] = "name" /\ PeekAt(c + 1) = "=" -> "named"
    [] OTHER -> "positional"

ParseAggregate ==
  /\ Doing("expr") /\ Cur = "{"
  /\ LET c == Forward(current)
     IN IF tokens[c] = "}"
          THEN Makes(Forward(c), Leaf("init", current), <<Led(Arg(1))>>)
          ELSE Goes(c, <<Items(InitForm(c), "}"), Expect("}"),
                         Build("init", current, Base), Led(Arg(1))>>)

ParseArray ==
  /\ Doing("expr") /\ Cur = "["
  /\ Goes(Forward(current), <<Items("positional", "]"), Expect("]"),
                              Build("init", current, Base), Led(Arg(1))>>)

(* _parse_group_or_cast: a type is tried where there can be one.           *)
ParseGroupOrCast ==
  /\ Doing("expr") /\ Cur = "("
  /\ LET c == Forward(current)
     IN Goes(c, IF CanBeType(tokens[c])
                  THEN <<Type, CastOrGroup(c, Base), Led(Arg(1))>>
                  ELSE <<Expr(0), Expect(")"), Led(Arg(1))>>)

(* Going back, the errors that have been reported remain.                  *)
DecideCast ==
  /\ Doing("cast")
  /\ IF Cur = ")" /\ StartsExpr(Peek(1))
       THEN Goes(Forward(current), <<Expr(0), Build("cast", Arg(1), Arg(2))>>)
       ELSE Step(Arg(1), FALSE, Below(Arg(2)), <<Expr(0), Expect(")")>>)

NoExpr ==
  {"prim", "/", "%", "=", "+=", "||", "&&", "|", "^", "==", "<",
   ")", "]", "}", ":", ";", ",", "?"} \cup Keywords

(* Mutant: nothing is reported.                                            *)
NotAnExprSilent ==
  /\ Doing("expr") /\ Cur \in NoExpr
  /\ Makes(Forward(current), Leaf("error", Forward(current)), <<Led(Arg(1))>>)

NotAnExpr ==
  /\ Doing("expr") /\ Cur \in NoExpr
  /\ Step(Forward(current), TRUE, Leaf("error", Forward(current)), <<Led(Arg(1))>>)

-----------------------------------------------------------------------------
(* Lists: arguments and the forms of an aggregate.                         *)

(* At the EOF only a list of arguments says something itself.              *)
EndItems ==
  /\ Doing("items") /\ Cur \in {Arg(2), "EOF"}
  /\ Step(current, Arg(1) = "args" /\ Cur = "EOF", nodes, <<>>)

More == Comma(Items(Arg(1), Arg(2)))

ParseItem ==
  /\ Doing("items") /\ Cur \notin {Arg(2), "EOF"} /\ Arg(1) \in {"args", "positional"}
  /\ Goes(current, <<Expr(0), More>>)

(* "past [" is whatever is there.                                          *)
ParseIndexed ==
  /\ Doing("items") /\ Cur \notin {Arg(2), "EOF"} /\ Arg(1) = "indexed"
  /\ Goes(Forward(current), <<Expr(0), Expect("]"), Expect("="), Expr(0), More>>)

(* "past identifier" is whatever is there, if its text can be read.  The   *)
(* "=" is optional.                                                        *)
ParseNamed ==
  /\ Doing("items") /\ Cur \in Texts /\ Arg(1) = "named"
  /\ LET c == Forward(current)
     IN Makes(IF tokens[c] = "=" THEN Forward(c) ELSE c, Leaf("field", current), <<Expr(0), More>>)

NoTextInNamed ==
  Doing("items") /\ Arg(1) = "named" /\ Cur \notin Texts \cup {Arg(2), "EOF"}

CrashInNamed ==
  /\ NoTextInNamed
  /\ Crashes(current)

-----------------------------------------------------------------------------
(* The loop of _pratt: what goes on with an expression.                    *)

Postfix == {".", "(", "["}
RightAssoc == {"=", "+="}

(* _prec_info; -1 is not an operator.                                      *)
Prec(t) ==
  CASE t \in {"=", "+="} -> 1
    [] t = "||" -> 2
    [] t = "&&" -> 3
    [] t = "|" -> 4
    [] t = "^" -> 5
    [] t = "&" -> 6
    [] t = "==" -> 7
    [] t = "<" -> 8
    [] t \in {"+", "-"} -> 10
    [] t \in {"*", "/", "%"} -> 11
    [] OTHER -> -1

GoesOn(t, min) ==
  CASE Prec(t) < 0 -> t \in Postfix
    [] Prec(t) >= 0 /\ t \in RightAssoc -> Prec(t) >= min
    [] Prec(t) >= 0 /\ t \notin RightAssoc -> Prec(t) > min

EndExpr ==
  /\ Doing("led") /\ ~GoesOn(Cur, Arg(1))
  /\ Goes(current, <<>>)

(* Mutant: one less, and an operand takes operators of its own level.      *)
ParseInfixSame ==
  /\ Doing("led") /\ GoesOn(Cur, Arg(1)) /\ Cur \notin Postfix
  /\ Goes(Forward(current), <<Expr(Prec(Cur) - 1), Build("binary", current, LastBase), Led(Arg(1))>>)

(* next_min: right-associative or not, one more than the operator's.       *)
ParseInfix ==
  /\ Doing("led") /\ GoesOn(Cur, Arg(1)) /\ Cur \notin Postfix
  /\ Goes(Forward(current), <<Expr(Prec(Cur) + 1), Build("binary", current, LastBase), Led(Arg(1))>>)

ParseMember ==
  /\ Doing("led") /\ Cur = "."
  /\ LET c == Forward(current)
     IN IF tokens[c] = "name"
          THEN Step(Forward(c), FALSE, Around("member", c), <<Led(Arg(1))>>)
          ELSE Step(SyncStmt(c), TRUE, Instead("error", c), <<Led(Arg(1))>>)

ParseCall ==
  /\ Doing("led") /\ Cur = "("
  /\ Goes(Forward(current), <<Items("args", ")"), Expect(")"),
                              Build("call", current, LastBase), Led(Arg(1))>>)

ParseIndex ==
  /\ Doing("led") /\ Cur = "["
  /\ LET c == Forward(current)
     IN IF tokens[c] = "]"
          THEN Step(Forward(c), TRUE, Instead("error", c), <<Led(Arg(1))>>)
          ELSE Goes(c, <<Expr(0), Expect("]"), Build("index", current, LastBase), Led(Arg(1))>>)

-----------------------------------------------------------------------------
(* Types.                                                                  *)

ParseNamedType ==
  /\ Doing("type") /\ Cur \in {"prim", "name"}
  /\ Makes(Forward(current), Leaf("type", current), <<Suffixes>>)

ParseAnonType ==
  /\ Doing("type") /\ Cur = "{"
  /\ Goes(Forward(current), <<Anon, Expect("}"), Build("anon", current, Base), Suffixes>>)

(* Stays where it is; the type is void.                                    *)
NotAType ==
  /\ Doing("type") /\ Cur \notin {"prim", "name", "{"}
  /\ Step(current, TRUE, Leaf("type", current), <<Suffixes>>)

ParsePointer ==
  /\ Doing("suffixes") /\ Cur = "*"
  /\ Step(Forward(current), FALSE, Around("pointer", current), <<Suffixes>>)

ParseArrayType ==
  /\ Doing("suffixes") /\ Cur = "["
  /\ LET c == Forward(current)
         size == IF tokens[c] = "]" THEN <<>> ELSE <<Expr(0)>>
     IN Goes(c, size \o <<Expect("]"), Build("array", current, LastBase), Suffixes>>)

EndType ==
  /\ Doing("suffixes") /\ Cur \notin {"*", "["}
  /\ Goes(current, <<>>)

(* Fields until the closing brace, for which the caller looks.             *)
EndAnon ==
  /\ Doing("anon") /\ Cur \in {"}", "EOF"}
  /\ Step(current, Cur = "EOF", nodes, <<>>)

NotAField ==
  /\ Doing("anon") /\ Cur \notin {"name", "}", "EOF"}
  /\ Reports(SyncStmt(current), <<Anon>>)

ParseAnonField ==
  /\ Doing("anon") /\ Cur = "name"
  /\ LET c == Forward(current)
     IN IF tokens[c] = ":"
          THEN Goes(Forward(c), <<Type, Default, AnonField(current, Base), Anon>>)
          ELSE Reports(SyncStmt(SyncStmt(c)), <<Anon>>)

(* A field without its semicolon is dropped.                               *)
EndAnonField ==
  /\ Doing("anon field")
  /\ IF Cur = ";"
       THEN Goes(Forward(current), <<Build("field", Arg(1), Arg(2))>>)
       ELSE Step(SyncStmt(SyncStmt(current)), TRUE, Below(Arg(2)), <<>>)

-----------------------------------------------------------------------------
ExprStep ==
  \/ Expected \/ NotExpected \/ BuildNode \/ MatchComma \/ ParseDefault
  \/ ParseNothing \/ ParseAtom \/ ParseUnary \/ ParseLeadingDot \/ ParseFfi \/ CrashInFfi
  \/ ParseAggregate \/ ParseArray \/ ParseGroupOrCast \/ DecideCast \/ NotAnExpr
  \/ EndItems \/ ParseItem \/ ParseIndexed \/ ParseNamed \/ CrashInNamed
  \/ EndExpr \/ ParseInfix \/ ParseMember \/ ParseCall \/ ParseIndex
  \/ ParseNamedType \/ ParseAnonType \/ NotAType
  \/ ParsePointer \/ ParseArrayType \/ EndType
  \/ EndAnon \/ NotAField \/ ParseAnonField \/ EndAnonField

Finished == todo = <<>>

-----------------------------------------------------------------------------
(* Properties.                                                             *)

Named == {"ident", "literal", "field", "type", "member", "ffi",
          "decl", "param", "alias", "inherit", "method", "blueprint", "func"}
AtNames == {k \in DOMAIN nodes : nodes[k].node \in Named}

Accepted == Finished /\ current = Len(tokens) /\ ~reported /\ ~crashed

(* The token after a leading dot is part of its literal.                   *)
InLiteral(i) == i > 1 /\ \E k \in AtNames : tokens[i - 1] = "." /\ nodes[k].at = i - 1

(* An indexed initializer skips a token for every "[".                     *)
HasIndexed == \E i \in 1 .. Len(tokens) - 1 : tokens[i] = "{" /\ tokens[i + 1] = "["

(* The entry of a list of aliases that has no "as" is passed over, with    *)
(* everything up to the next comma.                                        *)
InAliases(i) ==
  \E k \in DOMAIN nodes :
    LET p == nodes[k].at + 1
    IN /\ nodes[k].node = "inherit" /\ tokens[p] = "{" /\ p < i
       /\ \A j \in p .. i : tokens[j] # "}"

(* Every name and literal of a program that nothing has been reported for  *)
(* is in its tree, and there is no hole in it: a missing operand or body,  *)
(* which nobody reports where it is missing, has been noticed by a caller. *)
NothingLost ==
  Accepted /\ ~HasIndexed =>
    /\ \A k \in DOMAIN nodes : nodes[k].node \notin {"error", "none"}
    /\ \A i \in DOMAIN tokens :
         tokens[i] \in {"name", "self", "literal", "prim"} =>
           \/ InLiteral(i) \/ InAliases(i)
           \/ \E k \in AtNames : nodes[k].at = i

(* For a node of two sides, the last child is the node before it, and the *)
(* first one ends before that begins.                                      *)
RightChild(k) == k - 1
LeftChild(k) == nodes[k - 1].from - 1
Binary(k) == nodes[k].node = "binary"
Op(k) == tokens[nodes[k].at]

(* Written without brackets and prefix operators: in the order of the      *)
(* tokens, operands and operators take turns.                              *)
Plain(k) ==
  LET places == {nodes[l].at : l \in nodes[k].from .. k}
  IN \A i \in Min(places) .. Max(places) :
       tokens[i] \in IF (i - Min(places)) % 2 = 0 THEN {"name", "literal"} ELSE Operators
Plains == {k \in DOMAIN nodes : Binary(k) /\ Plain(k)}

(* An operator that groups to the left takes into its right operand only   *)
(* operators that bind tighter, and has in its left one none that binds    *)
(* more than one level looser.  How assignments group, and neighbouring    *)
(* levels, is a matter of GroupsAsDocumented.                              *)
LevelsNest ==
  Accepted =>
    \A k \in Plains : Op(k) \notin RightAssoc =>
      /\ Binary(RightChild(k)) => Prec(Op(RightChild(k))) > Prec(Op(k))
      /\ Binary(LeftChild(k)) => Prec(Op(LeftChild(k))) >= Prec(Op(k)) - 1

-----------------------------------------------------------------------------
(* What the documentation says and the code does not do.                   *)

(* ii_parser_expr.c:17: "Lower values mean lower precedence": an operand   *)
(* is not an expression of an operator with a lower value.  And 41 and     *)
(* 513: a = b = c is a = (b = c), so the left operand of an assignment is  *)
(* not one.                                                                *)
GroupsAsDocumented ==
  Accepted =>
    \A k \in Plains :
      /\ \A c \in {LeftChild(k), RightChild(k)} : Binary(c) => Prec(Op(c)) >= Prec(Op(k))
      /\ Op(k) \in RightAssoc /\ Binary(LeftChild(k)) => Op(LeftChild(k)) \notin RightAssoc

=============================================================================
