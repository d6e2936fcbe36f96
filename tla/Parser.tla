------------------------------- MODULE Parser -------------------------------
(***************************************************************************)
(* The parser of statements and declarations (iira/source/ii_parser_stmt.c,*)
(* ii_parser_decl.c) and the loop over a file (ii_parser.c), on top of the *)
(* expressions and types of ExprParser: recursive descent that after every *)
(* error skips tokens and goes on.                                         *)
(***************************************************************************)
EXTENDS ExprParser

Stmt == <<"stmt">>
Stmts == <<"stmts">>
Block == <<"block">>
Then(at, base) == <<"then", at, base>>
Else == <<"else">>
DoCond == <<"do cond">>
ForInit == <<"for init">>
Clause(close) == <<"clause", close>>

Program == <<"program">>
Declaration == <<"declaration">>
Parents == <<"parents">>
AfterParent == <<"after parent">>
Aliases == <<"aliases">>
Body(at, base) == <<"body", at, base>>
Members == <<"members">>
Self == <<"self">>
Params == <<"params">>
AfterParam == <<"after param">>
Returns == <<"returns">>
MethodBody == <<"method body">>
FuncParams == <<"func params">>
AfterFuncParam == <<"after func param">>
FuncReturns(at, base) == <<"func returns", at, base>>
FuncBody(at, base) == <<"func body", at, base>>

Replaced(base, node, at) == Append(Below(base), Node(node, at, base + 1))

-----------------------------------------------------------------------------
(* Statements.                                                             *)

EmptyBlock ==
  /\ Doing("stmt") /\ Cur = ";"
  /\ Makes(Forward(current), Leaf("block", current), <<>>)

(* A null pointer.                                                         *)
NoStmt ==
  /\ Doing("stmt") /\ Cur = "EOF"
  /\ Makes(current, Leaf("none", current), <<>>)

ParseExprStmt ==
  /\ Doing("stmt")
  /\ Cur \notin (Keywords \ {"else", "as", "case"}) \cup {"{", ";", "EOF"}
  /\ Goes(current, <<Expr(0), Expect(";"), Build("expr stmt", current, Base)>>)

ParseBlock ==
  /\ Doing("stmt") \/ Doing("block")
  /\ Cur = "{"
  /\ Goes(Forward(current), <<Stmts, Expect("}"), Build("block", current, Base)>>)

NoBlock ==
  /\ Doing("block") /\ Cur # "{"
  /\ Step(SyncStmt(current), TRUE, Leaf("block", current), <<>>)

EndStmts ==
  /\ Doing("stmts") /\ Cur \in {"}", "EOF"}
  /\ Step(current, Cur = "EOF", nodes, <<>>)

NextStmt ==
  /\ Doing("stmts") /\ Cur \notin {"}", "EOF"}
  /\ Goes(current, <<Stmt, Stmts>>)

ParseReturn ==
  /\ Doing("stmt") /\ Cur = "return"
  /\ LET c == Forward(current)
         value == IF tokens[c] \in {";", "}", "EOF"} THEN <<>> ELSE <<Expr(0)>>
     IN Goes(c, value \o <<Expect(";"), Build("return", current, Base)>>)

ParseExit ==
  /\ Doing("stmt") /\ Cur \in {"break", "continue"}
  /\ Goes(Forward(current), <<Expect(";"), Build(Cur, current, Base)>>)

ParseDecl ==
  /\ Doing("stmt") /\ Cur = "var"
  /\ LET c == Forward(current)
         d == Forward(c)
     IN CASE tokens[c] # "name" ->
               Step(SyncStmt(c), TRUE, Leaf("error", current), <<>>)
          [] tokens[c] = "name" /\ tokens[d] # ":" ->
               Step(SyncStmt(SyncStmt(d)), TRUE, Leaf("error", current), <<>>)
          [] tokens[c] = "name" /\ tokens[d] = ":" ->
               Goes(Forward(d), <<Type, Default, Expect(";"), Build("decl", c, Base)>>)

(* Without its parentheses an if is an empty block.                        *)
ParseIf ==
  /\ Doing("stmt") /\ Cur = "if"
  /\ LET c == Forward(current)
     IN IF tokens[c] = "("
          THEN Goes(Forward(c), <<Expr(0), Then(current, Base)>>)
          ELSE Step(SyncStmt(c), TRUE, Leaf("block", current), <<>>)

ParseThen ==
  /\ Doing("then")
  /\ IF Cur = ")"
       THEN Goes(Forward(current), <<Stmt, Else, Build("if", Arg(1), Arg(2))>>)
       ELSE Step(SyncStmt(current), TRUE, Replaced(Arg(2), "block", Arg(1)), <<>>)

ParseElse ==
  /\ Doing("else")
  /\ IF Cur = "else" THEN Goes(Forward(current), <<Stmt>>) ELSE Goes(current, <<>>)

ParseWhile ==
  /\ Doing("stmt") /\ Cur = "while"
  /\ Goes(Forward(current), <<Expect("("), Expr(0), Expect(")"), Stmt,
                              Build("while", current, Base)>>)

ParseDoWhile ==
  /\ Doing("stmt") /\ Cur = "do"
  /\ Goes(Forward(current), <<Stmt, DoCond, Build("do", current, Base)>>)

ParseDoCond ==
  /\ Doing("do cond")
  /\ IF Cur = "while"
       THEN Goes(Forward(current), <<Expect("("), Expr(0), Expect(")"), Expect(";")>>)
       ELSE Reports(SyncStmt(current), <<>>)

ParseFor ==
  /\ Doing("stmt") /\ Cur = "for"
  /\ Goes(Forward(current), <<Expect("("), ForInit, Expect(";"), Clause(";"), Expect(";"),
                              Clause(")"), Expect(")"), Stmt, Build("for", current, Base)>>)

(* Mutant: the declaration does not become the init clause.                *)
ParseForInitLost ==
  /\ Doing("for init")
  /\ LET c == Forward(current)
         d == Forward(c)
     IN CASE Cur = ";" -> Goes(current, <<>>)
          [] Cur = "var" /\ tokens[c] # "name" -> Goes(c, <<>>)
          [] Cur = "var" /\ tokens[c] = "name" /\ tokens[d] # ":" ->
               Reports(SyncStmt(d), <<>>)
          [] Cur = "var" /\ tokens[c] = "name" /\ tokens[d] = ":" ->
               Goes(Forward(d), <<Type, Default>>)
          [] Cur \notin {";", "var"} -> Goes(current, <<Expr(0)>>)

(* A declaration that has no name says nothing: the semicolon is missing.  *)
ParseForInit ==
  /\ Doing("for init")
  /\ LET c == Forward(current)
         d == Forward(c)
     IN CASE Cur = ";" -> Goes(current, <<>>)
          [] Cur = "var" /\ tokens[c] # "name" -> Goes(c, <<>>)
          [] Cur = "var" /\ tokens[c] = "name" /\ tokens[d] # ":" ->
               Reports(SyncStmt(d), <<>>)
          [] Cur = "var" /\ tokens[c] = "name" /\ tokens[d] = ":" ->
               Goes(Forward(d), <<Type, Default, Build("decl", c, Base)>>)
          [] Cur \notin {";", "var"} -> Goes(current, <<Expr(0)>>)

ParseClause ==
  /\ Doing("clause")
  /\ Goes(current, IF Cur = Arg(1) THEN <<>> ELSE <<Expr(0)>>)

-----------------------------------------------------------------------------
(* The loop over the declarations of a file, and what they have in common. *)

NextDeclaration ==
  /\ Doing("program") /\ Cur # "EOF"
  /\ Goes(current, <<Declaration, Program>>)

EndProgram ==
  /\ Doing("program") /\ Cur = "EOF"
  /\ Goes(current, <<>>)

StartsBlueprint == Cur = "name" /\ Peek(1) = ":"
StartsFunc == Cur = "name" /\ Peek(1) = "("

(* Synchronised here and once more by the loop.                            *)
NotADeclaration ==
  /\ Doing("declaration") /\ ~StartsBlueprint /\ ~StartsFunc
  /\ Reports(SyncDecl(SyncDecl(Forward(current))), <<>>)

-----------------------------------------------------------------------------
(* Blueprints.                                                             *)

ParseBlueprint ==
  /\ Doing("declaration") /\ StartsBlueprint
  /\ Goes(Forward(Forward(current)), <<Parents, Body(current, Base)>>)

EndParents ==
  /\ Doing("parents") /\ Cur \in {"{", "EOF"}
  /\ Goes(current, <<>>)

NotAParent ==
  /\ Doing("parents") /\ Cur \notin {"name", "{", "EOF"}
  /\ Reports(SyncDecl(current), <<Parents>>)

ParseParent ==
  /\ Doing("parents") /\ Cur = "name"
  /\ LET c == Forward(current)
         aliases == IF tokens[c] = "{" THEN <<Aliases, Expect("}")>> ELSE <<>>
     IN Goes(IF tokens[c] = "{" THEN Forward(c) ELSE c,
             aliases \o <<Build("inherit", current, Base), AfterParent>>)

(* Mutant: no parent follows the first.                                    *)
NextParentLast ==
  /\ Doing("after parent")
  /\ CASE Cur = "," -> Goes(Forward(current), <<>>)
       [] Cur = "{" -> Goes(current, <<>>)
       [] Cur = "EOF" -> Reports(current, <<>>)
       [] Cur \notin {",", "{", "EOF"} -> Reports(SyncDecl(current), <<Parents>>)

NextParent ==
  /\ Doing("after parent")
  /\ CASE Cur = "," -> Goes(Forward(current), <<Parents>>)
       [] Cur = "{" -> Goes(current, <<>>)
       [] Cur = "EOF" -> Reports(current, <<>>)
       [] Cur \notin {",", "{", "EOF"} -> Reports(SyncDecl(current), <<Parents>>)

(* Skip to comma or closing brace, from wherever it is.                    *)
AliasEnd(c) == FirstFrom(c, {",", "}", "EOF"})

EndAliases ==
  /\ Doing("aliases") /\ Cur \in {"}", "EOF"}
  /\ Step(current, Cur = "EOF", nodes, <<>>)

(* The comma is not a name.                                                *)
NotAnAlias ==
  /\ Doing("aliases") /\ Cur \notin {"name", "}", "EOF"}
  /\ Reports(AliasEnd(current), <<Aliases>>)

ParseAlias ==
  /\ Doing("aliases") /\ Cur = "name"
  /\ LET c == Forward(current)
         d == Forward(c)
         e == Forward(d)
     IN CASE tokens[c] # "as" -> Goes(AliasEnd(c), <<Aliases>>)
          [] tokens[c] = "as" /\ tokens[d] # "name" -> Reports(AliasEnd(d), <<Aliases>>)
          [] tokens[c] = "as" /\ tokens[d] = "name" ->
               Step(IF tokens[e] = "," THEN Forward(e) ELSE e,
                    tokens[e] = "," /\ tokens[Forward(e)] = "}",
                    Leaf("alias", current), <<Aliases>>)

(* A blueprint without a body is not put into the program.                 *)
ParseBody ==
  /\ Doing("body")
  /\ IF Cur = "{"
       THEN Goes(Forward(current),
                 <<Members, ExpectOr("}", "decl"), Build("blueprint", Arg(1), Arg(2))>>)
       ELSE Step(SyncDecl(SyncStmt(current)), TRUE, Below(Arg(2)), <<>>)

EndMembers ==
  /\ Doing("members") /\ Cur \in {"}", "EOF"}
  /\ Step(current, Cur = "EOF", nodes, <<>>)

NotAMember ==
  /\ Doing("members") /\ Cur \notin {"}", "EOF"} /\ ~StartsBlueprint /\ ~StartsFunc
  /\ Reports(SyncStmt(IF Cur = "name" THEN Forward(current) ELSE current), <<Members>>)

(* The field is there even if its semicolon is not.                        *)
ParseField ==
  /\ Doing("members") /\ Cur = "name" /\ Peek(1) = ":"
  /\ Goes(Forward(Forward(current)),
          <<Type, Default, Build("field", current, Base), ExpectOr(";", "stmt"), Members>>)

ParseMethod ==
  /\ Doing("members") /\ Cur = "name" /\ Peek(1) = "("
  /\ Goes(Forward(Forward(current)),
          <<Self, Params, Expect(")"), Returns, Build("method", current, Base), Members>>)

(* The word self alone; with a type it is not a name and an error.         *)
ParseSelf ==
  /\ Doing("self")
  /\ CASE Cur = "self" /\ Peek(1) = ")" -> Makes(Forward(current), Leaf("param", current), <<>>)
       [] Cur = "self" /\ Peek(1) = "," ->
            Step(Forward(Forward(current)), Peek(2) = ")", Leaf("param", current), <<>>)
       [] OTHER -> Goes(current, <<>>)

EndParams ==
  /\ Doing("params") /\ Cur = ")"
  /\ Goes(current, <<>>)

(* At the EOF too.                                                         *)
NotAParam ==
  /\ Doing("params") /\ Cur \notin {"name", ")"}
  /\ Reports(SyncStmt(current), <<Params>>)

ParseParam ==
  /\ Doing("params") /\ Cur = "name"
  /\ LET c == Forward(current)
     IN IF tokens[c] = ":"
          THEN Goes(Forward(c), <<Type, Build("param", current, Base), AfterParam, Params>>)
          ELSE Reports(SyncStmt(SyncStmt(c)), <<Params>>)

(* The comma may be missing.                                               *)
NextParam ==
  /\ Doing("after param")
  /\ LET c == IF Cur = "," THEN Forward(current) ELSE current
     IN Step(c, Cur = "," /\ tokens[c] = ")", nodes, <<>>)

ParseReturns ==
  /\ Doing("returns")
  /\ IF Cur = ":"
       THEN Goes(Forward(current), <<Type, MethodBody>>)
       ELSE Reports(SyncStmt(SyncStmt(current)), <<>>)

ParseMethodBody ==
  /\ Doing("method body")
  /\ IF Cur = "="
       THEN Goes(Forward(current), <<Block>>)
       ELSE Goes(current, <<ExpectOr(";", "stmt")>>)

-----------------------------------------------------------------------------
(* Functions.                                                              *)

ParseFunc ==
  /\ Doing("declaration") /\ StartsFunc
  /\ Goes(Forward(Forward(current)),
          <<FuncParams, ExpectOr(")", "decl"), FuncReturns(current, Base)>>)

EndFuncParams ==
  /\ Doing("func params") /\ Cur \in {")", "EOF"}
  /\ Goes(current, <<>>)

ParseFuncParam ==
  /\ Doing("func params") /\ Cur \notin {")", "EOF"}
  /\ LET c == Forward(current)
     IN CASE Cur # "name" -> Reports(SyncStmt(current), <<AfterFuncParam>>)
          [] Cur = "name" /\ tokens[c] # ":" ->
               Reports(SyncStmt(SyncStmt(c)), <<AfterFuncParam>>)
          [] Cur = "name" /\ tokens[c] = ":" ->
               Goes(Forward(c), <<Type, Build("param", current, Base), AfterFuncParam>>)

NextFuncParam ==
  /\ Doing("after func param")
  /\ LET c == Forward(current)
     IN CASE Cur # "," -> Goes(current, <<>>)
          [] Cur = "," /\ tokens[c] = ")" -> Reports(c, <<>>)
          [] Cur = "," /\ tokens[c] # ")" -> Goes(c, <<FuncParams>>)

(* A function that is not complete is not put into the program.            *)
ParseFuncReturns ==
  /\ Doing("func returns")
  /\ IF Cur = ":"
       THEN Goes(Forward(current), <<Type, FuncBody(Arg(1), Arg(2))>>)
       ELSE Step(SyncDecl(SyncStmt(current)), TRUE, Below(Arg(2)), <<>>)

ParseFuncBody ==
  /\ Doing("func body")
  /\ CASE Cur = "=" -> Goes(Forward(current), <<Block, Build("func", Arg(1), Arg(2))>>)
       [] Cur = ";" -> Goes(Forward(current), <<Build("func", Arg(1), Arg(2))>>)
       [] Cur \notin {"=", ";"} -> Step(SyncDecl(SyncStmt(current)), TRUE, Below(Arg(2)), <<>>)

-----------------------------------------------------------------------------
(* Nothing follows.                                                        *)
Stays == Finished /\ UNCHANGED vars

Init ==
  /\ tokens \in Programs
  /\ current = 1
  /\ reported = (\E i \in DOMAIN tokens : tokens[i] = "ERROR")
  /\ crashed = FALSE
  /\ todo = <<Program>>
  /\ nodes = <<>>

Next ==
  \/ ExprStep
  \/ EmptyBlock \/ NoStmt \/ ParseExprStmt \/ ParseBlock \/ NoBlock \/ EndStmts \/ NextStmt
  \/ ParseReturn \/ ParseExit \/ ParseDecl \/ ParseIf \/ ParseThen \/ ParseElse
  \/ ParseWhile \/ ParseDoWhile \/ ParseDoCond \/ ParseFor \/ ParseForInit \/ ParseClause
  \/ NextDeclaration \/ EndProgram \/ NotADeclaration
  \/ ParseBlueprint \/ EndParents \/ NotAParent \/ ParseParent \/ NextParent
  \/ EndAliases \/ NotAnAlias \/ ParseAlias
  \/ ParseBody \/ EndMembers \/ NotAMember \/ ParseField \/ ParseMethod
  \/ ParseSelf \/ EndParams \/ NotAParam \/ ParseParam \/ NextParam
  \/ ParseReturns \/ ParseMethodBody
  \/ ParseFunc \/ EndFuncParams \/ ParseFuncParam \/ NextFuncParam
  \/ ParseFuncReturns \/ ParseFuncBody
  \/ Stays

Spec == Init /\ [][Next]_vars /\ WF_vars(Next)

-----------------------------------------------------------------------------
(* Properties.                                                             *)

HasNode(kinds, i) == \E k \in DOMAIN nodes : nodes[k].node \in kinds /\ nodes[k].at = i

(* A keyword, too, is a field of an aggregate if it stands for one; after  *)
(* a leading dot and in the rest of an alias it stands for nothing.        *)
IsKeyword(i) == ~HasNode({"field"}, i) /\ ~InLiteral(i) /\ ~InAliases(i)

(* The keywords of statements and the nodes they become; the while of a do *)
(* loop has none.                                                          *)
StmtKeywords == {"if", "for", "do", "return", "break", "continue"}
WhilesOf(node) == Cardinality({k \in DOMAIN nodes : nodes[k].node = node})

(* Where a declaration begins if those before it are complete.             *)
Before(i, t) == Cardinality({j \in 1 .. i - 1 : tokens[j] = t /\ ~InAliases(j) /\ ~InLiteral(j)})
BeginsDeclaration(i) ==
  /\ tokens[i] = "name" /\ Before(i, "{") = Before(i, "}")
  /\ i = 1 \/ tokens[i - 1] \in {";", "}"}

(* No declaration and no statement of a program that nothing has been      *)
(* reported for is missing, nor hidden in another one by the recovery from *)
(* an error that was not reported.  Only a for loop takes a var without a  *)
(* name, and drops it.                                                     *)
StructureKept ==
  Accepted /\ ~HasIndexed =>
    /\ \A i \in {j \in DOMAIN tokens : IsKeyword(j)} :
         /\ tokens[i] \in StmtKeywords => HasNode({tokens[i]}, i)
         /\ tokens[i] = "var" => HasNode({"decl"}, i + 1) \/ tokens[i + 1] = ";"
         /\ BeginsDeclaration(i) => HasNode({"func", "blueprint"}, i)
    /\ Cardinality({i \in DOMAIN tokens : tokens[i] = "while" /\ IsKeyword(i)})
         = WhilesOf("while") + WhilesOf("do")

(* The two places where the parser reads the same token for ever.          *)
StuckInAliases == Doing("aliases") /\ Cur = ","
StuckInParams == Doing("params") /\ Cur = "EOF"

(* Whatever is read, the parser comes to the end of the file, but for      *)
(* those two places and the two where it reads a text through a null       *)
(* pointer: the recovery from an error always gets on.                     *)
GetsOn ==
  <>(\/ Finished /\ ~crashed
     \/ StuckInAliases \/ StuckInParams
     \/ NoTextInNamed \/ NoTextInFfi)

-----------------------------------------------------------------------------
(* What the documentation says and the code does not do.                   *)

(* ii_parser_decl.c:18 and 20: an entry has the form IDENT ('as' IDENT)?   *)
(* and the recovery is to "Skip to next comma or closing brace".           *)
AliasesEnd == []<>~StuckInAliases

=============================================================================
