------------------------------- MODULE Bodies -------------------------------
(***************************************************************************)
(* The analysis of function and method bodies (iira/source/ii_semantic.c,  *)
(* ii_semantic_stmt.c, ii_semantic_expr.c): the chain of scopes that names *)
(* are looked up in, the stack of loops that break and continue belong to, *)
(* and the slots of the stack frame that parameters and variables get.     *)
(*                                                                         *)
(* The calls in progress are the variable todo: what they have still to    *)
(* do, the innermost first.  Types are right, as far as they matter here:  *)
(* an expression fails only over the names in it, and the size of a type   *)
(* is known.                                                               *)
(***************************************************************************)
EXTENDS Integers, Sequences, FiniteSetsExt

CONSTANTS
  Names,     \* of variables, parameters and functions
  Exprs,
  Stmts,
  Programs

(* A literal; a name; an operator with two sides; a call of what the first *)
(* of its parts names; what has its parts analysed up to the first that    *)
(* fails (a member and the call of one, an index, a cast, a prefix         *)
(* operator); and what has them analysed whatever becomes of them (the     *)
(* values of an aggregate, the arguments of a foreign function).           *)
ExprShape ==
  [form : {"literal", "name", "binary", "call", "parts", "all"}, name : Names \cup {""},
   parts : Seq(Exprs)]

StmtShape ==
  [kind : {"decl", "expr", "return", "block", "if", "while", "for", "do", "break", "continue"},
   name : Names \cup {""}, size : Nat, expr : Seq(Exprs), init : Seq(Stmts), iter : Seq(Exprs),
   body : Seq(Stmts), else : Seq(Stmts)]

(* A body is at most one block; a function with a value must have a return.*)
FuncShape ==
  [params : Seq([name : Names, size : Nat]), body : Seq(Seq(Stmts)), value : BOOLEAN]

ASSUME ExprsAssumption ==
  /\ Exprs \subseteq ExprShape
  /\ LET exprs == Exprs
     IN \A e \in exprs :
          /\ e.form = "binary" => Len(e.parts) = 2
          /\ e.form \in {"call", "parts"} => e.parts # <<>>
          /\ e.form = "call" => e.parts[1].form = "name"

ASSUME StmtsAssumption == Stmts \subseteq StmtShape

(* The functions come first, then the methods of the blueprints.           *)
ASSUME ProgramsAssumption == Programs \subseteq [globals : SUBSET Names, bodies : Seq(FuncShape)]

VARIABLES
  program,
  body,      \* the one under analysis
  todo,      \* what the calls in progress have still to do
  scopes,    \* from current_scope to the global one
  loops,     \* the length of loop_stack
  nextSlot,
  maxSlot,
  ok,        \* whether the last expression has a type
  decls,     \* parameters and variables, in the order they are met
  uses,      \* names in expressions, and what they stand for
  reports,   \* errors and warnings
  frames     \* frame_size of the bodies analysed so far

vars == <<program, body, todo, scopes, loops, nextSlot, maxSlot, ok, decls, uses, reports, frames>>

-----------------------------------------------------------------------------
(* Tasks.                                                                  *)

Body(b) == <<"body", b>>
Param(p) == <<"param", p>>
Block(b) == <<"block", b>>
Stmt(s) == <<"stmt", s>>
Declare(s) == <<"declare", s>>
LoopBody(b) == <<"loop body", b>>
ExitLoop == <<"exit loop">>
PopBlock == <<"pop block">>
CheckReturn == <<"check return">>
PopBody == <<"pop body">>
Expr(e) == <<"expr", e>>
Right(e) == <<"right", e>>
Both(left) == <<"both", left>>
Parts(e, i) == <<"parts", e, i>>
Succeed == <<"succeed">>

Doing(task) == todo # <<>> /\ Head(todo)[1] = task
Arg == Head(todo)[2]
Work(tasks) == todo' = tasks \o Tail(todo)

Each(Task(_), s) == [i \in DOMAIN s |-> Task(s[i])]
Exprs1(s) == Each(Expr, s)
Stmts1(s) == Each(Stmt, s)

Report(what, name) == [what |-> what, name |-> name, body |-> body]

scopeVars == <<scopes, decls>>
slotVars == <<nextSlot, maxSlot>>

-----------------------------------------------------------------------------
(* Scopes and slots.                                                       *)

Symbol(kind, decl) == [kind |-> kind, decl |-> decl]
Empty == [n \in {} |-> Symbol("none", 0)]

Holding(n) == {i \in DOMAIN scopes : n \in DOMAIN scopes[i]}
Lookup(n) == IF Holding(n) = {} THEN Symbol("none", 0) ELSE scopes[Min(Holding(n))][n]

WithSymbol(scope, n, symbol) ==
  [m \in DOMAIN scope \cup {n} |-> IF m = n THEN symbol ELSE scope[m]]

(* Mutant: the last part of a slot is forgotten.                           *)
SlotsOfWhole(size) == IF size = 0 THEN 1 ELSE IF size < 8 THEN 1 ELSE size \div 8

(* A type without a size takes a whole slot.                               *)
SlotsOf(size) == IF size = 0 THEN 1 ELSE (size + 7) \div 8

MaxSlot(slot) == IF maxSlot < slot THEN slot ELSE maxSlot

(* The slots are taken even if the name is.                                *)
Declares(kind, name, size) ==
  LET slots == SlotsOf(size)
      known == Holding(name)
  IN /\ nextSlot' = nextSlot + slots
     /\ maxSlot' = MaxSlot(nextSlot + slots)
     /\ decls' = Append(decls, [name |-> name, body |-> body, slot |-> nextSlot, size |-> size])
     /\ scopes' =
          IF 1 \in known
            THEN scopes
            ELSE [scopes EXCEPT ![1] = WithSymbol(@, name, Symbol(kind, Len(decls) + 1))]
     /\ reports' =
          CASE 1 \in known -> Append(reports, Report("duplicate", name))
            [] 1 \notin known /\ known # {} -> Append(reports, Report("shadows", name))
            [] known = {} -> reports

-----------------------------------------------------------------------------
(* Functions and methods.                                                  *)

EnterBody ==
  /\ Doing("body")
  /\ body' = Arg
  /\ scopes' = <<Empty>> \o scopes
  /\ nextSlot' = 0 /\ maxSlot' = 0
  /\ LET f == program.bodies[Arg]
     IN Work(Each(Param, f.params) \o Each(Block, f.body) \o <<CheckReturn, PopBody>>)
  /\ UNCHANGED <<program, loops, ok, decls, uses, reports, frames>>

AnalyzeParam ==
  /\ Doing("param")
  /\ Declares("param", Arg.name, Arg.size)
  /\ Work(<<>>)
  /\ UNCHANGED <<program, body, loops, ok, uses, frames>>

(* _block_has_return: not in a block of its own, nor after an else if.     *)
ReturnsValue[s \in Stmts] ==
  LET Somewhere(b) == \E i \in DOMAIN b : ReturnsValue[b[i]]
  IN \/ s.kind = "return" /\ s.expr # <<>>
     \/ s.kind \in {"if", "for", "while", "do"} /\ Somewhere(s.body)
     \/ /\ s.kind = "if" /\ s.else # <<>>
        /\ s.else[1].kind = "block" /\ Somewhere(s.else[1].body)

CheckReturns ==
  /\ Doing("check return")
  /\ LET f == program.bodies[body]
         missing == /\ f.value /\ f.body # <<>>
                    /\ \A i \in DOMAIN f.body[1] : ~ReturnsValue[f.body[1][i]]
     IN reports' = IF missing THEN Append(reports, Report("no return", "")) ELSE reports
  /\ Work(<<>>)
  /\ UNCHANGED <<program, body, scopeVars, loops, slotVars, ok, uses, frames>>

(* A multiple of eight.                                                    *)
FrameSize(slots) == ((slots * 8 + 7) \div 8) * 8

(* Mutant: the names of a body remain.                                     *)
LeaveBodyOpen ==
  /\ Doing("pop body")
  /\ frames' = Append(frames, FrameSize(maxSlot))
  /\ Work(<<>>)
  /\ UNCHANGED <<program, body, scopeVars, loops, slotVars, ok, uses, reports>>

LeaveBody ==
  /\ Doing("pop body")
  /\ frames' = Append(frames, FrameSize(maxSlot))
  /\ scopes' = Tail(scopes)
  /\ Work(<<>>)
  /\ UNCHANGED <<program, body, loops, slotVars, ok, decls, uses, reports>>

-----------------------------------------------------------------------------
(* Statements.                                                             *)

Is(kind) == Doing("stmt") /\ Arg.kind = kind

Analyzes(tasks) ==
  /\ Work(tasks)
  /\ UNCHANGED <<program, body, scopeVars, loops, slotVars, ok, uses, reports, frames>>

EnterBlock ==
  /\ Doing("block")
  /\ scopes' = <<Empty>> \o scopes
  /\ Work(Stmts1(Arg) \o <<PopBlock>>)
  /\ UNCHANGED <<program, body, loops, slotVars, ok, decls, uses, reports, frames>>

LeaveBlock ==
  /\ Doing("pop block")
  /\ scopes' = Tail(scopes)
  /\ Work(<<>>)
  /\ UNCHANGED <<program, body, loops, slotVars, ok, decls, uses, reports, frames>>

AnalyzeBlock == Is("block") /\ Analyzes(<<Block(Arg.body)>>)

(* Mutant: the initializer sees the variable.                              *)
AnalyzeDeclFirst == Is("decl") /\ Analyzes(<<Declare(Arg)>> \o Exprs1(Arg.expr))

(* The initializer does not see the variable.                              *)
AnalyzeDecl == Is("decl") /\ Analyzes(Exprs1(Arg.expr) \o <<Declare(Arg)>>)

DeclareVar ==
  /\ Doing("declare")
  /\ Declares("var", Arg.name, Arg.size)
  /\ Work(<<>>)
  /\ UNCHANGED <<program, body, loops, ok, uses, frames>>

AnalyzeExprStmt == (Is("expr") \/ Is("return")) /\ Analyzes(Exprs1(Arg.expr))

(* What follows else is looked at if it is a block or another if.          *)
AnalyzeIf ==
  /\ Is("if")
  /\ LET followed == Arg.else # <<>> /\ Arg.else[1].kind \in {"block", "if"}
     IN Analyzes(Exprs1(Arg.expr) \o <<Block(Arg.body)>>
                 \o Stmts1(IF followed THEN Arg.else ELSE <<>>))

(* A variable of the first clause belongs to the block around the loop.    *)
AnalyzeFor ==
  Is("for") /\ Analyzes(Stmts1(Arg.init) \o Exprs1(Arg.expr) \o Exprs1(Arg.iter)
                        \o <<LoopBody(Arg.body)>>)

AnalyzeWhile == Is("while") /\ Analyzes(Exprs1(Arg.expr) \o <<LoopBody(Arg.body)>>)

AnalyzeDoWhile == Is("do") /\ Analyzes(<<LoopBody(Arg.body)>> \o Exprs1(Arg.expr))

EnterLoop ==
  /\ Doing("loop body")
  /\ loops' = loops + 1
  /\ Work(<<Block(Arg), ExitLoop>>)
  /\ UNCHANGED <<program, body, scopeVars, slotVars, ok, uses, reports, frames>>

(* Mutant: the stack is emptied.                                           *)
LeaveAllLoops ==
  /\ Doing("exit loop")
  /\ loops' = 0
  /\ Work(<<>>)
  /\ UNCHANGED <<program, body, scopeVars, slotVars, ok, uses, reports, frames>>

LeaveLoop ==
  /\ Doing("exit loop")
  /\ loops' = IF loops = 0 THEN 0 ELSE loops - 1
  /\ Work(<<>>)
  /\ UNCHANGED <<program, body, scopeVars, slotVars, ok, uses, reports, frames>>

AnalyzeExit ==
  /\ Is("break") \/ Is("continue")
  /\ reports' = IF loops = 0 THEN Append(reports, Report(Arg.kind, "")) ELSE reports
  /\ Work(<<>>)
  /\ UNCHANGED <<program, body, scopeVars, loops, slotVars, ok, uses, frames>>

-----------------------------------------------------------------------------
(* Expressions.                                                            *)

Of(form) == Doing("expr") /\ Arg.form = form

Yields(result, tasks) ==
  /\ ok' = result
  /\ Work(tasks)
  /\ UNCHANGED <<program, body, scopeVars, loops, slotVars, uses, reports, frames>>

AnalyzeLiteral == Of("literal") /\ Yields(TRUE, <<>>)

AnalyzeIdent ==
  /\ Of("name")
  /\ LET symbol == Lookup(Arg.name)
         found == symbol.kind # "none"
     IN /\ ok' = found
        /\ uses' = Append(uses, [name |-> Arg.name, body |-> body, kind |-> symbol.kind,
                                 decl |-> symbol.decl])
        /\ reports' = IF found THEN reports ELSE Append(reports, Report("undefined", Arg.name))
  /\ Work(<<>>)
  /\ UNCHANGED <<program, body, scopeVars, loops, slotVars, frames>>

(* Both sides are analysed.                                                *)
AnalyzeBinary == Of("binary") /\ Yields(ok, <<Expr(Arg.parts[1]), Right(Arg.parts[2])>>)
AnalyzeRight == Doing("right") /\ Yields(ok, <<Expr(Arg), Both(ok)>>)
EndBinary == Doing("both") /\ Yields(ok /\ Arg, <<>>)

(* The first part that fails ends it.                                      *)
AnalyzeParts == (Of("call") \/ Of("parts")) /\ Yields(TRUE, <<Parts(Arg, 1)>>)

AnalyzePart ==
  /\ Doing("parts")
  /\ LET e == Arg
         i == Head(todo)[3]
     IN ok /\ i <= Len(e.parts) /\ Yields(ok, <<Expr(e.parts[i]), Parts(e, i + 1)>>)

(* What is called must be a function, and is looked at last.               *)
EndParts ==
  /\ Doing("parts")
  /\ ok => Head(todo)[3] > Len(Arg.parts)
  /\ LET callee == Arg.parts[1]
         wrong == ok /\ Arg.form = "call" /\ Lookup(callee.name).kind # "func"
     IN /\ ok' = (ok /\ ~wrong)
        /\ reports' =
             IF wrong THEN Append(reports, Report("not a function", callee.name)) ELSE reports
  /\ Work(<<>>)
  /\ UNCHANGED <<program, body, scopeVars, loops, slotVars, uses, frames>>

AnalyzeAll == Of("all") /\ Yields(ok, Exprs1(Arg.parts) \o <<Succeed>>)
EndAll == Doing("succeed") /\ Yields(TRUE, <<>>)

-----------------------------------------------------------------------------
Init ==
  /\ program \in Programs
  /\ body = 0
  /\ todo = [b \in DOMAIN program.bodies |-> Body(b)]
  /\ scopes = <<[n \in program.globals |-> Symbol("func", 0)]>>
  /\ loops = 0
  /\ nextSlot = 0 /\ maxSlot = 0
  /\ ok = TRUE
  /\ decls = <<>> /\ uses = <<>> /\ reports = <<>> /\ frames = <<>>

Finished == todo = <<>>
Stays == Finished /\ UNCHANGED vars

Next ==
  \/ EnterBody \/ AnalyzeParam \/ CheckReturns \/ LeaveBody
  \/ EnterBlock \/ LeaveBlock \/ AnalyzeBlock
  \/ AnalyzeDecl \/ DeclareVar \/ AnalyzeExprStmt
  \/ AnalyzeIf \/ AnalyzeFor \/ AnalyzeWhile \/ AnalyzeDoWhile
  \/ EnterLoop \/ LeaveLoop \/ AnalyzeExit
  \/ AnalyzeLiteral \/ AnalyzeIdent \/ AnalyzeBinary \/ AnalyzeRight \/ EndBinary
  \/ AnalyzeParts \/ AnalyzePart \/ EndParts \/ AnalyzeAll \/ EndAll
  \/ Stays

Spec == Init /\ [][Next]_vars

-----------------------------------------------------------------------------
(* Properties.                                                             *)

(* The bytes of a value; eight if its type has no size.                    *)
Bytes(size) == IF size = 0 THEN 8 ELSE size

(* No two parameters or variables of a function have a byte in common,     *)
(* whatever the blocks they belong to, and all are inside its frame.       *)
SlotsApart ==
  \A d \in DOMAIN decls :
    LET end == 8 * decls[d].slot + Bytes(decls[d].size)
    IN /\ \A e \in DOMAIN decls : d < e /\ decls[e].body = decls[d].body => end <= 8 * decls[e].slot
       /\ end <= IF decls[d].body \in DOMAIN frames THEN frames[decls[d].body] ELSE 8 * maxSlot

(* A variable that a name stands for is in the frame of the function that  *)
(* uses it.                                                                *)
UsesOwnFrame ==
  \A u \in DOMAIN uses :
    uses[u].kind \in {"param", "var"} => decls[uses[u].decl].body = uses[u].body

=============================================================================
