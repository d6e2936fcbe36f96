------------------------------ MODULE Codegen -------------------------------
(***************************************************************************)
(* Control flow of the emitted code (iirac/source/iic_codegen_stmt.c): a   *)
(* function body, a tree of statements, is written as a sequence of lines  *)
(* with labels and jumps for QBE.                                          *)
(*                                                                         *)
(* The recursion of _emit_stmt is the variable todo: what the calls in     *)
(* progress have still to do, the innermost first.  The code of an         *)
(* expression, which has no label and no jump, is one line.                *)
(***************************************************************************)
EXTENDS Naturals, Sequences

CONSTANTS
  Exprs,  \* expressions, told apart by what they are
  Stmts,  \* statements; closed under taking a part
  Bodies  \* function bodies

Kinds == {"expr", "return", "block", "if", "while", "for", "do", "break", "continue"}

Shape == [kind : Kinds, expr : Seq(Exprs), init : Seq(Stmts), iter : Seq(Exprs),
          body : Seq(Stmts), else : Seq(Stmts)]

ASSUME StmtsAssumption == Stmts \subseteq Shape
ASSUME BodiesAssumption == Bodies \subseteq Seq(Stmts)

VARIABLES
  function,  \* the body being compiled
  output,    \* the lines written so far
  todo,      \* what the calls in progress have still to do
  counter,   \* label_counter
  info       \* break_label and continue_label of the BlockInfo in use

vars == <<function, output, todo, counter, info>>

-----------------------------------------------------------------------------
(* Lines and labels.                                                       *)

Block(n) == <<"block", n>>
StartLabel == <<"start", 0>>
EntryLabel == <<"entry", 0>>
NoLabel == <<"nullptr", 0>>
Labels == {"block", "start", "entry", "nullptr"} \X Nat

At(l) == [op |-> "label", expr |-> <<>>, to |-> <<l>>]
Code(e) == [op |-> "eval", expr |-> <<e>>, to |-> <<>>]
Jmp(l) == [op |-> "jmp", expr |-> <<>>, to |-> <<l>>]
Jnz(l, m) == [op |-> "jnz", expr |-> <<>>, to |-> <<l, m>>]
Ret == [op |-> "ret", expr |-> <<>>, to |-> <<>>]
Line == [op : {"label", "eval", "jmp", "jnz", "ret"}, expr : Seq(Exprs), to : Seq(Labels)]

Codes(es) == [i \in DOMAIN es |-> Code(es[i])]

(* A part of a statement that may be missing, and what is written with it. *)
When(c, lines) == IF c THEN lines ELSE <<>>

Emit(s) == [task |-> "stmt", stmt |-> s]
Write(lines) == [task |-> "write", lines |-> lines]
Restore(i) == [task |-> "restore", info |-> i]

EmitAll(b) == [i \in DOMAIN b |-> Emit(b[i])]

-----------------------------------------------------------------------------
(* _stmt_returns: control does not reach the end of the statement.         *)
StmtReturns[s \in Stmts] ==
  LET Last(b) == b # <<>> /\ StmtReturns[b[Len(b)]]
  IN \/ s.kind \in {"return", "break", "continue"}
     \/ s.kind = "if" /\ Last(s.body) /\ Last(s.else)
     \/ s.kind = "block" /\ Last(s.body)

BlockReturns(b) == b # <<>> /\ StmtReturns[b[Len(b)]]

-----------------------------------------------------------------------------
(* _emit_function: the two labels every function begins with; the frame is *)
(* allocated by code without control flow.  An analysed function has a     *)
(* return type, so no ret is added at the end.                             *)
Init ==
  /\ function \in Bodies
  /\ output = <<At(StartLabel), Jmp(EntryLabel), At(EntryLabel)>>
  /\ todo = EmitAll(function)
  /\ counter = 0
  /\ info = [break |-> NoLabel, continue |-> NoLabel]

Is(kind) == todo # <<>> /\ Head(todo).task = "stmt" /\ Head(todo).stmt.kind = kind

(* Mutant: the labels of one statement are used again by the next one.     *)
EmitsSame(lines, work, n) ==
  /\ output' = output \o lines
  /\ todo' = work \o Tail(todo)
  /\ counter' = counter
  /\ UNCHANGED function

(* What every handler does: it writes lines, leaves the rest of its work   *)
(* to be done before everything else and takes n labels.                   *)
Emits(lines, work, n) ==
  /\ output' = output \o lines
  /\ todo' = work \o Tail(todo)
  /\ counter' = counter + n
  /\ UNCHANGED function

EmitExprStmt ==
  /\ Is("expr")
  /\ Emits(Codes(Head(todo).stmt.expr), <<>>, 0)
  /\ UNCHANGED info

EmitReturn ==
  /\ Is("return")
  /\ Emits(Codes(Head(todo).stmt.expr) \o <<Ret>>, <<>>, 0)
  /\ UNCHANGED info

EmitBlock ==
  /\ Is("block")
  /\ Emits(<<>>, EmitAll(Head(todo).stmt.body), 0)
  /\ UNCHANGED info

(* Mutant: the then branch is always left by a jump.                       *)
ThenEndsInJump(thenReturns, elseReturns, elseLabel, endLabel) ==
  <<Jmp(endLabel), At(elseLabel)>>

(* Between the two branches of an if.                                      *)
ThenEnds(thenReturns, elseReturns, elseLabel, endLabel) ==
  When(~thenReturns, <<Jmp(endLabel)>>) \o <<At(elseLabel)>>

(* The four cases of the code differ in the end label alone: it is written *)
(* if the else branch does not return.                                     *)
EmitIf ==
  /\ Is("if")
  /\ LET s == Head(todo).stmt
         thenLabel == Block(counter)
         elseLabel == Block(counter + 1)
         endLabel == Block(counter + 2)
         thenReturns == BlockReturns(s.body)
         elseReturns == BlockReturns(s.else)
     IN Emits(Codes(s.expr) \o <<Jnz(thenLabel, elseLabel), At(thenLabel)>>,
              EmitAll(s.body)
              \o <<Write(ThenEnds(thenReturns, elseReturns, elseLabel, endLabel))>>
              \o EmitAll(s.else)
              \o <<Write(When(~elseReturns, <<Jmp(endLabel), At(endLabel)>>))>>,
              3)
  /\ UNCHANGED info

(* The saved labels of the loop around.                                    *)
LeaveLoop == <<Restore(info)>>

(* Mutant: the two labels change places.                                   *)
EnterLoopSwapped(breakLabel, continueLabel) ==
  info' = [break |-> continueLabel, continue |-> breakLabel]

EnterLoop(breakLabel, continueLabel) ==
  info' = [break |-> breakLabel, continue |-> continueLabel]

EmitWhile ==
  /\ Is("while")
  /\ LET s == Head(todo).stmt
         condLabel == Block(counter)
         bodyLabel == Block(counter + 1)
         endLabel == Block(counter + 2)
     IN /\ Emits(<<Jmp(condLabel), At(condLabel)>> \o Codes(s.expr)
                 \o <<Jnz(bodyLabel, endLabel), At(bodyLabel)>>,
                 EmitAll(s.body)
                 \o <<Write(When(~BlockReturns(s.body), <<Jmp(condLabel)>>) \o <<At(endLabel)>>)>>
                 \o LeaveLoop,
                 3)
        /\ EnterLoop(endLabel, condLabel)

(* A for loop has five labels but writes only those its clauses ask for.   *)
EmitFor ==
  /\ Is("for")
  /\ LET s == Head(todo).stmt
         initLabel == Block(counter)
         condLabel == Block(counter + 1)
         bodyLabel == Block(counter + 2)
         iterLabel == Block(counter + 3)
         endLabel == Block(counter + 4)
         hasInit == s.init # <<>>
         hasCond == s.expr # <<>>
         hasIter == s.iter # <<>>
         top == IF hasCond THEN condLabel ELSE bodyLabel
     IN /\ Emits(When(hasInit, <<Jmp(initLabel), At(initLabel)>>),
                 EmitAll(s.init)
                 \o <<Write(IF hasCond
                              THEN When(~hasInit, <<Jmp(condLabel)>>) \o <<At(condLabel)>>
                                   \o Codes(s.expr) \o <<Jnz(bodyLabel, endLabel), At(bodyLabel)>>
                              ELSE When(hasInit, <<Jmp(bodyLabel)>>) \o <<At(bodyLabel)>>)>>
                 \o EmitAll(s.body)
                 \o <<Write(When(~BlockReturns(s.body),
                                 When(hasIter, <<Jmp(iterLabel), At(iterLabel)>> \o Codes(s.iter))
                                 \o <<Jmp(top)>>)
                            \o When(hasCond, <<At(endLabel)>>))>>
                 \o LeaveLoop,
                 5)
        /\ EnterLoop(endLabel, iterLabel)

EmitDoWhile ==
  /\ Is("do")
  /\ LET s == Head(todo).stmt
         bodyLabel == Block(counter)
         condLabel == Block(counter + 1)
         endLabel == Block(counter + 2)
     IN /\ Emits(<<At(bodyLabel)>>,
                 EmitAll(s.body)
                 \o <<Write(When(~BlockReturns(s.body),
                                 <<At(condLabel)>> \o Codes(s.expr)
                                 \o <<Jnz(bodyLabel, endLabel), At(endLabel)>>))>>
                 \o LeaveLoop,
                 3)
        /\ EnterLoop(endLabel, condLabel)

(* Outside of a loop the semantic analysis has rejected them; the code     *)
(* then writes nothing.                                                    *)
EmitBreak ==
  /\ Is("break")
  /\ Emits(When(info.break # NoLabel, <<Jmp(info.break)>>), <<>>, 0)
  /\ UNCHANGED info

EmitContinue ==
  /\ Is("continue")
  /\ Emits(When(info.continue # NoLabel, <<Jmp(info.continue)>>), <<>>, 0)
  /\ UNCHANGED info

(* The rest of a handler, after the statements inside it.                  *)
WriteLines ==
  /\ todo # <<>> /\ Head(todo).task = "write"
  /\ Emits(Head(todo).lines, <<>>, 0)
  /\ UNCHANGED info

RestoreInfo ==
  /\ todo # <<>> /\ Head(todo).task = "restore"
  /\ info' = Head(todo).info
  /\ Emits(<<>>, <<>>, 0)

Next ==
  \/ EmitExprStmt \/ EmitReturn \/ EmitBlock \/ EmitIf
  \/ EmitWhile \/ EmitFor \/ EmitDoWhile \/ EmitBreak \/ EmitContinue
  \/ WriteLines \/ RestoreInfo

Spec == Init /\ [][Next]_vars /\ WF_vars(Next)

-----------------------------------------------------------------------------
Emitted == todo = <<>>

Jumps == {"jmp", "jnz", "ret"}
Targets(i) == IF output[i].op \in {"jmp", "jnz"} THEN {output[i].to[j] : j \in DOMAIN output[i].to} ELSE {}
DefinedAt(l) == {i \in DOMAIN output : output[i] = At(l)}

(* What QBE asks of the code: a label it jumps to is there, nothing but a  *)
(* label follows a jump, and the last line is a jump.                      *)
Accepted ==
  /\ Emitted
  /\ \A i \in DOMAIN output : \A l \in Targets(i) : DefinedAt(l) # {}
  /\ \A i \in 1 .. Len(output) - 1 : output[i].op \in Jumps => output[i + 1].op = "label"
  /\ output[Len(output)].op \in Jumps

(* No label is written twice, through any nesting of statements that write *)
(* their labels before, between and after what is inside them.             *)
LabelsUnique ==
  \A i, j \in DOMAIN output :
    output[i].op = "label" /\ output[j] = output[i] => i = j

(* What leaves the loop around s: "break" or "continue".                   *)
Exits[s \in Stmts] ==
  LET In(c) == UNION {Exits[c[i]] : i \in DOMAIN c}
  IN CASE s.kind \in {"break", "continue"} -> {s.kind}
       [] s.kind \in {"block", "if"} -> In(s.body) \cup In(s.else)
       [] OTHER -> {}
ExitsIn(b) == UNION {Exits[b[i]] : i \in DOMAIN b}

(* What follows s in the code can be reached through a label only.         *)
Closed(s) ==
  \/ StmtReturns[s]
  \/ s.kind = "for" /\ s.expr = <<>>
  \/ s.kind = "do" /\ BlockReturns(s.body)

Closes(b) == b # <<>> /\ Closed(b[Len(b)])

NothingUnreachable(b) == \A i \in 1 .. Len(b) - 1 : ~Closed(b[i])

(* The programs that the generator is written for: nothing follows a       *)
(* statement that does not end; if one branch only leaves it is the first; *)
(* a loop has the clauses that its break and continue need.                *)
Compiles[s \in Stmts] ==
  /\ \A part \in {s.init, s.body, s.else} :
       /\ \A i \in DOMAIN part : Compiles[part[i]]
       /\ NothingUnreachable(part)
       /\ Closes(part) => BlockReturns(part)
  /\ s.kind = "if" => BlockReturns(s.body) \/ ~BlockReturns(s.else)
  /\ s.kind = "for" =>
       /\ "break" \in ExitsIn(s.body) => s.expr # <<>>
       /\ "continue" \in ExitsIn(s.body) => s.iter # <<>> /\ ~BlockReturns(s.body)
  /\ s.kind = "do" /\ BlockReturns(s.body) => ExitsIn(s.body) = {}

Supported(b) ==
  (\A i \in DOMAIN b : Compiles[b[i]]) /\ NothingUnreachable(b) /\ Closes(b)

(* Whatever the nesting, a program that keeps to those rules compiles to   *)
(* code that QBE accepts.                                                  *)
SupportedCompiles == Emitted /\ Supported(function) => Accepted

=============================================================================
