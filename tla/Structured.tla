----------------------------- MODULE Structured -----------------------------
(***************************************************************************)
(* What a function body means, read as a structured program: the abstract  *)
(* specification of the code that iirac/source/iic_codegen_stmt.c emits.   *)
(* Expressions are atoms; what can be observed is the sequence of          *)
(* evaluations, of decisions and the return.                               *)
(***************************************************************************)
EXTENDS Naturals, Sequences

VARIABLES
  function,  \* the body that is executed, whichever it is
  rest,      \* what is still to be executed, the next thing first
  last       \* the last thing that was observed

vars == <<function, rest, last>>

Quiet == [event |-> "none", what |-> <<>>]

(* Items of rest: a statement, an evaluation, a decision, the return, and  *)
(* the two points of a loop, its test and the end of its body.             *)
Stmt(s) == [item |-> "stmt", of |-> s]
Eval(e) == [item |-> "eval", of |-> e]
Branch(yes, no) == [item |-> "branch", yes |-> yes, no |-> no]
Return == [item |-> "return"]
Test(s) == [item |-> "test", of |-> s]
Again(s) == [item |-> "again", of |-> s]

StmtItems(b) == [i \in DOMAIN b |-> Stmt(b[i])]
Evals(es) == [i \in DOMAIN es |-> Eval(es[i])]

(* The loop that break and continue belong to is the innermost one whose   *)
(* body has not ended.                                                     *)
Enclosing(k) == CHOOSE i \in DOMAIN k :
  k[i].item = "again" /\ \A j \in 1 .. i - 1 : k[j].item # "again"

StmtMeans(s, k) ==
  CASE s.kind = "expr"     -> Evals(s.expr) \o k
    [] s.kind = "return"   -> Evals(s.expr) \o <<Return>>
    [] s.kind = "block"    -> StmtItems(s.body) \o k
    [] s.kind = "if"       -> Evals(s.expr) \o
                              <<Branch(StmtItems(s.body), StmtItems(s.else))>> \o k
    [] s.kind = "while"    -> <<Test(s)>> \o k
    [] s.kind = "for"      -> StmtItems(s.init) \o <<Test(s)>> \o k
    [] s.kind = "do"       -> StmtItems(s.body) \o <<Again(s)>> \o k
    [] s.kind = "break"    -> SubSeq(k, Enclosing(k) + 1, Len(k))
    [] s.kind = "continue" -> SubSeq(k, Enclosing(k), Len(k))

(* A loop without a condition runs for ever.                               *)
TestMeans(s, k) ==
  LET body == StmtItems(s.body) \o <<Again(s)>>
  IN IF s.expr = <<>> THEN body \o k
                      ELSE Evals(s.expr) \o <<Branch(body, <<>>)>> \o k

Means(x, k) ==
  CASE x.item = "stmt"  -> StmtMeans(x.of, k)
    [] x.item = "test"  -> TestMeans(x.of, k)
    [] x.item = "again" -> Evals(x.of.iter) \o <<Test(x.of)>> \o k

Init == rest = StmtItems(function) /\ last = Quiet

Silent == rest # <<>> /\ Head(rest).item \in {"stmt", "test", "again"}

Unfold ==
  /\ Silent
  /\ rest' = Means(Head(rest), Tail(rest))
  /\ last' = last

Evaluate ==
  /\ rest # <<>> /\ Head(rest).item = "eval"
  /\ last' = [event |-> "eval", what |-> <<Head(rest).of>>]
  /\ rest' = Tail(rest)

Decide(yes) ==
  /\ rest # <<>> /\ Head(rest).item = "branch"
  /\ last' = [event |-> IF yes THEN "yes" ELSE "no", what |-> <<>>]
  /\ rest' = (IF yes THEN Head(rest).yes ELSE Head(rest).no) \o Tail(rest)

Leave ==
  /\ rest # <<>> /\ Head(rest).item = "return"
  /\ last' = [event |-> "return", what |-> <<>>]
  /\ rest' = <<>>

Next ==
  /\ Unfold \/ Evaluate \/ (\E yes \in BOOLEAN : Decide(yes)) \/ Leave
  /\ UNCHANGED function

Spec == Init /\ [][Next]_vars

=============================================================================
