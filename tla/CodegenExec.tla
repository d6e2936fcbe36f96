---------------------------- MODULE CodegenExec -----------------------------
(***************************************************************************)
(* The emitted code executed beside the program it was emitted for: after  *)
(* the generator of Codegen has finished and QBE has accepted the code, an *)
(* instruction pointer runs through it.  The code decides what happens;    *)
(* rest, the program that Structured would still execute, is kept as a     *)
(* history variable, and the code is right if the two implement            *)
(* Structured.                                                             *)
(***************************************************************************)
EXTENDS Codegen

VARIABLES
  ip,    \* the line of the code to be executed, 0 when it does not run
  rest,  \* see Structured
  last   \* the last thing that the code was observed to do

execVars == <<ip, rest, last>>

Source == INSTANCE Structured

ExecInit ==
  /\ Init
  /\ ip = 0
  /\ rest = Source!StmtItems(function)
  /\ last = Source!Quiet

Generate == Next /\ UNCHANGED execVars

Start ==
  /\ ip = 0 /\ last = Source!Quiet /\ Accepted
  /\ ip' = 1
  /\ UNCHANGED <<vars, rest, last>>

Running == ip # 0
Now == output[ip]

(* The program is unfolded until the next thing in it can be observed.     *)
UnfoldSource ==
  /\ Running /\ Source!Unfold
  /\ UNCHANGED <<vars, ip>>

Goto(l) == ip' \in DefinedAt(l)

Passed == IF rest = <<>> THEN <<>> ELSE Tail(rest)

Pass ==
  /\ Running /\ ~Source!Silent /\ Now.op = "label"
  /\ ip' = ip + 1
  /\ UNCHANGED <<vars, rest, last>>

Jump ==
  /\ Running /\ ~Source!Silent /\ Now.op = "jmp"
  /\ Goto(Now.to[1])
  /\ UNCHANGED <<vars, rest, last>>

Compute ==
  /\ Running /\ ~Source!Silent /\ Now.op = "eval"
  /\ ip' = ip + 1
  /\ last' = [event |-> "eval", what |-> Now.expr]
  /\ rest' = Passed
  /\ UNCHANGED vars

(* jnz: whatever the value was.                                            *)
JumpIf(yes) ==
  /\ Running /\ ~Source!Silent /\ Now.op = "jnz"
  /\ Goto(Now.to[IF yes THEN 1 ELSE 2])
  /\ last' = [event |-> IF yes THEN "yes" ELSE "no", what |-> <<>>]
  /\ rest' = IF rest # <<>> /\ Head(rest).item = "branch"
               THEN (IF yes THEN Head(rest).yes ELSE Head(rest).no) \o Tail(rest)
               ELSE Passed
  /\ UNCHANGED vars

Leave ==
  /\ Running /\ ~Source!Silent /\ Now.op = "ret"
  /\ ip' = 0
  /\ last' = [event |-> "return", what |-> <<>>]
  /\ rest' = <<>>
  /\ UNCHANGED vars

(* The function has returned, or QBE has refused its code.                 *)
Finished ==
  /\ Emitted /\ ip = 0
  /\ Accepted => last # Source!Quiet
  /\ UNCHANGED <<vars, execVars>>

ExecNext ==
  \/ Generate \/ Start \/ UnfoldSource
  \/ Pass \/ Jump \/ Compute \/ (\E yes \in BOOLEAN : JumpIf(yes)) \/ Leave
  \/ Finished

ExecSpec == ExecInit /\ [][ExecNext]_<<vars, execVars>> /\ WF_<<vars, execVars>>(Generate)

-----------------------------------------------------------------------------
(* Code that QBE accepts does what the program says: the same evaluations  *)
(* and decisions in the same order, whatever the values are, through every *)
(* nesting of loops, branches, break and continue.                         *)
FollowsSource == Source!Spec

=============================================================================
