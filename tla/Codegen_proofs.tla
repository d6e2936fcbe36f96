--------------------------- MODULE Codegen_proofs ---------------------------
(***************************************************************************)
(* Proofs about the control flow of the emitted code, for every set of     *)
(* statements and every function body: no label is written twice.          *)
(***************************************************************************)
EXTENDS Codegen, TLAPS, SequenceTheorems

-----------------------------------------------------------------------------
(* Lines and what is left to do, as far as labels are concerned.           *)

InfoSet == [break : Labels, continue : Labels]

Tasks == [task : {"stmt"}, stmt : Stmts]
         \cup [task : {"write"}, lines : Seq(Line)]
         \cup [task : {"restore"}, info : InfoSet]

(* The labels that lines put into the code, and those that the work left   *)
(* will put there.                                                         *)
Marks(lines) == {lines[i] : i \in {j \in DOMAIN lines : lines[j].op = "label"}}
MarksLater(work) ==
  UNION {Marks(work[k].lines) : k \in {j \in DOMAIN work : work[j].task = "write"}}

Once(lines) ==
  \A i, j \in DOMAIN lines : lines[i].op = "label" /\ lines[j] = lines[i] => i = j

OnceLater(work) ==
  \A k \in DOMAIN work : work[k].task = "write" =>
    /\ Once(work[k].lines)
    /\ \A m \in DOMAIN work :
         work[m].task = "write" /\ m # k => Marks(work[k].lines) \cap Marks(work[m].lines) = {}

(* The labels numbered from m to n - 1. *)
Numbered(m, n) == {At(Block(c)) : c \in {x \in Nat : m <= x /\ x < n}}

(* Lines and work that use labels from m to n - 1 only, each once. *)
Fresh(lines, work, m, n) ==
  /\ lines \in Seq(Line)
  /\ work \in Seq(Tasks)
  /\ Marks(lines) \cup MarksLater(work) \subseteq Numbered(m, n)
  /\ Marks(lines) \cap MarksLater(work) = {}
  /\ Once(lines)
  /\ OnceLater(work)

-----------------------------------------------------------------------------
(* The inductive invariant.                                                *)

TypeInv ==
  /\ function \in Bodies
  /\ output \in Seq(Line)
  /\ todo \in Seq(Tasks)
  /\ counter \in Nat
  /\ info \in InfoSet

(* A label taken from the counter is in the code or in one place of the    *)
(* work left, never in two; the counter is beyond all of them.             *)
LabelsKept ==
  /\ Marks(output) \subseteq {At(StartLabel), At(EntryLabel)} \cup Numbered(0, counter)
  /\ MarksLater(todo) \subseteq Numbered(0, counter)
  /\ Marks(output) \cap MarksLater(todo) = {}
  /\ OnceLater(todo)

IInv == TypeInv /\ LabelsKept /\ LabelsUnique

-----------------------------------------------------------------------------
(* Lines.                                                                  *)

LEMMA LabelTypes ==
  /\ \A n \in Nat : Block(n) \in Labels
  /\ StartLabel \in Labels /\ EntryLabel \in Labels /\ NoLabel \in Labels
BY DEF Block, StartLabel, EntryLabel, NoLabel, Labels

LEMMA LineTypes ==
  ASSUME NEW l \in Labels, NEW m \in Labels
  PROVE  /\ At(l) \in Line /\ Jmp(l) \in Line /\ Jnz(l, m) \in Line /\ Ret \in Line
         /\ \A e \in Exprs : Code(e) \in Line
<1>1. <<>> \in Seq(Exprs) /\ <<>> \in Seq(Labels) /\ <<l>> \in Seq(Labels)
      /\ <<l, m>> \in Seq(Labels) /\ \A e \in Exprs : <<e>> \in Seq(Exprs)
  OBVIOUS
<1>2. At(l) \in Line
  BY <1>1 DEF At, Line
<1>3. Jmp(l) \in Line
  BY <1>1 DEF Jmp, Line
<1>4. Jnz(l, m) \in Line
  BY <1>1 DEF Jnz, Line
<1>5. Ret \in Line
  BY <1>1 DEF Ret, Line
<1>6. \A e \in Exprs : Code(e) \in Line
  BY <1>1 DEF Code, Line
<1> QED BY <1>2, <1>3, <1>4, <1>5, <1>6

(* Labels with different numbers are different lines, and no other line of *)
(* the model looks like one.                                               *)
LEMMA LabelsDiffer ==
  /\ \A m, n : At(Block(m)) = At(Block(n)) => m = n
  /\ \A n : At(Block(n)) # At(StartLabel) /\ At(Block(n)) # At(EntryLabel)
  /\ At(StartLabel) # At(EntryLabel)
<1>1. \A l, m : At(l) = At(m) => l = m
  <2> TAKE l, m
  <2>1. At(l).to[1] = l /\ At(m).to[1] = m
    BY DEF At
  <2> QED BY <2>1
<1>2. \A m, n : Block(m) = Block(n) => m = n
  BY DEF Block
<1>3. \A n : Block(n) # StartLabel /\ Block(n) # EntryLabel
  BY DEF Block, StartLabel, EntryLabel
<1>4. StartLabel # EntryLabel
  BY DEF StartLabel, EntryLabel
<1> QED BY <1>1, <1>2, <1>3, <1>4

LEMMA NoLines == <<>> \in Seq(Line) /\ Marks(<<>>) = {} /\ Once(<<>>)
BY DEF Marks, Once

(* One line. *)
LEMMA LabelLine ==
  ASSUME NEW l \in Labels
  PROVE  <<At(l)>> \in Seq(Line) /\ Marks(<<At(l)>>) = {At(l)} /\ Once(<<At(l)>>)
<1>1. <<At(l)>> \in Seq(Line)
  BY LineTypes
<1>2. At(l).op = "label"
  BY DEF At
<1>3. DOMAIN <<At(l)>> = {1} /\ <<At(l)>>[1] = At(l)
  OBVIOUS
<1> QED BY <1>1, <1>2, <1>3 DEF Marks, Once

LEMMA OtherLine ==
  ASSUME NEW line \in Line, line.op # "label"
  PROVE  <<line>> \in Seq(Line) /\ Marks(<<line>>) = {} /\ Once(<<line>>)
<1>1. DOMAIN <<line>> = {1} /\ <<line>>[1] = line
  OBVIOUS
<1> QED BY <1>1 DEF Marks, Once

LEMMA JumpLines ==
  ASSUME NEW l \in Labels, NEW m \in Labels
  PROVE  /\ Jmp(l) \in Line /\ Jmp(l).op # "label"
         /\ Jnz(l, m) \in Line /\ Jnz(l, m).op # "label"
         /\ <<Jmp(l)>> \in Seq(Line) /\ Marks(<<Jmp(l)>>) = {} /\ Once(<<Jmp(l)>>)
         /\ <<Jnz(l, m)>> \in Seq(Line) /\ Marks(<<Jnz(l, m)>>) = {} /\ Once(<<Jnz(l, m)>>)
         /\ <<Ret>> \in Seq(Line) /\ Marks(<<Ret>>) = {} /\ Once(<<Ret>>)
<1>1. Jmp(l).op # "label" /\ Jnz(l, m).op # "label" /\ Ret.op # "label"
  BY DEF Jmp, Jnz, Ret
<1>2. Jmp(l) \in Line /\ Jnz(l, m) \in Line /\ Ret \in Line
  BY LineTypes
<1> QED BY <1>1, <1>2, OtherLine

(* A jump and the label after it. *)
LEMMA JumpThenLabel ==
  ASSUME NEW jump \in Line, jump.op # "label", NEW l \in Labels
  PROVE  /\ <<jump, At(l)>> \in Seq(Line)
         /\ Marks(<<jump, At(l)>>) = {At(l)}
         /\ Once(<<jump, At(l)>>)
<1>1. At(l) \in Line /\ At(l).op = "label"
  BY LineTypes DEF At
<1>2. DOMAIN <<jump, At(l)>> = {1, 2} /\ <<jump, At(l)>>[1] = jump /\ <<jump, At(l)>>[2] = At(l)
  OBVIOUS
<1>3. <<jump, At(l)>> \in Seq(Line)
  BY <1>1
<1> QED BY <1>1, <1>2, <1>3 DEF Marks, Once

(* The code of expressions has no label. *)
LEMMA CodesLines ==
  ASSUME NEW es \in Seq(Exprs)
  PROVE  Codes(es) \in Seq(Line) /\ Marks(Codes(es)) = {} /\ Once(Codes(es))
<1>1. DOMAIN Codes(es) = 1 .. Len(es) /\ Len(es) \in Nat
  BY DEF Codes
<1>2. \A i \in 1 .. Len(es) : Codes(es)[i] = Code(es[i]) /\ es[i] \in Exprs
  BY DEF Codes
<1>3. \A i \in 1 .. Len(es) : Codes(es)[i] \in Line /\ Codes(es)[i].op = "eval"
  <2>1. \A e \in Exprs : Code(e).op = "eval"
    BY DEF Code
  <2>2. \A e \in Exprs : Code(e) \in Line
    BY LabelTypes, LineTypes
  <2> QED BY <1>2, <2>1, <2>2
<1>4. Codes(es) = [i \in 1 .. Len(es) |-> Codes(es)[i]]
  BY DEF Codes
<1>5. Codes(es) \in Seq(Line)
  BY <1>1, <1>3, <1>4
<1> QED BY <1>1, <1>3, <1>5 DEF Marks, Once

LEMMA ConcatLines ==
  ASSUME NEW S, NEW a \in Seq(S), NEW b \in Seq(S)
  PROVE  /\ a \o b \in Seq(S)
         /\ Marks(a \o b) = Marks(a) \cup Marks(b)
         /\ Once(a) /\ Once(b) /\ Marks(a) \cap Marks(b) = {} => Once(a \o b)
<1> DEFINE c == a \o b
<1>1. /\ c \in Seq(S)
      /\ Len(c) = Len(a) + Len(b)
      /\ \A i \in 1 .. Len(a) + Len(b) : c[i] = IF i <= Len(a) THEN a[i] ELSE b[i - Len(a)]
  BY ConcatProperties
<1>2. /\ Len(a) \in Nat /\ Len(b) \in Nat
      /\ DOMAIN a = 1 .. Len(a) /\ DOMAIN b = 1 .. Len(b) /\ DOMAIN c = 1 .. Len(a) + Len(b)
  BY <1>1
<1> HIDE DEF c
<1>3. \A i \in 1 .. Len(a) : i \in DOMAIN c /\ c[i] = a[i]
  BY <1>1, <1>2
<1>4. \A i \in 1 .. Len(b) : Len(a) + i \in DOMAIN c /\ c[Len(a) + i] = b[i]
  <2> TAKE i \in 1 .. Len(b)
  <2>1. /\ Len(a) + i \in 1 .. Len(a) + Len(b)
        /\ ~(Len(a) + i <= Len(a))
        /\ (Len(a) + i) - Len(a) = i
    BY <1>2
  <2> QED BY <1>1, <1>2, <2>1
<1>5. \A i \in DOMAIN c : \/ i \in 1 .. Len(a)
                          \/ \E j \in 1 .. Len(b) : i = Len(a) + j
  <2> SUFFICES ASSUME NEW i \in DOMAIN c, i \notin 1 .. Len(a)
               PROVE  \E j \in 1 .. Len(b) : i = Len(a) + j
    OBVIOUS
  <2>1. i - Len(a) \in 1 .. Len(b) /\ i = Len(a) + (i - Len(a))
    BY <1>2
  <2> QED BY <2>1
<1>6. Marks(c) = Marks(a) \cup Marks(b)
  <2>1. \A x : x \in Marks(c) <=> \E i \in DOMAIN c : x = c[i] /\ c[i].op = "label"
    BY DEF Marks
  <2>2. \A x : x \in Marks(a) <=> \E i \in 1 .. Len(a) : x = a[i] /\ a[i].op = "label"
    BY <1>2 DEF Marks
  <2>3. \A x : x \in Marks(b) <=> \E i \in 1 .. Len(b) : x = b[i] /\ b[i].op = "label"
    BY <1>2 DEF Marks
  <2>4. ASSUME NEW x \in Marks(c) PROVE x \in Marks(a) \cup Marks(b)
    <3>1. PICK i \in DOMAIN c : x = c[i] /\ c[i].op = "label"
      BY <2>1
    <3>2. CASE i \in 1 .. Len(a)
      BY <1>3, <2>2, <3>1, <3>2
    <3>3. CASE i \notin 1 .. Len(a)
      <4>1. PICK j \in 1 .. Len(b) : i = Len(a) + j
        BY <1>5, <3>3
      <4> QED BY <1>4, <2>3, <3>1, <4>1
    <3> QED BY <3>2, <3>3
  <2>5. Marks(a) \subseteq Marks(c)
    BY <1>3, <2>1, <2>2
  <2>6. Marks(b) \subseteq Marks(c)
    BY <1>4, <2>1, <2>3
  <2> QED BY <2>4, <2>5, <2>6
<1>7. ASSUME Once(a), Once(b), Marks(a) \cap Marks(b) = {}
      PROVE  Once(c)
  <2> SUFFICES ASSUME NEW i \in DOMAIN c, NEW j \in DOMAIN c,
                      c[i].op = "label", c[j] = c[i]
               PROVE  i = j
    BY DEF Once
  <2>1. CASE i \in 1 .. Len(a) /\ j \in 1 .. Len(a)
    BY <1>2, <1>3, <1>7, <2>1 DEF Once
  <2>2. CASE (i \notin 1 .. Len(a)) /\ (j \notin 1 .. Len(a))
    <3>1. PICK m \in 1 .. Len(b) : i = Len(a) + m
      BY <1>5, <2>2
    <3>2. PICK n \in 1 .. Len(b) : j = Len(a) + n
      BY <1>5, <2>2
    <3>3. b[m].op = "label" /\ b[n] = b[m]
      BY <1>4, <3>1, <3>2
    <3> QED BY <1>2, <1>7, <3>1, <3>2, <3>3 DEF Once
  <2>3. CASE i \in 1 .. Len(a) /\ j \notin 1 .. Len(a)
    <3>1. PICK n \in 1 .. Len(b) : j = Len(a) + n
      BY <1>5, <2>3
    <3>2. c[i] \in Marks(a)
      BY <1>2, <1>3, <2>3 DEF Marks
    <3>3. c[j] \in Marks(b)
      BY <1>2, <1>4, <3>1 DEF Marks
    <3> QED BY <1>7, <3>2, <3>3
  <2>4. CASE j \in 1 .. Len(a) /\ i \notin 1 .. Len(a)
    <3>1. PICK n \in 1 .. Len(b) : i = Len(a) + n
      BY <1>5, <2>4
    <3>2. c[j] \in Marks(a)
      BY <1>2, <1>3, <2>4 DEF Marks
    <3>3. c[i] \in Marks(b)
      BY <1>2, <1>4, <3>1 DEF Marks
    <3> QED BY <1>7, <3>2, <3>3
  <2> QED BY <2>1, <2>2, <2>3, <2>4
<1> QED BY <1>1, <1>6, <1>7 DEF c

LEMMA LinesUnderCondition ==
  ASSUME NEW c, NEW a \in Seq(Line), Once(a)
  PROVE  /\ When(c, a) \in Seq(Line) /\ Once(When(c, a))
         /\ Marks(When(c, a)) \subseteq Marks(a)
BY NoLines DEF When

-----------------------------------------------------------------------------
(* The work left.                                                          *)

LEMMA TaskParts ==
  ASSUME NEW t \in Tasks
  PROVE  /\ t.task \in {"stmt", "write", "restore"}
         /\ t.task = "stmt" => t.stmt \in Stmts
         /\ t.task = "write" => t.lines \in Seq(Line)
         /\ t.task = "restore" => t.info \in InfoSet
BY DEF Tasks

LEMMA NoWork == <<>> \in Seq(Tasks) /\ MarksLater(<<>>) = {} /\ OnceLater(<<>>)
BY DEF MarksLater, OnceLater

(* The statements inside: none has written its labels yet. *)
LEMMA InnerStatements ==
  ASSUME NEW b \in Seq(Stmts)
  PROVE  EmitAll(b) \in Seq(Tasks) /\ MarksLater(EmitAll(b)) = {} /\ OnceLater(EmitAll(b))
<1>1. DOMAIN EmitAll(b) = 1 .. Len(b) /\ Len(b) \in Nat
  BY DEF EmitAll
<1>2. \A i \in 1 .. Len(b) : EmitAll(b)[i] = Emit(b[i]) /\ b[i] \in Stmts
  BY DEF EmitAll
<1>3. \A i \in 1 .. Len(b) : EmitAll(b)[i] \in Tasks /\ EmitAll(b)[i].task = "stmt"
  <2>1. \A s \in Stmts : Emit(s) \in Tasks /\ Emit(s).task = "stmt"
    BY DEF Emit, Tasks
  <2> QED BY <1>2, <2>1
<1>4. EmitAll(b) = [i \in 1 .. Len(b) |-> EmitAll(b)[i]]
  BY DEF EmitAll
<1>5. EmitAll(b) \in Seq(Tasks)
  BY <1>1, <1>3, <1>4
<1> QED BY <1>1, <1>3, <1>5 DEF MarksLater, OnceLater

LEMMA LinesLater ==
  ASSUME NEW a \in Seq(Line), Once(a)
  PROVE  /\ <<Write(a)>> \in Seq(Tasks)
         /\ MarksLater(<<Write(a)>>) = Marks(a)
         /\ OnceLater(<<Write(a)>>)
<1>1. Write(a) \in Tasks /\ Write(a).task = "write" /\ Write(a).lines = a
  BY DEF Write, Tasks
<1>2. DOMAIN <<Write(a)>> = {1} /\ <<Write(a)>>[1] = Write(a)
  OBVIOUS
<1>3. <<Write(a)>> \in Seq(Tasks)
  BY <1>1
<1>4. MarksLater(<<Write(a)>>) = Marks(a)
  BY <1>1, <1>2 DEF MarksLater
<1>5. OnceLater(<<Write(a)>>)
  BY <1>1, <1>2 DEF OnceLater
<1> QED BY <1>3, <1>4, <1>5

LEMMA RestoreLater ==
  ASSUME info \in InfoSet
  PROVE  LeaveLoop \in Seq(Tasks) /\ MarksLater(LeaveLoop) = {} /\ OnceLater(LeaveLoop)
<1>1. Restore(info) \in Tasks /\ Restore(info).task = "restore"
  BY DEF Restore, Tasks
<1>2. DOMAIN LeaveLoop = {1} /\ LeaveLoop[1] = Restore(info)
  BY DEF LeaveLoop
<1>3. LeaveLoop \in Seq(Tasks)
  BY <1>1 DEF LeaveLoop
<1> QED BY <1>1, <1>2, <1>3 DEF MarksLater, OnceLater

LEMMA ConcatWork ==
  ASSUME NEW a \in Seq(Tasks), NEW b \in Seq(Tasks)
  PROVE  /\ a \o b \in Seq(Tasks)
         /\ MarksLater(a \o b) = MarksLater(a) \cup MarksLater(b)
         /\ OnceLater(a) /\ OnceLater(b) /\ MarksLater(a) \cap MarksLater(b) = {}
              => OnceLater(a \o b)
<1> DEFINE c == a \o b
<1>1. /\ c \in Seq(Tasks)
      /\ Len(c) = Len(a) + Len(b)
      /\ \A i \in 1 .. Len(a) + Len(b) : c[i] = IF i <= Len(a) THEN a[i] ELSE b[i - Len(a)]
  BY ConcatProperties
<1>2. /\ Len(a) \in Nat /\ Len(b) \in Nat
      /\ DOMAIN a = 1 .. Len(a) /\ DOMAIN b = 1 .. Len(b) /\ DOMAIN c = 1 .. Len(a) + Len(b)
  BY <1>1
<1> HIDE DEF c
<1>3. \A i \in 1 .. Len(a) : i \in DOMAIN c /\ c[i] = a[i]
  BY <1>1, <1>2
<1>4. \A i \in 1 .. Len(b) : Len(a) + i \in DOMAIN c /\ c[Len(a) + i] = b[i]
  <2> TAKE i \in 1 .. Len(b)
  <2>1. /\ Len(a) + i \in 1 .. Len(a) + Len(b)
        /\ ~(Len(a) + i <= Len(a))
        /\ (Len(a) + i) - Len(a) = i
    BY <1>2
  <2> QED BY <1>1, <1>2, <2>1
<1>5. \A i \in DOMAIN c : \/ i \in 1 .. Len(a)
                          \/ \E j \in 1 .. Len(b) : i = Len(a) + j
  <2> SUFFICES ASSUME NEW i \in DOMAIN c, i \notin 1 .. Len(a)
               PROVE  \E j \in 1 .. Len(b) : i = Len(a) + j
    OBVIOUS
  <2>1. i - Len(a) \in 1 .. Len(b) /\ i = Len(a) + (i - Len(a))
    BY <1>2
  <2> QED BY <2>1
<1>6. /\ \A k \in 1 .. Len(a) : a[k].task = "write" => Marks(a[k].lines) \subseteq MarksLater(a)
      /\ \A k \in 1 .. Len(b) : b[k].task = "write" => Marks(b[k].lines) \subseteq MarksLater(b)
      /\ \A k \in DOMAIN c : c[k].task = "write" => Marks(c[k].lines) \subseteq MarksLater(c)
  BY <1>2 DEF MarksLater
<1>7. MarksLater(c) = MarksLater(a) \cup MarksLater(b)
  <2>1. ASSUME NEW x \in MarksLater(c) PROVE x \in MarksLater(a) \cup MarksLater(b)
    <3>1. PICK k \in DOMAIN c : c[k].task = "write" /\ x \in Marks(c[k].lines)
      BY DEF MarksLater
    <3>2. CASE k \in 1 .. Len(a)
      BY <1>3, <1>6, <3>1, <3>2
    <3>3. CASE k \notin 1 .. Len(a)
      <4>1. PICK j \in 1 .. Len(b) : k = Len(a) + j
        BY <1>5, <3>3
      <4> QED BY <1>4, <1>6, <3>1, <4>1
    <3> QED BY <3>2, <3>3
  <2>2. ASSUME NEW x \in MarksLater(a) PROVE x \in MarksLater(c)
    <3>1. PICK k \in 1 .. Len(a) : a[k].task = "write" /\ x \in Marks(a[k].lines)
      BY <1>2 DEF MarksLater
    <3> QED BY <1>3, <1>6, <3>1
  <2>3. ASSUME NEW x \in MarksLater(b) PROVE x \in MarksLater(c)
    <3>1. PICK k \in 1 .. Len(b) : b[k].task = "write" /\ x \in Marks(b[k].lines)
      BY <1>2 DEF MarksLater
    <3> QED BY <1>4, <1>6, <3>1
  <2> QED BY <2>1, <2>2, <2>3
<1>8. ASSUME OnceLater(a), OnceLater(b), MarksLater(a) \cap MarksLater(b) = {}
      PROVE  OnceLater(c)
  <2>1. ASSUME NEW k \in DOMAIN c, c[k].task = "write" PROVE Once(c[k].lines)
    <3>1. CASE k \in 1 .. Len(a)
      BY <1>2, <1>3, <1>8, <2>1, <3>1 DEF OnceLater
    <3>2. CASE k \notin 1 .. Len(a)
      <4>1. PICK j \in 1 .. Len(b) : k = Len(a) + j
        BY <1>5, <3>2
      <4> QED BY <1>2, <1>4, <1>8, <2>1, <4>1 DEF OnceLater
    <3> QED BY <3>1, <3>2
  <2>2. ASSUME NEW k \in DOMAIN c, NEW m \in DOMAIN c, m # k,
               c[k].task = "write", c[m].task = "write"
        PROVE  Marks(c[k].lines) \cap Marks(c[m].lines) = {}
    <3>1. CASE k \in 1 .. Len(a) /\ m \in 1 .. Len(a)
      BY <1>2, <1>3, <1>8, <2>2, <3>1 DEF OnceLater
    <3>2. CASE k \notin 1 .. Len(a) /\ m \notin 1 .. Len(a)
      <4>1. PICK j \in 1 .. Len(b) : k = Len(a) + j
        BY <1>5, <3>2
      <4>2. PICK n \in 1 .. Len(b) : m = Len(a) + n
        BY <1>5, <3>2
      <4> QED BY <1>2, <1>4, <1>8, <2>2, <4>1, <4>2 DEF OnceLater
    <3>3. CASE k \in 1 .. Len(a) /\ m \notin 1 .. Len(a)
      <4>1. PICK n \in 1 .. Len(b) : m = Len(a) + n
        BY <1>5, <3>3
      <4>2. Marks(c[k].lines) \subseteq MarksLater(a)
        BY <1>3, <1>6, <2>2, <3>3
      <4>3. Marks(c[m].lines) \subseteq MarksLater(b)
        BY <1>4, <1>6, <2>2, <4>1
      <4> QED BY <1>8, <4>2, <4>3
    <3>4. CASE m \in 1 .. Len(a) /\ k \notin 1 .. Len(a)
      <4>1. PICK n \in 1 .. Len(b) : k = Len(a) + n
        BY <1>5, <3>4
      <4>2. Marks(c[m].lines) \subseteq MarksLater(a)
        BY <1>3, <1>6, <2>2, <3>4
      <4>3. Marks(c[k].lines) \subseteq MarksLater(b)
        BY <1>4, <1>6, <2>2, <4>1
      <4> QED BY <1>8, <4>2, <4>3
    <3> QED BY <3>1, <3>2, <3>3, <3>4
  <2> QED BY <2>1, <2>2 DEF OnceLater
<1> QED BY <1>1, <1>7, <1>8 DEF c

(* The task on top, and what is left without it. *)
LEMMA HeadFacts ==
  ASSUME todo \in Seq(Tasks), todo # <<>>
  PROVE  /\ Head(todo) \in Tasks
         /\ Tail(todo) \in Seq(Tasks)
         /\ MarksLater(Tail(todo)) \subseteq MarksLater(todo)
         /\ Head(todo).task = "write" => Marks(Head(todo).lines) \subseteq MarksLater(todo)
         /\ OnceLater(todo) =>
              /\ OnceLater(Tail(todo))
              /\ Head(todo).task = "write" =>
                   /\ Once(Head(todo).lines)
                   /\ Marks(Head(todo).lines) \cap MarksLater(Tail(todo)) = {}
<1> DEFINE t == Tail(todo)
<1>1. /\ Len(todo) \in Nat /\ Len(todo) > 0 /\ DOMAIN todo = 1 .. Len(todo)
      /\ Head(todo) = todo[1] /\ Head(todo) \in Tasks
      /\ t \in Seq(Tasks) /\ Len(t) = Len(todo) - 1
      /\ \A i \in 1 .. Len(t) : t[i] = todo[i + 1]
  OBVIOUS
<1>2. DOMAIN t = 1 .. Len(t) /\ Len(t) \in Nat
  BY <1>1
<1> HIDE DEF t
<1>3. \A i \in DOMAIN t : i + 1 \in DOMAIN todo /\ t[i] = todo[i + 1] /\ i + 1 # 1
  BY <1>1, <1>2
<1>4. 1 \in DOMAIN todo
  BY <1>1
<1>5. \A k \in DOMAIN todo :
        todo[k].task = "write" => Marks(todo[k].lines) \subseteq MarksLater(todo)
  BY DEF MarksLater
<1>6. MarksLater(t) \subseteq MarksLater(todo)
  <2> SUFFICES ASSUME NEW x \in MarksLater(t) PROVE x \in MarksLater(todo)
    OBVIOUS
  <2>1. PICK k \in DOMAIN t : t[k].task = "write" /\ x \in Marks(t[k].lines)
    BY DEF MarksLater
  <2> QED BY <1>3, <1>5, <2>1
<1>7. ASSUME OnceLater(todo) PROVE OnceLater(t)
  <2> SUFFICES ASSUME NEW k \in DOMAIN t, t[k].task = "write"
               PROVE  /\ Once(t[k].lines)
                      /\ \A m \in DOMAIN t : t[m].task = "write" /\ m # k
                           => Marks(t[k].lines) \cap Marks(t[m].lines) = {}
    BY DEF OnceLater
  <2>1. \A m \in DOMAIN t : m # k => m + 1 # k + 1
    BY <1>2
  <2> QED BY <1>3, <1>7, <2>1 DEF OnceLater
<1>8. ASSUME OnceLater(todo), Head(todo).task = "write"
      PROVE  Once(Head(todo).lines) /\ Marks(Head(todo).lines) \cap MarksLater(t) = {}
  <2>1. Once(todo[1].lines)
    BY <1>1, <1>4, <1>8 DEF OnceLater
  <2>2. ASSUME NEW x \in Marks(todo[1].lines), x \in MarksLater(t) PROVE FALSE
    <3>1. PICK k \in DOMAIN t : t[k].task = "write" /\ x \in Marks(t[k].lines)
      BY <2>2 DEF MarksLater
    <3> QED BY <1>1, <1>3, <1>4, <1>8, <2>2, <3>1 DEF OnceLater
  <2> QED BY <1>1, <2>1, <2>2
<1> QED BY <1>1, <1>4, <1>5, <1>6, <1>7, <1>8 DEF t

-----------------------------------------------------------------------------
(* The steps.                                                              *)

(* What is handed to Emits keeps the invariant when it uses, once each,    *)
(* the labels that the step takes from the counter.                        *)
LEMMA EmitsKeeps ==
  ASSUME IInv, todo # <<>>, NEW lines, NEW work, NEW n \in Nat,
         Fresh(lines, work, counter, counter + n), Emits(lines, work, n)
  PROVE  /\ function' \in Bodies /\ output' \in Seq(Line)
         /\ todo' \in Seq(Tasks) /\ counter' \in Nat
         /\ LabelsKept' /\ LabelsUnique'
<1> DEFINE t == Tail(todo)
<1>1. /\ function' = function /\ output' = output \o lines
      /\ todo' = work \o t /\ counter' = counter + n
  BY DEF Emits
<1>2. /\ function \in Bodies /\ output \in Seq(Line) /\ counter \in Nat
      /\ LabelsKept /\ Once(output)
  BY DEF IInv, TypeInv, LabelsUnique, Once
<1>3. /\ t \in Seq(Tasks) /\ OnceLater(t)
      /\ MarksLater(t) \subseteq MarksLater(todo)
  BY <1>2, HeadFacts DEF IInv, TypeInv, LabelsKept
<1>4. /\ lines \in Seq(Line) /\ work \in Seq(Tasks) /\ Once(lines) /\ OnceLater(work)
      /\ Marks(lines) \cap MarksLater(work) = {}
      /\ Marks(lines) \subseteq Numbered(counter, counter + n)
      /\ MarksLater(work) \subseteq Numbered(counter, counter + n)
  BY DEF Fresh
<1> HIDE DEF t
<1>5. /\ Numbered(counter, counter + n) \cap Numbered(0, counter) = {}
      /\ Numbered(counter, counter + n)
            \cap ({At(StartLabel), At(EntryLabel)} \cup Numbered(0, counter)) = {}
  <2>1. \A c, d : (c \in Nat /\ d \in Nat /\ counter <= c /\ d < counter)
          => At(Block(c)) # At(Block(d))
    <3> SUFFICES ASSUME NEW c \in Nat, NEW d \in Nat, counter <= c, d < counter,
                        At(Block(c)) = At(Block(d))
                 PROVE  FALSE
      OBVIOUS
    <3>1. c = d
      BY LabelsDiffer
    <3> QED BY <1>2, <3>1
  <2>2. Numbered(counter, counter + n) \cap Numbered(0, counter) = {}
    BY <2>1 DEF Numbered
  <2>3. \A x \in Numbered(counter, counter + n) : x # At(StartLabel) /\ x # At(EntryLabel)
    BY LabelsDiffer DEF Numbered
  <2> QED BY <2>2, <2>3
<1>6. /\ Numbered(0, counter) \subseteq Numbered(0, counter + n)
      /\ Numbered(counter, counter + n) \subseteq Numbered(0, counter + n)
  <2>1. \A c \in Nat : c < counter => 0 <= c /\ c < counter + n
    BY <1>2
  <2>2. \A c \in Nat : 0 <= c
    OBVIOUS
  <2> QED BY <2>1, <2>2 DEF Numbered
<1>7. /\ output' \in Seq(Line)
      /\ Marks(output') = Marks(output) \cup Marks(lines)
      /\ Once(output')
  <2>1. Marks(output) \cap Marks(lines) = {}
    BY <1>2, <1>4, <1>5 DEF LabelsKept
  <2> QED BY <1>1, <1>2, <1>4, <2>1, ConcatLines
<1>8. /\ todo' \in Seq(Tasks)
      /\ MarksLater(todo') = MarksLater(work) \cup MarksLater(t)
      /\ OnceLater(todo')
  <2>1. MarksLater(work) \cap MarksLater(t) = {}
    BY <1>2, <1>3, <1>4, <1>5 DEF LabelsKept
  <2> QED BY <1>1, <1>3, <1>4, <2>1, ConcatWork
<1>9. Marks(output') \subseteq {At(StartLabel), At(EntryLabel)} \cup Numbered(0, counter')
  BY <1>1, <1>2, <1>4, <1>6, <1>7 DEF LabelsKept
<1>10. MarksLater(todo') \subseteq Numbered(0, counter')
  BY <1>1, <1>2, <1>3, <1>4, <1>6, <1>8 DEF LabelsKept
<1>11. Marks(output') \cap MarksLater(todo') = {}
  BY <1>2, <1>3, <1>4, <1>5, <1>7, <1>8 DEF LabelsKept
<1>12. LabelsKept'
  BY <1>8, <1>9, <1>10, <1>11 DEF LabelsKept, Marks, MarksLater, OnceLater, Numbered, Once
<1>13. LabelsUnique'
  BY <1>7 DEF Once, LabelsUnique
<1> QED BY <1>1, <1>2, <1>7, <1>8, <1>12, <1>13

(* The parts of the statement on top. *)
LEMMA StatementParts ==
  ASSUME IInv, NEW kind, Is(kind)
  PROVE  /\ todo # <<>>
         /\ Head(todo).stmt.expr \in Seq(Exprs) /\ Head(todo).stmt.iter \in Seq(Exprs)
         /\ Head(todo).stmt.init \in Seq(Stmts) /\ Head(todo).stmt.body \in Seq(Stmts)
         /\ Head(todo).stmt.else \in Seq(Stmts)
<1>1. todo # <<>> /\ Head(todo).task = "stmt"
  BY DEF Is
<1>2. Head(todo).stmt \in Stmts
  BY <1>1, HeadFacts, TaskParts DEF IInv, TypeInv
<1>3. Head(todo).stmt \in Shape
  BY <1>2, StmtsAssumption
<1> QED BY <1>1, <1>3 DEF Shape

-----------------------------------------------------------------------------
(* Each handler takes the labels it writes, now or later, from the counter, *)
(* and writes each in one place: built up part by part.                     *)

(* These lines, this work, with labels of M only, each once. *)
WritesIn(lines, M) == lines \in Seq(Line) /\ Marks(lines) \subseteq M /\ Once(lines)
LeavesIn(work, M) == work \in Seq(Tasks) /\ MarksLater(work) \subseteq M /\ OnceLater(work)

LEMMA WritesConcat ==
  ASSUME NEW a, NEW b, NEW M, NEW N, WritesIn(a, M), WritesIn(b, N), M \cap N = {}
  PROVE  WritesIn(a \o b, M \cup N)
<1>1. /\ a \in Seq(Line) /\ b \in Seq(Line) /\ Once(a) /\ Once(b)
      /\ Marks(a) \subseteq M /\ Marks(b) \subseteq N
  BY DEF WritesIn
<1>2. Marks(a) \cap Marks(b) = {}
  BY <1>1
<1>3. a \o b \in Seq(Line) /\ Marks(a \o b) = Marks(a) \cup Marks(b) /\ Once(a \o b)
  BY <1>1, <1>2, ConcatLines
<1> QED BY <1>1, <1>3 DEF WritesIn

LEMMA LeavesConcat ==
  ASSUME NEW a, NEW b, NEW M, NEW N, LeavesIn(a, M), LeavesIn(b, N), M \cap N = {}
  PROVE  LeavesIn(a \o b, M \cup N)
<1>1. /\ a \in Seq(Tasks) /\ b \in Seq(Tasks) /\ OnceLater(a) /\ OnceLater(b)
      /\ MarksLater(a) \subseteq M /\ MarksLater(b) \subseteq N
  BY DEF LeavesIn
<1>2. MarksLater(a) \cap MarksLater(b) = {}
  BY <1>1
<1>3. /\ a \o b \in Seq(Tasks) /\ MarksLater(a \o b) = MarksLater(a) \cup MarksLater(b)
      /\ OnceLater(a \o b)
  BY <1>1, <1>2, ConcatWork
<1> QED BY <1>1, <1>3 DEF LeavesIn

(* The same, without new labels on one side. *)
LEMMA WritesMore ==
  ASSUME NEW a, NEW b, NEW M, WritesIn(a, M), WritesIn(b, {})
  PROVE  WritesIn(a \o b, M) /\ WritesIn(b \o a, M)
<1>1. M \cup {} = M /\ {} \cup M = M /\ M \cap {} = {} /\ {} \cap M = {}
  OBVIOUS
<1>2. WritesIn(a \o b, M \cup {}) /\ WritesIn(b \o a, {} \cup M)
  BY <1>1, WritesConcat
<1> QED BY <1>1, <1>2

LEMMA LeavesMore ==
  ASSUME NEW a, NEW b, NEW M, LeavesIn(a, M), LeavesIn(b, {})
  PROVE  LeavesIn(a \o b, M) /\ LeavesIn(b \o a, M)
<1>1. M \cup {} = M /\ {} \cup M = M /\ M \cap {} = {} /\ {} \cap M = {}
  OBVIOUS
<1>2. LeavesIn(a \o b, M \cup {}) /\ LeavesIn(b \o a, {} \cup M)
  BY <1>1, LeavesConcat
<1> QED BY <1>1, <1>2

(* The parts that handlers are made of. *)
LEMMA WritesParts ==
  ASSUME NEW l \in Labels, NEW m \in Labels
  PROVE  /\ \A es \in Seq(Exprs) : WritesIn(Codes(es), {})
         /\ WritesIn(<<>>, {})
         /\ WritesIn(<<At(l)>>, {At(l)})
         /\ WritesIn(<<Jmp(l)>>, {})
         /\ WritesIn(<<Ret>>, {})
         /\ WritesIn(<<Jnz(l, m)>>, {})
         /\ \A k \in Labels : WritesIn(<<Jnz(l, m), At(k)>>, {At(k)})
         /\ \A k \in Labels : WritesIn(<<Jmp(l), At(k)>>, {At(k)})
BY CodesLines, NoLines, LabelLine, JumpLines, JumpThenLabel DEF WritesIn

LEMMA WritesWhen ==
  ASSUME NEW c, NEW a, NEW M, WritesIn(a, M)
  PROVE  WritesIn(When(c, a), M)
BY LinesUnderCondition DEF WritesIn

LEMMA LeavesParts ==
  ASSUME info \in InfoSet
  PROVE  /\ \A b \in Seq(Stmts) : LeavesIn(EmitAll(b), {})
         /\ LeavesIn(LeaveLoop, {})
         /\ LeavesIn(<<>>, {})
         /\ \A lines, M : WritesIn(lines, M) => LeavesIn(<<Write(lines)>>, M)
<1>1. \A b \in Seq(Stmts) : LeavesIn(EmitAll(b), {})
  BY InnerStatements DEF LeavesIn
<1>2. LeavesIn(LeaveLoop, {}) /\ LeavesIn(<<>>, {})
  BY RestoreLater, NoWork DEF LeavesIn
<1>3. \A lines, M : WritesIn(lines, M) => LeavesIn(<<Write(lines)>>, M)
  BY LinesLater DEF LeavesIn, WritesIn
<1> QED BY <1>1, <1>2, <1>3

(* The numbers that a step takes. *)
LEMMA TakenLabels ==
  ASSUME NEW m \in Nat, NEW n \in Nat, NEW c \in Nat, c < n
  PROVE  /\ Block(m + c) \in Labels
         /\ At(Block(m + c)) \in Numbered(m, m + n)
         /\ \A d \in Nat : d # c => At(Block(m + c)) # At(Block(m + d))
<1>1. m + c \in Nat /\ m <= m + c /\ m + c < m + n
  OBVIOUS
<1>2. \A d \in Nat : d # c => m + c # m + d
  OBVIOUS
<1> QED BY <1>1, <1>2, LabelTypes, LabelsDiffer DEF Numbered

(* Those of a step that takes three, and of one that takes five. *)
LEMMA ThreeLabels ==
  ASSUME NEW m \in Nat, NEW n \in Nat, n >= 3
  PROVE  /\ Block(m + 0) \in Labels /\ Block(m + 1) \in Labels /\ Block(m + 2) \in Labels
         /\ {At(Block(m + 0)), At(Block(m + 1)), At(Block(m + 2))} \subseteq Numbered(m, m + n)
         /\ At(Block(m + 0)) # At(Block(m + 1)) /\ At(Block(m + 0)) # At(Block(m + 2))
         /\ At(Block(m + 1)) # At(Block(m + 2))
<1>1. /\ Block(m + 0) \in Labels /\ At(Block(m + 0)) \in Numbered(m, m + n)
      /\ \A d \in Nat : d # 0 => At(Block(m + 0)) # At(Block(m + d))
  BY TakenLabels, 0 < n, 0 \in Nat
<1>2. /\ Block(m + 1) \in Labels /\ At(Block(m + 1)) \in Numbered(m, m + n)
      /\ \A d \in Nat : d # 1 => At(Block(m + 1)) # At(Block(m + d))
  BY TakenLabels, 1 < n, 1 \in Nat
<1>3. Block(m + 2) \in Labels /\ At(Block(m + 2)) \in Numbered(m, m + n)
  BY TakenLabels, 2 < n, 2 \in Nat
<1>4. At(Block(m + 0)) # At(Block(m + 1)) /\ At(Block(m + 0)) # At(Block(m + 2))
  BY <1>1, 1 \in Nat, 2 \in Nat, 1 # 0, 2 # 0
<1>5. At(Block(m + 1)) # At(Block(m + 2))
  BY <1>2, 2 \in Nat, 2 # 1
<1> QED BY <1>1, <1>2, <1>3, <1>4, <1>5

LEMMA FiveLabels ==
  ASSUME NEW m \in Nat
  PROVE  /\ Block(m + 3) \in Labels /\ Block(m + 4) \in Labels
         /\ {At(Block(m + 3)), At(Block(m + 4))} \subseteq Numbered(m, m + 5)
         /\ \A c \in 0 .. 2 : /\ At(Block(m + c)) # At(Block(m + 3))
                             /\ At(Block(m + c)) # At(Block(m + 4))
         /\ At(Block(m + 3)) # At(Block(m + 4))
<1>1. /\ Block(m + 3) \in Labels /\ At(Block(m + 3)) \in Numbered(m, m + 5)
      /\ \A d \in Nat : d # 3 => At(Block(m + 3)) # At(Block(m + d))
  BY TakenLabels, 3 < 5, 3 \in Nat, 5 \in Nat
<1>2. /\ Block(m + 4) \in Labels /\ At(Block(m + 4)) \in Numbered(m, m + 5)
      /\ \A d \in Nat : d # 4 => At(Block(m + 4)) # At(Block(m + d))
  BY TakenLabels, 4 < 5, 4 \in Nat, 5 \in Nat
<1>3. \A c \in 0 .. 2 : c \in Nat /\ c # 3 /\ c # 4
  OBVIOUS
<1>4. 4 \in Nat /\ 4 # 3
  OBVIOUS
<1> QED BY <1>1, <1>2, <1>3, <1>4

(* What a step that writes and leaves such labels does. *)
LEMMA StepKeeps ==
  ASSUME IInv, todo # <<>>, NEW lines, NEW work, NEW n \in Nat, NEW M, NEW N,
         WritesIn(lines, M), LeavesIn(work, N), M \cap N = {},
         M \cup N \subseteq Numbered(counter, counter + n),
         Emits(lines, work, n), info' \in InfoSet
  PROVE  IInv'
<1>1. Fresh(lines, work, counter, counter + n)
  BY DEF Fresh, WritesIn, LeavesIn
<1>2. /\ function' \in Bodies /\ output' \in Seq(Line)
      /\ todo' \in Seq(Tasks) /\ counter' \in Nat
      /\ LabelsKept' /\ LabelsUnique'
  BY <1>1, EmitsKeeps
<1> QED BY <1>2 DEF IInv, TypeInv

-----------------------------------------------------------------------------
(* One lemma per handler.                                                  *)

LEMMA SimpleKeeps ==
  ASSUME IInv, \/ EmitExprStmt \/ EmitReturn \/ EmitBlock \/ EmitBreak \/ EmitContinue
  PROVE  IInv'
<1> DEFINE s == Head(todo).stmt
<1>1. counter \in Nat /\ info \in InfoSet /\ info.break \in Labels /\ info.continue \in Labels
  BY DEF IInv, TypeInv, InfoSet
<1>2. info' \in InfoSet
  BY <1>1 DEF EmitExprStmt, EmitReturn, EmitBlock, EmitBreak, EmitContinue
<1>3. todo # <<>> /\ s.expr \in Seq(Exprs) /\ s.body \in Seq(Stmts)
  BY StatementParts DEF EmitExprStmt, EmitReturn, EmitBlock, EmitBreak, EmitContinue
<1>4. LeavesIn(<<>>, {}) /\ LeavesIn(EmitAll(s.body), {})
  BY <1>1, <1>3, LeavesParts
<1>5. ASSUME NEW lines, NEW work, WritesIn(lines, {}), LeavesIn(work, {}), Emits(lines, work, 0)
      PROVE  IInv'
  <2>1. {} \cap {} = {} /\ {} \cup {} \subseteq Numbered(counter, counter + 0) /\ 0 \in Nat
    OBVIOUS
  <2> QED BY <1>2, <1>3, <1>5, <2>1, StepKeeps
<1>6. CASE EmitExprStmt
  <2>1. WritesIn(Codes(s.expr), {})
    BY <1>1, <1>3, WritesParts
  <2> QED BY <1>4, <1>5, <1>6, <2>1 DEF EmitExprStmt
<1>7. CASE EmitReturn
  <2>1. WritesIn(Codes(s.expr), {}) /\ WritesIn(<<Ret>>, {})
    BY <1>1, <1>3, WritesParts
  <2>2. WritesIn(Codes(s.expr) \o <<Ret>>, {})
    BY <2>1, WritesMore
  <2> QED BY <1>4, <1>5, <1>7, <2>2 DEF EmitReturn
<1>8. CASE EmitBlock
  <2>1. WritesIn(<<>>, {})
    BY <1>1, WritesParts
  <2> QED BY <1>4, <1>5, <1>8, <2>1 DEF EmitBlock
<1>9. CASE EmitBreak
  <2>1. WritesIn(When(info.break # NoLabel, <<Jmp(info.break)>>), {})
    BY <1>1, WritesParts, WritesWhen
  <2> QED BY <1>4, <1>5, <1>9, <2>1 DEF EmitBreak
<1>10. CASE EmitContinue
  <2>1. WritesIn(When(info.continue # NoLabel, <<Jmp(info.continue)>>), {})
    BY <1>1, WritesParts, WritesWhen
  <2> QED BY <1>4, <1>5, <1>10, <2>1 DEF EmitContinue
<1> QED BY <1>6, <1>7, <1>8, <1>9, <1>10

LEMMA IfKeeps == IInv /\ EmitIf => IInv'
<1> SUFFICES ASSUME IInv, EmitIf PROVE IInv'
  OBVIOUS
<1> DEFINE s == Head(todo).stmt
           L(c) == Block(counter + c)
           ends == ThenEnds(BlockReturns(s.body), BlockReturns(s.else), L(1), L(2))
           last == When(~BlockReturns(s.else), <<Jmp(L(2)), At(L(2))>>)
           lines == Codes(s.expr) \o <<Jnz(L(0), L(1)), At(L(0))>>
           work == EmitAll(s.body) \o <<Write(ends)>> \o EmitAll(s.else) \o <<Write(last)>>
<1>1. counter \in Nat /\ info \in InfoSet /\ counter + 0 = counter
  BY DEF IInv, TypeInv
<1>2. info' \in InfoSet /\ Emits(lines, work, 3)
  BY <1>1 DEF EmitIf
<1>3. /\ todo # <<>> /\ s.expr \in Seq(Exprs)
      /\ s.body \in Seq(Stmts) /\ s.else \in Seq(Stmts)
  BY StatementParts DEF EmitIf
<1>4. /\ L(0) \in Labels /\ L(1) \in Labels /\ L(2) \in Labels
      /\ {At(L(0)), At(L(1)), At(L(2))} \subseteq Numbered(counter, counter + 3)
      /\ At(L(0)) # At(L(1)) /\ At(L(0)) # At(L(2)) /\ At(L(1)) # At(L(2))
  <2>1. 3 \in Nat /\ 3 >= 3
    OBVIOUS
  <2> QED BY <1>1, <2>1, ThreeLabels
<1> HIDE DEF L, s
<1>5. WritesIn(lines, {At(L(0))})
  BY <1>3, <1>4, WritesParts, WritesMore
<1>6. WritesIn(ends, {At(L(1))})
  <2>1. WritesIn(When(~BlockReturns(s.body), <<Jmp(L(2))>>), {})
    BY <1>4, WritesParts, WritesWhen
  <2>2. WritesIn(<<At(L(1))>>, {At(L(1))})
    BY <1>4, WritesParts
  <2> QED BY <2>1, <2>2, WritesMore DEF ThenEnds
<1>7. WritesIn(last, {At(L(2))})
  BY <1>4, WritesParts, WritesWhen
<1> HIDE DEF ends, last, lines
<1>8. LeavesIn(work, {At(L(1))} \cup {At(L(2))})
  <2>1. LeavesIn(EmitAll(s.body) \o <<Write(ends)>>, {At(L(1))})
    BY <1>1, <1>3, <1>6, LeavesParts, LeavesMore
  <2>2. LeavesIn(EmitAll(s.body) \o <<Write(ends)>> \o EmitAll(s.else), {At(L(1))})
    BY <1>1, <1>3, <2>1, LeavesParts, LeavesMore
  <2>3. LeavesIn(<<Write(last)>>, {At(L(2))}) /\ {At(L(1))} \cap {At(L(2))} = {}
    BY <1>1, <1>4, <1>7, LeavesParts
  <2> QED BY <2>2, <2>3, LeavesConcat
<1> HIDE DEF work
<1>9. {At(L(0))} \cap ({At(L(1))} \cup {At(L(2))}) = {}
  BY <1>4
<1> QED BY <1>2, <1>3, <1>4, <1>5, <1>8, <1>9, StepKeeps

LEMMA WhileKeeps == IInv /\ EmitWhile => IInv'
<1> SUFFICES ASSUME IInv, EmitWhile PROVE IInv'
  OBVIOUS
<1> DEFINE s == Head(todo).stmt
           L(c) == Block(counter + c)
           ends == When(~BlockReturns(s.body), <<Jmp(L(0))>>) \o <<At(L(2))>>
           lines == <<Jmp(L(0)), At(L(0))>> \o Codes(s.expr) \o <<Jnz(L(1), L(2)), At(L(1))>>
           work == EmitAll(s.body) \o <<Write(ends)>> \o LeaveLoop
<1>1. counter \in Nat /\ info \in InfoSet /\ counter + 0 = counter
  BY DEF IInv, TypeInv
<1>2. Emits(lines, work, 3) /\ EnterLoop(L(2), L(0))
  BY <1>1 DEF EmitWhile
<1>3. todo # <<>> /\ s.expr \in Seq(Exprs) /\ s.body \in Seq(Stmts)
  BY StatementParts DEF EmitWhile
<1>4. /\ L(0) \in Labels /\ L(1) \in Labels /\ L(2) \in Labels
      /\ {At(L(0)), At(L(1)), At(L(2))} \subseteq Numbered(counter, counter + 3)
      /\ At(L(0)) # At(L(1)) /\ At(L(0)) # At(L(2)) /\ At(L(1)) # At(L(2))
  <2>1. 3 \in Nat /\ 3 >= 3
    OBVIOUS
  <2> QED BY <1>1, <2>1, ThreeLabels
<1> HIDE DEF L, s
<1>5. info' \in InfoSet
  BY <1>2, <1>4 DEF EnterLoop, InfoSet
<1>6. WritesIn(lines, {At(L(0))} \cup {At(L(1))})
  <2>1. WritesIn(<<Jmp(L(0)), At(L(0))>> \o Codes(s.expr), {At(L(0))})
    BY <1>3, <1>4, WritesParts, WritesMore
  <2>2. WritesIn(<<Jnz(L(1), L(2)), At(L(1))>>, {At(L(1))}) /\ {At(L(0))} \cap {At(L(1))} = {}
    BY <1>4, WritesParts
  <2> QED BY <2>1, <2>2, WritesConcat
<1>7. WritesIn(ends, {At(L(2))})
  <2>1. WritesIn(When(~BlockReturns(s.body), <<Jmp(L(0))>>), {})
    BY <1>4, WritesParts, WritesWhen
  <2>2. WritesIn(<<At(L(2))>>, {At(L(2))})
    BY <1>4, WritesParts
  <2> QED BY <2>1, <2>2, WritesMore
<1> HIDE DEF ends, lines
<1>8. LeavesIn(work, {At(L(2))})
  <2>1. LeavesIn(EmitAll(s.body) \o <<Write(ends)>>, {At(L(2))})
    BY <1>1, <1>3, <1>7, LeavesParts, LeavesMore
  <2> QED BY <1>1, <2>1, LeavesParts, LeavesMore
<1> HIDE DEF work
<1>9. ({At(L(0))} \cup {At(L(1))}) \cap {At(L(2))} = {}
  BY <1>4
<1> QED BY <1>2, <1>3, <1>4, <1>5, <1>6, <1>8, <1>9, StepKeeps

LEMMA ForKeeps == IInv /\ EmitFor => IInv'
<1> SUFFICES ASSUME IInv, EmitFor PROVE IInv'
  OBVIOUS
<1> DEFINE s == Head(todo).stmt
           L(c) == Block(counter + c)
           hasInit == s.init # <<>>
           hasCond == s.expr # <<>>
           hasIter == s.iter # <<>>
           top == IF hasCond THEN L(1) ELSE L(2)
           withCond == When(~hasInit, <<Jmp(L(1))>>) \o <<At(L(1))>> \o Codes(s.expr)
                       \o <<Jnz(L(2), L(4)), At(L(2))>>
           withoutCond == When(hasInit, <<Jmp(L(2))>>) \o <<At(L(2))>>
           cond == IF hasCond THEN withCond ELSE withoutCond
           iter == When(hasIter, <<Jmp(L(3)), At(L(3))>> \o Codes(s.iter)) \o <<Jmp(top)>>
           ends == When(~BlockReturns(s.body), iter) \o When(hasCond, <<At(L(4))>>)
           lines == When(hasInit, <<Jmp(L(0)), At(L(0))>>)
           work == EmitAll(s.init) \o <<Write(cond)>> \o EmitAll(s.body) \o <<Write(ends)>>
                   \o LeaveLoop
<1>1. counter \in Nat /\ info \in InfoSet /\ counter + 0 = counter
  BY DEF IInv, TypeInv
<1>2. Emits(lines, work, 5) /\ EnterLoop(L(4), L(3))
  BY <1>1 DEF EmitFor
<1>3. /\ todo # <<>> /\ s.expr \in Seq(Exprs) /\ s.iter \in Seq(Exprs)
      /\ s.init \in Seq(Stmts) /\ s.body \in Seq(Stmts)
  BY StatementParts DEF EmitFor
<1>4. /\ L(0) \in Labels /\ L(1) \in Labels /\ L(2) \in Labels /\ L(3) \in Labels
      /\ L(4) \in Labels
      /\ {At(L(0)), At(L(1)), At(L(2)), At(L(3)), At(L(4))} \subseteq Numbered(counter, counter + 5)
  <2>1. 5 \in Nat /\ 5 >= 3
    OBVIOUS
  <2>2. /\ L(0) \in Labels /\ L(1) \in Labels /\ L(2) \in Labels
        /\ {At(L(0)), At(L(1)), At(L(2))} \subseteq Numbered(counter, counter + 5)
    BY <1>1, <2>1, ThreeLabels
  <2>3. /\ L(3) \in Labels /\ L(4) \in Labels
        /\ {At(L(3)), At(L(4))} \subseteq Numbered(counter, counter + 5)
    BY <1>1, FiveLabels
  <2> HIDE DEF L
  <2> QED BY <2>2, <2>3
<1>5. /\ At(L(0)) # At(L(1)) /\ At(L(0)) # At(L(2)) /\ At(L(0)) # At(L(3)) /\ At(L(0)) # At(L(4))
      /\ At(L(1)) # At(L(2)) /\ At(L(1)) # At(L(3)) /\ At(L(1)) # At(L(4))
      /\ At(L(2)) # At(L(3)) /\ At(L(2)) # At(L(4)) /\ At(L(3)) # At(L(4))
  <2>1. 5 \in Nat /\ 5 >= 3
    OBVIOUS
  <2>2. At(L(0)) # At(L(1)) /\ At(L(0)) # At(L(2)) /\ At(L(1)) # At(L(2))
    BY <1>1, <2>1, ThreeLabels
  <2>3. /\ At(L(0)) # At(L(3)) /\ At(L(1)) # At(L(3)) /\ At(L(2)) # At(L(3))
        /\ At(L(0)) # At(L(4)) /\ At(L(1)) # At(L(4)) /\ At(L(2)) # At(L(4))
        /\ At(L(3)) # At(L(4))
    BY <1>1, FiveLabels, 0 \in 0 .. 2, 1 \in 0 .. 2, 2 \in 0 .. 2
  <2> HIDE DEF L
  <2> QED BY <2>2, <2>3
<1> HIDE DEF L, s
<1>6. info' \in InfoSet
  BY <1>2, <1>4 DEF EnterLoop, InfoSet
<1>7. WritesIn(lines, {At(L(0))})
  BY <1>4, WritesParts, WritesWhen
<1> DEFINE M == {At(L(1))} \cup {At(L(2))}
           N == {At(L(3))} \cup {At(L(4))}
<1>8. WritesIn(cond, M)
  <2>1. WritesIn(withCond, M)
    <3>1. WritesIn(When(~hasInit, <<Jmp(L(1))>>), {}) /\ WritesIn(<<At(L(1))>>, {At(L(1))})
      BY <1>4, WritesParts, WritesWhen
    <3>2. WritesIn(When(~hasInit, <<Jmp(L(1))>>) \o <<At(L(1))>>, {At(L(1))})
      BY <3>1, WritesMore
    <3>3. WritesIn(Codes(s.expr), {})
      BY <1>3, <1>4, WritesParts
    <3>4. WritesIn(When(~hasInit, <<Jmp(L(1))>>) \o <<At(L(1))>> \o Codes(s.expr), {At(L(1))})
      BY <3>2, <3>3, WritesMore
    <3>5. WritesIn(<<Jnz(L(2), L(4)), At(L(2))>>, {At(L(2))}) /\ {At(L(1))} \cap {At(L(2))} = {}
      BY <1>4, <1>5, WritesParts
    <3> QED BY <3>4, <3>5, WritesConcat
  <2>2. WritesIn(withoutCond, M)
    <3>1. WritesIn(When(hasInit, <<Jmp(L(2))>>), {})
      BY <1>4, WritesParts, WritesWhen
    <3>2. WritesIn(<<At(L(2))>>, {At(L(2))})
      BY <1>4, WritesParts
    <3>3. WritesIn(withoutCond, {At(L(2))})
      BY <3>1, <3>2, WritesMore
    <3>4. {At(L(2))} \subseteq M
      OBVIOUS
    <3> QED BY <3>3, <3>4 DEF WritesIn
  <2> HIDE DEF withCond, withoutCond, M
  <2> QED BY <2>1, <2>2
<1>9. WritesIn(ends, N)
  <2>1. WritesIn(<<Jmp(L(3)), At(L(3))>> \o Codes(s.iter), {At(L(3))})
    <3>1. WritesIn(<<Jmp(L(3)), At(L(3))>>, {At(L(3))}) /\ WritesIn(Codes(s.iter), {})
      BY <1>3, <1>4, WritesParts
    <3> QED BY <3>1, WritesMore
  <2>2. WritesIn(<<Jmp(top)>>, {})
    BY <1>4, WritesParts
  <2>3. WritesIn(iter, {At(L(3))})
    BY <2>1, <2>2, WritesWhen, WritesMore
  <2>4. WritesIn(When(hasCond, <<At(L(4))>>), {At(L(4))}) /\ {At(L(3))} \cap {At(L(4))} = {}
    BY <1>4, <1>5, WritesParts, WritesWhen
  <2> HIDE DEF iter
  <2>5. WritesIn(When(~BlockReturns(s.body), iter), {At(L(3))})
    BY <2>3, WritesWhen
  <2> QED BY <2>4, <2>5, WritesConcat
<1>10. M \cap N = {} /\ {At(L(0))} \cap (M \cup N) = {}
  BY <1>5
<1>11. {At(L(0))} \cup (M \cup N) \subseteq Numbered(counter, counter + 5)
  BY <1>4
<1> HIDE DEF cond, ends, lines, M, N
<1>12. LeavesIn(work, M \cup N)
  <2>1. LeavesIn(EmitAll(s.init) \o <<Write(cond)>>, M)
    BY <1>1, <1>3, <1>8, LeavesParts, LeavesMore
  <2>2. LeavesIn(EmitAll(s.init) \o <<Write(cond)>> \o EmitAll(s.body), M)
    BY <1>1, <1>3, <2>1, LeavesParts, LeavesMore
  <2>3. LeavesIn(<<Write(ends)>>, N)
    BY <1>1, <1>9, LeavesParts
  <2>4. LeavesIn(EmitAll(s.init) \o <<Write(cond)>> \o EmitAll(s.body) \o <<Write(ends)>>, M \cup N)
    BY <1>10, <2>2, <2>3, LeavesConcat
  <2> QED BY <1>1, <2>4, LeavesParts, LeavesMore
<1> HIDE DEF work
<1> QED BY <1>2, <1>3, <1>6, <1>7, <1>10, <1>11, <1>12, StepKeeps

LEMMA DoKeeps == IInv /\ EmitDoWhile => IInv'
<1> SUFFICES ASSUME IInv, EmitDoWhile PROVE IInv'
  OBVIOUS
<1> DEFINE s == Head(todo).stmt
           L(c) == Block(counter + c)
           tail == <<At(L(1))>> \o Codes(s.expr) \o <<Jnz(L(0), L(2)), At(L(2))>>
           ends == When(~BlockReturns(s.body), tail)
           lines == <<At(L(0))>>
           work == EmitAll(s.body) \o <<Write(ends)>> \o LeaveLoop
<1>1. counter \in Nat /\ info \in InfoSet /\ counter + 0 = counter
  BY DEF IInv, TypeInv
<1>2. Emits(lines, work, 3) /\ EnterLoop(L(2), L(1))
  BY <1>1 DEF EmitDoWhile
<1>3. todo # <<>> /\ s.expr \in Seq(Exprs) /\ s.body \in Seq(Stmts)
  BY StatementParts DEF EmitDoWhile
<1>4. /\ L(0) \in Labels /\ L(1) \in Labels /\ L(2) \in Labels
      /\ {At(L(0)), At(L(1)), At(L(2))} \subseteq Numbered(counter, counter + 3)
      /\ At(L(0)) # At(L(1)) /\ At(L(0)) # At(L(2)) /\ At(L(1)) # At(L(2))
  <2>1. 3 \in Nat /\ 3 >= 3
    OBVIOUS
  <2> QED BY <1>1, <2>1, ThreeLabels
<1> HIDE DEF L, s
<1>5. info' \in InfoSet
  BY <1>2, <1>4 DEF EnterLoop, InfoSet
<1>6. WritesIn(lines, {At(L(0))})
  BY <1>4, WritesParts
<1> DEFINE N == {At(L(1))} \cup {At(L(2))}
<1>7. WritesIn(ends, N)
  <2>1. WritesIn(<<At(L(1))>> \o Codes(s.expr), {At(L(1))})
    BY <1>3, <1>4, WritesParts, WritesMore
  <2>2. WritesIn(<<Jnz(L(0), L(2)), At(L(2))>>, {At(L(2))}) /\ {At(L(1))} \cap {At(L(2))} = {}
    BY <1>4, WritesParts
  <2>3. WritesIn(tail, N)
    BY <2>1, <2>2, WritesConcat
  <2> HIDE DEF tail, N
  <2> QED BY <2>3, WritesWhen
<1>8. {At(L(0))} \cap N = {} /\ {At(L(0))} \cup N \subseteq Numbered(counter, counter + 3)
  BY <1>4
<1> HIDE DEF ends, lines, N
<1>9. LeavesIn(work, N)
  <2>1. LeavesIn(EmitAll(s.body) \o <<Write(ends)>>, N)
    BY <1>1, <1>3, <1>7, LeavesParts, LeavesMore
  <2> QED BY <1>1, <2>1, LeavesParts, LeavesMore
<1> HIDE DEF work
<1> QED BY <1>2, <1>3, <1>5, <1>6, <1>8, <1>9, StepKeeps

(* Lines that waited move into the code; the other labels stay where they  *)
(* are.                                                                    *)
LEMMA WriteLinesKeeps == IInv /\ WriteLines => IInv'
<1> SUFFICES ASSUME IInv, WriteLines PROVE IInv'
  OBVIOUS
<1> DEFINE lines == Head(todo).lines
           t == Tail(todo)
<1>1. todo # <<>> /\ Head(todo).task = "write" /\ todo \in Seq(Tasks) /\ LabelsKept
  BY DEF WriteLines, IInv, TypeInv
<1>2. /\ function \in Bodies /\ output \in Seq(Line) /\ Once(output)
      /\ counter \in Nat /\ info \in InfoSet
  BY DEF IInv, TypeInv, LabelsUnique, Once
<1>3. lines \in Seq(Line)
  BY <1>1, HeadFacts, TaskParts
<1>4. /\ t \in Seq(Tasks) /\ OnceLater(t) /\ MarksLater(t) \subseteq MarksLater(todo)
      /\ Marks(lines) \subseteq MarksLater(todo) /\ Once(lines)
      /\ Marks(lines) \cap MarksLater(t) = {}
  BY <1>1, HeadFacts DEF LabelsKept
<1>5. todo' = t /\ counter' = counter
  <2>1. todo' = <<>> \o t /\ counter' = counter + 0
    BY DEF WriteLines, Emits
  <2> QED BY <1>2, <1>4, <2>1
<1>6. output' = output \o lines /\ function' = function /\ info' = info
  BY DEF WriteLines, Emits
<1> HIDE DEF lines, t
<1>7. /\ output' \in Seq(Line) /\ Marks(output') = Marks(output) \cup Marks(lines)
      /\ Once(output')
  <2>1. Marks(output) \cap Marks(lines) = {}
    BY <1>1, <1>4 DEF LabelsKept
  <2> QED BY <1>2, <1>3, <1>4, <1>6, <2>1, ConcatLines
<1>8. TypeInv'
  BY <1>2, <1>4, <1>5, <1>6, <1>7 DEF TypeInv
<1>9. LabelsUnique'
  BY <1>7 DEF Once, LabelsUnique
<1>10. LabelsKept'
  <2>1. /\ Marks(output') \subseteq {At(StartLabel), At(EntryLabel)} \cup Numbered(0, counter')
        /\ MarksLater(todo') \subseteq Numbered(0, counter')
        /\ Marks(output') \cap MarksLater(todo') = {}
        /\ OnceLater(todo')
    BY <1>1, <1>4, <1>5, <1>7 DEF LabelsKept
  <2> QED BY <2>1 DEF LabelsKept
<1> QED BY <1>8, <1>9, <1>10 DEF IInv

LEMMA RestoreKeeps == IInv /\ RestoreInfo => IInv'
<1> SUFFICES ASSUME IInv, RestoreInfo PROVE IInv'
  OBVIOUS
<1>1. todo # <<>> /\ todo \in Seq(Tasks) /\ Head(todo).task = "restore" /\ info \in InfoSet
      /\ Emits(<<>>, <<>>, 0) /\ info' = Head(todo).info
  BY DEF RestoreInfo, IInv, TypeInv
<1>2. info' \in InfoSet
  BY <1>1, HeadFacts, TaskParts
<1>3. WritesIn(<<>>, {}) /\ LeavesIn(<<>>, {})
  BY <1>1, LabelTypes, WritesParts, LeavesParts
<1>4. {} \cap {} = {} /\ {} \cup {} \subseteq Numbered(counter, counter + 0) /\ 0 \in Nat
  OBVIOUS
<1> QED BY <1>1, <1>2, <1>3, <1>4, StepKeeps

-----------------------------------------------------------------------------
(* The code of a function body, whatever it is.                            *)

LEMMA InitKept == Init => IInv
<1> SUFFICES ASSUME Init PROVE IInv
  OBVIOUS
<1>1. function \in Seq(Stmts)
  BY BodiesAssumption DEF Init
<1>2. todo \in Seq(Tasks) /\ MarksLater(todo) = {} /\ OnceLater(todo)
  BY <1>1, InnerStatements DEF Init
<1>3. WritesIn(output, {At(StartLabel)} \cup {At(EntryLabel)})
  <2>1. WritesIn(<<At(StartLabel)>>, {At(StartLabel)})
    BY LabelTypes, WritesParts
  <2>2. WritesIn(<<Jmp(EntryLabel), At(EntryLabel)>>, {At(EntryLabel)})
    BY LabelTypes, WritesParts
  <2>3. {At(StartLabel)} \cap {At(EntryLabel)} = {}
    BY LabelsDiffer
  <2>4. output = <<At(StartLabel)>> \o <<Jmp(EntryLabel), At(EntryLabel)>>
    BY DEF Init
  <2> QED BY <2>1, <2>2, <2>3, <2>4, WritesConcat
<1>4. TypeInv
  BY <1>2, <1>3, LabelTypes DEF Init, TypeInv, WritesIn, InfoSet
<1>5. LabelsKept
  BY <1>2, <1>3 DEF LabelsKept, WritesIn
<1>6. LabelsUnique
  BY <1>3 DEF WritesIn, Once, LabelsUnique
<1> QED BY <1>4, <1>5, <1>6 DEF IInv

LEMMA NextKeeps == IInv /\ [Next]_vars => IInv'
<1> SUFFICES ASSUME IInv, [Next]_vars PROVE IInv'
  OBVIOUS
<1>1. CASE EmitExprStmt \/ EmitReturn \/ EmitBlock \/ EmitBreak \/ EmitContinue
  BY <1>1, SimpleKeeps
<1>2. CASE EmitIf
  BY <1>2, IfKeeps
<1>3. CASE EmitWhile
  BY <1>3, WhileKeeps
<1>4. CASE EmitFor
  BY <1>4, ForKeeps
<1>5. CASE EmitDoWhile
  BY <1>5, DoKeeps
<1>6. CASE WriteLines
  BY <1>6, WriteLinesKeeps
<1>7. CASE RestoreInfo
  BY <1>7, RestoreKeeps
<1>8. CASE UNCHANGED vars
  <2>1. /\ function' = function /\ output' = output /\ todo' = todo
        /\ counter' = counter /\ info' = info
    BY <1>8 DEF vars
  <2>2. TypeInv'
    BY <2>1 DEF IInv, TypeInv
  <2>3. LabelsKept'
    BY <2>1 DEF IInv, LabelsKept
  <2>4. LabelsUnique'
    BY <2>1 DEF IInv, LabelsUnique
  <2> QED BY <2>2, <2>3, <2>4 DEF IInv
<1> QED BY <1>1, <1>2, <1>3, <1>4, <1>5, <1>6, <1>7, <1>8 DEF Next

(* The inductive invariant holds for every body (_emit_stmt and what it    *)
(* calls, iic_codegen_stmt.c).                                             *)
THEOREM InvariantHolds == Spec => []IInv
<1>1. Init => IInv
  BY InitKept
<1>2. IInv /\ [Next]_vars => IInv'
  BY NextKeeps
<1> QED BY <1>1, <1>2, PTL DEF Spec

(* No label is written twice, whatever statements are nested in whatever   *)
(* way: the labels that a handler keeps for after the statements inside it *)
(* are never taken by those (label_counter, iic_codegen_stmt.c).           *)
THEOREM LabelsAlwaysUnique == Spec => []LabelsUnique
<1>1. IInv => LabelsUnique
  BY DEF IInv
<1> QED BY <1>1, InvariantHolds, PTL

=============================================================================
