------------------------- MODULE Inheritance_proofs -------------------------
(***************************************************************************)
(* Proofs about the inheritance of blueprints, for every program: the      *)
(* recursion is bounded, flattening happens once per blueprint and leaves  *)
(* unique field names, and the fields of a shape never overlap in its      *)
(* layout; and about what it computes: cycles are reported if and only if  *)
(* there are any, a shape is the sum of its parts, a method of the         *)
(* blueprint's own replaces every other of its name, and the last layout   *)
(* keeps the offsets of the shapes that extend each other.                 *)
(***************************************************************************)
EXTENDS Inheritance, TLAPS, FiniteSetTheorems, SequenceTheorems

-----------------------------------------------------------------------------
(* The operators.                                                          *)

(* Every non-empty set of positions has a first one. *)
LEMMA First ==
  ASSUME NEW S, S \subseteq Nat, S # {}
  PROVE  \E i \in S : \A j \in S : i <= j
<1>1. IsWellFoundedOn(OpToRel(<, Nat), Nat)
  BY NatLessThanWellFounded
<1>2. PICK i \in S : \A j \in S : ~ (<<j, i>> \in OpToRel(<, Nat))
  BY <1>1, WFMin
<1>3. \A j \in S : ~ (j < i)
  BY <1>2 DEF OpToRel
<1> QED BY <1>3

(* What the alignment of an offset gives. *)
LEMMA AlignUpFacts ==
  ASSUME NEW o \in Nat, NEW a \in Sizes
  PROVE  /\ AlignUp(o, a) \in Nat
         /\ AlignUp(o, a) >= o
         /\ AlignUp(o, a) % a = 0
<1>1. CASE a = 1 BY <1>1 DEF AlignUp
<1>2. CASE a = 2 BY <1>2 DEF AlignUp
<1>3. CASE a = 4 BY <1>3 DEF AlignUp
<1>4. CASE a = 8 BY <1>4 DEF AlignUp
<1> QED BY <1>1, <1>2, <1>3, <1>4 DEF Sizes

(* An alias is a name. *)
LEMMA AliasIsName ==
  ASSUME NEW p \in Parent, NEW n, AliasOf(p, n) # NoName
  PROVE  AliasOf(p, n) \in Names
<1>1. p.aliases \in Seq(Alias)
  BY DEF Parent
<1>2. Given(p, n) # {} /\ Given(p, n) \subseteq DOMAIN p.aliases
  BY DEF AliasOf, Given
<1>3. DOMAIN p.aliases \subseteq Nat
  BY <1>1
<1>4. \E i \in Given(p, n) : \A j \in Given(p, n) : i <= j
  BY <1>2, <1>3, First
<1> DEFINE i == CHOOSE i \in Given(p, n) : \A j \in Given(p, n) : i <= j
<1>5. i \in DOMAIN p.aliases
  BY <1>2, <1>4
<1>6. p.aliases[i] \in Alias
  BY <1>1, <1>5
<1>7. p.aliases[i].alias \in Names
  BY <1>6 DEF Alias
<1> QED BY <1>2, <1>7 DEF AliasOf

(* The parts of a declaration. *)
LEMMA DeclParts ==
  ASSUME program \in Program, NEW d \in Decls
  PROVE  /\ d \in Nat
         /\ Blueprints[d].name \in Names
         /\ Blueprints[d].parents \in Seq(Parent)
         /\ Blueprints[d].fields \in Seq(FieldDecl)
         /\ Blueprints[d].methods \in Seq(MethodDecl)
<1>1. Blueprints \in Seq(Blueprint)
  BY DEF Program, Blueprints
<1>2. d \in Nat /\ Blueprints[d] \in Blueprint
  BY <1>1 DEF Decls
<1> QED BY <1>2 DEF Blueprint

LEMMA LocalTypes ==
  ASSUME program \in Program, NEW d \in Decls
  PROVE  LocalFields(d) \in Seq(Field) /\ LocalMethods(d) \in Seq(Method)
<1>1. /\ d \in Nat
      /\ Blueprints[d].fields \in Seq(FieldDecl)
      /\ Blueprints[d].methods \in Seq(MethodDecl)
  BY DeclParts
<1>2. LocalFields(d) \in Seq(Field)
  <2>1. \A i \in DOMAIN Blueprints[d].fields : Blueprints[d].fields[i] \in FieldDecl
    BY <1>1
  <2>2. \A i \in DOMAIN Blueprints[d].fields : FieldObject(d, Blueprints[d].fields[i]) \in Field
    BY <1>1, <2>1 DEF FieldObject, FieldDecl, Field
  <2> QED BY <1>1, <2>2 DEF LocalFields
<1>3. LocalMethods(d) \in Seq(Method)
  <2> DEFINE ms == Blueprints[d].methods
             G(i) == [name |-> ms[i].name, body |-> <<d, ms[i].name>>]
  <2>1. \A i \in 1 .. Len(ms) : ms[i] \in MethodDecl
    BY <1>1
  <2>2. \A i \in 1 .. Len(ms) : ms[i].name \in Names
    BY <2>1 DEF MethodDecl
  <2>3. \A i \in 1 .. Len(ms) : G(i) \in Method
    BY <1>1, <2>2 DEF Method
  <2>4. Len(ms) \in Nat /\ DOMAIN ms = 1 .. Len(ms)
    BY <1>1
  <2>5. LocalMethods(d) = [i \in 1 .. Len(ms) |-> G(i)]
    BY <2>4 DEF LocalMethods
  <2> HIDE DEF G, ms
  <2> QED BY <2>3, <2>4, <2>5, IsASeq
<1> QED BY <1>2, <1>3

(* What pushing a field does to the names of a shape. *)
UniqueNames(s) == \A i, j \in DOMAIN s : s[i].name = s[j].name => i = j

LEMMA WithFieldFacts ==
  ASSUME NEW s \in Seq(Field), NEW f \in Field, UniqueNames(s)
  PROVE  WithField(s, f) \in Seq(Field) /\ UniqueNames(WithField(s, f))
<1>1. CASE Defined(s, f.name)
  BY <1>1 DEF WithField
<1>2. CASE ~Defined(s, f.name)
  <2>1. \A i \in DOMAIN s : s[i].name # f.name
    BY <1>2 DEF Defined, NameSet
  <2>2. WithField(s, f) = Append(s, f)
    BY <1>2 DEF WithField
  <2>3. /\ Append(s, f) \in Seq(Field)
        /\ DOMAIN Append(s, f) = 1 .. Len(s) + 1
        /\ \A i \in 1 .. Len(s) : Append(s, f)[i] = s[i]
        /\ Append(s, f)[Len(s) + 1] = f
    BY AppendProperties
  <2>4. DOMAIN s = 1 .. Len(s) /\ Len(s) \in Nat
    OBVIOUS
  <2> QED BY <2>1, <2>2, <2>3, <2>4 DEF UniqueNames
<1> QED BY <1>1, <1>2

LEMMA WithInheritedFacts ==
  ASSUME NEW s \in Seq(Field), NEW f \in Field, UniqueNames(s), Top.bp \in Nat,
         NEW a, a # NoName => a \in Names
  PROVE  WithInherited(s, f, a) \in Seq(Field) /\ UniqueNames(WithInherited(s, f, a))
<1>1. WithField(s, f) \in Seq(Field) /\ UniqueNames(WithField(s, f))
  BY WithFieldFacts
<1>2. CASE a = NoName
  BY <1>1, <1>2 DEF WithInherited
<1>3. CASE a # NoName
  <2>1. [decl |-> Top.bp, name |-> a, size |-> f.size] \in Field
    BY <1>3 DEF Field
  <2> DEFINE g == [decl |-> Top.bp, name |-> a, size |-> f.size]
             t == WithField(s, f)
  <2>2. WithInherited(s, f, a) = WithField(t, g)
    BY <1>3 DEF WithInherited
  <2> HIDE DEF g, t
  <2>3. WithField(t, g) \in Seq(Field) /\ UniqueNames(WithField(t, g))
    BY <1>1, <2>1, WithFieldFacts DEF g, t
  <2> QED BY <2>2, <2>3
<1> QED BY <1>2, <1>3

-----------------------------------------------------------------------------
(* The inductive invariant.                                                *)

(* Which loop runs determines whether a call is in progress. *)
Control ==
  /\ pc \in {"declare", "types", "offsets", "done"} => stack = <<>>
  /\ pc \in {"fields", "locals", "methods"} => stack # <<>>
  /\ pc = "layout" /\ stack = <<>> => cursor \in Decls
  /\ Flattening => state[Top.bp] = "RESOLVED"

(* What the running loop has still to visit. *)
RestOK ==
  /\ pc \in {"fields", "locals", "layout"} => rest \in Seq(Field)
  /\ pc = "methods" => rest \in Seq(Method)
  /\ pc \in {"fields", "methods"} =>
       parent <= Len(Parents) /\ (rest # <<>> => parent \in DOMAIN Parents)

(* The layout visits the fields of the current shape in order. *)
RestIsSuffix ==
  pc = "layout" =>
    /\ Len(rest) <= Len(flatFields[Current])
    /\ \A i \in 1 .. Len(rest) :
         rest[i] = flatFields[Current][Len(flatFields[Current]) - Len(rest) + i]
    /\ \A i \in 1 .. Len(flatFields[Current]) - Len(rest) :
         flatFields[Current][i] \in DOMAIN offset

IInv ==
  /\ TypeOK
  /\ Control
  /\ RestOK
  /\ RecursionBounded
  /\ FieldNamesUnique
  /\ RestIsSuffix
  /\ LayoutOrdered

-----------------------------------------------------------------------------
(* Type correctness.                                                       *)

FrameSet == [bp : Decls, next : Nat \ {0}]
Frames == Seq(FrameSet)

(* The call on top of the stack. *)
LEMMA TopFacts ==
  ASSUME TypeOK, stack # <<>>
  PROVE  /\ Len(stack) \in Nat /\ Len(stack) > 0 /\ DOMAIN stack = 1 .. Len(stack)
         /\ Top \in FrameSet
         /\ Top.bp \in Decls /\ Top.bp \in Nat /\ Top.next \in Nat /\ Top.next > 0
         /\ Parents \in Seq(Parent)
         /\ Advanced \in Frames
         /\ Len(Advanced) = Len(stack)
         /\ \A i \in DOMAIN stack : Advanced[i].bp = stack[i].bp
<1>1. stack \in Seq(FrameSet) /\ program \in Program
  BY DEF TypeOK, FrameSet
<1>2. Len(stack) \in Nat /\ Len(stack) > 0 /\ DOMAIN stack = 1 .. Len(stack)
  BY <1>1
<1>3. Top \in FrameSet
  BY <1>1, <1>2 DEF Top
<1>4. Top.bp \in Decls /\ Top.next \in Nat /\ Top.next > 0
  BY <1>3 DEF FrameSet
<1>5. Top.bp \in Nat /\ Parents \in Seq(Parent)
  BY <1>1, <1>4, DeclParts DEF Parents
<1> DEFINE t == [Top EXCEPT !.next = @ + 1]
<1>6. t \in FrameSet /\ t.bp = Top.bp
  BY <1>3 DEF FrameSet
<1>7. Advanced = [stack EXCEPT ![Len(stack)] = t]
  BY <1>2 DEF Advanced, Top
<1> HIDE DEF t
<1>8. /\ Advanced \in Frames
      /\ Len(Advanced) = Len(stack)
      /\ \A j \in 1 .. Len(stack) : Advanced[j] = IF j = Len(stack) THEN t ELSE stack[j]
  BY <1>1, <1>2, <1>6, <1>7, ExceptSeq DEF Frames
<1>9. \A i \in DOMAIN stack : Advanced[i].bp = stack[i].bp
  BY <1>2, <1>6, <1>8 DEF Top
<1> QED BY <1>2, <1>3, <1>4, <1>5, <1>8, <1>9

(* A call changes the state of one blueprint, UNRESOLVED until then. *)
LEMMA CallFacts ==
  ASSUME TypeOK, NEW d \in Decls, NEW frames \in Frames, Call(d, frames)
  PROVE  \/ state' = state /\ stack' = frames
         \/ /\ state[d] = "UNRESOLVED"
            /\ state' = [state EXCEPT ![d] = "RESOLVING"]
            /\ stack' = Append(frames, [bp |-> d, next |-> 1])
            /\ stack' \in Frames
            /\ stack' # <<>>
            /\ Len(stack') = Len(frames) + 1
            /\ \A i \in 1 .. Len(frames) : stack'[i] = frames[i]
            /\ stack'[Len(frames) + 1].bp = d
<1>1. CASE state[d] = "UNRESOLVED" /\ state' = [state EXCEPT ![d] = "RESOLVING"]
           /\ stack' = Append(frames, [bp |-> d, next |-> 1])
  <2> DEFINE e == [bp |-> d, next |-> 1]
  <2>1. e \in FrameSet
    BY DEF FrameSet
  <2>2. e.bp = d
    OBVIOUS
  <2> HIDE DEF e
  <2>3. /\ Append(frames, e) \in Frames
        /\ Append(frames, e) # <<>>
        /\ Len(Append(frames, e)) = Len(frames) + 1
        /\ \A i \in 1 .. Len(frames) : Append(frames, e)[i] = frames[i]
        /\ Append(frames, e)[Len(frames) + 1] = e
    BY <2>1, AppendProperties DEF Frames
  <2> QED BY <1>1, <2>2, <2>3 DEF e
<1>2. CASE state' = state /\ stack' = frames
  BY <1>2
<1> QED BY <1>1, <1>2 DEF Call

THEOREM InitInvariant == Init => IInv
<1> SUFFICES ASSUME Init PROVE IInv
  OBVIOUS
<1>1. program \in Program
  BY ProgramsAssumption DEF Init
<1>2. TypeOK
  <2>1. \A d \in Decls : resolved[d] \in [DOMAIN Blueprints[d].parents -> Decls \cup {0}]
    BY DEF Init
  <2>2. <<>> \in Seq(Symbol) /\ <<>> \in Seq(Field) /\ <<>> \in Seq(Method)
        /\ <<>> \in Frames /\ DOMAIN <<>> = {}
    BY DEF Frames
  <2>3. flatFields \in [Decls -> Seq(Field)] /\ flatMethods \in [Decls -> Seq(Method)]
    BY <2>2 DEF Init
  <2>4. state \in [Decls -> {"UNRESOLVED", "RESOLVING", "RESOLVED"}] /\ size \in [Decls -> Nat]
    BY DEF Init
  <2>5. place \in [offset : Nat, align : Sizes]
    BY DEF Init, Sizes
  <2>6. scope \in Seq(Symbol) /\ stack \in Seq([bp : Decls, next : Nat \ {0}])
    BY <2>2 DEF Init, Frames, FrameSet
  <2>7. /\ \A i \in DOMAIN scope : scope[i].kind = "BLUEPRINT" => scope[i].decl \in Decls
        /\ DOMAIN resolved = Decls
        /\ \A f \in DOMAIN offset : offset[f] \in Nat
        /\ typed \in BOOLEAN /\ cursor \in Nat /\ parent \in Nat /\ pc \in Loops
    BY <2>2 DEF Init, Loops
  <2> QED BY <1>1, <2>1, <2>3, <2>4, <2>5, <2>6, <2>7 DEF TypeOK
<1>3. Control /\ RestOK /\ RestIsSuffix /\ LayoutOrdered
  BY DEF Init, Control, RestOK, RestIsSuffix, LayoutOrdered, Flattening
<1>4. RecursionBounded
  BY DEF Init, RecursionBounded, Flattening
<1>5. FieldNamesUnique
  BY DEF Init, FieldNamesUnique
<1> QED BY <1>2, <1>3, <1>4, <1>5 DEF IInv

(* The program and, but for the actions named, the rest of the state stay. *)
LEMMA ProgramStays == Next => program' = program /\ Decls' = Decls /\ Blueprints' = Blueprints
<1> SUFFICES ASSUME Next PROVE program' = program
  BY DEF Decls, Blueprints
<1> QED BY DEF Next, DeclareBlueprint, DeclareFunc, EndDeclare, Resolve, NotABlueprint,
     VisitParent, ParentsResolved, EndInherit, NextFieldParent, NextParent, InheritField,
     EndFields, LocalField, EndLocals, NextMethodParent, InheritMethod, LocalMethodsLast,
     LayoutField, EndLayout, ResolveTypes, NextLayout, EndOffsets, Done, declareVars,
     flattenVars, vars

LEMMA DeclareTypes ==
  ASSUME TypeOK, DeclareBlueprint \/ DeclareFunc \/ EndDeclare
  PROVE  TypeOK'
<1>1. program \in Program /\ program' = program /\ Decls' = Decls /\ Blueprints' = Blueprints
  BY DEF TypeOK, DeclareBlueprint, DeclareFunc, EndDeclare, declareVars, Decls, Blueprints
<1>2. /\ scope' \in Seq(Symbol)
      /\ \A i \in DOMAIN scope' : scope'[i].kind = "BLUEPRINT" => scope'[i].decl \in Decls
  <2>1. ASSUME NEW sym \in Symbol, NEW E, Insert(sym, E),
               sym.kind = "BLUEPRINT" => sym.decl \in Decls
        PROVE  <1>2
    <3>1. scope \in Seq(Symbol)
      BY DEF TypeOK
    <3>2. scope' = scope \/ scope' = Append(scope, sym)
      BY <2>1 DEF Insert
    <3>3. /\ Append(scope, sym) \in Seq(Symbol)
          /\ \A i \in DOMAIN Append(scope, sym) :
               Append(scope, sym)[i] = IF i = Len(scope) + 1 THEN sym ELSE scope[i]
          /\ DOMAIN Append(scope, sym) = 1 .. Len(scope) + 1
          /\ DOMAIN scope = 1 .. Len(scope)
      BY <3>1, AppendProperties
    <3>4. \A i \in DOMAIN scope : scope[i].kind = "BLUEPRINT" => scope[i].decl \in Decls
      BY DEF TypeOK
    <3>5. CASE scope' = scope
      BY <3>1, <3>4, <3>5
    <3>6. CASE scope' = Append(scope, sym)
      <4> DEFINE t == Append(scope, sym)
      <4>1. \A i \in DOMAIN t : t[i].kind = "BLUEPRINT" => t[i].decl \in Decls
        <5> SUFFICES ASSUME NEW i \in DOMAIN t, t[i].kind = "BLUEPRINT"
                     PROVE  t[i].decl \in Decls
          OBVIOUS
        <5>1. CASE i = Len(scope) + 1
          BY <2>1, <3>3, <5>1
        <5>2. CASE i # Len(scope) + 1
          <6>1. i \in DOMAIN scope
            BY <3>1, <3>3, <5>2
          <6> QED BY <3>3, <3>4, <5>2, <6>1
        <5> QED BY <5>1, <5>2
      <4> QED BY <3>3, <3>6, <4>1
    <3> QED BY <3>2, <3>5, <3>6
  <2>2. CASE DeclareBlueprint
    <3> DEFINE sym == [name |-> Blueprints[cursor].name, kind |-> "BLUEPRINT", decl |-> cursor]
    <3>1. cursor \in Decls /\ Insert(sym, Invalid(cursor))
      BY <2>2 DEF DeclareBlueprint
    <3>2. sym \in Symbol
      BY <1>1, <3>1, DeclParts DEF Symbol
    <3>3. sym.kind = "BLUEPRINT" => sym.decl \in Decls
      BY <3>1
    <3> HIDE DEF sym
    <3> QED BY <2>1, <3>1, <3>2, <3>3
  <2>3. CASE DeclareFunc
    <3> DEFINE f == program.funcs[cursor - Len(Blueprints)]
               sym == [name |-> f.name, kind |-> "FUNC", decl |-> cursor]
               E == {Error("repeated", cursor, n) : n \in Repeated(f.params)}
    <3>1. Insert(sym, E) /\ cursor - Len(Blueprints) \in DOMAIN program.funcs
      BY <2>3 DEF DeclareFunc
    <3>2. program.funcs \in Seq(Func)
      BY <1>1 DEF Program
    <3>3. f \in Func
      BY <3>1, <3>2
    <3>4. f.name \in Names /\ cursor \in Nat
      BY <3>3 DEF Func, TypeOK
    <3>5. sym \in Symbol
      BY <3>4 DEF Symbol
    <3>6. sym.kind # "BLUEPRINT"
      OBVIOUS
    <3> HIDE DEF sym, E
    <3> QED BY <2>1, <3>1, <3>5, <3>6
  <2>4. CASE EndDeclare
    BY <2>4 DEF EndDeclare, TypeOK
  <2> QED BY <2>2, <2>3, <2>4
<1>3. cursor' \in Nat /\ pc' \in Loops
  BY DEF TypeOK, DeclareBlueprint, DeclareFunc, EndDeclare, Phase, Loops
<1>4. UNCHANGED <<state, resolved, flatFields, flatMethods, offset, size, typed, stack,
                  parent, place>>
  BY DEF DeclareBlueprint, DeclareFunc, EndDeclare, declareVars, shapeVars, loopVars
<1> QED BY <1>1, <1>2, <1>3, <1>4 DEF TypeOK

LEMMA InheritTypes ==
  ASSUME TypeOK, Resolve \/ NotABlueprint \/ VisitParent \/ ParentsResolved \/ EndInherit
  PROVE  TypeOK'
<1>1. program \in Program /\ program' = program /\ Decls' = Decls /\ Blueprints' = Blueprints
  BY DEF TypeOK, Resolve, NotABlueprint, VisitParent, ParentsResolved, EndInherit,
         Decls, Blueprints
<1>2. UNCHANGED <<scope, flatFields, flatMethods, offset, size, typed, place>>
  BY DEF Resolve, NotABlueprint, VisitParent, ParentsResolved, EndInherit, shapeVars, loopVars
<1>3. cursor' \in Nat /\ parent' \in Nat /\ pc' \in Loops
  BY DEF TypeOK, Resolve, NotABlueprint, VisitParent, ParentsResolved, EndInherit, Phase,
         Loops, loopVars, Decls
<1>4. state' \in [Decls -> {"UNRESOLVED", "RESOLVING", "RESOLVED"}] /\ stack' \in Frames
  <2>1. state \in [Decls -> {"UNRESOLVED", "RESOLVING", "RESOLVED"}] /\ stack \in Frames
    BY DEF TypeOK, Frames, FrameSet
  <2>2. ASSUME NEW d \in Decls, NEW frames \in Frames, Call(d, frames)
        PROVE  <1>4
    BY <2>1, <2>2, CallFacts
  <2>3. CASE Resolve
    BY <2>1, <2>2, <2>3 DEF Resolve
  <2>4. CASE NotABlueprint
    BY <2>1, <2>4, TopFacts DEF NotABlueprint
  <2>5. CASE VisitParent
    <3>1. PICK i \in Symbols(Parents[Top.next].name, "BLUEPRINT") : Call(scope[i].decl, Advanced)
      BY <2>5 DEF VisitParent
    <3>2. scope[i].decl \in Decls
      BY <3>1 DEF TypeOK, Symbols
    <3>3. Advanced \in Frames
      BY <2>5, TopFacts DEF VisitParent
    <3> QED BY <2>2, <3>1, <3>2, <3>3
  <2>6. CASE ParentsResolved
    BY <2>1, <2>6 DEF ParentsResolved
  <2>7. CASE EndInherit
    BY <2>1, <2>7 DEF EndInherit
  <2> QED BY <2>3, <2>4, <2>5, <2>6, <2>7
<1>5. /\ DOMAIN resolved' = Decls
      /\ \A d \in Decls : resolved'[d] \in [DOMAIN Blueprints[d].parents -> Decls \cup {0}]
  <2>1. ASSUME NEW e \in Decls \cup {0}, stack # <<>>, Top.next \in DOMAIN Parents,
               resolved' = [resolved EXCEPT ![Top.bp][Top.next] = e]
        PROVE  <1>5
    <3>1. Top.bp \in Decls
      BY <2>1, TopFacts
    <3>2. resolved' = [resolved EXCEPT ![Top.bp] = [resolved[Top.bp] EXCEPT ![Top.next] = e]]
      BY <2>1
    <3>3. [resolved[Top.bp] EXCEPT ![Top.next] = e] \in
            [DOMAIN Blueprints[Top.bp].parents -> Decls \cup {0}]
      BY <3>1 DEF TypeOK
    <3> QED BY <3>1, <3>2, <3>3 DEF TypeOK
  <2>2. CASE NotABlueprint
    BY <2>1, <2>2 DEF NotABlueprint
  <2>3. CASE VisitParent
    <3>1. PICK i \in Symbols(Parents[Top.next].name, "BLUEPRINT") :
            resolved' = [resolved EXCEPT ![Top.bp][Top.next] = scope[i].decl]
      BY <2>3 DEF VisitParent
    <3>2. scope[i].decl \in Decls
      BY <3>1 DEF TypeOK, Symbols
    <3> QED BY <2>1, <2>3, <3>1, <3>2 DEF VisitParent
  <2>4. CASE resolved' = resolved
    BY <2>4 DEF TypeOK
  <2>5. Resolve \/ ParentsResolved \/ EndInherit => resolved' = resolved
    BY DEF Resolve, ParentsResolved, EndInherit, shapeVars
  <2> QED BY <2>2, <2>3, <2>4, <2>5
<1> QED BY <1>1, <1>2, <1>3, <1>4, <1>5 DEF TypeOK, Frames, FrameSet

-----------------------------------------------------------------------------
(* Flattening: types, and names that stay unique.                          *)

FlattenStep ==
  \/ NextFieldParent \/ InheritField \/ EndFields \/ LocalField \/ EndLocals
  \/ NextMethodParent \/ InheritMethod \/ LocalMethodsLast

LEMMA FlattenFrame ==
  ASSUME TypeOK, FlattenStep
  PROVE  /\ program' = program /\ Decls' = Decls /\ Blueprints' = Blueprints
         /\ UNCHANGED <<scope, state, resolved, size, typed, stack, cursor, offset>>
         /\ Top' = Top /\ Parents' = Parents
<1>1. /\ program' = program
      /\ UNCHANGED <<scope, state, resolved, size, typed, stack, cursor, offset>>
  BY DEF FlattenStep, NextFieldParent, NextParent, InheritField, EndFields, LocalField,
         EndLocals, NextMethodParent, InheritMethod, LocalMethodsLast, flattenVars
<1> QED BY <1>1 DEF Decls, Blueprints, Top, Parents

LEMMA FlattenTypes ==
  ASSUME TypeOK, Control, RestOK, FieldNamesUnique, FlattenStep
  PROVE  TypeOK' /\ FieldNamesUnique'
<1>1. /\ program' = program /\ Decls' = Decls /\ Blueprints' = Blueprints
      /\ UNCHANGED <<scope, state, resolved, size, typed, stack, cursor, offset>>
  BY FlattenFrame
<1>2. stack # <<>> /\ pc \in {"fields", "locals", "methods"}
  BY DEF FlattenStep, Control, NextFieldParent, InheritField, EndFields, LocalField,
         EndLocals, NextMethodParent, InheritMethod, LocalMethodsLast
<1>3. Top.bp \in Decls /\ Top.bp \in Nat /\ Parents \in Seq(Parent) /\ program \in Program
  BY <1>2, TopFacts DEF TypeOK
<1> DEFINE d == Top.bp
<1>4. /\ flatFields \in [Decls -> Seq(Field)] /\ flatMethods \in [Decls -> Seq(Method)]
      /\ flatFields[d] \in Seq(Field) /\ flatMethods[d] \in Seq(Method)
      /\ \A e \in Decls : UniqueNames(flatFields[e])
  BY <1>3 DEF TypeOK, FieldNamesUnique, UniqueNames
<1>5. pc' \in Loops /\ parent' \in Nat /\ place' \in [offset : Nat, align : Sizes]
  <2>1. pc \in Loops /\ parent \in Nat /\ place \in [offset : Nat, align : Sizes]
    BY DEF TypeOK
  <2>2. place' = place \/ place' = [offset |-> 0, align |-> 1]
    BY Zenon DEF FlattenStep, NextFieldParent, NextParent, InheritField, EndFields, LocalField,
         EndLocals, NextMethodParent, InheritMethod, LocalMethodsLast, StartLayout
  <2>3. parent' = parent \/ parent' = parent + 1 \/ parent' = 0
    BY Zenon DEF FlattenStep, NextFieldParent, NextParent, InheritField, EndFields, LocalField,
         EndLocals, NextMethodParent, InheritMethod, LocalMethodsLast
  <2>4. pc' \in Loops
    BY <2>1 DEF FlattenStep, NextFieldParent, NextParent, InheritField, EndFields, LocalField,
         EndLocals, NextMethodParent, InheritMethod, LocalMethodsLast, StartLayout, Loops
  <2>5. [offset |-> 0, align |-> 1] \in [offset : Nat, align : Sizes]
    BY DEF Sizes
  <2> QED BY <2>1, <2>2, <2>3, <2>4, <2>5
<1>6. ASSUME NEW t \in Seq(Field), UniqueNames(t), flatFields' = [flatFields EXCEPT ![d] = t]
      PROVE  /\ flatFields' \in [Decls -> Seq(Field)]
             /\ \A e \in Decls : UniqueNames(flatFields'[e])
  BY <1>3, <1>4, <1>6
<1>7. /\ flatFields' \in [Decls -> Seq(Field)]
      /\ \A e \in Decls : UniqueNames(flatFields'[e])
  <2>1. CASE InheritField
    <3>1. rest \in Seq(Field) /\ rest # <<>> /\ parent \in DOMAIN Parents
      BY <2>1 DEF InheritField, RestOK
    <3>2. Head(rest) \in Field
      BY <3>1
    <3>3. Parents[parent] \in Parent
      BY <1>3, <3>1
    <3> DEFINE a == AliasOf(Parents[parent], Head(rest).name)
               t == WithInherited(flatFields[d], Head(rest), a)
    <3>4. a # NoName => a \in Names
      BY <3>3, AliasIsName
    <3>5. flatFields' = [flatFields EXCEPT ![d] = t]
      BY <2>1 DEF InheritField
    <3> HIDE DEF a
    <3>6. t \in Seq(Field) /\ UniqueNames(t)
      BY <1>3, <1>4, <3>2, <3>4, WithInheritedFacts
    <3> HIDE DEF t
    <3> QED BY <1>6, <3>5, <3>6
  <2>2. CASE LocalField
    <3>1. rest \in Seq(Field) /\ rest # <<>>
      BY <2>2 DEF LocalField, RestOK
    <3>2. Head(rest) \in Field
      BY <3>1
    <3> DEFINE t == WithField(flatFields[d], Head(rest))
    <3>3. t \in Seq(Field) /\ UniqueNames(t)
      BY <1>3, <1>4, <3>2, WithFieldFacts
    <3>4. flatFields' = [flatFields EXCEPT ![d] = t]
      BY <2>2 DEF LocalField
    <3> HIDE DEF t
    <3> QED BY <1>6, <3>3, <3>4
  <2>3. CASE flatFields' = flatFields
    BY <1>4, <2>3
  <2>4. FlattenStep => InheritField \/ LocalField \/ flatFields' = flatFields
    BY DEF FlattenStep, NextFieldParent, NextParent, EndFields, EndLocals, NextMethodParent,
           InheritMethod, LocalMethodsLast
  <2> QED BY <2>1, <2>2, <2>3, <2>4
<1>8. flatMethods' \in [Decls -> Seq(Method)]
  <2>1. ASSUME NEW t \in Seq(Method), flatMethods' = [flatMethods EXCEPT ![d] = t]
        PROVE  <1>8
    BY <1>3, <1>4, <2>1
  <2>2. ASSUME NEW s \in Seq(Method), NEW x \in Method
        PROVE  WithMethod(s, x) \in Seq(Method)
    BY <2>2, AppendProperties DEF WithMethod
  <2>3. CASE InheritMethod
    <3> DEFINE h == Head(rest)
               a == AliasOf(Parents[parent], h.name)
               g == [name |-> a, body |-> h.body]
               s == WithMethod(flatMethods[d], h)
               t == IF a = NoName THEN s ELSE WithMethod(s, g)
    <3>1. rest \in Seq(Method) /\ rest # <<>> /\ parent \in DOMAIN Parents
      BY <2>3 DEF InheritMethod, RestOK
    <3>2. h \in Method
      BY <3>1
    <3>3. a # NoName => a \in Names
      BY <1>3, <3>1, AliasIsName
    <3>4. s \in Seq(Method)
      BY <1>4, <2>2, <3>2
    <3>5. a # NoName => g \in Method
      BY <3>2, <3>3 DEF Method
    <3>6. flatMethods' = [flatMethods EXCEPT ![d] = t]
      BY <2>3 DEF InheritMethod
    <3> HIDE DEF g, s, a
    <3>7. t \in Seq(Method)
      BY <2>2, <3>4, <3>5
    <3> HIDE DEF t
    <3> QED BY <2>1, <3>6, <3>7
  <2>4. CASE LocalMethodsLast
    <3> DEFINE t == flatMethods[d] \o LocalMethods(d)
    <3>1. LocalMethods(d) \in Seq(Method)
      BY <1>3, LocalTypes
    <3>2. t \in Seq(Method)
      BY <1>4, <3>1, ConcatProperties
    <3>3. flatMethods' = [flatMethods EXCEPT ![d] = t]
      BY <2>4 DEF LocalMethodsLast
    <3> HIDE DEF t
    <3> QED BY <2>1, <3>2, <3>3
  <2>5. FlattenStep => InheritMethod \/ LocalMethodsLast \/ flatMethods' = flatMethods
    BY DEF FlattenStep, NextFieldParent, NextParent, InheritField, LocalField, EndFields,
           EndLocals, NextMethodParent
  <2> QED BY <1>4, <2>3, <2>4, <2>5
<1>9. TypeOK'
  BY <1>1, <1>5, <1>7, <1>8 DEF TypeOK
<1> QED BY <1>1, <1>7, <1>9 DEF FieldNamesUnique, UniqueNames

-----------------------------------------------------------------------------
(* The layout: types.                                                      *)

LayoutStep == LayoutField \/ EndLayout \/ ResolveTypes \/ NextLayout \/ EndOffsets

LEMMA CurrentIsDecl ==
  ASSUME TypeOK, Control, pc = "layout"
  PROVE  /\ Current \in Decls
         /\ flatFields[Current] \in Seq(Field)
<1>1. Current \in Decls
  BY TopFacts DEF Control, Current
<1> QED BY <1>1 DEF TypeOK

LEMMA WidthIsSize ==
  ASSUME NEW f \in Field
  PROVE  Width(f) \in Sizes /\ Width(f) \in Nat /\ Width(f) > 0
BY DEF Width, Field, Sizes, PointerSize

(* What a step over one field of a shape does. *)
LEMMA LayoutFieldFacts ==
  ASSUME TypeOK, RestOK, LayoutField
  PROVE  /\ Head(rest) \in Field
         /\ rest' = Tail(rest) /\ rest' \in Seq(Field) /\ Len(rest') = Len(rest) - 1
         /\ \A i \in 1 .. Len(rest') : rest'[i] = rest[i + 1]
         /\ place.offset \in Nat /\ place.align \in Sizes
         /\ LET at == AlignUp(place.offset, Width(Head(rest)))
            IN /\ at \in Nat /\ at >= place.offset /\ at % Width(Head(rest)) = 0
               /\ offset' = [g \in DOMAIN offset \cup {Head(rest)} |->
                               IF g = Head(rest) THEN at ELSE offset[g]]
               /\ place'.offset = at + Width(Head(rest))
         /\ place' \in [offset : Nat, align : Sizes]
<1>1. rest \in Seq(Field) /\ rest # <<>>
  BY DEF LayoutField, RestOK
<1>2. /\ Head(rest) \in Field
      /\ Tail(rest) \in Seq(Field) /\ Len(Tail(rest)) = Len(rest) - 1
      /\ \A i \in 1 .. Len(Tail(rest)) : Tail(rest)[i] = rest[i + 1]
  BY <1>1, HeadTailProperties
<1>3. rest' = Tail(rest)
  BY DEF LayoutField
<1>4. place.offset \in Nat /\ place.align \in Sizes
  BY DEF TypeOK
<1> DEFINE w == Width(Head(rest))
           at == AlignUp(place.offset, w)
<1>5. w \in Sizes /\ w \in Nat /\ w > 0
  BY <1>2, WidthIsSize
<1>6. at \in Nat /\ at >= place.offset /\ at % w = 0
  BY <1>4, <1>5, AlignUpFacts
<1>7. /\ offset' = [g \in DOMAIN offset \cup {Head(rest)} |->
                     IF g = Head(rest) THEN at ELSE offset[g]]
      /\ place' = [offset |-> at + w, align |-> IF w > place.align THEN w ELSE place.align]
  BY DEF LayoutField
<1> HIDE DEF at, w
<1>8. place' \in [offset : Nat, align : Sizes] /\ place'.offset = at + w
  BY <1>4, <1>5, <1>6, <1>7
<1> QED BY <1>2, <1>3, <1>4, <1>6, <1>7, <1>8 DEF at, w

LEMMA LayoutTypes ==
  ASSUME TypeOK, Control, RestOK, LayoutStep
  PROVE  TypeOK'
<1>1. /\ program' = program /\ Decls' = Decls /\ Blueprints' = Blueprints
      /\ UNCHANGED <<scope, state, resolved, flatFields, flatMethods>>
  BY DEF LayoutStep, LayoutField, EndLayout, ResolveTypes, NextLayout, EndOffsets, shapeVars,
         Decls, Blueprints
<1>2. pc' \in Loops /\ cursor' \in Nat /\ parent' \in Nat /\ typed' \in BOOLEAN
  <2>1. cursor \in Nat /\ parent \in Nat /\ typed \in BOOLEAN
    BY DEF TypeOK
  <2>2. cursor' = cursor \/ cursor' = cursor + 1 \/ cursor' = 1
    BY Zenon DEF LayoutStep, LayoutField, EndLayout, ResolveTypes, NextLayout, EndOffsets
  <2>3. parent' = parent
    BY DEF LayoutStep, LayoutField, EndLayout, ResolveTypes, NextLayout, EndOffsets, loopVars
  <2>6. typed' = typed \/ typed' = TRUE
    BY Zenon DEF LayoutStep, LayoutField, EndLayout, ResolveTypes, NextLayout, EndOffsets,
           shapeVars
  <2>7. typed' \in BOOLEAN
    BY <2>1, <2>6, Zenon
  <2>8. cursor' \in Nat /\ parent' \in Nat
    BY <2>1, <2>2, <2>3
  <2>4. pc' \in {"layout", "inherit", "offsets", "done", pc}
    BY DEF LayoutStep, LayoutField, EndLayout, ResolveTypes, NextLayout, EndOffsets, StartLayout
  <2>5. pc' \in Loops
    BY <2>4 DEF TypeOK, Loops
  <2> QED BY <2>5, <2>7, <2>8, Zenon
<1>3. (\A f \in DOMAIN offset' : offset'[f] \in Nat) /\ place' \in [offset : Nat, align : Sizes]
  <2>1. (\A f \in DOMAIN offset : offset[f] \in Nat) /\ place \in [offset : Nat, align : Sizes]
    BY DEF TypeOK
  <2>2. CASE LayoutField
    BY <2>1, <2>2, LayoutFieldFacts
  <2>3. [offset |-> 0, align |-> 1] \in [offset : Nat, align : Sizes]
    BY DEF Sizes
  <2>4. CASE ~LayoutField
    <3>1. offset' = offset /\ (place' = place \/ place' = [offset |-> 0, align |-> 1])
      BY <2>4, Zenon DEF LayoutStep, EndLayout, ResolveTypes, NextLayout, EndOffsets, shapeVars,
           loopVars, StartLayout
    <3> QED BY <2>1, <2>3, <3>1
  <2> QED BY <2>2, <2>4
<1>4. size' \in [Decls -> Nat] /\ stack' \in Frames
  <2>1. size \in [Decls -> Nat] /\ stack \in Frames
    BY DEF TypeOK, Frames, FrameSet
  <2>2. CASE EndLayout
    <3>1. place.offset \in Nat /\ place.align \in Sizes
      BY DEF TypeOK
    <3> DEFINE z == AlignUp(place.offset, place.align)
    <3>2. z \in Nat
      BY <3>1, AlignUpFacts
    <3>3. size' = [size EXCEPT ![Current] = z]
      BY <2>2 DEF EndLayout
    <3>4. stack' = stack \/ stack' = SubSeq(stack, 1, Len(stack) - 1)
      BY <2>2 DEF EndLayout
    <3>5. Len(stack) \in Nat /\ \A i \in 1 .. Len(stack) - 1 : stack[i] \in FrameSet
      BY <2>1 DEF Frames
    <3>6. SubSeq(stack, 1, Len(stack) - 1) \in Frames
      BY <3>5, SubSeqProperties DEF Frames
    <3> HIDE DEF z
    <3> QED BY <2>1, <3>2, <3>3, <3>4, <3>6
  <2>3. CASE ~EndLayout
    <3>1. size' = size /\ stack' = stack
      BY <2>3 DEF LayoutStep, LayoutField, ResolveTypes, NextLayout, EndOffsets, shapeVars
    <3> QED BY <2>1, <3>1
  <2> QED BY <2>2, <2>3
<1> QED BY <1>1, <1>2, <1>3, <1>4 DEF TypeOK, Frames, FrameSet

-----------------------------------------------------------------------------
(* The loops and the recursion.                                            *)

InheritStep == Resolve \/ NotABlueprint \/ VisitParent \/ ParentsResolved \/ EndInherit

DeclareStep == DeclareBlueprint \/ DeclareFunc \/ EndDeclare

LEMMA NextCases ==
  ASSUME [Next]_vars
  PROVE  \/ DeclareStep \/ InheritStep \/ FlattenStep \/ LayoutStep \/ vars' = vars
BY Zenon DEF Next, DeclareStep, InheritStep, FlattenStep, LayoutStep, Done

LEMMA StepTypes ==
  ASSUME IInv, [Next]_vars
  PROVE  TypeOK'
<1>1. CASE DeclareStep
  BY <1>1, DeclareTypes DEF IInv, DeclareStep
<1>2. CASE InheritStep
  BY <1>2, InheritTypes DEF IInv, InheritStep
<1>3. CASE FlattenStep
  BY <1>3, FlattenTypes DEF IInv
<1>4. CASE LayoutStep
  BY <1>4, LayoutTypes DEF IInv
<1>5. CASE vars' = vars
  BY <1>5 DEF IInv, TypeOK, vars, Decls, Blueprints
<1> QED BY <1>1, <1>2, <1>3, <1>4, <1>5, NextCases

LEMMA StepNames ==
  ASSUME IInv, [Next]_vars
  PROVE  FieldNamesUnique'
<1>1. CASE FlattenStep
  BY <1>1, FlattenTypes DEF IInv
<1>2. CASE flatFields' = flatFields /\ Decls' = Decls
  BY <1>2 DEF IInv, FieldNamesUnique
<1>3. [Next]_vars => Decls' = Decls
  BY ProgramStays DEF vars, Decls, Blueprints
<1>4. DeclareStep \/ InheritStep \/ LayoutStep \/ vars' = vars => flatFields' = flatFields
  BY DEF DeclareStep, DeclareBlueprint, DeclareFunc, EndDeclare, declareVars, shapeVars,
         InheritStep, Resolve, NotABlueprint, VisitParent, ParentsResolved, EndInherit,
         LayoutStep, LayoutField, EndLayout, ResolveTypes, NextLayout, EndOffsets, vars
<1> QED BY <1>1, <1>2, <1>3, <1>4, NextCases

(* The calls whose blueprint is still RESOLVING. *)
Active == IF Flattening THEN 1 .. Len(stack) - 1 ELSE DOMAIN stack

Bounded ==
  /\ \A i, j \in DOMAIN stack : stack[i].bp = stack[j].bp => i = j
  /\ \A d \in Decls : state[d] = "RESOLVING" <=> \E i \in Active : stack[i].bp = d

StackShape ==
  /\ Len(stack) \in Nat /\ DOMAIN stack = 1 .. Len(stack)
  /\ \A i \in DOMAIN stack : stack[i].bp \in Decls
  /\ stack = <<>> <=> Len(stack) = 0
  /\ Active \subseteq DOMAIN stack

LEMMA StackFacts == TypeOK => StackShape
<1> SUFFICES ASSUME TypeOK PROVE StackShape
  OBVIOUS
<1>1. stack \in Seq(FrameSet)
  BY DEF TypeOK, FrameSet
<1>2. Len(stack) \in Nat /\ DOMAIN stack = 1 .. Len(stack) /\ (stack = <<>> <=> Len(stack) = 0)
  BY <1>1
<1>3. \A i \in DOMAIN stack : stack[i] \in FrameSet
  BY <1>1
<1>4. \A i \in DOMAIN stack : stack[i].bp \in Decls
  BY <1>3 DEF FrameSet
<1>5. Active \subseteq DOMAIN stack
  BY <1>2 DEF Active
<1> QED BY <1>2, <1>4, <1>5 DEF StackShape

LEMMA BoundedIsRecursionBounded == TypeOK => (RecursionBounded <=> Bounded)
<1> SUFFICES ASSUME TypeOK PROVE RecursionBounded <=> Bounded
  OBVIOUS
<1>1. Active \subseteq DOMAIN stack /\ \A i \in DOMAIN stack : stack[i].bp \in Decls
  BY StackFacts DEF StackShape
<1>2. ({d \in Decls : state[d] = "RESOLVING"} = {stack[i].bp : i \in Active})
        <=> \A d \in Decls : state[d] = "RESOLVING" <=> \E i \in Active : stack[i].bp = d
  BY <1>1
<1> QED BY <1>2 DEF RecursionBounded, Bounded, Active

(* A call keeps the recursion bounded. *)
LEMMA CallBounded ==
  ASSUME TypeOK, Bounded, pc = "inherit", pc' = "inherit", Decls' = Decls, TypeOK',
         NEW d \in Decls, NEW frames \in Frames, Call(d, frames),
         Len(frames) = Len(stack), \A i \in DOMAIN stack : frames[i].bp = stack[i].bp
  PROVE  Bounded'
<1>1. Active = DOMAIN stack /\ Active' = DOMAIN stack'
  BY DEF Active, Flattening
<1>2. /\ Len(stack) \in Nat /\ DOMAIN stack = 1 .. Len(stack)
      /\ DOMAIN frames = 1 .. Len(stack)
      /\ DOMAIN stack' = 1 .. Len(stack') /\ Len(stack') \in Nat
  <2>1. Len(stack) \in Nat /\ DOMAIN stack = 1 .. Len(stack)
    BY StackFacts DEF StackShape
  <2>2. StackShape'
    BY StackFacts, PTL
  <2> QED BY <2>1, <2>2 DEF Frames, StackShape
<1>3. CASE state' = state /\ stack' = frames
  BY <1>1, <1>2, <1>3 DEF Bounded
<1>4. CASE /\ state[d] = "UNRESOLVED"
           /\ state' = [state EXCEPT ![d] = "RESOLVING"]
           /\ Len(stack') = Len(frames) + 1
           /\ \A i \in 1 .. Len(frames) : stack'[i] = frames[i]
           /\ stack'[Len(frames) + 1].bp = d
  <2>1. \A i \in 1 .. Len(stack) : stack'[i].bp = stack[i].bp
    BY <1>2, <1>4
  <2>2. \A i \in 1 .. Len(stack) : stack[i].bp # d
    <3>1. state[d] # "RESOLVING"
      BY <1>4
    <3> QED BY <1>1, <1>2, <3>1 DEF Bounded
  <2>3. DOMAIN stack' = 1 .. Len(stack) + 1 /\ stack'[Len(stack) + 1].bp = d
    BY <1>2, <1>4
  <2>4. \A i, j \in DOMAIN stack' : stack'[i].bp = stack'[j].bp => i = j
    <3>1. \A i, j \in 1 .. Len(stack) : stack[i].bp = stack[j].bp => i = j
      BY <1>2 DEF Bounded
    <3>2. \A i \in 1 .. Len(stack) + 1 : i \in 1 .. Len(stack) \/ i = Len(stack) + 1
      BY <1>2
    <3> QED BY <2>1, <2>2, <2>3, <3>1, <3>2
  <2>5. \A e \in Decls : state'[e] = "RESOLVING" <=> \E i \in DOMAIN stack' : stack'[i].bp = e
    <3> SUFFICES ASSUME NEW e \in Decls
                 PROVE  state'[e] = "RESOLVING" <=> \E i \in DOMAIN stack' : stack'[i].bp = e
      OBVIOUS
    <3>1. state \in [Decls -> {"UNRESOLVED", "RESOLVING", "RESOLVED"}]
      BY DEF TypeOK
    <3>2. CASE e = d
      <4>1. Len(stack) + 1 \in DOMAIN stack'
        BY <1>2, <2>3
      <4> QED BY <1>4, <2>3, <3>1, <3>2, <4>1
    <3>3. CASE e # d
      <4>1. state'[e] = state[e]
        BY <1>4, <3>1, <3>3
      <4>2. state[e] = "RESOLVING" <=> \E i \in 1 .. Len(stack) : stack[i].bp = e
        BY <1>1, <1>2 DEF Bounded
      <4>3. (\E i \in 1 .. Len(stack) : stack[i].bp = e) <=>
            (\E i \in 1 .. Len(stack) + 1 : stack'[i].bp = e)
        <5>1. \A i \in 1 .. Len(stack) : i \in 1 .. Len(stack) + 1
          BY <1>2
        <5>2. \A i \in 1 .. Len(stack) + 1 : i \in 1 .. Len(stack) \/ i = Len(stack) + 1
          BY <1>2
        <5> QED BY <2>1, <2>3, <3>3, <5>1, <5>2
      <4> QED BY <2>3, <4>1, <4>2, <4>3
    <3> QED BY <3>2, <3>3
  <2> QED BY <1>1, <1>2, <2>4, <2>5 DEF Bounded
<1> QED BY <1>3, <1>4, CallFacts

LEMMA StepBounded ==
  ASSUME IInv, [Next]_vars, TypeOK'
  PROVE  RecursionBounded'
<1>1. TypeOK /\ Bounded /\ Control /\ Decls' = Decls
  BY BoundedIsRecursionBounded, ProgramStays DEF IInv, vars, Decls, Blueprints
<1>2. StackShape /\ StackShape'
  <2>1. StackShape
    BY <1>1, StackFacts
  <2>2. StackShape'
    BY StackFacts, PTL
  <2> QED BY <2>1, <2>2
<1>3. ASSUME state' = state, stack' = stack, Flattening' <=> Flattening
      PROVE  Bounded'
  BY <1>1, <1>3 DEF Bounded, Active
<1>4. Bounded'
  <2>1. CASE DeclareStep
    <3>1. state' = state /\ stack' = stack /\ stack = <<>> /\ pc' \in {"declare", "inherit", "done"}
      BY <1>1, <2>1 DEF DeclareStep, DeclareBlueprint, DeclareFunc, EndDeclare, declareVars,
           Control, Phase
    <3>2. ~Flattening /\ ~Flattening'
      BY <2>1, <3>1 DEF DeclareStep, DeclareBlueprint, DeclareFunc, EndDeclare, Flattening
    <3> QED BY <1>3, <3>1, <3>2
  <2>2. CASE Resolve
    <3>1. pc = "inherit" /\ pc' = "inherit" /\ cursor \in Decls /\ Call(cursor, stack)
      BY <2>2 DEF Resolve
    <3>2. stack \in Frames
      BY <1>1 DEF TypeOK, Frames, FrameSet
    <3> QED BY <1>1, <3>1, <3>2, CallBounded
  <2>3. CASE NotABlueprint
    <3>1. /\ state' = state /\ stack' = Advanced /\ stack # <<>>
          /\ pc = "inherit" /\ pc' = "inherit"
      BY <2>3 DEF NotABlueprint
    <3>2. /\ Len(stack') = Len(stack) /\ DOMAIN stack' = DOMAIN stack
          /\ \A i \in DOMAIN stack : stack'[i].bp = stack[i].bp
      BY <1>1, <1>2, <3>1, TopFacts DEF StackShape
    <3>3. Active = DOMAIN stack /\ Active' = DOMAIN stack'
      BY <3>1 DEF Active, Flattening
    <3> QED BY <1>1, <3>1, <3>2, <3>3 DEF Bounded
  <2>4. CASE VisitParent
    <3>1. PICK i \in Symbols(Parents[Top.next].name, "BLUEPRINT") : Call(scope[i].decl, Advanced)
      BY <2>4 DEF VisitParent
    <3>2. scope[i].decl \in Decls
      BY <1>1, <3>1 DEF TypeOK, Symbols
    <3>3. pc = "inherit" /\ pc' = "inherit" /\ stack # <<>>
      BY <2>4 DEF VisitParent
    <3>4. /\ Advanced \in Frames /\ Len(Advanced) = Len(stack)
          /\ \A j \in DOMAIN stack : Advanced[j].bp = stack[j].bp
      BY <1>1, <3>3, TopFacts
    <3> QED BY <1>1, <3>1, <3>2, <3>3, <3>4, CallBounded
  <2>5. CASE ParentsResolved
    <3>1. /\ pc = "inherit" /\ pc' = "fields" /\ stack # <<>> /\ stack' = stack
          /\ state' = [state EXCEPT ![Top.bp] = "RESOLVED"]
      BY <2>5 DEF ParentsResolved
    <3>2. Active = 1 .. Len(stack) /\ Active' = 1 .. Len(stack) - 1
      BY <1>2, <3>1 DEF Active, Flattening, StackShape
    <3>3. Len(stack) > 0 /\ Len(stack) \in Nat /\ Top.bp \in Decls /\ Top.bp = stack[Len(stack)].bp
      BY <1>1, <3>1, TopFacts DEF Top
    <3>4. state \in [Decls -> {"UNRESOLVED", "RESOLVING", "RESOLVED"}]
      BY <1>1 DEF TypeOK
    <3>5. \A d \in Decls : state'[d] = "RESOLVING" <=> \E i \in 1 .. Len(stack) - 1 : stack[i].bp = d
      <4> SUFFICES ASSUME NEW d \in Decls
                   PROVE  state'[d] = "RESOLVING" <=> \E i \in 1 .. Len(stack) - 1 : stack[i].bp = d
        OBVIOUS
      <4>1. \A i \in 1 .. Len(stack) - 1 : i \in 1 .. Len(stack) /\ i # Len(stack)
        BY <3>3
      <4>2. Len(stack) \in 1 .. Len(stack)
        BY <3>3
      <4>3. CASE d = Top.bp
        <5>1. state'[d] = "RESOLVED"
          BY <3>1, <3>4, <4>3
        <5>2. \A i \in 1 .. Len(stack) - 1 : stack[i].bp # d
          BY <1>1, <1>2, <3>3, <4>1, <4>2, <4>3 DEF Bounded, StackShape
        <5> QED BY <5>1, <5>2
      <4>4. CASE d # Top.bp
        <5>1. state'[d] = state[d]
          BY <3>1, <3>4, <4>4
        <5>2. state[d] = "RESOLVING" <=> \E i \in 1 .. Len(stack) : stack[i].bp = d
          BY <1>1, <3>2 DEF Bounded
        <5>3. \A i \in 1 .. Len(stack) : i \in 1 .. Len(stack) - 1 \/ i = Len(stack)
          BY <3>3
        <5> QED BY <3>3, <4>1, <4>4, <5>1, <5>2, <5>3
      <4> QED BY <4>3, <4>4
    <3> QED BY <1>1, <3>1, <3>2, <3>5 DEF Bounded
  <2>6. CASE EndInherit
    <3>1. state' = state /\ stack' = stack /\ ~Flattening /\ ~Flattening'
      BY <2>6 DEF EndInherit, Flattening, Phase
    <3> QED BY <1>3, <3>1
  <2>7. CASE FlattenStep
    <3>1. state' = state /\ stack' = stack /\ stack # <<>>
      BY <1>1, <2>7, FlattenFrame DEF FlattenStep, Control, NextFieldParent, InheritField,
         EndFields, LocalField, EndLocals, NextMethodParent, InheritMethod, LocalMethodsLast
    <3>2. Flattening /\ Flattening'
      BY <2>7, <3>1 DEF FlattenStep, NextFieldParent, NextParent, InheritField, EndFields,
         LocalField, EndLocals, NextMethodParent, InheritMethod, LocalMethodsLast, StartLayout,
         Flattening
    <3> QED BY <1>3, <3>1, <3>2
  <2>8. CASE EndLayout /\ stack # <<>>
    <3>1. /\ state' = state /\ stack' = SubSeq(stack, 1, Len(stack) - 1)
          /\ pc = "layout" /\ pc' = "inherit"
      BY <2>8 DEF EndLayout
    <3>2. Len(stack) \in Nat /\ Len(stack) > 0
      BY <1>1, <2>8, TopFacts
    <3>3. /\ DOMAIN stack' = 1 .. Len(stack) - 1
          /\ \A i \in 1 .. Len(stack) - 1 : stack'[i] = stack[i]
      BY <3>1, <3>2
    <3>4. Active = 1 .. Len(stack) - 1 /\ Active' = 1 .. Len(stack) - 1
      BY <2>8, <3>1, <3>3 DEF Active, Flattening
    <3>5. \A i \in 1 .. Len(stack) - 1 : i \in DOMAIN stack
      BY <1>2, <3>2 DEF StackShape
    <3> QED BY <1>1, <3>1, <3>3, <3>4, <3>5 DEF Bounded
  <2>9. CASE LayoutStep /\ ~(EndLayout /\ stack # <<>>)
    <3>1. state' = state /\ stack' = stack
      BY <2>9 DEF LayoutStep, LayoutField, EndLayout, ResolveTypes, NextLayout, EndOffsets,
         shapeVars
    <3>2. Flattening' <=> Flattening
      <4>1. CASE LayoutField
        BY <3>1, <4>1 DEF LayoutField, Flattening
      <4>2. CASE EndLayout /\ stack = <<>>
        BY <3>1, <4>2 DEF EndLayout, Flattening
      <4>3. CASE ResolveTypes \/ NextLayout \/ EndOffsets
        BY <1>1, <3>1, <4>3 DEF ResolveTypes, NextLayout, EndOffsets, StartLayout, Flattening,
           Control
      <4> QED BY <2>9, <4>1, <4>2, <4>3 DEF LayoutStep
    <3> QED BY <1>3, <3>1, <3>2
  <2>10. CASE vars' = vars
    BY <1>3, <2>10 DEF vars, Flattening
  <2> QED BY <2>1, <2>2, <2>3, <2>4, <2>5, <2>6, <2>7, <2>8, <2>9, <2>10, NextCases
        DEF InheritStep
<1>5. TypeOK' => (RecursionBounded' <=> Bounded')
  BY BoundedIsRecursionBounded, PTL
<1> QED BY <1>4, <1>5

LEMMA StepControl ==
  ASSUME IInv, [Next]_vars, TypeOK'
  PROVE  Control'
<1>1. TypeOK /\ Control /\ Decls' = Decls
  BY ProgramStays DEF IInv, vars, Decls, Blueprints
<1>2. CASE DeclareStep
  BY <1>1, <1>2 DEF DeclareStep, DeclareBlueprint, DeclareFunc, EndDeclare, declareVars,
       Control, Phase, Flattening
<1>3. CASE Resolve \/ NotABlueprint \/ VisitParent
  BY <1>1, <1>3 DEF Resolve, NotABlueprint, VisitParent, Control, Flattening
<1>4. CASE ParentsResolved
  <2>1. /\ pc' = "fields" /\ stack # <<>> /\ stack' = stack
        /\ state' = [state EXCEPT ![Top.bp] = "RESOLVED"]
    BY <1>4 DEF ParentsResolved
  <2>2. Top' = Top /\ Top.bp \in Decls
    BY <1>1, <2>1, TopFacts DEF Top
  <2>3. state'[Top'.bp] = "RESOLVED"
    BY <1>1, <2>1, <2>2 DEF TypeOK
  <2> QED BY <2>1, <2>3 DEF Control, Flattening
<1>5. CASE EndInherit
  BY <1>1, <1>5 DEF EndInherit, Control, Phase, Flattening
<1>6. CASE FlattenStep
  <2>1. state' = state /\ stack' = stack /\ Top' = Top
    BY <1>1, <1>6, FlattenFrame
  <2>2. /\ pc \in {"fields", "locals", "methods"}
        /\ pc' \in {"fields", "locals", "methods", "layout"}
    BY <1>6 DEF FlattenStep, NextFieldParent, NextParent, InheritField, EndFields,
         LocalField, EndLocals, NextMethodParent, InheritMethod, LocalMethodsLast, StartLayout
  <2>3. stack # <<>> /\ state[Top.bp] = "RESOLVED"
    BY <1>1, <2>2 DEF Control, Flattening
  <2> QED BY <2>1, <2>2, <2>3 DEF Control
<1>7. CASE LayoutField
  <2>1. pc' = pc /\ stack' = stack /\ state' = state /\ cursor' = cursor
    BY <1>7 DEF LayoutField
  <2> QED BY <1>1, <2>1 DEF Control, Flattening, Top
<1>8. CASE EndLayout
  BY <1>1, <1>8 DEF EndLayout, Control, Flattening
<1>9. CASE ResolveTypes \/ NextLayout \/ EndOffsets
  BY <1>1, <1>9 DEF ResolveTypes, NextLayout, EndOffsets, StartLayout, Control, Flattening
<1>10. CASE vars' = vars
  BY <1>1, <1>10 DEF vars, Control, Flattening, Top
<1> QED BY <1>2, <1>3, <1>4, <1>5, <1>6, <1>7, <1>8, <1>9, <1>10, NextCases
      DEF InheritStep, LayoutStep

LEMMA StepRest ==
  ASSUME IInv, [Next]_vars, TypeOK'
  PROVE  RestOK'
<1>1. /\ TypeOK /\ Control /\ RestOK /\ Decls' = Decls /\ program \in Program
  BY ProgramStays DEF IInv, TypeOK, vars, Decls, Blueprints
<1>2. CASE DeclareStep \/ Resolve \/ NotABlueprint \/ VisitParent \/ EndInherit
  BY <1>2 DEF DeclareStep, DeclareBlueprint, DeclareFunc, EndDeclare, Resolve, NotABlueprint,
       VisitParent, EndInherit, Phase, RestOK
<1>3. CASE ParentsResolved
  <2>1. pc' = "fields" /\ parent' = 0 /\ rest' = <<>> /\ stack' = stack /\ stack # <<>>
        /\ program' = program
    BY <1>3 DEF ParentsResolved
  <2>2. Parents' = Parents
    BY <2>1 DEF Parents, Top, Blueprints
  <2>3. Parents \in Seq(Parent)
    BY <1>1, <2>1, TopFacts
  <2>4. <<>> \in Seq(Field) /\ 0 <= Len(Parents)
    BY <2>3
  <2> QED BY <2>1, <2>2, <2>4 DEF RestOK
<1>4. CASE FlattenStep
  <2>1. /\ stack # <<>> /\ Parents' = Parents /\ UNCHANGED <<stack, resolved>>
        /\ pc \in {"fields", "locals", "methods"}
    BY <1>1, <1>4, FlattenFrame DEF FlattenStep, Control, NextFieldParent, InheritField,
         EndFields, LocalField, EndLocals, NextMethodParent, InheritMethod, LocalMethodsLast
  <2>2. /\ Parents \in Seq(Parent) /\ Top.bp \in Decls
        /\ DOMAIN Parents = 1 .. Len(Parents) /\ Len(Parents) \in Nat
    BY <1>1, <2>1, TopFacts
  <2>3. ASSUME NEW T, NEW flat \in [Decls -> Seq(T)], NEW p
        PROVE  Inherited(flat, p) \in Seq(T) /\ (Inherited(flat, p) # <<>> => p \in DOMAIN Parents)
    <3>1. CASE p \in DOMAIN Parents /\ resolved[Top.bp][p] # 0
      <4>0. resolved[Top.bp] \in [DOMAIN Parents -> Decls \cup {0}]
        BY <1>1, <2>2 DEF TypeOK, Parents
      <4>1. resolved[Top.bp][p] \in Decls
        BY <3>1, <4>0
      <4> QED BY <3>1, <4>1 DEF Inherited
    <3>2. CASE ~(p \in DOMAIN Parents /\ resolved[Top.bp][p] # 0)
      <4>1. Inherited(flat, p) = <<>>
        BY <3>2 DEF Inherited
      <4> QED BY <4>1
    <3> QED BY <3>1, <3>2
  <2>4. flatFields \in [Decls -> Seq(Field)] /\ flatMethods \in [Decls -> Seq(Method)]
    BY <1>1 DEF TypeOK
  <2>5. CASE NextFieldParent \/ NextMethodParent
    <3>1. /\ parent < Len(Parents) /\ parent' = parent + 1 /\ pc' = pc
          /\ \/ pc = "fields" /\ rest' = Inherited(flatFields, parent + 1)
             \/ pc = "methods" /\ rest' = Inherited(flatMethods, parent + 1)
      BY <2>5 DEF NextFieldParent, NextMethodParent, NextParent
    <3>2. parent \in Nat
      BY <1>1 DEF TypeOK
    <3>3. parent' <= Len(Parents)
      BY <2>2, <3>1, <3>2
    <3>4. Inherited(flatFields, parent + 1) \in Seq(Field)
          /\ (Inherited(flatFields, parent + 1) # <<>> => parent + 1 \in DOMAIN Parents)
      BY <2>3, <2>4
    <3>5. Inherited(flatMethods, parent + 1) \in Seq(Method)
          /\ (Inherited(flatMethods, parent + 1) # <<>> => parent + 1 \in DOMAIN Parents)
      BY <2>3, <2>4
    <3> QED BY <2>1, <3>1, <3>3, <3>4, <3>5 DEF RestOK
  <2>6. CASE InheritField \/ LocalField
    <3>1. /\ rest \in Seq(Field) /\ rest # <<>> /\ rest' = Tail(rest) /\ pc' = pc /\ parent' = parent
          /\ pc \in {"fields", "locals"}
      BY <1>1, <2>6 DEF InheritField, LocalField, RestOK
    <3>2. Tail(rest) \in Seq(Field)
      BY <3>1
    <3> QED BY <1>1, <2>1, <3>1, <3>2 DEF RestOK
  <2>7. CASE InheritMethod
    <3>1. /\ rest \in Seq(Method) /\ rest # <<>> /\ rest' = Tail(rest) /\ pc' = pc
          /\ parent' = parent /\ pc = "methods"
      BY <1>1, <2>7 DEF InheritMethod, RestOK
    <3>2. Tail(rest) \in Seq(Method)
      BY <3>1
    <3> QED BY <1>1, <2>1, <3>1, <3>2 DEF RestOK
  <2>8. CASE EndFields
    <3>1. LocalFields(Top.bp) \in Seq(Field)
      BY <1>1, <2>2, LocalTypes
    <3> QED BY <2>8, <3>1 DEF EndFields, RestOK
  <2>9. CASE EndLocals
    <3>1. pc' = "methods" /\ rest' = <<>> /\ parent' = 0
      BY <2>9 DEF EndLocals
    <3>2. <<>> \in Seq(Method) /\ 0 <= Len(Parents)
      BY <2>2
    <3> QED BY <2>1, <3>1, <3>2 DEF RestOK
  <2>10. CASE LocalMethodsLast
    <3>1. pc' = "layout" /\ rest' = flatFields[Top.bp]
      BY <2>10 DEF LocalMethodsLast, StartLayout
    <3>2. flatFields[Top.bp] \in Seq(Field)
      BY <2>2, <2>4
    <3> QED BY <3>1, <3>2 DEF RestOK
  <2> QED BY <1>4, <2>5, <2>6, <2>7, <2>8, <2>9, <2>10 DEF FlattenStep
<1>5. CASE LayoutField
  <2>1. pc' = "layout"
    BY <1>5 DEF LayoutField
  <2> QED BY <1>1, <1>5, <2>1, LayoutFieldFacts DEF RestOK
<1>6. CASE NextLayout
  <2>1. pc' = "layout" /\ rest' = flatFields[cursor] /\ cursor \in Decls
    BY <1>6 DEF NextLayout, StartLayout
  <2>2. flatFields[cursor] \in Seq(Field)
    BY <1>1, <2>1 DEF TypeOK
  <2> QED BY <2>1, <2>2 DEF RestOK
<1>7. CASE EndLayout \/ ResolveTypes \/ EndOffsets
  BY <1>7 DEF EndLayout, ResolveTypes, EndOffsets, RestOK
<1>8. CASE vars' = vars
  BY <1>1, <1>8 DEF vars, RestOK, Parents, Top, Blueprints
<1> QED BY <1>2, <1>3, <1>4, <1>5, <1>6, <1>7, <1>8, NextCases DEF InheritStep, LayoutStep

-----------------------------------------------------------------------------
(* The layout.                                                             *)

LEMMA StepSuffix ==
  ASSUME IInv, [Next]_vars, TypeOK'
  PROVE  RestIsSuffix'
<1>1. /\ TypeOK /\ Control /\ RestOK /\ RestIsSuffix
  BY DEF IInv
<1>2. CASE LocalMethodsLast \/ NextLayout
  <2>1. /\ pc' = "layout" /\ rest' = flatFields[Current'] /\ flatFields' = flatFields
        /\ Current' \in Decls
    <3>1. CASE LocalMethodsLast
      <4>1. stack' = stack /\ stack # <<>> /\ flatFields' = flatFields
        BY <1>1, <3>1 DEF LocalMethodsLast, flattenVars, Control
      <4>2. Current' = Top.bp /\ Top.bp \in Decls
        BY <1>1, <4>1, TopFacts DEF Current, Top
      <4> QED BY <3>1, <4>1, <4>2 DEF LocalMethodsLast, StartLayout
    <3>2. CASE NextLayout
      <4>1. stack' = stack /\ stack = <<>> /\ flatFields' = flatFields /\ cursor' = cursor
        BY <1>1, <3>2 DEF NextLayout, shapeVars, Control
      <4> QED BY <3>2, <4>1 DEF NextLayout, StartLayout, Current
    <3> QED BY <1>2, <3>1, <3>2
  <2>2. flatFields[Current'] \in Seq(Field)
    BY <1>1, <2>1 DEF TypeOK
  <2> QED BY <2>1, <2>2 DEF RestIsSuffix
<1>3. CASE LayoutField
  <2>1. pc = "layout" /\ pc' = "layout" /\ flatFields' = flatFields /\ Current' = Current
    BY <1>3 DEF LayoutField, Current, Top
  <2> DEFINE s == flatFields[Current]
             n == Len(s)
             k == Len(rest)
  <2>2. s \in Seq(Field) /\ n \in Nat
    BY <1>1, <2>1, CurrentIsDecl
  <2>3. /\ rest' \in Seq(Field) /\ Len(rest') = k - 1
        /\ \A i \in 1 .. Len(rest') : rest'[i] = rest[i + 1]
        /\ DOMAIN offset' = DOMAIN offset \cup {Head(rest)}
    BY <1>1, <1>3, LayoutFieldFacts
  <2>4. k \in Nat /\ k > 0 /\ Head(rest) = rest[1]
    BY <1>1, <1>3 DEF RestOK, LayoutField
  <2>5. /\ k <= n
        /\ \A i \in 1 .. k : rest[i] = s[n - k + i]
        /\ \A i \in 1 .. n - k : s[i] \in DOMAIN offset
    BY <1>1, <2>1 DEF RestIsSuffix
  <2> HIDE DEF s, n, k
  <2>6. \A i \in 1 .. Len(rest') : rest'[i] = s[n - Len(rest') + i]
    <3> SUFFICES ASSUME NEW i \in 1 .. Len(rest') PROVE rest'[i] = s[n - Len(rest') + i]
      OBVIOUS
    <3>1. i + 1 \in 1 .. k /\ n - k + (i + 1) = n - Len(rest') + i
      BY <2>2, <2>3, <2>4
    <3> QED BY <2>3, <2>5, <3>1
  <2>7. \A i \in 1 .. n - Len(rest') : s[i] \in DOMAIN offset'
    <3> SUFFICES ASSUME NEW i \in 1 .. n - Len(rest') PROVE s[i] \in DOMAIN offset'
      OBVIOUS
    <3>1. i \in 1 .. n - k \/ i = n - k + 1
      BY <2>2, <2>3, <2>4
    <3>2. s[n - k + 1] = Head(rest)
      BY <2>4, <2>5
    <3> QED BY <2>3, <2>5, <3>1, <3>2
  <2>8. Len(rest') <= n
    BY <2>2, <2>3, <2>4, <2>5
  <2> QED BY <2>1, <2>6, <2>7, <2>8 DEF RestIsSuffix, s, n
<1>4. CASE pc' # "layout"
  BY <1>4 DEF RestIsSuffix
<1>5. CASE vars' = vars
  BY <1>1, <1>5 DEF vars, RestIsSuffix, Current, Top
<1>6. DeclareStep \/ InheritStep \/ EndLayout \/ ResolveTypes \/ EndOffsets => pc' # "layout"
  BY DEF DeclareStep, DeclareBlueprint, DeclareFunc, EndDeclare, InheritStep, Resolve,
       NotABlueprint, VisitParent, ParentsResolved, EndInherit, EndLayout, ResolveTypes,
       EndOffsets, Phase
<1>7. FlattenStep => LocalMethodsLast \/ pc' # "layout"
  BY DEF FlattenStep, NextFieldParent, NextParent, InheritField, EndFields, LocalField,
       EndLocals, NextMethodParent, InheritMethod
<1> QED BY <1>2, <1>3, <1>4, <1>5, <1>6, <1>7, NextCases DEF LayoutStep

LEMMA StepOrdered ==
  ASSUME IInv, [Next]_vars, TypeOK'
  PROVE  LayoutOrdered'
<1>1. /\ TypeOK /\ Control /\ RestOK /\ RestIsSuffix /\ LayoutOrdered /\ FieldNamesUnique
      /\ Decls' = Decls
  BY ProgramStays DEF IInv, vars, Decls, Blueprints
<1>2. CASE LocalMethodsLast \/ NextLayout
  <2>1. rest' = flatFields'[Current'] /\ Current' \in Decls
    <3>1. CASE LocalMethodsLast
      <4>1. stack' = stack /\ stack # <<>> /\ flatFields' = flatFields
        BY <1>1, <3>1 DEF LocalMethodsLast, flattenVars, Control
      <4>2. Current' = Top.bp /\ Top.bp \in Decls
        BY <1>1, <4>1, TopFacts DEF Current, Top
      <4> QED BY <3>1, <4>1, <4>2 DEF LocalMethodsLast, StartLayout
    <3>2. CASE NextLayout
      <4>1. stack' = stack /\ stack = <<>> /\ flatFields' = flatFields /\ cursor' = cursor
        BY <1>1, <3>2 DEF NextLayout, shapeVars, Control
      <4> QED BY <3>2, <4>1 DEF NextLayout, StartLayout, Current
    <3> QED BY <1>2, <3>1, <3>2
  <2>2. flatFields'[Current'] \in Seq(Field)
    BY <1>1, <2>1 DEF TypeOK
  <2>3. 1 .. Len(flatFields'[Current']) - Len(rest') = {}
    BY <2>1, <2>2
  <2> QED BY <2>3 DEF LayoutOrdered
<1>3. CASE LayoutField
  <2>1. /\ pc = "layout" /\ pc' = "layout" /\ flatFields' = flatFields /\ Current' = Current
        /\ typed' = typed
    BY <1>3 DEF LayoutField, Current, Top
  <2> DEFINE s == flatFields[Current]
             n == Len(s)
             k == Len(rest)
             h == Head(rest)
             at == AlignUp(place.offset, Width(h))
  <2>2. s \in Seq(Field) /\ n \in Nat /\ Current \in Decls
    BY <1>1, <2>1, CurrentIsDecl
  <2>3. /\ h \in Field /\ Len(rest') = k - 1
        /\ place.offset \in Nat /\ at \in Nat /\ at >= place.offset /\ at % Width(h) = 0
        /\ offset' = [g \in DOMAIN offset \cup {h} |-> IF g = h THEN at ELSE offset[g]]
        /\ place'.offset = at + Width(h)
    BY <1>1, <1>3, LayoutFieldFacts
  <2>4. k \in Nat /\ k > 0 /\ h = rest[1]
    BY <1>1, <1>3 DEF RestOK, LayoutField
  <2>5. /\ k <= n
        /\ \A i \in 1 .. k : rest[i] = s[n - k + i]
        /\ \A i \in 1 .. n - k : s[i] \in DOMAIN offset
    BY <1>1, <2>1 DEF RestIsSuffix
  <2>6. Width(h) \in Nat /\ Width(h) > 0
    BY <2>3, WidthIsSize
  <2>7. \A i \in 1 .. n - k :
          /\ offset[s[i]] % Width(s[i]) = 0 /\ offset[s[i]] + Width(s[i]) <= place.offset
          /\ \A j \in 1 .. n - k : i < j => offset[s[i]] + Width(s[i]) <= offset[s[j]]
    BY <1>1, <2>1 DEF LayoutOrdered, Laid
  <2>8. \A i \in 1 .. n - k : s[i] # h
    <3>1. \A i, j \in DOMAIN s : s[i].name = s[j].name => i = j
      BY <1>1, <2>2 DEF FieldNamesUnique
    <3>2. h = s[n - k + 1] /\ n - k + 1 \in DOMAIN s
      BY <2>2, <2>4, <2>5
    <3>3. \A i \in 1 .. n - k : i \in DOMAIN s /\ i # n - k + 1
      BY <2>2, <2>4, <2>5
    <3> QED BY <3>1, <3>2, <3>3
  <2>9. \A f : Width(f)' = Width(f)
    BY <2>1 DEF Width
  <2>10. \A i \in 1 .. n - k : offset'[s[i]] = offset[s[i]] /\ offset[s[i]] \in Nat
    BY <1>1, <2>3, <2>5, <2>8 DEF TypeOK
  <2>11. offset'[h] = at /\ s[n - k + 1] = h
    BY <2>3, <2>4, <2>5
  <2>12. \A i \in 1 .. n - k : s[i] \in Field /\ Width(s[i]) \in Nat
    BY <2>2, <2>4, <2>5, WidthIsSize
  <2>13. \A i \in 1 .. n - Len(rest') : i \in 1 .. n - k \/ i = n - k + 1
    BY <2>2, <2>3, <2>4, <2>5
  <2> HIDE DEF s, n, k, h, at
  <2>14. \A i \in 1 .. n - Len(rest') :
           offset'[s[i]] % Width(s[i]) = 0 /\ offset'[s[i]] + Width(s[i]) <= place'.offset
    <3> SUFFICES ASSUME NEW i \in 1 .. n - Len(rest')
                 PROVE  offset'[s[i]] % Width(s[i]) = 0
                        /\ offset'[s[i]] + Width(s[i]) <= place'.offset
      OBVIOUS
    <3>1. CASE i \in 1 .. n - k
      <4>1. offset[s[i]] + Width(s[i]) <= place.offset
        BY <2>7, <3>1
      <4>2. offset[s[i]] \in Nat /\ Width(s[i]) \in Nat
        BY <2>10, <2>12, <3>1
      <4>3. offset[s[i]] + Width(s[i]) <= place'.offset
        BY <2>3, <2>6, <4>1, <4>2
      <4> QED BY <2>7, <2>10, <3>1, <4>3
    <3>2. CASE i = n - k + 1
      BY <2>3, <2>6, <2>11, <3>2
    <3> QED BY <2>13, <3>1, <3>2
  <2>15. \A i, j \in 1 .. n - Len(rest') : i < j => offset'[s[i]] + Width(s[i]) <= offset'[s[j]]
    <3> SUFFICES ASSUME NEW i \in 1 .. n - Len(rest'), NEW j \in 1 .. n - Len(rest'), i < j
                 PROVE  offset'[s[i]] + Width(s[i]) <= offset'[s[j]]
      OBVIOUS
    <3>1. i \in 1 .. n - k
      BY <2>2, <2>3, <2>4, <2>5
    <3>2. CASE j \in 1 .. n - k
      BY <2>7, <2>10, <3>1, <3>2
    <3>3. CASE j = n - k + 1
      <4>1. offset[s[i]] + Width(s[i]) <= place.offset /\ offset[s[i]] \in Nat
            /\ Width(s[i]) \in Nat
        BY <2>7, <2>10, <2>12, <3>1
      <4>2. offset[s[i]] + Width(s[i]) <= at
        BY <2>3, <4>1
      <4> QED BY <2>10, <2>11, <3>1, <3>3, <4>2
    <3> QED BY <2>13, <3>2, <3>3
  <2> QED BY <2>1, <2>9, <2>14, <2>15 DEF LayoutOrdered, Laid, s, n
<1>4. CASE pc' # "layout"
  BY <1>4 DEF LayoutOrdered
<1>5. CASE vars' = vars
  BY <1>1, <1>5 DEF vars, LayoutOrdered, Laid, Width, Current, Top
<1>6. DeclareStep \/ InheritStep \/ EndLayout \/ ResolveTypes \/ EndOffsets => pc' # "layout"
  BY DEF DeclareStep, DeclareBlueprint, DeclareFunc, EndDeclare, InheritStep, Resolve,
       NotABlueprint, VisitParent, ParentsResolved, EndInherit, EndLayout, ResolveTypes,
       EndOffsets, Phase
<1>7. FlattenStep => LocalMethodsLast \/ pc' # "layout"
  BY DEF FlattenStep, NextFieldParent, NextParent, InheritField, EndFields, LocalField,
       EndLocals, NextMethodParent, InheritMethod
<1> QED BY <1>2, <1>3, <1>4, <1>5, <1>6, <1>7, NextCases DEF LayoutStep

-----------------------------------------------------------------------------
(* The theorems.                                                           *)

LEMMA InvariantHolds == Spec => []IInv
<1>1. IInv /\ [Next]_vars => IInv'
  <2> SUFFICES ASSUME IInv, [Next]_vars PROVE IInv'
    OBVIOUS
  <2>1. TypeOK'
    BY StepTypes
  <2> QED BY <2>1, StepControl, StepRest, StepBounded, StepNames, StepSuffix, StepOrdered
          DEF IInv
<1> QED BY <1>1, InitInvariant, PTL DEF Spec

(* Declarations, resolution, flattening and layout keep their data well    *)
(* formed for every program: parents that are resolved are blueprints of   *)
(* the program, and the calls in progress are too.                         *)
THEOREM TypeCorrect == Spec => []TypeOK
BY InvariantHolds, PTL DEF IInv

(* _resolve_blueprint_inheritance never enters a blueprint twice at a time *)
(* and its RESOLVING marks are exactly the calls in progress.              *)
THEOREM RecursionIsBounded == Spec => []RecursionBounded
BY InvariantHolds, PTL DEF IInv

(* Flattened shapes have no two fields of one name.                        *)
THEOREM NamesAreUnique == Spec => []FieldNamesUnique
BY InvariantHolds, PTL DEF IInv

(* _compute_field_offsets lays the fields of a shape out in order, aligned *)
(* and without overlap; that no name and so no object occurs twice in a    *)
(* shape is what keeps a later field from moving an earlier one.           *)
THEOREM LayoutIsOrdered == Spec => []LayoutOrdered
BY InvariantHolds, PTL DEF IInv

(* One step never leaves RESOLVED, nor changes a finished shape.           *)
LEMMA FinishedStays ==
  ASSUME IInv, Next, NEW d \in Decls, state[d] = "RESOLVED",
         ~(Flattening /\ Top.bp = d)
  PROVE  /\ state'[d] = "RESOLVED"
         /\ flatFields'[d] = flatFields[d] /\ flatMethods'[d] = flatMethods[d]
<1>1. TypeOK /\ Control
  BY DEF IInv
<1>2. state \in [Decls -> {"UNRESOLVED", "RESOLVING", "RESOLVED"}]
  BY <1>1 DEF TypeOK
<1>3. ASSUME NEW e \in Decls, NEW frames, Call(e, frames)
      PROVE  state'[d] = "RESOLVED"
  <2>1. state' = state \/ (state[e] = "UNRESOLVED" /\ state' = [state EXCEPT ![e] = "RESOLVING"])
    BY <1>3 DEF Call
  <2> QED BY <1>2, <2>1
<1>4. CASE Resolve
  <2>1. cursor \in Decls /\ Call(cursor, stack) /\ UNCHANGED <<flatFields, flatMethods>>
    BY <1>4 DEF Resolve, shapeVars
  <2> QED BY <1>3, <2>1
<1>5. CASE VisitParent
  <2>1. PICK i \in Symbols(Parents[Top.next].name, "BLUEPRINT") : Call(scope[i].decl, Advanced)
    BY <1>5 DEF VisitParent
  <2>2. scope[i].decl \in Decls
    BY <1>1, <2>1 DEF TypeOK, Symbols
  <2>3. UNCHANGED <<flatFields, flatMethods>>
    BY <1>5 DEF VisitParent
  <2> QED BY <1>3, <2>1, <2>2, <2>3
<1>6. CASE ParentsResolved
  BY <1>2, <1>6 DEF ParentsResolved, shapeVars
<1>7. CASE FlattenStep
  <2>1. pc \in {"fields", "locals", "methods"} /\ state' = state
    BY <1>1, <1>7, FlattenFrame DEF FlattenStep, NextFieldParent, InheritField, EndFields,
         LocalField, EndLocals, NextMethodParent, InheritMethod, LocalMethodsLast
  <2>2. Top.bp # d
    BY <2>1 DEF Flattening
  <2>3. /\ flatFields' = flatFields \/ \E t : flatFields' = [flatFields EXCEPT ![Top.bp] = t]
        /\ flatMethods' = flatMethods \/ \E t : flatMethods' = [flatMethods EXCEPT ![Top.bp] = t]
    BY <1>7 DEF FlattenStep, NextFieldParent, NextParent, InheritField, EndFields,
         LocalField, EndLocals, NextMethodParent, InheritMethod, LocalMethodsLast
  <2>4. flatFields \in [Decls -> Seq(Field)] /\ flatMethods \in [Decls -> Seq(Method)]
    BY <1>1 DEF TypeOK
  <2> QED BY <2>1, <2>2, <2>3, <2>4
<1>8. CASE UNCHANGED <<state, flatFields, flatMethods>>
  BY <1>8
<1>9. DeclareStep \/ NotABlueprint \/ EndInherit \/ LayoutStep \/ Done
        => UNCHANGED <<state, flatFields, flatMethods>>
  BY DEF DeclareStep, DeclareBlueprint, DeclareFunc, EndDeclare, declareVars, shapeVars,
       NotABlueprint, EndInherit, LayoutStep, LayoutField, EndLayout, ResolveTypes, NextLayout,
       EndOffsets, Done, vars
<1>10. \/ DeclareStep \/ NotABlueprint \/ EndInherit \/ LayoutStep \/ Done
       \/ Resolve \/ VisitParent \/ ParentsResolved \/ FlattenStep
  BY Zenon DEF Next, DeclareStep, FlattenStep, LayoutStep
<1> QED BY <1>4, <1>5, <1>6, <1>7, <1>8, <1>9, <1>10

(* Every blueprint is flattened once, after which its shape stays.         *)
THEOREM FlattenedOnceSpec == Spec => FlattenedOnce
<1> DEFINE Kept == \A d \in Decls :
       state[d] = "RESOLVED" /\ ~(Flattening /\ Top.bp = d) =>
         /\ state'[d] = "RESOLVED"
         /\ flatFields'[d] = flatFields[d] /\ flatMethods'[d] = flatMethods[d]
<1>1. IInv /\ [Next]_vars => [Kept]_vars
  BY FinishedStays
<1>2. Spec => [][Kept]_vars
  BY <1>1, InvariantHolds, PTL DEF Spec
<1> QED BY <1>2 DEF FlattenedOnce

-----------------------------------------------------------------------------
(* The inductive invariant, on top of IInv.                                *)

NoCircle == \A e \in errors : e.kind # "circular"

Found(d) == \E i \in DOMAIN scope : scope[i].kind = "BLUEPRINT" /\ scope[i].decl = d

Untouched == NoCircle /\ \A d \in Decls : state[d] = "UNRESOLVED"

(* The scope holds every blueprint under its name, or the analysis stops   *)
(* before any is resolved.                                                 *)
ScopeOK ==
  /\ \A i, j \in DOMAIN scope : scope[i].name = scope[j].name => i = j
  /\ \A i \in DOMAIN scope :
       scope[i].kind = "BLUEPRINT" => scope[i].name = Blueprints[scope[i].decl].name
  /\ pc = "declare" => Untouched /\ (HadError \/ \A d \in Decls : d < cursor => Found(d))
  /\ pc # "declare" => (\A d \in Decls : Found(d)) \/ (pc = "done" /\ Untouched)

ParentsOf(d) == DOMAIN Blueprints[d].parents

Visited(d, p) ==
  state[d] = "RESOLVED" \/ \E i \in DOMAIN stack : stack[i].bp = d /\ p < stack[i].next

(* The parents that were looked up are those that the names denote.        *)
LinksRight ==
  \A d \in Decls : \A p \in ParentsOf(d) :
    Visited(d, p) => Denoted(d, p) = {resolved[d][p]} \ {0}

(* Every call is made for the parent its caller has just looked up.        *)
CallsFollowParents ==
  \A i \in DOMAIN stack : i < Len(stack) =>
    /\ stack[i].next - 1 \in ParentsOf(stack[i].bp)
    /\ stack[i + 1].bp \in Denoted(stack[i].bp, stack[i].next - 1)

Resolved == {d \in Decls : state[d] = "RESOLVED"}
Finished(d) == d \in Resolved /\ ~(Flattening /\ Top.bp = d)

(* Without a cycle met so far, parents are finished before their children  *)
(* are flattened.                                                          *)
ParentsFirst ==
  /\ \A d \in Resolved : \A p \in ParentsOf(d) : \A e \in Denoted(d, p) : Finished(e)
  /\ \A i \in DOMAIN stack : \A p \in ParentsOf(stack[i].bp) :
       p < stack[i].next =>
         \A e \in Denoted(stack[i].bp, p) :
           e \in Resolved \/ (i < Len(stack) /\ e = stack[i + 1].bp)

Source(S) == \E d \in S : \A p \in ParentsOf(d) : Denoted(d, p) \cap S = {}

(* A cycle that was reported exists, and none is among what is resolved    *)
(* when none was reported.                                                 *)
CyclesKnown ==
  /\ ~NoCircle => Cyclic
  /\ NoCircle => ParentsFirst /\ \A S \in SUBSET Resolved : S # {} => Source(S)

(* What a parent contributes: its members and their aliases.               *)
Both(p, members) == members \cup Aliased(p, members)
Members(d, flat, p) == UNION {NameSet(flat[e]) : e \in Denoted(d, p)}
SumUpTo(d, flat, k) ==
  UNION {Both(Blueprints[d].parents[p], Members(d, flat, p)) : p \in {q \in ParentsOf(d) : q <= k}}

FieldsSummed(d) ==
  NameSet(flatFields[d]) = SumOf(d, flatFields, NameSet(Blueprints[d].fields))
MethodsSummed(d) ==
  NameSet(flatMethods[d]) = SumOf(d, flatMethods, NameSet(Blueprints[d].methods))

(* The shapes of what is not resolved are empty.                           *)
EmptyBefore ==
  /\ \A d \in Decls : d \notin Resolved => flatFields[d] = <<>> /\ flatMethods[d] = <<>>
  /\ pc \in {"fields", "locals"} => flatMethods[Top.bp] = <<>>

FieldsSoFar ==
  pc = "fields" =>
    NameSet(flatFields[Top.bp]) \cup Both(Parents[parent], NameSet(rest))
      = SumUpTo(Top.bp, flatFields, parent)

LocalsSoFar ==
  pc = "locals" =>
    NameSet(flatFields[Top.bp]) \cup NameSet(rest)
      = SumOf(Top.bp, flatFields, NameSet(Blueprints[Top.bp].fields))

MethodsSoFar ==
  pc = "methods" =>
    NameSet(flatMethods[Top.bp]) \cup NameSet(Blueprints[Top.bp].methods)
        \cup Both(Parents[parent], NameSet(rest))
      = NameSet(Blueprints[Top.bp].methods) \cup SumUpTo(Top.bp, flatMethods, parent)

FinishedSummed == \A d \in Decls : Finished(d) => FieldsSummed(d) /\ MethodsSummed(d)
TopFieldsSummed == Flattening /\ pc \in {"methods", "layout"} => FieldsSummed(Top.bp)
TopMethodsSummed == Flattening /\ pc = "layout" => MethodsSummed(Top.bp)

(* What is flattened is the sum, as far as the flattening has come.        *)
ShapesSummed ==
  errors = {} =>
    /\ FinishedSummed
    /\ FieldsSoFar
    /\ LocalsSoFar
    /\ TopFieldsSummed
    /\ MethodsSoFar
    /\ TopMethodsSummed

(* OwnMethodWins, at every moment.                                         *)
OwnBodies ==
  \A d \in Decls : \A i \in DOMAIN flatMethods[d] :
    flatMethods[d][i].name \in NameSet(Blueprints[d].methods) =>
      flatMethods[d][i].body = <<d, flatMethods[d][i].name>>

Extends(d) ==
  \A e \in Decls : SharesField(flatFields[d], flatFields[e]) =>
    Prefix(flatFields[d], flatFields[e]) \/ Prefix(flatFields[e], flatFields[d])

(* The first k fields of s are packed as tightly as alignment permits.     *)
Packed(s, k) ==
  \A i \in 1 .. k :
    /\ s[i] \in DOMAIN offset
    /\ offset[s[i]] = AlignUp(IF i = 1 THEN 0 ELSE Laid(s, i - 1), Width(s[i]))

(* The last layout runs after the types are resolved, on an empty stack.   *)
LayoutPhase ==
  /\ typed => stack = <<>> /\ pc \in {"layout", "offsets", "done"} /\ cursor > 0
  /\ ~typed => pc # "offsets" /\ (pc = "layout" => stack # <<>>) /\ (pc = "done" => HadError)
  /\ typed /\ pc = "done" => cursor \notin Decls

(* It has not moved the fields of the shapes it is done with.              *)
EarlierKept ==
  typed =>
    \A d \in Decls : d < cursor /\ Extends(d) =>
      Packed(flatFields[d], Len(flatFields[d])) /\ WellLaid(d)

(* The layout in progress has packed what it has laid.                     *)
CurrentPacked ==
  typed /\ pc = "layout" =>
    LET s == flatFields[cursor]
        k == Len(s) - Len(rest)
    IN Packed(s, k) /\ place.offset = IF k = 0 THEN 0 ELSE Laid(s, k)

LayoutsKept == LayoutPhase /\ EarlierKept /\ CurrentPacked

ShapeInv ==
  /\ ScopeOK
  /\ LinksRight
  /\ CallsFollowParents
  /\ CyclesKnown
  /\ EmptyBefore
  /\ ShapesSummed
  /\ OwnBodies
  /\ LayoutsKept

-----------------------------------------------------------------------------
(* Names of sequences.                                                     *)

LEMMA NamesOfAppend ==
  ASSUME NEW S, NEW s \in Seq(S), NEW x \in S
  PROVE  NameSet(Append(s, x)) = NameSet(s) \cup {x.name}
<1> DEFINE t == Append(s, x)
<1>1. /\ Len(s) \in Nat /\ DOMAIN s = 1 .. Len(s)
      /\ DOMAIN t = 1 .. Len(s) + 1
      /\ \A i \in 1 .. Len(s) : t[i] = s[i]
      /\ t[Len(s) + 1] = x
  BY AppendProperties
<1> HIDE DEF t
<1>2. ASSUME NEW n \in NameSet(t) PROVE n \in NameSet(s) \cup {x.name}
  <2>1. PICK i \in DOMAIN t : n = t[i].name
    BY DEF NameSet
  <2>2. CASE i = Len(s) + 1
    BY <1>1, <2>1, <2>2
  <2>3. CASE i \in DOMAIN s
    BY <1>1, <2>1, <2>3 DEF NameSet
  <2> QED BY <1>1, <2>1, <2>2, <2>3
<1>3. ASSUME NEW n \in NameSet(s) PROVE n \in NameSet(t)
  <2>1. PICK i \in DOMAIN s : n = s[i].name
    BY DEF NameSet
  <2>2. i \in DOMAIN t /\ t[i] = s[i]
    BY <1>1
  <2> QED BY <2>1, <2>2 DEF NameSet
<1>4. x.name \in NameSet(t)
  <2>1. Len(s) + 1 \in DOMAIN t
    BY <1>1
  <2> QED BY <1>1, <2>1 DEF NameSet
<1> QED BY <1>2, <1>3, <1>4 DEF t

LEMMA NamesOfTail ==
  ASSUME NEW S, NEW s \in Seq(S), s # <<>>
  PROVE  NameSet(s) = {Head(s).name} \cup NameSet(Tail(s))
<1> DEFINE t == Tail(s)
<1>1. /\ Len(s) \in Nat /\ Len(s) > 0 /\ DOMAIN s = 1 .. Len(s)
      /\ t \in Seq(S) /\ Len(t) = Len(s) - 1
      /\ \A i \in 1 .. Len(t) : t[i] = s[i + 1]
      /\ Head(s) = s[1]
  BY HeadTailProperties
<1>2. DOMAIN t = 1 .. Len(t)
  BY <1>1
<1> HIDE DEF t
<1>3. ASSUME NEW n \in NameSet(s) PROVE n \in {Head(s).name} \cup NameSet(t)
  <2>1. PICK i \in DOMAIN s : n = s[i].name
    BY DEF NameSet
  <2>2. CASE i = 1
    BY <1>1, <2>1, <2>2
  <2>3. CASE i # 1
    <3>1. i - 1 \in DOMAIN t /\ t[i - 1] = s[i]
      BY <1>1, <1>2, <2>3
    <3> QED BY <2>1, <3>1 DEF NameSet
  <2> QED BY <2>2, <2>3
<1>4. ASSUME NEW n \in NameSet(t) PROVE n \in NameSet(s)
  <2>1. PICK i \in DOMAIN t : n = t[i].name
    BY DEF NameSet
  <2>2. i + 1 \in DOMAIN s /\ t[i] = s[i + 1]
    BY <1>1, <1>2
  <2> QED BY <2>1, <2>2 DEF NameSet
<1>5. Head(s).name \in NameSet(s)
  <2>1. 1 \in DOMAIN s
    BY <1>1
  <2> QED BY <1>1, <2>1 DEF NameSet
<1> QED BY <1>3, <1>4, <1>5 DEF t

LEMMA NamesOfConcat ==
  ASSUME NEW S, NEW s \in Seq(S), NEW t \in Seq(S)
  PROVE  NameSet(s \o t) = NameSet(s) \cup NameSet(t)
<1> DEFINE u == s \o t
<1>1. /\ Len(s) \in Nat /\ DOMAIN s = 1 .. Len(s)
      /\ Len(t) \in Nat /\ DOMAIN t = 1 .. Len(t)
      /\ DOMAIN u = 1 .. Len(s) + Len(t)
      /\ \A i \in DOMAIN s : u[i] = s[i]
      /\ \A i \in DOMAIN t : u[Len(s) + i] = t[i]
  BY ConcatProperties
<1> HIDE DEF u
<1>2. ASSUME NEW n \in NameSet(u) PROVE n \in NameSet(s) \cup NameSet(t)
  <2>1. PICK i \in DOMAIN u : n = u[i].name
    BY DEF NameSet
  <2>2. CASE i \in DOMAIN s
    BY <1>1, <2>1, <2>2 DEF NameSet
  <2>3. CASE i \notin DOMAIN s
    <3>1. i - Len(s) \in DOMAIN t /\ u[i] = t[i - Len(s)]
      BY <1>1, <2>3
    <3> QED BY <2>1, <3>1 DEF NameSet
  <2> QED BY <2>2, <2>3
<1>3. ASSUME NEW n \in NameSet(s) PROVE n \in NameSet(u)
  <2>1. PICK i \in DOMAIN s : n = s[i].name
    BY DEF NameSet
  <2>2. i \in DOMAIN u /\ u[i] = s[i]
    BY <1>1
  <2> QED BY <2>1, <2>2 DEF NameSet
<1>4. ASSUME NEW n \in NameSet(t) PROVE n \in NameSet(u)
  <2>1. PICK i \in DOMAIN t : n = t[i].name
    BY DEF NameSet
  <2>2. Len(s) + i \in DOMAIN u /\ u[Len(s) + i] = t[i]
    BY <1>1
  <2> QED BY <2>1, <2>2 DEF NameSet
<1> QED BY <1>2, <1>3, <1>4 DEF u

LEMMA NamesOfLocals ==
  ASSUME program \in Program, NEW d \in Decls
  PROVE  /\ NameSet(LocalFields(d)) = NameSet(Blueprints[d].fields)
         /\ NameSet(LocalMethods(d)) = NameSet(Blueprints[d].methods)
<1>1. \A i \in DOMAIN Blueprints[d].fields :
        LocalFields(d)[i].name = Blueprints[d].fields[i].name
  BY DEF LocalFields, FieldObject
<1>2. \A i \in DOMAIN Blueprints[d].methods :
        LocalMethods(d)[i].name = Blueprints[d].methods[i].name
  BY DEF LocalMethods
<1>3. DOMAIN LocalFields(d) = DOMAIN Blueprints[d].fields
  BY DEF LocalFields
<1>4. DOMAIN LocalMethods(d) = DOMAIN Blueprints[d].methods
  BY DEF LocalMethods
<1> QED BY <1>1, <1>2, <1>3, <1>4 DEF NameSet

-----------------------------------------------------------------------------
(* Steps.                                                                  *)

LEMMA DeclareFrame ==
  ASSUME DeclareStep
  PROVE  /\ program' = program /\ Decls' = Decls /\ Blueprints' = Blueprints
         /\ pc = "declare"
         /\ UNCHANGED <<state, resolved, flatFields, flatMethods, offset, size, typed, stack,
                        parent, rest, place>>
<1>1. /\ program' = program /\ pc = "declare"
      /\ UNCHANGED <<state, resolved, flatFields, flatMethods, offset, size, typed, stack,
                     parent, rest, place>>
  BY DEF DeclareStep, DeclareBlueprint, DeclareFunc, EndDeclare, declareVars, shapeVars, loopVars
<1> QED BY <1>1 DEF Decls, Blueprints

LEMMA InheritFrame ==
  ASSUME InheritStep
  PROVE  /\ program' = program /\ Decls' = Decls /\ Blueprints' = Blueprints
         /\ pc = "inherit"
         /\ UNCHANGED <<scope, flatFields, flatMethods, offset, size, typed, place>>
<1>1. /\ program' = program /\ pc = "inherit"
      /\ UNCHANGED <<scope, flatFields, flatMethods, offset, size, typed, place>>
  BY DEF InheritStep, Resolve, NotABlueprint, VisitParent, ParentsResolved, EndInherit,
         shapeVars, loopVars
<1> QED BY <1>1 DEF Decls, Blueprints

LEMMA LayoutFrame ==
  ASSUME LayoutStep
  PROVE  /\ program' = program /\ Decls' = Decls /\ Blueprints' = Blueprints
         /\ pc \in {"layout", "types", "offsets"}
         /\ UNCHANGED <<scope, state, resolved, flatFields, flatMethods, errors, parent>>
<1>1. /\ program' = program /\ pc \in {"layout", "types", "offsets"}
      /\ UNCHANGED <<scope, state, resolved, flatFields, flatMethods, errors, parent>>
  BY DEF LayoutStep, LayoutField, EndLayout, ResolveTypes, NextLayout, EndOffsets,
         shapeVars, loopVars
<1> QED BY <1>1 DEF Decls, Blueprints

LEMMA FlattenErrors ==
  ASSUME FlattenStep
  PROVE  /\ pc \in {"fields", "locals", "methods"}
         /\ errors' = errors \/ \E n : errors' = errors \cup {Error("override", Top.bp, n)}
BY Zenon DEF FlattenStep, NextFieldParent, NextParent, InheritField, EndFields, LocalField,
       EndLocals, NextMethodParent, InheritMethod, LocalMethodsLast

LEMMA StutterFrame ==
  ASSUME vars' = vars
  PROVE  /\ UNCHANGED <<program, scope, state, resolved, flatFields, flatMethods, offset,
                        size, typed, errors, stack, cursor, pc, parent, rest, place>>
         /\ Decls' = Decls /\ Blueprints' = Blueprints
BY DEF vars, Decls, Blueprints

-----------------------------------------------------------------------------
(* A method of the blueprint's own replaces every other.                   *)

Own(d, s) ==
  \A i \in DOMAIN s :
    s[i].name \in NameSet(Blueprints[d].methods) => s[i].body = <<d, s[i].name>>

LEMMA WithMethodOwn ==
  ASSUME program \in Program, Top.bp \in Decls,
         NEW s \in Seq(Method), Own(Top.bp, s), NEW m \in Method
  PROVE  WithMethod(s, m) \in Seq(Method) /\ Own(Top.bp, WithMethod(s, m))
<1>1. CASE Defined(LocalMethods(Top.bp), m.name)
  BY <1>1 DEF WithMethod
<1>2. CASE ~Defined(LocalMethods(Top.bp), m.name)
  <2>1. m.name \notin NameSet(Blueprints[Top.bp].methods)
    BY <1>2, NamesOfLocals DEF Defined
  <2> DEFINE t == Append(s, m)
  <2>2. WithMethod(s, m) = t
    BY <1>2 DEF WithMethod
  <2>3. /\ t \in Seq(Method)
        /\ DOMAIN t = 1 .. Len(s) + 1
        /\ \A i \in 1 .. Len(s) : t[i] = s[i]
        /\ t[Len(s) + 1] = m
        /\ DOMAIN s = 1 .. Len(s) /\ Len(s) \in Nat
    BY AppendProperties
  <2> HIDE DEF t
  <2>4. \A i \in DOMAIN t : i \in DOMAIN s \/ i = Len(s) + 1
    BY <2>3
  <2>5. Own(Top.bp, t)
    BY <2>1, <2>3, <2>4 DEF Own
  <2> QED BY <2>2, <2>3, <2>5
<1> QED BY <1>1, <1>2

LEMMA LocalsOwn ==
  ASSUME program \in Program, NEW d \in Decls, NEW s \in Seq(Method), Own(d, s)
  PROVE  Own(d, s \o LocalMethods(d))
<1> DEFINE l == LocalMethods(d)
           u == s \o l
<1>1. l \in Seq(Method)
  BY LocalTypes
<1>2. \A i \in DOMAIN l : l[i].body = <<d, l[i].name>>
  BY DEF LocalMethods
<1> HIDE DEF l
<1>3. /\ Len(s) \in Nat /\ DOMAIN s = 1 .. Len(s)
      /\ Len(l) \in Nat /\ DOMAIN l = 1 .. Len(l)
      /\ DOMAIN u = 1 .. Len(s) + Len(l)
      /\ \A i \in DOMAIN s : u[i] = s[i]
      /\ \A i \in DOMAIN l : u[Len(s) + i] = l[i]
  BY <1>1, ConcatProperties
<1> HIDE DEF u
<1>4. SUFFICES ASSUME NEW i \in DOMAIN u, u[i].name \in NameSet(Blueprints[d].methods)
               PROVE  u[i].body = <<d, u[i].name>>
  BY DEF u, l, Own
<1>5. CASE i \in DOMAIN s
  BY <1>3, <1>4, <1>5 DEF Own
<1>6. CASE i \notin DOMAIN s
  <2>1. i - Len(s) \in DOMAIN l /\ u[i] = l[i - Len(s)]
    BY <1>3, <1>6
  <2> QED BY <1>2, <2>1
<1> QED BY <1>5, <1>6

LEMMA StepOwn ==
  ASSUME IInv, OwnBodies, [Next]_vars
  PROVE  OwnBodies'
<1> USE DEF OwnBodies
<1>1. program \in Program /\ flatMethods \in [Decls -> Seq(Method)]
  BY DEF IInv, TypeOK
<1>2. /\ Decls' = Decls /\ Blueprints' = Blueprints
      /\ FlattenStep \/ flatMethods' = flatMethods
  BY NextCases, DeclareFrame, InheritFrame, LayoutFrame, StutterFrame, FlattenFrame DEF IInv
<1>3. \A d \in Decls : Own(d, flatMethods[d])
  BY DEF Own
<1>4. ASSUME NEW d \in Decls, NEW t \in Seq(Method), Own(d, t),
             flatMethods' = [flatMethods EXCEPT ![d] = t]
      PROVE  OwnBodies'
  <2>1. \A e \in Decls : Own(e, flatMethods'[e])
    BY <1>1, <1>3, <1>4
  <2> QED BY <1>2, <2>1 DEF Own, NameSet
<1>5. CASE FlattenStep
  <2>1. stack # <<>>
    BY <1>5, FlattenErrors DEF IInv, Control
  <2>2. Top.bp \in Decls /\ Parents \in Seq(Parent)
    BY <2>1, TopFacts DEF IInv
  <2>3. Own(Top.bp, flatMethods[Top.bp]) /\ flatMethods[Top.bp] \in Seq(Method)
    BY <1>1, <1>3, <2>2
  <2>4. CASE InheritMethod
    <3> DEFINE h == Head(rest)
               a == AliasOf(Parents[parent], h.name)
               g == [name |-> a, body |-> h.body]
               s == WithMethod(flatMethods[Top.bp], h)
               t == IF a = NoName THEN s ELSE WithMethod(s, g)
    <3>1. rest \in Seq(Method) /\ rest # <<>> /\ parent \in DOMAIN Parents
      BY <2>4 DEF InheritMethod, IInv, RestOK
    <3>2. h \in Method
      BY <3>1
    <3>3. a # NoName => a \in Names
      BY <2>2, <3>1, AliasIsName
    <3>4. s \in Seq(Method) /\ Own(Top.bp, s)
      BY <1>1, <2>2, <2>3, <3>2, WithMethodOwn
    <3>5. a # NoName => g \in Method
      BY <3>2, <3>3 DEF Method
    <3>6. flatMethods' = [flatMethods EXCEPT ![Top.bp] = t]
      BY <2>4 DEF InheritMethod
    <3> HIDE DEF g, s, a
    <3>7. t \in Seq(Method) /\ Own(Top.bp, t)
      BY <1>1, <2>2, <3>4, <3>5, WithMethodOwn
    <3> HIDE DEF t
    <3> QED BY <1>4, <2>2, <3>6, <3>7
  <2>5. CASE LocalMethodsLast
    <3> DEFINE t == flatMethods[Top.bp] \o LocalMethods(Top.bp)
    <3>1. t \in Seq(Method)
      BY <1>1, <2>2, <2>3, LocalTypes, ConcatProperties
    <3>2. Own(Top.bp, t)
      BY <1>1, <2>2, <2>3, LocalsOwn
    <3>3. flatMethods' = [flatMethods EXCEPT ![Top.bp] = t]
      BY <2>5 DEF LocalMethodsLast
    <3> HIDE DEF t
    <3> QED BY <1>4, <2>2, <3>1, <3>2, <3>3
  <2>6. CASE flatMethods' = flatMethods
    BY <1>2, <2>6 DEF NameSet
  <2>7. FlattenStep => InheritMethod \/ LocalMethodsLast \/ flatMethods' = flatMethods
    BY DEF FlattenStep, NextFieldParent, NextParent, InheritField, LocalField, EndFields,
           EndLocals, NextMethodParent
  <2> QED BY <1>5, <2>4, <2>5, <2>6, <2>7
<1>6. CASE flatMethods' = flatMethods
  BY <1>2, <1>6 DEF NameSet
<1> QED BY <1>2, <1>5, <1>6

-----------------------------------------------------------------------------
(* The global scope.                                                       *)

LEMMA DeclsAreNumbers ==
  ASSUME program \in Program
  PROVE  /\ Len(Blueprints) \in Nat /\ Decls = 1 .. Len(Blueprints)
         /\ \A d \in Decls : /\ d \in Nat /\ d > 0
                             /\ ParentsOf(d) \subseteq Nat \ {0}
<1>1. Blueprints \in Seq(Blueprint)
  BY DEF Program, Blueprints
<1>2. Len(Blueprints) \in Nat /\ Decls = 1 .. Len(Blueprints)
  BY <1>1 DEF Decls
<1>3. \A d \in Decls : Blueprints[d].parents \in Seq(Parent)
  BY DeclParts
<1>4. \A d \in Decls : ParentsOf(d) \subseteq Nat \ {0}
  BY <1>3 DEF ParentsOf
<1> QED BY <1>2, <1>4

(* A name denotes the blueprints that are found under it.                  *)
LEMMA DenotedIsFound ==
  ASSUME TypeOK, ScopeOK, pc \notin {"declare", "done"}, NEW d \in Decls, NEW p \in ParentsOf(d)
  PROVE  LET found == Symbols(Blueprints[d].parents[p].name, "BLUEPRINT")
         IN /\ found = {} => Denoted(d, p) = {}
            /\ \A i \in found : scope[i].decl \in Decls /\ Denoted(d, p) = {scope[i].decl}
<1> DEFINE n == Blueprints[d].parents[p].name
           found == Symbols(n, "BLUEPRINT")
<1>1. \A e \in Decls : Found(e)
  BY DEF ScopeOK
<1>2. /\ \A i, j \in DOMAIN scope : scope[i].name = scope[j].name => i = j
      /\ \A i \in DOMAIN scope :
           scope[i].kind = "BLUEPRINT" => scope[i].name = Blueprints[scope[i].decl].name
  BY DEF ScopeOK
<1>3. \A i \in DOMAIN scope : scope[i].kind = "BLUEPRINT" => scope[i].decl \in Decls
  BY DEF TypeOK
<1>4. ASSUME NEW e \in Denoted(d, p)
      PROVE  \E i \in found : scope[i].decl = e
  <2>1. e \in Decls /\ Blueprints[e].name = n
    BY DEF Denoted
  <2>2. PICK i \in DOMAIN scope : scope[i].kind = "BLUEPRINT" /\ scope[i].decl = e
    BY <1>1, <2>1 DEF Found
  <2>3. i \in found
    BY <1>2, <2>1, <2>2 DEF Symbols
  <2> QED BY <2>2, <2>3
<1>5. ASSUME NEW i \in found
      PROVE  /\ scope[i].decl \in Decls /\ scope[i].decl \in Denoted(d, p)
             /\ \A j \in found : i = j
  BY <1>2, <1>3 DEF Symbols, Denoted
<1> QED BY <1>4, <1>5

LEMMA InsertFacts ==
  ASSUME TypeOK, NEW sym \in Symbol, NEW E, Insert(sym, E),
         \A e \in E : e.kind = "repeated",
         \A i, j \in DOMAIN scope : scope[i].name = scope[j].name => i = j
  PROVE  /\ \A i, j \in DOMAIN scope' : scope'[i].name = scope'[j].name => i = j
         /\ DOMAIN scope \subseteq DOMAIN scope'
         /\ \A i \in DOMAIN scope : scope'[i] = scope[i]
         /\ \A i \in DOMAIN scope' : i \in DOMAIN scope \/ scope'[i] = sym
         /\ errors' # {} \/ \E i \in DOMAIN scope' : scope'[i] = sym
         /\ errors \subseteq errors'
         /\ NoCircle => NoCircle'
<1>1. scope \in Seq(Symbol)
  BY DEF TypeOK
<1>2. Error("duplicate", sym.decl, sym.name).kind = "duplicate"
  BY DEF Error
<1>3. CASE Defined(scope, sym.name)
  <2>1. scope' = scope /\ errors' = errors \cup {Error("duplicate", sym.decl, sym.name)}
    BY <1>3 DEF Insert
  <2>2. NoCircle => NoCircle'
    BY <1>2, <2>1 DEF NoCircle
  <2> QED BY <2>1, <2>2
<1>4. CASE ~Defined(scope, sym.name)
  <2> DEFINE t == Append(scope, sym)
  <2>1. scope' = t /\ errors' = errors \cup E
    BY <1>4 DEF Insert
  <2>2. /\ DOMAIN t = 1 .. Len(scope) + 1
        /\ \A i \in 1 .. Len(scope) : t[i] = scope[i]
        /\ t[Len(scope) + 1] = sym
        /\ DOMAIN scope = 1 .. Len(scope) /\ Len(scope) \in Nat
    BY <1>1, AppendProperties
  <2> HIDE DEF t
  <2>3. \A i \in DOMAIN scope : scope[i].name # sym.name
    BY <1>4 DEF Defined, NameSet
  <2>4. \A i \in DOMAIN t : i \in DOMAIN scope \/ i = Len(scope) + 1
    BY <2>2
  <2>5. NoCircle => NoCircle'
    BY <2>1 DEF NoCircle
  <2>6. \A i, j \in DOMAIN t : t[i].name = t[j].name => i = j
    BY <2>2, <2>3, <2>4
  <2>7. \E i \in DOMAIN t : t[i] = sym
    BY <2>2
  <2>8. \A i \in DOMAIN t : i \in DOMAIN scope \/ t[i] = sym
    BY <2>2, <2>4
  <2>9. DOMAIN scope \subseteq DOMAIN t
    BY <2>2
  <2> QED BY <2>1, <2>2, <2>5, <2>6, <2>7, <2>8, <2>9
<1> QED BY <1>3, <1>4

LEMMA StepScope ==
  ASSUME IInv, ScopeOK, [Next]_vars
  PROVE  ScopeOK'
<1>1. TypeOK /\ program \in Program /\ cursor \in Nat
  BY DEF IInv, TypeOK
<1>2. Decls = 1 .. Len(Blueprints) /\ Len(Blueprints) \in Nat
  BY <1>1, DeclsAreNumbers
<1>3. ASSUME NEW sym \in Symbol, NEW E, Insert(sym, E),
             \A e \in E : e.kind = "repeated",
             pc = "declare", pc' = pc, cursor' = cursor + 1,
             state' = state, Decls' = Decls, Blueprints' = Blueprints,
             sym.kind = "BLUEPRINT" => sym.name = Blueprints[sym.decl].name,
             cursor \in Decls => sym.kind = "BLUEPRINT" /\ sym.decl = cursor
      PROVE  ScopeOK'
  <2>1. /\ \A i, j \in DOMAIN scope' : scope'[i].name = scope'[j].name => i = j
        /\ DOMAIN scope \subseteq DOMAIN scope'
        /\ \A i \in DOMAIN scope : scope'[i] = scope[i]
        /\ \A i \in DOMAIN scope' : i \in DOMAIN scope \/ scope'[i] = sym
        /\ errors' # {} \/ \E i \in DOMAIN scope' : scope'[i] = sym
        /\ errors \subseteq errors'
        /\ NoCircle => NoCircle'
    BY <1>1, <1>3, InsertFacts DEF ScopeOK
  <2>2. Untouched'
    BY <1>3, <2>1 DEF ScopeOK, Untouched
  <2>3. \A i \in DOMAIN scope' :
          scope'[i].kind = "BLUEPRINT" => scope'[i].name = Blueprints'[scope'[i].decl].name
    BY <1>3, <2>1 DEF ScopeOK
  <2>4. ASSUME ~HadError', NEW d \in Decls, d < cursor + 1
        PROVE  Found(d)'
    <3>1. errors' = {}
      BY <2>4 DEF HadError
    <3>2. CASE d < cursor
      <4>1. errors = {}
        BY <2>1, <3>1
      <4>2. Found(d)
        BY <1>3, <3>2, <4>1 DEF ScopeOK, HadError
      <4> QED BY <2>1, <4>2 DEF Found
    <3>3. CASE d = cursor
      <4>1. PICK i \in DOMAIN scope' : scope'[i] = sym
        BY <2>1, <3>1
      <4> QED BY <1>3, <3>3, <4>1 DEF Found
    <3> QED BY <1>1, <1>2, <2>4, <3>2, <3>3
  <2> QED BY <1>3, <2>1, <2>2, <2>3, <2>4 DEF ScopeOK
<1>4. ASSUME NEW k, NEW S, NEW c
      PROVE  \A e \in {Error("repeated", c, n) : n \in S} : e.kind = "repeated"
  BY DEF Error
<1>5. CASE DeclareBlueprint
  <2> DEFINE sym == [name |-> Blueprints[cursor].name, kind |-> "BLUEPRINT", decl |-> cursor]
  <2>1. /\ cursor \in Decls /\ Insert(sym, Invalid(cursor)) /\ pc = "declare"
        /\ pc' = pc /\ cursor' = cursor + 1 /\ state' = state
    BY <1>5 DEF DeclareBlueprint, declareVars
  <2>2. sym \in Symbol
    BY <1>1, <2>1, DeclParts DEF Symbol
  <2>3. sym.kind = "BLUEPRINT" /\ sym.decl = cursor /\ sym.name = Blueprints[sym.decl].name
    OBVIOUS
  <2>4. \A e \in Invalid(cursor) : e.kind = "repeated"
    BY <1>4 DEF Invalid
  <2>5. Decls' = Decls /\ Blueprints' = Blueprints
    BY <1>5, DeclareFrame DEF DeclareStep
  <2> HIDE DEF sym
  <2> QED BY <1>3, <2>1, <2>2, <2>3, <2>4, <2>5
<1>6. CASE DeclareFunc
  <2> DEFINE f == program.funcs[cursor - Len(Blueprints)]
             sym == [name |-> f.name, kind |-> "FUNC", decl |-> cursor]
             E == {Error("repeated", cursor, n) : n \in Repeated(f.params)}
  <2>1. /\ Insert(sym, E) /\ pc = "declare" /\ cursor - Len(Blueprints) \in DOMAIN program.funcs
        /\ pc' = pc /\ cursor' = cursor + 1 /\ state' = state
    BY <1>6 DEF DeclareFunc, declareVars
  <2>2. program.funcs \in Seq(Func)
    BY <1>1 DEF Program
  <2>3. f \in Func /\ cursor \notin Decls
    BY <1>1, <1>2, <2>1, <2>2
  <2>4. f.name \in Names
    BY <2>3 DEF Func
  <2>5. sym \in Symbol
    BY <1>1, <2>4 DEF Symbol
  <2>6. sym.kind # "BLUEPRINT"
    OBVIOUS
  <2>7. \A e \in E : e.kind = "repeated"
    BY <1>4
  <2>8. Decls' = Decls /\ Blueprints' = Blueprints
    BY <1>6, DeclareFrame DEF DeclareStep
  <2> HIDE DEF sym, E
  <2> QED BY <1>3, <2>1, <2>3, <2>5, <2>6, <2>7, <2>8
<1>7. CASE EndDeclare
  <2>1. /\ pc = "declare" /\ cursor > Len(Blueprints) + Len(program.funcs)
        /\ pc' = (IF errors # {} THEN "done" ELSE "inherit")
        /\ scope' = scope /\ errors' = errors /\ state' = state
    BY <1>7 DEF EndDeclare, Phase, HadError, declareVars
  <2>2. Decls' = Decls /\ Blueprints' = Blueprints
    BY <1>7, DeclareFrame DEF DeclareStep
  <2>3. Untouched' /\ \A d \in Decls : Found(d)' <=> Found(d)
    BY <2>1, <2>2 DEF ScopeOK, Untouched, NoCircle, Found
  <2>4. errors = {} => \A d \in Decls : Found(d)
    <3>1. program.funcs \in Seq(Func)
      BY <1>1 DEF Program
    <3>2. \A d \in Decls : d < cursor
      BY <1>1, <1>2, <2>1, <3>1
    <3> QED BY <2>1, <3>2 DEF ScopeOK, HadError
  <2> QED BY <2>1, <2>2, <2>3, <2>4 DEF ScopeOK
<1>8. CASE /\ pc \notin {"declare", "done"} /\ pc' # "declare" /\ scope' = scope
           /\ Decls' = Decls /\ Blueprints' = Blueprints
  BY <1>8 DEF ScopeOK, Found
<1>9. CASE vars' = vars
  <2>1. Untouched' <=> Untouched
    BY <1>9, StutterFrame DEF Untouched, NoCircle
  <2>2. \A d : Found(d)' <=> Found(d)
    BY <1>9, StutterFrame DEF Found
  <2> QED BY <1>9, <2>1, <2>2, StutterFrame DEF ScopeOK, HadError
<1>10. InheritStep => /\ pc \notin {"declare", "done"} /\ pc' # "declare" /\ scope' = scope
                      /\ Decls' = Decls /\ Blueprints' = Blueprints
  <2>1. InheritStep => pc' # "declare"
    BY DEF InheritStep, Resolve, NotABlueprint, VisitParent, ParentsResolved, EndInherit, Phase
  <2> QED BY <2>1, InheritFrame
<1>11. FlattenStep => /\ pc \notin {"declare", "done"} /\ pc' # "declare" /\ scope' = scope
                      /\ Decls' = Decls /\ Blueprints' = Blueprints
  <2>1. FlattenStep => pc' # "declare"
    BY FlattenErrors DEF FlattenStep, NextFieldParent, NextParent, InheritField, EndFields,
       LocalField, EndLocals, NextMethodParent, InheritMethod, LocalMethodsLast, StartLayout
  <2> QED BY <1>1, <2>1, FlattenFrame, FlattenErrors
<1>12. LayoutStep => /\ pc \notin {"declare", "done"} /\ pc' # "declare" /\ scope' = scope
                     /\ Decls' = Decls /\ Blueprints' = Blueprints
  <2>1. LayoutStep => pc' # "declare"
    BY DEF LayoutStep, LayoutField, EndLayout, ResolveTypes, NextLayout, EndOffsets, StartLayout
  <2> QED BY <2>1, LayoutFrame
<1> QED BY <1>5, <1>6, <1>7, <1>8, <1>9, <1>10, <1>11, <1>12, NextCases DEF DeclareStep

-----------------------------------------------------------------------------
(* Parents and calls.                                                      *)

LEMMA AdvancedFacts ==
  ASSUME TypeOK, stack # <<>>
  PROVE  /\ Advanced \in Frames /\ Len(Advanced) = Len(stack)
         /\ DOMAIN Advanced = 1 .. Len(stack) /\ DOMAIN stack = 1 .. Len(stack)
         /\ Len(stack) \in Nat /\ Len(stack) > 0
         /\ stack[Len(stack)] = Top
         /\ \A i \in 1 .. Len(stack) :
              /\ Advanced[i].bp = stack[i].bp
              /\ Advanced[i].next = IF i = Len(stack) THEN Top.next + 1 ELSE stack[i].next
              /\ stack[i] \in FrameSet /\ stack[i].next \in Nat /\ stack[i].bp \in Decls
<1>1. stack \in Seq(FrameSet)
  BY DEF TypeOK, FrameSet
<1>2. Len(stack) \in Nat /\ Len(stack) > 0 /\ DOMAIN stack = 1 .. Len(stack)
  BY <1>1
<1>3. \A i \in 1 .. Len(stack) :
        stack[i] \in FrameSet /\ stack[i].next \in Nat /\ stack[i].bp \in Decls
  <2>1. \A i \in 1 .. Len(stack) : stack[i] \in FrameSet
    BY <1>1, <1>2
  <2> QED BY <2>1 DEF FrameSet
<1>4. Top \in FrameSet /\ stack[Len(stack)] = Top
  BY <1>2, <1>3 DEF Top
<1> DEFINE t == [Top EXCEPT !.next = @ + 1]
<1>5. t \in FrameSet /\ t.bp = Top.bp /\ t.next = Top.next + 1
  BY <1>4 DEF FrameSet
<1>6. Advanced = [stack EXCEPT ![Len(stack)] = t]
  BY <1>2 DEF Advanced, Top
<1> HIDE DEF t
<1>7. /\ Advanced \in Frames /\ Len(Advanced) = Len(stack)
      /\ \A j \in 1 .. Len(stack) : Advanced[j] = IF j = Len(stack) THEN t ELSE stack[j]
  BY <1>1, <1>2, <1>5, <1>6, ExceptSeq DEF Frames
<1>8. DOMAIN Advanced = 1 .. Len(stack)
  BY <1>7 DEF Frames
<1> QED BY <1>2, <1>3, <1>4, <1>5, <1>7, <1>8

(* The three ways a call can go. *)
LEMMA CallWays ==
  ASSUME TypeOK, NEW d \in Decls, NEW frames \in Frames, Call(d, frames)
  PROVE  \/ /\ d \in Resolved
            /\ stack' = frames /\ state' = state /\ errors' = errors
         \/ /\ state[d] = "RESOLVING"
            /\ stack' = frames /\ state' = state
            /\ errors' = errors \cup {Error("circular", d, Blueprints[d].name)}
         \/ /\ state[d] = "UNRESOLVED"
            /\ state' = [state EXCEPT ![d] = "RESOLVING"]
            /\ errors' = errors
            /\ stack' \in Frames
            /\ Len(stack') = Len(frames) + 1
            /\ DOMAIN stack' = 1 .. Len(frames) + 1
            /\ \A i \in 1 .. Len(frames) : stack'[i] = frames[i]
            /\ stack'[Len(frames) + 1].bp = d
            /\ stack'[Len(frames) + 1].next = 1
<1>1. CASE /\ state[d] = "UNRESOLVED" /\ state' = [state EXCEPT ![d] = "RESOLVING"]
           /\ stack' = Append(frames, [bp |-> d, next |-> 1]) /\ errors' = errors
  <2> DEFINE e == [bp |-> d, next |-> 1]
  <2>1. e \in FrameSet
    BY DEF FrameSet
  <2>2. e.bp = d /\ e.next = 1
    OBVIOUS
  <2> HIDE DEF e
  <2>3. /\ Append(frames, e) \in Frames
        /\ Len(Append(frames, e)) = Len(frames) + 1
        /\ DOMAIN Append(frames, e) = 1 .. Len(frames) + 1
        /\ \A i \in 1 .. Len(frames) : Append(frames, e)[i] = frames[i]
        /\ Append(frames, e)[Len(frames) + 1] = e
    BY <2>1, AppendProperties DEF Frames
  <2>4. stack' = Append(frames, e)
    BY <1>1 DEF e
  <2> QED BY <1>1, <2>2, <2>3, <2>4
<1>2. CASE /\ state[d] = "RESOLVED" /\ stack' = frames /\ UNCHANGED <<state, errors>>
  BY <1>2 DEF Resolved
<1>3. CASE /\ state[d] = "RESOLVING" /\ stack' = frames /\ UNCHANGED state
           /\ errors' = errors \cup {Error("circular", d, Blueprints[d].name)}
  BY <1>3
<1> QED BY <1>1, <1>2, <1>3 DEF Call

(* The parent that is looked up next, and what the step does to the stack. *)
Looks == NotABlueprint \/ VisitParent

LEMMA LookFacts ==
  ASSUME IInv, ScopeOK, Looks
  PROVE  /\ stack # <<>> /\ Top.bp \in Decls /\ Top.next \in ParentsOf(Top.bp)
         /\ Top.bp \in DOMAIN resolved /\ Top.next \in DOMAIN resolved[Top.bp]
         /\ \E e \in Decls \cup {0} :
              /\ Denoted(Top.bp, Top.next) = {e} \ {0}
              /\ resolved' = [resolved EXCEPT ![Top.bp][Top.next] = e]
              /\ IF e = 0 THEN /\ stack' = Advanced /\ state' = state
                               /\ NotABlueprint
                          ELSE Call(e, Advanced) /\ VisitParent
<1>1. TypeOK /\ program \in Program
  BY DEF IInv, TypeOK
<1>2. pc = "inherit" /\ stack # <<>> /\ Top.next \in DOMAIN Parents
  BY DEF Looks, NotABlueprint, VisitParent
<1>3. Top.bp \in Decls /\ Top.next \in ParentsOf(Top.bp)
  BY <1>1, <1>2, TopFacts DEF Parents, ParentsOf
<1>4. Top.bp \in DOMAIN resolved /\ Top.next \in DOMAIN resolved[Top.bp]
  BY <1>1, <1>3 DEF TypeOK, ParentsOf
<1> DEFINE found == Symbols(Blueprints[Top.bp].parents[Top.next].name, "BLUEPRINT")
<1>5. /\ found = {} => Denoted(Top.bp, Top.next) = {}
      /\ \A i \in found : scope[i].decl \in Decls /\ Denoted(Top.bp, Top.next) = {scope[i].decl}
  BY <1>1, <1>2, <1>3, DenotedIsFound
<1>6. 0 \notin Decls
  BY <1>1, DeclsAreNumbers
<1>7. CASE NotABlueprint
  <2>1. /\ found = {} /\ resolved' = [resolved EXCEPT ![Top.bp][Top.next] = 0]
        /\ stack' = Advanced /\ state' = state
    BY <1>7 DEF NotABlueprint, Parents
  <2>2. Denoted(Top.bp, Top.next) = {0} \ {0}
    BY <1>5, <2>1
  <2> QED BY <1>2, <1>3, <1>4, <1>7, <2>1, <2>2
<1>8. CASE VisitParent
  <2>1. PICK i \in found :
          /\ resolved' = [resolved EXCEPT ![Top.bp][Top.next] = scope[i].decl]
          /\ Call(scope[i].decl, Advanced)
    BY <1>8 DEF VisitParent, Parents
  <2>2. scope[i].decl \in Decls /\ scope[i].decl # 0
    BY <1>5, <1>6, <2>1
  <2>3. Denoted(Top.bp, Top.next) = {scope[i].decl} \ {0}
    BY <1>5, <2>1, <2>2
  <2> QED BY <1>2, <1>3, <1>4, <1>8, <2>1, <2>2, <2>3
<1> QED BY <1>7, <1>8 DEF Looks

(* What a step that looks up a parent does to the calls.                   *)
LEMMA LookStack ==
  ASSUME IInv, ScopeOK, Looks
  PROVE  /\ stack' \in Frames
         /\ Len(stack') \in {Len(stack), Len(stack) + 1} /\ DOMAIN stack' = 1 .. Len(stack')
         /\ \A i \in 1 .. Len(stack) :
              /\ stack'[i].bp = stack[i].bp
              /\ stack'[i].next = IF i = Len(stack) THEN Top.next + 1 ELSE stack[i].next
         /\ Len(stack') # Len(stack) =>
              /\ stack'[Len(stack) + 1].next = 1
              /\ stack'[Len(stack) + 1].bp \in Denoted(Top.bp, Top.next)
              /\ state[stack'[Len(stack) + 1].bp] = "UNRESOLVED"
         /\ \A d \in Decls : state'[d] = "RESOLVED" <=> state[d] = "RESOLVED"
<1>1. TypeOK /\ state \in [Decls -> {"UNRESOLVED", "RESOLVING", "RESOLVED"}]
  BY DEF IInv, TypeOK
<1>2. stack # <<>>
  BY LookFacts
<1>3. PICK e \in Decls \cup {0} :
        /\ Denoted(Top.bp, Top.next) = {e} \ {0}
        /\ IF e = 0 THEN stack' = Advanced /\ state' = state ELSE Call(e, Advanced)
  BY LookFacts
<1>4. /\ Advanced \in Frames /\ Len(Advanced) = Len(stack)
      /\ DOMAIN Advanced = 1 .. Len(stack)
      /\ Len(stack) \in Nat /\ Len(stack) > 0
      /\ \A i \in 1 .. Len(stack) :
           /\ Advanced[i].bp = stack[i].bp
           /\ Advanced[i].next = IF i = Len(stack) THEN Top.next + 1 ELSE stack[i].next
  BY <1>1, <1>2, AdvancedFacts
<1>5. CASE stack' = Advanced /\ state' = state
  BY <1>4, <1>5
<1>6. CASE /\ e # 0
           /\ state[e] = "UNRESOLVED"
           /\ state' = [state EXCEPT ![e] = "RESOLVING"]
           /\ stack' \in Frames
           /\ Len(stack') = Len(Advanced) + 1
           /\ DOMAIN stack' = 1 .. Len(Advanced) + 1
           /\ \A i \in 1 .. Len(Advanced) : stack'[i] = Advanced[i]
           /\ stack'[Len(Advanced) + 1].bp = e
           /\ stack'[Len(Advanced) + 1].next = 1
  <2>1. \A d \in Decls : state'[d] = "RESOLVED" <=> state[d] = "RESOLVED"
    BY <1>1, <1>6
  <2>2. e \in Denoted(Top.bp, Top.next)
    BY <1>3, <1>6
  <2>3. /\ Len(stack') = Len(stack) + 1 /\ DOMAIN stack' = 1 .. Len(stack')
        /\ \A i \in 1 .. Len(stack) : stack'[i] = Advanced[i]
        /\ stack'[Len(stack) + 1].bp = e /\ stack'[Len(stack) + 1].next = 1
    BY <1>4, <1>6
  <2> QED BY <1>4, <1>6, <2>1, <2>2, <2>3
<1>7. CASE e # 0
  <2>1. e \in Decls
    BY <1>7
  <2> QED BY <1>1, <1>3, <1>4, <1>5, <1>6, <1>7, <2>1, CallWays
<1> QED BY <1>3, <1>5, <1>7

(* What the other steps do to the calls. *)
LEMMA OtherStack ==
  ASSUME IInv, [Next]_vars, ~Looks
  PROVE  /\ resolved' = resolved
         /\ Decls' = Decls /\ Blueprints' = Blueprints
         /\ \/ /\ Resolve /\ stack = <<>>
               /\ Len(stack') \in {0, 1} /\ DOMAIN stack' = 1 .. Len(stack')
               /\ Len(stack') = 1 => stack'[1].next = 1
               /\ \A d \in Decls : state'[d] = "RESOLVED" <=> state[d] = "RESOLVED"
            \/ ParentsResolved /\ stack' = stack
            \/ /\ EndLayout /\ state' = state
               /\ Len(stack') = Len(stack) - 1 /\ DOMAIN stack' = 1 .. Len(stack')
               /\ \A i \in 1 .. Len(stack') : stack'[i] = stack[i]
            \/ stack' = stack /\ state' = state
<1>1. TypeOK /\ state \in [Decls -> {"UNRESOLVED", "RESOLVING", "RESOLVED"}]
      /\ stack \in Frames /\ Len(stack) \in Nat /\ (stack = <<>> => Len(stack) = 0)
  BY DEF IInv, TypeOK, Frames, FrameSet
<1>2. Decls' = Decls /\ Blueprints' = Blueprints
  BY NextCases, DeclareFrame, InheritFrame, LayoutFrame, StutterFrame, FlattenFrame, <1>1
<1>3. resolved' = resolved
  BY NextCases, DeclareFrame, LayoutFrame, StutterFrame, FlattenFrame, <1>1
     DEF InheritStep, Looks, Resolve, ParentsResolved, EndInherit, shapeVars
<1>4. CASE Resolve
  <2>1. stack = <<>> /\ cursor \in Decls /\ Call(cursor, stack)
    BY <1>4 DEF Resolve
  <2>2. \A d \in Decls : state'[d] = "RESOLVED" <=> state[d] = "RESOLVED"
    BY <1>1, <2>1, CallWays
  <2>3. /\ Len(stack') \in {0, 1} /\ DOMAIN stack' = 1 .. Len(stack')
        /\ Len(stack') = 1 => stack'[1].next = 1
    <3>1. CASE stack' = stack
      BY <1>1, <2>1, <3>1
    <3>2. CASE /\ Len(stack') = Len(stack) + 1
               /\ DOMAIN stack' = 1 .. Len(stack) + 1
               /\ stack'[Len(stack) + 1].next = 1
      BY <1>1, <2>1, <3>2
    <3> QED BY <1>1, <2>1, <3>1, <3>2, CallWays
  <2> QED BY <1>2, <1>3, <1>4, <2>1, <2>2, <2>3
<1>5. CASE EndLayout
  <2>1. state' = state
    BY <1>5 DEF EndLayout
  <2>2. CASE stack = <<>>
    <3>1. stack' = stack
      BY <1>5, <2>2 DEF EndLayout
    <3> QED BY <1>2, <1>3, <2>1, <3>1
  <2>3. CASE stack # <<>>
    <3>1. stack' = SubSeq(stack, 1, Len(stack) - 1)
      BY <1>5, <2>3 DEF EndLayout
    <3>2. Len(stack) > 0 /\ \A i \in 1 .. Len(stack) - 1 : stack[i] \in FrameSet
      BY <1>1, <2>3 DEF Frames
    <3> DEFINE n == Len(stack) - 1
               u == SubSeq(stack, 1, n)
    <3>3. n \in Nat /\ \A i \in 1 .. n : stack[i] \in FrameSet
      BY <1>1, <3>2
    <3> HIDE DEF n
    <3>4. /\ u \in Seq(FrameSet)
          /\ Len(u) = IF 1 <= n THEN n - 1 + 1 ELSE 0
          /\ \A i \in 1 .. n - 1 + 1 : u[i] = stack[1 + i - 1]
      BY <3>3, SubSeqProperties
    <3> HIDE DEF u
    <3>5. Len(u) = n
      BY <3>3, <3>4
    <3>6. DOMAIN u = 1 .. n /\ \A i \in 1 .. n : u[i] = stack[i]
      BY <3>3, <3>4, <3>5
    <3> QED BY <1>2, <1>3, <1>5, <2>1, <3>1, <3>5, <3>6 DEF n, u
  <2> QED BY <2>2, <2>3
<1>6. CASE ParentsResolved
  BY <1>2, <1>3, <1>6 DEF ParentsResolved
<1>7. CASE stack' = stack /\ state' = state
  BY <1>2, <1>3, <1>7
<1>8. Resolve \/ EndLayout \/ ParentsResolved \/ (stack' = stack /\ state' = state)
  <2>1. DeclareStep \/ FlattenStep \/ vars' = vars => (stack' = stack /\ state' = state)
    BY <1>1, DeclareFrame, FlattenFrame, StutterFrame
  <2>2. LayoutStep => EndLayout \/ (stack' = stack /\ state' = state)
    BY DEF LayoutStep, LayoutField, ResolveTypes, NextLayout, EndOffsets
  <2>3. InheritStep => Resolve \/ ParentsResolved \/ (stack' = stack /\ state' = state)
    BY DEF InheritStep, Looks, EndInherit
  <2> QED BY <2>1, <2>2, <2>3, NextCases
<1> QED BY <1>4, <1>5, <1>6, <1>7, <1>8

LEMMA DenotedStays ==
  ASSUME Decls' = Decls, Blueprints' = Blueprints
  PROVE  /\ \A d, p : Denoted(d, p)' = Denoted(d, p)
         /\ \A d : ParentsOf(d)' = ParentsOf(d)
         /\ Cyclic' <=> Cyclic
<1>1. (\A d, p : Denoted(d, p)' = Denoted(d, p)) /\ \A d : ParentsOf(d)' = ParentsOf(d)
  BY DEF Denoted, ParentsOf
<1>2. Cyclic' <=> Cyclic
  BY <1>1 DEF Cyclic, Denoted
<1> QED BY <1>1, <1>2

LEMMA StepLinks ==
  ASSUME IInv, ScopeOK, LinksRight, [Next]_vars
  PROVE  LinksRight'
<1>1. TypeOK /\ program \in Program
  BY DEF IInv, TypeOK
<1>2. Decls' = Decls /\ Blueprints' = Blueprints
  BY ProgramStays DEF vars, Decls, Blueprints
<1>3. (\A d, p : Denoted(d, p)' = Denoted(d, p)) /\ \A d : ParentsOf(d)' = ParentsOf(d)
  BY <1>2, DenotedStays
<1>4. SUFFICES ASSUME NEW d \in Decls, NEW p \in ParentsOf(d), Visited(d, p)'
               PROVE  Denoted(d, p) = {resolved'[d][p]} \ {0}
  BY <1>2, <1>3 DEF LinksRight
<1>5. p \in Nat /\ p > 0
  BY <1>1, DeclsAreNumbers
<1>6. stack \in Frames /\ Len(stack) \in Nat /\ DOMAIN stack = 1 .. Len(stack)
  BY <1>1 DEF TypeOK, Frames, FrameSet
<1>7. CASE Looks
  <2>1. /\ stack # <<>> /\ Top.bp \in DOMAIN resolved /\ Top.next \in DOMAIN resolved[Top.bp]
        /\ Top.next \in ParentsOf(Top.bp) /\ Top.bp \in Decls
    BY <1>7, LookFacts
  <2>2. PICK e \in Decls \cup {0} :
          /\ Denoted(Top.bp, Top.next) = {e} \ {0}
          /\ resolved' = [resolved EXCEPT ![Top.bp][Top.next] = e]
    BY <1>7, LookFacts
  <2>3. CASE d = Top.bp /\ p = Top.next
    BY <2>1, <2>2, <2>3
  <2>4. CASE ~(d = Top.bp /\ p = Top.next)
    <3>1. resolved'[d][p] = resolved[d][p]
      BY <2>1, <2>2, <2>4
    <3>2. Top.next \in Nat /\ Top = stack[Len(stack)]
      BY <1>1, <2>1, DeclsAreNumbers DEF Top
    <3>3. /\ Len(stack') \in {Len(stack), Len(stack) + 1} /\ DOMAIN stack' = 1 .. Len(stack')
          /\ \A i \in 1 .. Len(stack) :
               /\ stack'[i].bp = stack[i].bp
               /\ stack'[i].next = IF i = Len(stack) THEN Top.next + 1 ELSE stack[i].next
          /\ Len(stack') # Len(stack) => stack'[Len(stack) + 1].next = 1
          /\ state'[d] = "RESOLVED" <=> state[d] = "RESOLVED"
      BY <1>7, LookStack
    <3>4. CASE state'[d] = "RESOLVED"
      BY <3>1, <3>3, <3>4 DEF LinksRight, Visited
    <3>5. CASE state'[d] # "RESOLVED"
      <4>1. PICK i \in DOMAIN stack' : stack'[i].bp = d /\ p < stack'[i].next
        BY <1>4, <3>5 DEF Visited
      <4> DEFINE n == Len(stack)
                 m == Len(stack')
      <4>5. m = n \/ m = n + 1
        BY <3>3
      <4>6. n \in Nat /\ i \in 1 .. m
        BY <1>6, <3>3, <4>1
      <4>10. m # n => stack'[n + 1].next = 1
        BY <3>3, Zenon
      <4>11. ~(p < 1)
        BY <1>5
      <4>7. m # n => ~(p < stack'[n + 1].next)
        BY <4>10, <4>11, Zenon
      <4> HIDE DEF n, m
      <4>8. i \in 1 .. n
        BY <4>1, <4>5, <4>6, <4>7
      <4>2. i \in 1 .. Len(stack)
        BY <4>8 DEF n
      <4>9. stack'[i].bp = stack[i].bp
            /\ stack'[i].next = IF i = Len(stack) THEN Top.next + 1 ELSE stack[i].next
        BY <3>3, <4>2
      <4>3. stack[i].bp = d /\ p < stack[i].next
        <5>1. CASE i = Len(stack)
          <6>1. stack[i].bp = d /\ p < Top.next + 1 /\ stack[i] = Top
            BY <3>2, <4>1, <4>9, <5>1
          <6>2. p # Top.next
            BY <2>4, <6>1
          <6>3. p < Top.next
            BY <1>5, <3>2, <6>1, <6>2
          <6> QED BY <6>1, <6>3
        <5>2. CASE i # Len(stack)
          BY <4>1, <4>9, <5>2
        <5> QED BY <5>1, <5>2
      <4>4. Visited(d, p)
        BY <1>6, <4>2, <4>3 DEF Visited
      <4> QED BY <3>1, <4>4 DEF LinksRight
    <3> QED BY <3>4, <3>5
  <2> QED BY <2>3, <2>4
<1>8. CASE ~Looks
  <2>1. resolved' = resolved
    BY <1>8, OtherStack
  <2>2. CASE /\ Resolve /\ stack = <<>>
             /\ Len(stack') \in {0, 1} /\ DOMAIN stack' = 1 .. Len(stack')
             /\ Len(stack') = 1 => stack'[1].next = 1
             /\ \A c \in Decls : state'[c] = "RESOLVED" <=> state[c] = "RESOLVED"
    <3>1. \A i \in DOMAIN stack' : ~(p < stack'[i].next)
      BY <1>5, <2>2
    <3>2. Visited(d, p)
      BY <1>4, <2>2, <3>1 DEF Visited
    <3> QED BY <2>1, <3>2 DEF LinksRight
  <2>3. CASE ParentsResolved
    <3>1. /\ stack # <<>> /\ Top.next \notin DOMAIN Parents
          /\ state' = [state EXCEPT ![Top.bp] = "RESOLVED"] /\ stack' = stack
      BY <2>3 DEF ParentsResolved
    <3>2. CASE d = Top.bp
      <4>1. Top.next \in Nat /\ Top.next > 0 /\ Parents \in Seq(Parent) /\ Len(stack) \in DOMAIN stack
        BY <1>1, <3>1, TopFacts
      <4>2. p \in DOMAIN Parents
        BY <3>2 DEF ParentsOf, Parents
      <4>3. p < Top.next
        BY <1>5, <3>1, <4>1, <4>2
      <4>4. Visited(d, p)
        BY <3>2, <4>1, <4>3 DEF Visited, Top
      <4> QED BY <2>1, <4>4 DEF LinksRight
    <3>3. CASE d # Top.bp
      <4>1. state'[d] = state[d]
        BY <3>1, <3>3
      <4> QED BY <1>4, <2>1, <3>1, <4>1 DEF LinksRight, Visited
    <3> QED BY <3>2, <3>3
  <2>4. CASE /\ state' = state
             /\ Len(stack') = Len(stack) - 1 /\ DOMAIN stack' = 1 .. Len(stack')
             /\ \A i \in 1 .. Len(stack') : stack'[i] = stack[i]
    <3>1. \A i \in DOMAIN stack' : i \in DOMAIN stack /\ stack'[i] = stack[i]
      BY <1>6, <2>4
    <3>2. Visited(d, p)
      BY <1>4, <2>4, <3>1 DEF Visited
    <3> QED BY <2>1, <3>2 DEF LinksRight
  <2>5. CASE stack' = stack /\ state' = state
    BY <1>4, <2>1, <2>5 DEF LinksRight, Visited
  <2> QED BY <1>8, <2>2, <2>3, <2>4, <2>5, OtherStack
<1> QED BY <1>7, <1>8

LEMMA StepCalls ==
  ASSUME IInv, ScopeOK, CallsFollowParents, [Next]_vars
  PROVE  CallsFollowParents'
<1>1. TypeOK /\ program \in Program
  BY DEF IInv, TypeOK
<1>2. Decls' = Decls /\ Blueprints' = Blueprints
  BY ProgramStays DEF vars, Decls, Blueprints
<1>3. (\A d, p : Denoted(d, p)' = Denoted(d, p)) /\ \A d : ParentsOf(d)' = ParentsOf(d)
  BY <1>2, DenotedStays
<1>4. stack \in Frames /\ Len(stack) \in Nat /\ DOMAIN stack = 1 .. Len(stack)
  BY <1>1 DEF TypeOK, Frames, FrameSet
<1>5. CASE Looks
  <2>1. stack # <<>> /\ Top.next \in ParentsOf(Top.bp) /\ Top.bp \in Decls
    BY <1>5, LookFacts
  <2>2. Top.next \in Nat /\ Top = stack[Len(stack)] /\ Len(stack) > 0
    BY <1>1, <1>4, <2>1, DeclsAreNumbers DEF Top
  <2>3. /\ Len(stack') \in {Len(stack), Len(stack) + 1} /\ DOMAIN stack' = 1 .. Len(stack')
        /\ \A i \in 1 .. Len(stack) :
             /\ stack'[i].bp = stack[i].bp
             /\ stack'[i].next = IF i = Len(stack) THEN Top.next + 1 ELSE stack[i].next
        /\ Len(stack') # Len(stack) => stack'[Len(stack) + 1].bp \in Denoted(Top.bp, Top.next)
    BY <1>5, LookStack
  <2>4. SUFFICES ASSUME NEW i \in DOMAIN stack', i < Len(stack')
                 PROVE  /\ stack'[i].next - 1 \in ParentsOf(stack'[i].bp)
                        /\ stack'[i + 1].bp \in Denoted(stack'[i].bp, stack'[i].next - 1)
    BY <1>3 DEF CallsFollowParents
  <2>5. CASE i = Len(stack)
    <3>2. i \in 1 .. Len(stack)
      BY <1>4, <2>2, <2>5
    <3>3. stack'[i].next = Top.next + 1 /\ stack'[i].bp = Top.bp
      BY <2>2, <2>3, <2>5, <3>2
    <3>1. stack'[i].next - 1 = Top.next /\ stack'[i].bp = Top.bp
      BY <2>2, <3>3
    <3>4. Len(stack') # Len(stack)
      BY <1>4, <2>4, <2>5
    <3>5. stack'[i + 1].bp \in Denoted(Top.bp, Top.next)
      BY <2>3, <2>5, <3>4
    <3> QED BY <2>1, <3>1, <3>5
  <2>6. CASE i # Len(stack)
    <3> DEFINE n == Len(stack)
               m == Len(stack')
    <3>3. n \in Nat /\ (m = n \/ m = n + 1) /\ i \in 1 .. m /\ i < m /\ i # n
      BY <1>4, <2>3, <2>4, <2>6
    <3> HIDE DEF n, m
    <3>4. i \in 1 .. n /\ i < n /\ i + 1 \in 1 .. n /\ i + 1 # 0
      BY <3>3
    <3>1. i \in 1 .. Len(stack) /\ i < Len(stack) /\ i + 1 \in 1 .. Len(stack)
      BY <3>4 DEF n
    <3>2. stack'[i].next = stack[i].next /\ stack'[i].bp = stack[i].bp
          /\ stack'[i + 1].bp = stack[i + 1].bp
      BY <2>3, <2>6, <3>1
    <3> QED BY <1>4, <3>1, <3>2 DEF CallsFollowParents
  <2> QED BY <2>5, <2>6
<1>6. CASE ~Looks
  <2>1. CASE Len(stack') \in {0, 1} /\ DOMAIN stack' = 1 .. Len(stack')
    <3>1. \A i \in DOMAIN stack' : ~(i < Len(stack'))
      BY <2>1
    <3> QED BY <3>1 DEF CallsFollowParents
  <2>2. CASE stack' = stack
    BY <1>3, <2>2 DEF CallsFollowParents
  <2>3. CASE /\ Len(stack') = Len(stack) - 1 /\ DOMAIN stack' = 1 .. Len(stack')
             /\ \A i \in 1 .. Len(stack') : stack'[i] = stack[i]
    <3>1. \A i \in DOMAIN stack' : i < Len(stack') =>
            i \in DOMAIN stack /\ i < Len(stack) /\ stack'[i] = stack[i] /\ stack'[i + 1] = stack[i + 1]
      BY <1>4, <2>3
    <3> QED BY <1>3, <3>1 DEF CallsFollowParents
  <2> QED BY <1>6, <2>1, <2>2, <2>3, OtherStack
<1> QED BY <1>5, <1>6

-----------------------------------------------------------------------------
(* Cycles.                                                                 *)

(* Only a call for a blueprint in progress reports a cycle. *)
LEMMA CircleFound ==
  ASSUME IInv, ScopeOK, [Next]_vars
  PROVE  /\ errors \subseteq errors'
         /\ NoCircle /\ ~NoCircle' => \/ Resolve /\ state[cursor] = "RESOLVING"
                                     \/ VisitParent
<1>1. TypeOK
  BY DEF IInv
<1>2. CASE DeclareStep
  <2>1. errors \subseteq errors'
    BY <1>2 DEF DeclareStep, DeclareBlueprint, DeclareFunc, EndDeclare, Insert
  <2>2. CASE EndDeclare
    BY <2>1, <2>2 DEF EndDeclare, NoCircle
  <2>3. CASE ~EndDeclare
    <3>1. pc' = "declare"
      BY <1>2, <2>3 DEF DeclareStep, DeclareBlueprint, DeclareFunc
    <3>2. ScopeOK'
      BY StepScope
    <3> QED BY <2>1, <3>1, <3>2 DEF ScopeOK, Untouched
  <2> QED BY <2>2, <2>3
<1>3. CASE Resolve
  <2>1. cursor \in Decls /\ stack \in Frames /\ Call(cursor, stack)
    BY <1>1, <1>3 DEF Resolve, TypeOK, Frames, FrameSet
  <2>2. errors' = errors \/ (/\ state[cursor] = "RESOLVING"
                             /\ errors' = errors \cup {Error("circular", cursor, Blueprints[cursor].name)})
    BY <1>1, <2>1, CallWays
  <2> QED BY <1>3, <2>2 DEF NoCircle
<1>4. CASE VisitParent
  <2>1. PICK i \in Symbols(Parents[Top.next].name, "BLUEPRINT") : Call(scope[i].decl, Advanced)
    BY <1>4 DEF VisitParent
  <2>2. errors \subseteq errors'
    BY <2>1 DEF Call
  <2> QED BY <1>4, <2>2
<1>5. CASE NotABlueprint
  <2>1. errors' = errors \cup {Error("parent", Top.bp, Parents[Top.next].name)}
    BY <1>5 DEF NotABlueprint
  <2>2. Error("parent", Top.bp, Parents[Top.next].name).kind = "parent"
    BY DEF Error
  <2> QED BY <2>1, <2>2 DEF NoCircle
<1>6. CASE ParentsResolved
  <2> DEFINE new == UNION {UnknownAliases(Top.bp, p) : p \in DOMAIN Parents}
  <2>1. errors' = errors \cup new
    BY <1>6 DEF ParentsResolved
  <2>2. \A e \in new : e.kind = "alias"
    <3>1. ASSUME NEW p, NEW e \in UnknownAliases(Top.bp, p) PROVE e.kind = "alias"
      BY <3>1 DEF UnknownAliases, Error
    <3> QED BY <3>1
  <2> HIDE DEF new
  <2> QED BY <2>1, <2>2 DEF NoCircle
<1>7. CASE FlattenStep
  <2>1. errors' = errors \/ \E n : errors' = errors \cup {Error("override", Top.bp, n)}
    BY <1>7, FlattenErrors
  <2>2. \A n : Error("override", Top.bp, n).kind = "override"
    BY DEF Error
  <2> QED BY <2>1, <2>2 DEF NoCircle
<1>8. CASE errors' = errors
  BY <1>8 DEF NoCircle
<1>9. LayoutStep \/ EndInherit \/ vars' = vars => errors' = errors
  BY LayoutFrame, StutterFrame DEF EndInherit
<1> QED BY <1>2, <1>3, <1>4, <1>5, <1>6, <1>7, <1>8, <1>9, NextCases DEF InheritStep

LEMMA NotFlattening == pc = "inherit" => ~Flattening /\ Active = DOMAIN stack
BY DEF Flattening, Active

(* A cycle that is reported is one of calls. *)
LEMMA CircleIsReal ==
  ASSUME IInv, ScopeOK, CallsFollowParents, VisitParent, NoCircle, ~NoCircle'
  PROVE  Cyclic
<1>1. TypeOK /\ program \in Program /\ Bounded /\ pc = "inherit"
  BY BoundedIsRecursionBounded DEF IInv, TypeOK, VisitParent
<1>2. Looks
  BY DEF Looks
<1>3. /\ stack # <<>> /\ Top.bp \in Decls /\ Top.next \in ParentsOf(Top.bp)
      /\ Advanced \in Frames
  BY <1>1, <1>2, LookFacts, AdvancedFacts
<1>4. PICK e \in Decls \cup {0} :
        /\ Denoted(Top.bp, Top.next) = {e} \ {0}
        /\ e # 0 => Call(e, Advanced)
        /\ e = 0 => NotABlueprint
  BY <1>2, LookFacts, Zenon
<1>5. e \in Decls /\ e # 0 /\ Call(e, Advanced)
  <2>1. ~(e = 0)
    <3>1. NotABlueprint => Symbols(Parents[Top.next].name, "BLUEPRINT") = {}
      BY DEF NotABlueprint
    <3>2. Symbols(Parents[Top.next].name, "BLUEPRINT") # {}
      BY DEF VisitParent
    <3> QED BY <1>4, <3>1, <3>2
  <2> QED BY <1>4, <2>1
<1>6. state[e] = "RESOLVING"
  <2>1. state[e] = "RESOLVING" \/ errors' = errors
    BY <1>1, <1>3, <1>5, CallWays
  <2>2. errors' # errors
    BY DEF NoCircle
  <2> QED BY <2>1, <2>2
<1>7. PICK k \in DOMAIN stack : stack[k].bp = e
  BY <1>1, <1>5, <1>6, NotFlattening DEF Bounded
<1>8. /\ Len(stack) \in Nat /\ DOMAIN stack = 1 .. Len(stack) /\ stack[Len(stack)] = Top
      /\ \A i \in 1 .. Len(stack) : stack[i].bp \in Decls
  BY <1>1, <1>3, AdvancedFacts
<1> DEFINE S == {stack[j].bp : j \in k .. Len(stack)}
<1>9. S \in (SUBSET Decls) \ {{}}
  <2>1. k .. Len(stack) \subseteq DOMAIN stack /\ k \in k .. Len(stack)
    BY <1>7, <1>8
  <2>2. S \subseteq Decls
    BY <1>8, <2>1
  <2>3. e \in S
    BY <1>7, <2>1
  <2> HIDE DEF S
  <2> QED BY <2>2, <2>3
<1>10. ASSUME NEW d \in S
       PROVE  \E p \in DOMAIN Blueprints[d].parents : Denoted(d, p) \cap S # {}
  <2>1. PICK j \in k .. Len(stack) : d = stack[j].bp
    OBVIOUS
  <2>2. CASE j = Len(stack)
    <3>1. d = Top.bp
      BY <1>8, <2>1, <2>2
    <3>2. e \in S
      BY <1>7, <1>8
    <3>3. e \in Denoted(Top.bp, Top.next)
      BY <1>4, <1>5
    <3> HIDE DEF S
    <3> QED BY <1>3, <3>1, <3>2, <3>3 DEF ParentsOf
  <2>3. CASE j # Len(stack)
    <3>1. j \in DOMAIN stack /\ j < Len(stack) /\ j + 1 \in k .. Len(stack)
      BY <1>7, <1>8, <2>1, <2>3
    <3>2. /\ stack[j].next - 1 \in ParentsOf(d)
          /\ stack[j + 1].bp \in Denoted(d, stack[j].next - 1)
      BY <2>1, <3>1 DEF CallsFollowParents
    <3>3. stack[j + 1].bp \in S
      BY <3>1
    <3> HIDE DEF S
    <3> QED BY <3>2, <3>3 DEF ParentsOf
  <2> QED BY <2>2, <2>3
<1> HIDE DEF S
<1> QED BY <1>9, <1>10 DEF Cyclic

LEMMA StepCircle ==
  ASSUME IInv, ScopeOK, CallsFollowParents, ~NoCircle => Cyclic, [Next]_vars
  PROVE  ~NoCircle' => Cyclic'
<1>1. Cyclic' <=> Cyclic
  BY ProgramStays, DenotedStays DEF vars, Decls, Blueprints
<1>2. CASE NoCircle /\ ~NoCircle' /\ VisitParent
  BY <1>1, <1>2, CircleIsReal
<1>3. ~(Resolve /\ state[cursor] = "RESOLVING")
  <2>1. Resolve => pc = "inherit" /\ stack = <<>> /\ cursor \in Decls
    BY DEF Resolve
  <2>2. TypeOK /\ Bounded /\ StackShape
    BY BoundedIsRecursionBounded, StackFacts DEF IInv
  <2>3. Resolve => DOMAIN stack = {}
    BY <2>1
  <2> QED BY <2>1, <2>2, <2>3, NotFlattening DEF Bounded
<1>4. CASE NoCircle'
  BY <1>4
<1>5. CASE ~NoCircle
  BY <1>1, <1>5
<1> QED BY <1>2, <1>3, <1>4, <1>5, CircleFound

(* Flattening begins when the parents are resolved, and only there.        *)
LEMMA FlatteningStays ==
  ASSUME IInv, [Next]_vars, ~ParentsResolved
  PROVE  /\ Flattening' => Flattening /\ stack' = stack /\ state' = state /\ Top' = Top
         /\ Flattening /\ ~Flattening' => EndLayout
<1>1. TypeOK /\ Control
  BY DEF IInv
<1>2. CASE DeclareStep
  <2>1. pc = "declare" /\ pc' \in {"declare", "inherit", "done"}
    BY <1>2 DEF DeclareStep, DeclareBlueprint, DeclareFunc, EndDeclare, Phase
  <2> QED BY <2>1 DEF Flattening
<1>3. CASE InheritStep
  <2>1. pc = "inherit" /\ pc' \in {"inherit", "types", "done"}
    BY <1>3 DEF InheritStep, Resolve, NotABlueprint, VisitParent, EndInherit, Phase
  <2> QED BY <2>1 DEF Flattening
<1>4. CASE FlattenStep
  <2>1. pc \in {"fields", "locals", "methods"} /\ UNCHANGED <<stack, state>>
    BY <1>1, <1>4, FlattenErrors, FlattenFrame
  <2>2. stack # <<>>
    BY <1>1, <2>1 DEF Control
  <2>3. pc' \in {"fields", "locals", "methods", "layout"}
    BY <1>4 DEF FlattenStep, NextFieldParent, NextParent, InheritField, EndFields,
       LocalField, EndLocals, NextMethodParent, InheritMethod, LocalMethodsLast, StartLayout
  <2> QED BY <2>1, <2>2, <2>3 DEF Flattening, Top
<1>5. CASE LayoutStep
  <2>1. CASE LayoutField
    BY <2>1 DEF LayoutField, Flattening, Top
  <2>2. CASE EndLayout
    BY <2>2 DEF EndLayout, Flattening
  <2>3. CASE ResolveTypes \/ NextLayout \/ EndOffsets
    <3>1. pc \in {"types", "offsets"} /\ stack' = stack /\ pc' \in {"layout", "offsets", "done"}
      BY <2>3 DEF ResolveTypes, NextLayout, EndOffsets, StartLayout
    <3>2. stack = <<>>
      BY <1>1, <3>1 DEF Control
    <3> QED BY <3>1, <3>2 DEF Flattening
  <2> QED BY <1>5, <2>1, <2>2, <2>3 DEF LayoutStep
<1>6. CASE vars' = vars
  BY <1>6 DEF vars, Flattening, Top
<1> QED BY <1>2, <1>3, <1>4, <1>5, <1>6, NextCases

(* What becomes resolved, and when. *)
LEMMA ResolvedSteps ==
  ASSUME IInv, ScopeOK, [Next]_vars
  PROVE  /\ ~ParentsResolved => Resolved' = Resolved
         /\ ParentsResolved =>
              /\ Top.bp \in Decls /\ Top.bp \notin Resolved
              /\ Resolved' = Resolved \cup {Top.bp}
              /\ stack # <<>> /\ stack' = stack /\ Top' = Top
              /\ ~Flattening /\ Flattening'
              /\ \A p \in ParentsOf(Top.bp) : p < Top.next
<1>1. TypeOK /\ program \in Program /\ state \in [Decls -> {"UNRESOLVED", "RESOLVING", "RESOLVED"}]
  BY DEF IInv, TypeOK
<1>2. Decls' = Decls
  BY ProgramStays DEF vars, Decls, Blueprints
<1>3. CASE ParentsResolved
  <2>1. /\ pc = "inherit" /\ stack # <<>> /\ Top.next \notin DOMAIN Parents
        /\ state' = [state EXCEPT ![Top.bp] = "RESOLVED"] /\ stack' = stack /\ pc' = "fields"
    BY <1>3 DEF ParentsResolved
  <2>2. /\ Top.bp \in Decls /\ Top.next \in Nat /\ Top.next > 0 /\ Parents \in Seq(Parent)
        /\ Len(stack) \in DOMAIN stack
    BY <1>1, <2>1, TopFacts
  <2>3. state[Top.bp] = "RESOLVING"
    <3>1. Bounded
      BY <1>1, BoundedIsRecursionBounded DEF IInv
    <3>2. stack[Len(stack)].bp = Top.bp
      BY DEF Top
    <3> QED BY <2>1, <2>2, <3>1, <3>2, NotFlattening DEF Bounded
  <2>4. \A p \in ParentsOf(Top.bp) : p < Top.next
    <3>1. DOMAIN Parents = 1 .. Len(Parents) /\ Len(Parents) \in Nat
      BY <2>2
    <3> QED BY <2>1, <2>2, <3>1 DEF ParentsOf, Parents
  <2>5. Resolved' = Resolved \cup {Top.bp}
    BY <1>1, <1>2, <2>1, <2>2 DEF Resolved
  <2>6. ~Flattening /\ Flattening' /\ Top' = Top
    BY <2>1 DEF Flattening, Top
  <2>7. Top.bp \notin Resolved
    BY <2>3 DEF Resolved
  <2> QED BY <1>3, <2>1, <2>2, <2>4, <2>5, <2>6, <2>7
<1>4. CASE ~ParentsResolved
  <2>1. \A d \in Decls : state'[d] = "RESOLVED" <=> state[d] = "RESOLVED"
    <3>1. CASE Looks
      BY <3>1, LookStack
    <3>2. CASE state' = state
      BY <3>2
    <3> QED BY <1>4, <3>1, <3>2, OtherStack
  <2> QED BY <1>2, <1>4, <2>1 DEF Resolved
<1> QED BY <1>3, <1>4

(* Parents are finished before their children, as long as no cycle is met. *)
LEMMA StepParents ==
  ASSUME IInv, ScopeOK, ParentsFirst, [Next]_vars, NoCircle'
  PROVE  ParentsFirst'
<1>1. TypeOK /\ program \in Program /\ Control
  BY DEF IInv, TypeOK
<1>2. Decls' = Decls /\ Blueprints' = Blueprints
  BY ProgramStays DEF vars, Decls, Blueprints
<1>3. (\A d, p : Denoted(d, p)' = Denoted(d, p)) /\ \A d : ParentsOf(d)' = ParentsOf(d)
  BY <1>2, DenotedStays
<1>4. stack \in Frames /\ Len(stack) \in Nat /\ DOMAIN stack = 1 .. Len(stack)
      /\ \A i \in DOMAIN stack : stack[i].bp \in Decls
  BY <1>1, StackFacts DEF TypeOK, Frames, FrameSet, StackShape
<1>5. /\ ~ParentsResolved => Resolved' = Resolved
      /\ ParentsResolved =>
           /\ Top.bp \in Decls /\ Top.bp \notin Resolved
           /\ Resolved' = Resolved \cup {Top.bp}
           /\ stack # <<>> /\ stack' = stack /\ Top' = Top
           /\ ~Flattening /\ Flattening'
           /\ \A p \in ParentsOf(Top.bp) : p < Top.next
  BY ResolvedSteps
<1>6. ASSUME ~ParentsResolved, NEW d \in Resolved', NEW p \in ParentsOf(d), NEW e \in Denoted(d, p)
      PROVE  Finished(e)'
  <2>1. Finished(e)
    BY <1>5, <1>6 DEF ParentsFirst
  <2>2. e \in Resolved' /\ (Flattening' => Flattening /\ Top' = Top)
    BY <1>5, <1>6, <2>1, FlatteningStays DEF Finished
  <2> QED BY <2>1, <2>2 DEF Finished
<1>7. CASE Looks
  <2>1. ~ParentsResolved
    BY <1>7 DEF Looks, NotABlueprint, VisitParent, ParentsResolved
  <2>2. /\ stack # <<>> /\ Top.next \in ParentsOf(Top.bp) /\ Top.bp \in Decls
    BY <1>7, LookFacts
  <2>3. PICK e \in Decls \cup {0} :
          /\ Denoted(Top.bp, Top.next) = {e} \ {0}
          /\ e # 0 => Call(e, Advanced)
    BY <1>7, LookFacts, Zenon
  <2> DEFINE n == Len(stack)
             m == Len(stack')
  <2>4. /\ m = n \/ m = n + 1
        /\ DOMAIN stack' = 1 .. m
        /\ \A i \in 1 .. n :
             /\ stack'[i].bp = stack[i].bp
             /\ stack'[i].next = IF i = n THEN Top.next + 1 ELSE stack[i].next
        /\ m # n => stack'[n + 1].next = 1
    BY <1>7, LookStack
  <2>5. n \in Nat /\ n > 0 /\ stack[n] = Top /\ Top.next \in Nat
    BY <1>1, <2>2, AdvancedFacts, TopFacts
  <2> HIDE DEF n, m
  <2>6. m \in Nat
    BY <2>4, <2>5
  <2>7. SUFFICES ASSUME NEW i \in 1 .. m, NEW p \in ParentsOf(stack'[i].bp),
                        p < stack'[i].next, NEW x \in Denoted(stack'[i].bp, p)
                 PROVE  x \in Resolved' \/ (i < m /\ x = stack'[i + 1].bp)
    BY <1>3, <1>6, <2>1, <2>4 DEF ParentsFirst, m
  <2>8. CASE i = n /\ p = Top.next
    <3>1. stack'[i].bp = Top.bp
      BY <2>4, <2>5, <2>8
    <3>2. x = e /\ e # 0
      BY <2>3, <2>7, <2>8, <3>1
    <3>3. e \in Decls /\ Advanced \in Frames /\ Len(Advanced) = n
      BY <1>1, <2>2, <3>2, AdvancedFacts DEF n
    <3>4. state[e] = "RESOLVING" => ~(errors' = errors \cup {Error("circular", e, Blueprints[e].name)})
      <4>1. Error("circular", e, Blueprints[e].name).kind = "circular"
        BY DEF Error
      <4> QED BY <4>1 DEF NoCircle
    <3>5. \/ e \in Resolved
          \/ Len(stack') = Len(Advanced) + 1 /\ stack'[Len(Advanced) + 1].bp = e
      BY <1>1, <2>3, <3>2, <3>3, <3>4, CallWays
    <3>6. CASE e \in Resolved
      BY <1>5, <2>1, <3>2, <3>6
    <3>7. CASE Len(stack') = Len(Advanced) + 1 /\ stack'[Len(Advanced) + 1].bp = e
      <4>1. m = n + 1 /\ stack'[n + 1].bp = e
        BY <3>3, <3>7 DEF m
      <4> QED BY <2>5, <2>8, <3>2, <4>1
    <3> QED BY <3>5, <3>6, <3>7
  <2>9. CASE i = n /\ p # Top.next
    <3>1. stack'[i].bp = Top.bp /\ stack'[i].next = Top.next + 1
      BY <2>4, <2>5, <2>9
    <3>2. p \in ParentsOf(Top.bp) /\ p \in Nat
      BY <1>1, <2>2, <2>7, <3>1, DeclsAreNumbers
    <3>3. p < Top.next
      BY <2>5, <2>7, <2>9, <3>1, <3>2
    <3>4. n \in DOMAIN stack /\ ~(n < n) /\ n = Len(stack)
      BY <1>4, <2>5 DEF n
    <3>5. x \in Denoted(stack[n].bp, p) /\ p \in ParentsOf(stack[n].bp) /\ p < stack[n].next
      BY <2>5, <2>7, <3>1, <3>2, <3>3
    <3>6. x \in Resolved
      BY <3>4, <3>5 DEF ParentsFirst
    <3> QED BY <1>5, <2>1, <3>6
  <2>10. CASE i < n
    <3>1. /\ i \in 1 .. n /\ i # n /\ i + 1 \in 1 .. n /\ i < m
      BY <2>4, <2>5, <2>6, <2>10
    <3>2. stack'[i].bp = stack[i].bp /\ stack'[i].next = stack[i].next
          /\ stack'[i + 1].bp = stack[i + 1].bp
      BY <2>4, <3>1
    <3>3. x \in Resolved \/ x = stack[i + 1].bp
      BY <1>4, <2>7, <3>1, <3>2 DEF ParentsFirst, n
    <3> QED BY <1>5, <2>1, <3>1, <3>2, <3>3
  <2>11. CASE i = n + 1
    <3>1. stack'[i].next = 1
      BY <2>4, <2>5, <2>11
    <3>2. stack'[i].bp \in Decls
      <4>1. TypeOK'
        BY StepTypes
      <4>2. StackShape'
        BY <4>1, StackFacts, PTL
      <4> QED BY <1>2, <2>4, <4>2 DEF StackShape
    <3>3. p \in Nat /\ p > 0
      BY <1>1, <2>7, <3>2, DeclsAreNumbers
    <3> QED BY <2>7, <3>1, <3>3
  <2>12. i < n \/ i = n \/ i = n + 1
    BY <2>4, <2>5, <2>6, <2>7
  <2> QED BY <2>8, <2>9, <2>10, <2>11, <2>12
<1>8. CASE ParentsResolved
  <2>1. ASSUME NEW e \in Resolved PROVE Finished(e)'
    BY <1>5, <1>8, <2>1 DEF Finished
  <2>2. \A d \in Resolved : \A p \in ParentsOf(d) : \A e \in Denoted(d, p) : e \in Resolved
    BY DEF ParentsFirst, Finished
  <2>3. \A p \in ParentsOf(Top.bp) : \A e \in Denoted(Top.bp, p) : e \in Resolved
    <3>1. Len(stack) \in DOMAIN stack /\ ~(Len(stack) < Len(stack))
      BY <1>1, <1>5, <1>8, TopFacts
    <3> QED BY <1>5, <1>8, <3>1 DEF ParentsFirst, Top
  <2>4. Resolved \subseteq Resolved' /\ stack' = stack
    BY <1>5, <1>8
  <2>5. \A d \in Resolved' : \A p \in ParentsOf(d) : \A e \in Denoted(d, p) : Finished(e)'
    BY <1>5, <1>8, <2>1, <2>2, <2>3
  <2>6. \A i \in DOMAIN stack' : \A p \in ParentsOf(stack'[i].bp) :
          p < stack'[i].next =>
            \A e \in Denoted(stack'[i].bp, p) :
              e \in Resolved' \/ (i < Len(stack') /\ e = stack'[i + 1].bp)
    BY <2>4 DEF ParentsFirst
  <2> QED BY <1>3, <2>5, <2>6 DEF ParentsFirst
<1>9. CASE ~Looks /\ ~ParentsResolved
  <2>1. SUFFICES ASSUME NEW i \in DOMAIN stack', NEW p \in ParentsOf(stack'[i].bp),
                        p < stack'[i].next, NEW x \in Denoted(stack'[i].bp, p)
                 PROVE  x \in Resolved \/ (i < Len(stack') /\ x = stack'[i + 1].bp)
    BY <1>3, <1>5, <1>6, <1>9 DEF ParentsFirst
  <2>2. CASE /\ Len(stack') \in {0, 1} /\ DOMAIN stack' = 1 .. Len(stack')
             /\ Len(stack') = 1 => stack'[1].next = 1
    <3>1. Len(stack') = 1 /\ i = 1
      BY <2>1, <2>2
    <3>2. stack'[i].next = 1
      BY <2>2, <3>1
    <3>3. stack'[i].bp \in Decls
      <4>1. TypeOK'
        BY StepTypes
      <4>2. StackShape'
        BY <4>1, StackFacts, PTL
      <4> QED BY <1>2, <2>1, <4>2 DEF StackShape
    <3>4. p \in Nat /\ p > 0
      BY <1>1, <2>1, <3>3, DeclsAreNumbers
    <3> QED BY <2>1, <3>2, <3>4
  <2>3. CASE stack' = stack
    BY <2>1, <2>3 DEF ParentsFirst
  <2>4. CASE /\ EndLayout
             /\ Len(stack') = Len(stack) - 1 /\ DOMAIN stack' = 1 .. Len(stack')
             /\ \A j \in 1 .. Len(stack') : stack'[j] = stack[j]
    <3>1. /\ i \in 1 .. Len(stack) /\ i < Len(stack) /\ stack'[i] = stack[i]
          /\ Len(stack') = Len(stack) - 1
      BY <1>4, <2>1, <2>4
    <3>2. x \in Resolved \/ x = stack[i + 1].bp
      BY <1>4, <2>1, <3>1 DEF ParentsFirst
    <3>3. CASE i < Len(stack')
      <4>1. i + 1 \in 1 .. Len(stack')
        BY <1>4, <3>1, <3>3
      <4> QED BY <2>4, <3>2, <3>3, <4>1
    <3>4. CASE ~(i < Len(stack'))
      <4>1. i + 1 = Len(stack)
        BY <1>4, <3>1, <3>4
      <4>2. stack # <<>>
        BY <1>4, <3>1
      <4>3. Flattening
        BY <2>4, <4>2 DEF EndLayout, Flattening
      <4>4. Top.bp \in Resolved
        BY <1>1, <1>4, <4>2, <4>3, TopFacts DEF Control, Resolved
      <4> QED BY <3>2, <4>1, <4>4 DEF Top
    <3> QED BY <3>3, <3>4
  <2> QED BY <1>9, <2>2, <2>3, <2>4, OtherStack
<1> QED BY <1>7, <1>8, <1>9

(* No cycle closes while none is met. *)
LEMMA StepSources ==
  ASSUME IInv, ScopeOK, ParentsFirst, [Next]_vars,
         \A S \in SUBSET Resolved : S # {} => Source(S)
  PROVE  \A S \in SUBSET Resolved' : S # {} => Source(S)'
<1>1. Decls' = Decls /\ Blueprints' = Blueprints
  BY ProgramStays DEF vars, Decls, Blueprints
<1>2. \A S : Source(S)' <=> Source(S)
  BY <1>1, DenotedStays DEF Source
<1>3. CASE ~ParentsResolved
  BY <1>2, <1>3, ResolvedSteps
<1>4. CASE ParentsResolved
  <2>1. /\ Top.bp \in Decls /\ Top.bp \notin Resolved
        /\ Resolved' = Resolved \cup {Top.bp} /\ stack # <<>>
        /\ \A p \in ParentsOf(Top.bp) : p < Top.next
    BY <1>4, ResolvedSteps
  <2>2. \A d \in Resolved : \A p \in ParentsOf(d) : Denoted(d, p) \subseteq Resolved
    BY DEF ParentsFirst, Finished
  <2>3. \A p \in ParentsOf(Top.bp) : Denoted(Top.bp, p) \subseteq Resolved
    <3>1. Len(stack) \in DOMAIN stack /\ ~(Len(stack) < Len(stack))
      BY <2>1, TopFacts DEF IInv
    <3> QED BY <2>1, <3>1 DEF ParentsFirst, Top
  <2>4. SUFFICES ASSUME NEW S \in SUBSET Resolved', S # {} PROVE Source(S)
    BY <1>2
  <2>5. CASE Top.bp \notin S
    BY <2>1, <2>4, <2>5
  <2>6. CASE S = {Top.bp}
    BY <2>1, <2>3, <2>6 DEF Source
  <2>7. CASE Top.bp \in S /\ S # {Top.bp}
    <3> DEFINE T == S \ {Top.bp}
    <3>1. T \in SUBSET Resolved /\ T # {}
      BY <2>1, <2>4, <2>7
    <3>2. PICK d \in T : \A p \in ParentsOf(d) : Denoted(d, p) \cap T = {}
      BY <3>1 DEF Source
    <3>3. d \in S /\ d \in Resolved
      BY <3>1, <3>2
    <3>4. \A p \in ParentsOf(d) : Denoted(d, p) \cap S = {}
      BY <2>1, <2>2, <3>2, <3>3
    <3> QED BY <3>3, <3>4 DEF Source
  <2> QED BY <2>5, <2>6, <2>7
<1> QED BY <1>3, <1>4

LEMMA StepCycles ==
  ASSUME IInv, ScopeOK, CallsFollowParents, CyclesKnown, [Next]_vars
  PROVE  CyclesKnown'
<1>1. ~NoCircle' => Cyclic'
  BY StepCircle DEF CyclesKnown
<1>2. NoCircle' => NoCircle
  BY CircleFound DEF NoCircle
<1>3. ASSUME NoCircle'
      PROVE  ParentsFirst' /\ (\A S \in SUBSET Resolved : S # {} => Source(S))'
  BY <1>2, <1>3, StepParents, StepSources DEF CyclesKnown
<1> QED BY <1>1, <1>3 DEF CyclesKnown

-----------------------------------------------------------------------------
(* Sums.                                                                   *)

LEMMA StepEmpty ==
  ASSUME IInv, ScopeOK, EmptyBefore, [Next]_vars
  PROVE  EmptyBefore'
<1>1. TypeOK /\ Control
  BY DEF IInv
<1>2. Decls' = Decls /\ Resolved \subseteq Resolved'
  <2>1. Decls' = Decls
    BY ProgramStays DEF vars, Decls, Blueprints
  <2> QED BY <2>1, ResolvedSteps
<1>3. CASE FlattenStep
  <2>1. /\ pc \in {"fields", "locals", "methods"} /\ stack # <<>> /\ Top' = Top
        /\ Top.bp \in Resolved
    <3>1. pc \in {"fields", "locals", "methods"} /\ Top' = Top
      BY <1>1, <1>3, FlattenErrors, FlattenFrame
    <3>2. stack # <<>> /\ Flattening
      BY <1>1, <3>1 DEF Control, Flattening
    <3>3. Top.bp \in Decls
      BY <1>1, <3>2, TopFacts
    <3> QED BY <1>1, <3>1, <3>2, <3>3 DEF Control, Resolved
  <2>2. /\ \A d \in Decls : d # Top.bp => flatFields'[d] = flatFields[d]
        /\ \A d \in Decls : d # Top.bp => flatMethods'[d] = flatMethods[d]
    <3>1. flatFields' = flatFields \/ \E t : flatFields' = [flatFields EXCEPT ![Top.bp] = t]
      BY <1>3, Zenon DEF FlattenStep, NextFieldParent, NextParent, InheritField, EndFields,
         LocalField, EndLocals, NextMethodParent, InheritMethod, LocalMethodsLast
    <3>2. flatMethods' = flatMethods \/ \E t : flatMethods' = [flatMethods EXCEPT ![Top.bp] = t]
      BY <1>3, Zenon DEF FlattenStep, NextFieldParent, NextParent, InheritField, EndFields,
         LocalField, EndLocals, NextMethodParent, InheritMethod, LocalMethodsLast
    <3> QED BY <1>1, <3>1, <3>2 DEF TypeOK
  <2>3. pc' \in {"fields", "locals"} => pc \in {"fields", "locals"} /\ flatMethods' = flatMethods
    BY <1>3 DEF FlattenStep, NextFieldParent, NextParent, InheritField, EndFields,
         LocalField, EndLocals, NextMethodParent, InheritMethod, LocalMethodsLast, StartLayout
  <2> QED BY <1>2, <2>1, <2>2, <2>3 DEF EmptyBefore
<1>4. CASE ParentsResolved
  <2>1. Top.bp \in Decls /\ Top.bp \notin Resolved /\ Top' = Top
    BY <1>4, ResolvedSteps
  <2>2. flatFields' = flatFields /\ flatMethods' = flatMethods
    BY <1>4, InheritFrame DEF InheritStep
  <2> QED BY <1>2, <2>1, <2>2 DEF EmptyBefore
<1>5. CASE /\ flatFields' = flatFields /\ flatMethods' = flatMethods
           /\ pc' \notin {"fields", "locals"}
  BY <1>2, <1>5 DEF EmptyBefore
<1>6. CASE vars' = vars
  <2>1. Top' = Top
    BY <1>6 DEF vars, Top
  <2> QED BY <1>2, <1>6, <2>1, StutterFrame DEF EmptyBefore
<1>7. DeclareStep \/ (InheritStep /\ ~ParentsResolved) \/ LayoutStep =>
        flatFields' = flatFields /\ flatMethods' = flatMethods
  BY DeclareFrame, InheritFrame, LayoutFrame
<1>8. DeclareStep \/ (InheritStep /\ ~ParentsResolved) \/ LayoutStep =>
        pc' \notin {"fields", "locals"}
  BY DEF DeclareStep, DeclareBlueprint, DeclareFunc, EndDeclare, Phase,
     InheritStep, Resolve, NotABlueprint, VisitParent, EndInherit,
     LayoutStep, LayoutField, EndLayout, ResolveTypes, NextLayout, EndOffsets, StartLayout
<1> QED BY <1>3, <1>4, <1>5, <1>6, <1>7, <1>8, NextCases

LEMMA NoNames == NameSet(<<>>) = {} /\ \A p : Both(p, {}) = {}
<1>1. NameSet(<<>>) = {}
  BY DEF NameSet
<1>2. \A p : Aliased(p, {}) = {}
  BY DEF Aliased
<1> QED BY <1>1, <1>2 DEF Both

(* A parent contributes member by member. *)
LEMMA BothOfMore ==
  ASSUME NEW p, NEW n, NEW M
  PROVE  Both(p, {n} \cup M) = {n} \cup ({AliasOf(p, n)} \ {NoName}) \cup Both(p, M)
<1>1. Aliased(p, {n} \cup M) = ({AliasOf(p, n)} \ {NoName}) \cup Aliased(p, M)
  BY DEF Aliased
<1> QED BY <1>1 DEF Both

LEMMA SumOfAll ==
  ASSUME program \in Program, NEW d \in Decls, NEW flat, NEW own
  PROVE  SumOf(d, flat, own) = own \cup SumUpTo(d, flat, Len(Blueprints[d].parents))
<1>1. /\ Blueprints[d].parents \in Seq(Parent)
      /\ ParentsOf(d) = 1 .. Len(Blueprints[d].parents)
      /\ Len(Blueprints[d].parents) \in Nat
  BY DeclParts DEF ParentsOf
<1>2. {q \in ParentsOf(d) : q <= Len(Blueprints[d].parents)} = ParentsOf(d)
  BY <1>1
<1>3. SumUpTo(d, flat, Len(Blueprints[d].parents)) =
        UNION {Both(Blueprints[d].parents[p], Members(d, flat, p)) : p \in ParentsOf(d)}
  BY <1>2 DEF SumUpTo
<1>4. SumOf(d, flat, own) =
        own \cup UNION {Both(Blueprints[d].parents[p], Members(d, flat, p)) : p \in ParentsOf(d)}
  BY DEF SumOf, Both, Members, ParentsOf
<1> QED BY <1>3, <1>4

LEMMA SumOfNone ==
  ASSUME program \in Program, NEW d \in Decls, NEW flat
  PROVE  SumUpTo(d, flat, 0) = {}
<1>1. {q \in ParentsOf(d) : q <= 0} = {}
  BY DeclsAreNumbers
<1> QED BY <1>1 DEF SumUpTo

LEMMA SumOfNext ==
  ASSUME program \in Program, NEW d \in Decls, NEW flat, NEW k \in Nat, k + 1 \in ParentsOf(d)
  PROVE  SumUpTo(d, flat, k + 1) =
           SumUpTo(d, flat, k) \cup Both(Blueprints[d].parents[k + 1], Members(d, flat, k + 1))
<1>1. {q \in ParentsOf(d) : q <= k + 1} = {q \in ParentsOf(d) : q <= k} \cup {k + 1}
  BY DeclsAreNumbers
<1> QED BY <1>1 DEF SumUpTo

(* A sum depends on the shapes of the parents alone.                       *)
LEMMA SumsStay ==
  ASSUME NEW d, NEW f, NEW g,
         \A p \in ParentsOf(d) : \A e \in Denoted(d, p) : f[e] = g[e]
  PROVE  \A k : SumUpTo(d, f, k) = SumUpTo(d, g, k)
<1>1. \A p \in ParentsOf(d) : Members(d, f, p) = Members(d, g, p)
  BY DEF Members
<1> QED BY <1>1 DEF SumUpTo

(* What the loop over a parent visits is what the parent contributes.      *)
LEMMA InheritedNames ==
  ASSUME TypeOK, LinksRight, stack # <<>>, Top.bp \in Resolved,
         NEW flat, NEW p \in ParentsOf(Top.bp)
  PROVE  NameSet(Inherited(flat, p)) = Members(Top.bp, flat, p)
<1>1. Top.bp \in Decls /\ program \in Program
  BY TopFacts DEF TypeOK
<1>2. Denoted(Top.bp, p) = {resolved[Top.bp][p]} \ {0}
  BY <1>1 DEF LinksRight, Visited, Resolved
<1>3. p \in DOMAIN Parents
  BY DEF Parents, ParentsOf
<1>4. CASE resolved[Top.bp][p] = 0
  <2>1. Inherited(flat, p) = <<>>
    BY <1>4 DEF Inherited
  <2> QED BY <1>2, <1>4, <2>1, NoNames DEF Members
<1>5. CASE resolved[Top.bp][p] # 0
  <2>1. Inherited(flat, p) = flat[resolved[Top.bp][p]]
    BY <1>3, <1>5 DEF Inherited
  <2> QED BY <1>2, <1>5, <2>1 DEF Members
<1> QED BY <1>4, <1>5

LEMMA WithFieldNames ==
  ASSUME NEW s \in Seq(Field), NEW f \in Field
  PROVE  NameSet(WithField(s, f)) = NameSet(s) \cup {f.name}
BY NamesOfAppend DEF WithField, Defined

LEMMA WithInheritedNames ==
  ASSUME NEW s \in Seq(Field), NEW f \in Field, UniqueNames(s), Top.bp \in Nat,
         NEW a, a # NoName => a \in Names
  PROVE  NameSet(WithInherited(s, f, a)) = NameSet(s) \cup {f.name} \cup ({a} \ {NoName})
<1>1. WithField(s, f) \in Seq(Field) /\ NameSet(WithField(s, f)) = NameSet(s) \cup {f.name}
  BY WithFieldFacts, WithFieldNames
<1>2. CASE a = NoName
  BY <1>1, <1>2 DEF WithInherited
<1>3. CASE a # NoName
  <2> DEFINE g == [decl |-> Top.bp, name |-> a, size |-> f.size]
  <2>1. g \in Field /\ g.name = a
    BY <1>3 DEF Field
  <2>2. WithInherited(s, f, a) = WithField(WithField(s, f), g)
    BY <1>3 DEF WithInherited
  <2> HIDE DEF g
  <2>3. NameSet(WithField(WithField(s, f), g)) = NameSet(WithField(s, f)) \cup {g.name}
    BY <1>1, <2>1, WithFieldNames
  <2> QED BY <1>1, <1>3, <2>1, <2>2, <2>3
<1> QED BY <1>2, <1>3

LEMMA WithMethodNames ==
  ASSUME program \in Program, Top.bp \in Decls, NEW s \in Seq(Method), NEW m \in Method
  PROVE  NameSet(WithMethod(s, m)) \cup NameSet(Blueprints[Top.bp].methods)
           = NameSet(s) \cup {m.name} \cup NameSet(Blueprints[Top.bp].methods)
<1>1. Defined(LocalMethods(Top.bp), m.name) <=> m.name \in NameSet(Blueprints[Top.bp].methods)
  BY NamesOfLocals DEF Defined
<1>2. CASE Defined(LocalMethods(Top.bp), m.name)
  BY <1>1, <1>2 DEF WithMethod
<1>3. CASE ~Defined(LocalMethods(Top.bp), m.name)
  BY <1>3, NamesOfAppend DEF WithMethod
<1> QED BY <1>2, <1>3

LEMMA FlattenOthers ==
  ASSUME IInv, ScopeOK, CyclesKnown, NoCircle, FlattenStep
  PROVE  /\ Flattening /\ Flattening' /\ stack # <<>> /\ Top' = Top /\ Parents' = Parents
         /\ Top.bp \in Decls /\ Top.bp \in Nat /\ Top.bp \in Resolved
         /\ Parents \in Seq(Parent) /\ Parents = Blueprints[Top.bp].parents
         /\ \A e \in Decls : e # Top.bp =>
              flatFields'[e] = flatFields[e] /\ flatMethods'[e] = flatMethods[e]
         /\ \A d \in Resolved : \A k :
              /\ SumUpTo(d, flatFields', k) = SumUpTo(d, flatFields, k)
              /\ SumUpTo(d, flatMethods', k) = SumUpTo(d, flatMethods, k)
<1>1. TypeOK /\ Control
  BY DEF IInv
<1>2. pc \in {"fields", "locals", "methods"} /\ Top' = Top /\ Parents' = Parents /\ stack' = stack
  BY <1>1, FlattenErrors, FlattenFrame
<1>3. stack # <<>> /\ Flattening
  BY <1>1, <1>2 DEF Control, Flattening
<1>4. Top.bp \in Decls /\ Top.bp \in Nat /\ Parents \in Seq(Parent)
  BY <1>1, <1>3, TopFacts
<1>5. Top.bp \in Resolved
  BY <1>1, <1>3, <1>4 DEF Control, Resolved
<1>6. pc' \in {"fields", "locals", "methods", "layout"}
  BY DEF FlattenStep, NextFieldParent, NextParent, InheritField, EndFields,
     LocalField, EndLocals, NextMethodParent, InheritMethod, LocalMethodsLast, StartLayout
<1>7. Flattening'
  BY <1>2, <1>3, <1>6 DEF Flattening
<1>8. \A e \in Decls : e # Top.bp =>
        flatFields'[e] = flatFields[e] /\ flatMethods'[e] = flatMethods[e]
  <2>1. flatFields' = flatFields \/ \E t : flatFields' = [flatFields EXCEPT ![Top.bp] = t]
    BY Zenon DEF FlattenStep, NextFieldParent, NextParent, InheritField, EndFields,
       LocalField, EndLocals, NextMethodParent, InheritMethod, LocalMethodsLast
  <2>2. flatMethods' = flatMethods \/ \E t : flatMethods' = [flatMethods EXCEPT ![Top.bp] = t]
    BY Zenon DEF FlattenStep, NextFieldParent, NextParent, InheritField, EndFields,
       LocalField, EndLocals, NextMethodParent, InheritMethod, LocalMethodsLast
  <2> QED BY <1>1, <2>1, <2>2 DEF TypeOK
<1>9. ASSUME NEW d \in Resolved, NEW p \in ParentsOf(d), NEW e \in Denoted(d, p)
      PROVE  flatFields'[e] = flatFields[e] /\ flatMethods'[e] = flatMethods[e]
  <2>1. Finished(e)
    BY <1>9 DEF CyclesKnown, ParentsFirst
  <2>2. e \in Decls /\ e # Top.bp
    BY <1>3, <2>1 DEF Finished, Resolved
  <2> QED BY <1>8, <2>2
<1>10. ASSUME NEW d \in Resolved
       PROVE  \A k : /\ SumUpTo(d, flatFields', k) = SumUpTo(d, flatFields, k)
                     /\ SumUpTo(d, flatMethods', k) = SumUpTo(d, flatMethods, k)
  BY <1>9, SumsStay
<1> QED BY <1>2, <1>3, <1>4, <1>5, <1>7, <1>8, <1>10 DEF Parents

(* The properties of the next state, in terms of this program.             *)
LEMMA NextSums ==
  ASSUME Decls' = Decls, Blueprints' = Blueprints, Top' = Top
  PROVE  /\ \A d : FieldsSummed(d)' <=>
              NameSet(flatFields'[d]) = SumOf(d, flatFields', NameSet(Blueprints[d].fields))
         /\ \A d : MethodsSummed(d)' <=>
              NameSet(flatMethods'[d]) = SumOf(d, flatMethods', NameSet(Blueprints[d].methods))
         /\ FieldsSoFar' <=>
              (pc' = "fields" =>
                 NameSet(flatFields'[Top.bp]) \cup Both(Parents[parent'], NameSet(rest'))
                   = SumUpTo(Top.bp, flatFields', parent'))
         /\ LocalsSoFar' <=>
              (pc' = "locals" =>
                 NameSet(flatFields'[Top.bp]) \cup NameSet(rest')
                   = SumOf(Top.bp, flatFields', NameSet(Blueprints[Top.bp].fields)))
         /\ MethodsSoFar' <=>
              (pc' = "methods" =>
                 NameSet(flatMethods'[Top.bp]) \cup NameSet(Blueprints[Top.bp].methods)
                     \cup Both(Parents[parent'], NameSet(rest'))
                   = NameSet(Blueprints[Top.bp].methods) \cup SumUpTo(Top.bp, flatMethods', parent'))
<1>1. Parents' = Parents
  BY DEF Parents
<1>2. \A d : FieldsSummed(d)' <=>
        NameSet(flatFields'[d]) = SumOf(d, flatFields', NameSet(Blueprints[d].fields))
  BY DEF FieldsSummed, SumOf, Denoted
<1>3. \A d : MethodsSummed(d)' <=>
        NameSet(flatMethods'[d]) = SumOf(d, flatMethods', NameSet(Blueprints[d].methods))
  BY DEF MethodsSummed, SumOf, Denoted
<1>4. SumUpTo(Top.bp, flatFields, parent)' = SumUpTo(Top.bp, flatFields', parent')
  BY DEF SumUpTo, Members, ParentsOf, Denoted
<1>5. SumUpTo(Top.bp, flatMethods, parent)' = SumUpTo(Top.bp, flatMethods', parent')
  BY DEF SumUpTo, Members, ParentsOf, Denoted
<1>6. SumOf(Top.bp, flatFields, NameSet(Blueprints[Top.bp].fields))'
        = SumOf(Top.bp, flatFields', NameSet(Blueprints[Top.bp].fields))
  BY DEF SumOf, Denoted
<1>7. FieldsSoFar' <=>
        (pc' = "fields" =>
           NameSet(flatFields'[Top.bp]) \cup Both(Parents[parent'], NameSet(rest'))
             = SumUpTo(Top.bp, flatFields', parent'))
  BY <1>1, <1>4 DEF FieldsSoFar
<1>8. LocalsSoFar' <=>
        (pc' = "locals" =>
           NameSet(flatFields'[Top.bp]) \cup NameSet(rest')
             = SumOf(Top.bp, flatFields', NameSet(Blueprints[Top.bp].fields)))
  BY <1>6 DEF LocalsSoFar
<1>9. MethodsSoFar' <=>
        (pc' = "methods" =>
           NameSet(flatMethods'[Top.bp]) \cup NameSet(Blueprints[Top.bp].methods)
               \cup Both(Parents[parent'], NameSet(rest'))
             = NameSet(Blueprints[Top.bp].methods) \cup SumUpTo(Top.bp, flatMethods', parent'))
  BY <1>1, <1>5 DEF MethodsSoFar
<1> QED BY <1>2, <1>3, <1>7, <1>8, <1>9

(* The loop over the fields of the parents adds what is left to add.       *)
LEMMA FieldsLoop ==
  ASSUME IInv, ScopeOK, LinksRight, CyclesKnown, NoCircle, FlattenStep, pc = "fields", FieldsSoFar
  PROVE  FieldsSoFar' /\ LocalsSoFar'
<1> DEFINE t == Top.bp
<1>1. /\ stack # <<>> /\ Top' = Top /\ Parents' = Parents
      /\ t \in Decls /\ t \in Nat /\ t \in Resolved
      /\ Parents \in Seq(Parent) /\ Parents = Blueprints[t].parents
      /\ \A k : SumUpTo(t, flatFields', k) = SumUpTo(t, flatFields, k)
  BY FlattenOthers
<1>2. /\ TypeOK /\ program \in Program /\ RestOK /\ parent \in Nat
      /\ flatFields \in [Decls -> Seq(Field)] /\ flatFields[t] \in Seq(Field)
      /\ UniqueNames(flatFields[t])
  BY <1>1 DEF IInv, TypeOK, FieldNamesUnique, UniqueNames
<1>3. Decls' = Decls /\ Blueprints' = Blueprints
  BY <1>2, FlattenFrame
<1>4. NameSet(flatFields[t]) \cup Both(Parents[parent], NameSet(rest)) = SumUpTo(t, flatFields, parent)
  BY DEF FieldsSoFar
<1>5. ParentsOf(t) = 1 .. Len(Parents) /\ Len(Parents) \in Nat /\ parent <= Len(Parents)
  BY <1>1, <1>2 DEF ParentsOf, RestOK
<1>6. CASE NextFieldParent
  <2>1. /\ rest = <<>> /\ parent < Len(Parents) /\ parent' = parent + 1
        /\ rest' = Inherited(flatFields, parent + 1)
        /\ flatFields' = flatFields /\ pc' = "fields"
    BY <1>6 DEF NextFieldParent, NextParent
  <2>2. parent + 1 \in ParentsOf(t)
    BY <1>2, <1>5, <2>1
  <2>3. NameSet(rest') = Members(t, flatFields, parent + 1)
    BY <1>1, <1>2, <2>1, <2>2, InheritedNames
  <2>4. SumUpTo(t, flatFields, parent + 1) =
          SumUpTo(t, flatFields, parent) \cup Both(Parents[parent + 1], Members(t, flatFields, parent + 1))
    BY <1>1, <1>2, <2>2, SumOfNext
  <2>5. NameSet(flatFields[t]) = SumUpTo(t, flatFields, parent)
    BY <1>4, <2>1, NoNames
  <2>6. NameSet(flatFields'[t]) \cup Both(Parents[parent'], NameSet(rest'))
          = SumUpTo(t, flatFields', parent')
    BY <2>1, <2>3, <2>4, <2>5
  <2> QED BY <1>1, <1>3, <2>1, <2>6, NextSums
<1>7. CASE InheritField
  <2> DEFINE h == Head(rest)
             a == AliasOf(Parents[parent], h.name)
             new == WithInherited(flatFields[t], h, a)
  <2>1. /\ rest # <<>> /\ flatFields' = [flatFields EXCEPT ![t] = new]
        /\ rest' = Tail(rest) /\ pc' = "fields" /\ parent' = parent
    BY <1>7 DEF InheritField
  <2>2. rest \in Seq(Field) /\ parent \in DOMAIN Parents
    BY <1>2, <2>1 DEF RestOK
  <2>3. h \in Field /\ Parents[parent] \in Parent
    BY <1>1, <2>1, <2>2
  <2>4. NameSet(rest) = {h.name} \cup NameSet(Tail(rest))
    BY <2>1, <2>2, NamesOfTail
  <2>5. a # NoName => a \in Names
    BY <2>3, AliasIsName
  <2>15. Both(Parents[parent], {h.name} \cup NameSet(Tail(rest))) =
           {h.name} \cup ({a} \ {NoName}) \cup Both(Parents[parent], NameSet(Tail(rest)))
    BY BothOfMore, Zenon
  <2>6. Both(Parents[parent], NameSet(rest)) =
          {h.name} \cup ({a} \ {NoName}) \cup Both(Parents[parent], NameSet(Tail(rest)))
    BY <2>4, <2>15, Zenon
  <2> HIDE DEF a, h
  <2>7. NameSet(new) = NameSet(flatFields[t]) \cup {h.name} \cup ({a} \ {NoName})
    BY <1>1, <1>2, <2>3, <2>5, WithInheritedNames
  <2>8. flatFields'[t] = new
    BY <1>1, <1>2, <2>1
  <2> HIDE DEF new
  <2>9. NameSet(flatFields'[t]) \cup Both(Parents[parent'], NameSet(rest'))
          = SumUpTo(t, flatFields', parent')
    BY <1>1, <1>4, <2>1, <2>6, <2>7, <2>8
  <2> QED BY <1>1, <1>3, <2>1, <2>9, NextSums
<1>8. CASE EndFields
  <2>1. /\ rest = <<>> /\ parent = Len(Parents) /\ rest' = LocalFields(t)
        /\ flatFields' = flatFields /\ pc' = "locals"
    BY <1>8 DEF EndFields
  <2>2. NameSet(flatFields[t]) = SumUpTo(t, flatFields, Len(Parents))
    BY <1>4, <2>1, NoNames
  <2>3. NameSet(rest') = NameSet(Blueprints[t].fields)
    BY <1>1, <1>2, <2>1, NamesOfLocals
  <2>4. SumOf(t, flatFields', NameSet(Blueprints[t].fields))
          = NameSet(Blueprints[t].fields) \cup SumUpTo(t, flatFields', Len(Parents))
    BY <1>1, <1>2, SumOfAll
  <2>5. NameSet(flatFields'[t]) \cup NameSet(rest')
          = SumOf(t, flatFields', NameSet(Blueprints[t].fields))
    BY <2>1, <2>2, <2>3, <2>4
  <2> QED BY <1>1, <1>3, <2>1, <2>5, NextSums
<1> QED BY <1>6, <1>7, <1>8 DEF FlattenStep, LocalField, EndLocals, NextMethodParent,
           InheritMethod, LocalMethodsLast

(* The loop over the fields of its own completes the fields.               *)
LEMMA LocalsLoop ==
  ASSUME IInv, ScopeOK, CyclesKnown, EmptyBefore, NoCircle, FlattenStep, pc = "locals", LocalsSoFar
  PROVE  LocalsSoFar' /\ TopFieldsSummed' /\ MethodsSoFar'
<1> DEFINE t == Top.bp
           own == NameSet(Blueprints[t].fields)
<1>1. /\ stack # <<>> /\ Top' = Top /\ Parents' = Parents
      /\ t \in Decls /\ t \in Nat /\ t \in Resolved
      /\ Parents \in Seq(Parent) /\ Parents = Blueprints[t].parents
      /\ \A k : SumUpTo(t, flatFields', k) = SumUpTo(t, flatFields, k)
  BY FlattenOthers
<1>2. /\ TypeOK /\ program \in Program /\ RestOK
      /\ flatFields \in [Decls -> Seq(Field)] /\ flatFields[t] \in Seq(Field)
  BY <1>1 DEF IInv, TypeOK
<1>3. Decls' = Decls /\ Blueprints' = Blueprints
  BY <1>2, FlattenFrame
<1>4. NameSet(flatFields[t]) \cup NameSet(rest) = SumOf(t, flatFields, own)
  BY DEF LocalsSoFar
<1>5. SumOf(t, flatFields', own) = SumOf(t, flatFields, own)
  <2>1. SumOf(t, flatFields', own) = own \cup SumUpTo(t, flatFields', Len(Parents))
    BY <1>1, <1>2, SumOfAll
  <2>2. SumOf(t, flatFields, own) = own \cup SumUpTo(t, flatFields, Len(Parents))
    BY <1>1, <1>2, SumOfAll
  <2> QED BY <1>1, <2>1, <2>2
<1>6. CASE LocalField
  <2>1. /\ rest # <<>> /\ flatFields' = [flatFields EXCEPT ![t] = WithField(@, Head(rest))]
        /\ rest' = Tail(rest) /\ pc' = "locals"
    BY <1>6 DEF LocalField
  <2>2. rest \in Seq(Field)
    BY <1>2 DEF RestOK
  <2>3. Head(rest) \in Field
    BY <2>1, <2>2
  <2>4. NameSet(rest) = {Head(rest).name} \cup NameSet(Tail(rest))
    BY <2>1, <2>2, NamesOfTail
  <2>5. flatFields'[t] = WithField(flatFields[t], Head(rest))
    BY <1>1, <1>2, <2>1
  <2>6. NameSet(flatFields'[t]) = NameSet(flatFields[t]) \cup {Head(rest).name}
    BY <1>2, <2>3, <2>5, WithFieldNames
  <2>7. NameSet(flatFields'[t]) \cup NameSet(rest') = SumOf(t, flatFields', own)
    BY <1>4, <1>5, <2>1, <2>4, <2>6
  <2>8. LocalsSoFar' /\ MethodsSoFar'
    BY <1>1, <1>3, <2>1, <2>7, NextSums
  <2> QED BY <2>1, <2>8 DEF TopFieldsSummed
<1>7. CASE EndLocals
  <2>1. /\ rest = <<>> /\ pc' = "methods" /\ parent' = 0 /\ rest' = rest
        /\ flatFields' = flatFields /\ flatMethods' = flatMethods
    BY <1>7 DEF EndLocals
  <2>2. NameSet(flatFields'[t]) = SumOf(t, flatFields', own)
    BY <1>4, <2>1, NoNames
  <2>3. FieldsSummed(t)'
    BY <1>1, <1>3, <2>2, NextSums
  <2>4. TopFieldsSummed'
    BY <1>1, <2>3 DEF TopFieldsSummed, FieldsSummed
  <2>5. flatMethods'[t] = <<>>
    BY <2>1 DEF EmptyBefore
  <2>6. SumUpTo(t, flatMethods', parent') = {}
    BY <1>1, <1>2, <2>1, SumOfNone
  <2>7. NameSet(flatMethods'[t]) \cup NameSet(Blueprints[t].methods)
            \cup Both(Parents[parent'], NameSet(rest'))
          = NameSet(Blueprints[t].methods) \cup SumUpTo(t, flatMethods', parent')
    BY <2>1, <2>5, <2>6, NoNames
  <2>8. LocalsSoFar' /\ MethodsSoFar'
    BY <1>1, <1>3, <2>1, <2>7, NextSums
  <2> QED BY <2>4, <2>8
<1> QED BY <1>6, <1>7 DEF FlattenStep, NextFieldParent, InheritField, EndFields,
           NextMethodParent, InheritMethod, LocalMethodsLast

(* The loop over the methods of the parents, and the methods of its own.   *)
LEMMA MethodsLoop ==
  ASSUME IInv, ScopeOK, LinksRight, CyclesKnown, NoCircle, FlattenStep, pc = "methods",
         TopFieldsSummed, MethodsSoFar
  PROVE  TopFieldsSummed' /\ MethodsSoFar' /\ TopMethodsSummed'
<1> DEFINE t == Top.bp
           own == NameSet(Blueprints[t].methods)
<1>1. /\ stack # <<>> /\ Top' = Top /\ Parents' = Parents
      /\ t \in Decls /\ t \in Nat /\ t \in Resolved
      /\ Parents \in Seq(Parent) /\ Parents = Blueprints[t].parents
      /\ \A k : SumUpTo(t, flatMethods', k) = SumUpTo(t, flatMethods, k)
      /\ Flattening
  BY FlattenOthers
<1>2. /\ TypeOK /\ program \in Program /\ RestOK /\ parent \in Nat
      /\ flatMethods \in [Decls -> Seq(Method)] /\ flatMethods[t] \in Seq(Method)
  BY <1>1 DEF IInv, TypeOK
<1>3. Decls' = Decls /\ Blueprints' = Blueprints
  BY <1>2, FlattenFrame
<1>4. NameSet(flatMethods[t]) \cup own \cup Both(Parents[parent], NameSet(rest))
        = own \cup SumUpTo(t, flatMethods, parent)
  BY DEF MethodsSoFar
<1>5. ParentsOf(t) = 1 .. Len(Parents) /\ Len(Parents) \in Nat /\ parent <= Len(Parents)
  BY <1>1, <1>2 DEF ParentsOf, RestOK
<1>6. TopFieldsSummed'
  <2>1. FieldsSummed(t)
    BY <1>1 DEF TopFieldsSummed
  <2>2. flatFields' = flatFields
    BY DEF FlattenStep, NextFieldParent, InheritField, EndFields, LocalField, EndLocals,
           NextMethodParent, NextParent, InheritMethod, LocalMethodsLast
  <2>3. FieldsSummed(t)'
    BY <1>1, <1>3, <2>1, <2>2, NextSums DEF FieldsSummed
  <2> QED BY <1>1, <2>3 DEF TopFieldsSummed, FieldsSummed
<1>7. CASE NextMethodParent
  <2>1. /\ rest = <<>> /\ parent < Len(Parents) /\ parent' = parent + 1
        /\ rest' = Inherited(flatMethods, parent + 1)
        /\ flatMethods' = flatMethods /\ pc' = "methods"
    BY <1>7 DEF NextMethodParent, NextParent
  <2>2. parent + 1 \in ParentsOf(t)
    BY <1>2, <1>5, <2>1
  <2>3. NameSet(rest') = Members(t, flatMethods, parent + 1)
    BY <1>1, <1>2, <2>1, <2>2, InheritedNames
  <2>4. SumUpTo(t, flatMethods, parent + 1) =
          SumUpTo(t, flatMethods, parent) \cup Both(Parents[parent + 1], Members(t, flatMethods, parent + 1))
    BY <1>1, <1>2, <2>2, SumOfNext
  <2>5. NameSet(flatMethods[t]) \cup own = own \cup SumUpTo(t, flatMethods, parent)
    BY <1>4, <2>1, NoNames
  <2>6. NameSet(flatMethods'[t]) \cup own \cup Both(Parents[parent'], NameSet(rest'))
          = own \cup SumUpTo(t, flatMethods', parent')
    BY <2>1, <2>3, <2>4, <2>5
  <2>7. MethodsSoFar'
    BY <1>1, <1>3, <2>1, <2>6, NextSums
  <2> QED BY <1>6, <2>1, <2>7 DEF TopMethodsSummed
<1>8. CASE InheritMethod
  <2> DEFINE h == Head(rest)
             a == AliasOf(Parents[parent], h.name)
             g == [name |-> a, body |-> h.body]
             s == WithMethod(flatMethods[t], h)
             new == IF a = NoName THEN s ELSE WithMethod(s, g)
  <2>1. /\ rest # <<>> /\ flatMethods' = [flatMethods EXCEPT ![t] = new]
        /\ rest' = Tail(rest) /\ pc' = "methods" /\ parent' = parent
    BY <1>8 DEF InheritMethod
  <2>2. rest \in Seq(Method) /\ parent \in DOMAIN Parents
    BY <1>2, <2>1 DEF RestOK
  <2>3. h \in Method /\ Parents[parent] \in Parent
    BY <1>1, <2>1, <2>2
  <2>4. NameSet(rest) = {h.name} \cup NameSet(Tail(rest))
    BY <2>1, <2>2, NamesOfTail
  <2>5. a # NoName => a \in Names
    BY <2>3, AliasIsName
  <2>15. Both(Parents[parent], {h.name} \cup NameSet(Tail(rest))) =
           {h.name} \cup ({a} \ {NoName}) \cup Both(Parents[parent], NameSet(Tail(rest)))
    BY BothOfMore, Zenon
  <2>6. Both(Parents[parent], NameSet(rest)) =
          {h.name} \cup ({a} \ {NoName}) \cup Both(Parents[parent], NameSet(Tail(rest)))
    BY <2>4, <2>15, Zenon
  <2>7. a # NoName => g \in Method /\ g.name = a
    BY <2>3, <2>5 DEF Method
  <2>8. s \in Seq(Method)
    BY <1>2, <2>3, AppendProperties DEF WithMethod
  <2>9. NameSet(s) \cup own = NameSet(flatMethods[t]) \cup {h.name} \cup own
    BY <1>1, <1>2, <2>3, WithMethodNames
  <2> HIDE DEF a, h, g, s
  <2>10. a # NoName => NameSet(WithMethod(s, g)) \cup own = NameSet(s) \cup {a} \cup own
    BY <1>1, <1>2, <2>7, <2>8, WithMethodNames
  <2>11. NameSet(new) \cup own = NameSet(s) \cup ({a} \ {NoName}) \cup own
    BY <2>10
  <2>12. flatMethods'[t] = new
    BY <1>1, <1>2, <2>1
  <2> HIDE DEF new
  <2>13. NameSet(flatMethods'[t]) \cup own \cup Both(Parents[parent'], NameSet(rest'))
           = own \cup SumUpTo(t, flatMethods', parent')
    BY <1>1, <1>4, <2>1, <2>6, <2>9, <2>11, <2>12
  <2>14. MethodsSoFar'
    BY <1>1, <1>3, <2>1, <2>13, NextSums
  <2> QED BY <1>6, <2>1, <2>14 DEF TopMethodsSummed
<1>9. CASE LocalMethodsLast
  <2>1. /\ rest = <<>> /\ parent = Len(Parents) /\ pc' = "layout"
        /\ flatMethods' = [flatMethods EXCEPT ![t] = @ \o LocalMethods(t)]
    BY <1>9 DEF LocalMethodsLast, StartLayout
  <2>2. LocalMethods(t) \in Seq(Method) /\ NameSet(LocalMethods(t)) = own
    BY <1>1, <1>2, LocalTypes, NamesOfLocals
  <2>3. flatMethods'[t] = flatMethods[t] \o LocalMethods(t)
    BY <1>1, <1>2, <2>1
  <2>4. NameSet(flatMethods'[t]) = NameSet(flatMethods[t]) \cup own
    BY <1>2, <2>2, <2>3, NamesOfConcat
  <2>5. NameSet(flatMethods'[t]) = own \cup SumUpTo(t, flatMethods', Len(Parents))
    BY <1>1, <1>4, <2>1, <2>4, NoNames
  <2>6. SumOf(t, flatMethods', own) = own \cup SumUpTo(t, flatMethods', Len(Parents))
    BY <1>1, <1>2, SumOfAll
  <2>7. MethodsSummed(t)'
    BY <1>1, <1>3, <2>5, <2>6, NextSums
  <2>8. TopMethodsSummed'
    BY <1>1, <2>7 DEF TopMethodsSummed, MethodsSummed
  <2>9. MethodsSoFar'
    BY <2>1 DEF MethodsSoFar
  <2> QED BY <1>6, <2>8, <2>9
<1> QED BY <1>7, <1>8, <1>9 DEF FlattenStep, NextFieldParent, InheritField, EndFields,
           LocalField, EndLocals

LEMMA SummedStays ==
  ASSUME Decls' = Decls, Blueprints' = Blueprints, flatFields' = flatFields,
         flatMethods' = flatMethods
  PROVE  \A d : (FieldsSummed(d)' <=> FieldsSummed(d)) /\ (MethodsSummed(d)' <=> MethodsSummed(d))
BY DEF FieldsSummed, MethodsSummed, SumOf, Denoted

LEMMA StepFinished ==
  ASSUME IInv, ScopeOK, CyclesKnown, NoCircle, [Next]_vars,
         FinishedSummed, TopFieldsSummed, TopMethodsSummed
  PROVE  FinishedSummed'
<1>1. program \in Program
  BY DEF IInv, TypeOK
<1>2. Decls' = Decls /\ Blueprints' = Blueprints
  BY ProgramStays DEF vars, Decls, Blueprints
<1>3. SUFFICES ASSUME NEW d \in Decls, Finished(d)'
               PROVE  FieldsSummed(d)' /\ MethodsSummed(d)'
  BY <1>2 DEF FinishedSummed
<1>4. CASE FlattenStep
  <2> DEFINE fields == NameSet(Blueprints[d].fields)
             methods == NameSet(Blueprints[d].methods)
             n == Len(Blueprints[d].parents)
  <2>1. /\ Flattening /\ Flattening' /\ Top' = Top
        /\ \A e \in Decls : e # Top.bp =>
             flatFields'[e] = flatFields[e] /\ flatMethods'[e] = flatMethods[e]
        /\ \A c \in Resolved : \A k :
             /\ SumUpTo(c, flatFields', k) = SumUpTo(c, flatFields, k)
             /\ SumUpTo(c, flatMethods', k) = SumUpTo(c, flatMethods, k)
    BY <1>4, FlattenOthers
  <2>2. ~ParentsResolved
    BY <1>4, FlattenErrors DEF ParentsResolved
  <2>3. Resolved' = Resolved
    BY <2>2, ResolvedSteps
  <2>4. Finished(d) /\ d \in Resolved /\ d # Top.bp
    BY <1>3, <2>1, <2>3 DEF Finished
  <2>5. FieldsSummed(d) /\ MethodsSummed(d)
    BY <1>3, <2>4 DEF FinishedSummed
  <2>6. /\ SumOf(d, flatFields', fields) = fields \cup SumUpTo(d, flatFields', n)
        /\ SumOf(d, flatFields, fields) = fields \cup SumUpTo(d, flatFields, n)
        /\ SumOf(d, flatMethods', methods) = methods \cup SumUpTo(d, flatMethods', n)
        /\ SumOf(d, flatMethods, methods) = methods \cup SumUpTo(d, flatMethods, n)
    <3>1. SumOf(d, flatFields', fields) = fields \cup SumUpTo(d, flatFields', n)
      BY <1>1, SumOfAll
    <3>2. SumOf(d, flatFields, fields) = fields \cup SumUpTo(d, flatFields, n)
      BY <1>1, SumOfAll
    <3>3. SumOf(d, flatMethods', methods) = methods \cup SumUpTo(d, flatMethods', n)
      BY <1>1, SumOfAll
    <3>4. SumOf(d, flatMethods, methods) = methods \cup SumUpTo(d, flatMethods, n)
      BY <1>1, SumOfAll
    <3> QED BY <3>1, <3>2, <3>3, <3>4
  <2>7. NameSet(flatFields'[d]) = SumOf(d, flatFields', fields)
    BY <1>3, <2>1, <2>4, <2>5, <2>6 DEF FieldsSummed
  <2>8. NameSet(flatMethods'[d]) = SumOf(d, flatMethods', methods)
    BY <1>3, <2>1, <2>4, <2>5, <2>6 DEF MethodsSummed
  <2> QED BY <1>2, <2>1, <2>7, <2>8, NextSums
<1>5. CASE ~FlattenStep
  <2>1. flatFields' = flatFields /\ flatMethods' = flatMethods
    BY <1>5, NextCases, DeclareFrame, InheritFrame, LayoutFrame, StutterFrame
  <2>2. SUFFICES FieldsSummed(d) /\ MethodsSummed(d)
    BY <1>2, <2>1, SummedStays
  <2>3. CASE Finished(d)
    BY <2>3 DEF FinishedSummed
  <2>4. CASE ~Finished(d)
    <3>1. ~ParentsResolved
      BY <1>3, <2>4, ResolvedSteps DEF Finished
    <3>2. Flattening /\ ~Flattening' /\ d = Top.bp
      BY <1>3, <2>4, <3>1, ResolvedSteps, FlatteningStays DEF Finished
    <3>3. pc = "layout"
      BY <3>1, <3>2, FlatteningStays DEF EndLayout
    <3> QED BY <3>2, <3>3 DEF TopFieldsSummed, TopMethodsSummed
  <2> QED BY <2>3, <2>4
<1> QED BY <1>4, <1>5

LEMMA StepShapes ==
  ASSUME IInv, ScopeOK, LinksRight, CyclesKnown, EmptyBefore, ShapesSummed, [Next]_vars
  PROVE  ShapesSummed'
<1>1. SUFFICES ASSUME errors' = {}
               PROVE  /\ FinishedSummed' /\ FieldsSoFar' /\ LocalsSoFar'
                      /\ TopFieldsSummed' /\ MethodsSoFar' /\ TopMethodsSummed'
  BY DEF ShapesSummed
<1>2. errors = {} /\ NoCircle
  BY <1>1, CircleFound DEF NoCircle
<1>3. /\ FinishedSummed /\ FieldsSoFar /\ LocalsSoFar
      /\ TopFieldsSummed /\ MethodsSoFar /\ TopMethodsSummed
  BY <1>2 DEF ShapesSummed
<1>4. FinishedSummed'
  BY <1>2, <1>3, StepFinished
<1>5. Decls' = Decls /\ Blueprints' = Blueprints
  BY ProgramStays DEF vars, Decls, Blueprints
<1>6. program \in Program
  BY DEF IInv, TypeOK
<1>7. CASE FlattenStep
  <2>1. CASE pc = "fields"
    <3>1. pc' \in {"fields", "locals"}
      BY <1>7, <2>1 DEF FlattenStep, NextFieldParent, NextParent, InheritField, EndFields,
         LocalField, EndLocals, NextMethodParent, InheritMethod, LocalMethodsLast
    <3>2. FieldsSoFar' /\ LocalsSoFar'
      BY <1>2, <1>3, <1>7, <2>1, FieldsLoop
    <3> QED BY <1>4, <3>1, <3>2 DEF TopFieldsSummed, MethodsSoFar, TopMethodsSummed
  <2>2. CASE pc = "locals"
    <3>1. pc' \in {"locals", "methods"}
      BY <1>7, <2>2 DEF FlattenStep, NextFieldParent, NextParent, InheritField, EndFields,
         LocalField, EndLocals, NextMethodParent, InheritMethod, LocalMethodsLast
    <3>2. LocalsSoFar' /\ TopFieldsSummed' /\ MethodsSoFar'
      BY <1>2, <1>3, <1>7, <2>2, LocalsLoop
    <3> QED BY <1>4, <3>1, <3>2 DEF FieldsSoFar, TopMethodsSummed
  <2>3. CASE pc = "methods"
    <3>1. pc' \in {"methods", "layout"}
      BY <1>7, <2>3 DEF FlattenStep, NextFieldParent, NextParent, InheritField, EndFields,
         LocalField, EndLocals, NextMethodParent, InheritMethod, LocalMethodsLast, StartLayout
    <3>2. TopFieldsSummed' /\ MethodsSoFar' /\ TopMethodsSummed'
      BY <1>2, <1>3, <1>7, <2>3, MethodsLoop
    <3> QED BY <1>4, <3>1, <3>2 DEF FieldsSoFar, LocalsSoFar
  <2> QED BY <1>7, <2>1, <2>2, <2>3, FlattenErrors
<1>8. CASE ParentsResolved
  <2>1. /\ Top.bp \in Decls /\ Top.bp \notin Resolved /\ Top' = Top
    BY <1>8, ResolvedSteps
  <2>2. pc' = "fields" /\ parent' = 0 /\ rest' = <<>> /\ flatFields' = flatFields
    BY <1>8 DEF ParentsResolved, shapeVars
  <2>3. flatFields'[Top.bp] = <<>>
    BY <2>1, <2>2 DEF EmptyBefore
  <2>4. SumUpTo(Top.bp, flatFields', parent') = {}
    BY <1>6, <2>1, <2>2, SumOfNone
  <2>5. NameSet(flatFields'[Top.bp]) \cup Both(Parents[parent'], NameSet(rest'))
          = SumUpTo(Top.bp, flatFields', parent')
    BY <2>2, <2>3, <2>4, NoNames
  <2>6. FieldsSoFar'
    BY <1>5, <2>1, <2>5, NextSums
  <2> QED BY <1>4, <2>2, <2>6
          DEF LocalsSoFar, TopFieldsSummed, MethodsSoFar, TopMethodsSummed
<1>9. CASE vars' = vars
  <2>1. /\ pc' = pc /\ parent' = parent /\ rest' = rest /\ flatFields' = flatFields
        /\ flatMethods' = flatMethods /\ Top' = Top /\ (Flattening' <=> Flattening)
    BY <1>9 DEF vars, Top, Flattening
  <2>2. FieldsSoFar' /\ LocalsSoFar' /\ MethodsSoFar'
    BY <1>3, <1>5, <2>1, NextSums DEF FieldsSoFar, LocalsSoFar, MethodsSoFar
  <2>3. FieldsSummed(Top.bp)' <=> FieldsSummed(Top.bp)
    BY <1>5, <2>1, NextSums DEF FieldsSummed
  <2>4. MethodsSummed(Top.bp)' <=> MethodsSummed(Top.bp)
    BY <1>5, <2>1, NextSums DEF MethodsSummed
  <2> QED BY <1>3, <1>4, <2>1, <2>2, <2>3, <2>4 DEF TopFieldsSummed, TopMethodsSummed
<1>10. CASE DeclareStep \/ (InheritStep /\ ~ParentsResolved) \/ LayoutStep
  <2>1. flatFields' = flatFields /\ flatMethods' = flatMethods
    BY <1>10, DeclareFrame, InheritFrame, LayoutFrame
  <2>2. pc' \notin {"fields", "locals", "methods"}
    BY <1>10 DEF DeclareStep, DeclareBlueprint, DeclareFunc, EndDeclare, Phase,
       InheritStep, Resolve, NotABlueprint, VisitParent, EndInherit,
       LayoutStep, LayoutField, EndLayout, ResolveTypes, NextLayout, EndOffsets, StartLayout
  <2>3. FieldsSoFar' /\ LocalsSoFar' /\ MethodsSoFar'
    BY <2>2 DEF FieldsSoFar, LocalsSoFar, MethodsSoFar
  <2>4. ASSUME Flattening'
        PROVE  FieldsSummed(Top.bp)' /\ MethodsSummed(Top.bp)'
    <3>1. ~ParentsResolved
      BY <1>10, DeclareFrame, LayoutFrame DEF ParentsResolved
    <3>2. Flattening /\ Top' = Top
      BY <2>4, <3>1, FlatteningStays
    <3>3. pc \in {"declare", "inherit", "layout", "types", "offsets"}
      BY <1>10, DeclareFrame, InheritFrame, LayoutFrame
    <3>4. pc = "layout"
      BY <3>2, <3>3 DEF Flattening
    <3>5. FieldsSummed(Top.bp) /\ MethodsSummed(Top.bp)
      BY <1>3, <3>2, <3>4 DEF TopFieldsSummed, TopMethodsSummed
    <3>6. FieldsSummed(Top.bp)'
      BY <1>5, <2>1, <3>2, <3>5, NextSums DEF FieldsSummed
    <3>7. MethodsSummed(Top.bp)'
      BY <1>5, <2>1, <3>2, <3>5, NextSums DEF MethodsSummed
    <3> QED BY <3>6, <3>7
  <2> QED BY <1>4, <2>3, <2>4 DEF TopFieldsSummed, TopMethodsSummed
<1> QED BY <1>7, <1>8, <1>9, <1>10, NextCases

-----------------------------------------------------------------------------
(* The last layout keeps what extends each other.                          *)

LEMMA StepPhase ==
  ASSUME IInv, LayoutPhase, [Next]_vars
  PROVE  LayoutPhase'
<1>1. TypeOK /\ Control /\ Decls' = Decls /\ cursor \in Nat
  BY ProgramStays DEF IInv, vars, Decls, Blueprints, TypeOK
<1>2. CASE DeclareStep
  <2>1. pc = "declare" /\ typed' = typed /\ stack' = stack /\ ~typed
    BY <1>2, DeclareFrame DEF LayoutPhase
  <2>2. pc' \in {"declare", "inherit"} \/ (pc' = "done" /\ HadError')
    BY <1>2 DEF DeclareStep, DeclareBlueprint, DeclareFunc, EndDeclare, Phase, HadError
  <2> QED BY <2>1, <2>2 DEF LayoutPhase
<1>3. CASE InheritStep
  <2>1. pc = "inherit" /\ typed' = typed /\ ~typed
    BY <1>3, InheritFrame DEF LayoutPhase
  <2>2. pc' \in {"inherit", "fields", "types"} \/ (pc' = "done" /\ HadError')
    BY <1>3 DEF InheritStep, Resolve, NotABlueprint, VisitParent, ParentsResolved, EndInherit,
       Phase, HadError
  <2> QED BY <2>1, <2>2 DEF LayoutPhase
<1>4. CASE FlattenStep
  <2>1. pc \in {"fields", "locals", "methods"}
    BY <1>4, FlattenErrors
  <2>2. typed' = typed /\ stack' = stack /\ stack # <<>> /\ ~typed
    BY <1>1, <1>4, <2>1 DEF FlattenStep, NextFieldParent, NextParent, InheritField, EndFields,
       LocalField, EndLocals, NextMethodParent, InheritMethod, LocalMethodsLast, flattenVars,
       Control, LayoutPhase
  <2>3. pc' \in {"fields", "locals", "methods", "layout"}
    BY <1>4, <2>1 DEF FlattenStep, NextFieldParent, NextParent, InheritField, EndFields,
       LocalField, EndLocals, NextMethodParent, InheritMethod, LocalMethodsLast, StartLayout
  <2> QED BY <2>2, <2>3 DEF LayoutPhase
<1>5. CASE LayoutField
  BY <1>5 DEF LayoutField, LayoutPhase
<1>6. CASE EndLayout
  <2>1. typed' = typed /\ pc = "layout"
    BY <1>6 DEF EndLayout
  <2>2. CASE stack = <<>>
    BY <1>1, <1>6, <2>1, <2>2 DEF EndLayout, LayoutPhase
  <2>3. CASE stack # <<>>
    BY <1>1, <1>6, <2>1, <2>3 DEF EndLayout, LayoutPhase
  <2> QED BY <2>2, <2>3
<1>7. CASE ResolveTypes
  BY <1>1, <1>7 DEF ResolveTypes, LayoutPhase, Control
<1>8. CASE NextLayout
  BY <1>1, <1>8 DEF NextLayout, StartLayout, shapeVars, LayoutPhase
<1>9. CASE EndOffsets
  BY <1>1, <1>9 DEF EndOffsets, shapeVars, LayoutPhase
<1>10. CASE vars' = vars
  BY <1>1, <1>10 DEF vars, LayoutPhase, HadError
<1> QED BY <1>2, <1>3, <1>4, <1>5, <1>6, <1>7, <1>8, <1>9, <1>10, NextCases DEF LayoutStep

(* What the last layout does to the offsets at each of its fields.         *)
LEMMA LastLayoutField ==
  ASSUME IInv, LayoutPhase, CurrentPacked, LayoutField, typed
  PROVE  LET s == flatFields[cursor]
             k == Len(s) - Len(rest)
             f == Head(rest)
             at == AlignUp(IF k = 0 THEN 0 ELSE Laid(s, k), Width(f))
         IN /\ cursor \in Decls /\ s \in Seq(Field)
            /\ k \in Nat /\ k + 1 \in DOMAIN s /\ s[k + 1] = f
            /\ Len(s) - Len(rest') = k + 1
            /\ \A i \in 1 .. k : s[i] # f
            /\ Packed(s, k)
            /\ DOMAIN offset' = DOMAIN offset \cup {f}
            /\ offset'[f] = at
            /\ \A g \in DOMAIN offset : g # f => offset'[g] = offset[g]
            /\ place'.offset = at + Width(f)
<1> DEFINE s == flatFields[cursor]
           n == Len(s)
           m == Len(rest)
           k == n - m
           f == Head(rest)
           at == AlignUp(place.offset, Width(f))
<1>1. /\ TypeOK /\ Control /\ RestOK /\ RestIsSuffix /\ FieldNamesUnique
      /\ pc = "layout" /\ stack = <<>> /\ rest # <<>>
  BY DEF IInv, LayoutPhase, LayoutField
<1>2. Current = cursor /\ cursor \in Decls /\ s \in Seq(Field)
  BY <1>1, CurrentIsDecl DEF Current
<1>3. /\ Len(rest') = m - 1
      /\ offset' = [g \in DOMAIN offset \cup {f} |-> IF g = f THEN at ELSE offset[g]]
      /\ place'.offset = at + Width(f)
  BY <1>1, LayoutFieldFacts
<1>4. m \in Nat /\ m > 0 /\ f = rest[1]
  BY <1>1 DEF RestOK
<1>5. n \in Nat /\ DOMAIN s = 1 .. n
  BY <1>2
<1>6. m <= n /\ \A i \in 1 .. m : rest[i] = s[n - m + i]
  BY <1>1, <1>2 DEF RestIsSuffix
<1>7. Packed(s, k) /\ place.offset = IF k = 0 THEN 0 ELSE Laid(s, k)
  BY <1>1 DEF CurrentPacked
<1> HIDE DEF s, n, m, f, at
<1>8. k \in Nat /\ k + 1 \in DOMAIN s /\ s[k + 1] = f /\ n - Len(rest') = k + 1
  <2>1. k \in Nat /\ k + 1 \in DOMAIN s /\ n - Len(rest') = k + 1
    BY <1>3, <1>4, <1>5, <1>6
  <2>2. 1 \in 1 .. m
    BY <1>4
  <2> QED BY <1>4, <1>6, <2>1, <2>2
<1>9. \A i \in 1 .. k : s[i] # f
  <2>1. \A i, j \in DOMAIN s : s[i].name = s[j].name => i = j
    BY <1>1, <1>2 DEF FieldNamesUnique, s
  <2>2. \A i \in 1 .. k : i \in DOMAIN s /\ i # k + 1
    BY <1>4, <1>5, <1>6, <1>8
  <2> QED BY <1>8, <2>1, <2>2
<1>10. /\ DOMAIN offset' = DOMAIN offset \cup {f}
       /\ offset'[f] = at
       /\ \A g \in DOMAIN offset : g # f => offset'[g] = offset[g]
  BY <1>3
<1>11. at = AlignUp(IF k = 0 THEN 0 ELSE Laid(s, k), Width(f))
  BY <1>7 DEF at
<1> HIDE DEF k
<1>12. /\ cursor \in Decls /\ s \in Seq(Field)
       /\ k \in Nat /\ k + 1 \in DOMAIN s /\ s[k + 1] = f
       /\ n - Len(rest') = k + 1
       /\ \A i \in 1 .. k : s[i] # f
       /\ Packed(s, k)
       /\ DOMAIN offset' = DOMAIN offset \cup {f}
       /\ offset'[f] = AlignUp(IF k = 0 THEN 0 ELSE Laid(s, k), Width(f))
       /\ \A g \in DOMAIN offset : g # f => offset'[g] = offset[g]
       /\ place'.offset = AlignUp(IF k = 0 THEN 0 ELSE Laid(s, k), Width(f)) + Width(f)
  BY <1>2, <1>3, <1>7, <1>8, <1>9, <1>10, <1>11
<1> QED BY <1>12 DEF s, k, n, m, f

(* A field that an earlier shape shares is put where it was.               *)
LEMMA SharedStays ==
  ASSUME IInv, LayoutPhase, EarlierKept, CurrentPacked, LayoutField, typed,
         NEW d \in Decls, d < cursor, Extends(d), NEW i \in DOMAIN flatFields[d]
  PROVE  /\ flatFields[d][i] \in DOMAIN offset
         /\ offset'[flatFields[d][i]] = offset[flatFields[d][i]]
<1> DEFINE s == flatFields[cursor]
           t == flatFields[d]
           k == Len(s) - Len(rest)
           f == Head(rest)
           at == AlignUp(IF k = 0 THEN 0 ELSE Laid(s, k), Width(f))
<1>1. /\ cursor \in Decls /\ s \in Seq(Field)
      /\ k \in Nat /\ k + 1 \in DOMAIN s /\ s[k + 1] = f
      /\ offset'[f] = at
      /\ \A g \in DOMAIN offset : g # f => offset'[g] = offset[g]
  BY LastLayoutField
<1>2. t \in Seq(Field) /\ Packed(t, Len(t))
  BY DEF EarlierKept, IInv, TypeOK
<1>3. Len(t) \in Nat /\ DOMAIN t = 1 .. Len(t) /\ Len(s) \in Nat /\ DOMAIN s = 1 .. Len(s)
  BY <1>1, <1>2
<1>4. /\ t[i] \in DOMAIN offset
      /\ offset[t[i]] = AlignUp(IF i = 1 THEN 0 ELSE Laid(t, i - 1), Width(t[i]))
  BY <1>2, <1>3 DEF Packed
<1>5. CASE t[i] # f
  BY <1>1, <1>4, <1>5
<1>6. CASE t[i] = f
  <2>1. SharesField(t, s)
    BY <1>1, <1>6 DEF SharesField, Elements
  <2>2. Prefix(t, s) \/ Prefix(s, t)
    BY <1>1, <2>1 DEF Extends
  <2>3. /\ \A a, b \in DOMAIN s : s[a].name = s[b].name => a = b
        /\ \A a, b \in DOMAIN t : t[a].name = t[b].name => a = b
        /\ i \in DOMAIN t
    BY <1>1 DEF IInv, FieldNamesUnique
  <2> HIDE DEF s, t, k
  <2>4. i = k + 1
    <3>1. CASE Prefix(t, s)
      <4>1. i \in DOMAIN s /\ t[i] = s[i]
        BY <1>3, <2>3, <3>1 DEF Prefix
      <4> QED BY <1>1, <1>6, <2>3, <4>1
    <3>2. CASE Prefix(s, t)
      <4>1. k + 1 \in DOMAIN t /\ t[k + 1] = s[k + 1]
        BY <1>1, <1>3, <3>2 DEF Prefix
      <4> QED BY <1>1, <1>6, <2>3, <4>1
    <3> QED BY <2>2, <3>1, <3>2
  <2>5. k # 0 => k \in DOMAIN s /\ k \in DOMAIN t
    BY <1>1, <1>3, <2>3, <2>4
  <2>6. k # 0 => t[k] = s[k]
    BY <2>2, <2>5 DEF Prefix
  <2>7. k # 0 => Laid(t, k) = Laid(s, k)
    BY <2>6 DEF Laid
  <2>8. i - 1 = k /\ (i = 1 <=> k = 0)
    BY <1>1, <2>4
  <2>9. (IF i = 1 THEN 0 ELSE Laid(t, i - 1)) = IF k = 0 THEN 0 ELSE Laid(s, k)
    BY <2>7, <2>8
  <2> QED BY <1>1, <1>4, <1>6, <2>9 DEF t, s
<1> QED BY <1>5, <1>6

LEMMA StepEarlier ==
  ASSUME IInv, LayoutPhase, EarlierKept, CurrentPacked, [Next]_vars
  PROVE  EarlierKept'
<1>1. /\ TypeOK /\ Decls' = Decls /\ cursor \in Nat /\ Decls \subseteq Nat
      /\ size \in [Decls -> Nat]
  BY ProgramStays, DeclsAreNumbers DEF IInv, vars, Decls, Blueprints, TypeOK
<1>2. SUFFICES ASSUME typed', NEW d \in Decls, d < cursor', Extends(d)'
               PROVE  Packed(flatFields[d], Len(flatFields[d]))' /\ WellLaid(d)'
  BY <1>1 DEF EarlierKept
<1>3. CASE ~typed
  <2>1. ResolveTypes
    <3>1. ~(vars' = vars)
      BY <1>2, <1>3 DEF vars
    <3>2. ~DeclareStep /\ ~InheritStep
      BY <1>2, <1>3, DeclareFrame, InheritFrame
    <3>3. ~FlattenStep
      BY <1>2, <1>3 DEF FlattenStep, NextFieldParent, NextParent, InheritField, EndFields,
         LocalField, EndLocals, NextMethodParent, InheritMethod, LocalMethodsLast, flattenVars
    <3>4. ~LayoutField /\ ~EndLayout /\ ~NextLayout /\ ~EndOffsets
      BY <1>2, <1>3 DEF LayoutField, EndLayout, NextLayout, EndOffsets, shapeVars
    <3> QED BY <3>1, <3>2, <3>3, <3>4, NextCases DEF LayoutStep
  <2>2. cursor' = 1
    BY <2>1 DEF ResolveTypes
  <2>3. d \in Nat /\ d > 0
    BY DeclsAreNumbers, <1>1 DEF IInv, TypeOK
  <2> QED BY <1>2, <2>2, <2>3
<1>4. CASE typed
  <2> DEFINE t == flatFields[d]
  <2>1. stack = <<>> /\ pc \in {"layout", "offsets", "done"}
    BY <1>4 DEF LayoutPhase
  <2>2. LayoutStep \/ vars' = vars
    BY <2>1, NextCases, DeclareFrame, InheritFrame, FlattenErrors
  <2>3. flatFields' = flatFields /\ typed' = typed
    <3>1. CASE LayoutStep
      BY <1>2, <1>4, <3>1, LayoutFrame, Zenon
    <3>2. CASE vars' = vars
      BY <3>2 DEF vars
    <3> QED BY <2>2, <3>1, <3>2
  <2>4. Extends(d)
    BY <1>1, <1>2, <2>3 DEF Extends
  <2>5. \A f : Width(f)' = Width(f)
    BY <2>3 DEF Width
  <2>6. t \in Seq(Field) /\ Len(t) \in Nat /\ DOMAIN t = 1 .. Len(t)
    BY <1>1 DEF TypeOK
  <2>7. CASE LayoutField
    <3>1. cursor' = cursor /\ size' = size
      BY <2>7 DEF LayoutField
    <3>2. Packed(t, Len(t)) /\ WellLaid(d)
      BY <1>2, <1>4, <2>4, <3>1 DEF EarlierKept
    <3>3. \A i \in DOMAIN t : t[i] \in DOMAIN offset /\ offset'[t[i]] = offset[t[i]]
      BY <1>2, <1>4, <2>4, <2>7, <3>1, SharedStays
    <3>4. DOMAIN offset \subseteq DOMAIN offset'
      BY <1>4, <2>7, LastLayoutField
    <3>5. \A i \in DOMAIN t : Laid(t, i)' = Laid(t, i)
      BY <2>3, <2>5, <3>3 DEF Laid
    <3>6. Packed(t, Len(t))'
      <4> SUFFICES ASSUME NEW i \in 1 .. Len(t)
                   PROVE  /\ t[i] \in DOMAIN offset'
                          /\ offset'[t[i]] = AlignUp(IF i = 1 THEN 0 ELSE Laid(t, i - 1)', Width(t[i])')
        BY <2>3 DEF Packed
      <4>1. i \in DOMAIN t /\ (i # 1 => i - 1 \in DOMAIN t)
        BY <2>6
      <4>2. offset[t[i]] = AlignUp(IF i = 1 THEN 0 ELSE Laid(t, i - 1), Width(t[i]))
        BY <3>2 DEF Packed
      <4>3. CASE i = 1
        BY <2>3, <2>5, <3>3, <3>4, <4>1, <4>2, <4>3
      <4>4. CASE i # 1
        <5>1. Laid(t, i - 1)' = Laid(t, i - 1) /\ Width(t[i])' = Width(t[i])
          BY <2>3, <2>5, <3>5, <4>1, <4>4
        <5> QED BY <3>3, <3>4, <4>1, <4>2, <4>4, <5>1
      <4> QED BY <4>3, <4>4
    <3>7. WellLaid(d)'
      BY <2>3, <3>1, <3>2, <3>3, <3>5 DEF WellLaid
    <3> QED BY <2>3, <3>6, <3>7
  <2>8. CASE ~LayoutField
    <3>1. offset' = offset
      <4>1. CASE vars' = vars
        BY <4>1 DEF vars
      <4>2. CASE LayoutStep
        BY <2>8, <4>2, Zenon DEF LayoutStep, EndLayout, ResolveTypes, NextLayout, EndOffsets,
           shapeVars
      <4> QED BY <2>2, <4>1, <4>2
    <3>2. \A i : Laid(t, i)' = Laid(t, i)
      BY <2>3, <2>5, <3>1 DEF Laid
    <3>3. Packed(t, Len(t))' <=> Packed(t, Len(t))
      BY <2>3, <2>5, <3>1, <3>2 DEF Packed
    <3>4. size'[d] = size[d] => (WellLaid(d)' <=> WellLaid(d))
      BY <2>3, <3>1, <3>2 DEF WellLaid
    <3>5. CASE EndLayout
      <4>1. /\ pc = "layout" /\ rest = <<>> /\ cursor' = cursor + 1
            /\ size' = [size EXCEPT ![cursor] = AlignUp(place.offset, place.align)]
        BY <2>1, <3>5 DEF EndLayout, Current
      <4>2. CASE d < cursor
        <5>1. Packed(t, Len(t)) /\ WellLaid(d)
          BY <1>4, <2>4, <4>2 DEF EarlierKept
        <5>2. size'[d] = size[d]
          BY <1>1, <4>1, <4>2
        <5> QED BY <2>3, <3>3, <3>4, <5>1, <5>2
      <4>3. CASE ~(d < cursor)
        <5>1. d = cursor /\ cursor \in Decls
          BY <1>1, <1>2, <4>1, <4>3
        <5>2. Len(t) - Len(rest) = Len(t)
          BY <2>6, <4>1
        <5>3. Packed(t, Len(t))
          BY <1>4, <4>1, <5>1, <5>2 DEF CurrentPacked
        <5>4. /\ \A i \in DOMAIN t : Laid(t, i) <= place.offset
              /\ \A i, j \in DOMAIN t : i < j => Laid(t, i) <= offset[t[j]]
          BY <2>1, <2>6, <4>1, <5>1, <5>2 DEF IInv, LayoutOrdered, Current
        <5>5. place.offset \in Nat /\ place.align \in Sizes
          BY <1>1 DEF TypeOK
        <5>6. size'[d] \in Nat /\ place.offset <= size'[d]
          BY <1>1, <4>1, <5>1, <5>5, AlignUpFacts
        <5>7. \A i \in DOMAIN t : Laid(t, i) \in Nat
          <6> TAKE i \in DOMAIN t
          <6>1. t[i] \in DOMAIN offset /\ t[i] \in Field
            BY <2>6, <5>3 DEF Packed
          <6> QED BY <1>1, <6>1, WidthIsSize DEF TypeOK, Laid
        <5>8. \A i \in DOMAIN t : Laid(t, i) <= size'[d]
          BY <5>4, <5>5, <5>6, <5>7
        <5>9. WellLaid(d)'
          BY <2>3, <3>1, <3>2, <5>4, <5>8 DEF WellLaid
        <5> QED BY <2>3, <3>3, <5>3, <5>9
      <4> QED BY <4>2, <4>3
    <3>6. CASE ~EndLayout
      <4>1. cursor' = cursor /\ size' = size
        <5>1. CASE vars' = vars
          BY <5>1 DEF vars
        <5>2. ~ResolveTypes
          BY <2>1 DEF ResolveTypes
        <5>3. CASE NextLayout \/ EndOffsets
          BY <5>3 DEF NextLayout, EndOffsets, shapeVars
        <5> QED BY <2>2, <2>8, <3>6, <5>1, <5>2, <5>3 DEF LayoutStep
      <4>2. Packed(t, Len(t)) /\ WellLaid(d)
        BY <1>2, <1>4, <2>4, <4>1 DEF EarlierKept
      <4> QED BY <2>3, <3>3, <3>4, <4>1, <4>2
    <3> QED BY <3>5, <3>6
  <2> QED BY <2>7, <2>8
<1> QED BY <1>3, <1>4

LEMMA StepCurrent ==
  ASSUME IInv, LayoutPhase, CurrentPacked, [Next]_vars
  PROVE  CurrentPacked'
<1>1. TypeOK
  BY DEF IInv
<1>2. SUFFICES ASSUME typed', pc' = "layout"
               PROVE  CurrentPacked'
  BY DEF CurrentPacked
<1>3. CASE LayoutField
  <2> DEFINE s == flatFields[cursor]
             k == Len(s) - Len(rest)
             f == Head(rest)
             at == AlignUp(IF k = 0 THEN 0 ELSE Laid(s, k), Width(f))
  <2>1. flatFields' = flatFields /\ cursor' = cursor /\ typed' = typed /\ typed
    BY <1>2, <1>3 DEF LayoutField
  <2>2. /\ s \in Seq(Field) /\ k \in Nat /\ k + 1 \in DOMAIN s /\ s[k + 1] = f
        /\ Len(s) - Len(rest') = k + 1
        /\ \A i \in 1 .. k : s[i] # f
        /\ Packed(s, k)
        /\ DOMAIN offset' = DOMAIN offset \cup {f}
        /\ offset'[f] = at
        /\ \A g \in DOMAIN offset : g # f => offset'[g] = offset[g]
        /\ place'.offset = at + Width(f)
    BY <1>3, <2>1, LastLayoutField
  <2> DEFINE after(i) == offset'[s[i]] + Width(s[i])
  <2>3. \A i \in 1 .. k : s[i] \in DOMAIN offset /\ offset'[s[i]] = offset[s[i]]
    BY <2>2 DEF Packed
  <2>4. \A i \in 1 .. k : after(i) = Laid(s, i)
    BY <2>3 DEF Laid
  <2> HIDE DEF s, k, f, after
  <2>5. \A i \in 1 .. k + 1 :
          /\ s[i] \in DOMAIN offset'
          /\ offset'[s[i]] = AlignUp(IF i = 1 THEN 0 ELSE after(i - 1), Width(s[i]))
    <3> SUFFICES ASSUME NEW i \in 1 .. k + 1
                 PROVE  /\ s[i] \in DOMAIN offset'
                        /\ offset'[s[i]] = AlignUp(IF i = 1 THEN 0 ELSE after(i - 1), Width(s[i]))
      OBVIOUS
    <3>1. i # 1 => i - 1 \in 1 .. k
      BY <2>2
    <3>2. i # 1 => after(i - 1) = Laid(s, i - 1)
      BY <2>4, <3>1
    <3>3. CASE i \in 1 .. k
      <4>1. offset[s[i]] = AlignUp(IF i = 1 THEN 0 ELSE Laid(s, i - 1), Width(s[i]))
        BY <2>2, <3>3 DEF Packed
      <4>2. CASE i = 1
        BY <2>2, <2>3, <3>3, <4>1, <4>2
      <4>3. CASE i # 1
        BY <2>2, <2>3, <3>2, <3>3, <4>1, <4>3
      <4> QED BY <4>2, <4>3
    <3>4. CASE i = k + 1
      <4>1. (i = 1 <=> k = 0) /\ i - 1 = k
        BY <2>2, <3>4
      <4>2. CASE i = 1
        BY <2>2, <3>4, <4>1, <4>2
      <4>3. CASE i # 1
        BY <2>2, <3>2, <3>4, <4>1, <4>3
      <4> QED BY <4>2, <4>3
    <3> QED BY <2>2, <3>3, <3>4
  <2>6. place'.offset = after(k + 1) /\ k + 1 # 0
    BY <2>2 DEF after
  <2>7. flatFields'[cursor'] = s /\ \A g : Width(g)' = Width(g)
    BY <2>1 DEF s, Width
  <2> QED BY <2>2, <2>5, <2>6, <2>7 DEF CurrentPacked, Packed, Laid, after
<1>4. CASE NextLayout
  <2>1. /\ cursor \in Decls /\ flatFields' = flatFields /\ cursor' = cursor
        /\ rest' = flatFields[cursor] /\ place'.offset = 0
    BY <1>4 DEF NextLayout, StartLayout, shapeVars
  <2> DEFINE s == flatFields[cursor]
  <2>2. s \in Seq(Field)
    BY <1>1, <2>1 DEF TypeOK
  <2>3. Len(s) - Len(s) = 0
    BY <2>2
  <2> QED BY <2>1, <2>3 DEF CurrentPacked, Packed
<1>5. CASE vars' = vars
  <2>1. /\ typed' = typed /\ pc' = pc /\ flatFields' = flatFields /\ cursor' = cursor
        /\ rest' = rest /\ place' = place /\ offset' = offset
    BY <1>5 DEF vars
  <2>2. typed /\ pc = "layout"
    BY <1>2, <2>1
  <2> QED BY <2>1, <2>2 DEF CurrentPacked, Packed, Laid, Width
<1>6. ~DeclareStep /\ ~InheritStep /\ ~EndLayout /\ ~ResolveTypes /\ ~EndOffsets
  BY <1>2 DEF DeclareStep, DeclareBlueprint, DeclareFunc, EndDeclare, InheritStep, Resolve,
     NotABlueprint, VisitParent, ParentsResolved, EndInherit, EndLayout, ResolveTypes,
     EndOffsets, Phase
<1>7. ~FlattenStep
  <2>1. FlattenStep => typed' = typed
    BY DEF FlattenStep, NextFieldParent, NextParent, InheritField, EndFields, LocalField,
       EndLocals, NextMethodParent, InheritMethod, LocalMethodsLast, flattenVars
  <2> QED BY <1>2, <2>1, FlattenErrors DEF LayoutPhase
<1> QED BY <1>3, <1>4, <1>5, <1>6, <1>7, NextCases DEF LayoutStep

LEMMA StepLayouts ==
  ASSUME IInv, LayoutsKept, [Next]_vars
  PROVE  LayoutsKept'
BY StepPhase, StepEarlier, StepCurrent DEF LayoutsKept

-----------------------------------------------------------------------------
(* The theorems.                                                           *)

LEMMA InitShape == Init => ShapeInv
<1> SUFFICES ASSUME Init PROVE ShapeInv
  OBVIOUS
<1>1. /\ program \in Program /\ scope = <<>> /\ stack = <<>> /\ errors = {} /\ cursor = 1
      /\ pc = "declare" /\ typed = FALSE
      /\ \A d \in Decls : state[d] = "UNRESOLVED" /\ flatFields[d] = <<>> /\ flatMethods[d] = <<>>
  BY ProgramsAssumption DEF Init
<1>2. NoCircle /\ Untouched /\ Resolved = {} /\ ~Flattening
  BY <1>1 DEF NoCircle, Untouched, Resolved, Flattening
<1>3. \A d \in Decls : ~(d < cursor)
  BY <1>1, DeclsAreNumbers
<1>4. ScopeOK
  BY <1>1, <1>2, <1>3 DEF ScopeOK
<1>5. LinksRight /\ CallsFollowParents
  BY <1>1, <1>2 DEF LinksRight, Visited, CallsFollowParents, Resolved
<1>6. CyclesKnown
  BY <1>1, <1>2 DEF CyclesKnown, ParentsFirst
<1>7. EmptyBefore
  BY <1>1 DEF EmptyBefore
<1>8. ShapesSummed
  BY <1>1, <1>2 DEF ShapesSummed, FinishedSummed, Finished, FieldsSoFar, LocalsSoFar,
     TopFieldsSummed, MethodsSoFar, TopMethodsSummed
<1>9. OwnBodies
  BY <1>1 DEF OwnBodies
<1>10. LayoutsKept
  BY <1>1 DEF LayoutsKept, LayoutPhase, EarlierKept, CurrentPacked
<1> QED BY <1>4, <1>5, <1>6, <1>7, <1>8, <1>9, <1>10 DEF ShapeInv

(* What has been looked up, entered, flattened and laid out is right at    *)
(* every moment of the analysis, whatever the blueprints are.              *)
THEOREM ShapesHold == Spec => []ShapeInv
<1>1. IInv /\ ShapeInv /\ [Next]_vars => ShapeInv'
  <2> SUFFICES ASSUME IInv, ShapeInv, [Next]_vars PROVE ShapeInv'
    OBVIOUS
  <2>1. /\ ScopeOK /\ LinksRight /\ CallsFollowParents /\ CyclesKnown /\ EmptyBefore
        /\ ShapesSummed /\ OwnBodies /\ LayoutsKept
    BY DEF ShapeInv
  <2> QED BY <2>1, StepScope, StepLinks, StepCalls, StepCycles, StepEmpty, StepShapes,
             StepOwn, StepLayouts DEF ShapeInv
<1> QED BY <1>1, InitShape, InvariantHolds, PTL DEF Spec

LEMMA AllFinished ==
  ASSUME IInv, Inherits
  PROVE  Resolved = Decls /\ \A d \in Decls : Finished(d)
BY DEF Inherits, Resolved, Finished, Flattening, IInv, Control

(* _resolve_blueprint_inheritance reports a circular inheritance if and    *)
(* only if the parents of some blueprints lead back to them, from whatever *)
(* blueprint it starts and whichever are resolved already.                 *)
THEOREM CyclesAlwaysReported == Spec => []CyclesReported
<1>1. IInv /\ ShapeInv => CyclesReported
  <2> SUFFICES ASSUME IInv, ShapeInv, Inherits
               PROVE  ~NoCircle <=> Cyclic
    BY DEF CyclesReported, NoCircle
  <2>1. Resolved = Decls /\ CyclesKnown
    BY AllFinished DEF ShapeInv
  <2>2. ASSUME NoCircle, Cyclic PROVE FALSE
    <3>1. PICK S \in (SUBSET Decls) \ {{}} :
            \A d \in S : \E p \in DOMAIN Blueprints[d].parents : Denoted(d, p) \cap S # {}
      BY <2>2 DEF Cyclic
    <3>2. Source(S)
      BY <2>1, <2>2, <3>1 DEF CyclesKnown
    <3> QED BY <3>1, <3>2 DEF Source, ParentsOf
  <2> QED BY <2>1, <2>2 DEF CyclesKnown
<1> QED BY <1>1, InvariantHolds, ShapesHold, PTL

(* _flatten_blueprint gives every blueprint of a program without errors    *)
(* exactly the names of its parents' members, the first alias of each, and *)
(* its own, since the parents are finished before it is flattened.         *)
THEOREM ShapesAreSums == Spec => []ShapeIsSum
<1>1. IInv /\ ShapeInv => ShapeIsSum
  <2> SUFFICES ASSUME IInv, ShapeInv, Inherits, ~HadError, NEW d \in Decls
               PROVE  FieldsSummed(d) /\ MethodsSummed(d)
    BY DEF ShapeIsSum, FieldsSummed, MethodsSummed
  <2>1. FinishedSummed
    BY DEF ShapeInv, ShapesSummed, HadError
  <2> QED BY <2>1, AllFinished DEF FinishedSummed
<1> QED BY <1>1, InvariantHolds, ShapesHold, PTL

(* No inherited or aliased method of the name of a method of the           *)
(* blueprint's own gets into its shape.                                    *)
THEOREM OwnMethodsWin == Spec => []OwnMethodWins
<1>1. ShapeInv => OwnMethodWins
  BY DEF ShapeInv, OwnBodies, OwnMethodWins
<1> QED BY <1>1, ShapesHold, PTL

(* _compute_all_field_offsets leaves a shape that only extensions share    *)
(* fields with in order and within its size, though each of them lays the  *)
(* shared objects out again.                                               *)
THEOREM ExtensionsStay == Spec => []ExtensionsKeepLayout
<1>1. IInv /\ ShapeInv => ExtensionsKeepLayout
  <2> SUFFICES ASSUME IInv, ShapeInv, Analyzed, NEW d \in Decls, Extends(d)
               PROVE  WellLaid(d)
    BY DEF ExtensionsKeepLayout, Extends
  <2>1. LayoutPhase /\ EarlierKept /\ pc = "done" /\ ~HadError /\ typed
    BY DEF ShapeInv, LayoutsKept, LayoutPhase, Analyzed, IInv, TypeOK
  <2>2. cursor > 0 /\ cursor \notin Decls /\ cursor \in Nat
    BY <2>1 DEF LayoutPhase, IInv, TypeOK
  <2>3. d \in Nat /\ Len(Blueprints) \in Nat /\ Decls = 1 .. Len(Blueprints)
    BY DeclsAreNumbers DEF IInv, TypeOK
  <2>4. d < cursor
    BY <2>2, <2>3
  <2> QED BY <2>1, <2>4 DEF EarlierKept
<1> QED BY <1>1, InvariantHolds, ShapesHold, PTL

=============================================================================
