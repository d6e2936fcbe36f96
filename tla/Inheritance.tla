---------------------------- MODULE Inheritance -----------------------------
(***************************************************************************)
(* Inheritance of blueprints (iira/source/ii_semantic_decl.c): declaring   *)
(* them in the global scope, resolving their parents depth first,          *)
(* flattening every blueprint into the sequence of all its fields and of   *)
(* all its methods, and laying the fields out.                             *)
(*                                                                         *)
(* The recursion of _resolve_blueprint_inheritance is the variable stack.  *)
(* Every loop of the code that writes is a step per iteration; rest holds  *)
(* what the running loop has still to visit.  A field is an object that a  *)
(* child shares with its parent, and its offset belongs to the object.     *)
(***************************************************************************)
EXTENDS Integers, Sequences, FiniteSets

CONSTANTS
  Names,    \* interned names: equal names are equal pointers
  NoName,   \* nullptr as a name
  Programs  \* the inputs: what the parser can deliver

Sizes == {1, 2, 4, 8}   \* of the primitive types; their alignments as well
PointerSize == 8

Alias == [original : Names, alias : Names]
Parent == [name : Names, aliases : Seq(Alias)]
FieldDecl == [name : Names, size : Sizes]
MethodDecl == [name : Names, overloads : Seq(Seq(Names))]
Blueprint == [name : Names, parents : Seq(Parent),
              fields : Seq(FieldDecl), methods : Seq(MethodDecl)]
Func == [name : Names, params : Seq(Names)]
Program == [blueprints : Seq(Blueprint), funcs : Seq(Func)]

ASSUME ProgramsAssumption == Programs \subseteq Program
ASSUME NoNameAssumption == NoName \notin Names

VARIABLES
  program,     \* the AST
  scope,       \* the symbols of the global scope
  state,       \* inheritance_state of each blueprint
  resolved,    \* the declaration each parent name denotes, 0 for nullptr
  flatFields,  \* flat_fields of each blueprint
  flatMethods, \* flat_methods of each blueprint
  offset,      \* offset of each field object laid out so far
  size,        \* size of each blueprint laid out so far
  typed,       \* whether _resolve_all_types has run
  errors,      \* the diagnostics; had_error is errors # {}
  stack,       \* calls of _resolve_blueprint_inheritance in progress
  cursor,      \* the blueprint or function the phase's own loop has reached
  pc,          \* the loop that is running
  parent,      \* the parent being flattened
  rest,        \* what the running loop has still to visit
  place        \* offset and max_alignment of the layout in progress

vars == <<program, scope, state, resolved, flatFields, flatMethods, offset,
          size, typed, errors, stack, cursor, pc, parent, rest, place>>

-----------------------------------------------------------------------------
Blueprints == program.blueprints
Decls == DOMAIN Blueprints
Field == [decl : Nat, name : Names, size : Sizes]
Method == [name : Names, body : Nat \X Names]

NameSet(s) == {s[i].name : i \in DOMAIN s}
HadError == errors # {}
Error(k, d, n) == [kind |-> k, decl |-> d, name |-> n]

(* The scan of flat_fields for a field of the same name.                   *)
Defined(s, n) == n \in NameSet(s)

(* A name that repeats the one before it, the duplicates _validate_blueprint *)
(* and _check_duplicate_params look for.                                   *)
Repeated(s) == {s[i] : i \in {j \in DOMAIN s : j > 1 /\ s[j] = s[j - 1]}}

FieldObject(d, f) == [decl |-> d, name |-> f.name, size |-> f.size]
LocalFields(d) ==
  [i \in DOMAIN Blueprints[d].fields |-> FieldObject(d, Blueprints[d].fields[i])]
LocalMethods(d) ==
  [i \in DOMAIN Blueprints[d].methods |->
     [name |-> Blueprints[d].methods[i].name, body |-> <<d, Blueprints[d].methods[i].name>>]]

(* The first alias the parent entry p gives to n.                          *)
Given(p, n) == {i \in DOMAIN p.aliases : p.aliases[i].original = n}
AliasOf(p, n) ==
  IF Given(p, n) = {}
    THEN NoName
    ELSE p.aliases[CHOOSE i \in Given(p, n) : \A j \in Given(p, n) : i <= j].alias

(* Mutant: the padding is forgotten.                                       *)
NoPadding(o, a) == o

AlignUp(o, a) == ((o + a - 1) \div a) * a

-----------------------------------------------------------------------------
Init ==
  /\ program \in Programs
  /\ scope = <<>>
  /\ state = [d \in Decls |-> "UNRESOLVED"]
  /\ resolved = [d \in Decls |-> [p \in DOMAIN Blueprints[d].parents |-> 0]]
  /\ flatFields = [d \in Decls |-> <<>>]
  /\ flatMethods = [d \in Decls |-> <<>>]
  /\ offset = <<>>
  /\ size = [d \in Decls |-> 0]
  /\ typed = FALSE
  /\ errors = {}
  /\ stack = <<>>
  /\ cursor = 1
  /\ pc = "declare"
  /\ parent = 0
  /\ rest = <<>>
  /\ place = [offset |-> 0, align |-> 1]

shapeVars == <<resolved, flatFields, flatMethods, offset, size, typed>>
loopVars == <<parent, rest, place>>

(* The phases of the analysis run only while there is no error.            *)
Phase(next) == IF HadError THEN "done" ELSE next

-----------------------------------------------------------------------------
(* Phase 1, _analyze_declarations.                                         *)

FieldNames(d) == [i \in DOMAIN Blueprints[d].fields |-> Blueprints[d].fields[i].name]
MethodNames(d) == [i \in DOMAIN Blueprints[d].methods |-> Blueprints[d].methods[i].name]

Invalid(d) ==
  {Error("repeated", d, n) :
     n \in Repeated(FieldNames(d)) \cup Repeated(MethodNames(d)) \cup
           UNION {UNION {Repeated(m.overloads[i]) : i \in DOMAIN m.overloads} :
                  m \in {Blueprints[d].methods[i] : i \in DOMAIN Blueprints[d].methods}}}

(* _scope_insert: the first symbol of a name stays, and only a declaration *)
(* that was inserted is validated.                                         *)
Insert(sym, invalid) ==
  IF Defined(scope, sym.name)
    THEN scope' = scope /\ errors' = errors \cup {Error("duplicate", sym.decl, sym.name)}
    ELSE scope' = Append(scope, sym) /\ errors' = errors \cup invalid

declareVars == <<program, state, shapeVars, stack, loopVars>>

DeclareBlueprint ==
  /\ pc = "declare" /\ cursor \in Decls
  /\ Insert([name |-> Blueprints[cursor].name, kind |-> "BLUEPRINT", decl |-> cursor],
            Invalid(cursor))
  /\ cursor' = cursor + 1
  /\ UNCHANGED <<declareVars, pc>>

DeclareFunc ==
  /\ pc = "declare" /\ cursor - Len(Blueprints) \in DOMAIN program.funcs
  /\ LET f == program.funcs[cursor - Len(Blueprints)]
     IN Insert([name |-> f.name, kind |-> "FUNC", decl |-> cursor],
               {Error("repeated", cursor, n) : n \in Repeated(f.params)})
  /\ cursor' = cursor + 1
  /\ UNCHANGED <<declareVars, pc>>

EndDeclare ==
  /\ pc = "declare" /\ cursor > Len(Blueprints) + Len(program.funcs)
  /\ pc' = Phase("inherit")
  /\ cursor' = 1
  /\ UNCHANGED <<declareVars, scope, errors>>

-----------------------------------------------------------------------------
(* Phase 2, _resolve_inheritance.                                          *)

Top == stack[Len(stack)]
Parents == Blueprints[Top.bp].parents

(* Mutant: the loop over the parents does not move on.                     *)
NotAdvanced == stack

Advanced == [stack EXCEPT ![Len(stack)].next = @ + 1]

(* Mutant: a blueprint in progress is entered again.                       *)
CallUnguarded(d, frames) ==
  IF state[d] = "RESOLVED"
    THEN stack' = frames /\ UNCHANGED <<state, errors>>
    ELSE /\ state' = [state EXCEPT ![d] = "RESOLVING"]
         /\ stack' = Append(frames, [bp |-> d, next |-> 1])
         /\ UNCHANGED errors

(* Mutant: a blueprint that is finished is entered again.                  *)
CallAgain(d, frames) ==
  IF state[d] = "RESOLVING"
    THEN /\ errors' = errors \cup {Error("circular", d, Blueprints[d].name)}
         /\ stack' = frames /\ UNCHANGED state
    ELSE /\ state' = [state EXCEPT ![d] = "RESOLVING"]
         /\ stack' = Append(frames, [bp |-> d, next |-> 1])
         /\ UNCHANGED errors

(* Mutant: whatever has been visited counts as a cycle.                    *)
CallOnce(d, frames) ==
  IF state[d] # "UNRESOLVED"
    THEN /\ errors' = errors \cup {Error("circular", d, Blueprints[d].name)}
         /\ stack' = frames /\ UNCHANGED state
    ELSE /\ state' = [state EXCEPT ![d] = "RESOLVING"]
         /\ stack' = Append(frames, [bp |-> d, next |-> 1])
         /\ UNCHANGED errors

(* A call of _resolve_blueprint_inheritance for d, up to its own loop over *)
(* the parents; frames are the calls it is made from.                      *)
Call(d, frames) ==
  \/ /\ state[d] = "RESOLVED"
     /\ stack' = frames /\ UNCHANGED <<state, errors>>
  \/ /\ state[d] = "RESOLVING"
     /\ errors' = errors \cup {Error("circular", d, Blueprints[d].name)}
     /\ stack' = frames /\ UNCHANGED state
  \/ /\ state[d] = "UNRESOLVED"
     /\ state' = [state EXCEPT ![d] = "RESOLVING"]
     /\ stack' = Append(frames, [bp |-> d, next |-> 1])
     /\ UNCHANGED errors

Resolve ==
  /\ pc = "inherit" /\ stack = <<>> /\ cursor \in Decls
  /\ Call(cursor, stack)
  /\ cursor' = cursor + 1
  /\ UNCHANGED <<program, scope, shapeVars, pc, loopVars>>

Symbols(n, kind) == {i \in DOMAIN scope : scope[i].name = n /\ scope[i].kind = kind}

NotABlueprint ==
  /\ pc = "inherit" /\ stack # <<>> /\ Top.next \in DOMAIN Parents
  /\ Symbols(Parents[Top.next].name, "BLUEPRINT") = {}
  /\ errors' = errors \cup {Error("parent", Top.bp, Parents[Top.next].name)}
  /\ resolved' = [resolved EXCEPT ![Top.bp][Top.next] = 0]
  /\ stack' = Advanced
  /\ UNCHANGED <<program, scope, state, flatFields, flatMethods, offset, size, typed,
                 cursor, pc, loopVars>>

(* Mutant: the parent is not resolved first.                               *)
VisitParentOnly ==
  /\ pc = "inherit" /\ stack # <<>> /\ Top.next \in DOMAIN Parents
  /\ \E i \in Symbols(Parents[Top.next].name, "BLUEPRINT") :
       resolved' = [resolved EXCEPT ![Top.bp][Top.next] = scope[i].decl]
  /\ stack' = Advanced
  /\ UNCHANGED <<program, scope, state, errors, flatFields, flatMethods, offset, size,
                 typed, cursor, pc, loopVars>>

VisitParent ==
  /\ pc = "inherit" /\ stack # <<>> /\ Top.next \in DOMAIN Parents
  /\ \E i \in Symbols(Parents[Top.next].name, "BLUEPRINT") :
       /\ resolved' = [resolved EXCEPT ![Top.bp][Top.next] = scope[i].decl]
       /\ Call(scope[i].decl, Advanced)
  /\ UNCHANGED <<program, scope, flatFields, flatMethods, offset, size, typed,
                 cursor, pc, loopVars>>

(* Aliases of something that no resolved parent has.                       *)
Originals(p) == {p.aliases[i].original : i \in DOMAIN p.aliases}
HasMember(d, n) == Defined(flatFields[d], n) \/ Defined(flatMethods[d], n)
UnknownAliases(d, p) ==
  IF resolved[d][p] = 0
    THEN {}
    ELSE {Error("alias", d, n) :
            n \in {m \in Originals(Blueprints[d].parents[p]) : ~HasMember(resolved[d][p], m)}}

ParentsResolved ==
  /\ pc = "inherit" /\ stack # <<>> /\ Top.next \notin DOMAIN Parents
  /\ state' = [state EXCEPT ![Top.bp] = "RESOLVED"]
  /\ errors' = errors \cup UNION {UnknownAliases(Top.bp, p) : p \in DOMAIN Parents}
  /\ pc' = "fields"
  /\ parent' = 0 /\ rest' = <<>>
  /\ UNCHANGED <<program, scope, shapeVars, stack, cursor, place>>

EndInherit ==
  /\ pc = "inherit" /\ stack = <<>> /\ cursor \notin Decls
  /\ pc' = Phase("types")
  /\ UNCHANGED <<program, scope, state, shapeVars, errors, stack, cursor, loopVars>>

-----------------------------------------------------------------------------
(* _flatten_blueprint for the blueprint on top of the stack.               *)

flattenVars == <<program, scope, state, resolved, size, typed, stack, cursor>>

(* What the parent number p contributes, of one of the flat vectors.  The  *)
(* loop's length is fixed when it starts, so it is a copy of the vector.   *)
Inherited(flat, p) ==
  IF p \in DOMAIN Parents /\ resolved[Top.bp][p] # 0 THEN flat[resolved[Top.bp][p]] ELSE <<>>

NextParent(flat) ==
  /\ rest = <<>> /\ parent < Len(Parents)
  /\ parent' = parent + 1
  /\ rest' = Inherited(flat, parent + 1)
  /\ UNCHANGED <<flattenVars, flatFields, flatMethods, offset, errors, pc, place>>

(* Mutant: a field is pushed whether or not its name is taken.             *)
WithFieldAlways(s, f) == Append(s, f)

WithField(s, f) == IF Defined(s, f.name) THEN s ELSE Append(s, f)

(* Mutant: a copy is made without asking whether there is an alias.        *)
WithCopyAlways(s, f, alias) ==
  WithField(WithField(s, f), [decl |-> Top.bp, name |-> alias, size |-> f.size])

(* A parent's field under its own name, and a copy of it under its alias.  *)
WithInherited(s, f, alias) ==
  IF alias = NoName
    THEN WithField(s, f)
    ELSE WithField(WithField(s, f), [decl |-> Top.bp, name |-> alias, size |-> f.size])

NextFieldParent == pc = "fields" /\ NextParent(flatFields)

InheritField ==
  /\ pc = "fields" /\ rest # <<>>
  /\ flatFields' = [flatFields EXCEPT ![Top.bp] =
       WithInherited(@, Head(rest), AliasOf(Parents[parent], Head(rest).name))]
  /\ rest' = Tail(rest)
  /\ UNCHANGED <<flattenVars, flatMethods, offset, errors, pc, parent, place>>

EndFields ==
  /\ pc = "fields" /\ rest = <<>> /\ parent = Len(Parents)
  /\ pc' = "locals"
  /\ rest' = LocalFields(Top.bp)
  /\ UNCHANGED <<flattenVars, flatFields, flatMethods, offset, errors, parent, place>>

LocalField ==
  /\ pc = "locals" /\ rest # <<>>
  /\ flatFields' = [flatFields EXCEPT ![Top.bp] = WithField(@, Head(rest))]
  /\ errors' = IF Defined(flatFields[Top.bp], Head(rest).name)
                 THEN errors \cup {Error("override", Top.bp, Head(rest).name)}
                 ELSE errors
  /\ rest' = Tail(rest)
  /\ UNCHANGED <<flattenVars, flatMethods, offset, pc, parent, place>>

EndLocals ==
  /\ pc = "locals" /\ rest = <<>>
  /\ pc' = "methods"
  /\ parent' = 0
  /\ UNCHANGED <<flattenVars, flatFields, flatMethods, offset, errors, rest, place>>

NextMethodParent == pc = "methods" /\ NextParent(flatMethods)

(* Mutant: a method of the same name in the child does not replace it.     *)
WithMethodAlways(s, m) == Append(s, m)

(* A parent's method, unless the child has one of that name.               *)
WithMethod(s, m) ==
  IF Defined(LocalMethods(Top.bp), m.name) THEN s ELSE Append(s, m)

InheritMethod ==
  /\ pc = "methods" /\ rest # <<>>
  /\ LET m == Head(rest)
         alias == AliasOf(Parents[parent], m.name)
     IN flatMethods' = [flatMethods EXCEPT ![Top.bp] =
          IF alias = NoName
            THEN WithMethod(@, m)
            ELSE WithMethod(WithMethod(@, m), [name |-> alias, body |-> m.body])]
  /\ rest' = Tail(rest)
  /\ UNCHANGED <<flattenVars, flatFields, offset, errors, pc, parent, place>>

(* Mutant: a layout goes on where the last one ended.                      *)
ContinueLayout(d) ==
  /\ pc' = "layout"
  /\ rest' = flatFields[d]
  /\ place' = place

(* The methods of its own come last; then the layout begins.               *)
StartLayout(d) ==
  /\ pc' = "layout"
  /\ rest' = flatFields[d]
  /\ place' = [offset |-> 0, align |-> 1]

LocalMethodsLast ==
  /\ pc = "methods" /\ rest = <<>> /\ parent = Len(Parents)
  /\ flatMethods' = [flatMethods EXCEPT ![Top.bp] = @ \o LocalMethods(Top.bp)]
  /\ StartLayout(Top.bp)
  /\ UNCHANGED <<flattenVars, flatFields, offset, errors, parent>>

-----------------------------------------------------------------------------
(* _compute_field_offsets, at the end of the flattening when no type has a *)
(* size yet and again for every blueprint in phase 3b.                     *)

Width(f) == IF typed THEN f.size ELSE PointerSize

Current == IF stack = <<>> THEN cursor ELSE Top.bp

LayoutField ==
  /\ pc = "layout" /\ rest # <<>>
  /\ LET f == Head(rest)
         at == AlignUp(place.offset, Width(f))
     IN /\ offset' = [g \in DOMAIN offset \cup {f} |-> IF g = f THEN at ELSE offset[g]]
        /\ place' = [offset |-> at + Width(f),
                     align |-> IF Width(f) > place.align THEN Width(f) ELSE place.align]
  /\ rest' = Tail(rest)
  /\ UNCHANGED <<program, scope, state, resolved, flatFields, flatMethods, size, typed,
                 errors, stack, cursor, pc, parent>>

EndLayout ==
  /\ pc = "layout" /\ rest = <<>>
  /\ size' = [size EXCEPT ![Current] = AlignUp(place.offset, place.align)]
  /\ IF stack = <<>>
       THEN stack' = stack /\ cursor' = cursor + 1 /\ pc' = "offsets"
       ELSE stack' = SubSeq(stack, 1, Len(stack) - 1) /\ cursor' = cursor /\ pc' = "inherit"
  /\ UNCHANGED <<program, scope, state, resolved, flatFields, flatMethods, offset, typed,
                 errors, loopVars>>

(* Phase 3, _resolve_all_types, for fields of primitive types.             *)
ResolveTypes ==
  /\ pc = "types"
  /\ typed' = TRUE
  /\ cursor' = 1
  /\ pc' = "offsets"
  /\ UNCHANGED <<program, scope, state, resolved, flatFields, flatMethods, offset, size,
                 errors, stack, loopVars>>

(* Phase 3b, _compute_all_field_offsets.                                   *)
NextLayout ==
  /\ pc = "offsets" /\ cursor \in Decls
  /\ StartLayout(cursor)
  /\ UNCHANGED <<program, scope, state, shapeVars, errors, stack, cursor, parent>>

EndOffsets ==
  /\ pc = "offsets" /\ cursor \notin Decls
  /\ pc' = "done"
  /\ UNCHANGED <<program, scope, state, shapeVars, errors, stack, cursor, loopVars>>

(* Nothing follows.                                                        *)
Done == pc = "done" /\ UNCHANGED vars

Next ==
  \/ DeclareBlueprint \/ DeclareFunc \/ EndDeclare
  \/ Resolve \/ NotABlueprint \/ VisitParent \/ ParentsResolved \/ EndInherit
  \/ NextFieldParent \/ InheritField \/ EndFields \/ LocalField \/ EndLocals
  \/ NextMethodParent \/ InheritMethod \/ LocalMethodsLast
  \/ LayoutField \/ EndLayout \/ ResolveTypes \/ NextLayout \/ EndOffsets
  \/ Done

Spec == Init /\ [][Next]_vars
FairSpec == Spec /\ WF_vars(Next)

-----------------------------------------------------------------------------
(* Properties.                                                             *)

Frame == [bp : Nat, next : Nat]
Symbol == [name : Names, kind : {"BLUEPRINT", "FUNC"}, decl : Nat]
Loops == {"declare", "inherit", "fields", "locals", "methods", "layout", "types",
          "offsets", "done"}

(* Every variable stays in its type; the parents that are resolved and the *)
(* calls in progress are blueprints of the program.                        *)
TypeOK ==
  /\ program \in Program
  /\ scope \in Seq(Symbol)
  /\ \A i \in DOMAIN scope : scope[i].kind = "BLUEPRINT" => scope[i].decl \in Decls
  /\ state \in [Decls -> {"UNRESOLVED", "RESOLVING", "RESOLVED"}]
  /\ DOMAIN resolved = Decls
  /\ \A d \in Decls : resolved[d] \in [DOMAIN Blueprints[d].parents -> Decls \cup {0}]
  /\ flatFields \in [Decls -> Seq(Field)]
  /\ flatMethods \in [Decls -> Seq(Method)]
  /\ \A f \in DOMAIN offset : offset[f] \in Nat
  /\ size \in [Decls -> Nat]
  /\ typed \in BOOLEAN
  /\ stack \in Seq([bp : Decls, next : Nat \ {0}])
  /\ cursor \in Nat /\ parent \in Nat
  /\ pc \in Loops
  /\ place \in [offset : Nat, align : Sizes]

Flattening ==
  \/ pc \in {"fields", "locals", "methods"}
  \/ pc = "layout" /\ stack # <<>>

(* A blueprint is RESOLVING exactly while a call for it has not finished   *)
(* its parents, and no blueprint is entered twice: the recursion of        *)
(* _resolve_blueprint_inheritance is never deeper than the number of       *)
(* blueprints, whatever cycles the program has.                            *)
RecursionBounded ==
  /\ \A i, j \in DOMAIN stack : stack[i].bp = stack[j].bp => i = j
  /\ {d \in Decls : state[d] = "RESOLVING"} =
       {stack[i].bp : i \in IF Flattening THEN 1 .. Len(stack) - 1 ELSE DOMAIN stack}

(* No two fields of a flattened blueprint have the same name, through      *)
(* diamonds, aliases and members of its own: member lookup by name, which  *)
(* takes the first, cannot hide a field.                                   *)
FieldNamesUnique ==
  \A d \in Decls : \A i, j \in DOMAIN flatFields[d] :
    flatFields[d][i].name = flatFields[d][j].name => i = j

(* A blueprint is flattened once; its shape is never touched again.        *)
FlattenedOnce ==
  [][\A d \in Decls :
       state[d] = "RESOLVED" /\ ~(Flattening /\ Top.bp = d) =>
         /\ state'[d] = "RESOLVED"
         /\ flatFields'[d] = flatFields[d] /\ flatMethods'[d] = flatMethods[d]]_vars

Laid(s, i) == offset[s[i]] + Width(s[i])

(* The fields of a shape laid out so far follow each other without         *)
(* overlapping, each on its alignment.                                     *)
LayoutOrdered ==
  pc = "layout" =>
    LET s == flatFields[Current]
        laid == 1 .. Len(s) - Len(rest)
    IN /\ \A i \in laid : offset[s[i]] % Width(s[i]) = 0 /\ Laid(s, i) <= place.offset
       /\ \A i, j \in laid : i < j => Laid(s, i) <= offset[s[j]]

(* The parent that entry p of d names, whatever scope the code looks in.   *)
Denoted(d, p) == {e \in Decls : Blueprints[e].name = Blueprints[d].parents[p].name}

Cyclic ==
  \E S \in (SUBSET Decls) \ {{}} :
    \A d \in S : \E p \in DOMAIN Blueprints[d].parents : Denoted(d, p) \cap S # {}

Inherits == stack = <<>> /\ \A d \in Decls : state[d] = "RESOLVED"

(* A circular inheritance is reported if and only if there is one.         *)
CyclesReported == Inherits => ((\E e \in errors : e.kind = "circular") <=> Cyclic)

Aliased(p, members) == {AliasOf(p, n) : n \in members} \ {NoName}

SumOf(d, flat, own) ==
  own \cup UNION {LET p == Blueprints[d].parents[i]
                      members == UNION {NameSet(flat[e]) : e \in Denoted(d, i)}
                  IN members \cup Aliased(p, members) : i \in DOMAIN Blueprints[d].parents}

(* The shape of a blueprint without errors is the sum of its parents'      *)
(* shapes, the first alias of each of their names and its own members, in  *)
(* whatever order the blueprints are declared and resolved.                *)
ShapeIsSum ==
  Inherits /\ ~HadError =>
    \A d \in Decls :
      /\ NameSet(flatFields[d]) = SumOf(d, flatFields, NameSet(Blueprints[d].fields))
      /\ NameSet(flatMethods[d]) = SumOf(d, flatMethods, NameSet(Blueprints[d].methods))

(* Where a blueprint has a method of its own, its shape has no other one   *)
(* of that name, inherited or aliased.                                     *)
OwnMethodWins ==
  Inherits =>
    \A d \in Decls : \A i \in DOMAIN flatMethods[d] :
      flatMethods[d][i].name \in NameSet(Blueprints[d].methods) =>
        flatMethods[d][i].body = <<d, flatMethods[d][i].name>>

(* What codegen reads: a field is at its object's offset in every shape.   *)
WellLaid(d) ==
  LET s == flatFields[d]
  IN /\ \A i \in DOMAIN s : Laid(s, i) <= size[d]
     /\ \A i, j \in DOMAIN s : i < j => Laid(s, i) <= offset[s[j]]

Elements(s) == {s[i] : i \in DOMAIN s}

Prefix(s, t) == Len(s) <= Len(t) /\ \A i \in DOMAIN s : s[i] = t[i]

SharesField(s, t) == Elements(s) \cap Elements(t) # {}

Analyzed == pc = "done" /\ ~HadError

(* A child's layout leaves its ancestors' fields where they were as long   *)
(* as the shapes that share fields extend each other.                      *)
ExtensionsKeepLayout ==
  Analyzed =>
    \A d \in Decls :
      (\A e \in Decls : SharesField(flatFields[d], flatFields[e]) =>
         Prefix(flatFields[d], flatFields[e]) \/ Prefix(flatFields[e], flatFields[d]))
      => WellLaid(d)

(* The analysis always finishes.                                           *)
Terminates == <>(pc = "done")

-----------------------------------------------------------------------------
(* What the documentation says and the code does not do.                   *)

(* iira/include/ii_ast.h:291 calls offset the "offset in flattened         *)
(* blueprint": every blueprint can be accessed through it.                 *)
OffsetsAreOwn == Analyzed => \A d \in Decls : WellLaid(d)

=============================================================================
