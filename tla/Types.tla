------------------------------- MODULE Types -------------------------------
(***************************************************************************)
(* Phase 3 of the analysis: the size of every type                         *)
(* (iira/source/ii_semantic_types.c), and the offsets of the fields that   *)
(* follow from it (phase 3b, ii_semantic_decl.c).                          *)
(*                                                                         *)
(* A type is a node of the tree, and each node has a size of its own: two  *)
(* mentions of a blueprint are two nodes, and are resolved apart.  A node  *)
(* leads to others by the types inside it, and to those of the fields by   *)
(* the name of a blueprint; by such names it may lead back to itself.      *)
(* Nodes are numbered, and 0 is a type that is missing.  The calls of      *)
(* _resolve_type in progress are the variable calls.                       *)
(***************************************************************************)
EXTENDS Integers, Sequences, FiniteSetsExt, SequencesExt

CONSTANT Programs

Prims == {"void", "bool", "char", "short", "int", "long", "float", "double"}

(* The size of an array type may be left out, or be no integer literal.    *)
NoSize == -1
Computed == -2

(* inner has the type pointed to, that of the elements or those of the     *)
(* fields of an anonymous blueprint.                                       *)
Type ==
  [tag : {"primitive", "pointer", "array", "blueprint", "anon"}, prim : Prims \cup {""},
   inner : Seq(Nat), count : Int, name : STRING]

FieldDecl == [name : STRING, type : Nat]
Param == [name : STRING, type : Nat]
Signature == [static : BOOLEAN, params : Seq(Param), result : Nat, body : BOOLEAN]
MethodDecl == [name : STRING, overloads : Seq(Signature)]
BlueprintDecl == [name : STRING, fields : Seq(FieldDecl), methods : Seq(MethodDecl)]
FuncDecl == [name : STRING, params : Seq(Param), result : Nat, body : BOOLEAN]

ASSUME TypesAssumption ==
  LET programs == Programs
  IN \A p \in programs :
       /\ p.types \in Seq(Type)
       /\ p.blueprints \in Seq(BlueprintDecl)
       /\ p.funcs \in Seq(FuncDecl)

VARIABLES
  program,
  phase,       \* of the compilation
  types,       \* the nodes; the analysis of expressions makes more of them
  tasts,       \* what is known of each
  blueprints,  \* with the offsets of their fields
  scope,       \* the variables of the function under analysis
  calls,       \* of _resolve_type in progress, the innermost first
  roots,       \* the types phase 3 has still to resolve
  errors       \* reported

typeVars == <<program, phase, types, tasts, blueprints, scope, calls, roots, errors>>

-----------------------------------------------------------------------------
(* What a type has: its size and alignment, the QBE type it is represented *)
(* by, the number of elements and the declaration its name stands for.     *)

Unresolved == [state |-> "UNRESOLVED", size |-> 0, align |-> 0, repr |-> "", fixed |-> 0, decl |-> 0]

Measure(size, align, repr) == [size |-> size, align |-> align, repr |-> repr]

PrimInfo ==
  [void |-> Measure(0, 1, ""), bool |-> Measure(1, 1, "b"), char |-> Measure(1, 1, "b"),
   short |-> Measure(2, 2, "h"), int |-> Measure(4, 4, "w"), long |-> Measure(8, 8, "l"),
   float |-> Measure(4, 4, "s"), double |-> Measure(8, 8, "d")]

Pointer8 == Measure(8, 8, "l")

IsResolved(t) == tasts[t].state = "RESOLVED"
IsResolving(t) == tasts[t].state = "RESOLVING"

(* Rounding by a mask, which an alignment of zero turns into zero.         *)
AlignUp(n, align) == IF align = 0 THEN 0 ELSE ((n + align - 1) \div align) * align

(* One member more, after the padding it needs.                            *)
Place(place, m) ==
  [at |-> AlignUp(place.size, m.align), size |-> AlignUp(place.size, m.align) + m.size,
   align |-> IF m.align > place.align THEN m.align ELSE place.align]

NothingPlaced == [at |-> 0, size |-> 0, align |-> 1]

PlaceAll(ms) == FoldLeft(Place, NothingPlaced, ms)

(* Mutant: the size is not a multiple of the alignment.                    *)
AggregateUnpadded(ms) ==
  LET place == PlaceAll(ms) IN Measure(place.size, place.align, "l")

Aggregate(ms) ==
  LET place == PlaceAll(ms) IN Measure(AlignUp(place.size, place.align), place.align, "l")

(* An aggregate without members takes eight bytes.                         *)
NeverEmpty(m) == IF m.size > 0 THEN m ELSE [m EXCEPT !.size = 8]

-----------------------------------------------------------------------------
(* The calls of _resolve_type.                                             *)

Named(name) == {b \in DOMAIN blueprints : blueprints[b].name = name}
Declared(type) ==
  IF type.tag # "blueprint" \/ Named(type.name) = {} THEN 0 ELSE Min(Named(type.name))

FieldsOf(t) == IF tasts[t].decl = 0 THEN <<>> ELSE blueprints[tasts[t].decl].fields
FieldTypes(fields) == [i \in DOMAIN fields |-> fields[i].type]

(* What a type is made of, in the order in which it is resolved.           *)
PartTypes(t) == IF types[t].tag = "blueprint" THEN FieldTypes(FieldsOf(t)) ELSE types[t].inner

(* A call of _resolve_type: it returns at once if the type is resolved.    *)
Resolves(t, rest) ==
  IF t = 0 \/ IsResolved(t)
    THEN calls' = rest /\ tasts' = tasts
    ELSE /\ calls' = <<[type |-> t, next |-> 1]>> \o rest
         /\ tasts' = [tasts EXCEPT ![t].state = "RESOLVING", ![t].decl = Declared(types[t])]

Analysing == phase \in {"types", "bodies"}
InCall == calls # <<>> /\ Analysing
Top == Head(calls)
AllVisited == Top.next > Len(PartTypes(Top.type))
Leaving(tag) == InCall /\ AllVisited /\ types[Top.type].tag = tag

(* Mutant: a field that is being resolved is resolved again.               *)
NeverSkips(t) == t = 0

(* The way back by the name of a blueprint to a type in progress.          *)
Skips(t) == types[Top.type].tag = "blueprint" /\ IsResolving(t)

(* Mutant: the loop over the parts stays where it is.                      *)
NotPassed == calls

Passed == [calls EXCEPT ![1].next = @ + 1]

VisitPart ==
  /\ InCall /\ ~AllVisited
  /\ LET t == PartTypes(Top.type)[Top.next]
     IN IF Skips(t) THEN calls' = Passed /\ tasts' = tasts ELSE Resolves(t, Passed)
  /\ UNCHANGED <<program, phase, types, blueprints, scope, roots, errors>>

(* The end of a call, with the size it found.                              *)
Leaves(m, fixed) ==
  /\ tasts' = [tasts EXCEPT ![Top.type] =
                 [@ EXCEPT !.state = "RESOLVED", !.size = m.size, !.align = m.align,
                           !.repr = m.repr, !.fixed = fixed]]
  /\ calls' = Tail(calls)
  /\ UNCHANGED <<program, phase, types, blueprints, scope, roots, errors>>

LeavePrimitive == Leaving("primitive") /\ Leaves(PrimInfo[types[Top.type].prim], 0)

LeavePointer == Leaving("pointer") /\ Leaves(Pointer8, 0)

(* Without a size, that of one element; a size that is no literal is zero. *)
LeaveArray ==
  /\ Leaving("array")
  /\ LET count == types[Top.type].count
         element == tasts[types[Top.type].inner[1]]
         elements == CASE count = NoSize -> 1 [] count = Computed -> 0 [] count >= 0 -> count
     IN Leaves(Measure(elements * element.size, element.align, "l"), IF count < 0 THEN 0 ELSE count)

(* A pointer, and what is still being resolved, counts for eight bytes.    *)
FieldMeasure(t) ==
  IF types[t].tag = "pointer" \/ ~IsResolved(t)
    THEN Pointer8
    ELSE Measure(tasts[t].size, tasts[t].align, tasts[t].repr)

PartMeasures(t) == [i \in DOMAIN PartTypes(t) |-> FieldMeasure(PartTypes(t)[i])]

(* Fields without a size have no place in a blueprint; in an anonymous one *)
(* they have.                                                              *)
SizeOfTop ==
  LET all == PartMeasures(Top.type)
  IN Aggregate(IF types[Top.type].tag = "anon" THEN all ELSE SelectSeq(all, LAMBDA m : m.size > 0))

LeaveAggregate ==
  /\ Leaving("blueprint") \/ Leaving("anon")
  /\ types[Top.type].tag = "blueprint" => tasts[Top.type].decl # 0
  /\ SizeOfTop.size > 0 \/ PartTypes(Top.type) = <<>>
  /\ Leaves(NeverEmpty(SizeOfTop), 0)

(* The assertion that an aggregate with fields has a size.                 *)
AssertionFails ==
  /\ Leaving("blueprint") \/ Leaving("anon")
  /\ PartTypes(Top.type) # <<>> /\ SizeOfTop.size = 0
  /\ phase' = "aborted"
  /\ UNCHANGED <<program, types, tasts, blueprints, scope, calls, roots, errors>>

(* The name of a variable stands for the blueprint of its type.            *)
ModelOf(name) ==
  IF name \notin DOMAIN scope THEN 0
  ELSE LET t == scope[name].type
       IN IF t = 0 \/ types[t].tag # "blueprint" THEN 0 ELSE tasts[t].decl

Undeclared == Leaving("blueprint") /\ tasts[Top.type].decl = 0

LeaveUnknown ==
  /\ Undeclared /\ ModelOf(types[Top.type].name) = 0
  /\ tasts' = [tasts EXCEPT ![Top.type].state = "RESOLVED"]
  /\ calls' = Tail(calls)
  /\ errors' = Append(errors, "unknown type")
  /\ UNCHANGED <<program, phase, types, blueprints, scope, roots>>

(* It is a new blueprint; its fields are copies, which phase 3b is too     *)
(* early for: their offsets stay zero.                                     *)
LeavePrototype ==
  /\ Undeclared /\ ModelOf(types[Top.type].name) # 0
  /\ LET model == blueprints[ModelOf(types[Top.type].name)]
         copies == [i \in DOMAIN model.fields |-> [model.fields[i] EXCEPT !.offset = 0]]
         ms == [i \in DOMAIN copies |-> FieldMeasure(copies[i].type)]
         m == NeverEmpty(Aggregate(ms))
     IN /\ blueprints' = Append(blueprints, [name |-> "", fields |-> copies, methods |-> model.methods])
        /\ tasts' = [tasts EXCEPT ![Top.type] =
                       [@ EXCEPT !.state = "RESOLVED", !.size = m.size, !.align = m.align,
                                 !.repr = "l", !.decl = Len(blueprints) + 1]]
  /\ calls' = Tail(calls)
  /\ UNCHANGED <<program, phase, types, scope, roots, errors>>

ResolveStep ==
  \/ VisitPart \/ LeavePrimitive \/ LeavePointer \/ LeaveArray \/ LeaveAggregate \/ AssertionFails
  \/ LeaveUnknown \/ LeavePrototype

-----------------------------------------------------------------------------
(* _resolve_all_types and _compute_all_field_offsets.                      *)

SignatureTypes(s) == FieldTypes(s.params) \o <<s.result>>

BlueprintTypes(b) ==
  FieldTypes(b.fields)
    \o FlattenSeq([i \in DOMAIN b.methods |->
         FlattenSeq([j \in DOMAIN b.methods[i].overloads |-> SignatureTypes(b.methods[i].overloads[j])])])

AllRoots(p) ==
  FlattenSeq([b \in DOMAIN p.blueprints |-> BlueprintTypes(p.blueprints[b])])
    \o FlattenSeq([f \in DOMAIN p.funcs |-> SignatureTypes(p.funcs[f])])

(* The nodes inside of another, and those that are inside of none.         *)
InsideOf(p, t) == {p.types[t].inner[i] : i \in DOMAIN p.types[t].inner} \ {0}
Outermost(p) == (0 .. Len(p.types)) \ UNION {InsideOf(p, t) : t \in DOMAIN p.types}

(* The parser makes trees: a node is inside of one other at most, and the  *)
(* types of fields, parameters and results are inside of none.             *)
ASSUME TreesAssumption ==
  LET programs == Programs
  IN \A p \in programs :
       LET outermost == Outermost(p)
           Outside(s) ==
             s.result \in outermost /\ \A i \in DOMAIN s.params : s.params[i].type \in outermost
       IN /\ \A t \in DOMAIN p.types :
               /\ InsideOf(p, t) \subseteq DOMAIN p.types
               /\ p.types[t].tag \in {"pointer", "array"} => Len(p.types[t].inner) = 1
          /\ \A t, u \in DOMAIN p.types : InsideOf(p, t) \cap InsideOf(p, u) # {} => t = u
          /\ AllRoots(p) \in Seq(outermost)
          /\ \A f \in DOMAIN p.funcs : Outside(p.funcs[f])
          /\ \A b \in DOMAIN p.blueprints :
               /\ \A i \in DOMAIN p.blueprints[b].fields : p.blueprints[b].fields[i].type \in outermost
               /\ \A m \in DOMAIN p.blueprints[b].methods :
                    \A o \in DOMAIN p.blueprints[b].methods[m].overloads :
                      Outside(p.blueprints[b].methods[m].overloads[o])

NextRoot ==
  /\ phase = "types" /\ calls = <<>> /\ roots # <<>>
  /\ Resolves(Head(roots), <<>>)
  /\ roots' = Tail(roots)
  /\ UNCHANGED <<program, phase, types, blueprints, scope, errors>>

(* An error ends the analysis with the phase.                              *)
EndTypes ==
  /\ phase = "types" /\ calls = <<>> /\ roots = <<>>
  /\ phase' = IF errors = <<>> THEN "offsets" ELSE "failed"
  /\ UNCHANGED <<program, types, tasts, blueprints, scope, calls, roots, errors>>

(* Here a field without a size has a place as well.                        *)
FieldPlace(fields, i) ==
  PlaceAll([j \in 1 .. i |-> Measure(tasts[fields[j].type].size, tasts[fields[j].type].align, "")])

WithOffsets(fields) ==
  [i \in DOMAIN fields |-> [fields[i] EXCEPT !.offset = FieldPlace(fields, i).at]]

ComputeOffsets ==
  /\ phase = "offsets"
  /\ blueprints' = [b \in DOMAIN blueprints |-> [blueprints[b] EXCEPT !.fields = WithOffsets(@)]]
  /\ phase' = "params"
  /\ UNCHANGED <<program, types, tasts, scope, calls, roots, errors>>

TypesInit ==
  /\ program \in Programs
  /\ phase = "types"
  /\ types = program.types
  /\ tasts = [t \in DOMAIN types |-> Unresolved]
  /\ LET WithOffset(f) == [name |-> f.name, type |-> f.type, offset |-> 0]
         WithFields(b) == [b EXCEPT !.fields = [i \in DOMAIN @ |-> WithOffset(@[i])]]
     IN blueprints = [b \in DOMAIN program.blueprints |-> WithFields(program.blueprints[b])]
  /\ scope = [n \in {} |-> [kind |-> "", type |-> 0, slot |-> 0]]
  /\ calls = <<>>
  /\ roots = AllRoots(program)
  /\ errors = <<>>

TypesNext == ResolveStep \/ NextRoot \/ EndTypes \/ ComputeOffsets

-----------------------------------------------------------------------------
(* Properties.                                                             *)

(* A type is in progress exactly while a call for it is, and never twice:  *)
(* the recursion of _resolve_type, which leads back to itself by the name  *)
(* of a blueprint, is no deeper than there are types.                      *)
ResolvedOnce ==
  /\ \A i, j \in DOMAIN calls : calls[i].type = calls[j].type => i = j
  /\ {t \in DOMAIN tasts : IsResolving(t)} = {calls[i].type : i \in DOMAIN calls}

=============================================================================
