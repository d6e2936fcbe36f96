------------------------------ MODULE MCParser ------------------------------
(* Programs for TLC.                                                       *)
EXTENDS Parser

(* name(name: prim): prim = { var name: prim = 1; if (name) { (name); } else return 1; } *)
Branches ==
  <<"name", "(", "name", ":", "prim", ")", ":", "prim", "=", "{",
    "var", "name", ":", "prim", "=", "literal", ";",
    "if", "(", "name", ")", "{", "(", "name", ")", ";", "}", "else", "return", "literal", ";", "}">>

(* A function of three loops after a declaration of another.               *)
Loops ==
  <<"name", "(", "name", ":", "prim", ",", "name", ":", "prim", ")", ":", "prim", ";",
    "name", "(", ")", ":", "prim", "=", "{",
    "for", "(", "var", "name", ":", "prim", "=", "literal", ";", "name", ";", "name", ")",
    "{", "break", ";", "}",
    "while", "(", "name", ")", "continue", ";",
    "do", "{", ";", "}", "while", "(", "name", ")", ";", "}">>

(* A blueprint with parents, aliases, a field and two methods.             *)
Inherits ==
  <<"name", ":", "name", "{", "name", "as", "name", ",", "name", "as", "name", "}", ",",
    "name", ",", "{",
    "name", ":", "prim", "=", "literal", ";",
    "name", "(", "self", ",", "name", ":", "name", ")", ":", "prim", "=", "{", "}",
    "name", "(", ")", ":", "prim", ";", "}">>

(* A field of an anonymous type, and a function after the blueprint.       *)
Anonymous ==
  <<"name", ":", "{", "name", ":", "{", "name", ":", "prim", ";", "}", "*", ";", "}",
    "name", "(", ")", ":", "prim", "=", "{", "}">>

Files == {Branches, Loops, Inherits, Anonymous}

(* What is passed over without a word: a declaration without a name in a   *)
(* for loop, whatever follows a leading dot, the rest of an alias.         *)
Dropping ==
  <<"name", ":", "name", "{", "name", "while", "{", ",", "name", "as", "name", "}", "{", "}",
    "name", "(", ")", ":", "prim", "=", "{",
    "for", "(", "var", ";", "name", ";", ".", "}", ")", "{", ".", "return", ";", "}",
    "do", ";", "while", "(", ".", "while", ")", ";", "}",
    "name", "(", ")", ":", "prim", ";">>

(* Chains of three operators of five levels, two of them neighbours.       *)
Levels == {"=", "||", "==", "+", "*"}
Chain(ops) == <<"name", ops[1], "name", ops[2], "name", ops[3], "name">>
Chains == {Chain(ops) : ops \in [1 .. 3 -> Levels]}

(* Everything of two or three tokens.                                      *)
Alphabet == {"name", "literal", "prim", "(", ")", "[", "]", "{", "}", ",", ".", "$", "=",
             "*", "-", ":", ";", "ERROR"}
Short == {<<t, u>> : t, u \in Alphabet} \cup {<<t, u, v>> : t, u, v \in Alphabet}

(* Every construct of an expression, nested.                               *)
Expressions == {
  <<"name", ".", "name", "(", "name", ",", "-", "literal", ")", "[", "name", "]">>,
  <<"(", "prim", "*", "[", "literal", "]", ")", "name", "+", "literal">>,
  <<"(", "name", "+", "name", ")", "*", "(", "name", ")">>,
  <<"(", "{", "name", ":", "prim", "=", "literal", ";", "}", "*", ")", "name">>,
  <<"{", "[", "literal", "]", "=", "name", ",", "[", "literal", "]", "=", "name", "}">>,
  <<"{", "name", "=", "literal", ",", "name", "=", "{", "}", "}">>,
  <<"[", "{", "literal", ",", "name", "}", ",", "literal", "]">>,
  <<"$", "name", "(", "literal", ",", "&", "name", ")">>,
  <<"-", "name", "+", "name">>}

(* What a function returns.                                                *)
Holder == <<"name", "(", ")", ":", "prim", "=", "{", "return">>
InFunction(s) == Holder \o s \o <<";", "}">>

Deleted(s) == {SubSeq(s, 1, i - 1) \o SubSeq(s, i + 1, Len(s)) : i \in DOMAIN s}
Cut(s) == {SubSeq(s, 1, i) : i \in 0 .. Len(s) - 1}
Exchanged(s, by) == {[s EXCEPT ![i] = t] : i \in DOMAIN s, t \in by}

FileTokens == {"name", "(", ")", "{", "}", ",", ":", ";", "=", "var", "ERROR"}
ExprTokens == {"name", "(", "}", "]", ",", "=", ";", ".", "var"}

MCPrograms ==
  {Append(s, "EOF") : s \in
     Files \cup UNION {Deleted(s) \cup Cut(s) \cup Exchanged(s, FileTokens) : s \in Files \cup {Dropping}}
     \cup {InFunction(e) : e \in Chains \cup Short \cup Expressions
              \cup UNION {Deleted(e) \cup Exchanged(e, ExprTokens) : e \in Expressions}}
     \cup {Holder \o e : e \in UNION {Cut(e) : e \in Expressions}}}

(* name = name = name + name * name                                        *)
GroupingPrograms ==
  {Append(InFunction(<<"name", "=", "name", "=", "name", "+", "name", "*", "name">>), "EOF")}

(* The correct programs are accepted.                                      *)
Correct == {Append(s, "EOF") : s \in Files \cup {InFunction(e) : e \in Chains \cup Expressions}}
CorrectAccepted == Finished /\ tokens \in Correct => Accepted

=============================================================================
