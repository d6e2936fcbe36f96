--------------------------- MODULE MCInheritance ----------------------------
(***************************************************************************)
(* Small programs for Inheritance, in families that between them have      *)
(* every shape of inheritance: up to three blueprints whose parents are    *)
(* any of them, an unknown name or a function; a diamond of four with      *)
(* fields of two sizes, aliases and overriding methods, declared in two    *)
(* orders; a name with two aliases; and programs with duplicates.          *)
(***************************************************************************)
EXTENDS Inheritance

CONSTANTS A, B, C, D, F, x, y, z, M

MCNames == {A, B, C, D, F, x, y, z, M}

Fld(n, s) == [name |-> n, size |-> s]
Mth(n) == [name |-> n, overloads |-> <<<<x, y>>>>]
From(n) == [name |-> n, aliases |-> <<>>]
As(n, o, a) == [name |-> n, aliases |-> <<[original |-> o, alias |-> a]>>]
Bp(n, ps, fs, ms) == [name |-> n, parents |-> ps, fields |-> fs, methods |-> ms]

UpTo2(S) == {<<>>} \cup {<<s>> : s \in S} \cup {<<s, t>> : s \in S, t \in S}
OneOrNone(S) == {<<>>} \cup {<<s>> : s \in S}

(* Any graph over three blueprints.                                        *)
Graphs3 ==
  {[blueprints |-> <<Bp(A, pa, <<Fld(x, 4)>>, <<Mth(M)>>),
                     Bp(B, pb, <<Fld(y, 8)>>, <<>>),
                     Bp(C, pc3, <<Fld(z, 1)>>, <<Mth(M)>>)>>,
    funcs |-> <<[name |-> F, params |-> <<x, y>>]>>] :
      pa \in OneOrNone({From(A), From(B), From(C)}),
      pb \in UpTo2({From(A), From(C), As(A, x, z), As(A, M, F)}),
      pc3 \in UpTo2({From(A), From(B), From(D), From(F), As(B, x, y)})}

(* A diamond, its base last or first; the sides add, alias and override.   *)
Diamonds ==
  {[blueprints |-> bps, funcs |-> <<>>] :
     bps \in UNION {{<<base, left, right, child>>, <<child, right, left, base>>} :
       base \in {Bp(A, <<>>, <<Fld(x, 4)>>, <<Mth(M)>>)},
       left \in {Bp(B, <<p>>, fs, <<>>) : p \in {From(A), As(A, x, y), As(A, M, F)},
                                           fs \in {<<>>, <<Fld(y, 8)>>}},
       right \in {Bp(C, <<p>>, <<Fld(z, 1)>>, ms) : p \in {From(A), As(A, x, y)},
                                                     ms \in {<<>>, <<Mth(M)>>}},
       child \in {Bp(D, <<p, q>>, fs, ms) : p \in {From(B), As(B, x, F)},
                                             q \in {From(C), As(C, z, B)},
                                             fs \in {<<>>, <<Fld(x, 2)>>, <<Fld(D, 2)>>},
                                             ms \in {<<>>, <<Mth(M)>>}}}}

(* Two aliases for one name, of which only the first counts.               *)
Twice(n, o, a, b) ==
  [name |-> n, aliases |-> <<[original |-> o, alias |-> a], [original |-> o, alias |-> b]>>]

AliasedTwice ==
  {[blueprints |-> <<Bp(A, <<>>, <<Fld(x, 4)>>, <<Mth(M)>>), Bp(B, <<p>>, <<>>, ms)>>,
    funcs |-> <<>>] :
      p \in {Twice(A, x, y, z), Twice(A, M, F, D)}, ms \in {<<>>, <<Mth(F)>>, <<Mth(D)>>}}

(* Duplicates, of blueprints, functions, fields and parameters.            *)
Duplicates ==
  {[blueprints |-> <<Bp(A, <<>>, fs, <<[name |-> M, overloads |-> <<<<x>>, ps>>]>>),
                     Bp(n, <<>>, <<Fld(y, 2)>>, <<>>)>>,
    funcs |-> <<[name |-> g, params |-> ps]>>] :
      fs \in {<<Fld(x, 4), Fld(x, 8)>>, <<Fld(x, 4), Fld(y, 4), Fld(x, 4)>>, <<Fld(x, 1)>>},
      n \in {A, B}, g \in {A, F}, ps \in {<<x, x>>, <<x, y, x>>}}

MCPrograms == Graphs3 \cup Diamonds \cup AliasedTwice \cup Duplicates

=============================================================================
