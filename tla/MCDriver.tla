------------------------------ MODULE MCDriver ------------------------------
(***************************************************************************)
(* Command lines for Driver, and what the lexer should make of a file.  A  *)
(* path is the text of its file.  All short texts over the characters of   *)
(* each sort of token are lexed and no more; a few files are taken through *)
(* all the passes, alone, in pairs and with flags.                         *)
(***************************************************************************)
EXTENDS Driver

Words(chars, n) == UNION {[1 .. k -> chars] : k \in 0 .. n}
Enclosed(first, S) == {<<first>> \o s : s \in S}

Numbers == Words({"0", "1", "8", "x", "b", "o", "f", ".", "_"}, 4)
Strings == Enclosed(Quote, Words({Quote, Backslash, "n", NUL, LF}, 4))
Literals == Enclosed(Apostrophe, Words({Apostrophe, Backslash, "n", "a", LF}, 4))
Comments == Enclosed("/", Words({"/", "*", LF, "a", "="}, 4))
Operators == Words({"=", "!", "<", "-", "*", "/", "&", "|", "(", "#"}, 3)
Lines == Words({"i", "f", " ", CR, LF, NUL}, 5)

Texts == Numbers \cup Strings \cup Literals \cup Comments \cup Operators \cup Lines

A == <<"a">>
TwoLines == <<"i", "f", LF, ";">>
Wrong == <<"#", LF, Quote>>
Cut == <<"a", Apostrophe>>
Crashing == <<"a", "a", "a", Apostrophe>>
Missing == <<>>

P(path) == [flag |-> "none", path |-> path]
F(flag) == [flag |-> flag, path |-> <<>>]

Some == {A, TwoLines, Wrong, Cut, Missing}
Lexed == {<<F("lexer"), P(t)>> : t \in Texts}
Whole ==
  {<<P(s)>> : s \in Some \cup {Crashing}} \cup {<<P(s), P(t)>> : s \in Some, t \in {A, Wrong, Missing}} \cup
  {<<F(f), P(s)>> : f \in Flags \cup {"unknown"}, s \in {A, Wrong}} \cup
  {<<P(s), F(f), P(A)>> : f \in {"no-warn", "analyzer", "parser", "max-errors"}, s \in {TwoLines, Missing}} \cup
  {<<F("no-warn"), F("verbose"), P(Wrong)>>, <<F("verbose"), F("debug"), P(A)>>, <<P(A), F("output")>>, <<>>}

MCPaths == Texts \cup Some \cup {Crashing}
MCChars == {"0", "1", "8", "x", "b", "o", "f", ".", "_", "n", "a", "i", "=", "!", "<", "-", "*", "/", "&",
            "|", "(", "#", ";", " ", Quote, Apostrophe, Backslash, LF, CR, NUL}
MCContent(path) == path
MCCommandLines == Lexed \cup Whole
MCKeywords == {<<"i", "f">>}

-----------------------------------------------------------------------------
(* The lexemes of the language, as sets of texts, and the cut of a text    *)
(* into the longest of them.                                               *)

All(s, chars) == \A i \in DOMAIN s : s[i] \in chars
Sub(i, j) == SubSeq(text, i, j)

Identifiers(s) == s # <<>> /\ All(s, WordChars) /\ s[1] \notin Digits

Decimal(s) ==
  \/ s # <<>> /\ All(s, Digits)
  \/ \E d \in DOMAIN s : /\ s[d] = "." /\ d < Len(s)
                         /\ \A i \in DOMAIN s : i # d => s[i] \in Digits

WithRadix(s) ==
  /\ Len(s) >= 2 /\ s[1] = "0" /\ s[2] \in DOMAIN RadixDigits
  /\ \A i \in 3 .. Len(s) : s[i] \in RadixDigits[s[2]]

WithSuffix(s) == s # <<>> /\ s[Len(s)] \in Suffixes /\ Decimal(SubSeq(s, 1, Len(s) - 1))

Number(s) == Decimal(s) \/ WithRadix(s) \/ WithSuffix(s)

(* Between its quotes a string is a row of characters and escapes.         *)
RECURSIVE Inside(_)
Inside(s) ==
  \/ s = <<>>
  \/ s[1] \notin {Quote, Backslash} /\ Inside(Tail(s))
  \/ Len(s) >= 2 /\ s[1] = Backslash /\ s[2] \in StringEscapes /\ Inside(SubSeq(s, 3, Len(s)))

StringLiteral(s) ==
  Len(s) >= 2 /\ s[1] = Quote /\ s[Len(s)] = Quote /\ Inside(SubSeq(s, 2, Len(s) - 1))

CharLiteral(s) ==
  /\ Len(s) \in {3, 4} /\ s[1] = Apostrophe /\ s[Len(s)] = Apostrophe
  /\ IF Len(s) = 3 THEN s[2] \notin {Apostrophe, Backslash}
                   ELSE s[2] = Backslash /\ s[3] \in DOMAIN CharEscapes

Pairs == {"=", "!", "<", ">", "+", "-", "*", "/"} \X {"="}
OperatorText(s) ==
  \/ Len(s) = 1 /\ s[1] \in Singles \cup {"=", "!", "<", ">", "+", "-", "*", "/", "&", "|"}
  \/ Len(s) = 2 /\ <<s[1], s[2]>> \in Pairs \cup {<<"&", "&">>, <<"|", "|">>}

Lexeme(s) ==
  Identifiers(s) \/ Number(s) \/ StringLiteral(s) \/ CharLiteral(s) \/ OperatorText(s)

LineComment(s) == Len(s) >= 2 /\ s[1] = "/" /\ s[2] = "/" /\ \A i \in DOMAIN s : s[i] # LF
ClosedComment(s) ==
  /\ Len(s) >= 4 /\ s[1] = "/" /\ s[2] = "*"
  /\ {i \in 3 .. Len(s) - 1 : s[i] = "*" /\ s[i + 1] = "/"} = {Len(s) - 1}

(* What can not go on: a line comment before its line feed is not over, a  *)
(* comment that is not closed is nothing at all.                           *)
Blank(s) ==
  \/ Len(s) = 1 /\ s[1] \in Spaces
  \/ LineComment(s)
  \/ ClosedComment(s)

(* A number must not run into a word, an integer not into a dot.  Only     *)
(* behind a suffix may another number begin.                               *)
RunsOn(s, next) ==
  /\ Number(s)
  /\ \/ next \in WordChars /\ (next \in Digits => ~WithSuffix(s))
     \/ next = "." /\ All(s, Digits)

Opens(i) == At(i - 1) = "/" /\ At(i) \in {"/", "*"}

Nothing(i) == [offset |-> i - 1, length |-> 0]

(* The tokens from the i-th character on; where there is none, it ends.    *)
RECURSIVE Cut1(_)
Cut1(i) ==
  IF i > Size THEN <<>>
  ELSE LET blanks == {j \in i .. Size : Blank(Sub(i, j))}
           ends == {j \in i .. Size : Lexeme(Sub(i, j))}
       IN IF blanks # {} THEN Cut1(Max(blanks) + 1)
          ELSE IF ends = {} \/ Opens(i) THEN <<Nothing(i)>>
          ELSE LET j == Max(ends)
               IN IF RunsOn(Sub(i, j), At(j)) THEN <<Nothing(i)>>
                  ELSE <<[offset |-> i - 1, length |-> j - i + 1]>> \o Cut1(j + 1)

Spans == [i \in 1 .. Len(tokens) - 1 |-> [offset |-> tokens[i].offset, length |-> tokens[i].length]]
AfterLexer == tokens # <<>> /\ tokens[Len(tokens)].type = "eof"

(* The lexer accepts a file if it is a row of lexemes, blanks and comments *)
(* and cuts it where the longest ones end; it refuses every other.         *)
CutsLongest ==
  AfterLexer =>
    LET expected == Cut1(1)
    IN IF \E i \in DOMAIN expected : expected[i].length = 0
         THEN \E i \in DOMAIN tokens : tokens[i].type = "error"
         ELSE Spans = expected

(* Right or wrong, a file is cut in order: no two tokens overlap, and what *)
(* is between two of them, or before the EOF, is blanks and comments.      *)
RECURSIVE Blanks(_)
Blanks(s) ==
  \/ s = <<>>
  \/ \E n \in DOMAIN s :
       /\ Blank(SubSeq(s, 1, n))
       /\ LineComment(SubSeq(s, 1, n)) => n = Len(s) \/ s[n + 1] = LF
       /\ Blanks(SubSeq(s, n + 1, Len(s)))

TokensTile ==
  \A i \in DOMAIN tokens :
    LET begin == IF i = 1 THEN 0 ELSE tokens[i - 1].offset + tokens[i - 1].length
    IN begin <= tokens[i].offset /\ Blanks(Sub(begin + 1, tokens[i].offset))

RECURSIVE LinesOf(_)
LinesOf(s) ==
  LET feeds == {i \in DOMAIN s : s[i] = LF}
  IN IF feeds = {} THEN <<s>>
     ELSE <<SubSeq(s, 1, Min(feeds) - 1)>> \o LinesOf(SubSeq(s, Min(feeds) + 1, Len(s)))

WithoutCR(s) == IF s # <<>> /\ s[Len(s)] = CR THEN SubSeq(s, 1, Len(s) - 1) ELSE s

(* Every diagnostic of a lexed file is displayed at its line and column,   *)
(* and with the text of the line, whatever the turns of the lexer were in  *)
(* which the line feeds were consumed.                                     *)
LocationsRight ==
  AfterLexer =>
    /\ LET lines == LinesOf(text)
       IN /\ Len(newlines) = Len(lines)
          /\ \A n \in DOMAIN lines : Line(n) = WithoutCR(lines[n])
    /\ \A d \in {diagnostics[i] : i \in DOMAIN diagnostics} :
         LET feeds == {i \in 1 .. Size : text[i] = LF /\ i <= d.offset}
         IN Location(d.offset) =
              [line |-> Cardinality(feeds) + 1,
               column |-> d.offset - (IF feeds = {} THEN 0 ELSE Max(feeds)) + 1]

=============================================================================
