------------------------------- MODULE Lexer --------------------------------
(***************************************************************************)
(* The lexer and the positions it leaves for diagnostics                   *)
(* (iira/source/ii_lexer.c, ii_source.c): the characters of a file are cut *)
(* into tokens, and the offset of every line is noted on the way.          *)
(*                                                                         *)
(* One action is one turn of the main loop.  Offsets count from zero, as   *)
(* in the code; the type of a token without a symbol is its text.          *)
(***************************************************************************)
EXTENDS Integers, Sequences, FiniteSetsExt

CONSTANTS
  Chars,
  Keywords,  \* the words registered first, names of primitive types included
  PageSize   \* files are mapped into memory by whole pages

ASSUME CharsAssumption == Keywords \subseteq Seq(Chars)
ASSUME PageSizeAssumption == PageSize \in Nat \ {0}

VARIABLES
  text,         \* the file
  index,        \* current_index
  tokens,
  symbols,      \* symbol_metadata: a kind for every text
  newlines,     \* newline_offsets
  diagnostics   \* of this file, from the lexer and the passes after it

lexVars == <<text, index, tokens, symbols, newlines, diagnostics>>

-----------------------------------------------------------------------------
(* Characters.                                                             *)

NUL == "nul"
LF == "lf"
CR == "cr"
Quote == "quote"
Apostrophe == "'"
Backslash == "backslash"

Spaces == {" ", "tab", LF, CR}
Digits == {"0", "1", "2", "7", "8", "9"}
HexLetters == {"a", "b", "d", "f", "F", "D"}
Letters == HexLetters \cup {"i", "n", "o", "O", "r", "s", "t", "x", "X", "B", "z"}
WordChars == Letters \cup Digits \cup {"_"}

(* The digits after 0x, 0b and 0o.                                         *)
RadixDigits ==
  [c \in {"x", "X", "b", "B", "o", "O"} |->
     CASE c \in {"x", "X"} -> Digits \cup HexLetters
       [] c \in {"b", "B"} -> {"0", "1"}
       [] c \in {"o", "O"} -> Digits \ {"8", "9"}]

Suffixes == {"f", "F", "d", "D"}
Singles == {"{", "}", "(", ")", "[", "]", "?", ":", ";", ",", ".", "$", "~", "^", "%"}

(* What makes one token with the character before it.                      *)
Second ==
  [c \in {"=", "!", "<", ">", "+", "-", "*", "/", "&", "|"} |-> IF c \in {"&", "|"} THEN c ELSE "="]

StringEscapes == {"n", "t", "r", "0", Backslash, Quote}

(* An escape in a character literal, and the text it is interned as.       *)
CharEscapes ==
  [c \in {"n", "t", "r", "0", Backslash, Apostrophe} |->
     CASE c = "n" -> <<LF>> [] c = "t" -> <<"tab">> [] c = "r" -> <<CR>> [] c = "0" -> <<>>
       [] c \in {Backslash, Apostrophe} -> <<c>>]

Size == Len(text)

(* _peek_current and _peek_next: NUL behind the end.                       *)
At(i) == IF i < Size THEN text[i + 1] ELSE NUL
Ch == At(index)

(* The first place from i on where a scan stops, the end at the latest.    *)
Upto(i, Stops(_)) == Min({j \in i .. Size : j = Size \/ Stops(j)})
Past(i, chars) == Upto(i, LAMBDA j : At(j) \notin chars)

Text(to) == SubSeq(text, index + 1, to)

(* A text is kept as a C string.                                           *)
CString(s) == SubSeq(s, 1, Min({i - 1 : i \in {j \in DOMAIN s : s[j] = NUL}} \cup {Len(s)}))

Is(c) == index < Size /\ Ch = c

-----------------------------------------------------------------------------
(* Advancing and pushing tokens.                                           *)

(* Mutant: a line feed is noted where it is, not where the line begins.    *)
LineStartsAtFeed(i, j) ==
  SelectSeq([k \in 1 .. j - i |-> i + k - 1], LAMBDA n : At(n) = LF)

(* The lines that begin between two offsets.                               *)
LineStarts(i, j) == SelectSeq([k \in 1 .. j - i |-> i + k], LAMBDA n : At(n - 1) = LF)

Advance(to) ==
  /\ index' = to
  /\ newlines' = newlines \o LineStarts(index, to)
  /\ UNCHANGED text

Token(type, value, to) ==
  [type |-> type, value |-> value, offset |-> index, length |-> to - index]

Skip(to) == Advance(to) /\ UNCHANGED <<tokens, symbols, diagnostics>>

Push(to) ==
  /\ Advance(to)
  /\ tokens' = Append(tokens, Token(Text(to), <<>>, to))
  /\ UNCHANGED <<symbols, diagnostics>>

Error(span) == [level |-> "error", offset |-> span.offset, length |-> span.length]

PushError(to) ==
  LET token == Token("error", <<>>, to)
  IN /\ Advance(to)
     /\ tokens' = Append(tokens, token)
     /\ diagnostics' = Append(diagnostics, Error(token))
     /\ UNCHANGED symbols

(* A text keeps the kind it was first given.                               *)
PushSymbol(kind, name, to) ==
  LET kept == IF name \in DOMAIN symbols THEN symbols[name] ELSE kind
  IN /\ Advance(to)
     /\ symbols' = [n \in DOMAIN symbols \cup {name} |-> IF n = name THEN kept ELSE symbols[n]]
     /\ tokens' = Append(tokens, Token(kept, name, to))
     /\ UNCHANGED diagnostics

PushText(kind, to) == PushSymbol(kind, CString(Text(to)), to)

-----------------------------------------------------------------------------
(* The turns of the main loop.                                             *)

(* Mutant: the space is looked at and not consumed.                        *)
SkipSpacePeeked == index < Size /\ Ch \in Spaces /\ Skip(index)

SkipSpace == index < Size /\ Ch \in Spaces /\ Skip(index + 1)

ScanWord ==
  /\ index < Size /\ Ch \in WordChars \ Digits
  /\ PushText("identifier", Past(index + 1, WordChars))

StartsNumber == index < Size /\ (Ch \in Digits \/ (Ch = "." /\ At(index + 1) \in Digits))
HasRadix == Is("0") /\ At(index + 1) \in DOMAIN RadixDigits

(* Mutant: what follows the suffix is not looked at.                       *)
PushNumberUnseen(end) == PushText("number", IF At(end) \in Suffixes THEN end + 1 ELSE end)

PushNumber(end) ==
  LET to == IF At(end) \in Suffixes THEN end + 1 ELSE end
  IN IF At(to) \in WordChars \ Digits THEN PushError(to) ELSE PushText("number", to)

ScanRadix ==
  /\ HasRadix
  /\ LET radix == At(index + 1)
         end == Past(index + 2, RadixDigits[radix])
         invalid == IF radix \in {"x", "X"} THEN WordChars \ Digits ELSE WordChars \ {"_"}
     IN IF At(end) \in invalid THEN PushError(end) ELSE PushNumber(end)

(* A number may begin with the dot, and no number ends with it.            *)
ScanDecimal ==
  /\ StartsNumber /\ ~HasRadix
  /\ LET end == Past(index, Digits)
     IN IF At(end) # "." THEN PushNumber(end)
        ELSE IF At(end + 1) \in Digits THEN PushNumber(Past(end + 1, Digits))
        ELSE PushError(end)

ScanPunctuation == index < Size /\ Ch \in Singles /\ ~StartsNumber /\ Push(index + 1)

StartsComment == Is("/") /\ At(index + 1) \in {"/", "*"}

ScanOperator ==
  /\ index < Size /\ Ch \in DOMAIN Second /\ ~StartsComment
  /\ Push(IF At(index + 1) = Second[Ch] THEN index + 2 ELSE index + 1)

SkipLine ==
  /\ StartsComment /\ At(index + 1) = "/"
  /\ Skip(Upto(index + 2, LAMBDA j : At(j) = LF))

(* Mutant: the star that opens a comment may close it.                     *)
SkipCommentAtOnce ==
  /\ StartsComment /\ At(index + 1) = "*"
  /\ LET end == Upto(index + 1, LAMBDA j : At(j) = "*" /\ At(j + 1) = "/")
     IN IF end = Size THEN PushError(end) ELSE Skip(end + 2)

SkipComment ==
  /\ StartsComment /\ At(index + 1) = "*"
  /\ LET end == Upto(index + 2, LAMBDA j : At(j) = "*" /\ At(j + 1) = "/")
     IN IF end = Size THEN PushError(end) ELSE Skip(end + 2)

(* Where a string that is read from i on ends, or is given up.             *)
StringStop[i \in 0 .. Size] ==
  IF i = Size \/ At(i) = Quote THEN i
  ELSE IF At(i) # Backslash THEN StringStop[i + 1]
  ELSE IF At(i + 1) \in StringEscapes THEN StringStop[i + 2]
  ELSE i

ScanString ==
  /\ Is(Quote)
  /\ LET stop == StringStop[index + 1]
     IN IF stop = Size THEN PushError(Size)
        ELSE IF At(stop) = Backslash THEN PushError(stop + 1)
        ELSE PushText("string", stop + 1)

(* What follows an error is read as if nothing had been before it.         *)
ScanEscapedChar ==
  /\ Is(Apostrophe) /\ At(index + 1) = Backslash
  /\ LET escape == At(index + 2)
     IN CASE escape \notin DOMAIN CharEscapes -> PushError(index + 2)
          [] escape \in DOMAIN CharEscapes /\ At(index + 3) # Apostrophe -> PushError(index + 3)
          [] escape \in DOMAIN CharEscapes /\ At(index + 3) = Apostrophe ->
               PushSymbol("char", CharEscapes[escape], index + 4)

(* At the end of the file the character is read from behind it: that is    *)
(* zero, unless the file fills its last page.  Then it is what is mapped   *)
(* there, no line feed, or nothing is.                                     *)
ReadsPastPage == Is(Apostrophe) /\ index + 1 = Size /\ Size % PageSize = 0

ScanChar ==
  /\ Is(Apostrophe) /\ At(index + 1) # Backslash
  /\ CASE At(index + 1) = Apostrophe -> PushError(index + 1)
       [] At(index + 1) # Apostrophe /\ At(index + 2) # Apostrophe -> PushError(index + 2)
       [] At(index + 1) # Apostrophe /\ At(index + 2) = Apostrophe -> PushText("char", index + 3)

Unexpected ==
  /\ index < Size
  /\ Ch \notin Spaces \cup WordChars \cup Singles \cup DOMAIN Second \cup {Quote, Apostrophe}
  /\ PushError(index + 1)

Scan ==
  \/ SkipSpace \/ ScanWord \/ ScanRadix \/ ScanDecimal \/ ScanPunctuation \/ ScanOperator
  \/ SkipLine \/ SkipComment \/ ScanString \/ ScanEscapedChar \/ ScanChar \/ Unexpected

AtEnd == index >= Size

PushEof ==
  /\ AtEnd
  /\ tokens' = Append(tokens, Token("eof", <<>>, index))
  /\ UNCHANGED <<text, index, symbols, newlines, diagnostics>>

(* A new context for a file.                                               *)
LexerStart(file) ==
  /\ text' = file
  /\ index' = 0
  /\ tokens' = <<>>
  /\ symbols' = [n \in Keywords |-> "keyword"]
  /\ newlines' = <<0>>
  /\ diagnostics' = <<>>

-----------------------------------------------------------------------------
(* Positions.                                                              *)

(* The search for the last line that begins at an offset or before it.     *)
Search(offset) ==
  LET lines == Len(newlines)
      Best[low \in 0 .. lines, high \in 0 .. lines - 1, best \in 0 .. lines - 1] ==
        IF low > high THEN best
        ELSE LET mid == low + (high - low) \div 2
             IN IF newlines[mid + 1] <= offset THEN Best[mid + 1, high, mid]
                ELSE IF mid = 0 THEN best
                ELSE Best[low, mid - 1, best]
  IN Best[0, lines - 1, 0]

Location(offset) ==
  LET best == Search(offset)
  IN [line |-> best + 1, column |-> offset - newlines[best + 1] + 1]

(* The text of a line, for display.                                        *)
Line(n) ==
  LET start == newlines[n]
      end == IF n < Len(newlines) THEN newlines[n + 1] - 1 ELSE Size
      stripped == IF end > start /\ At(end - 1) = CR THEN end - 1 ELSE end
  IN SubSeq(text, start + 1, stripped)

=============================================================================
