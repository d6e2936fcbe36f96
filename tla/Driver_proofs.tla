---------------------------- MODULE Driver_proofs ----------------------------
(***************************************************************************)
(* Proofs about a run of the compiler, for all command lines and files:    *)
(* what becomes of a file, and the status of the process.                  *)
(***************************************************************************)
EXTENDS Driver, TLAPS, SequenceTheorems, FiniteSetTheorems

-----------------------------------------------------------------------------
(* The inductive invariant.                                                *)

IsSeq(s) == s \in Seq({s[i] : i \in DOMAIN s})

Severities == {"warning", "error"}

Reported(s) == IsSeq(s) /\ \A i \in DOMAIN s : s[i].level \in Severities

HasError(s) == \E i \in DOMAIN s : s[i].level = "error"

Processing == {"lex", "parse", "analyze", "output", "generate"}

(* Everything reported is an error or a warning.                           *)
TypeInv ==
  /\ pc \in {"arguments", "open", "exit", "crashed"} \cup Processing
  /\ status \in {"success", "failure"}
  /\ logLevel \in {"debug", "info", "warning", "error"}
  /\ IsSeq(done)
  /\ Reported(diagnostics)

(* The flags that would have ended the passes before are not set.          *)
StopsPassed ==
  /\ pc = "parse" => "lexer" \notin config
  /\ pc = "analyze" => config \cap Stops \subseteq {"analyzer"}
  /\ pc \in {"output", "generate"} => config \cap Stops = {}

(* A file in work can be read, and no file is in work before the arguments *)
(* are; the status is that of the files before.                            *)
FileInWork ==
  /\ pc \in Processing => File # <<>>
  /\ pc = "arguments" => done = <<>>
  /\ pc # "exit" /\ done = <<>> => status = "success"

AllShown == pc = "generate" /\ logLevel # "error" => shown = Len(diagnostics)

IInv == TypeInv /\ StopsPassed /\ FileInWork /\ AllShown /\ CodeIfCorrect

-----------------------------------------------------------------------------
(* Sequences.                                                              *)

(* A sequence is made of its elements. *)
LEMMA SeqOfAny == ASSUME NEW S, NEW s \in Seq(S) PROVE IsSeq(s)
<1>1. Len(s) \in Nat /\ DOMAIN s = 1 .. Len(s)
  OBVIOUS
<1> DEFINE R == {s[i] : i \in DOMAIN s}
<1>2. s \in [1 .. Len(s) -> R]
  BY <1>1
<1> HIDE DEF R
<1>3. s \in Seq(R)
  BY <1>1, <1>2
<1> QED BY <1>3 DEF IsSeq, R

(* What one more element does to a sequence. *)
LEMMA Appended ==
  ASSUME NEW s, IsSeq(s), NEW x
  PROVE  /\ IsSeq(Append(s, x))
         /\ Len(s) \in Nat /\ DOMAIN s = 1 .. Len(s) /\ DOMAIN Append(s, x) = 1 .. Len(s) + 1
         /\ \A i \in DOMAIN s : i \in DOMAIN Append(s, x) /\ Append(s, x)[i] = s[i]
         /\ Append(s, x)[Len(s) + 1] = x
         /\ \A i \in DOMAIN Append(s, x) : i \in DOMAIN s \/ i = Len(s) + 1
         /\ Append(s, x) # <<>>
<1> DEFINE R == {s[i] : i \in DOMAIN s} \cup {x}
<1>1. s \in Seq({s[i] : i \in DOMAIN s})
  BY DEF IsSeq
<1>2. s \in Seq(R) /\ x \in R
  <2> DEFINE Q == {s[i] : i \in DOMAIN s}
  <2>1. Q \subseteq R
    OBVIOUS
  <2> HIDE DEF Q
  <2>2. s \in Seq(Q)
    BY <1>1 DEF Q
  <2>3. x \in R
    OBVIOUS
  <2> HIDE DEF R
  <2> QED BY <2>1, <2>2, <2>3
<1> HIDE DEF R
<1>3. Append(s, x) \in Seq(R)
  BY <1>2
<1>4. IsSeq(Append(s, x))
  BY <1>3, SeqOfAny
<1> QED BY <1>2, <1>3, <1>4

(* What two sequences make together. *)
LEMMA Joined ==
  ASSUME NEW s, NEW t, Reported(s), Reported(t)
  PROVE  Reported(s \o t)
<1> DEFINE R == {s[i] : i \in DOMAIN s} \cup {t[i] : i \in DOMAIN t}
<1>1. s \in Seq(R) /\ t \in Seq(R)
  <2> DEFINE P == {s[i] : i \in DOMAIN s}
             Q == {t[i] : i \in DOMAIN t}
  <2>1. P \subseteq R /\ Q \subseteq R
    OBVIOUS
  <2>2. s \in Seq(P) /\ t \in Seq(Q)
    BY DEF Reported, IsSeq
  <2> HIDE DEF P, Q, R
  <2> QED BY <2>1, <2>2
<1>2. \A x \in R : x.level \in Severities
  BY DEF Reported
<1> HIDE DEF R
<1>3. s \o t \in Seq(R)
  BY <1>1
<1>4. \A i \in DOMAIN (s \o t) : (s \o t)[i] \in R
  BY <1>3
<1> QED BY <1>2, <1>3, <1>4, SeqOfAny DEF Reported

(* One error more. *)
LEMMA OneReported ==
  ASSUME NEW s, Reported(s), NEW x, x.level \in Severities
  PROVE  Reported(Append(s, x))
<1> DEFINE t == Append(s, x)
<1>1. IsSeq(s) /\ \A i \in DOMAIN s : s[i].level \in Severities
  BY DEF Reported
<1>2. /\ IsSeq(t) /\ t[Len(s) + 1] = x
      /\ \A i \in DOMAIN s : t[i] = s[i]
      /\ \A i \in DOMAIN t : i \in DOMAIN s \/ i = Len(s) + 1
  BY <1>1, Appended
<1> HIDE DEF t
<1>3. \A i \in DOMAIN t : t[i].level \in Severities
  BY <1>1, <1>2, Zenon
<1> QED BY <1>2, <1>3 DEF Reported, t

(* The count of the errors tells whether there is one. *)
LEMMA CountTells ==
  ASSUME IsSeq(diagnostics)
  PROVE  ErrorCount > 0 <=> HasError(diagnostics)
<1> DEFINE errors == {i \in DOMAIN diagnostics : diagnostics[i].level = "error"}
<1>1. DOMAIN diagnostics = 1 .. Len(diagnostics) /\ Len(diagnostics) \in Nat
  BY DEF IsSeq
<1>2. IsFiniteSet(errors)
  <2>1. IsFiniteSet(1 .. Len(diagnostics))
    BY <1>1, FS_Interval
  <2>2. errors \subseteq 1 .. Len(diagnostics)
    BY <1>1
  <2> QED BY <2>1, <2>2, FS_Subset
<1>3. Cardinality(errors) \in Nat /\ (Cardinality(errors) = 0 <=> errors = {})
  BY <1>2, FS_CardinalityType, FS_EmptySet
<1>4. ErrorCount = Cardinality(errors)
  BY DEF ErrorCount
<1>5. errors = {} <=> ~HasError(diagnostics)
  BY DEF HasError
<1> HIDE DEF errors
<1> QED BY <1>3, <1>4, <1>5

(* The levels are ranked in their order. *)
LEMMA Ranks ==
  /\ Rank("debug") = 1 /\ Rank("info") = 2 /\ Rank("warning") = 3 /\ Rank("error") = 4
<1>1. DOMAIN Levels = 1 .. 4
  BY DEF Levels
<1>2. \A r \in 1 .. 4 : r = 1 \/ r = 2 \/ r = 3 \/ r = 4
  OBVIOUS
<1>3. Levels[1] = "debug" /\ Levels[2] = "info" /\ Levels[3] = "warning" /\ Levels[4] = "error"
  BY DEF Levels
<1>4. 1 \in DOMAIN Levels /\ 2 \in DOMAIN Levels /\ 3 \in DOMAIN Levels /\ 4 \in DOMAIN Levels
  BY <1>1
<1>5. /\ \A r \in DOMAIN Levels : Levels[r] = "debug" <=> r = 1
      /\ \A r \in DOMAIN Levels : Levels[r] = "info" <=> r = 2
      /\ \A r \in DOMAIN Levels : Levels[r] = "warning" <=> r = 3
      /\ \A r \in DOMAIN Levels : Levels[r] = "error" <=> r = 4
  BY <1>1, <1>2, <1>3
<1> QED BY <1>4, <1>5, Zenon DEF Rank

-----------------------------------------------------------------------------
(* The lexer.                                                              *)

(* A wrong token is reported as an error. *)
LEMMA PushErrorReports ==
  ASSUME Reported(diagnostics), NEW to, PushError(to)
  PROVE  Reported(diagnostics')
<1> DEFINE token == Token("error", <<>>, to)
<1>1. diagnostics' = Append(diagnostics, Error(token))
  BY DEF PushError
<1>2. Error(token).level = "error"
  BY DEF Error
<1>3. Error(token).level \in Severities
  BY <1>2 DEF Severities
<1> HIDE DEF token
<1> QED BY <1>1, <1>3, OneReported

(* The other ways to push report nothing. *)
LEMMA QuietPushes ==
  ASSUME Reported(diagnostics), NEW to, NEW kind, NEW name,
         Skip(to) \/ Push(to) \/ PushSymbol(kind, name, to) \/ PushText(kind, to)
  PROVE  Reported(diagnostics')
BY Zenon DEF Skip, Push, PushSymbol, PushText

(* What a number ends with is wrong or makes one token. *)
LEMMA PushNumberReports ==
  ASSUME Reported(diagnostics), NEW end, PushNumber(end)
  PROVE  Reported(diagnostics')
<1> DEFINE to == IF At(end) \in Suffixes THEN end + 1 ELSE end
<1>1. PushError(to) \/ PushText("number", to)
  BY Zenon DEF PushNumber
<1> HIDE DEF to
<1> QED BY <1>1, PushErrorReports, QuietPushes

(* A turn of the lexer reports errors only. *)
LEMMA ScanReports ==
  ASSUME Reported(diagnostics), Scan
  PROVE  Reported(diagnostics')
<1>1. CASE SkipSpace \/ SkipLine
  BY <1>1, QuietPushes, Zenon DEF SkipSpace, SkipLine
<1>2. CASE ScanWord \/ ScanPunctuation \/ ScanOperator
  BY <1>2, QuietPushes, Zenon DEF ScanWord, ScanPunctuation, ScanOperator
<1>3. CASE Unexpected
  BY <1>3, PushErrorReports, Zenon DEF Unexpected
<1>4. CASE SkipComment
  BY <1>4, PushErrorReports, QuietPushes, Zenon DEF SkipComment
<1>5. CASE ScanRadix
  BY <1>5, PushErrorReports, PushNumberReports, Zenon DEF ScanRadix
<1>6. CASE ScanDecimal
  BY <1>6, PushErrorReports, PushNumberReports, Zenon DEF ScanDecimal
<1>7. CASE ScanString
  BY <1>7, PushErrorReports, QuietPushes, Zenon DEF ScanString
<1>8. CASE ScanEscapedChar
  <2> DEFINE escape == At(index + 2)
  <2>1. \/ PushError(index + 2) \/ PushError(index + 3)
        \/ PushSymbol("char", CharEscapes[escape], index + 4)
    BY <1>8 DEF ScanEscapedChar
  <2> QED BY <2>1, PushErrorReports, QuietPushes, Zenon
<1>9. CASE ScanChar
  <2>1. PushError(index + 1) \/ PushError(index + 2) \/ PushText("char", index + 3)
    BY <1>9 DEF ScanChar
  <2> QED BY <2>1, PushErrorReports, QuietPushes, Zenon
<1> QED BY <1>1, <1>2, <1>3, <1>4, <1>5, <1>6, <1>7, <1>8, <1>9, Zenon DEF Scan

(* What a later pass reports. *)
LEMMA ReportsAreReported ==
  ASSUME NEW levels \in {{"error"}, {"warning", "error"}}, NEW more \in Reports(levels)
  PROVE  Reported(more)
<1> DEFINE D == {[level |-> l, offset |-> tokens[i].offset, length |-> tokens[i].length] :
                   l \in levels, i \in {1, Len(tokens)}}
<1>1. PICK n \in 0 .. MaxReports : more \in [1 .. n -> D]
  BY DEF Reports
<1>2. n \in Nat
  BY <1>1, MaxReportsAssumption
<1>3. \A d \in D : d.level \in Severities
  BY DEF Severities
<1> HIDE DEF D
<1>4. more \in Seq(D)
  BY <1>1, <1>2
<1>5. \A i \in DOMAIN more : more[i] \in D
  BY <1>1
<1> QED BY <1>3, <1>4, <1>5, SeqOfAny DEF Reported

-----------------------------------------------------------------------------
(* The steps.                                                              *)

(* As long as no file is done with, nothing can be wrong. *)
LEMMA NothingDone == done = <<>> => CodeIfCorrect
BY DEF CodeIfCorrect

(* The steps that leave alone what has been done. *)
LEMMA DoneKept ==
  ASSUME CodeIfCorrect, done' = done, config' = config, files' = files,
         logLevel' = logLevel, status' = status
  PROVE  CodeIfCorrect'
BY Zenon DEF CodeIfCorrect

(* A file that is done with adds what became of it. *)
LEMMA FileDone ==
  ASSUME IInv, NEW outcome, NEW all, EndFile(outcome, all),
         config' = config, files' = files, logLevel' = logLevel, Reported(diagnostics'),
         outcome = IF File = <<>> THEN "unreadable"
                   ELSE IF config \cap Stops # {} THEN "stopped"
                   ELSE IF HasError(all) THEN "refused" ELSE "compiled",
         outcome \in {"refused", "compiled"} /\ logLevel # "error" => shown = Len(all),
         status' = IF outcome \in {"unreadable", "refused"} THEN "failure" ELSE status,
         pc # "exit"
  PROVE  IInv'
<1> DEFINE one == [outcome |-> outcome, diagnostics |-> all, shown |-> shown]
           n == Len(done) + 1
<1>1. /\ TypeInv /\ FileInWork /\ CodeIfCorrect
      /\ IsSeq(done) /\ status \in {"success", "failure"}
  BY DEF IInv, TypeInv
<1>2. done' = Append(done, one) /\ pc' \in {"open", "exit"}
  BY DEF EndFile
<1>3. one.outcome = outcome /\ one.diagnostics = all /\ one.shown = shown
  OBVIOUS
<1> HIDE DEF one
<1>4. /\ IsSeq(done') /\ done' # <<>> /\ done'[n] = one
      /\ n \in DOMAIN done'
      /\ \A i \in DOMAIN done : i \in DOMAIN done' /\ done'[i] = done[i]
      /\ \A i \in DOMAIN done' : i \in DOMAIN done \/ i = n
  BY <1>1, <1>2, Appended
<1>5. TypeInv'
  <2>1. status' \in {"success", "failure"} /\ logLevel' \in {"debug", "info", "warning", "error"}
    BY <1>1 DEF TypeInv
  <2>2. pc' \in {"arguments", "open", "exit", "crashed"} \cup Processing
    BY <1>2
  <2> QED BY <1>4, <2>1, <2>2, Zenon DEF TypeInv
<1>6. StopsPassed' /\ FileInWork' /\ AllShown'
  BY <1>2, <1>4 DEF StopsPassed, FileInWork, AllShown, Processing
<1>7. File = Content(files[n])
  BY DEF File
<1> HIDE DEF n
<1>8. CodeIfCorrect'
  <2>1. ASSUME NEW i \in DOMAIN done'
        PROVE  done'[i].outcome =
                 IF Content(files[i]) = <<>> THEN "unreadable"
                 ELSE IF config \cap Stops # {} THEN "stopped"
                 ELSE IF HasError(done'[i].diagnostics) THEN "refused" ELSE "compiled"
    <3>1. CASE i \in DOMAIN done
      BY <1>1, <1>4, <3>1, Zenon DEF CodeIfCorrect, HasError
    <3>2. CASE i = n
      BY <1>3, <1>4, <1>7, <3>2, Zenon
    <3> QED BY <1>4, <3>1, <3>2
  <2>2. ASSUME NEW i \in DOMAIN done', done'[i].outcome \in {"refused", "compiled"},
               logLevel # "error"
        PROVE  done'[i].shown = Len(done'[i].diagnostics)
    <3>1. CASE i \in DOMAIN done
      BY <1>1, <1>4, <2>2, <3>1, Zenon DEF CodeIfCorrect
    <3>2. CASE i = n
      BY <1>3, <1>4, <2>2, <3>2, Zenon
    <3> QED BY <1>4, <3>1, <3>2
  <2>3. status' = "failure" <=> \E i \in DOMAIN done' : done'[i].outcome \in {"unreadable", "refused"}
    <3>1. status = "failure" <=> \E i \in DOMAIN done : done[i].outcome \in {"unreadable", "refused"}
      <4>1. CASE done = <<>>
        <5>1. status # "failure" /\ DOMAIN done = {}
          BY <1>1, <4>1 DEF FileInWork
        <5> QED BY <5>1
      <4>2. CASE done # <<>>
        BY <1>1, <4>2, Zenon DEF CodeIfCorrect
      <4> QED BY <4>1, <4>2
    <3>2. CASE outcome \in {"unreadable", "refused"}
      BY <1>3, <1>4, <3>2, Zenon
    <3>3. CASE outcome \notin {"unreadable", "refused"}
      BY <1>3, <1>4, <3>1, <3>3, Zenon
    <3> QED BY <3>2, <3>3
  <2> QED BY <2>1, <2>2, <2>3, Zenon DEF CodeIfCorrect, HasError
<1> QED BY <1>5, <1>6, <1>8, Zenon DEF IInv

(* The steps over the arguments. *)
LEMMA ArgumentsKeep ==
  ASSUME IInv,
         SetFlag \/ ConsumeFlag \/ PrintAndExit \/ RefuseFlag \/ AddFile \/ EndArguments
  PROVE  IInv'
<1>1. TypeInv /\ FileInWork
  BY DEF IInv
<1>2. pc = "arguments" /\ done' = done /\ lexVars' = lexVars
  BY Zenon DEF SetFlag, ConsumeFlag, PrintAndExit, RefuseFlag, AddFile, EndArguments, More
<1>3. done = <<>> /\ status = "success" /\ diagnostics' = diagnostics
  <2>1. done = <<>>
    BY <1>1, <1>2 DEF FileInWork
  <2>2. status = "success"
    BY <1>1, <1>2, <2>1 DEF FileInWork
  <2> QED BY <1>2, <2>1, <2>2 DEF lexVars
<1>4. /\ \/ pc' \in {"arguments", "open"} /\ status' = status
         \/ pc' = "exit" /\ status' \in {"success", "failure"}
      /\ logLevel' \in {logLevel, LevelOf(config)}
  <2>1. CASE SetFlag \/ AddFile
    BY <1>2, <2>1, Zenon DEF SetFlag, AddFile
  <2>2. CASE ConsumeFlag
    <3>1. logLevel' = logLevel
      BY <2>2 DEF ConsumeFlag
    <3>2. (pc' = pc /\ status' = status) \/ (pc' = "exit" /\ status' = "failure")
      BY <2>2, Zenon DEF ConsumeFlag, Exit
    <3> QED BY <1>2, <3>1, <3>2
  <2>3. CASE PrintAndExit \/ RefuseFlag
    BY <2>3, Zenon DEF PrintAndExit, RefuseFlag, Exit, argVars
  <2>4. CASE EndArguments
    <3>1. logLevel' = LevelOf(config)
      BY <2>4 DEF EndArguments
    <3>2. (pc' = "open" /\ status' = status) \/ (pc' = "exit" /\ status' = "failure")
      BY <2>4, Zenon DEF EndArguments, Exit
    <3> QED BY <3>1, <3>2
  <2> QED BY <2>1, <2>2, <2>3, <2>4
<1>5. LevelOf(config) \in {"debug", "info", "warning", "error"}
  BY DEF LevelOf
<1>6. TypeInv'
  <2>1. pc' \in {"arguments", "open", "exit", "crashed"} \cup Processing
    BY <1>4
  <2>2. /\ status' \in {"success", "failure"}
        /\ logLevel' \in {"debug", "info", "warning", "error"}
    BY <1>1, <1>4, <1>5 DEF TypeInv
  <2> QED BY <1>1, <1>2, <1>3, <2>1, <2>2, Zenon DEF TypeInv
<1>7. StopsPassed' /\ AllShown' /\ FileInWork'
  BY <1>2, <1>3, <1>4 DEF StopsPassed, AllShown, FileInWork, Processing
<1>8. CodeIfCorrect'
  BY <1>2, <1>3 DEF CodeIfCorrect
<1> QED BY <1>6, <1>7, <1>8 DEF IInv

(* The steps that stay with the file. *)
LEMMA PassesKeep ==
  ASSUME IInv,
         \/ OpenFile \/ Lex \/ Crash \/ AnalyzePhase \/ OutputDiagnostics
  PROVE  IInv'
<1>1. /\ TypeInv /\ StopsPassed /\ FileInWork /\ CodeIfCorrect
      /\ Reported(diagnostics) /\ logLevel \in {"debug", "info", "warning", "error"}
  BY DEF IInv, TypeInv
<1>2. /\ done' = done /\ config' = config /\ files' = files /\ logLevel' = logLevel
      /\ status' = status
  <2>1. CASE OpenFile
    BY <2>1 DEF OpenFile, argVars
  <2>2. CASE Lex
    BY <2>2 DEF Lex, argVars
  <2>3. CASE Crash
    BY <2>3 DEF Crash, argVars
  <2>4. CASE AnalyzePhase
    BY <2>4 DEF AnalyzePhase, argVars
  <2>5. CASE OutputDiagnostics
    BY <2>5 DEF OutputDiagnostics, argVars
  <2> QED BY <2>1, <2>2, <2>3, <2>4, <2>5
<1>3. CodeIfCorrect'
  BY <1>1, <1>2, DoneKept
<1>4. File' = File
  BY <1>2, Zenon DEF File
<1>5. ASSUME Reported(diagnostics'), pc' \in {"crashed"} \cup Processing
      PROVE  TypeInv'
  <2>1. pc' \in {"arguments", "open", "exit", "crashed"} \cup Processing
    BY <1>5
  <2> QED BY <1>1, <1>2, <1>5, <2>1, Zenon DEF TypeInv
<1>6. CASE OpenFile
  <2>1. pc = "open" /\ File # <<>> /\ pc' = "lex" /\ diagnostics' = <<>>
    BY <1>6 DEF OpenFile, LexerStart
  <2>2. Reported(diagnostics')
    <3>1. IsSeq(diagnostics') /\ DOMAIN diagnostics' = {}
      BY <2>1 DEF IsSeq
    <3> QED BY <3>1 DEF Reported
  <2>3. StopsPassed' /\ FileInWork' /\ AllShown'
    BY <1>1, <1>2, <1>4, <2>1 DEF StopsPassed, FileInWork, AllShown, Processing
  <2>4. TypeInv'
    BY <1>5, <2>1, <2>2 DEF Processing
  <2> QED BY <1>3, <2>3, <2>4 DEF IInv
<1>7. CASE Lex
  <2>1. pc = "lex" /\ pc' = "lex" /\ Scan
    BY <1>7 DEF Lex
  <2>2. Reported(diagnostics')
    BY <1>1, <2>1, ScanReports
  <2>3. StopsPassed' /\ FileInWork' /\ AllShown'
    BY <1>1, <1>2, <1>4, <2>1 DEF StopsPassed, FileInWork, AllShown, Processing
  <2>4. TypeInv'
    BY <1>5, <2>1, <2>2 DEF Processing
  <2> QED BY <1>3, <2>3, <2>4 DEF IInv
<1>8. CASE Crash
  <2>1. pc = "lex" /\ pc' = "crashed" /\ diagnostics' = diagnostics
    BY <1>8 DEF Crash, lexVars
  <2>2. Reported(diagnostics')
    BY <1>1, <2>1, Zenon DEF Reported, IsSeq
  <2>3. StopsPassed' /\ FileInWork' /\ AllShown'
    BY <1>1, <1>2, <1>4, <2>1 DEF StopsPassed, FileInWork, AllShown, Processing
  <2>4. TypeInv'
    BY <1>5, <2>1, <2>2
  <2> QED BY <1>3, <2>3, <2>4 DEF IInv
<1>9. CASE AnalyzePhase
  <2>1. PICK more \in Reports(IF phase = Phases THEN {"warning", "error"} ELSE {"error"}) :
          diagnostics' = diagnostics \o more
    BY <1>9, Zenon DEF AnalyzePhase
  <2>2. Reported(more)
    BY <2>1, ReportsAreReported
  <2>3. Reported(diagnostics')
    BY <1>1, <2>1, <2>2, Joined
  <2>4. pc = "analyze" /\ pc' = "analyze"
    BY <1>9 DEF AnalyzePhase
  <2>5. StopsPassed' /\ FileInWork' /\ AllShown'
    BY <1>1, <1>2, <1>4, <2>4 DEF StopsPassed, FileInWork, AllShown, Processing
  <2>6. TypeInv'
    BY <1>5, <2>3, <2>4 DEF Processing
  <2> QED BY <1>3, <2>5, <2>6 DEF IInv
<1>10. CASE OutputDiagnostics
  <2> DEFINE hidden == {i \in DOMAIN diagnostics : Rank(diagnostics[i].level) < Rank(logLevel)}
  <2>1. /\ pc = "output" /\ pc' = "generate" /\ diagnostics' = diagnostics
        /\ hidden = {} => shown' = Len(diagnostics)
    BY <1>10 DEF OutputDiagnostics, lexVars
  <2>2. logLevel # "error" => hidden = {}
    <3>1. \A i \in DOMAIN diagnostics : diagnostics[i].level \in {"warning", "error"}
      BY <1>1 DEF Reported, Severities
    <3>2. logLevel # "error" => logLevel \in {"debug", "info", "warning"}
      BY <1>1
    <3>3. \A l \in {"warning", "error"}, m \in {"debug", "info", "warning"} : ~(Rank(l) < Rank(m))
      BY Ranks
    <3> QED BY <3>1, <3>2, <3>3, Zenon
  <2> HIDE DEF hidden
  <2>3. Reported(diagnostics')
    BY <1>1, <2>1, Zenon DEF Reported, IsSeq
  <2>4. StopsPassed' /\ FileInWork'
    BY <1>1, <1>2, <1>4, <2>1 DEF StopsPassed, FileInWork, Processing
  <2>5. AllShown'
    BY <1>2, <2>1, <2>2, Zenon DEF AllShown
  <2>6. TypeInv'
    BY <1>5, <2>1, <2>3 DEF Processing
  <2> QED BY <1>3, <2>4, <2>5, <2>6 DEF IInv
<1> QED BY <1>6, <1>7, <1>8, <1>9, <1>10

(* The steps that may end the work on a file. *)
LEMMA FileEndsKeep ==
  ASSUME IInv, FailToOpen \/ EndLexer \/ Parse \/ EndAnalysis \/ Generate
  PROVE  IInv'
<1>1. /\ TypeInv /\ StopsPassed /\ FileInWork /\ AllShown /\ CodeIfCorrect
      /\ Reported(diagnostics)
  BY DEF IInv, TypeInv
<1>2. config' = config /\ files' = files /\ logLevel' = logLevel
  <2>1. CASE FailToOpen
    BY <2>1 DEF FailToOpen, argVars
  <2>2. CASE EndLexer
    BY <2>2 DEF EndLexer, argVars
  <2>3. CASE Parse
    BY <2>3 DEF Parse, argVars
  <2>4. CASE EndAnalysis
    BY <2>4 DEF EndAnalysis, argVars
  <2>5. CASE Generate
    BY <2>5 DEF Generate, argVars
  <2> QED BY <2>1, <2>2, <2>3, <2>4, <2>5
<1>3. CASE FailToOpen
  <2>1. /\ pc = "open" /\ File = <<>> /\ EndFile("unreadable", <<>>) /\ status' = "failure"
        /\ diagnostics' = diagnostics
    BY <1>3 DEF FailToOpen, lexVars
  <2>2. Reported(diagnostics')
    BY <1>1, <2>1, Zenon DEF Reported, IsSeq
  <2> QED BY <1>2, <2>1, <2>2, FileDone
(* A pass after which a flag may stop the file. *)
<1>4. ASSUME NEW stop \in Stops, NEW next, NEW all, StopOrGo(stop, next, all),
             pc \in Processing, status' = status, Reported(diagnostics'),
             next \in {"parse", "analyze", "output"},
             stop \notin config =>
               /\ next = "parse" => "lexer" \notin config
               /\ next = "analyze" => config \cap Stops \subseteq {"analyzer"}
               /\ next = "output" => config \cap Stops = {}
      PROVE  IInv'
  <2>1. File # <<>>
    BY <1>1, <1>4 DEF FileInWork
  <2>2. CASE stop \in config
    <3>1. EndFile("stopped", all)
      BY <1>4, <2>2 DEF StopOrGo
    <3>2. config \cap Stops # {} /\ pc # "exit"
      BY <1>4, <2>2 DEF Processing
    <3> QED BY <1>2, <1>4, <2>1, <3>1, <3>2, FileDone
  <2>3. CASE stop \notin config
    <3>1. pc' = next /\ done' = done
      BY <1>4, <2>3 DEF StopOrGo
    <3>2. CodeIfCorrect'
      BY <1>1, <1>2, <1>4, <3>1, DoneKept
    <3>3. TypeInv'
      <4>1. pc' \in {"arguments", "open", "exit", "crashed"} \cup Processing
        BY <1>4, <3>1 DEF Processing
      <4> QED BY <1>1, <1>2, <1>4, <3>1, <4>1, Zenon DEF TypeInv
    <3>4. File' = File
      BY <1>2, <3>1, Zenon DEF File
    <3>5. StopsPassed'
      BY <1>2, <1>4, <2>3, <3>1 DEF StopsPassed
    <3>6. FileInWork' /\ AllShown'
      BY <1>1, <1>4, <2>1, <3>1, <3>4 DEF FileInWork, AllShown, Processing
    <3> QED BY <3>2, <3>3, <3>5, <3>6 DEF IInv
  <2> QED BY <2>2, <2>3
<1>5. CASE EndLexer
  <2>1. /\ pc = "lex" /\ StopOrGo("lexer", "parse", diagnostics) /\ status' = status
        /\ diagnostics' = diagnostics
    BY <1>5 DEF EndLexer, PushEof
  <2>2. Reported(diagnostics')
    BY <1>1, <2>1, Zenon DEF Reported, IsSeq
  <2> QED BY <1>4, <2>1, <2>2 DEF Stops, Processing
<1>6. CASE Parse
  <2>1. PICK more \in Reports({"error"}) :
          /\ diagnostics' = diagnostics \o more
          /\ StopOrGo("parser", "analyze", diagnostics \o more)
    BY <1>6, Zenon DEF Parse
  <2>2. pc = "parse" /\ status' = status
    BY <1>6 DEF Parse
  <2>3. Reported(diagnostics')
    <3>1. Reported(more)
      BY ReportsAreReported
    <3> QED BY <1>1, <2>1, <3>1, Joined
  <2>4. "parser" \notin config => config \cap Stops \subseteq {"analyzer"}
    BY <1>1, <2>2 DEF StopsPassed, Stops
  <2> DEFINE all == diagnostics \o more
  <2>5. StopOrGo("parser", "analyze", all)
    BY <2>1
  <2> HIDE DEF all
  <2> QED BY <1>4, <2>2, <2>3, <2>4, <2>5 DEF Stops, Processing
<1>7. CASE EndAnalysis
  <2>1. /\ pc = "analyze" /\ StopOrGo("analyzer", "output", diagnostics) /\ status' = status
        /\ diagnostics' = diagnostics
    BY <1>7 DEF EndAnalysis, lexVars
  <2>2. Reported(diagnostics')
    BY <1>1, <2>1, Zenon DEF Reported, IsSeq
  <2>3. "analyzer" \notin config => config \cap Stops = {}
    BY <1>1, <2>1 DEF StopsPassed, Stops
  <2> QED BY <1>4, <2>1, <2>2, <2>3 DEF Stops, Processing
<1>8. CASE Generate
  <2>1. /\ pc = "generate" /\ diagnostics' = diagnostics
        /\ \/ ErrorCount > 0 /\ EndFile("refused", diagnostics) /\ status' = "failure"
           \/ ~(ErrorCount > 0) /\ EndFile("compiled", diagnostics) /\ status' = status
    BY <1>8 DEF Generate, lexVars
  <2>2. Reported(diagnostics')
    BY <1>1, <2>1, Zenon DEF Reported, IsSeq
  <2>3. File # <<>> /\ config \cap Stops = {} /\ (logLevel # "error" => shown = Len(diagnostics))
    BY <1>1, <2>1 DEF FileInWork, StopsPassed, AllShown, Processing
  <2>4. ErrorCount > 0 <=> HasError(diagnostics)
    BY <1>1, CountTells DEF Reported
  <2>5. CASE ErrorCount > 0
    BY <1>2, <2>1, <2>2, <2>3, <2>4, <2>5, FileDone
  <2>6. CASE ~(ErrorCount > 0)
    BY <1>2, <2>1, <2>2, <2>3, <2>4, <2>6, FileDone
  <2> QED BY <2>5, <2>6
<1> QED BY <1>3, <1>5, <1>6, <1>7, <1>8

-----------------------------------------------------------------------------
(* The theorems.                                                           *)

(* Before anything is done. *)
LEMMA InitHolds == Init => IInv
<1> SUFFICES ASSUME Init PROVE IInv
  OBVIOUS
<1>1. /\ pc = "arguments" /\ status = "success" /\ logLevel = "warning"
      /\ done = <<>> /\ diagnostics = <<>>
  BY DEF Init
<1>2. IsSeq(done) /\ IsSeq(diagnostics) /\ DOMAIN diagnostics = {}
  BY <1>1 DEF IsSeq
<1>3. TypeInv
  BY <1>1, <1>2 DEF TypeInv, Reported
<1> QED BY <1>1, <1>3, NothingDone DEF IInv, StopsPassed, FileInWork, AllShown, Processing

(* Every step of the compiler keeps the invariant. *)
LEMMA NextKeeps == IInv /\ [Next]_vars => IInv'
<1> SUFFICES ASSUME IInv, [Next]_vars PROVE IInv'
  OBVIOUS
<1>1. CASE UNCHANGED vars
  <2>1. /\ pc' = pc /\ config' = config /\ files' = files /\ status' = status
        /\ logLevel' = logLevel /\ shown' = shown /\ done' = done /\ diagnostics' = diagnostics
    BY <1>1 DEF vars, lexVars
  <2> QED BY <2>1, Zenon DEF IInv, TypeInv, StopsPassed, FileInWork, AllShown, CodeIfCorrect,
                 Reported, IsSeq, File
<1>2. CASE Next
  BY <1>1, <1>2, ArgumentsKeep, PassesKeep, FileEndsKeep, Zenon DEF Next, Stays
<1> QED BY <1>1, <1>2

(* What has been done agrees with the flags that are set, with what can be *)
(* read and with what was found.                                           *)
THEOREM InvariantHolds == Spec => []IInv
BY InitHolds, NextKeeps, PTL DEF Spec

(* Code is written for the files that are correct and for no other, all    *)
(* that was found is displayed, and the status tells of every file: main   *)
(* of iirac, for all command lines and any reports of the passes.          *)
THEOREM CodeOnlyIfCorrect == Spec => []CodeIfCorrect
<1>1. IInv => CodeIfCorrect
  BY DEF IInv
<1> QED BY <1>1, InvariantHolds, PTL

=============================================================================
