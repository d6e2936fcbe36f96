------------------------------- MODULE Driver -------------------------------
(***************************************************************************)
(* A run of the compiler (iirac/source/iic_main.c, iic_arguments.c,        *)
(* iira/source/ii_diagnostics.c): arguments are processed, then every file *)
(* in turn is lexed, parsed, analysed and, if it is correct, compiled.     *)
(*                                                                         *)
(* Lexer is the lexer of the file in work.  Parser, the modules on the     *)
(* analysis and Codegen say what the passes after it do; here a pass       *)
(* reports what it likes.                                                  *)
(***************************************************************************)
EXTENDS Lexer

CONSTANTS
  Paths,
  Content(_),    \* of a file, empty if it can not be read
  CommandLines,  \* sequences of flags and paths
  MaxReports     \* by one pass of one file

Stops == {"lexer", "parser", "analyzer"}
SetFlags == {"no-warn", "verbose", "debug", "trace"} \cup Stops
ConsumeFlags == {"output", "max-errors"}
Flags == SetFlags \cup ConsumeFlags \cup {"help", "version"}
Arguments ==
  [flag : Flags \cup {"unknown"}, path : {<<>>}] \cup [flag : {"none"}, path : Paths]

ASSUME ContentAssumption == \A path \in Paths : Content(path) \in Seq(Chars)
ASSUME CommandLinesAssumption == CommandLines \subseteq Seq(Arguments)
ASSUME MaxReportsAssumption == MaxReports \in Nat

VARIABLES
  argv,
  pc,
  arg,       \* the next argument
  config,    \* the flags that are set
  files,     \* input_files
  status,    \* of the process
  logLevel,
  hadError,  \* of the analysis of the file in work
  phase,     \* of its analysis
  shown,     \* how many of its diagnostics are displayed
  done       \* what became of the files before

argVars == <<argv, arg, config, files, logLevel>>
fileVars == <<text, index, tokens, symbols, newlines>>
vars == <<argv, pc, arg, config, files, status, logLevel, hadError, phase, shown, done, lexVars>>

-----------------------------------------------------------------------------
(* Arguments.                                                              *)

More(flags) == pc = "arguments" /\ arg <= Len(argv) /\ argv[arg].flag \in flags

Exit(result) == pc' = "exit" /\ status' = result

SetFlag ==
  /\ More(SetFlags)
  /\ config' = config \cup {argv[arg].flag}
  /\ arg' = arg + 1
  /\ UNCHANGED <<argv, pc, files, status, logLevel, hadError, phase, shown, done, lexVars>>

(* The argument after the flag is its value, whatever it is.               *)
ConsumeFlag ==
  /\ More(ConsumeFlags)
  /\ IF arg < Len(argv) THEN arg' = arg + 2 /\ UNCHANGED <<pc, status>>
                        ELSE Exit("failure") /\ UNCHANGED arg
  /\ UNCHANGED <<argv, config, files, logLevel, hadError, phase, shown, done, lexVars>>

PrintAndExit ==
  /\ More({"help", "version"})
  /\ Exit("success")
  /\ UNCHANGED <<argVars, hadError, phase, shown, done, lexVars>>

RefuseFlag ==
  /\ More({"unknown"})
  /\ Exit("failure")
  /\ UNCHANGED <<argVars, hadError, phase, shown, done, lexVars>>

AddFile ==
  /\ More({"none"})
  /\ files' = Append(files, argv[arg].path)
  /\ arg' = arg + 1
  /\ UNCHANGED <<argv, pc, config, status, logLevel, hadError, phase, shown, done, lexVars>>

Levels == <<"debug", "info", "warning", "error">>
Rank(level) == CHOOSE r \in DOMAIN Levels : Levels[r] = level

(* Each of the flags overrides the ones before it.                         *)
LevelOf(flags) ==
  IF "debug" \in flags THEN "debug"
  ELSE IF "verbose" \in flags THEN "info"
  ELSE IF "no-warn" \in flags THEN "error"
  ELSE "warning"

EndArguments ==
  /\ pc = "arguments" /\ arg > Len(argv)
  /\ logLevel' = LevelOf(config)
  /\ IF files = <<>> THEN Exit("failure") ELSE pc' = "open" /\ UNCHANGED status
  /\ UNCHANGED <<argv, arg, config, files, hadError, phase, shown, done, lexVars>>

-----------------------------------------------------------------------------
(* One file after the other.                                               *)

EndFile(outcome, all) ==
  /\ done' = Append(done, [outcome |-> outcome, diagnostics |-> all, shown |-> shown])
  /\ pc' = IF Len(done) + 1 < Len(files) THEN "open" ELSE "exit"

(* Where the flag is set, the file is left without its diagnostics.        *)
StopOrGo(stop, next, all) ==
  IF stop \in config THEN EndFile("stopped", all) ELSE pc' = next /\ UNCHANGED done

File == Content(files[Len(done) + 1])

FailToOpen ==
  /\ pc = "open" /\ File = <<>>
  /\ EndFile("unreadable", <<>>)
  /\ status' = "failure"
  /\ UNCHANGED <<argVars, hadError, phase, shown, lexVars>>

OpenFile ==
  /\ pc = "open" /\ File # <<>>
  /\ LexerStart(File)
  /\ hadError' = FALSE /\ phase' = 1 /\ shown' = 0
  /\ pc' = "lex"
  /\ UNCHANGED <<argVars, status, done>>

Lex ==
  /\ pc = "lex" /\ Scan
  /\ UNCHANGED <<argVars, pc, status, hadError, phase, shown, done>>

(* A read behind the mapped pages may end the process.                     *)
Crash ==
  /\ pc = "lex" /\ ReadsPastPage
  /\ pc' = "crashed"
  /\ UNCHANGED <<argVars, status, hadError, phase, shown, done, lexVars>>

EndLexer ==
  /\ pc = "lex" /\ PushEof
  /\ StopOrGo("lexer", "parse", diagnostics)
  /\ UNCHANGED <<argVars, status, hadError, phase, shown>>

(* What a pass may report: it is about a token, any one.                   *)
Reports(levels) ==
  UNION {[1 .. n -> {[level |-> l, offset |-> tokens[i].offset, length |-> tokens[i].length] :
                       l \in levels, i \in {1, Len(tokens)}}] : n \in 0 .. MaxReports}

(* The parser runs whatever the lexer found, and the analysis whatever the *)
(* parser found.                                                           *)
Parse ==
  /\ pc = "parse"
  /\ \E more \in Reports({"error"}) :
       /\ diagnostics' = diagnostics \o more
       /\ StopOrGo("parser", "analyze", diagnostics \o more)
  /\ UNCHANGED <<argVars, status, hadError, phase, shown, fileVars>>

(* Declarations, inheritance, types, offsets, bodies.  No phase follows    *)
(* one with an error; only the last has warnings.                          *)
Phases == 5

AnalyzePhase ==
  /\ pc = "analyze" /\ phase <= Phases /\ ~hadError
  /\ \E more \in Reports(IF phase = Phases THEN {"warning", "error"} ELSE {"error"}) :
       /\ diagnostics' = diagnostics \o more
       /\ hadError' = \E i \in DOMAIN more : more[i].level = "error"
  /\ phase' = phase + 1
  /\ UNCHANGED <<argVars, pc, status, shown, done, fileVars>>

EndAnalysis ==
  /\ pc = "analyze" /\ (phase > Phases \/ hadError)
  /\ StopOrGo("analyzer", "output", diagnostics)
  /\ UNCHANGED <<argVars, status, hadError, phase, shown, lexVars>>

(* The first diagnostic below the level ends the display.                  *)
OutputDiagnostics ==
  /\ pc = "output"
  /\ LET hidden == {i \in DOMAIN diagnostics : Rank(diagnostics[i].level) < Rank(logLevel)}
     IN shown' = IF hidden = {} THEN Len(diagnostics) ELSE Min(hidden) - 1
  /\ pc' = "generate"
  /\ UNCHANGED <<argVars, status, hadError, phase, done, lexVars>>

(* Mutant: the errors of the analysis count alone.                         *)
ErrorCountOfAnalysis == IF hadError THEN 1 ELSE 0

ErrorCount == Cardinality({i \in DOMAIN diagnostics : diagnostics[i].level = "error"})

Generate ==
  /\ pc = "generate"
  /\ IF ErrorCount > 0 THEN EndFile("refused", diagnostics) /\ status' = "failure"
                       ELSE EndFile("compiled", diagnostics) /\ UNCHANGED status
  /\ UNCHANGED <<argVars, hadError, phase, shown, lexVars>>

-----------------------------------------------------------------------------
Init ==
  /\ argv \in CommandLines
  /\ pc = "arguments"
  /\ arg = 1 /\ config = {} /\ files = <<>>
  /\ status = "success" /\ logLevel = "warning"
  /\ hadError = FALSE /\ phase = 1 /\ shown = 0 /\ done = <<>>
  /\ text = <<>> /\ index = 0 /\ tokens = <<>> /\ symbols = <<>> /\ newlines = <<>>
  /\ diagnostics = <<>>

Ended == pc \in {"exit", "crashed"}
Stays == Ended /\ UNCHANGED vars

Next ==
  \/ SetFlag \/ ConsumeFlag \/ PrintAndExit \/ RefuseFlag \/ AddFile \/ EndArguments
  \/ FailToOpen \/ OpenFile \/ Lex \/ Crash \/ EndLexer
  \/ Parse \/ AnalyzePhase \/ EndAnalysis \/ OutputDiagnostics \/ Generate
  \/ Stays

Spec == Init /\ [][Next]_vars /\ WF_vars(Next)

-----------------------------------------------------------------------------
(* Properties.                                                             *)

(* Code is written for a file if it can be read, no pass found an error in *)
(* it and no flag stopped it before, whatever became of the files before   *)
(* it; where warnings are not suppressed, all that was found is displayed; *)
(* and the status is a failure if a file failed, however many others are   *)
(* compiled after it.                                                      *)
CodeIfCorrect ==
  /\ \A i \in DOMAIN done :
       LET wrong == \E d \in DOMAIN done[i].diagnostics : done[i].diagnostics[d].level = "error"
           stop == config \cap Stops # {}
       IN done[i].outcome = IF Content(files[i]) = <<>> THEN "unreadable"
                            ELSE IF stop THEN "stopped"
                            ELSE IF wrong THEN "refused" ELSE "compiled"
  /\ \A i \in DOMAIN done :
       done[i].outcome \in {"refused", "compiled"} /\ logLevel # "error" =>
         done[i].shown = Len(done[i].diagnostics)
  /\ done # <<>> =>
       (status = "failure" <=> \E i \in DOMAIN done : done[i].outcome \in {"unreadable", "refused"})

(* The compiler comes to an end, but for a read behind a mapped file.      *)
Ends == <>Ended

=============================================================================
