------------------------------- MODULE Driver -------------------------------
(***************************************************************************)
(* One run of rodac (rodac/main.c): the arguments, the passes of           *)
(* runCompilation (compiler/compiler.c) over all files, code generation    *)
(* (codegen/codegen.c, codegen/llvm/codegen.c) and the exit status, with   *)
(* the message context (errors/msgcontext.c) through which all of them     *)
(* communicate.  What a pass computes is not modelled: it visits the       *)
(* modules and may report errors at each.  A message is known by its       *)
(* place in `raised', all the messages of the run in order.                *)
(*                                                                         *)
(* MaxReports bounds the messages that arguments, parser and passes raise; *)
(* every other message is raised at most once per step of the back end.    *)
(***************************************************************************)
EXTENDS Naturals, Sequences, FiniteSets

CONSTANTS
  Inputs,        \* the lists of files to try, each a sequence of FILE_RODA, ...
  Limits,        \* the values of --max-errors
  MaxReports

ASSUME ParametersAssumption ==
  /\ \A i \in Inputs : i \in Seq({"roda", "llvm", "object"})
  /\ Limits \subseteq Nat /\ MaxReports \in Nat

VARIABLES
  opts,          \* the arguments: run kind, emit, whether -o is given, files, limit;
                 \* and how the program was built: with LLVM, with DEBUG
  stage, walk, file,                    \* the place in main and runCompilation
  trees,                                \* the files with file->ast # NULL
  error_count, messages,                \* the MessageContext
  raised, printed,                      \* all messages; those written to stderr
  output, temp,                         \* the output file, the temporary object
  status                                \* the exit status

vars == <<opts, stage, walk, file, trees, error_count, messages, raised, printed,
          output, temp, status>>

place == <<stage, walk, file>>
log == <<error_count, messages, raised>>
disk == <<output, temp>>

N == Len(opts.files)

\* "ir" is any kind of output that LLVM writes itself; COMPILER_EMIT_AUTO is
\* one of the others as soon as code generation looks at it.
Options ==
  [run : {"default", "help"}, emit : {"none", "ast", "ir", "bin"}, out : BOOLEAN,
   files : Inputs, limit : Limits, llvm : BOOLEAN, debug : BOOLEAN]

Init ==
  /\ opts \in Options
  /\ stage = "arguments" /\ walk = 0 /\ file = 0 /\ trees = {}
  /\ error_count = 0 /\ messages = <<>> /\ raised = <<>> /\ printed = <<>>
  /\ output = "old" /\ temp = "none" /\ status = "none"

\* The walks over all modules.  gate = "pass": the walk begins a pass of
\* runCompilation, under its own test of error_count; "walk": the walk is a
\* FOR_ALL_MODULES_IF_OK; "none": it follows the one before in any case.
\* "assumptions" stands for the three walks of that kind.
\* print: the messages are printed behind it.
Walk(name, gate, print) == [name |-> name, gate |-> gate, print |-> print]

Walks == <<
  Walk("controlFlowReferences", "pass", FALSE),
  Walk("rootSymbols", "none", FALSE), Walk("localSymbols", "none", TRUE),
  Walk("constantTypes", "pass", FALSE), Walk("constantValues", "none", FALSE),
  Walk("typeDefinitions", "pass", FALSE), Walk("typeDefinitionChecks", "none", FALSE),
  Walk("typeHints", "none", FALSE), Walk("propagation", "none", FALSE),
  Walk("assumptions", "none", FALSE),
  Walk("typeConstraints", "walk", FALSE), Walk("variableAssumptions", "walk", FALSE),
  Walk("untypedVariables", "pass", FALSE), Walk("typeChecks", "walk", FALSE),
  Walk("untypedNodes", "walk", TRUE),
  Walk("controlFlow", "pass", TRUE),
  Walk("globalInitializers", "pass", FALSE) >>
----------------------------------------------------------------------------
Message(kind) == [kind |-> kind, stage |-> stage, walk |-> walk, file |-> file]

\* applyFilterForContext: what is raised before --max-errors is read has no limit.
WithinLimit == stage = "arguments" \/ error_count < opts.limit

\* Mutant: only a message that is shown is counted.
AddMessageCountingShown(kind) ==
  /\ raised' = Append(raised, Message(kind))
  /\ IF WithinLimit
     THEN /\ error_count' = IF kind = "error" THEN error_count + 1 ELSE error_count
          /\ messages' = Append(messages, Len(raised) + 1)
     ELSE UNCHANGED <<error_count, messages>>

\* Mutant: the limit is compared after the error is counted.
AddMessageCountingFirst(kind) ==
  /\ raised' = Append(raised, Message(kind))
  /\ error_count' = IF kind = "error" THEN error_count + 1 ELSE error_count
  /\ messages' = IF stage = "arguments" \/ error_count' < opts.limit
                 THEN Append(messages, Len(raised) + 1) ELSE messages

\* addMessageToContext: the limit is compared before the error is counted.
AddMessage(kind) ==
  /\ raised' = Append(raised, Message(kind))
  /\ messages' = IF WithinLimit
                 THEN Append(messages, Len(raised) + 1) ELSE messages
  /\ error_count' = IF kind = "error" THEN error_count + 1 ELSE error_count

\* printAndClearMessages, of messages that were there before the step
PrintMessages ==
  /\ printed' = printed \o messages /\ messages' = <<>>
  /\ UNCHANGED <<error_count, raised>>

\* A message that is added and printed in one step
AddAndPrint(kind) ==
  /\ raised' = Append(raised, Message(kind))
  /\ printed' = printed \o messages \o
                (IF WithinLimit THEN <<Len(raised) + 1>> ELSE <<>>)
  /\ messages' = <<>>
  /\ error_count' = IF kind = "error" THEN error_count + 1 ELSE error_count

Goto(s, w, f) == stage' = s /\ walk' = w /\ file' = f
----------------------------------------------------------------------------
WarnOfArgument ==
  /\ stage \in {"arguments", "limited"} /\ Len(raised) < MaxReports
  /\ AddMessage("warning")
  /\ UNCHANGED <<opts, place, trees, printed, disk, status>>

\* The first --max-errors is read.  One that is not given is as good as one of
\* a large value.
ReadLimit ==
  /\ stage = "arguments"
  /\ Goto("limited", 0, 0)
  /\ UNCHANGED <<opts, trees, log, printed, disk, status>>

EndArguments ==
  /\ stage = "limited"
  /\ PrintMessages
  /\ Goto("start", 0, 0)
  /\ UNCHANGED <<opts, trees, disk, status>>

Start ==
  /\ stage = "start"
  /\ IF opts.run = "default" /\ N = 0
     THEN AddMessage("warning")
     ELSE UNCHANGED log
  /\ IF opts.run = "default" /\ N # 0 THEN Goto("parse", 0, 1) ELSE Goto("done", 0, 0)
  /\ UNCHANGED <<opts, trees, printed, disk, status>>

AfterParsing(f) == IF f < N THEN Goto("parse", 0, f + 1) ELSE Goto("walk", 1, 0)

SkipOtherFile ==
  /\ stage = "parse" /\ opts.files[file] # "roda"
  /\ AfterParsing(file)
  /\ UNCHANGED <<opts, trees, log, printed, disk, status>>

Errors == {i \in DOMAIN raised : raised[i].kind = "error"}

ErrorsOfFile == {i \in Errors : raised[i].stage = "parse" /\ raised[i].file = file}

OpenFails ==
  /\ stage = "parse" /\ opts.files[file] = "roda" /\ ErrorsOfFile = {}
  /\ AddAndPrint("error")
  /\ AfterParsing(file)
  /\ UNCHANGED <<opts, trees, disk, status>>

ReportInFile ==
  /\ stage = "parse" /\ opts.files[file] = "roda" /\ Len(raised) < MaxReports
  /\ AddMessage("error")
  /\ UNCHANGED <<opts, place, trees, printed, disk, status>>

\* The parser makes no tree only if it could not recover from an error.
EndFile ==
  /\ stage = "parse" /\ opts.files[file] = "roda"
  /\ \/ trees' = trees \cup {file}
     \/ ErrorsOfFile # {} /\ trees' = trees
  /\ PrintMessages
  /\ AfterParsing(file)
  /\ UNCHANGED <<opts, disk, status>>
----------------------------------------------------------------------------
\* error_count never shrinks: behind a pass that is not entered all later
\* tests of runCompilation fail too.
StartWalk ==
  /\ stage = "walk" /\ file = 0
  /\ IF error_count = 0 \/ Walks[walk].gate = "none" THEN Goto("walk", walk, 1)
     ELSE IF Walks[walk].gate = "walk" THEN Goto("walk", walk, N + 1)
     ELSE Goto("done", 0, 0)
  /\ UNCHANGED <<opts, trees, log, printed, disk, status>>

ReportInWalk ==
  /\ stage = "walk" /\ file \in trees /\ Len(raised) < MaxReports
  /\ AddMessage("error")
  /\ UNCHANGED <<opts, place, trees, printed, disk, status>>

\* Mutant: the end of the list of files is missed.
NextFileUnbounded ==
  /\ stage = "walk" /\ file \in 1..N + 1
  /\ Goto("walk", walk, file + 1)
  /\ UNCHANGED <<opts, trees, log, printed, disk, status>>

NextFile ==
  /\ stage = "walk" /\ file \in 1..N
  /\ Goto("walk", walk, file + 1)
  /\ UNCHANGED <<opts, trees, log, printed, disk, status>>

EndWalk ==
  /\ stage = "walk" /\ file = N + 1
  /\ IF Walks[walk].print THEN PrintMessages ELSE UNCHANGED <<log, printed>>
  /\ IF walk < Len(Walks) THEN Goto("walk", walk + 1, 0) ELSE Goto("emit", 0, 0)
  /\ UNCHANGED <<opts, trees, disk, status>>
----------------------------------------------------------------------------
Bin == opts.emit = "bin"

\* Mutant: code generation does not look at the errors.
EmitAlways ==
  /\ stage = "emit" /\ opts.emit \in {"ir", "bin"} /\ opts.out /\ opts.llvm
  /\ output' = "empty" /\ Goto("target", 0, 0)
  /\ temp' = IF Bin THEN "empty" ELSE temp
  /\ UNCHANGED <<opts, trees, log, printed, status>>

\* runCodeGeneration up to the choice of the kind of output
Emit ==
  /\ stage = "emit"
  /\ UNCHANGED <<opts, trees, status>>
  /\ \/ /\ error_count # 0
        /\ Goto("done", 0, 0) /\ UNCHANGED <<log, printed, disk>>
     \/ /\ error_count = 0 /\ opts.emit = "none"
        /\ IF opts.out THEN AddAndPrint("warning") ELSE PrintMessages
        /\ Goto("done", 0, 0) /\ UNCHANGED disk
     \/ /\ error_count = 0 /\ opts.emit # "none"
        /\ AddAndPrint("error")           \* no output file, or it cannot be opened
        /\ Goto("done", 0, 0) /\ UNCHANGED disk
     \/ /\ error_count = 0 /\ opts.emit = "ast" /\ opts.out
        /\ output' = "written" /\ UNCHANGED temp
        /\ PrintMessages /\ Goto("done", 0, 0)
     \/ /\ error_count = 0 /\ opts.emit \in {"ir", "bin"} /\ opts.out
        /\ output' = "empty"
        /\ temp' = IF Bin THEN "empty" ELSE temp
        /\ UNCHANGED printed
        /\ IF opts.llvm
           THEN Goto("target", 0, 0) /\ UNCHANGED log
           ELSE AddMessage("error") /\ Goto("link", 0, 0)

\* initLlvmCodegenContext
FindTarget ==
  /\ stage = "target"
  /\ \/ AddMessage("error") /\ Goto("link", 0, 0)
     \/ UNCHANGED log /\ Goto("modules", 0, 1)
  /\ UNCHANGED <<opts, trees, printed, disk, status>>

\* generateLinkedModule, for one file: its own module is verified (in a debug
\* build) and what is known is printed, or it is read, and then linked.
AddModule ==
  /\ stage = "modules" /\ file \in 1..N
  /\ \/ opts.files[file] = "object" /\ Goto("modules", 0, file + 1) /\ UNCHANGED <<log, printed>>
     \/ /\ opts.files[file] = "llvm" /\ Goto("modules", 0, file + 1) /\ UNCHANGED printed
        /\ UNCHANGED log \/ AddMessage("error")      \* not read, or not linked
     \/ /\ opts.files[file] = "roda" /\ Goto("linkModule", 0, file)
        /\ PrintMessages \/ (opts.debug /\ AddAndPrint("error"))
  /\ UNCHANGED <<opts, trees, disk, status>>

LinkModule ==
  /\ stage = "linkModule"
  /\ Goto("modules", 0, file + 1)
  /\ UNCHANGED log \/ AddMessage("error")
  /\ UNCHANGED <<opts, trees, printed, disk, status>>

VerifyModules ==
  /\ stage = "modules" /\ file = N + 1
  /\ PrintMessages \/ (opts.debug /\ AddAndPrint("error"))
  /\ Goto("optimize", 0, 0)
  /\ UNCHANGED <<opts, trees, disk, status>>

Optimize ==
  /\ stage = "optimize"
  /\ UNCHANGED log \/ AddMessage("error")
  /\ Goto("write", 0, 0)
  /\ UNCHANGED <<opts, trees, printed, disk, status>>

\* The module is written whatever was found while it was linked.
WriteModule ==
  /\ stage = "write"
  /\ \/ AddMessage("error") /\ UNCHANGED disk
     \/ /\ UNCHANGED log
        /\ IF Bin THEN temp' = "written" /\ UNCHANGED output
                  ELSE output' = "written" /\ UNCHANGED temp
  /\ Goto("link", 0, 0)
  /\ UNCHANGED <<opts, trees, printed, status>>

\* Mutant: the linker is run on whatever object there is.
LinkAlways ==
  /\ stage = "link" /\ Bin
  /\ PrintMessages /\ output' = "written" /\ temp' = "removed"
  /\ Goto("done", 0, 0)
  /\ UNCHANGED <<opts, trees, status>>

\* The linker, the removal of its input, and the print of runCompilation
Link ==
  /\ stage = "link"
  /\ \/ ~ Bin /\ PrintMessages /\ UNCHANGED disk
     \/ Bin /\ error_count # 0 /\ PrintMessages /\ UNCHANGED output /\ temp' = "removed"
     \/ Bin /\ error_count = 0 /\ AddAndPrint("error") /\ UNCHANGED output /\ temp' = "removed"
     \/ Bin /\ error_count = 0 /\ PrintMessages /\ output' = "written" /\ temp' = "removed"
  /\ Goto("done", 0, 0)
  /\ UNCHANGED <<opts, trees, status>>

Exit ==
  /\ stage = "done"
  /\ PrintMessages
  /\ status' = IF error_count = 0 THEN "success" ELSE "failure"
  /\ Goto("exit", 0, 0)
  /\ UNCHANGED <<opts, trees, disk>>

Next ==
  \/ WarnOfArgument \/ ReadLimit \/ EndArguments \/ Start
  \/ SkipOtherFile \/ OpenFails \/ ReportInFile \/ EndFile
  \/ StartWalk \/ ReportInWalk \/ NextFile \/ EndWalk
  \/ Emit \/ FindTarget \/ AddModule \/ LinkModule \/ VerifyModules \/ Optimize
  \/ WriteModule \/ Link \/ Exit

\* The program is sequential: it goes on as long as there is something to do.
Spec == Init /\ [][Next]_vars /\ WF_vars(Next)
----------------------------------------------------------------------------
TypeOK ==
  /\ opts \in Options
  /\ stage \in {"arguments", "limited", "start", "parse", "walk", "emit", "target", "modules",
                "linkModule", "optimize", "write", "link", "done", "exit"}
  /\ walk \in 0..Len(Walks) /\ file \in 0..N + 1 /\ trees \subseteq 1..N
  /\ error_count \in Nat
  /\ messages \in Seq(DOMAIN raised) /\ printed \in Seq(DOMAIN raised)
  /\ output \in {"old", "empty", "written"} /\ temp \in {"none", "empty", "written", "removed"}
  /\ status \in {"none", "success", "failure"}

FrontErrors == {i \in Errors : raised[i].stage \in {"parse", "walk"}}

AllParsed == \A f \in 1..N : opts.files[f] = "roda" => f \in trees

\* The exit status tells whether any error was found, by whatever part of the
\* program and whether it was shown or not.
ExitTellsErrors == stage = "exit" => (status = "failure" <=> Errors # {})

\* What the reader sees or is about to see, and the messages that --max-errors
\* leaves: those raised behind fewer errors than that, or before it was read.
Out == printed \o messages
Shown(i) == raised[i].stage = "arguments" \/ Cardinality({j \in Errors : j < i}) < opts.limit

\* The messages come out once and in the order in which they were raised, and
\* --max-errors hides exactly those raised behind that many errors, although
\* printing is spread over the passes; none is kept back at the exit.
MessagesInOrder ==
  /\ {Out[k] : k \in DOMAIN Out} = {i \in DOMAIN raised : Shown(i)}
  /\ \A j, k \in DOMAIN Out : j < k => Out[j] < Out[k]
  /\ stage = "exit" => messages = <<>>

\* Code is generated, and the file of an earlier compilation overwritten, only
\* for a program in which parser and passes found no error.
OutputOnlyForValidPrograms ==
  output # "old" \/ stage \in {"target", "modules"} => AllParsed /\ FrontErrors = {}

\* There is a binary only if nothing failed before the linker, and the object
\* it was made from is gone at the exit whatever failed.
BinaryOnlyIfClean ==
  /\ Bin /\ output = "written" => Errors = {}
  /\ stage = "exit" => temp \in {"none", "removed"}
=============================================================================
