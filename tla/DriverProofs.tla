---------------------------- MODULE DriverProofs ----------------------------
(***************************************************************************)
(* For every list of files, every limit on errors and any number of        *)
(* messages: the exit status tells whether there was an error, code is     *)
(* generated and the output overwritten only for programs without one, and *)
(* the messages come out in order.                                         *)
(***************************************************************************)
EXTENDS Driver, FiniteSetTheorems, SequenceTheorems, TLAPS

Early == {"arguments", "limited", "start", "parse", "walk", "emit"}
Back == {"target", "modules", "linkModule", "optimize", "write", "link"}
Stages == Early \cup Back \cup {"done", "exit"}

Kinds == {"error", "warning"}
MessageType == [kind : Kinds, stage : Stages, walk : Nat, file : Nat]

Typed ==
  /\ opts \in Options
  /\ stage \in Stages /\ walk \in Nat /\ file \in Nat
  /\ raised \in Seq(MessageType) /\ error_count \in Nat

Counted == error_count = 0 <=> Errors = {}

StatusTells == stage = "exit" => (status = "failure" <=> error_count # 0)

\* A file without a tree is one with an error.
Parsed(f) == opts.files[f] = "roda" => f \in trees \/ Errors # {}

\* The same of the state after a step
ParsedNow(f) == opts.files[f] = "roda" => f \in trees' \/ Errors' # {}

ParsedOrFailed ==
  /\ stage = "parse" => \A f \in 1..N : f < file => Parsed(f)
  /\ stage \in {"walk", "emit"} => \A f \in 1..N : Parsed(f)

BackEndClean ==
  /\ stage \in Early => output = "old"
  /\ stage \in Back \/ output # "old" => AllParsed /\ FrontErrors = {}

IInv == Typed /\ Counted /\ StatusTells /\ ParsedOrFailed /\ BackEndClean

\* What a step does to the messages: nothing, or it adds one.
Quiet == UNCHANGED <<error_count, raised>>

Adds(kind) ==
  /\ raised' = Append(raised, Message(kind))
  /\ error_count' = IF kind = "error" THEN error_count + 1 ELSE error_count

LogStep == Quiet \/ \E kind \in Kinds : Adds(kind)

\* Every way in which a step treats the message context is one of the two.
LEMMA LogSteps ==
  /\ UNCHANGED log => Quiet
  /\ PrintMessages => Quiet
  /\ \A kind : AddMessage(kind) => Adds(kind)
  /\ \A kind : AddAndPrint(kind) => Adds(kind)
  /\ Adds("error") => LogStep
  /\ Adds("warning") => LogStep
  /\ Quiet => LogStep
BY DEF log, Quiet, PrintMessages, AddMessage, AddAndPrint, Adds, LogStep, Kinds

\* The errors after a message was added: none is lost, and the message itself
\* is one if it is of that kind.
LEMMA AddedErrors ==
  ASSUME Typed, NEW kind \in Kinds, Adds(kind)
  PROVE  /\ Message(kind) \in MessageType
         /\ raised' \in Seq(MessageType)
         /\ Errors' = IF kind = "error" THEN Errors \cup {Len(raised) + 1} ELSE Errors
         /\ stage \notin {"parse", "walk"} => FrontErrors' = FrontErrors
<1>1. Message(kind) \in MessageType
  BY DEF Message, MessageType, Typed
<1>2. raised' \in Seq(MessageType) /\ Len(raised') = Len(raised) + 1
  BY <1>1 DEF Typed, Adds
<1>3. /\ \A i \in 1..Len(raised) : raised'[i] = raised[i]
      /\ raised'[Len(raised) + 1] = Message(kind)
  BY <1>1 DEF Typed, Adds
<1>4. DOMAIN raised = 1..Len(raised) /\ DOMAIN raised' = 1..Len(raised) + 1 /\ Len(raised) \in Nat
  BY <1>2 DEF Typed
<1>5. Message(kind).kind = kind /\ Message(kind).stage = stage
  BY DEF Message
<1>6. Errors' = IF kind = "error" THEN Errors \cup {Len(raised) + 1} ELSE Errors
  BY <1>3, <1>4, <1>5 DEF Errors, Kinds
<1>7. ASSUME stage \notin {"parse", "walk"} PROVE FrontErrors' = FrontErrors
  <2>1. \A i \in Errors : i \in 1..Len(raised)
    BY <1>4 DEF Errors
  <2>2. raised'[Len(raised) + 1].stage \notin {"parse", "walk"}
    BY <1>3, <1>5, <1>7
  <2>3. \A i \in Errors : raised'[i] = raised[i]
    BY <1>3, <2>1
  <2> QED
    BY <1>6, <2>2, <2>3 DEF FrontErrors
<1> QED
  BY <1>1, <1>2, <1>6, <1>7

\* The counter goes on to tell whether there are errors, and errors stay.
LEMMA LogInvariant ==
  ASSUME Typed, Counted, LogStep
  PROVE  /\ raised' \in Seq(MessageType) /\ error_count' \in Nat
         /\ Counted'
         /\ Errors # {} => Errors' # {}
         /\ stage \notin {"parse", "walk"} => FrontErrors' = FrontErrors
<1>1. CASE Quiet
  BY <1>1 DEF Quiet, Typed, Counted, Errors, FrontErrors
<1>2. ASSUME NEW kind \in Kinds, Adds(kind)
      PROVE  /\ raised' \in Seq(MessageType) /\ error_count' \in Nat
             /\ Counted'
             /\ Errors # {} => Errors' # {}
             /\ stage \notin {"parse", "walk"} => FrontErrors' = FrontErrors
  <2>1. /\ raised' \in Seq(MessageType)
        /\ Errors' = IF kind = "error" THEN Errors \cup {Len(raised) + 1} ELSE Errors
        /\ stage \notin {"parse", "walk"} => FrontErrors' = FrontErrors
    BY <1>2, AddedErrors
  <2>2. error_count' = IF kind = "error" THEN error_count + 1 ELSE error_count
    BY <1>2 DEF Adds
  <2>3. error_count' \in Nat /\ Counted'
    <3>1. CASE kind = "error"
      BY <2>1, <2>2, <3>1 DEF Typed, Counted
    <3>2. CASE kind # "error"
      BY <2>1, <2>2, <3>2 DEF Typed, Counted
    <3> QED
      BY <3>1, <3>2
  <2>4. Errors # {} => Errors' # {}
    BY <2>1
  <2> QED
    BY <2>1, <2>3, <2>4
<1> QED
  BY <1>1, <1>2 DEF LogStep

LEMMA InitInvariant == Init => IInv
<1> SUFFICES ASSUME Init PROVE IInv
  OBVIOUS
<1>1. raised \in Seq(MessageType) /\ Errors = {} /\ FrontErrors = {}
  BY DEF Init, Errors, FrontErrors
<1>2. Typed
  BY <1>1 DEF Init, Typed, Stages, Early
<1>3. Counted /\ StatusTells /\ ParsedOrFailed
  BY <1>1 DEF Init, Counted, StatusTells, ParsedOrFailed
<1>4. BackEndClean
  BY DEF Init, BackEndClean, Back
<1> QED
  BY <1>2, <1>3, <1>4 DEF IInv

\* The invariant is kept by a step that stays in the front end, leaves the
\* output alone, and goes on from a file only if that has a tree or an error.
LEMMA FrontStep ==
  ASSUME IInv, LogStep, stage \in Early, stage' \in Early \cup {"done"}, output' = output,
         opts' = opts, trees \subseteq trees', walk' \in Nat, file' \in Nat,
         ParsedOrFailed'
  PROVE  IInv'
<1>1. Typed' /\ Counted'
  BY LogInvariant DEF IInv, Typed, Stages
<1>2. StatusTells'
  BY DEF StatusTells, Early
<1>3. BackEndClean'
  BY DEF IInv, BackEndClean, Back, Early
<1> QED
  BY <1>1, <1>2, <1>3 DEF IInv

\* The invariant is kept by a step of the back end, from there or to the end,
\* and by one that ends the program with the right status.
LEMMA BackStep ==
  ASSUME IInv, LogStep, stage \notin {"parse", "walk"}, stage' \in Back \cup {"done", "exit"},
         stage' \in Back \/ output' # "old" => AllParsed /\ FrontErrors = {},
         UNCHANGED <<opts, trees>>, walk' \in Nat, file' \in Nat,
         StatusTells'
  PROVE  IInv'
<1>1. Typed' /\ Counted' /\ FrontErrors' = FrontErrors
  BY LogInvariant DEF IInv, Typed, Stages
<1>2. ParsedOrFailed'
  BY DEF ParsedOrFailed, Back
<1>3. AllParsed' = AllParsed
  BY DEF AllParsed, N
<1>4. BackEndClean'
  BY <1>1, <1>3 DEF BackEndClean, Back, Early
<1> QED
  BY <1>1, <1>2, <1>4 DEF IInv

\* When a file is left behind parsed, or with an error, all files up to it are.
LEMMA FileParsed ==
  ASSUME IInv, LogStep, stage = "parse", AfterParsing(file), opts' = opts, trees \subseteq trees',
         ParsedNow(file)
  PROVE  /\ ParsedOrFailed'
         /\ stage' \in Early /\ walk' \in Nat /\ file' \in Nat
<1>1. N \in Nat /\ N' = N /\ file \in Nat
  BY ParametersAssumption DEF IInv, Typed, Options, N
<1>2. Errors # {} => Errors' # {}
  BY LogInvariant DEF IInv
<1>3. \A f \in 1..N : f < file /\ opts.files[f] = "roda" => f \in trees' \/ Errors' # {}
  BY <1>2 DEF IInv, ParsedOrFailed, Parsed
<1>4. opts.files[file] = "roda" => file \in trees' \/ Errors' # {}
  BY DEF ParsedNow
<1>5. \A f \in 1..N : f < file + 1 /\ opts.files[f] = "roda" => f \in trees' \/ Errors' # {}
  BY <1>1, <1>3, <1>4
<1>6. CASE file < N
  BY <1>1, <1>5, <1>6 DEF AfterParsing, Goto, ParsedOrFailed, Parsed, Early
<1>7. CASE ~ (file < N)
  <2>1. \A f \in 1..N : f < file + 1
    BY <1>1, <1>7
  <2> QED
    BY <1>1, <1>5, <1>7, <2>1 DEF AfterParsing, Goto, ParsedOrFailed, Parsed, Early
<1> QED
  BY <1>6, <1>7

\* The arguments and the parser keep the invariant.
LEMMA ParseSteps ==
  ASSUME IInv,
         WarnOfArgument \/ ReadLimit \/ EndArguments \/ Start \/ SkipOtherFile \/ OpenFails
         \/ ReportInFile \/ EndFile
  PROVE  IInv'
<1> USE DEF place, disk
<1>1. N \in Nat /\ (stage = "parse" => file \in Nat)
  BY ParametersAssumption DEF IInv, Typed, Options, N
<1>2. CASE WarnOfArgument
  <2>1. LogStep
    BY <1>2, LogSteps DEF WarnOfArgument
  <2> QED
    BY <1>2, <2>1, FrontStep DEF WarnOfArgument, IInv, Typed, Early, ParsedOrFailed
<1>3. CASE EndArguments
  <2>1. LogStep
    BY <1>3, LogSteps DEF EndArguments
  <2> QED
    BY <1>3, <2>1, FrontStep DEF EndArguments, IInv, Early, ParsedOrFailed, Goto
<1>4. CASE Start
  <2>1. LogStep
    BY <1>4, LogSteps DEF Start
  <2>2. ParsedOrFailed'
    BY <1>4, <1>1 DEF Start, ParsedOrFailed, Goto
  <2> QED
    BY <1>4, <2>1, <2>2, FrontStep DEF Start, Early, Goto
<1>5. CASE SkipOtherFile
  <2>1. LogStep
    BY <1>5, LogSteps DEF SkipOtherFile
  <2>2. ParsedNow(file)
    BY <1>5 DEF SkipOtherFile, ParsedNow
  <2> QED
    BY <1>5, <2>1, <2>2, FileParsed, FrontStep DEF SkipOtherFile, Early
<1>6. CASE OpenFails
  <2>1. LogStep
    BY <1>6, LogSteps DEF OpenFails
  <2>2. error_count' # 0
    BY <1>6 DEF OpenFails, AddAndPrint, IInv, Typed
  <2>3. ParsedNow(file)
    BY <2>1, <2>2, LogInvariant DEF IInv, Counted, ParsedNow
  <2> QED
    BY <1>6, <2>1, <2>3, FileParsed, FrontStep DEF OpenFails, Early
<1>7. CASE ReportInFile
  <2>1. LogStep
    BY <1>7, LogSteps DEF ReportInFile
  <2>2. ParsedOrFailed'
    <3>1. Errors # {} => Errors' # {}
      BY <2>1, LogInvariant DEF IInv
    <3> QED
      BY <1>7, <3>1 DEF ReportInFile, IInv, ParsedOrFailed, Parsed, N
  <2> QED
    BY <1>7, <2>1, <2>2, FrontStep DEF ReportInFile, IInv, Typed, Early
<1>8. CASE EndFile
  <2>1. LogStep
    BY <1>8, LogSteps DEF EndFile
  <2>2. ParsedNow(file)
    <3>1. Errors' = Errors
      BY <1>8 DEF EndFile, PrintMessages, Errors
    <3>2. file \in trees' \/ Errors # {}
      BY <1>8 DEF EndFile, ErrorsOfFile
    <3> QED
      BY <3>1, <3>2 DEF ParsedNow
  <2> QED
    BY <1>8, <2>1, <2>2, FileParsed, FrontStep DEF EndFile, Early
<1>9. CASE ReadLimit
  <2>1. LogStep
    BY <1>9, LogSteps DEF ReadLimit
  <2> QED
    BY <1>9, <2>1, FrontStep DEF ReadLimit, IInv, Early, ParsedOrFailed, Goto
<1> QED
  BY <1>2, <1>3, <1>4, <1>5, <1>6, <1>7, <1>8, <1>9

\* The walks keep the invariant.
LEMMA WalkSteps ==
  ASSUME IInv, StartWalk \/ ReportInWalk \/ NextFile \/ EndWalk
  PROVE  IInv'
<1> USE DEF place, disk
<1>1. /\ N \in Nat /\ stage = "walk" /\ stage \in Early
      /\ walk \in Nat /\ file \in Nat
  BY ParametersAssumption DEF IInv, Typed, Options, N, StartWalk, ReportInWalk, NextFile, EndWalk, Early
<1>2. ASSUME LogStep, UNCHANGED <<opts, trees>>,
             stage' \in {"walk", "emit", "done"}
      PROVE  ParsedOrFailed'
  <2>1. Errors # {} => Errors' # {}
    BY <1>2, LogInvariant DEF IInv
  <2> QED
    BY <1>1, <1>2, <2>1 DEF IInv, ParsedOrFailed, Parsed, N
<1>3. CASE StartWalk
  <2>1. LogStep
    BY <1>3, LogSteps DEF StartWalk
  <2>2. stage' \in {"walk", "done"} /\ walk' \in Nat /\ file' \in Nat
    BY <1>1, <1>3 DEF StartWalk, Goto
  <2> QED
    BY <1>1, <1>2, <1>3, <2>1, <2>2, FrontStep DEF StartWalk, Early
<1>4. CASE ReportInWalk
  <2>1. LogStep
    BY <1>4, LogSteps DEF ReportInWalk
  <2> QED
    BY <1>1, <1>2, <1>4, <2>1, FrontStep DEF ReportInWalk
<1>5. CASE NextFile
  <2>1. LogStep
    BY <1>5, LogSteps DEF NextFile
  <2> QED
    BY <1>1, <1>2, <1>5, <2>1, FrontStep DEF NextFile, Goto
<1>6. CASE EndWalk
  <2>1. LogStep
    BY <1>6, LogSteps DEF EndWalk
  <2>2. stage' \in {"walk", "emit"} /\ walk' \in Nat /\ file' \in Nat
    BY <1>1, <1>6 DEF EndWalk, Goto
  <2> QED
    BY <1>1, <1>2, <1>6, <2>1, <2>2, FrontStep DEF EndWalk, Early
<1> QED
  BY <1>3, <1>4, <1>5, <1>6

\* Code generation is entered without errors only, hence with all files parsed,
\* and what it reports is no error of the front end.
LEMMA BackSteps ==
  ASSUME IInv,
         Emit \/ FindTarget \/ AddModule \/ LinkModule \/ VerifyModules \/ Optimize
         \/ WriteModule \/ Link
  PROVE  IInv'
<1> USE DEF place, disk
<1>1. /\ stage \in Back \cup {"emit"} /\ walk \in Nat /\ file \in Nat
      /\ stage \notin {"parse", "walk"}
  BY DEF IInv, Typed, Back, Emit, FindTarget, AddModule, LinkModule, VerifyModules, Optimize, WriteModule, Link
<1>2. stage = "emit" => output = "old" /\ (error_count = 0 => AllParsed /\ FrontErrors = {})
  BY DEF IInv, Counted, ParsedOrFailed, Parsed, BackEndClean, Early, AllParsed, FrontErrors
<1>3. stage \in Back => AllParsed /\ FrontErrors = {}
  BY DEF IInv, BackEndClean
<1>4. SUFFICES /\ LogStep /\ stage' \in Back \cup {"done"}
               /\ stage' \in Back \/ output' # "old" => AllParsed /\ FrontErrors = {}
               /\ UNCHANGED <<opts, trees>> /\ walk' \in Nat /\ file' \in Nat
  <2>1. stage' # "exit" => StatusTells'
    BY DEF StatusTells
  <2> QED
    BY <1>1, <1>4, <2>1, BackStep DEF Back
<1>5. CASE Emit
  <2>1. LogStep
    BY <1>5, LogSteps DEF Emit
  <2>2. /\ stage' \in {"done", "target", "link"} /\ walk' \in Nat /\ file' \in Nat
        /\ UNCHANGED <<opts, trees>>
    BY <1>5 DEF Emit, Goto
  <2>3. error_count # 0 => stage' = "done" /\ output' = output
    BY <1>5 DEF Emit, Goto
  <2>4. stage = "emit"
    BY <1>5 DEF Emit
  <2> QED
    BY <1>2, <2>1, <2>2, <2>3, <2>4 DEF Back, IInv, Typed
<1>6. CASE FindTarget
  <2>1. LogStep
    BY <1>6, LogSteps DEF FindTarget
  <2> QED
    BY <1>3, <1>6, <2>1 DEF FindTarget, Goto, Back
<1>7. CASE AddModule
  <2>1. LogStep
    BY <1>7, LogSteps DEF AddModule
  <2> QED
    BY <1>1, <1>3, <1>7, <2>1 DEF AddModule, Goto, Back
<1>8. CASE LinkModule
  <2>1. LogStep
    BY <1>8, LogSteps DEF LinkModule
  <2> QED
    BY <1>1, <1>3, <1>8, <2>1 DEF LinkModule, Goto, Back
<1>9. CASE VerifyModules
  <2>1. LogStep
    BY <1>9, LogSteps DEF VerifyModules
  <2> QED
    BY <1>3, <1>9, <2>1 DEF VerifyModules, Goto, Back
<1>10. CASE Optimize
  <2>1. LogStep
    BY <1>10, LogSteps DEF Optimize
  <2> QED
    BY <1>3, <1>10, <2>1 DEF Optimize, Goto, Back
<1>11. CASE WriteModule
  <2>1. LogStep
    BY <1>11, LogSteps DEF WriteModule
  <2> QED
    BY <1>3, <1>11, <2>1 DEF WriteModule, Goto, Back
<1>12. CASE Link
  <2>1. LogStep
    BY <1>12, LogSteps DEF Link
  <2> QED
    BY <1>3, <1>12, <2>1 DEF Link, Goto, Back
<1> QED
  BY <1>5, <1>6, <1>7, <1>8, <1>9, <1>10, <1>11, <1>12

\* The exit status is taken from the counter.
LEMMA ExitStep ==
  ASSUME IInv, Exit
  PROVE  IInv'
<1>1. LogStep
  BY LogSteps DEF Exit
<1>2. StatusTells'
  BY DEF Exit, PrintMessages, StatusTells
<1>3. output # "old" => AllParsed /\ FrontErrors = {}
  BY DEF IInv, BackEndClean
<1> QED
  BY <1>1, <1>2, <1>3, BackStep DEF Exit, Goto, disk, Back

\* A step of something else changes none of it.
LEMMA Stutter ==
  ASSUME IInv, UNCHANGED vars
  PROVE  IInv'
BY DEF IInv, vars, Typed, Counted, StatusTells, ParsedOrFailed, Parsed, BackEndClean, AllParsed,
       FrontErrors, Errors, N

\* Every reachable state satisfies the inductive invariant.
LEMMA Invariant == Spec => []IInv
<1>1. IInv /\ [Next]_vars => IInv'
  BY ParseSteps, WalkSteps, BackSteps, ExitStep, Stutter DEF Next
<1> QED
  BY InitInvariant, <1>1, PTL DEF Spec

\* rodac fails if and only if some part of it found an error: the counter, on
\* which every test in the program relies, is zero exactly while no message of
\* that kind was added, shown or not.
THEOREM ExitStatusTellsErrors == Spec => []ExitTellsErrors
<1>1. IInv => ExitTellsErrors
  BY DEF IInv, StatusTells, Counted, ExitTellsErrors
<1> QED
  BY Invariant, <1>1, PTL

\* Whatever the files and wherever errors appear, code is generated, and the
\* output file touched, only when every file has a tree and neither the parser
\* nor a pass reported an error.
THEOREM OutputIsForValidPrograms == Spec => []OutputOnlyForValidPrograms
<1>1. IInv => OutputOnlyForValidPrograms
  BY DEF IInv, BackEndClean, Back, OutputOnlyForValidPrograms
<1> QED
  BY Invariant, <1>1, PTL

-----------------------------------------------------------------------------
(***************************************************************************)
(* The files on disk.                                                      *)
(***************************************************************************)
DiskRight ==
  /\ stage \in Early \/ ~ Bin => temp = "none"
  /\ stage \in {"done", "exit"} => temp \in {"none", "removed"}
  /\ Bin /\ output = "written" => stage \in {"done", "exit"} /\ error_count = 0

\* No step but one of the back end touches the disk.
LEMMA FrontDisk ==
  ASSUME IInv, DiskRight, stage \in Early, UNCHANGED <<disk, opts>>
  PROVE  DiskRight'
BY DEF IInv, BackEndClean, DiskRight, disk, Bin

LEMMA BackDisk ==
  ASSUME IInv, DiskRight,
         Emit \/ FindTarget \/ AddModule \/ LinkModule \/ VerifyModules \/ Optimize
         \/ WriteModule \/ Link
  PROVE  DiskRight'
<1>1. Bin' = Bin
  BY DEF Bin, Emit, FindTarget, AddModule, LinkModule, VerifyModules, Optimize, WriteModule, Link
<1>2. CASE Emit
  <2>1. stage = "emit" /\ output = "old" /\ temp = "none"
    BY <1>2 DEF Emit, IInv, BackEndClean, DiskRight, Early
  <2>2. CASE opts.emit \in {"ir", "bin"} /\ output' = "empty"
    <3>1. stage' \in {"target", "link"} /\ temp' = IF Bin THEN "empty" ELSE temp
      BY <1>2, <2>1, <2>2 DEF Emit, Goto, disk
    <3> QED
      BY <1>1, <2>1, <2>2, <3>1 DEF DiskRight, Early
  <2>3. CASE UNCHANGED disk
    <3>1. stage' = "done"
      BY <1>2, <2>1, <2>3 DEF Emit, Goto, disk
    <3> QED
      BY <1>1, <2>1, <2>3, <3>1 DEF DiskRight, disk
  <2>4. CASE opts.emit = "ast" /\ UNCHANGED temp
    <3>1. stage' = "done" /\ ~ Bin
      BY <1>2, <2>1, <2>4 DEF Emit, Goto, Bin
    <3> QED
      BY <1>1, <2>1, <2>4, <3>1 DEF DiskRight
  <2> QED
    BY <1>2, <2>2, <2>3, <2>4 DEF Emit
<1>3. CASE FindTarget \/ AddModule \/ LinkModule \/ VerifyModules \/ Optimize
  <2>1. UNCHANGED disk /\ {stage, stage'} \subseteq Back
    BY <1>3 DEF FindTarget, AddModule, LinkModule, VerifyModules, Optimize, Goto, Back
  <2> QED
    BY <1>1, <2>1 DEF DiskRight, Back, Early, disk
<1>4. CASE WriteModule
  <2>1. stage = "write" /\ stage' = "link"
    BY <1>4 DEF WriteModule, Goto
  <2>2. CASE UNCHANGED disk
    BY <1>1, <2>1, <2>2 DEF DiskRight, disk, Early
  <2>3. CASE IF Bin THEN temp' = "written" /\ UNCHANGED output
                    ELSE output' = "written" /\ UNCHANGED temp
    BY <1>1, <2>1, <2>3 DEF DiskRight, Early
  <2> QED
    BY <1>4, <2>2, <2>3 DEF WriteModule
<1>5. CASE Link
  <2>1. stage = "link" /\ stage' = "done"
    BY <1>5 DEF Link, Goto
  <2>2. CASE ~ Bin /\ UNCHANGED disk
    BY <1>1, <2>1, <2>2 DEF DiskRight, disk, Early
  <2>3. CASE Bin /\ temp' = "removed" /\ UNCHANGED output
    BY <1>1, <2>1, <2>3 DEF DiskRight, Early
  <2>4. CASE Bin /\ temp' = "removed" /\ error_count' = 0
    BY <1>1, <2>1, <2>4 DEF DiskRight, Early
  <2> QED
    BY <1>5, <2>2, <2>3, <2>4 DEF Link, PrintMessages
<1> QED
  BY <1>2, <1>3, <1>4, <1>5

\* Whatever fails in the back end, a binary is made only of a program without
\* any error, and the object it is linked from does not stay behind.
THEOREM BinaryOnlyOfCleanPrograms == Spec => []BinaryOnlyIfClean
<1>1. Init => DiskRight
  BY DEF Init, DiskRight, Early
<1>2. IInv /\ DiskRight /\ [Next]_vars => DiskRight'
  <2> SUFFICES ASSUME IInv, DiskRight, [Next]_vars PROVE DiskRight'
    OBVIOUS
  <2>1. CASE WarnOfArgument \/ ReadLimit \/ EndArguments \/ Start \/ SkipOtherFile \/ OpenFails
             \/ ReportInFile \/ EndFile \/ StartWalk \/ ReportInWalk \/ NextFile \/ EndWalk
    <3>1. stage \in Early /\ UNCHANGED <<disk, opts>>
      BY <2>1 DEF WarnOfArgument, ReadLimit, EndArguments, Start, SkipOtherFile, OpenFails, ReportInFile,
                  EndFile, StartWalk, ReportInWalk, NextFile, EndWalk, Early
    <3> QED
      BY <3>1, FrontDisk
  <2>2. CASE Exit
    BY <2>2 DEF Exit, DiskRight, PrintMessages, Goto, disk, Bin, Early
  <2>3. CASE UNCHANGED vars
    BY <2>3 DEF vars, DiskRight, Bin
  <2> QED
    BY <2>1, <2>2, <2>3, BackDisk DEF Next
<1>3. Spec => []DiskRight
  BY Invariant, <1>1, <1>2, PTL DEF Spec
<1>4. IInv /\ DiskRight => BinaryOnlyIfClean
  BY DEF IInv, Counted, DiskRight, BinaryOnlyIfClean
<1> QED
  BY Invariant, <1>3, <1>4, PTL
-----------------------------------------------------------------------------
(***************************************************************************)
(* The messages that are shown.                                            *)
(***************************************************************************)
LogRight ==
  /\ printed \in Seq(Nat) /\ messages \in Seq(Nat)
  /\ IsFiniteSet(Errors) /\ error_count = Cardinality(Errors)
  /\ MessagesInOrder

\* What a step does to the messages shown: nothing, or it adds the new one,
\* unless the limit is reached.
Keeps == UNCHANGED <<error_count, raised>> /\ Out' = Out

Shows(kind) ==
  /\ Adds(kind)
  /\ Out' = IF WithinLimit THEN Append(Out, Len(raised) + 1) ELSE Out

OutStep ==
  /\ Keeps \/ \E kind \in Kinds : Shows(kind)
  /\ printed' \in Seq(Nat) /\ messages' \in Seq(Nat)

\* However messages are added and printed, the step is one of these.
LEMMA OutSteps ==
  ASSUME Typed, printed \in Seq(Nat), messages \in Seq(Nat)
  PROVE  /\ UNCHANGED log /\ UNCHANGED printed => OutStep
         /\ PrintMessages => OutStep
         /\ \A kind \in Kinds : AddMessage(kind) /\ UNCHANGED printed => OutStep
         /\ \A kind \in Kinds : AddAndPrint(kind) => OutStep
<1> DEFINE new == Len(raised) + 1
<1>1. new \in Nat /\ Out \in Seq(Nat)
  BY DEF Typed, Out
<1>2. UNCHANGED log /\ UNCHANGED printed => OutStep
  BY DEF log, OutStep, Keeps, Out
<1>3. ASSUME PrintMessages PROVE OutStep
  <2>1. Out' = (printed \o messages) \o <<>>
    BY <1>3 DEF PrintMessages, Out
  <2>2. Out' = Out
    BY <1>1, <2>1, ConcatEmptySeq DEF Out
  <2> QED
    BY <1>1, <1>3, <2>2 DEF PrintMessages, OutStep, Keeps, Out
<1>4. ASSUME NEW kind \in Kinds, AddMessage(kind), UNCHANGED printed PROVE OutStep
  <2>1. CASE WithinLimit
    <3>1. messages' = Append(messages, new)
      BY <1>4, <2>1 DEF AddMessage
    <3>2. printed \o Append(messages, new) = Append(printed \o messages, new)
      BY <1>1
    <3>3. messages' \in Seq(Nat)
      BY <1>1, <3>1
    <3> QED
      BY <1>4, <2>1, <3>1, <3>2, <3>3, LogSteps DEF OutStep, Shows, Out
  <2>2. CASE ~ WithinLimit
    BY <1>4, <2>2, LogSteps DEF AddMessage, OutStep, Shows, Out
  <2> QED
    BY <2>1, <2>2
<1>5. ASSUME NEW kind \in Kinds, AddAndPrint(kind) PROVE OutStep
  <2>1. messages' = <<>> /\ Out' = printed' \o <<>>
    BY <1>5 DEF AddAndPrint, Out
  <2>2. CASE WithinLimit
    <3>1. printed' = (printed \o messages) \o <<new>>
      BY <1>5, <2>2 DEF AddAndPrint
    <3>2. printed' = Append(Out, new)
      BY <1>1, <3>1, AppendIsConcat DEF Out
    <3>3. printed' \in Seq(Nat)
      BY <1>1, <3>2
    <3>4. Out' = printed'
      BY <2>1, <3>3, ConcatEmptySeq
    <3> QED
      BY <1>5, <2>1, <2>2, <3>2, <3>3, <3>4, LogSteps DEF OutStep, Shows
  <2>3. CASE ~ WithinLimit
    <3>1. printed' = (printed \o messages) \o <<>>
      BY <1>5, <2>3 DEF AddAndPrint
    <3>2. printed' = Out
      BY <1>1, <3>1, ConcatEmptySeq DEF Out
    <3>3. Out' = printed'
      BY <1>1, <2>1, <3>2, ConcatEmptySeq
    <3> QED
      BY <1>1, <1>5, <2>1, <2>3, <3>2, <3>3, LogSteps DEF OutStep, Shows
  <2> QED
    BY <2>2, <2>3
<1> QED
  BY <1>2, <1>3, <1>4, <1>5

\* A new message leaves the errors finite and counted, and is hidden or shown
\* by their number before it; what holds for the others is not touched.
LEMMA NewMessage ==
  ASSUME Typed, IsFiniteSet(Errors), error_count = Cardinality(Errors),
         NEW kind \in Kinds, Adds(kind), UNCHANGED opts
  PROVE  /\ IsFiniteSet(Errors') /\ error_count' = Cardinality(Errors')
         /\ DOMAIN raised' = DOMAIN raised \cup {Len(raised) + 1}
         /\ \A i \in DOMAIN raised : Shown(i)' <=> Shown(i)
         /\ \A i : i = Len(raised) + 1 => (Shown(i)' <=> WithinLimit)
<1> DEFINE new == Len(raised) + 1
<1>1. Errors' = IF kind = "error" THEN Errors \cup {new} ELSE Errors
  BY AddedErrors
<1>2. Message(kind) \in MessageType
  BY AddedErrors
<1>3. /\ Len(raised) \in Nat /\ DOMAIN raised = 1..Len(raised)
      /\ DOMAIN raised' = 1..new
  BY <1>2 DEF Typed, Adds
<1>4. Errors \subseteq 1..Len(raised)
  BY <1>3 DEF Errors
<1>5. new \notin Errors
  BY <1>3, <1>4
<1>6. IsFiniteSet(Errors') /\ error_count' = Cardinality(Errors')
  <2>1. CASE kind = "error"
    BY <1>1, <1>5, <2>1, FS_AddElement DEF Adds
  <2>2. CASE kind # "error"
    BY <1>1, <2>2 DEF Adds
  <2> QED
    BY <2>1, <2>2
<1>7. ASSUME NEW i \in 1..new
      PROVE  {j \in Errors' : j < i} = {j \in Errors : j < i}
  BY <1>1, <1>3, <1>4
<1>8. /\ \A i \in 1..Len(raised) : raised'[i] = raised[i]
      /\ raised'[new] = Message(kind)
  BY <1>2, <1>3 DEF Typed, Adds
<1>9. {j \in Errors : j < new} = Errors
  <2>1. \A j \in 1..Len(raised) : j < new
    BY <1>3
  <2> QED
    BY <1>4, <2>1
<1>10. new \in 1..new /\ DOMAIN raised \subseteq 1..new /\ 1..new = DOMAIN raised \cup {new}
  BY <1>3
<1>11. DOMAIN raised' = DOMAIN raised \cup {new}
  BY <1>3, <1>10
<1>12. \A i \in DOMAIN raised : Shown(i)' <=> Shown(i)
  <2> SUFFICES ASSUME NEW i \in DOMAIN raised PROVE Shown(i)' <=> Shown(i)
    OBVIOUS
  <2>1. {j \in Errors' : j < i} = {j \in Errors : j < i} /\ raised'[i] = raised[i]
    BY <1>3, <1>7, <1>8, <1>10
  <2> QED
    BY <2>1 DEF Shown
<1>13. \A i : i = new => (Shown(i)' <=> WithinLimit)
  <2> SUFFICES ASSUME NEW i, i = new PROVE Shown(i)' <=> WithinLimit
    OBVIOUS
  <2>1. {j \in Errors' : j < i} = {j \in Errors : j < i}
    BY <1>7, <1>10
  <2>2. {j \in Errors' : j < i} = Errors /\ raised'[i].stage = stage
    BY <2>1, <1>8, <1>9 DEF Message
  <2> QED
    BY <2>2 DEF Shown, WithinLimit
<1> QED
  BY <1>6, <1>11, <1>12, <1>13

\* A message that is shown comes behind all that were raised before it.
LEMMA OutInOrder ==
  ASSUME Typed, LogRight, OutStep, UNCHANGED opts, stage' = "exit" => messages' = <<>>
  PROVE  LogRight'
<1> DEFINE new == Len(raised) + 1
<1>1. Out \in Seq(Nat) /\ Len(raised) \in Nat /\ DOMAIN raised = 1..Len(raised)
  BY DEF Typed, LogRight, Out
<1>2. CASE Keeps
  <2>1. Errors' = Errors /\ UNCHANGED <<error_count, raised, opts>>
    BY <1>2 DEF Keeps, Errors
  <2>2. \A i : Shown(i)' <=> Shown(i)
    BY <2>1 DEF Shown
  <2>3. Out' = Out
    BY <1>2 DEF Keeps
  <2>4. MessagesInOrder'
    BY <2>1, <2>2, <2>3 DEF LogRight, MessagesInOrder
  <2> QED
    BY <2>1, <2>4 DEF LogRight, OutStep
<1>3. ASSUME NEW kind \in Kinds, Shows(kind) PROVE LogRight'
  <2>1. /\ IsFiniteSet(Errors') /\ error_count' = Cardinality(Errors')
        /\ DOMAIN raised' = DOMAIN raised \cup {new}
        /\ \A i \in DOMAIN raised : Shown(i)' <=> Shown(i)
        /\ \A i : i = new => (Shown(i)' <=> WithinLimit)
    BY <1>3, NewMessage DEF LogRight, Shows
  <2>2. CASE WithinLimit
    <3>1. Out' = Append(Out, new)
      BY <1>3, <2>2 DEF Shows
    <3>2. /\ DOMAIN Out' = DOMAIN Out \cup {Len(Out) + 1} /\ DOMAIN Out = 1..Len(Out)
          /\ Len(Out) \in Nat
          /\ \A k \in DOMAIN Out : Out'[k] = Out[k]
          /\ Out'[Len(Out) + 1] = new
      BY <1>1, <3>1
    <3>3. \A k \in DOMAIN Out : Out[k] \in DOMAIN raised
      BY DEF LogRight, MessagesInOrder
    <3>4. {Out'[k] : k \in DOMAIN Out'} = {Out[k] : k \in DOMAIN Out} \cup {new}
      BY <3>2
    <3>5. {i \in DOMAIN raised' : Shown(i)'} = {i \in DOMAIN raised : Shown(i)} \cup {new}
      BY <2>1, <2>2
    <3>6. {Out'[k] : k \in DOMAIN Out'} = {i \in DOMAIN raised' : Shown(i)'}
      BY <3>4, <3>5 DEF LogRight, MessagesInOrder
    <3>7. ASSUME NEW j \in DOMAIN Out', NEW k \in DOMAIN Out', j < k PROVE Out'[j] < Out'[k]
      <4>1. j \in DOMAIN Out
        BY <3>2, <3>7
      <4>2. CASE k \in DOMAIN Out
        BY <3>2, <3>7, <4>1, <4>2 DEF LogRight, MessagesInOrder
      <4>3. CASE k = Len(Out) + 1
        BY <1>1, <3>2, <3>3, <4>1, <4>3
      <4> QED
        BY <3>2, <4>2, <4>3
    <3>8. MessagesInOrder'
      BY <3>6, <3>7 DEF MessagesInOrder
    <3> QED
      BY <2>1, <3>8 DEF LogRight, OutStep
  <2>3. CASE ~ WithinLimit
    <3>1. Out' = Out
      BY <1>3, <2>3 DEF Shows
    <3>2. {i \in DOMAIN raised' : Shown(i)'} = {i \in DOMAIN raised : Shown(i)}
      BY <2>1, <2>3
    <3>3. MessagesInOrder'
      BY <3>1, <3>2 DEF LogRight, MessagesInOrder
    <3> QED
      BY <2>1, <3>3 DEF LogRight, OutStep
  <2> QED
    BY <2>2, <2>3
<1> QED
  BY <1>2, <1>3 DEF OutStep

\* Each message comes out at most once and in the order of its making, and the
\* limit hides exactly those behind that many errors, whichever pass, or main,
\* prints them.
THEOREM MessagesComeInOrder == Spec => []MessagesInOrder
<1>1. Init => LogRight
  <2> SUFFICES ASSUME Init PROVE LogRight
    OBVIOUS
  <2>1. Errors = {} /\ Out = <<>> /\ DOMAIN raised = {} /\ DOMAIN Out = {}
    BY DEF Init, Errors, Out
  <2>2. MessagesInOrder
    BY <2>1 DEF Init, MessagesInOrder
  <2>3. IsFiniteSet(Errors) /\ Cardinality(Errors) = 0
    BY <2>1, FS_EmptySet
  <2> QED
    BY <2>2, <2>3 DEF Init, LogRight
<1>2. IInv /\ LogRight /\ [Next]_vars => LogRight'
  <2> SUFFICES ASSUME IInv, LogRight, [Next]_vars PROVE LogRight'
    OBVIOUS
  <2> USE DEF Kinds
  <2>1. /\ UNCHANGED log /\ UNCHANGED printed => OutStep
        /\ PrintMessages => OutStep
        /\ AddMessage("error") /\ UNCHANGED printed => OutStep
        /\ AddMessage("warning") /\ UNCHANGED printed => OutStep
        /\ AddAndPrint("error") => OutStep
        /\ AddAndPrint("warning") => OutStep
    BY OutSteps DEF IInv, LogRight
  <2>2. CASE WarnOfArgument \/ ReadLimit \/ EndArguments \/ Start \/ SkipOtherFile \/ OpenFails
             \/ ReportInFile \/ EndFile
    <3>1. OutStep
      BY <2>1, <2>2 DEF WarnOfArgument, ReadLimit, EndArguments, Start, SkipOtherFile, OpenFails,
                        ReportInFile, EndFile
    <3>2. UNCHANGED opts /\ stage' # "exit"
      BY <2>2 DEF WarnOfArgument, ReadLimit, EndArguments, Start, SkipOtherFile, OpenFails, ReportInFile,
                  EndFile, AfterParsing, Goto, place
    <3> QED
      BY <3>1, <3>2, OutInOrder DEF IInv
  <2>3. CASE StartWalk \/ ReportInWalk \/ NextFile \/ EndWalk
    <3>1. OutStep
      BY <2>1, <2>3 DEF StartWalk, ReportInWalk, NextFile, EndWalk
    <3>2. UNCHANGED opts /\ stage' # "exit"
      BY <2>3 DEF StartWalk, ReportInWalk, NextFile, EndWalk, Goto, place
    <3> QED
      BY <3>1, <3>2, OutInOrder DEF IInv
  <2>4. CASE Emit \/ FindTarget \/ AddModule \/ LinkModule \/ VerifyModules \/ Optimize
             \/ WriteModule \/ Link
    <3>1. OutStep
      BY <2>1, <2>4 DEF Emit, FindTarget, AddModule, LinkModule, VerifyModules, Optimize,
                        WriteModule, Link
    <3>2. UNCHANGED opts /\ stage' # "exit"
      BY <2>4 DEF Emit, FindTarget, AddModule, LinkModule, VerifyModules, Optimize, WriteModule,
                  Link, Goto
    <3> QED
      BY <3>1, <3>2, OutInOrder DEF IInv
  <2>5. CASE Exit
    <3>1. OutStep /\ UNCHANGED opts /\ messages' = <<>>
      BY <2>1, <2>5 DEF Exit, PrintMessages
    <3> QED
      BY <3>1, OutInOrder DEF IInv
  <2>6. CASE UNCHANGED vars
    <3>1. OutStep
      BY <2>1, <2>6 DEF vars, log
    <3>2. UNCHANGED opts /\ (stage' = "exit" => messages' = <<>>)
      BY <2>6 DEF vars, LogRight, MessagesInOrder
    <3> QED
      BY <3>1, <3>2, OutInOrder DEF IInv
  <2> QED
    BY <2>2, <2>3, <2>4, <2>5, <2>6 DEF Next
<1>3. Spec => []LogRight
  BY Invariant, <1>1, <1>2, PTL DEF Spec
<1>4. LogRight => MessagesInOrder
  BY DEF LogRight
<1> QED
  BY <1>3, <1>4, PTL

-----------------------------------------------------------------------------
(***************************************************************************)
(* Types.                                                                  *)
(***************************************************************************)
MessagesTyped == messages \in Seq(DOMAIN raised) /\ printed \in Seq(DOMAIN raised)

\* The places in lists that each stage needs
PlaceRight ==
  /\ walk \in 0..Len(Walks) /\ file \in 0..N + 1 /\ trees \subseteq 1..N
  /\ stage = "walk" => walk \in 1..Len(Walks)
  /\ stage \in {"parse", "linkModule"} => file \in 1..N

ValuesTyped ==
  /\ output \in {"old", "empty", "written"} /\ temp \in {"none", "empty", "written", "removed"}
  /\ status \in {"none", "success", "failure"}

\* Messages that are kept or shown are among those raised.
LEMMA MessagesStayTyped ==
  ASSUME Typed, MessagesTyped,
         \/ UNCHANGED <<log, printed>>
         \/ PrintMessages
         \/ \E kind \in Kinds : AddMessage(kind) /\ UNCHANGED printed
         \/ \E kind \in Kinds : AddAndPrint(kind)
  PROVE  MessagesTyped'
<1> DEFINE new == Len(raised) + 1
<1>1. CASE UNCHANGED <<log, printed>>
  BY <1>1 DEF MessagesTyped, log
<1>2. CASE PrintMessages
  BY <1>2 DEF MessagesTyped, PrintMessages
<1>3. ASSUME NEW kind \in Kinds, Adds(kind)
      PROVE  /\ DOMAIN raised \subseteq DOMAIN raised' /\ new \in DOMAIN raised'
             /\ <<>> \in Seq(DOMAIN raised') /\ <<new>> \in Seq(DOMAIN raised')
             /\ messages \in Seq(DOMAIN raised') /\ printed \in Seq(DOMAIN raised')
  <2>1. Message(kind) \in MessageType /\ Len(raised) \in Nat /\ DOMAIN raised = 1..Len(raised)
    BY <1>3, AddedErrors DEF Typed
  <2>2. DOMAIN raised' = 1..new
    BY <1>3, <2>1 DEF Adds, Typed
  <2>3. DOMAIN raised \subseteq DOMAIN raised' /\ new \in DOMAIN raised'
    BY <2>1, <2>2
  <2>4. \A q \in Seq(DOMAIN raised) : q \in Seq(DOMAIN raised')
    BY <2>3
  <2> QED
    BY <2>3, <2>4 DEF MessagesTyped
<1> HIDE DEF new
<1>4. ASSUME NEW kind \in Kinds, AddMessage(kind), UNCHANGED printed PROVE MessagesTyped'
  <2>1. Adds(kind) /\ (messages' = Append(messages, new) \/ messages' = messages)
    BY <1>4, LogSteps DEF AddMessage, new
  <2> QED
    BY <1>3, <1>4, <2>1 DEF MessagesTyped
<1>5. ASSUME NEW kind \in Kinds, AddAndPrint(kind) PROVE MessagesTyped'
  <2>1. Adds(kind) /\ messages' = <<>>
    BY <1>5, LogSteps DEF AddAndPrint
  <2>2. PICK shown \in {<<>>, <<new>>} : printed' = printed \o messages \o shown
    BY <1>5 DEF AddAndPrint, new
  <2>3. shown \in Seq(DOMAIN raised')
    BY <1>3, <2>1
  <2>4. printed \o messages \in Seq(DOMAIN raised')
    BY <1>3, <2>1
  <2> QED
    BY <1>3, <2>1, <2>2, <2>3, <2>4 DEF MessagesTyped
<1> QED
  BY <1>1, <1>2, <1>4, <1>5

LEMMA PlacesStayRight ==
  ASSUME Typed, PlaceRight, [Next]_vars
  PROVE  PlaceRight'
<1>1. N \in Nat /\ opts' = opts /\ N' = N
  <2>1. N \in Nat
    BY ParametersAssumption DEF Typed, Options, N
  <2>2. opts' = opts
    BY DEF vars, Next, WarnOfArgument, ReadLimit, EndArguments, Start, SkipOtherFile, OpenFails, ReportInFile,
           EndFile, StartWalk, ReportInWalk, NextFile, EndWalk, Emit, FindTarget, AddModule,
           LinkModule, VerifyModules, Optimize, WriteModule, Link, Exit
  <2> QED
    BY <2>1, <2>2 DEF N
<1>2. 17 = Len(Walks)
  BY DEF Walks
<1> USE DEF PlaceRight, place, Goto
<1>3. CASE UNCHANGED <<place, trees>>
  BY <1>1, <1>2, <1>3
<1>4. CASE WarnOfArgument
  BY <1>3, <1>4 DEF WarnOfArgument
<1>5. CASE EndArguments
  BY <1>1, <1>2, <1>5 DEF EndArguments
<1>6. CASE Start
  <2>1. trees' = trees /\ walk' = 0 /\ stage' # "walk"
    BY <1>6 DEF Start
  <2>2. (stage' = "parse" /\ N # 0 /\ file' = 1) \/ (stage' = "done" /\ file' = 0)
    BY <1>6 DEF Start
  <2> QED
    BY <1>1, <1>2, <2>1, <2>2
<1>7. ASSUME stage = "parse", AfterParsing(file), trees' \subseteq trees \cup {file} PROVE PlaceRight'
  <2>1. file \in 1..N
    BY <1>7
  <2>2. CASE file < N
    BY <1>1, <1>2, <1>7, <2>1, <2>2 DEF AfterParsing
  <2>3. CASE ~ (file < N)
    BY <1>1, <1>2, <1>7, <2>1, <2>3 DEF AfterParsing
  <2> QED
    BY <2>2, <2>3
<1>8. CASE SkipOtherFile
  BY <1>7, <1>8 DEF SkipOtherFile
<1>9. CASE OpenFails
  BY <1>7, <1>9 DEF OpenFails
<1>10. CASE ReportInFile
  BY <1>3, <1>10 DEF ReportInFile
<1>11. CASE EndFile
  BY <1>7, <1>11 DEF EndFile
<1>12. CASE StartWalk
  <2>1. /\ trees' = trees /\ walk \in 1..17
        /\ \/ stage' = "walk" /\ walk' = walk /\ file' \in {1, N + 1}
           \/ stage' = "done" /\ walk' = 0 /\ file' = 0
    BY <1>2, <1>12 DEF StartWalk
  <2> QED
    BY <1>1, <1>2, <2>1
<1>13. CASE ReportInWalk
  BY <1>3, <1>13 DEF ReportInWalk
<1>14. CASE NextFile
  BY <1>1, <1>2, <1>14 DEF NextFile
<1>15. CASE EndWalk
  <2>1. /\ trees' = trees /\ walk \in 1..17
        /\ \/ stage' = "walk" /\ walk < 17 /\ walk' = walk + 1 /\ file' = 0
           \/ stage' = "emit" /\ walk' = 0 /\ file' = 0
    BY <1>2, <1>15 DEF EndWalk
  <2>2. walk' \in 0..17 /\ (stage' = "walk" => walk' \in 1..17)
    BY <2>1
  <2>3. file' \in 0..N' + 1 /\ trees' \subseteq 1..N' /\ stage' \notin {"parse", "linkModule"}
    BY <1>1, <2>1
  <2> QED
    BY <1>2, <2>2, <2>3
<1>16. ASSUME trees' = trees, walk' = 0, stage' \notin {"walk", "parse", "linkModule"},
              file' = 0 \/ file' = 1 \/ (file \in 1..N /\ file' = file + 1)
       PROVE  PlaceRight'
  BY <1>1, <1>2, <1>16
<1>17. CASE Emit
  BY <1>16, <1>17 DEF Emit
<1>18. CASE FindTarget
  BY <1>16, <1>18 DEF FindTarget
<1>19. CASE AddModule
  <2>1. /\ trees' = trees /\ walk' = 0 /\ file \in 1..N
        /\ \/ stage' = "modules" /\ file' = file + 1
           \/ stage' = "linkModule" /\ file' = file
    BY <1>19 DEF AddModule
  <2> QED
    BY <1>1, <1>2, <2>1
<1>20. CASE LinkModule
  BY <1>16, <1>20 DEF LinkModule
<1>21. CASE VerifyModules
  BY <1>16, <1>21 DEF VerifyModules
<1>22. CASE Optimize
  BY <1>16, <1>22 DEF Optimize
<1>23. CASE WriteModule
  BY <1>16, <1>23 DEF WriteModule
<1>24. CASE Link
  BY <1>16, <1>24 DEF Link
<1>25. CASE Exit
  BY <1>16, <1>25 DEF Exit
<1>26. CASE ReadLimit
  BY <1>1, <1>2, <1>26 DEF ReadLimit
<1>27. CASE UNCHANGED vars
  BY <1>3, <1>27 DEF vars
<1> HIDE DEF PlaceRight, place, Goto
<1> QED
  BY <1>4, <1>5, <1>6, <1>8, <1>9, <1>10, <1>11, <1>12, <1>13, <1>14, <1>15, <1>17, <1>18, <1>19,
     <1>20, <1>21, <1>22, <1>23, <1>24, <1>25, <1>26, <1>27 DEF Next

\* Every step treats the messages in one of the four ways.
LEMMA MessageSteps ==
  ASSUME [Next]_vars
  PROVE  \/ UNCHANGED <<log, printed>>
         \/ PrintMessages
         \/ \E kind \in Kinds : AddMessage(kind) /\ UNCHANGED printed
         \/ \E kind \in Kinds : AddAndPrint(kind)
<1> USE DEF Kinds
<1>1. CASE UNCHANGED vars
  BY <1>1 DEF vars, log
<1>2. CASE WarnOfArgument \/ ReadLimit \/ EndArguments \/ Start
  BY <1>2 DEF WarnOfArgument, ReadLimit, EndArguments, Start
<1>3. CASE SkipOtherFile \/ OpenFails \/ ReportInFile \/ EndFile
  BY <1>3 DEF SkipOtherFile, OpenFails, ReportInFile, EndFile
<1>4. CASE StartWalk \/ ReportInWalk \/ NextFile \/ EndWalk
  BY <1>4 DEF StartWalk, ReportInWalk, NextFile, EndWalk
<1>5. CASE Emit \/ FindTarget \/ AddModule
  BY <1>5 DEF Emit, FindTarget, AddModule
<1>6. CASE LinkModule \/ VerifyModules \/ Optimize \/ WriteModule \/ Link \/ Exit
  BY <1>6 DEF LinkModule, VerifyModules, Optimize, WriteModule, Link, Exit
<1> QED
  BY <1>1, <1>2, <1>3, <1>4, <1>5, <1>6 DEF Next

LEMMA ValuesStayTyped ==
  ASSUME ValuesTyped, [Next]_vars
  PROVE  ValuesTyped'
<1> USE DEF ValuesTyped, disk
<1>1. CASE UNCHANGED <<disk, status>>
  BY <1>1
<1>2. CASE Emit \/ WriteModule \/ Link \/ Exit
  BY <1>2 DEF Emit, WriteModule, Link, Exit
<1> QED
  BY <1>1, <1>2 DEF Next, vars, WarnOfArgument, ReadLimit, EndArguments, Start, SkipOtherFile, OpenFails,
                    ReportInFile, EndFile, StartWalk, ReportInWalk, NextFile, EndWalk, FindTarget,
                    AddModule, LinkModule, VerifyModules, Optimize

\* The variables have their types: no walk leaves its list of files, a file has
\* a tree only if it is one of them, and a message that is kept or shown was
\* raised.
THEOREM TypeCorrect == Spec => []TypeOK
<1> DEFINE Inv == MessagesTyped /\ PlaceRight /\ ValuesTyped
<1>1. Init => Inv
  <2> SUFFICES ASSUME Init PROVE Inv
    OBVIOUS
  <2>1. N \in Nat
    BY ParametersAssumption DEF Init, Options, N
  <2>2. 17 = Len(Walks)
    BY DEF Walks
  <2> QED
    BY <2>1, <2>2 DEF Init, MessagesTyped, PlaceRight, ValuesTyped
<1>2. IInv /\ Inv /\ [Next]_vars => Inv'
  BY MessagesStayTyped, MessageSteps, PlacesStayRight, ValuesStayTyped DEF IInv
<1>3. IInv /\ Inv => TypeOK
  BY DEF IInv, Typed, MessagesTyped, PlaceRight, ValuesTyped, TypeOK, Stages, Early, Back
<1> QED
  BY Invariant, <1>1, <1>2, <1>3, PTL DEF Spec
=============================================================================
