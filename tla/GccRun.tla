------------------------------- MODULE GccRun -------------------------------
(***************************************************************************)
(* Compiling and running the program of a task (GCC.java).                 *)
(*                                                                         *)
(* Every task owns one GCC object, whose fields file, cppName and          *)
(* executableName are shared by the threads that execute the task: the     *)
(* JavaFX thread (both run buttons) and the compile threads of the exam.   *)
(* A call writes a source file, has g++ make an executable of it, runs it, *)
(* polls its output until the time limit, judges the exit and cleans up.   *)
(* The program is a process of its own: it prints lines, may stay in the   *)
(* middle of one for any time, may end with an error or not at all.        *)
(*                                                                         *)
(* File operations and g++ itself are taken to work; what can be missing   *)
(* is a file that another thread deleted or has not written yet.           *)
(***************************************************************************)
EXTENDS Integers, FiniteSets

CONSTANTS Callers,    \* threads that execute the task
          MaxCalls,   \* bound on the number of calls (model bound)
          MaxLines,   \* bound on the lines a program prints (model bound)
          None        \* null: no file

ASSUME GccAssumption ==
    /\ MaxCalls \in Nat
    /\ MaxLines \in Nat
    /\ None \notin Nat

\* Every call makes one temporary file; its name also names the call.
Files == 1 .. MaxCalls

VARIABLES
    file, cppName, executableName,   \* fields of the GCC object
    src,    \* the source files on disk: which call wrote them, does it compile
    bin,    \* the executables on disk: the call whose source they come from
    th,     \* the calling threads
    prog,   \* the program each caller runs
    calls,       \* number of calls so far
    overlapped   \* calls that overlapped another one (history)

fields == <<file, cppName, executableName>>
disk   == <<src, bin>>
hist   == <<calls, overlapped>>
vars   == <<fields, disk, th, prog, hist>>

\* What a call may report: nothing yet, an error of g++, an executable that
\* could not be started, an exception, a run time error, a timeout, success.
Verdicts == {"none", "compileError", "alert", "exception", "runError", "timeout", "ok"}

Pcs == {"idle", "create", "write", "name", "stem", "check", "spawn", "gxx", "launch",
        "loop", "read", "judge", "deleteExe", "findSrc", "deleteSrc", "forget"}

Source  == [by : Files \cup {None}, ok : BOOLEAN]
Missing == [by |-> None, ok |-> TRUE]     \* no such file
Blank   == [by |-> None, ok |-> FALSE]    \* created, not written

Caller == [pc : Pcs, call : Files \cup {None}, ok : BOOLEAN,
           exe : Files \cup {None}, cpp : Files \cup {None},
           late : BOOLEAN, over : BOOLEAN,
           from : SUBSET Files, verdict : Verdicts]
Process == [state : {"none", "running", "exited", "failed"}, by : Files \cup {None},
            unread : 0 .. MaxLines, printed : 0 .. MaxLines, part : BOOLEAN]

NoProcess == [state |-> "none", by |-> None, unread |-> 0, printed |-> 0, part |-> FALSE]

NoCall == [pc |-> "idle", call |-> None, ok |-> TRUE, exe |-> None, cpp |-> None,
           late |-> FALSE, over |-> FALSE, from |-> {}, verdict |-> "none"]

(* Every variable has its type.                                             *)
TypeOK ==
    /\ {file, cppName, executableName} \subseteq Files \cup {None}
    /\ src \in [Files -> Source]
    /\ bin \in [Files -> Files \cup {None}]
    /\ th \in [Callers -> Caller]
    /\ prog \in [Callers -> Process]
    /\ calls \in 0 .. MaxCalls
    /\ overlapped \subseteq Files

Init ==
    /\ file = None
    /\ cppName = None
    /\ executableName = None
    /\ src = [f \in Files |-> Missing]
    /\ bin = [f \in Files |-> None]
    /\ th = [c \in Callers |-> NoCall]
    /\ prog = [c \in Callers |-> NoProcess]
    /\ calls = 0
    /\ overlapped = {}

-----------------------------------------------------------------------------

Mine(c)    == th[c].call
At(c, p)   == th[c].pc = p
Goto(c, p) == th' = [th EXCEPT ![c].pc = p]

\* The call returns and reports v.
Return(c, v) == th' = [th EXCEPT ![c] = [NoCall EXCEPT !.call = Mine(c), !.verdict = v,
                                                      !.from = th[c].from]]

\* Mutant: the list for the output is used again.
Begun_KeepsOutput(t, ok) == [t EXCEPT !.pc = "create", !.call = calls + 1, !.ok = ok,
                                      !.verdict = "none"]
\* execute is called, with an empty list for its output (outcome, output).
Begun(t, ok) == [NoCall EXCEPT !.pc = "create", !.call = calls + 1, !.ok = ok]

\* The lines given compile or do not.
Call(c) ==
    /\ At(c, "idle")
    /\ calls < MaxCalls
    /\ \E ok \in BOOLEAN : th' = [th EXCEPT ![c] = Begun(@, ok)]
    /\ calls' = calls + 1
    /\ LET busy == {d \in Callers : ~At(d, "idle")}
       IN  overlapped' = overlapped \cup
               (IF busy = {} THEN {} ELSE {calls + 1} \cup {Mine(d) : d \in busy})
    /\ UNCHANGED <<fields, disk, prog>>

\* createFile: file = File.createTempFile(...)
Create(c) ==
    /\ At(c, "create")
    /\ file' = Mine(c)
    /\ src' = [src EXCEPT ![Mine(c)] = Blank]
    /\ Goto(c, "write")
    /\ UNCHANGED <<cppName, executableName, bin, prog>>

\* Files.write(file.toPath(), lines): to whatever file is named by now.
Write(c) ==
    /\ At(c, "write") /\ file # None
    /\ src' = [src EXCEPT ![file] = [by |-> Mine(c), ok |-> th[c].ok]]
    /\ Goto(c, "name")
    /\ UNCHANGED <<fields, bin, prog>>

NameSource(c) ==
    /\ At(c, "name") /\ file # None
    /\ cppName' = file
    /\ Goto(c, "stem")
    /\ UNCHANGED <<file, executableName, disk, prog>>

NameExecutable(c) ==
    /\ At(c, "stem") /\ file # None
    /\ executableName' = file
    /\ Goto(c, "check")
    /\ UNCHANGED <<file, cppName, disk, prog>>

\* compile: file.exists()
CheckFile(c) ==
    /\ At(c, "check") /\ file # None
    /\ IF src[file] = Missing THEN Return(c, "alert") ELSE Goto(c, "spawn")
    /\ UNCHANGED <<fields, disk, prog>>

\* In these four steps another thread may have set file to null: the
\* exception leaves execute.
NullPointer(c) ==
    /\ th[c].pc \in {"write", "name", "stem", "check"} /\ file = None
    /\ Return(c, "exception")
    /\ UNCHANGED <<fields, disk, prog>>

\* g++ is started with the names the fields have now.
Spawn(c) ==
    /\ At(c, "spawn")
    /\ th' = [th EXCEPT ![c].pc = "gxx", ![c].cpp = cppName, ![c].exe = executableName]
    /\ UNCHANGED <<fields, disk, prog>>

\* g++ reads the source: it complains, or writes the executable in silence.
\* If it complains the source file is left on disk and in the field.
Gxx(c) ==
    LET s == src[th[c].cpp]
    IN  /\ At(c, "gxx")
        /\ IF s.by # None /\ s.ok
           THEN bin' = [bin EXCEPT ![th[c].exe] = s.by] /\ Goto(c, "launch")
           ELSE Return(c, "compileError") /\ UNCHANGED bin
        /\ UNCHANGED <<fields, src, prog>>

\* The program is started; if there is none the user is alerted.
Launch(c) ==
    /\ At(c, "launch")
    /\ IF bin[executableName] # None
       THEN /\ prog' = [prog EXCEPT ![c] = [NoProcess EXCEPT !.state = "running",
                                                             !.by = bin[executableName]]]
            /\ Goto(c, "loop")
       ELSE Return(c, "alert") /\ UNCHANGED prog
    /\ UNCHANGED <<fields, disk>>

\* reader.ready(): is there anything to read, be it the beginning of a line.
Ready(p) == p.unread > 0 \/ p.part

\* while (elapsedTimeSec < timeoutVal): the test is of the time that the
\* previous round took; then the time is taken and the output is polled.
Loop(c) ==
    /\ At(c, "loop")
    /\ IF th[c].over
       THEN Goto(c, "judge")
       ELSE th' = [th EXCEPT ![c].pc = IF Ready(prog[c]) THEN "read" ELSE "loop",
                             ![c].over = th[c].late]
    /\ UNCHANGED <<fields, disk, prog>>

\* Mutant: the end of the program is not the end of a line.
LineRead_WholeLines(p) == p.unread > 0
\* reader.readLine() returns at the end of a line or of the program.
LineRead(p) == p.unread > 0 \/ p.state # "running"

\* Mutant: the last piece is taken for a line.
Rest_Lines(p) == [p EXCEPT !.unread = @ - 1]
\* What is left of p's output.
Rest(p) == IF p.unread > 0 THEN [p EXCEPT !.unread = @ - 1] ELSE [p EXCEPT !.part = FALSE]

Read(c) ==
    /\ At(c, "read")
    /\ LineRead(prog[c])
    /\ prog' = [prog EXCEPT ![c] = Rest(@)]
    /\ th' = [th EXCEPT ![c].pc = "loop", ![c].from = @ \cup {prog[c].by}]
    /\ UNCHANGED <<fields, disk>>

\* The time limit passes.
Expire(c) ==
    /\ th[c].pc \in {"loop", "read"}
    /\ ~th[c].late
    /\ th' = [th EXCEPT ![c].late = TRUE]
    /\ UNCHANGED <<fields, disk, prog, hist>>

\* p.waitFor(1, SECONDS) returns when the program ends or a second later;
\* exitValue() throws while the program runs: then the output is replaced.
Judge(c) ==
    /\ At(c, "judge")
    /\ LET verdict == CASE prog[c].state = "exited"  -> "ok"
                        [] prog[c].state = "failed"  -> "runError"
                        [] prog[c].state = "running" -> "timeout"
       IN  th' = [th EXCEPT ![c].pc = "deleteExe", ![c].verdict = verdict,
                            ![c].from = IF verdict = "timeout" THEN {} ELSE @]
    /\ UNCHANGED <<fields, disk, prog>>

\* Mutant: nothing is deleted.
Deleted_Not == bin
\* The executables left by tmp.delete().
Deleted == [bin EXCEPT ![executableName] = None]

\* p.destroy(), then the executable is deleted.
DeleteExe(c) ==
    /\ At(c, "deleteExe")
    /\ prog' = [prog EXCEPT ![c] = NoProcess]
    /\ bin' = Deleted
    /\ Goto(c, "findSrc")
    /\ UNCHANGED <<fields, src>>

SourceThere == file # None /\ src[file] # Missing

\* file.exists(): the field is read anew by every step from here on; that it
\* is null, or the file gone, ends the cleaning up (a null pointer is caught).
FindSrc(c) ==
    /\ At(c, "findSrc")
    /\ IF SourceThere THEN Goto(c, "deleteSrc") ELSE Return(c, th[c].verdict)
    /\ UNCHANGED <<fields, disk, prog>>

\* file.delete()
DeleteSrc(c) ==
    /\ At(c, "deleteSrc")
    /\ IF SourceThere
       THEN src' = [src EXCEPT ![file] = Missing] /\ Goto(c, "forget")
       ELSE Return(c, th[c].verdict) /\ UNCHANGED src
    /\ UNCHANGED <<fields, bin, prog>>

\* file = null
ForgetSrc(c) ==
    /\ At(c, "forget")
    /\ file' = None
    /\ Return(c, th[c].verdict)
    /\ UNCHANGED <<cppName, executableName, disk, prog>>

-----------------------------------------------------------------------------
(* The program.                                                            *)

Program(c) == prog[c].state = "running" /\ UNCHANGED <<fields, disk, th, hist>>

\* The beginning of a line is flushed.
BeginLine(c) ==
    /\ Program(c)
    /\ ~prog[c].part
    /\ prog[c].printed < MaxLines
    /\ prog' = [prog EXCEPT ![c].part = TRUE, ![c].printed = @ + 1]

EndLine(c) ==
    /\ Program(c)
    /\ prog[c].part
    /\ prog' = [prog EXCEPT ![c].part = FALSE, ![c].unread = @ + 1]

End(c) ==
    /\ Program(c)
    /\ \E s \in {"exited", "failed"} : prog' = [prog EXCEPT ![c].state = s]

-----------------------------------------------------------------------------

Step(c) ==
    /\ \/ Create(c) \/ Write(c) \/ NameSource(c) \/ NameExecutable(c) \/ CheckFile(c)
       \/ NullPointer(c) \/ Spawn(c) \/ Gxx(c) \/ Launch(c)
       \/ Loop(c) \/ Read(c)
       \/ Judge(c) \/ DeleteExe(c)
       \/ FindSrc(c) \/ DeleteSrc(c) \/ ForgetSrc(c)
    /\ UNCHANGED hist

Next ==
    \E c \in Callers :
        Call(c) \/ Step(c) \/ Expire(c) \/ BeginLine(c) \/ EndLine(c) \/ End(c)

\* The calling thread is scheduled and time passes; the program need not do
\* anything.
Spec == /\ Init /\ [][Next]_vars
        /\ \A c \in Callers : WF_vars(Step(c)) /\ WF_vars(Expire(c))

\* Programs that never stop in the middle of a line.
LineSpec == Spec /\ \A c \in Callers : WF_vars(EndLine(c))

-----------------------------------------------------------------------------

(* The output a call returns was printed by the program whose lines the     *)
(* call was given, as GCC.java:107-111 says of execute.  This is for calls  *)
(* that overlap no other one: whatever fields, sources and executables the  *)
(* calls before left behind, overlapping ones included.  (Two threads that  *)
(* execute the same task share the fields, and one may return the output of *)
(* the other's program.)                                                    *)
OwnOutputAlone ==
    \A c \in Callers : Mine(c) \notin overlapped => th[c].from \subseteq {Mine(c)}

(* As long as calls come one after the other there is no executable on disk *)
(* between them, and the only sources left are those that g++ rejected      *)
(* (execute does not delete them, line 114).                                *)
NoLeftovers ==
    (overlapped = {} /\ \A c \in Callers : At(c, "idle")) =>
        \A f \in Files : /\ bin[f] = None
                         /\ src[f] # Missing => src[f].by = f /\ ~src[f].ok

(* A call comes to an end: there is a time limit (help.fxml:350).  The      *)
(* program must finish its lines for that: readLine, once begun, waits for  *)
(* the end of a line, and the limit is not looked at.                       *)
ExecuteEnds == \A c \in Callers : ~At(c, "idle") ~> At(c, "idle")

=============================================================================
