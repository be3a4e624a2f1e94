--------------------------- MODULE ExamCompilation ---------------------------
(***************************************************************************)
(* The window that compiles every task before a PDF is made                *)
(* (GUIExamCompilationController.java) and the loop it runs (Exam.compile). *)
(*                                                                         *)
(* Every show() starts two threads: one compiles, one watches the counter  *)
(* of compiled tasks and reports progress.  The threads of all runs and    *)
(* the JavaFX thread share the counter, the cancelled flag and the OK      *)
(* button.  The window is not modal, and cancelling stops no compile       *)
(* thread, so the threads of an earlier run may still be alive in the next *)
(* one.                                                                    *)
(***************************************************************************)
EXTENDS Integers, FiniteSets

CONSTANTS NTasks,     \* tasks in the exam (fixed while compiling)
          MaxShows    \* bound on the times the window is shown (model bound)

ASSUME CompilationAssumption ==
    /\ NTasks \in Nat \ {0}
    /\ MaxShows \in Nat \ {0}

Runs == 1 .. MaxShows

(* What executing one task may come to: it compiled and printed something,  *)
(* or it did not compile, as a "LineNumbers" task should not; the program   *)
(* failed or ran out of time; it printed nothing at all; it did not compile. *)
Outcomes == {"ok", "failed", "silent", "compileError"}

VARIABLES
    shows,      \* runs started so far; the last one is bound to the window
    window,     \* is the window showing
    okEnabled,  \* is its OK button enabled
    cancelled,  \* GUIExamCompilationController.cancelled
    progress,   \* Exam.compilationProgress
    comp,       \* compile thread of each run: [pc, task, out, ret]
    watch,      \* pc of the progress thread of each run
    posted,     \* runs whose error runnable waits in the JavaFX queue
    alerted,    \* runs whose error was shown to the user (history)
    fx,         \* "idle", or "hiding" in the middle of cancelAndQuit
    pdfs        \* runs whose OK button started the generation of a PDF

shared  == <<okEnabled, cancelled, progress>>
vars    == <<shows, window, shared, comp, watch, posted, alerted, fx, pdfs>>

CompPcs  == {"none", "start", "run", "judge", "last", "end", "cancel", "post",
             "done", "dead"}
WatchPcs == {"none", "check", "test", "cancelled", "success"}

(* Every variable has its type; every thread is at a known place.          *)
TypeOK ==
    /\ shows \in 0 .. MaxShows
    /\ window \in BOOLEAN
    /\ okEnabled \in BOOLEAN
    /\ cancelled \in BOOLEAN
    /\ progress \in Int
    /\ comp \in [Runs -> [pc : CompPcs, task : 1 .. NTasks, out : Outcomes,
                          ret : {1, -1, -2, -3}]]
    /\ watch \in [Runs -> WatchPcs]
    /\ posted \subseteq Runs
    /\ alerted \subseteq Runs
    /\ fx \in {"idle", "hiding"}
    /\ pdfs \subseteq Runs

Init ==
    /\ shows = 0
    /\ window = FALSE
    /\ okEnabled = FALSE
    /\ cancelled = FALSE
    /\ progress = -1
    /\ comp = [j \in Runs |-> [pc |-> "none", task |-> 1, out |-> "ok", ret |-> 1]]
    /\ watch = [j \in Runs |-> "none"]
    /\ posted = {}
    /\ alerted = {}
    /\ fx = "idle"
    /\ pdfs = {}

-----------------------------------------------------------------------------
(* The compile thread of run j.                                            *)

Goto(j, p) == comp' = [comp EXCEPT ![j].pc = p]

\* Mutant: a compile error counts as success.
CompilationOk_AfterError(ret) == ret \in {1, -1, -3}

\* retVal of Exam.compile for which the OK button is enabled.  -3 stands for
\* -4 too: they differ in the alert that is shown besides.
CompilationOk(ret) == ret \in {1, -3}

\* saveButton.setDisable(true); compile() clears the output list and begins.
CompStart(j) ==
    /\ comp[j].pc = "start"
    /\ okEnabled' = FALSE
    /\ Goto(j, "run")
    /\ UNCHANGED <<shows, window, cancelled, progress, watch, posted, alerted, fx, pdfs>>

\* Mutant: executed tasks are not counted.
CompRun_NoCount(j) ==
    /\ comp[j].pc = "run"
    /\ \/ comp' = [comp EXCEPT ![j].pc = "end", ![j].ret = -2]
       \/ \E o \in Outcomes :
             comp' = [comp EXCEPT ![j].pc = "judge", ![j].out = o]
    /\ UNCHANGED <<shows, window, shared, watch, posted, alerted, fx, pdfs>>

\* callExecute on the next task: without answers compile() returns -2,
\* otherwise the result is stored and the counter goes up.
CompRun(j) ==
    /\ comp[j].pc = "run"
    /\ \/ /\ comp' = [comp EXCEPT ![j].pc = "end", ![j].ret = -2]
          /\ UNCHANGED progress
       \/ /\ \E o \in Outcomes :
                comp' = [comp EXCEPT ![j].pc = "judge", ![j].out = o]
          /\ progress' = progress + 1
    /\ UNCHANGED <<shows, window, okEnabled, cancelled, watch, posted, alerted, fx, pdfs>>

\* Mutant: the loop runs once too often.
AfterTask_OnceMore(c) ==
    IF c.task > NTasks THEN [c EXCEPT !.pc = "last"]
                       ELSE [c EXCEPT !.pc = "run", !.task = @ + 1]

\* The loop goes on with the next task or ends.
AfterTask(c) ==
    IF c.task = NTasks THEN [c EXCEPT !.pc = "last"]
                       ELSE [c EXCEPT !.pc = "run", !.task = @ + 1]

\* compile() looks at the output.  output.get(1) throws when the program
\* printed nothing: the thread dies.  A program that failed does not end the
\* loop.
CompJudge(j) ==
    LET c    == [comp[j] EXCEPT !.out = "ok"]   \* output.clear()
        next == AfterTask(c)
    IN  /\ c.pc = "judge"
        /\ \/ /\ comp[j].out = "ok"
              /\ comp' = [comp EXCEPT ![j] = next]
           \/ /\ comp[j].out = "failed"
              /\ comp' = [comp EXCEPT ![j] = [next EXCEPT !.ret = -3]]
           \/ /\ comp[j].out = "compileError"
              /\ comp' = [comp EXCEPT ![j] = [c EXCEPT !.pc = "end", !.ret = -1]]
           \/ /\ comp[j].out = "silent"
              /\ comp' = [comp EXCEPT ![j] = [c EXCEPT !.pc = "dead"]]
        /\ UNCHANGED <<shows, window, shared, watch, posted, alerted, fx, pdfs>>

\* After the loop compile() counts once more and returns.
CompLast(j) ==
    /\ comp[j].pc = "last"
    /\ progress' = progress + 1
    /\ Goto(j, "end")
    /\ UNCHANGED <<shows, window, okEnabled, cancelled, watch, posted, alerted, fx, pdfs>>

\* saveButton.setDisable(!compilationOk)
CompEnd(j) ==
    /\ comp[j].pc = "end"
    /\ okEnabled' = CompilationOk(comp[j].ret)
    /\ Goto(j, IF CompilationOk(comp[j].ret) THEN "done" ELSE "cancel")
    /\ UNCHANGED <<shows, window, cancelled, progress, watch, posted, alerted, fx, pdfs>>

\* Mutant: nothing is reported once the run was cancelled.
CompCancel_Quiet(j) ==
    /\ comp[j].pc = "cancel"
    /\ cancelled' = TRUE
    /\ Goto(j, IF cancelled THEN "done" ELSE "post")
    /\ UNCHANGED <<shows, window, okEnabled, progress, watch, posted, alerted, fx, pdfs>>

\* setCancelled(true)
CompCancel(j) ==
    /\ comp[j].pc = "cancel"
    /\ cancelled' = TRUE
    /\ Goto(j, "post")
    /\ UNCHANGED <<shows, window, okEnabled, progress, watch, posted, alerted, fx, pdfs>>

\* Platform.runLater of the alert and of cancelAndQuit.
CompPost(j) ==
    /\ comp[j].pc = "post"
    /\ posted' = posted \cup {j}
    /\ Goto(j, "done")
    /\ UNCHANGED <<shows, window, shared, watch, alerted, fx, pdfs>>

Compile(j) ==
    CompStart(j) \/ CompRun(j) \/ CompJudge(j) \/ CompLast(j)
    \/ CompEnd(j) \/ CompCancel(j) \/ CompPost(j)

-----------------------------------------------------------------------------
(* The progress thread of run j.                                           *)

\* Mutant: the loop ends one task early.
StillCompiling_OffByOne == progress + 2 < NTasks

\* The loop condition: the counter has not reached the last task.
StillCompiling == progress + 1 < NTasks

WatchCheck(j) ==
    /\ watch[j] = "check"
    /\ watch' = [watch EXCEPT ![j] = IF StillCompiling THEN "test" ELSE "success"]
    /\ UNCHANGED <<shows, window, shared, comp, posted, alerted, fx, pdfs>>

\* getCancelled; otherwise the progress bar is updated and the loop goes on.
WatchTest(j) ==
    /\ watch[j] = "test"
    /\ watch' = [watch EXCEPT ![j] = IF cancelled THEN "cancelled" ELSE "check"]
    /\ UNCHANGED <<shows, window, shared, comp, posted, alerted, fx, pdfs>>

Watch(j) == WatchCheck(j) \/ WatchTest(j)

-----------------------------------------------------------------------------
(* The JavaFX thread.                                                      *)

\* show(): from the window that saves the PDF, which can be opened at any
\* time.  The counter and the flag are reset, both threads are started.  The
\* OK button keeps the state the previous run left it in.
Show ==
    /\ fx = "idle"
    /\ shows < MaxShows
    /\ shows' = shows + 1
    /\ progress' = -1
    /\ cancelled' = FALSE
    /\ watch' = [watch EXCEPT ![shows + 1] = "check"]
    /\ Goto(shows + 1, "start")
    /\ window' = TRUE
    /\ UNCHANGED <<okEnabled, posted, alerted, fx, pdfs>>

\* Hiding a window that shows runs onHidden, which resets the flag.
Hide ==
    /\ window' = FALSE
    /\ cancelled' = IF window THEN FALSE ELSE cancelled

\* The Cancel button: cancelAndQuit, first half.
PressCancel ==
    /\ fx = "idle"
    /\ window
    /\ cancelled' = TRUE
    /\ fx' = "hiding"
    /\ UNCHANGED <<shows, window, okEnabled, progress, comp, watch, posted, alerted, pdfs>>

\* The error runnable of run j: the alert, then cancelAndQuit, first half.
ShowError(j) ==
    /\ fx = "idle"
    /\ j \in posted
    /\ posted' = posted \ {j}
    /\ alerted' = alerted \cup {j}
    /\ cancelled' = TRUE
    /\ fx' = "hiding"
    /\ UNCHANGED <<shows, window, okEnabled, progress, comp, watch, pdfs>>

\* cancelAndQuit, second half.
FinishHiding ==
    /\ fx = "hiding"
    /\ fx' = "idle"
    /\ Hide
    /\ UNCHANGED <<shows, okEnabled, progress, comp, watch, posted, alerted, pdfs>>

\* The close box of the window.
CloseWindow ==
    /\ fx = "idle"
    /\ window
    /\ Hide
    /\ UNCHANGED <<shows, okEnabled, progress, comp, watch, posted, alerted, fx, pdfs>>

\* The OK button: save() hides the window and generates the PDF.
PressOk ==
    /\ fx = "idle"
    /\ window
    /\ okEnabled
    /\ Hide
    /\ pdfs' = pdfs \cup {shows}
    /\ UNCHANGED <<shows, okEnabled, progress, comp, watch, posted, alerted, fx>>

-----------------------------------------------------------------------------
Next ==
    \/ Show \/ PressCancel \/ CloseWindow \/ PressOk
    \/ FinishHiding
    \/ \E j \in Runs : ShowError(j)
    \/ \E j \in Runs : CompStart(j)
    \/ \E j \in Runs : CompRun(j)
    \/ \E j \in Runs : CompJudge(j)
    \/ \E j \in Runs : CompLast(j)
    \/ \E j \in Runs : CompEnd(j)
    \/ \E j \in Runs : CompCancel(j)
    \/ \E j \in Runs : CompPost(j)
    \/ \E j \in Runs : WatchCheck(j)
    \/ \E j \in Runs : WatchTest(j)

\* A started thread and the event queue are never starved; the user may stop
\* at any time.
Fairness ==
    /\ \A j \in Runs : WF_vars(Compile(j)) /\ WF_vars(Watch(j)) /\ WF_vars(ShowError(j))
    /\ WF_vars(FinishHiding)

Spec == Init /\ [][Next]_vars /\ Fairness

-----------------------------------------------------------------------------

\* Run j has executed all its tasks.
AllExecuted(j) == comp[j].task = NTasks /\ comp[j].pc \notin {"none", "start", "run"}

\* Run j has come to its end with all tasks executed and no compile error.
Succeeded(j) == AllExecuted(j) /\ comp[j].pc = "done" /\ comp[j].ret \notin {-1, -2}

\* The progress thread of run j is alive.
Watching(j) == watch[j] \in {"check", "test"}

(* A PDF is generated only by a run that compiled all tasks.  help.fxml:308 *)
(* tells the user that compiling comes first and generating follows.  It    *)
(* holds while the window is shown once; a second run starts with the OK    *)
(* button of the first, and the first run's threads still set it.           *)
PdfAfterCompile == \A j \in pdfs : Succeeded(j)

(* As long as the window was shown only once, no other thread interferes.   *)
PdfAfterOnlyRun == shows = 1 => PdfAfterCompile

(* The OK button is never enabled without a successful run, whichever of    *)
(* the compile threads wrote it last.                                       *)
OkFromSuccess == okEnabled => \E j \in Runs : Succeeded(j)

(* "Kompilacja zakonczona pomyslnie." appears only after the compile thread *)
(* of the same run has executed the last task (loop condition, line 140,    *)
(* against the increments of Exam.compile).                                 *)
AnnouncedAfterLast == \A j \in Runs : watch[j] = "success" => AllExecuted(j)

(* Again as long as no second run counts into the same counter.             *)
AnnouncedAfterOnlyRun == shows = 1 => AnnouncedAfterLast

(* Every compile error is shown to the user in the end, also when windows   *)
(* were closed and other runs were started meanwhile.                       *)
ErrorReported == \A j \in Runs : comp[j].pc = "cancel" ~> j \in alerted

(* Once the last run has succeeded every progress thread stops, the ones of *)
(* earlier runs whose cancellation was missed included.                     *)
WatchersEnd ==
    \A j \in Runs : (Succeeded(MaxShows) /\ Watching(j)) ~> ~Watching(j)

(* A started run comes to something for the user: OK is offered, an error   *)
(* is shown, or the user closes the window.  help.fxml:308 promises the PDF *)
(* after the compilation; a program that prints nothing kills the compile   *)
(* thread and the window waits forever.                                     *)
RunComesToAnEnd ==
    \A j \in Runs :
        comp[j].pc = "start" ~> (okEnabled \/ j \in alerted \/ ~window)

=============================================================================
