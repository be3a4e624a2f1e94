# CEG: a verification of its main window, files, answers, exam compilation and program runs

CEG is a desktop program (Java, JavaFX) with which a teacher writes C++ exams:
every task has a statement, a program and answers, the program is compiled and
run to produce the answers, and the exam is printed to PDF. The code is under
`src/src/main/java/com/ceg`; the bundled MinGW, the fonts and the pictures are
third-party files. There are no tests; the documentation is the Javadoc and the
help page `src/src/main/resources/fxml/help.fxml`, both in Polish. The program is
about 6,400 lines; nearly all other lines of the repository are the headers of
the bundled compiler, which are not this project's subject.

## The system

| component | state | operations | what makes it correct |
|---|---|---|---|
| Exam (`Exam.java`, `Task.java`) | tasks, names, `idx`, `maxIdx` | add, delete, reorder, compile, save, load | names and tasks stay aligned, `idx` is the task of the active tab |
| Main window (`GUIMainController.java`) | editor areas, `status`, the tab pane | type, run, switch, delete, rename, save, load | the editor is written to the task it shows; outputs belong to their code |
| Tabs (`DraggableTab.java`) | name, id string, context menu | drag, move left/right | tabs, ids and tasks are permuted together |
| Task dialog (`GUIManageTaskController.java`) | type, content, mode | choose type, finish, cancel | the task meant is the task changed |
| Compilation window (`GUIExamCompilationController.java`) | OK button, `cancelled`, the counter in Exam | show, cancel, OK; two threads per run | OK only after success, every run comes to an end, errors are reported |
| PDF window (`PdfSavingController.java`) | date boxes, exam type | choose, validate, start the compilation | a valid date, a complete exam |
| GCC (`compiler/GCC.java`, `CodeParser.java`) | temporary files | compile, run with a timeout | complete output, no leak |
| Task types (`TaskType*.java`) | number of answers, update flag | generate answers, prepare them for the PDF | labels, answers and their number agree |
| Marked text (`Text`, `TextPart`, `Content`, `ContentPart`) | runs of one style | extract, display | display after extract is the identity |
| Style classes, fonts (`utils`) | none | toggle bold, italic, underline | toggling twice changes nothing |
| PDF generation (`pdf/*`) | position on the page, static document | break lines, break pages, draw | no text lost, nothing below the margin |
| Settings (`PDFSettings`, `AdvancedOptionsController`) | sizes, fonts, date | setters | consistent values |
| Files (`Exam.save/load`, `Task.save/load`, `xml`) | XML files | save, load | load after save restores the exam |
| Alerts, help, loading window | none | show, hide | |

How they interact. Everything but compiling and PDF generation runs on the
JavaFX thread, one handler at a time; handlers call one another directly and,
through the selection listener of the tab pane, indirectly: a handler sets
`status`, changes the pane, and the listener acts according to `status`. The
windows are not modal, only alerts and input dialogs are, so that the user may
go back to the main window while the task dialog or the compilation window is
open. The compilation window starts two threads per showing, which share the
counter, the flag `cancelled` and the OK button with each other, with the
threads of earlier showings and with the JavaFX thread, and which reach the
user through `Platform.runLater`. OK starts a background task that generates
the PDF.

What is hard. In the main window: three redundant records of "the current
task" (selected tab, `Exam.idx`, the ids of the tabs), a write-back editor, and
handlers that an exception cuts short half-way. In the files: an exam loaded
into whatever state the window is in, and a program started anew beside an old
file. In the compilation window: runs that overlap, a flag that is reset as soon
as it was set, a thread that dies silently. Between the two windows: the compile
thread iterates over the list of tasks, reads their text and stores results
while the user edits, moves and deletes the tasks. In the answers: a flag that
is looked at when the program has ended, and a counter kept apart from the list
it counts. In GCC: one object per task whose fields the run buttons and the
compile thread share. `PROJECT.json` lists these hazards with their lines.

## Modules

* `Notebook` is the abstract specification of the main window: pages, one of
  them open. Only `Write` changes what stands on a page, and it changes the open
  page only; `Turn` changes nothing; pages are added, removed, moved and renamed
  one at a time. `FiledNotebook` extends it with one file: what is written there
  is what the user sees, and reading puts it back.
* `ExamTabs` is the main window as the code has it, with the exam, the tabs and
  the task dialog. One action is one event handler to its end, including the
  selection listener it triggers:

  | state | code |
  |---|---|
  | `tasks`, `names`, `maxIdx`, `idx` | fields of `Exam` (`idx` and ids count from 1 here) |
  | `tabs` | the tabs: `name`, `id` (the id string), `menu` (context menu set); `uid` tells which task the tab was made for and is history |
  | `sel`, `status` | selection of the pane, `GUIMainController.status` |
  | `ed`, `shown` | the code, statement and output areas; the task `updateWindow` displayed last (history) |
  | `dlg` | title, OK button and content of the task dialog |

  `SaveTaskInfo`, `SaveText`, `UpdateWindow`, `Renumbered`, `MenuOn` and `Moved`
  are the methods the handlers call; `SwitchEvent` and `DeleteEvent` are the
  branches of the listener. The tab JavaFX selects when the selected one is
  removed (`Nearest`) is external. An output is represented by the code that
  produced it, so "stale output" is `out # code`.
* `ExamFiles` extends `ExamTabs` with saving and loading exams and tasks
  (`SaveFile`, `LoadExam`, `LoadTask`), writing that is interrupted, and a program
  that is closed or dies and is started anew (`Restart`). There is one file
  (`disk`), which may be unreadable (`NoFile`); `moved` is history: a context menu
  move has put the window out of step.
* `EditDuringCompile` extends `ExamTabs` with the loop of `Exam.compile`
  (`Begin`, `Fetch`, `Read`, `Store`) and the hiding of the compilation window
  (`Hide`). The list of tasks is an `ArrayList`: the iterator keeps a `cursor`,
  which `hasNext` compares with the size, and `next` throws when the list was
  `modified`. The text of a task is a list as well, which saving rewrites; a
  thread that copies it meanwhile gets an exception or anything (`torn`).
* `ExamCompilation` is the compilation window: per run a compile thread (`comp`)
  and a progress thread (`watch`), the runnables in the JavaFX queue (`posted`)
  and the buttons. One action is one access to shared state. `cancelAndQuit` is
  two steps (`PressCancel` or `ShowError`, then `FinishHiding`), because the
  other threads read and write the flag between them. The exam is a number of
  tasks here; that the list may change is the subject of `EditDuringCompile`.
* `TaskAnswers` is one task with its type (`TaskType*.java`), the answer area and
  its check box "remember the answers", the dialog that changes the type, and
  rounds of `Exam.compile` in two halves: `Begin` takes the code, `Finish` looks at
  the flag and generates. An answer is where it comes from, of which code, and
  which one it is. `LineNumbers` is `getPdfLineNumber`, loop by loop, and what
  it should say (`NamesLine`): the lines of the compiled and of the printed code
  as sets of pairs of a part and a position, a line's number being how many lines
  of the set are not after it. Lines are those `lineCount` counts: empty ones at
  the end of a part are left out, a line that two parts share is in both.
* `GccRun` is `GCC.execute`: the fields `file`, `cppName` and `executableName` of
  the GCC object every task owns, the source files and executables on disk, the
  threads that execute the task (`th`, with the time limit as two flags: it
  passed, and the loop noticed) and the program each of them started (`prog`).
  Steps are as small as the shared fields require: between naming a file,
  compiling, starting, and deleting it another thread may have replaced the
  names. The program is a process of its own that begins and ends lines and may
  never exit. `calls` and `overlapped` are history. File operations and g++ are
  taken to work, and an executable may be replaced while it runs.
* `MCExamTabs`, `MCExamFiles`, `MCEditDuringCompile`, `MCExamCompilation`,
  `MCTaskAnswers` and `MCGccRun` are the modules the configurations are run on.
* `ExamTabsProofs`, `NotebookProofs`, `ExamFilesProofs`, `EditDuringCompileProofs`,
  `ExamCompilationProofs`, `LineNumbersProofs`, `TaskAnswersProofs` and `GccRunProofs`
  have the theorems.

How they are composed. `ExamFiles` and `EditDuringCompile` take the handlers of
`ExamTabs` as they are and add their own; `InPlaceNext` (everything but the
context menu moves) is the common part. `ExamCompilation` and `TaskAnswers` leave
out what `GccRun` has: there, running a program is one step or two with every
outcome it may have.

Operators whose name contains an underscore (`AddTask_NoName`) are defective
variants of the operator they are named after. Each shows that some property
notices the defect; no specification uses them.

## Runs

| run | asks | bounds |
|---|---|---|
| `tabs_inplace` | every invariant of the main window, the refinement of `Notebook`, and that delete removes the task of the active tab, without context menu moves | 3 tasks added, 2 codes, 2 statements, 1 name |
| `tabs_delete` | **violated**: delete removes the task of the active tab | 2 tasks, 1 name |
| `files` | with context menu moves, files and restarts: one tab and one name per task, distinct generated names, loading repairs what a move broke, the refinement of `FiledNotebook` | 2 tasks added, 2 codes, 2 statements |
| `edit` | the compile loop against the window: no task twice, none left out unless one was deleted, nobody else's output, no text lost but by hiding | 2 tasks added, 2 codes, 1 showing |
| `compile` | OK only after some run succeeded, no lost error, progress threads end; of the only run: no PDF and no announcement before the last task | 2 tasks, 2 showings |
| `compile_pdf` | **violated**: a PDF is generated by a run that compiled | 2 tasks, 2 showings |
| `compile_silent` | **violated**: a started run comes to something for the user | 2 tasks, 1 showing |
| `gcc_shared_task` | a call that overlaps no other returns its own output | 2 threads, 3 calls, the last alone, 1 line |
| `gcc_ends` | calls end; only rejected sources stay on disk | 1 thread, 3 calls, 2 lines |
| `gcc_hang` | **violated**: a call ends, for programs that stop in a line | 1 call, 1 line |
| `answers` | remembered answers stay, all places are filled, generated answers are those of the code, gaps are answered by gaps, lines are those of the printed code | 3 codes, 1 typed line, 2 stored answers |
| `answers_own` | **violated**: answers of the user's own type are always remembered | the same |

Why the bounds are enough. Three tasks give a first, a middle and a last tab,
every relative position of two tabs and a third that must not be touched, and
deletion down to none. Two codes tell a task's own text from another's; codes
and statements travel by the same calls, so that it is enough that one of them
differs at a time (`OneKindOfText`). In `files` two tasks are enough: an exam of
two loaded over one of none, one or two, in any order and state, is every
relation of selection, `Exam.idx` and ids that loading meets; typed names are
left out, as they never clash with generated ones. In `edit` two tasks make
every relation of the cursor to the size of the list (before, at, and beyond
its end, the last after a deletion), and the list as the loop found it to the
list as it is. Two showings are enough for overlap: a thread of an earlier run
meets a later run, and the code keeps no record of more than the last.

The bounds are the constants `MaxAdds` (a guard of `FinishAdd` and `LoadTask`),
`MaxShows` (a guard of `Show`), `MaxStored` (a guard of `TaskAnswers!Begin`: without
it a task with gaps grows an answer "Brak" a round) and `MaxLines`; further, in
`EditDuringCompile` the window is shown once and the user acts while the loop
runs (later edits are in `ExamTabs`), and in `TaskAnswers` the type does not change
during a round, which would go on with the old type object. The three codes of
`MCCodes` are one that prints two lines and has a gap, one that g++ rejects in a
first and in a last line after hidden and uncompiled ones and a part without
lines, and one that prints nothing.

`GccRun` bounds the calls (`MaxCalls`, a guard of `Call`) and the lines of a
program (`MaxLines`, a guard of `BeginLine`). Of the calls before it a call meets
only the three fields and the disk, and two overlapping calls leave these in
every mixture there is, so that a third call, alone, is the interesting one
(`LastAlone` in `MCGccRun` cuts the states where it is not; the threads are
symmetric there, and no liveness is checked under symmetry). One line, begun,
ended or not, is enough for each path of the polling loop.

Deadlock is checked for the main window, the files, the answers and the compile
loop (which may rest when the loop is over and the window hidden). The
compilation runs stop when the user has shown the window `MaxShows` times and
all threads have ended, those of `GccRun` when `MaxCalls` calls have been made.

What the violated runs show:

* `tabs_delete`: "Przesun w prawo/lewo" moves tab and task but not `Exam.idx`
  (`DraggableTab.java:274-283, 294-303`; the drop of a dragged tab does set it,
  line 144). Until the next click on another tab, delete, run, save, edit and
  rename go to the neighbouring task.
* `compile_pdf`: `saveButton.setDisable(true)` is called on the compile thread
  (`GUIExamCompilationController.java:178`) and not when the window is shown, so
  that in a second showing the button is enabled before the thread runs; and a
  cancelled compile thread, which nothing stops, enables the button of the next
  run (line 181).
* `compile_silent`: `Exam.compile` reads `output.get(1)` (`Exam.java:79`) of a
  program that prints nothing and throws; the window stays as it is.
* `gcc_hang`: `readLine` (`GCC.java:130`) is called as soon as one character can
  be read, and waits for the end of the line. A program that prints a prompt and
  waits for input keeps it waiting; the limit is not looked at again.
* `answers_own`: turning a task into one of the user's own type disables the check
  box without checking it (`GUIManageTaskController.java:238`), so that the next
  save drops the typed answers (`GUIMainController.java:717`).

What the passing runs show besides. The invariants of `tabs_inplace` are false
after a context menu move; the specification `InPlaceSpec` leaves out exactly
that action, `Spec` has it, and `files` shows how long the damage lasts
(`InStepUnlessMoved`: until an exam is loaded). A repaired `MenuMove` would be
`DropTab`. `OwnResults` excludes tasks saved while their text was read, and
`AllUnlessDeleted` a deletion during the loop: in both cases the code does
compile a mixture, or leaves a task out without a word. `OwnOutputAlone` is about
calls that overlap no other; overlapping calls do exchange outputs, as the run
buttons stay enabled while the exam is compiled and `g++`, the start and the
deletion use the names the shared fields have by then. `ErrorLinesNamed` has the
exception of the code: `TaskTypeLineNumbers.java:72` answers -1 also for the last
line of a part. `DeletesActiveTask`, which `tabs_delete` refutes for `Spec`, is a
theorem for `InPlaceSpec`: the context menu is all that is wrong there.

Fairness. `ExamCompilation!Spec` assumes weak fairness of each compile thread,
each progress thread, the error runnables and the second half of
`cancelAndQuit`: a started Java thread is scheduled, and the JavaFX thread
serves its queue (an alert is closed at some time). A run of a task's program is
assumed to end there, which `gcc_ends` shows of programs that finish the lines
they begin. `GccRun!Spec` assumes that the calling thread is scheduled and that
time passes, `LineSpec` also that a line once begun is ended; neither assumes
that a program exits. Nothing is assumed of the user. The other modules have
no fairness: what happens in them are the user's events, and their properties
are about safety.

## Proofs

Every theorem holds for all values of the constants; the assumptions are named
in the modules that declare them: `TabsAssumption` (the empty texts are texts),
`FilesAssumption` (a typed name is not a generated one, a missing file is not a
file), `AnswersAssumption` (kinds of the constants; g++ counts lines from 1),
`SizesAssumption` (outputs, errors and gaps fit into a list of Java; used for
`ContentsInvariant`), `CompilationAssumption` and `GccAssumption` (kinds of the
constants). The bounds of the runs are constants, so the theorems hold without
them.

`ExamTabsProofs`: every invariant of `tabs_inplace` holds in `InPlaceSpec`. None of
them is inductive alone. `SelectTab` saves to the id of the tab left, so that
`FreshResults` needs the ids to be positions (`TabsMatchTasks`), and dispatches on
`status`, so it needs `ListenerArmed`; deleting goes by `idx` and reads the
selection, so that `TabsMatchTasks` needs `IdxIsSelected`; that in turn relies on
the listener renumbering before it displays. The inductive invariant `IInv` is
`InStep` (their conjunction with `TypeOK`) and `FreshResults`. The steps are proved
for `InvBut(G)`, where the outputs in `G` may be stale: `G = {}` is `IInv`, `G = Outs`
is `InStep` alone, which is what files and the compile loop leave. The proof has
three layers:

1. lemmas on the operators, for arbitrary sequences: what removing, inserting
   and moving an element yields, position by position (`RemoveAtProperties`,
   `InsertAtProperties`, `MovedProperties`), what saving changes
   (`SaveTaskInfoProperties`, `SaveTextProperties`), what renumbering and
   switching menus change;
2. the effect of the listener's two branches in a state of the invariant
   (`SwitchEffect`, `DeleteEffect`): the exceptional branches are impossible;
3. one lemma per action, collected in `NextInvBut` and `NextIInv`, and the
   temporal theorem.

`InPlaceDeletesActiveTask` is an action property: `DeleteTaskKeeps` finds every task
but the one at `Exam.idx` again in the list after `deleteTask`, and `InStep` says
that `Exam.idx` is the active tab.

`NotebookProofs`: `WindowImplementsNotebook`, the refinement of `Notebook`. One lemma
per handler says which step of the notebook it is; the pages are the tasks with
the editor in the place of the one on display, so that a save is a stutter and
the write-back on leaving a tab is nothing at all, by `EditorShowsCurrent` and
`TabsMatchTasks`. The lemmas need `InStep` only, not that outputs are fresh, and
serve the next two refinements as well.

`ExamFilesProofs`: the invariant `FInv` of all sessions, context menu moves
included. Types and lengths (`Typed`) hold always, whatever an interrupted
handler leaves, and are proved for all of `Next`; `InStep` holds unless `moved`;
generated names stay behind their counter (`Generated`), in the exam and in the
file (`FileOK`), as a loaded exam brings both. `FilesImplementNotebook` is the
refinement of `FiledNotebook`: a handler of the window is a step of the notebook
that leaves the file alone (`NotebookStepFiled`), for any outputs, fresh or not, as
a file may bring others; saving is `StoreExam` or `StorePage` because what is
written are the pages (`FilePagesShown`, by `InStep`); loading is `RestoreExam` or
`RestorePage`, from whatever state. Between a context menu move and the next loaded
exam nothing is claimed.

`EditDuringCompileProofs`: `EInv` says what the compile thread can rely on while the
user goes on. The tasks have different numbers (`Numbered`); what was executed is a
beginning of the list as the loop found it (`InListedOrder`), so nothing is
executed twice; the position counts what was executed, a list not modified is that
list, and only deleting shortens it (`CursorInStep`), so that a loop that returns
has executed all unless something was deleted; the code held and the outputs about
belong to codes their tasks had (`Held`, `CodesKnown`, `ResultsKnown`). A handler of
the window enters through two facts proved from the lemmas of `ExamTabsProofs`:
what it does to the list (`KeepsList`, or a modification) and that it hands the
output of one task to no other (`GivesBack`). `TextSurvives` is a refinement
again, of a notebook on which every output is blank (`Blanked`): blanking commutes
with writing, appending, removing and moving a page (`BlankedWrite` and so on), so
that a step of the window is a step on blanked pages too (`NotebookTexts`), and
what the compile thread stores is none (`StoreTexts`). Hiding the compilation
window, which may lose text in the task on display, changes no other task.

`ExamCompilationProofs`: `IInv` adds to the properties where every compile thread
is and what it has done (`AllInPlace`), that nothing is known of runs not started
(`OnlyStarted`), and, while there is one run, that the counter says how many tasks
it executed (`OnlyRunCounts`), from which the progress thread concludes.

`LineNumbersProofs`: the loop of `getPdfLineNumber` over any list of parts. The loop
is a recursive function, and the library's induction theorems cannot be used here
(they take an operator). But they are not needed: a set of natural numbers has a
least element (`LeastElement`, from the well-founded order of the library), so a
set with 0 and the successor of each of its elements has all numbers (`UpTo`), and
a set can be defined by any formula. By it the recursive function exists
(`RoundsExist`, `CountsRounds`), and the loop has after `j` parts either counted all
lines so far, printed and compiled, or found the part the line is in (`Found`,
`FoundStep`). How many lines there are up to a part is a matter of the
cardinalities of disjoint sets (`TotalStep`, `PlaceOfLine`). `PrintedLineNamed` is
the result, for every number; `LinesNumbered` says that the reference is one: every
number up to the number of lines is that of exactly one line.

`TaskAnswersProofs`: `IInv` adds that the counter of the places is in step
with the answers (`InStep`): it is their number when they are remembered, and no
more than their number for a task with gaps; and that the code a round took is the task's while nothing
happened to it (`RoundOfCode`). `PlacesFilled` follows from the first,
`AnswersOfCode` from the second. A second invariant on top of it, `Contents`, is
about what the answers say and how many they are: those about line numbers are
right in the task and in the answer area (`Named`), which save and display copy
into each other; no list or counter exceeds what Java has for it (`Sized`), and
while a round is under way there is room for the answer it may add to the gaps
(`Roomy`), as a save begins the answers anew. `ErrorLinesAlwaysNamed` and
`AnswersTypeOK` follow.

`GccRunProofs`: `IInv` says of every call what it can rely on in any company
(`Sound`: names, process, lines) and what it can rely on alone (`OnTrack`,
`OwnOutput`, `OnlyMine`: its own fields, files, program), that a call that is alone
is the only one (`AloneIsOnly`), and what is on disk between calls (`NoLeftovers`).

Only model-checked: the liveness properties (`ErrorReported`, `WatchersEnd`,
`ExecuteEnds`). They need the rules of weak fairness, and with them ENABLED, which
the prover does not support. Every other property of a passing run is a theorem.

## Not modelled

* The labels of the answers; title, comment and time limit of an exam, which
  loading drops; the file of default statements, which one handler reads and
  writes as a whole; the marker buttons of the editor and the run-length
  encoding of marked text.
* PDF generation and layout: arithmetic over widths that PDFBox measures, in one
  sequential task. What it requires of the answers is `PlacesFilled`.
* The PDF window with its date boxes, settings, advanced options, alerts, help,
  tables of style classes: handlers that meet no one else's state.
* In `GccRun`: an empty list of lines, failing file operations, the edits of
  CodeParser. In `TaskAnswers`: a type changed during a round.

Abstracted throughout: a text is a value, an output is the code it came from.

What is worth doing next: the date boxes with the settings they are restored
from, page breaking with its bounds, and how `lineCount` and the lines g++ counts
differ where parts share lines or end in empty ones.
