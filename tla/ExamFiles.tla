----------------------------- MODULE ExamFiles -----------------------------
(***************************************************************************)
(* Saving and loading exams and tasks (GUIMainController.saveExam to       *)
(* loadTask, Exam.save and load, Task.save and load), on top of everything *)
(* else the main window does.                                              *)
(*                                                                         *)
(* There is one file on the disk; the user overwrites it or loads it at    *)
(* will, so that the names of files and the two pairs of menu items that   *)
(* differ in asking for one need not be told apart.                        *)
(***************************************************************************)
EXTENDS ExamTabs

CONSTANT NoFile     \* nothing was saved, or what was written cannot be read

\* A name that was typed is told apart from the generated ones, whatever it
\* reads, and a missing file is not a file.
ASSUME FilesAssumption ==
    /\ \A t \in Titles : t \notin Nat
    /\ NoFile \notin [exam : BOOLEAN, made : Nat,
                      pages : Seq([uid : Nat, name : Names,
                                   code : Codes, body : Bodies, out : Outs])]

VARIABLES
    disk,     \* the file: [exam, tasks, names, maxIdx], or NoFile
    moved     \* a context menu move has put Exam.idx out of step (history)

fvars == <<vars, disk, moved>>

FilesTypeOK ==
    /\ TypeOK
    /\ \/ disk = NoFile
       \/ /\ disk.exam \in BOOLEAN
          /\ disk.tasks \in Seq(Task)
          /\ disk.tasks # <<>>
          /\ disk.names \in Seq(Names)
          /\ disk.maxIdx \in Nat
    /\ moved \in BOOLEAN

FilesInit ==
    /\ Init
    /\ disk = NoFile
    /\ moved = FALSE

-----------------------------------------------------------------------------
(* Saving.                                                                 *)

\* Mutant: the exam is written before the editor is saved to its task.
ExamFile_Unsaved == [exam |-> TRUE, tasks |-> tasks, names |-> names, maxIdx |-> maxIdx]

\* What Exam.save marshals, of the fields that Exam.load reads again.
ExamFile == [exam |-> TRUE, tasks |-> tasks', names |-> names, maxIdx |-> maxIdx]

\* What Task.save marshals: the current task.
TaskFile == [exam |-> FALSE, tasks |-> <<tasks'[idx]>>, names |-> <<>>, maxIdx |-> 0]

\* saveExam, saveExamAs, saveTask and saveTaskAs save the editor to the
\* current task first.  The file is written, or writing is interrupted (the
\* dialog dismissed, or a file that cannot be opened, is SaveCurrent).
SaveFile ==
    /\ SaveCurrent
    /\ disk' \in {ExamFile, TaskFile, NoFile}
    /\ UNCHANGED moved

-----------------------------------------------------------------------------
(* Loading.  A file that cannot be read, or holds the other kind of object, *)
(* is reported and changes nothing.                                        *)

\* A new tab for every task.  Adding the first one selects it, which gives it
\* the context menu.
LoadedTabs(ts, ns) ==
    MenuOn([i \in DOMAIN ts |-> [uid |-> ts[i].uid, name |-> ns[i], id |-> i,
                                 menu |-> FALSE]], 0, 1)

\* The window after the lists of the exam were replaced; i and m are what
\* Exam.idx and Exam.maxIdx come to.
Loaded(i, m) ==
    /\ disk # NoFile
    /\ disk.exam
    /\ tasks' = disk.tasks
    /\ names' = disk.names
    /\ maxIdx' = m
    /\ tabs' = LoadedTabs(disk.tasks, disk.names)
    /\ sel' = 1
    /\ idx' = i
    /\ status' = "SWITCH"
    /\ ed' = [code |-> disk.tasks[1].code, body |-> disk.tasks[1].body,
              out |-> IF disk.tasks[1].code = NoCode THEN disk.tasks[1].out ELSE NoOut]
    /\ shown' = disk.tasks[1].uid
    /\ moved' = FALSE
    /\ UNCHANGED <<dlg, disk>>

\* Mutant: the counter behind the generated names is not restored.
LoadExam_KeepsCounter == Loaded(1, maxIdx)

\* Mutant: Exam.idx stays what it was when the exam was loaded.
LoadExam_KeepsIdx == Loaded(idx, disk.maxIdx)

\* loadExam: the exam's lists are replaced, the tabs are cleared (in status
\* DRAG) and made anew.  Selecting the first one displays its task; then its
\* code is written to the code area once more, which empties the output area.
\* The saved idx is read and overwritten at once.
LoadExam == Loaded(1, disk.maxIdx)

\* loadTask: a task of the file's contents is added like a new one.
LoadTask ==
    /\ disk # NoFile
    /\ ~disk.exam
    /\ maxIdx < MaxAdds
    /\ AddTask([disk.tasks[1] EXCEPT !.uid = maxIdx + 1])
    /\ UNCHANGED <<dlg, disk, moved>>

\* The main window is closed, or the program dies, and it is started anew:
\* the file is all that is left, saved or not.
Restart ==
    /\ tasks' = <<>> /\ names' = <<>> /\ maxIdx' = 0 /\ idx' = 1
    /\ tabs' = <<>> /\ sel' = 0 /\ status' = "SWITCH"
    /\ ed' = [code |-> NoCode, body |-> NoBody, out |-> NoOut]
    /\ shown' = 0
    /\ dlg' = Closed
    /\ moved' = FALSE
    /\ UNCHANGED disk

-----------------------------------------------------------------------------
FilesNext ==
    \/ InPlaceNext /\ UNCHANGED <<disk, moved>>
    \/ /\ \E p \in DOMAIN tabs : \E d \in {1, -1} : MenuMove(p, d)
       /\ moved' = TRUE
       /\ UNCHANGED disk
    \/ SaveFile \/ LoadExam \/ LoadTask \/ Restart

FilesSpec == FilesInit /\ [][FilesNext]_fvars

-----------------------------------------------------------------------------
(* Loading an exam ends what a context menu move began: from then on, and   *)
(* as long as no tab is moved that way, Exam.idx, the selection, the tab    *)
(* ids and the editor agree, whatever the state they were loaded into.      *)
InStepUnlessMoved ==
    ~moved => /\ IdxIsSelected
              /\ TabsMatchTasks
              /\ ListenerArmed
              /\ EditorShowsCurrent
              /\ MenuOnSelectedOnly

(* No two tasks have the same generated name "Zadanie n", whatever was      *)
(* added, deleted, saved and loaded in which order, in one session or the   *)
(* next: saveTask proposes the name as the name of the task's file.         *)
NamesDistinct ==
    \A i, j \in DOMAIN names :
        i # j /\ names[i] \in Nat /\ names[j] \in Nat => names[i] # names[j]

FilePage(i) ==
    LET t == disk.tasks[i]
    IN  [uid |-> t.uid, name |-> IF disk.exam THEN disk.names[i] ELSE 0,
         code |-> t.code, body |-> t.body, out |-> t.out]

FN == INSTANCE FiledNotebook WITH
          pages <- [i \in DOMAIN tasks |-> PageOf(i)],
          open  <- sel,
          made  <- maxIdx,
          file  <- IF disk = NoFile THEN NoFile
                   ELSE [exam |-> disk.exam, made |-> disk.maxIdx,
                         pages |-> [i \in DOMAIN disk.tasks |-> FilePage(i)]]

(* The window implements the notebook with a file, except between a context *)
(* menu move and the next loaded exam: a file holds what was on display     *)
(* when it was written, whichever task was current, loading brings all of   *)
(* it back but the output of the first page, and what was typed since does  *)
(* not get into the loaded tasks.                                           *)
ImplementsFiledNotebook ==
    /\ FN!FiledInit
    /\ [][moved' \/ FN!FiledNext \/ UNCHANGED FN!fnVars]_fvars

=============================================================================
