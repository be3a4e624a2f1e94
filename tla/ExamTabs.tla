------------------------------ MODULE ExamTabs ------------------------------
(***************************************************************************)
(* The main window of CEG: the exam (Exam.java), the pane of tabs          *)
(* (DraggableTab.java), the editor areas and the selection listener        *)
(* (GUIMainController.java) and the dialog that adds and edits tasks       *)
(* (GUIManageTaskController.java).  All of it runs on the JavaFX thread:   *)
(* one action is one handler, including the selection listener that the    *)
(* handler triggers and the exception that may cut it short.               *)
(*                                                                         *)
(* The editor areas are a write-back cache of one task.  Which task is     *)
(* decided three times over: by the selected tab, by Exam.idx and by the   *)
(* id strings of the tabs.  The handlers keep the three in step by hand.   *)
(*                                                                         *)
(* Positions are counted from 1 here and from 0 in the code.               *)
(***************************************************************************)
EXTENDS Integers, Sequences, SequencesExt

CONSTANTS Codes,     \* contents of the code area
          NoCode,    \* the empty code area
          Bodies,    \* contents of the statement area
          NoBody,    \* the empty one
          Titles,    \* names a user may type for a task
          NoOut,     \* the empty output area
          MaxAdds    \* bound on the tasks a user adds (model bound)

ASSUME TabsAssumption ==
    /\ NoCode \in Codes
    /\ NoBody \in Bodies
    /\ MaxAdds \in Nat

VARIABLES
    tasks,    \* Exam.tasks: [uid, code, body, out]
    names,    \* Exam.names: a number n is the generated name "Zadanie n"
    maxIdx,   \* Exam.maxIdx; also the uid of the task added last
    idx,      \* Exam.idx + 1
    tabs,     \* the tabs of the pane: [uid, name, id, menu]
    sel,      \* position of the selected tab, 0 when nothing is selected
    status,   \* GUIMainController.status
    ed,       \* the editor areas: [code, body, out]
    shown,    \* uid of the task updateWindow displayed last (history)
    dlg       \* the task dialog: [mode, ready, body]

exam == <<tasks, names, maxIdx, idx>>
pane == <<tabs, sel, status>>
win  == <<ed, shown>>
vars == <<exam, pane, win, dlg>>

Outs    == Codes \cup {NoOut}
Names   == Nat \cup Titles
Task    == [uid : Nat, code : Codes, body : Bodies, out : Outs]
Tab     == [uid : Nat, name : Names, id : Nat, menu : BOOLEAN]
Editor  == [code : Codes, body : Bodies, out : Outs]
Statuses == {"ADD", "DELETE", "SWITCH", "RENAME", "DRAG"}
Dialog  == [mode : {"closed", "add", "edit"}, ready : BOOLEAN, body : Bodies]

\* A hidden dialog: clearFields resets it whenever it is shown again.
Closed == [mode |-> "closed", ready |-> FALSE, body |-> NoBody]

(* Every variable has its type; the selection and Exam.idx are positions.   *)
TypeOK ==
    /\ tasks \in Seq(Task)
    /\ names \in Seq(Names)
    /\ maxIdx \in Nat
    /\ idx \in Nat \ {0}
    /\ tabs \in Seq(Tab)
    /\ sel \in 0 .. Len(tabs)
    /\ status \in Statuses
    /\ ed \in Editor
    /\ shown \in Nat
    /\ dlg \in Dialog

Init ==
    /\ tasks = <<>>
    /\ names = <<>>
    /\ maxIdx = 0
    /\ idx = 1
    /\ tabs = <<>>
    /\ sel = 0
    /\ status = "SWITCH"
    /\ ed = [code |-> NoCode, body |-> NoBody, out |-> NoOut]
    /\ shown = 0
    /\ dlg = Closed

-----------------------------------------------------------------------------
(* The calls the handlers are made of.                                     *)

\* saveTaskInfo(k): the editor areas are saved to task k.  (Labels and answers
\* are saved by the same calls, they are not modelled here.)
SaveTaskInfo(ts, k) ==
    [ts EXCEPT ![k] = [@ EXCEPT !.code = ed.code, !.body = ed.body, !.out = ed.out]]

\* saveText(k) alone.
SaveText(ts, k) == [ts EXCEPT ![k] = [@ EXCEPT !.code = ed.code]]

\* updateWindow(k): display task k and make it the current one.  Without
\* tasks it hides the editor; for a k that is out of range it throws.  i is
\* the value Exam.idx has when the call is made.
UpdateWindow(ts, k, i) ==
    \/ /\ k \in DOMAIN ts
       /\ idx' = k
       /\ ed' = [code |-> ts[k].code, body |-> ts[k].body, out |-> ts[k].out]
       /\ shown' = ts[k].uid
    \/ /\ k \notin DOMAIN ts
       /\ idx' = i
       /\ UNCHANGED win

\* Mutant: the loop stops one tab early.
Renumbered_AllButLast(tb) ==
    [i \in DOMAIN tb |-> IF i < Len(tb) THEN [tb[i] EXCEPT !.id = i] ELSE tb[i]]

\* updateTabPaneTabIndexes
Renumbered(tb) == [i \in DOMAIN tb |-> [tb[i] EXCEPT !.id = i]]

\* Mutant: the tab left keeps its menu.
MenuOn_KeepsOld(tb, o, n) ==
    [i \in DOMAIN tb |-> [tb[i] EXCEPT !.menu = IF i = n THEN TRUE ELSE @]]

\* disableContextMenu on the tab left, enableContextMenu on the tab entered.
MenuOn(tb, o, n) ==
    [i \in DOMAIN tb |->
        [tb[i] EXCEPT !.menu = IF i = n THEN TRUE ELSE IF i = o THEN FALSE ELSE @]]

\* The tab JavaFX selects after the selected tab p was removed and n are
\* left: the one before it, otherwise the one that took its place.
Nearest(p, n) == IF n = 0 THEN 0 ELSE IF p > 1 THEN p - 1 ELSE 1

\* Mutant: the editor is saved to the task of the tab entered.
SwitchEvent_SavesToNew(ts, tb, o, n, i) ==
    /\ status' = "SWITCH"
    /\ tasks' = SaveTaskInfo(ts, tb[n].id)
    /\ tabs' = MenuOn(tb, o, n)
    /\ UpdateWindow(tasks', tb[n].id, i)

\* The selection listener in status SWITCH (ADD falls through to it): save
\* the editor to the task of the tab left, display that of the tab entered.
\* A stale tab id makes getTaskAtIndex throw and the rest is skipped.
SwitchEvent(ts, tb, o, n, i) ==
    /\ status' = "SWITCH"
    /\ \/ /\ o # 0
          /\ tb[o].id \notin DOMAIN ts
          /\ tasks' = ts
          /\ tabs' = tb
          /\ idx' = i
          /\ UNCHANGED win
       \/ /\ \/ /\ o = 0
                /\ tasks' = ts
             \/ /\ o # 0
                /\ tb[o].id \in DOMAIN ts
                /\ tasks' = SaveTaskInfo(ts, tb[o].id)
          /\ tabs' = MenuOn(tb, o, n)
          /\ UpdateWindow(tasks', tb[n].id, i)

\* Mutant: the window is not refreshed.
DeleteEvent_NoRefresh(ts, tb, oldId, n) ==
    /\ status' = "SWITCH"
    /\ tasks' = ts
    /\ tabs' = Renumbered(tb)
    /\ UNCHANGED <<idx, win>>

\* The selection listener in status DELETE: renumber the tabs and display
\* the task of the new selection (the first one if the first was deleted).
DeleteEvent(ts, tb, oldId, n) ==
    /\ status' = "SWITCH"
    /\ tasks' = ts
    /\ \/ /\ oldId = 1
          /\ tabs' = Renumbered(tb)
          /\ UpdateWindow(ts, 1, idx)
       \/ /\ oldId # 1
          /\ n # 0
          /\ tabs' = Renumbered(tb)
          /\ UpdateWindow(ts, n, idx)
       \/ /\ oldId # 1
          /\ n = 0
          /\ tabs' = tb
          /\ UNCHANGED <<idx, win>>

\* Move the element at position p to position q.
Moved(s, p, q) == InsertAt(RemoveAt(s, p), q, s[p])

-----------------------------------------------------------------------------
(* The editor areas.  They are visible only while the exam has tasks.      *)

\* Mutant: the output area keeps the result of the old code.
TypeCode_KeepsResult ==
    /\ tasks # <<>>
    /\ \E c \in Codes \ {ed.code} : ed' = [ed EXCEPT !.code = c]
    /\ UNCHANGED <<exam, pane, shown, dlg>>

\* A change of the code text empties the output area.
TypeCode ==
    /\ tasks # <<>>
    /\ \E c \in Codes \ {ed.code} : ed' = [ed EXCEPT !.code = c, !.out = NoOut]
    /\ UNCHANGED <<exam, pane, shown, dlg>>

TypeBody ==
    /\ tasks # <<>>
    /\ \E b \in Bodies \ {ed.body} : ed' = [ed EXCEPT !.body = b]
    /\ UNCHANGED <<exam, pane, shown, dlg>>

\* Both run buttons: clear the output area, save the code to the current
\* task, run it, show and store the outcome o (which may be empty).
Finishes(o) ==
    /\ idx \in DOMAIN tasks
    /\ tasks' = [SaveText(tasks, idx) EXCEPT ![idx] = [@ EXCEPT !.out = o]]
    /\ ed' = [ed EXCEPT !.out = o]

\* The run, or getting the task to run, throws: the output area stays empty
\* and the result stored with the task stays what it was.
Throws ==
    /\ tasks' = IF idx \in DOMAIN tasks THEN SaveText(tasks, idx) ELSE tasks
    /\ ed' = [ed EXCEPT !.out = NoOut]

Execute ==
    /\ tasks # <<>>
    /\ \/ \E o \in {NoOut, ed.code} : Finishes(o)
       \/ Throws
    /\ UNCHANGED <<names, maxIdx, idx, pane, shown, dlg>>

\* saveExam, saveExamAs, saveTask, saveTaskAs and createPDF begin this way.
SaveCurrent ==
    /\ tasks # <<>>
    /\ idx \in DOMAIN tasks
    /\ tasks' = SaveTaskInfo(tasks, idx)
    /\ UNCHANGED <<names, maxIdx, idx, pane, win, dlg>>

-----------------------------------------------------------------------------
(* The tabs.                                                               *)

\* The user clicks another tab.
SelectTab(n) ==
    /\ n # sel
    /\ sel' = n
    /\ \/ /\ status \in {"SWITCH", "ADD"}
          /\ SwitchEvent(tasks, tabs, sel, n, idx)
       \/ /\ status = "DELETE"
          /\ DeleteEvent(tasks, tabs, tabs[sel].id, n)
       \/ /\ status \in {"RENAME", "DRAG"}
          /\ UNCHANGED <<tasks, tabs, status, idx, win>>
    /\ UNCHANGED <<names, maxIdx, dlg>>

\* Mutant: Exam.addTask sets idx before it adds the task.
AddTask_IdxTooEarly(t) ==
    LET n  == Len(tasks)
        tb == Append(tabs, [uid |-> maxIdx + 1, name |-> maxIdx + 1,
                            id |-> n, menu |-> FALSE])
    IN  /\ maxIdx' = maxIdx + 1
        /\ names' = Append(names, maxIdx + 1)
        /\ sel' = Len(tb)
        /\ SwitchEvent(Append(tasks, t), tb, sel, Len(tb), n)

\* Mutant: the new task gets no name.
AddTask_NoName(t) ==
    LET n  == Len(tasks) + 1
        tb == Append(tabs, [uid |-> maxIdx + 1, name |-> maxIdx + 1,
                            id |-> n, menu |-> FALSE])
    IN  /\ maxIdx' = maxIdx + 1
        /\ names' = names
        /\ sel' = Len(tb)
        /\ SwitchEvent(Append(tasks, t), tb, sel, Len(tb), n)

\* Exam.addTask, then a new tab with id Exam.idx is added and selected.
AddTask(t) ==
    LET n  == Len(tasks) + 1
        tb == Append(tabs, [uid |-> maxIdx + 1, name |-> maxIdx + 1,
                            id |-> n, menu |-> FALSE])
    IN  /\ maxIdx' = maxIdx + 1
        /\ names' = Append(names, maxIdx + 1)
        /\ sel' = Len(tb)
        /\ SwitchEvent(Append(tasks, t), tb, sel, Len(tb), n)

\* deleteTask: the task and the tab at Exam.idx go.  The listener runs only
\* if that tab was the selected one; remove throws if there is none.
DeleteTask ==
    /\ tasks # <<>>
    /\ \/ /\ idx \notin DOMAIN tasks
          /\ status' = "DELETE"
          /\ UNCHANGED <<exam, tabs, sel, win>>
       \/ /\ idx \in DOMAIN tasks
          /\ names' = RemoveAt(names, idx)
          /\ \/ /\ idx = sel
                /\ sel' = Nearest(sel, Len(tabs) - 1)
                /\ DeleteEvent(RemoveAt(tasks, idx), RemoveAt(tabs, idx),
                               tabs[sel].id, sel')
             \/ /\ idx # sel
                /\ sel' = IF idx < sel THEN sel - 1 ELSE sel
                /\ status' = "DELETE"
                /\ tasks' = RemoveAt(tasks, idx)
                /\ tabs' = RemoveAt(tabs, idx)
                /\ UNCHANGED <<idx, win>>
          /\ UNCHANGED maxIdx
    /\ UNCHANGED dlg

\* changeTaskName: a new tab replaces the one at Exam.idx and is selected in
\* status RENAME, to which the listener does not react.
RenameTask ==
    /\ tasks # <<>>
    /\ \E t \in Titles :
          \/ /\ idx \in DOMAIN names
             /\ names' = [names EXCEPT ![idx] = t]
             /\ tabs' = [tabs EXCEPT ![idx] =
                            [uid |-> @.uid, name |-> t, id |-> idx, menu |-> FALSE]]
             /\ sel' = idx
             /\ status' = "SWITCH"
          \/ /\ idx \notin DOMAIN names
             /\ status' = "RENAME"
             /\ UNCHANGED <<names, tabs, sel>>
    /\ UNCHANGED <<tasks, maxIdx, idx, win, dlg>>

\* Mutant: the handler returns early and leaves its status behind.
CancelRename_NoReset ==
    /\ tasks # <<>>
    /\ status' = "RENAME"
    /\ UNCHANGED <<exam, tabs, sel, win, dlg>>

\* The rename dialog is dismissed.
CancelRename ==
    /\ tasks # <<>>
    /\ status' = "SWITCH"
    /\ UNCHANGED <<exam, tabs, sel, win, dlg>>

\* Mutant: Exam.idx is not updated, as in the moves of the context menu.
DropTab_StaleIdx(j) ==
    LET to == IF sel < j THEN j - 1 ELSE j
    IN  /\ sel # 0
        /\ Len(tabs) # 1
        /\ tasks' = Moved(tasks, sel, to)
        /\ names' = Moved(names, sel, to)
        /\ tabs' = Renumbered(Moved(tabs, sel, to))
        /\ sel' = to
        /\ status' = "SWITCH"
        /\ UNCHANGED <<maxIdx, idx, win, dlg>>

\* The selected tab (the press selected it) is dropped at the insertion
\* point j: before the j-th tab, or after the last one.
DropTab(j) ==
    LET to == IF sel < j THEN j - 1 ELSE j
    IN  /\ sel # 0
        /\ Len(tabs) # 1
        /\ tasks' = Moved(tasks, sel, to)
        /\ names' = Moved(names, sel, to)
        /\ tabs' = Renumbered(Moved(tabs, sel, to))
        /\ sel' = to
        /\ idx' = to
        /\ status' = "SWITCH"
        /\ UNCHANGED <<maxIdx, win, dlg>>

\* The context menu of tab p, "Przesun w prawo" (d = 1) and "Przesun w lewo"
\* (d = -1): tab p is put next to the selected position, the tasks move from
\* the selected position.  Exam.idx is not updated.
MenuMove(p, d) ==
    LET to == sel + d
    IN  /\ tabs[p].menu
        /\ status' = "SWITCH"
        /\ \/ /\ to \in DOMAIN tasks
              /\ tasks' = Moved(tasks, sel, to)
              /\ names' = Moved(names, sel, to)
              /\ tabs' = Renumbered(Moved(tabs, p, to))
              /\ sel' = to
           \/ /\ to \notin DOMAIN tasks
              /\ UNCHANGED <<tasks, names, tabs, sel>>
        /\ UNCHANGED <<maxIdx, idx, win, dlg>>

-----------------------------------------------------------------------------
(* The task dialog.  It is not modal.                                      *)

OpenAdd ==
    /\ dlg' = [mode |-> "add", ready |-> FALSE, body |-> NoBody]
    /\ UNCHANGED <<exam, pane, win>>

\* editTask: the code is saved to the current task and copied to the dialog;
\* the dialog's own statement object starts out empty.
OpenEdit ==
    /\ tasks # <<>>
    /\ dlg' = [mode |-> "edit", ready |-> idx \in DOMAIN tasks, body |-> NoBody]
    /\ tasks' = IF idx \in DOMAIN tasks THEN SaveText(tasks, idx) ELSE tasks
    /\ UNCHANGED <<names, maxIdx, idx, pane, win>>

\* addType*: a type is chosen, its default statement b is filled in (NoBody
\* if the file with the default statements cannot be read).
ChooseType ==
    /\ dlg.mode # "closed"
    /\ \E b \in Bodies : dlg' = [dlg EXCEPT !.ready = TRUE, !.body = b]
    /\ UNCHANGED <<exam, pane, win>>

\* finishEdition in the dialog for adding; c is the code typed there.
FinishAdd ==
    /\ dlg.mode = "add"
    /\ dlg.ready
    /\ maxIdx < MaxAdds
    /\ \E c \in Codes :
          AddTask([uid |-> maxIdx + 1, code |-> c, body |-> dlg.body, out |-> NoOut])
    /\ dlg' = Closed

\* finishEdition in the dialog for editing.  It applies to the task that is
\* current now.  The output area empties because the code area is rewritten.
FinishEdit ==
    /\ dlg.mode = "edit"
    /\ dlg.ready
    /\ idx \in DOMAIN tasks
    /\ \E c \in Codes :
          /\ tasks' = [tasks EXCEPT ![idx] = [@ EXCEPT !.code = c, !.body = dlg.body]]
          /\ ed' = [code |-> c,
                    body |-> IF dlg.body = NoBody THEN ed.body ELSE dlg.body,
                    out |-> IF c = NoCode /\ ed.code = NoCode THEN ed.out ELSE NoOut]
    /\ dlg' = Closed
    /\ UNCHANGED <<names, maxIdx, idx, pane, shown>>

CancelDialog ==
    /\ dlg.mode # "closed"
    /\ dlg' = Closed
    /\ UNCHANGED <<exam, pane, win>>

-----------------------------------------------------------------------------
(* Everything but the two moves of the context menu ...                    *)
InPlaceNext ==
    \/ TypeCode \/ TypeBody \/ Execute \/ SaveCurrent
    \/ \E n \in DOMAIN tabs : SelectTab(n)
    \/ DeleteTask \/ RenameTask \/ CancelRename
    \/ \E j \in 1 .. Len(tabs) + 1 : DropTab(j)
    \/ OpenAdd \/ OpenEdit \/ ChooseType \/ FinishAdd \/ FinishEdit \/ CancelDialog

(* ... and everything.                                                     *)
Next ==
    \/ InPlaceNext
    \/ \E p \in DOMAIN tabs : \E d \in {1, -1} : MenuMove(p, d)

Spec == Init /\ [][Next]_vars

\* Sessions in which the user never moves a tab with the context menu.
InPlaceSpec == Init /\ [][InPlaceNext]_vars

-----------------------------------------------------------------------------
(* Invariants of the sessions without context menu moves.                  *)

(* Exam.idx is the position of the selected tab whenever there is a task.   *)
(* Exam.java:35 documents idx as the index pointed at by the tab; run,      *)
(* save, edit, rename and delete all go to idx.                             *)
IdxIsSelected == tasks # <<>> => idx = sel

(* The i-th tab was made for the i-th task, carries its name and its index; *)
(* the tabs, the tasks and the names are permuted, extended and shortened   *)
(* by separate calls in every handler.                                      *)
TabsMatchTasks ==
    /\ Len(tabs) = Len(tasks)
    /\ Len(names) = Len(tasks)
    /\ \A i \in DOMAIN tabs : /\ tabs[i].uid = tasks[i].uid
                              /\ tabs[i].name = names[i]
                              /\ tabs[i].id = i

(* Between two events the listener is armed for SWITCH and something is     *)
(* selected if there are tabs: no handler leaves a status behind that would *)
(* make the next click skip the save.                                       *)
ListenerArmed ==
    /\ status = "SWITCH"
    /\ sel = 0 <=> tabs = <<>>

(* The editor shows the task that run and save will write to.               *)
EditorShowsCurrent ==
    tasks # <<>> => idx \in DOMAIN tasks /\ shown = tasks[idx].uid

(* Only the selected tab has a context menu, so that a move or a rename     *)
(* chosen there is meant for the task on display.                           *)
MenuOnSelectedOnly == \A i \in DOMAIN tabs : tabs[i].menu => i = sel

(* An output on display, or stored with any task but the one on display,    *)
(* was produced by the code it stands next to (the listener on the code     *)
(* area empties the output area at every change, line 131).                 *)
FreshResults ==
    /\ ed.out \in {NoOut, ed.code}
    /\ \A i \in DOMAIN tasks \ {idx} : tasks[i].out \in {NoOut, tasks[i].code}

-----------------------------------------------------------------------------
(* The window implements the notebook: the open page is what the editor     *)
(* holds, the other pages are the other tasks of the exam.                  *)
PageOf(i) ==
    LET e == IF i = sel THEN ed ELSE tasks[i]
    IN  [uid |-> tasks[i].uid, name |-> names[i],
         code |-> e.code, body |-> e.body, out |-> e.out]

NB == INSTANCE Notebook WITH
          pages <- [i \in DOMAIN tasks |-> PageOf(i)],
          open  <- sel,
          made  <- maxIdx

(* No handler writes the editor into a task other than the one it shows,    *)
(* and none drops what was typed: switching, dragging, saving and opening   *)
(* a dialog change no page, everything else changes the open page only.     *)
ImplementsNotebook == NB!NotebookSpec

-----------------------------------------------------------------------------
(* What is left with the context menu moves.                                *)

(* There is one tab and one name per task.                                  *)
PaneMatchesExam ==
    /\ Len(tabs) = Len(tasks)
    /\ Len(names) = Len(tasks)

(* Deleting removes the task of the active tab and no other.  This is what  *)
(* GUIMainController.java:440 says of deleteTask; a context menu move       *)
(* breaks it.                                                               *)
DeletesActiveTask ==
    [][DeleteTask => \A i \in DOMAIN tasks :
           (\A j \in DOMAIN tasks' : tasks'[j].uid # tasks[i].uid)
               => tasks[i].uid = tabs[sel].uid]_vars

=============================================================================
