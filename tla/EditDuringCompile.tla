-------------------------- MODULE EditDuringCompile --------------------------
(***************************************************************************)
(* The loop of Exam.compile against the main window.  The compile thread   *)
(* iterates over the list of tasks, executes the code of one task after    *)
(* the other and stores the result with the task; the compilation window   *)
(* is not modal, so the user goes on typing, adding, deleting, dragging    *)
(* and switching.  Hiding the compilation window redisplays the current    *)
(* task.                                                                   *)
(*                                                                         *)
(* The list is an ArrayList.  Its iterator compares its position with the  *)
(* size to see whether there is a next element, and the modification       *)
(* counts only when it fetches one: then a list that was changed throws    *)
(* ConcurrentModificationException, which ends the thread.                 *)
(*                                                                         *)
(* ExamCompilation has the threads, buttons and alerts of the compilation  *)
(* window, for a list of tasks that stays as it is.                        *)
(*                                                                         *)
(* Saving the editor clears the list of text parts of a task and fills it  *)
(* again (Text.extractText).  The compile thread that is copying the parts *)
(* meanwhile gets an exception, nothing, or a mixture of the two codes.    *)
(***************************************************************************)
EXTENDS ExamTabs

VARIABLES
    thread,    \* the compile thread: [pc, cursor, modified, uid, code, torn]
    window,    \* is the compilation window showing
    listed,    \* uids in the list when the loop began (history)
    deleted,   \* a task was deleted since then (history)
    executed,  \* uids of the tasks executed, in order (history)
    mixed,     \* uids of the tasks whose code was saved while it was read (history)
    had        \* the codes each task ever had, by uid (history)

loop  == <<thread, window, listed, deleted, executed, mixed>>
cvars == <<vars, loop, had>>

ThreadPcs == {"none", "next", "read", "store", "returned", "dead"}

UidsOf(ts) == [i \in DOMAIN ts |-> ts[i].uid]

EditTypeOK ==
    /\ TypeOK
    /\ thread \in [pc : ThreadPcs, cursor : Nat, modified : BOOLEAN,
                   uid : Nat, code : Codes, torn : BOOLEAN]
    /\ window \in BOOLEAN
    /\ listed \in Seq(Nat)
    /\ deleted \in BOOLEAN
    /\ executed \in Seq(Nat)
    /\ mixed \subseteq 1 .. MaxAdds
    /\ had \in [1 .. MaxAdds -> SUBSET Codes]

\* A thread that holds nothing.
Thread(p) == [pc |-> p, cursor |-> 0, modified |-> FALSE,
              uid |-> 0, code |-> NoCode, torn |-> FALSE]

EditInit ==
    /\ Init
    /\ thread = Thread("none")
    /\ window = FALSE
    /\ listed = <<>>
    /\ deleted = FALSE
    /\ executed = <<>>
    /\ mixed = {}
    /\ had = [u \in 1 .. MaxAdds |-> {}]

-----------------------------------------------------------------------------
(* The compile thread.                                                     *)

\* The window is shown (once, a model bound) and the loop asks the list for an
\* iterator.  The exam had tasks when the user asked for a PDF; they may be
\* gone by now.
Begin ==
    /\ thread.pc = "none"
    /\ maxIdx > 0
    /\ thread' = Thread("next")
    /\ window' = TRUE
    /\ listed' = UidsOf(tasks)
    /\ UNCHANGED <<vars, deleted, executed, mixed>>

\* Mutant: the list does not notice that it was changed under the iterator.
CanFetch_Unchecked == thread.cursor < Len(tasks)

\* next() checks the modification counts.
CanFetch == ~thread.modified

\* One round begins: hasNext, next, and the task's list of text parts is
\* found.  When there is no next element compile() returns.
Fetch ==
    /\ thread.pc = "next"
    /\ \/ /\ thread.cursor = Len(tasks)
          /\ thread' = Thread("returned")
          /\ UNCHANGED executed
       \/ /\ thread.cursor # Len(tasks)
          /\ ~CanFetch
          /\ thread' = Thread("dead")
          /\ UNCHANGED executed
       \/ /\ thread.cursor # Len(tasks)
          /\ CanFetch
          /\ LET t == tasks[thread.cursor + 1]
             IN  /\ thread' = [thread EXCEPT !.pc = "read", !.cursor = @ + 1,
                                             !.uid = t.uid, !.code = t.code]
                 /\ executed' = Append(executed, t.uid)
    /\ UNCHANGED <<vars, window, listed, deleted, mixed>>

\* The text parts have been copied (getStandardCompilationCode).  If the list
\* was rewritten meanwhile its iterator throws, or the copy is anything.
Read ==
    /\ thread.pc = "read"
    /\ \/ /\ ~thread.torn
          /\ thread' = [thread EXCEPT !.pc = "store"]
          /\ UNCHANGED mixed
       \/ /\ thread.torn
          /\ \E c \in Codes : thread' = [thread EXCEPT !.pc = "store", !.code = c, !.torn = FALSE]
          /\ mixed' = mixed \cup {thread.uid}
       \/ /\ thread.torn
          /\ thread' = Thread("dead")
          /\ UNCHANGED mixed
    /\ UNCHANGED <<vars, window, listed, deleted, executed>>

\* Mutant: the result goes to the position of the task, not to the task.
Receives_ByPosition(i) == i = thread.cursor

\* The thread holds the task, wherever in the list it is now.
Receives(i) == tasks[i].uid = thread.uid

\* Mutant: the thread works on a copy and puts the whole task back.
WithResult_WholeTask(t) == [t EXCEPT !.out = thread.code, !.code = thread.code]

WithResult(t) == [t EXCEPT !.out = thread.code]

\* setResult.  A task that was deleted meanwhile keeps it to itself.  Then
\* the next round, or a compile error or a silent program ends the thread.
Store ==
    /\ thread.pc = "store"
    /\ tasks' = [i \in DOMAIN tasks |->
                    IF Receives(i) THEN WithResult(tasks[i]) ELSE tasks[i]]
    /\ \/ thread' = [thread EXCEPT !.pc = "next", !.uid = 0, !.code = NoCode]
       \/ thread' = Thread("dead")
    /\ UNCHANGED <<names, maxIdx, idx, pane, win, dlg, window, listed, deleted, executed, mixed>>

-----------------------------------------------------------------------------
(* The JavaFX thread.                                                      *)

\* The compilation window is hidden: updateWindow(Exam.idx).  The editor is
\* not saved before.
Hide ==
    /\ window
    /\ window' = FALSE
    /\ UpdateWindow(tasks, idx, idx)
    /\ UNCHANGED <<tasks, names, maxIdx, pane, dlg, thread, listed, deleted, executed, mixed>>

\* extractText: the list of the text parts of the k-th task is rewritten.
Rewrites(k) ==
    [thread EXCEPT !.torn = \/ @
                            \/ /\ thread.pc = "read"
                               /\ k \in DOMAIN tasks
                               /\ tasks[k].uid = thread.uid]

\* The task the tab left by the selection listener stands for.
Left == IF sel = 0 THEN 0 ELSE tabs[sel].id

InLoop == thread.pc \in {"next", "read", "store"}

\* What the user does to the list of tasks counts as modifications.
ChangeList ==
    \/ /\ \/ FinishAdd /\ thread' = [Rewrites(Left) EXCEPT !.modified = @ \/ InLoop]
          \/ /\ \E j \in 1 .. Len(tabs) + 1 : DropTab(j)
             /\ thread' = [thread EXCEPT !.modified = @ \/ InLoop]
       /\ UNCHANGED <<window, listed, deleted, executed, mixed>>
    \/ /\ DeleteTask
       /\ thread' = [thread EXCEPT !.modified = @ \/ InLoop]
       /\ deleted' = (deleted \/ InLoop)
       /\ UNCHANGED <<window, listed, executed, mixed>>

\* What leaves the list alone.  (The other buttons that start or save
\* something are in ExamTabs.)  editTask gives the task a new list of parts.
Edit ==
    /\ \/ /\ TypeCode \/ TypeBody \/ OpenAdd \/ OpenEdit \/ ChooseType \/ CancelDialog
          /\ UNCHANGED thread
       \/ /\ Execute \/ SaveCurrent \/ FinishEdit
          /\ thread' = Rewrites(idx)
       \/ /\ \E n \in DOMAIN tabs : SelectTab(n)
          /\ thread' = Rewrites(Left)
    /\ UNCHANGED <<window, listed, deleted, executed, mixed>>

\* The code of task u, where it is on display and where it is stored.
CodesOf(u, ts, e, s) ==
    {ts[i].code : i \in {j \in DOMAIN ts : ts[j].uid = u}}
        \cup {c \in {e.code} : s = u /\ ts # <<>>}

\* The loop is over: edits that follow are in ExamTabs (model bound).
Over == thread.pc \in {"returned", "dead"}

EditNext ==
    \/ /\ \/ Begin \/ Fetch \/ Read \/ Store \/ Hide
          \/ ~Over /\ (ChangeList \/ Edit)
       /\ had' = [u \in DOMAIN had |-> had[u] \cup CodesOf(u, tasks', ed', shown')]
    \/ Over /\ ~window /\ UNCHANGED cvars

EditSpec == EditInit /\ [][EditNext]_cvars

-----------------------------------------------------------------------------
(* The thread executes no task twice, whatever is done to the list: a moved *)
(* task is not met again at its new place.                                  *)
OncePerTask == IsInjective(executed)

(* When compile() returns, every task that was in the list when it began    *)
(* has been executed, unless one was deleted: the iterator may then be at   *)
(* the new end of the list and does not notice that it has left out the     *)
(* last task.                                                               *)
AllUnlessDeleted ==
    thread.pc = "returned" /\ ~deleted => Range(listed) \subseteq Range(executed)

(* No task ever has, and the window never shows, the output of another      *)
(* task's program: every output comes from a code the task once had, though *)
(* not always from the one it has now, or was read while it was saved.      *)
OwnResults ==
    /\ \A i \in DOMAIN tasks : tasks[i].uid \notin mixed =>
           tasks[i].out \in {NoOut} \cup had[tasks[i].uid]
    /\ tasks # <<>> /\ shown \notin mixed => ed.out \in {NoOut} \cup had[shown]

(* The texts of the exam, without the outputs.                              *)
NBT == INSTANCE Notebook WITH
          pages <- [i \in DOMAIN tasks |-> [PageOf(i) EXCEPT !.out = NoOut]],
          open  <- sel,
          made  <- maxIdx

(* The compile thread takes nothing from what the user writes meanwhile,    *)
(* and gives nothing back: only hiding the compilation window loses text,   *)
(* what was typed on the open page since it was saved last.                 *)
TextSurvivesCompiling ==
    /\ NBT!NotebookInit
    /\ [][ \/ NBT!NotebookNext
           \/ UNCHANGED NBT!nbVars
           \/ /\ window /\ ~window'
              /\ \A i \in DOMAIN tasks \ {sel} :
                    /\ tasks'[i] = tasks[i]
                    /\ names'[i] = names[i] ]_cvars

=============================================================================
