---------------------- MODULE EditDuringCompileProofs ----------------------
(***************************************************************************)
(* Proofs about EditDuringCompile, for every value of its constants: the   *)
(* compile loop against whatever the user does to the list of tasks.       *)
(***************************************************************************)
EXTENDS EditDuringCompile, NotebookProofs

-----------------------------------------------------------------------------
(* What a handler of the window does to the list of tasks and its outputs. *)

\* The tasks in ts have different uids, handed out by a counter at m.
Numbered(ts, m) ==
    /\ \A i \in 1 .. Len(ts) : ts[i].uid \in 1 .. m
    /\ \A i, j \in 1 .. Len(ts) : i # j => ts[i].uid # ts[j].uid

\* The list holds the same tasks in the same order.
KeepsList ==
    /\ maxIdx' = maxIdx
    /\ Len(tasks') = Len(tasks)
    /\ \A j \in 1 .. Len(tasks) : tasks'[j].uid = tasks[j].uid

\* The outputs that are with the task u now, and the one a run may make.
OutsOf(u) ==
    {NoOut} \cup {o \in {ed.out, ed.code} : Len(tasks) # 0 /\ shown = u}
            \cup {tasks[j].out : j \in {k \in 1 .. Len(tasks) : tasks[k].uid = u}}

\* No task is given, and none is shown with, the output of another one.
GivesBack ==
    /\ \A j \in 1 .. Len(tasks') : tasks'[j].out \in OutsOf(tasks'[j].uid)
    /\ Len(tasks') # 0 => ed'.out \in OutsOf(shown')

\* The position on display.
LEMMA Current ==
    ASSUME InStep, Len(tasks) # 0
    PROVE  idx \in 1 .. Len(tasks) /\ sel = idx /\ shown = tasks[idx].uid
BY Facts DEF InStep, EditorShowsCurrent

LEMMA ContentGivesBack ==
    ASSUME InStep, ContentChange(Outs),
           idx \in 1 .. Len(tasks) =>
              tasks'[idx].out \in {NoOut, ed.out, ed.code, tasks[idx].out},
           ed'.out \in {NoOut, ed.out, ed.code}
    PROVE  KeepsList /\ GivesBack
<1>1. /\ UNCHANGED <<maxIdx, idx, shown>>
      /\ Len(tasks') = Len(tasks)
      /\ \A j \in 1 .. Len(tasks) : /\ tasks'[j].uid = tasks[j].uid
                                    /\ j # idx => tasks'[j] = tasks[j]
  BY DEF ContentChange
<1>2. ASSUME NEW j \in 1 .. Len(tasks)
      PROVE  tasks'[j].out \in OutsOf(tasks'[j].uid)
  <2>1. CASE j # idx
    BY <1>1, <2>1 DEF OutsOf
  <2>2. CASE j = idx
    <3>1. shown = tasks[idx].uid /\ Len(tasks) # 0
      BY <2>2, Facts, Current
    <3> QED
      BY <1>1, <2>2, <3>1 DEF OutsOf
  <2> QED
    BY <2>1, <2>2
<1>3. Len(tasks) # 0 => ed'.out \in OutsOf(shown')
  BY <1>1 DEF OutsOf
<1> QED
  BY <1>1, <1>2, <1>3 DEF KeepsList, GivesBack

\* saveText and saveTaskInfo give the current task the output it has or the
\* one on display.
LEMMA SavedOut ==
    ASSUME InStep, idx \in DOMAIN tasks,
           NEW us \in {SaveText(tasks, idx), SaveTaskInfo(tasks, idx)}
    PROVE  us[idx].out \in {ed.out, tasks[idx].out}
<1>1. /\ tasks \in Seq(Task) /\ ed \in Editor /\ idx \in 1 .. Len(tasks)
  BY Facts
<1>2. \/ us[idx] = [uid |-> tasks[idx].uid, code |-> ed.code, body |-> ed.body, out |-> ed.out]
      \/ us[idx] = [uid |-> tasks[idx].uid, code |-> ed.code, body |-> tasks[idx].body,
                    out |-> tasks[idx].out]
  BY <1>1, SaveTextProperties, SaveTaskInfoProperties DEF IsUpdate
<1> QED
  BY <1>2

\* The handlers that leave the list alone, but for the selection of a tab.
KeepsTasks ==
    \/ TypeCode \/ TypeBody \/ OpenAdd \/ OpenEdit \/ ChooseType \/ CancelDialog
    \/ Execute \/ SaveCurrent \/ FinishEdit

LEMMA KeptTasksGiveBack ==
    ASSUME InStep, KeepsTasks
    PROVE  KeepsList /\ GivesBack
<1>1. TypeOK /\ EdBut(Outs)
  BY AnyOutput DEF InvBut, InStep, FreshBut, EdBut
<1>2. ContentChange(Outs)
  BY <1>1, DialogContent, TypingContent, ExecuteContent, SaveCurrentContent,
     OpenEditContent, FinishEditContent DEF KeepsTasks
<1>3. /\ tasks \in Seq(Task) /\ DOMAIN tasks = 1 .. Len(tasks) /\ ed \in Editor
  BY <1>1, TypedContents
<1>4. CASE TypeCode \/ TypeBody \/ OpenAdd \/ ChooseType \/ CancelDialog
  <2>1. tasks' = tasks /\ ed'.out \in {NoOut, ed.out}
    BY <1>3, <1>4
    DEF TypeCode, TypeBody, OpenAdd, ChooseType, CancelDialog, exam, win, Editor
  <2> QED
    BY <1>2, <2>1, ContentGivesBack
<1>5. CASE OpenEdit
  <2>1. ed' = ed /\ tasks' = IF idx \in DOMAIN tasks THEN SaveText(tasks, idx) ELSE tasks
    BY <1>5 DEF OpenEdit, win
  <2>2. idx \in DOMAIN tasks => tasks'[idx].out \in {ed.out, tasks[idx].out}
    BY <2>1, SavedOut
  <2> QED
    BY <1>2, <1>3, <2>1, <2>2, ContentGivesBack
<1>6. CASE SaveCurrent
  <2>1. ed' = ed /\ idx \in DOMAIN tasks /\ tasks' = SaveTaskInfo(tasks, idx)
    BY <1>6 DEF SaveCurrent, win
  <2>2. tasks'[idx].out \in {ed.out, tasks[idx].out}
    BY <2>1, SavedOut
  <2> QED
    BY <1>2, <2>1, <2>2, ContentGivesBack
<1>7. ASSUME NEW o \in {NoOut, ed.code}, Finishes(o)
      PROVE  KeepsList /\ GivesBack
  <2> DEFINE us == SaveText(tasks, idx)
  <2>1. idx \in DOMAIN tasks /\ ed'.out = o /\ tasks' = [us EXCEPT ![idx] = [@ EXCEPT !.out = o]]
    BY <1>3, <1>7 DEF Finishes, Editor
  <2>2. us \in Seq(Task) /\ Len(us) = Len(tasks)
    BY <1>1, <2>1, SavingChanges
  <2> HIDE DEF us
  <2>3. idx \in DOMAIN us /\ us[idx] \in Task
    BY <1>3, <2>1, <2>2, LenProperties, ElementOfSeq
  <2>4. tasks'[idx].out = o
    BY <2>1, <2>3 DEF Task
  <2> QED
    BY <1>2, <2>1, <2>4, ContentGivesBack
<1>8. CASE Throws
  <2>1. ed'.out = NoOut
    BY <1>3, <1>8 DEF Throws, Editor
  <2>2. idx \in DOMAIN tasks => tasks'[idx].out \in {ed.out, tasks[idx].out}
    BY <1>8, SavedOut DEF Throws
  <2> QED
    BY <1>2, <1>3, <2>1, <2>2, ContentGivesBack
<1>9. CASE FinishEdit
  <2>1. PICK c \in Codes :
           /\ idx \in DOMAIN tasks
           /\ tasks' = [tasks EXCEPT ![idx] = [@ EXCEPT !.code = c, !.body = dlg.body]]
           /\ ed' = [code |-> c,
                     body |-> IF dlg.body = NoBody THEN ed.body ELSE dlg.body,
                     out |-> IF c = NoCode /\ ed.code = NoCode THEN ed.out ELSE NoOut]
    BY <1>9 DEF FinishEdit
  <2>2. tasks[idx] \in Task
    BY <1>3, <2>1, ElementOfSeq
  <2>3. tasks'[idx].out = tasks[idx].out /\ ed'.out \in {ed.out, NoOut}
    BY <2>1, <2>2 DEF Task
  <2> QED
    BY <1>2, <2>1, <2>3, ContentGivesBack
<1> QED
  BY <1>4, <1>5, <1>6, <1>7, <1>8, <1>9 DEF KeepsTasks, Execute

LEMMA SelectTabGivesBack ==
    ASSUME InStep, NEW n \in DOMAIN tabs, SelectTab(n)
    PROVE  KeepsList /\ GivesBack
<1>1. /\ tasks \in Seq(Task) /\ tabs \in Seq(Tab) /\ Len(tabs) = Len(tasks)
      /\ DOMAIN tasks = 1 .. Len(tasks) /\ Len(tasks) \in Nat
      /\ n \in 1 .. Len(tasks) /\ Len(tasks) # 0 /\ sel \in 1 .. Len(tasks)
      /\ ed \in Editor /\ status = "SWITCH"
      /\ \A k \in 1 .. Len(tasks) : tabs[k].id = k
  BY Facts
<1>2. SwitchEvent(tasks, tabs, sel, n, idx) /\ maxIdx' = maxIdx
  BY <1>1 DEF SelectTab
<1>3. /\ tasks' = SaveTaskInfo(tasks, sel)
      /\ ed' = [code |-> tasks'[n].code, body |-> tasks'[n].body, out |-> tasks'[n].out]
      /\ shown' = tasks'[n].uid
  BY <1>1, <1>2, SwitchEffect
<1>4. IsUpdate(tasks', tasks, sel,
               [uid |-> tasks[sel].uid, code |-> ed.code, body |-> ed.body, out |-> ed.out])
  BY <1>1, <1>3, SaveTaskInfoProperties
<1>5. shown = tasks[sel].uid
  BY <1>1, Current
<1>6. ASSUME NEW j \in 1 .. Len(tasks)
      PROVE  tasks'[j].uid = tasks[j].uid /\ tasks'[j].out \in OutsOf(tasks[j].uid)
  <2>1. CASE j = sel
    BY <1>1, <1>4, <1>5, <2>1 DEF IsUpdate, OutsOf
  <2>2. CASE j # sel
    BY <1>4, <2>2 DEF IsUpdate, OutsOf
  <2> QED
    BY <2>1, <2>2
<1>7. ed'.out = tasks'[n].out /\ Len(tasks') = Len(tasks)
  BY <1>3, <1>4 DEF IsUpdate
<1> QED
  BY <1>1, <1>2, <1>3, <1>6, <1>7 DEF KeepsList, GivesBack

-----------------------------------------------------------------------------
(* Handlers that change the list.                                          *)

\* Tasks that were numbered are numbered in another list, too.
LEMMA NumberedAnew ==
    ASSUME NEW ts, NEW us, NEW m, Numbered(ts, m), NEW from,
           \A i \in 1 .. Len(us) : from[i] \in 1 .. Len(ts) /\ us[i] = ts[from[i]],
           \A i, k \in 1 .. Len(us) : i # k => from[i] # from[k]
    PROVE  Numbered(us, m)
<1>1. ASSUME NEW i \in 1 .. Len(us)
      PROVE  us[i].uid \in 1 .. m
  BY DEF Numbered
<1>2. ASSUME NEW i \in 1 .. Len(us), NEW k \in 1 .. Len(us), i # k
      PROVE  us[i].uid # us[k].uid
  <2>1. /\ from[i] \in 1 .. Len(ts) /\ us[i] = ts[from[i]]
        /\ from[k] \in 1 .. Len(ts) /\ us[k] = ts[from[k]]
        /\ from[i] # from[k]
    BY <1>2
  <2>2. ts[from[i]].uid # ts[from[k]].uid
    BY <2>1 DEF Numbered
  <2> QED
    BY <2>1, <2>2
<1> QED
  BY <1>1, <1>2 DEF Numbered

LEMMA FinishAddNumbers ==
    ASSUME InStep, Numbered(tasks, maxIdx), FinishAdd
    PROVE  /\ Numbered(tasks', maxIdx') /\ GivesBack
           /\ maxIdx' = maxIdx + 1 /\ maxIdx' <= MaxAdds
           /\ Len(tasks') = Len(tasks) + 1
<1>1. PICK c \in Codes :
         AddTask([uid |-> maxIdx + 1, code |-> c, body |-> dlg.body, out |-> NoOut])
  BY DEF FinishAdd
<1> DEFINE n  == Len(tasks) + 1
           t  == [uid |-> maxIdx + 1, code |-> c, body |-> dlg.body, out |-> NoOut]
           b  == [uid |-> maxIdx + 1, name |-> maxIdx + 1, id |-> n, menu |-> FALSE]
           ts == Append(tasks, t)
           tb == Append(tabs, b)
<1>2. /\ tasks \in Seq(Task) /\ tabs \in Seq(Tab)
      /\ Len(tasks) \in Nat /\ Len(tabs) = Len(tasks)
      /\ sel \in 0 .. Len(tasks) /\ ed \in Editor /\ maxIdx \in Nat
      /\ \A k \in 1 .. Len(tasks) : tabs[k].id = k
      /\ sel # 0 => shown = tasks[sel].uid /\ Len(tasks) # 0
  BY Facts, Current
<1>3. /\ t \in Task /\ t.uid = maxIdx + 1 /\ t.out = NoOut
      /\ b \in Tab /\ b.id = n
  BY <1>2, Facts DEF Task, Tab, Names, Outs, Dialog
<1>4. maxIdx' = maxIdx + 1 /\ maxIdx < MaxAdds /\ SwitchEvent(ts, tb, sel, Len(tb), n)
  BY <1>1 DEF AddTask, FinishAdd
<1> HIDE DEF t, b
<1>5. /\ ts \in Seq(Task) /\ Len(ts) = n
      /\ \A j \in 1 .. n : ts[j] = IF j = n THEN t ELSE tasks[j]
  BY <1>2, <1>3, AppendProperties
<1>6. /\ tb \in Seq(Tab) /\ Len(tb) = n
      /\ \A j \in 1 .. n : tb[j] = IF j = n THEN b ELSE tabs[j]
  BY <1>2, <1>3, AppendProperties
<1> HIDE DEF ts, tb
<1>7. /\ tasks' = IF sel = 0 THEN ts ELSE SaveTaskInfo(ts, sel)
      /\ Len(tasks') = n
      /\ ed' = [code |-> tasks'[n].code, body |-> tasks'[n].body, out |-> tasks'[n].out]
      /\ shown' = tasks'[n].uid
  <2>1. SwitchEvent(ts, tb, sel, n, n) /\ Len(ts) = Len(tb)
    BY <1>4, <1>5, <1>6
  <2>2. n \in 1 .. Len(tb) /\ sel \in 0 .. Len(tb)
    BY <1>2, <1>6
  <2>3. \A k \in 1 .. Len(tb) : tb[k].id = k
    BY <1>2, <1>3, <1>6
  <2> QED
    BY <1>2, <1>5, <1>6, <2>1, <2>2, <2>3, SwitchEffect
<1>8. \A j \in 1 .. n : /\ tasks'[j].uid = ts[j].uid
                        /\ tasks'[j].out = IF j = sel THEN ed.out ELSE ts[j].out
  <2>1. CASE sel = 0
    BY <1>2, <1>7, <2>1
  <2>2. CASE sel # 0
    <3>1. sel \in DOMAIN ts /\ DOMAIN ts = 1 .. n
      BY <2>2, <1>2, <1>5, LenProperties
    <3>2. IsUpdate(tasks', ts, sel, [uid |-> ts[sel].uid, code |-> ed.code,
                                     body |-> ed.body, out |-> ed.out])
      BY <3>1, <2>2, <1>2, <1>5, <1>7, SaveTaskInfoProperties
    <3> QED
      BY <3>1, <3>2, <1>5 DEF IsUpdate
  <2> QED
    BY <2>1, <2>2
<1>9. \A j \in 1 .. n : j = n \/ j \in 1 .. Len(tasks)
  BY <1>2
<1>10. /\ \A j \in 1 .. Len(tasks) : j # n /\ tasks'[j].uid = tasks[j].uid
       /\ n \in 1 .. n /\ tasks'[n].uid = maxIdx + 1
       /\ sel # n
  BY <1>2, <1>3, <1>5, <1>8
<1>11. Numbered(tasks', maxIdx')
  <2>1. \A j \in 1 .. Len(tasks) :
           /\ tasks[j].uid \in 1 .. maxIdx + 1
           /\ tasks[j].uid # maxIdx + 1
    BY <1>2 DEF Numbered
  <2>2. \A j \in 1 .. n : tasks'[j].uid \in 1 .. maxIdx + 1
    BY <1>2, <1>9, <1>10, <2>1
  <2>3. ASSUME NEW i \in 1 .. n, NEW j \in 1 .. n, i # j
        PROVE  tasks'[i].uid # tasks'[j].uid
    <3>1. CASE i \in 1 .. Len(tasks) /\ j \in 1 .. Len(tasks)
      BY <1>10, <2>3, <3>1 DEF Numbered
    <3>2. CASE i = n \/ j = n
      BY <1>9, <1>10, <2>1, <2>3, <3>2
    <3> QED
      BY <1>9, <3>1, <3>2
  <2> QED
    BY <1>4, <1>7, <2>2, <2>3 DEF Numbered
<1>12. ASSUME NEW j \in 1 .. n
       PROVE  tasks'[j].out \in OutsOf(tasks'[j].uid)
  <2>1. CASE j = n
    BY <1>3, <1>5, <1>8, <1>10, <2>1 DEF OutsOf
  <2>2. CASE j = sel /\ sel # 0
    BY <1>2, <1>8, <1>10, <2>2 DEF OutsOf
  <2>3. CASE j # n /\ j # sel
    BY <1>5, <1>8, <1>9, <1>10, <2>3 DEF OutsOf
  <2> QED
    BY <1>2, <2>1, <2>2, <2>3
<1>13. ed'.out \in OutsOf(shown')
  BY <1>7, <1>10, <1>12
<1> QED
  BY <1>2, <1>4, <1>7, <1>11, <1>12, <1>13, TabsAssumption DEF GivesBack

LEMMA DropTabNumbers ==
    ASSUME InStep, Numbered(tasks, maxIdx), NEW j \in 1 .. Len(tabs) + 1, DropTab(j)
    PROVE  /\ Numbered(tasks', maxIdx') /\ GivesBack
           /\ maxIdx' = maxIdx
           /\ Len(tasks') = Len(tasks)
<1> DEFINE to == IF sel < j THEN j - 1 ELSE j
<1>1. /\ tasks \in Seq(Task) /\ Len(tasks) \in Nat \ {0} /\ Len(tabs) = Len(tasks)
      /\ sel \in 1 .. Len(tasks)
  BY Facts DEF DropTab
<1>2. to \in 1 .. Len(tasks)
  BY <1>1
<1>3. tasks' = Moved(tasks, sel, to) /\ UNCHANGED <<maxIdx, ed, shown>>
  BY DEF DropTab, win
<1> HIDE DEF to
<1>4. IsMove(Task, tasks', tasks, sel, to)
  BY <1>1, <1>2, <1>3, MovedProperties
<1>5. /\ Len(tasks') = Len(tasks)
      /\ \A i \in 1 .. Len(tasks) : /\ Origin(sel, to, i) \in 1 .. Len(tasks)
                                    /\ tasks'[i] = tasks[Origin(sel, to, i)]
  BY <1>4 DEF IsMove
<1>6. \A i, k \in 1 .. Len(tasks) : i # k => Origin(sel, to, i) # Origin(sel, to, k)
  BY <1>1, <1>2 DEF Origin
<1>7. Numbered(tasks', maxIdx')
  <2> DEFINE from == [i \in 1 .. Len(tasks) |-> Origin(sel, to, i)]
  <2>1. /\ \A i \in 1 .. Len(tasks') : from[i] \in 1 .. Len(tasks) /\ tasks'[i] = tasks[from[i]]
        /\ \A i, k \in 1 .. Len(tasks') : i # k => from[i] # from[k]
    BY <1>5, <1>6
  <2> DEFINE us == tasks'
  <2>2. /\ \A i \in 1 .. Len(us) : from[i] \in 1 .. Len(tasks) /\ us[i] = tasks[from[i]]
        /\ \A i, k \in 1 .. Len(us) : i # k => from[i] # from[k]
    BY <2>1
  <2> HIDE DEF from, us
  <2>3. Numbered(us, maxIdx)
    BY <2>2, NumberedAnew
  <2> QED
    BY <1>3, <2>3 DEF us
<1>8. GivesBack
  BY <1>3, <1>5 DEF GivesBack, OutsOf
<1> QED
  BY <1>3, <1>5, <1>7, <1>8

LEMMA DeleteTaskNumbers ==
    ASSUME InStep, Numbered(tasks, maxIdx), DeleteTask
    PROVE  /\ Numbered(tasks', maxIdx') /\ GivesBack
           /\ maxIdx' = maxIdx
<1>1. /\ tasks \in Seq(Task) /\ tabs \in Seq(Tab)
      /\ Len(tasks) \in Nat \ {0} /\ Len(tabs) = Len(tasks)
      /\ idx \in 1 .. Len(tasks) /\ idx \in DOMAIN tasks /\ sel = idx
      /\ tabs[sel].id = sel
  BY Facts DEF DeleteTask
<1> DEFINE ts == RemoveAt(tasks, idx)
           tb == RemoveAt(tabs, idx)
           n  == Nearest(sel, Len(tabs) - 1)
<1>2. DeleteEvent(ts, tb, sel, n) /\ maxIdx' = maxIdx
  BY <1>1 DEF DeleteTask
<1>3. IsRemoval(Task, ts, tasks, idx) /\ IsRemoval(Tab, tb, tabs, idx)
  BY <1>1, RemoveAtProperties
<1> HIDE DEF ts, tb
<1>4. /\ ts \in Seq(Task) /\ tb \in Seq(Tab)
      /\ Len(ts) = Len(tasks) - 1 /\ Len(tb) = Len(ts) /\ Len(ts) \in Nat
      /\ \A i \in 1 .. Len(ts) : ts[i] = IF i < idx THEN tasks[i] ELSE tasks[i + 1]
  BY <1>1, <1>3 DEF IsRemoval
<1>5. /\ n \in 0 .. Len(tb)
      /\ n = 0 => Len(tb) = 0 /\ sel = 1
      /\ sel = 1 /\ Len(tb) # 0 => n = 1
  BY <1>1, <1>4 DEF Nearest
<1> HIDE DEF n
<1>6. /\ tasks' = ts
      /\ n # 0 => /\ ed' = [code |-> ts[n].code, body |-> ts[n].body, out |-> ts[n].out]
                  /\ shown' = ts[n].uid
  <2>1. sel \in Nat \ {0} /\ Len(ts) = Len(tb)
    BY <1>1, <1>4
  <2> QED
    BY <1>2, <1>4, <1>5, <2>1, DeleteEffect
<1> DEFINE from == [i \in 1 .. Len(ts) |-> IF i < idx THEN i ELSE i + 1]
<1>7. /\ \A i \in 1 .. Len(ts) : from[i] \in 1 .. Len(tasks) /\ ts[i] = tasks[from[i]]
      /\ \A i, k \in 1 .. Len(ts) : i # k => from[i] # from[k]
  BY <1>1, <1>4
<1> HIDE DEF from
<1>8. Numbered(tasks', maxIdx')
  BY <1>2, <1>6, <1>7, NumberedAnew
<1>9. \A i \in 1 .. Len(ts) : ts[i].out \in OutsOf(ts[i].uid)
  BY <1>7 DEF OutsOf
<1>10. Len(ts) # 0 => ed'.out \in OutsOf(shown')
  <2>1. ASSUME Len(ts) # 0
        PROVE  n \in 1 .. Len(ts) /\ n # 0
    BY <1>4, <1>5, <2>1
  <2> QED
    BY <1>6, <1>9, <2>1
<1> QED
  BY <1>2, <1>6, <1>8, <1>9, <1>10 DEF GivesBack

-----------------------------------------------------------------------------
(* The inductive invariant.                                                *)

Threads == [pc : ThreadPcs, cursor : Nat, modified : BOOLEAN,
            uid : Nat, code : Codes, torn : BOOLEAN]

LoopTypes ==
    /\ thread \in Threads
    /\ window \in BOOLEAN
    /\ deleted \in BOOLEAN
    /\ listed \in Seq(Nat)
    /\ executed \in Seq(Nat)
    /\ mixed \subseteq 1 .. MaxAdds
    /\ had \in [1 .. MaxAdds -> SUBSET Codes]

\* The tasks executed are the first ones of the list as the loop found it,
\* which has no task twice.
InListedOrder ==
    /\ Len(executed) <= Len(listed)
    /\ \A i \in 1 .. Len(executed) : executed[i] = listed[i]
    /\ \A i, j \in 1 .. Len(listed) : i # j => listed[i] # listed[j]

\* What the iterator can rely on: its position counts the tasks executed, a
\* list that was not modified is the one it was made for, and only deleting
\* makes a list shorter.
CursorInStep ==
    /\ thread.pc = "none" => Len(executed) = 0 /\ ~deleted
    /\ InLoop =>
          /\ thread.cursor = Len(executed)
          /\ ~thread.modified => /\ Len(tasks) = Len(listed)
                                 /\ \A i \in 1 .. Len(listed) : tasks[i].uid = listed[i]
          /\ ~deleted => Len(listed) <= Len(tasks)
    /\ thread.pc = "returned" /\ ~deleted => Len(executed) = Len(listed)

\* The code the thread holds is one of the task it holds, or a mixture.
Held ==
    thread.pc \in {"read", "store"} =>
        /\ thread.uid \in 1 .. MaxAdds
        /\ thread.uid \notin mixed => thread.code \in had[thread.uid]

CodesKnown ==
    /\ \A i \in 1 .. Len(tasks) : tasks[i].code \in had[tasks[i].uid]
    /\ Len(tasks) # 0 => ed.code \in had[shown]

\* The output o may be that of task u.
Own(o, u) == u \notin mixed => o \in {NoOut} \cup had[u]

ResultsKnown ==
    /\ \A i \in 1 .. Len(tasks) : Own(tasks[i].out, tasks[i].uid)
    /\ Len(tasks) # 0 => Own(ed.out, shown)

EInv ==
    /\ InStep
    /\ LoopTypes
    /\ Numbered(tasks, maxIdx)
    /\ maxIdx <= MaxAdds
    /\ InListedOrder
    /\ CursorInStep
    /\ Held
    /\ CodesKnown
    /\ ResultsKnown

LEMMA InitEInv == EditInit => EInv
<1> SUFFICES ASSUME EditInit PROVE EInv
  OBVIOUS
<1>1. /\ Init /\ thread = Thread("none") /\ window = FALSE /\ deleted = FALSE
      /\ listed = <<>> /\ executed = <<>> /\ mixed = {}
      /\ had = [u \in 1 .. MaxAdds |-> {}]
  BY DEF EditInit
<1>2. InStep
  BY <1>1, InitIInv DEF IInv
<1>3. Len(tasks) = 0 /\ maxIdx = 0 /\ Len(listed) = 0 /\ Len(executed) = 0
  BY <1>1 DEF Init
<1>4. thread \in Threads /\ thread.pc = "none"
  BY <1>1, TabsAssumption DEF Thread, Threads, ThreadPcs
<1>5. LoopTypes
  <2>1. had \in [1 .. MaxAdds -> SUBSET Codes]
    BY <1>1
  <2>2. listed \in Seq(Nat) /\ executed \in Seq(Nat) /\ mixed \subseteq 1 .. MaxAdds
    BY <1>1
  <2>3. window \in BOOLEAN /\ deleted \in BOOLEAN
    BY <1>1
  <2> QED
    BY <1>4, <2>1, <2>2, <2>3 DEF LoopTypes
<1>6. maxIdx <= MaxAdds
  BY <1>3, TabsAssumption
<1>7. Numbered(tasks, maxIdx) /\ InListedOrder /\ CodesKnown /\ ResultsKnown
  BY <1>3 DEF Numbered, InListedOrder, CodesKnown, ResultsKnown
<1>8. CursorInStep /\ Held
  BY <1>1, <1>3, <1>4 DEF CursorInStep, InLoop, Held
<1> QED
  BY <1>2, <1>5, <1>6, <1>7, <1>8 DEF EInv

-----------------------------------------------------------------------------
(* Steps of the window.                                                    *)

HadGrows == had' = [u \in DOMAIN had |-> had[u] \cup CodesOf(u, tasks', ed', shown')]

\* Every code a task has is recorded.
LEMMA CodesRecorded ==
    ASSUME EInv, InStep', Numbered(tasks', maxIdx'), maxIdx' <= MaxAdds, HadGrows
    PROVE  /\ had' \in [1 .. MaxAdds -> SUBSET Codes]
           /\ \A u \in 1 .. MaxAdds : had[u] \subseteq had'[u]
           /\ CodesKnown'
           /\ \A i \in 1 .. Len(tasks') : tasks'[i].uid \in 1 .. MaxAdds
           /\ Len(tasks') # 0 => shown' \in 1 .. MaxAdds
<1>1. /\ tasks' \in Seq(Task) /\ DOMAIN tasks' = 1 .. Len(tasks')
      /\ ed' \in Editor /\ maxIdx' \in Nat /\ Len(tasks') \in Nat
      /\ tasks' = <<>> <=> Len(tasks') = 0
      /\ Len(tasks') # 0 => idx' \in 1 .. Len(tasks') /\ shown' = tasks'[idx'].uid
  <2>1. TypeOK' /\ EditorShowsCurrent'
    BY DEF InStep
  <2> QED
    BY <2>1, LenProperties, EmptySeq DEF TypeOK, EditorShowsCurrent
<1>2. \A i \in 1 .. Len(tasks') : tasks'[i] \in Task
  BY <1>1, ElementOfSeq
<1>3. \A i \in 1 .. Len(tasks') : tasks'[i].uid \in 1 .. MaxAdds
  BY <1>1, TabsAssumption DEF Numbered
<1>4. Len(tasks') # 0 => shown' \in 1 .. MaxAdds
  BY <1>1, <1>3
<1>5. had \in [1 .. MaxAdds -> SUBSET Codes]
  BY DEF EInv, LoopTypes
<1>6. \A u \in 1 .. MaxAdds : had'[u] = had[u] \cup CodesOf(u, tasks', ed', shown')
  BY <1>5 DEF HadGrows
<1>7. ASSUME NEW u
      PROVE  CodesOf(u, tasks', ed', shown') \subseteq Codes
  <2>1. ed'.code \in Codes /\ \A i \in 1 .. Len(tasks') : tasks'[i].code \in Codes
    BY <1>1, <1>2 DEF Task, Editor
  <2> QED
    BY <1>1, <2>1 DEF CodesOf
<1>8. had' \in [1 .. MaxAdds -> SUBSET Codes]
  BY <1>5, <1>7 DEF HadGrows
<1>9. CodesKnown'
  <2>1. ASSUME NEW i \in 1 .. Len(tasks')
        PROVE  tasks'[i].code \in had'[tasks'[i].uid]
    <3>1. tasks'[i].code \in CodesOf(tasks'[i].uid, tasks', ed', shown')
      BY <1>1 DEF CodesOf
    <3> QED
      BY <3>1, <1>3, <1>6
  <2>2. ASSUME Len(tasks') # 0
        PROVE  ed'.code \in had'[shown']
    <3>1. ed'.code \in CodesOf(shown', tasks', ed', shown')
      BY <1>1, <2>2 DEF CodesOf
    <3> QED
      BY <3>1, <2>2, <1>4, <1>6
  <2> QED
    BY <2>1, <2>2 DEF CodesKnown
<1> QED
  BY <1>3, <1>4, <1>6, <1>8, <1>9

\* The outputs that are with a task are its own.
LEMMA OutsOwn ==
    ASSUME EInv, NEW u, u \notin mixed
    PROVE  \A o \in OutsOf(u) : o \in {NoOut} \cup had[u]
<1>1. /\ \A i \in 1 .. Len(tasks) : Own(tasks[i].out, tasks[i].uid)
      /\ Len(tasks) # 0 => Own(ed.out, shown) /\ ed.code \in had[shown]
  BY DEF EInv, ResultsKnown, CodesKnown
<1> QED
  BY <1>1 DEF OutsOf, Own

\* What the iterator sees of a step of the window.
LoopSees ==
    /\ thread' \in Threads
    /\ thread'.pc = thread.pc /\ thread'.cursor = thread.cursor
    /\ thread'.uid = thread.uid /\ thread'.code = thread.code
    /\ InLoop /\ ~thread'.modified => ~thread.modified /\ KeepsList
    /\ InLoop /\ ~deleted' => ~deleted /\ Len(tasks) <= Len(tasks')
    /\ ~InLoop => deleted' = deleted
    /\ deleted' \in BOOLEAN /\ window' \in BOOLEAN
    /\ UNCHANGED <<listed, executed, mixed>>

\* A handler of the window brings the list forward.
ListStep ==
    /\ InStep'
    /\ Numbered(tasks', maxIdx')
    /\ maxIdx' <= MaxAdds
    /\ GivesBack

LEMMA WindowStep ==
    ASSUME EInv, ListStep, LoopSees, HadGrows
    PROVE  EInv'
<1>1. /\ had' \in [1 .. MaxAdds -> SUBSET Codes]
      /\ \A u \in 1 .. MaxAdds : had[u] \subseteq had'[u]
      /\ CodesKnown'
      /\ \A i \in 1 .. Len(tasks') : tasks'[i].uid \in 1 .. MaxAdds
      /\ Len(tasks') # 0 => shown' \in 1 .. MaxAdds
  BY CodesRecorded DEF ListStep
<1>2. LoopTypes'
  BY <1>1 DEF LoopSees, EInv, LoopTypes
<1>3. InListedOrder'
  BY DEF LoopSees, EInv, InListedOrder
<1>4. CursorInStep'
  <2>1. InLoop' <=> InLoop
    BY DEF LoopSees, InLoop
  <2>2. thread.pc = "none" => Len(executed) = 0 /\ ~deleted
    BY DEF EInv, CursorInStep
  <2>3. thread'.pc = "none" => Len(executed') = 0 /\ ~deleted'
    BY <2>2 DEF LoopSees, InLoop
  <2>4. thread'.pc = "returned" /\ ~deleted' => Len(executed') = Len(listed')
    BY DEF LoopSees, InLoop, EInv, CursorInStep
  <2>5. ASSUME InLoop
        PROVE  /\ thread'.cursor = Len(executed')
               /\ ~thread'.modified =>
                     /\ Len(tasks') = Len(listed')
                     /\ \A i \in 1 .. Len(listed') : tasks'[i].uid = listed'[i]
    BY <2>5 DEF LoopSees, EInv, CursorInStep, KeepsList
  <2>6. ASSUME InLoop, ~deleted'
        PROVE  Len(listed') <= Len(tasks')
    <3>1. Len(listed) <= Len(tasks) /\ Len(tasks) <= Len(tasks') /\ listed' = listed
      BY <2>6 DEF LoopSees, EInv, CursorInStep
    <3>2. Len(listed) \in Nat /\ Len(tasks) \in Nat /\ Len(tasks') \in Nat
      BY LenProperties DEF EInv, LoopTypes, ListStep, InStep, TypeOK
    <3> QED
      BY <3>1, <3>2
  <2> QED
    BY <2>1, <2>3, <2>4, <2>5, <2>6 DEF CursorInStep
<1>5. Held'
  BY <1>1 DEF LoopSees, EInv, Held
<1>6. ResultsKnown'
  <2>1. ASSUME NEW u \in 1 .. MaxAdds, NEW o \in OutsOf(u)
        PROVE  Own(o, u)'
    BY <1>1, OutsOwn DEF Own, LoopSees
  <2>2. /\ \A j \in 1 .. Len(tasks') : tasks'[j].out \in OutsOf(tasks'[j].uid)
        /\ Len(tasks') # 0 => ed'.out \in OutsOf(shown')
    BY DEF ListStep, GivesBack
  <2> QED
    BY <1>1, <2>1, <2>2 DEF ResultsKnown
<1> QED
  BY <1>1, <1>2, <1>3, <1>4, <1>5, <1>6 DEF EInv, ListStep

\* The window stays in step whatever the handler.
LEMMA StaysInStep ==
    ASSUME InStep, [InPlaceNext]_vars
    PROVE  InStep'
BY NextInvBut, AnyOutput

\* Rewriting the parts of a text touches nothing else of the thread.
LEMMA RewritesProperties ==
    ASSUME thread \in Threads, NEW k
    PROVE  /\ Rewrites(k) \in Threads
           /\ Rewrites(k).pc = thread.pc /\ Rewrites(k).cursor = thread.cursor
           /\ Rewrites(k).uid = thread.uid /\ Rewrites(k).code = thread.code
           /\ Rewrites(k).modified = thread.modified
<1> DEFINE torn == \/ thread.torn
                   \/ /\ thread.pc = "read"
                      /\ k \in DOMAIN tasks
                      /\ tasks[k].uid = thread.uid
<1>1. torn \in BOOLEAN
  BY DEF Threads
<1>2. Rewrites(k) = [thread EXCEPT !.torn = torn]
  BY DEF Rewrites
<1> HIDE DEF torn
<1> QED
  BY <1>1, <1>2 DEF Threads

\* The modification count.
LEMMA ModifiedProperties ==
    ASSUME NEW t \in Threads, NEW u, u = [t EXCEPT !.modified = @ \/ InLoop]
    PROVE  /\ u \in Threads
           /\ u.pc = t.pc /\ u.cursor = t.cursor
           /\ u.uid = t.uid /\ u.code = t.code
           /\ InLoop => u.modified
<1> DEFINE m == t.modified \/ InLoop
<1>1. m \in BOOLEAN
  BY DEF InLoop, Threads
<1>2. u = [t EXCEPT !.modified = m]
  OBVIOUS
<1>3. InLoop => m
  OBVIOUS
<1> HIDE DEF m
<1>4. /\ u \in Threads
      /\ u.pc = t.pc /\ u.cursor = t.cursor
      /\ u.uid = t.uid /\ u.code = t.code
      /\ u.modified = m
  BY <1>1, <1>2 DEF Threads
<1> QED
  BY <1>3, <1>4, Zenon

LEMMA EditStep ==
    ASSUME EInv, Edit
    PROVE  ListStep /\ LoopSees
<1>1. /\ InStep /\ thread \in Threads /\ window \in BOOLEAN /\ deleted \in BOOLEAN
      /\ Numbered(tasks, maxIdx) /\ maxIdx <= MaxAdds /\ Len(tasks) \in Nat
  BY Facts DEF EInv, LoopTypes
<1>2. UNCHANGED <<window, listed, deleted, executed, mixed>>
  BY DEF Edit
<1>3. InPlaceNext /\ KeepsList /\ GivesBack
  <2>1. CASE KeepsTasks
    BY <1>1, <2>1, KeptTasksGiveBack DEF KeepsTasks, InPlaceNext
  <2>2. ASSUME NEW n \in DOMAIN tabs, SelectTab(n)
        PROVE  InPlaceNext /\ KeepsList /\ GivesBack
    BY <1>1, <2>2, SelectTabGivesBack DEF InPlaceNext
  <2> QED
    BY <2>1, <2>2 DEF Edit, KeepsTasks
<1>4. InStep'
  BY <1>1, <1>3, StaysInStep
<1>5. ListStep
  BY <1>1, <1>3, <1>4 DEF ListStep, KeepsList, Numbered
<1>6. thread' = thread \/ \E k : thread' = Rewrites(k)
  BY DEF Edit
<1>7. /\ thread' \in Threads
      /\ thread'.pc = thread.pc /\ thread'.cursor = thread.cursor
      /\ thread'.uid = thread.uid /\ thread'.code = thread.code
      /\ thread'.modified = thread.modified
  BY <1>1, <1>6, RewritesProperties
<1>8. Len(tasks) <= Len(tasks')
  BY <1>1, <1>3 DEF KeepsList
<1>9. LoopSees
  BY <1>1, <1>2, <1>3, <1>7, <1>8 DEF LoopSees
<1> QED
  BY <1>5, <1>9

LEMMA ChangeListStep ==
    ASSUME EInv, ChangeList
    PROVE  ListStep /\ LoopSees
<1>1. /\ InStep /\ thread \in Threads /\ window \in BOOLEAN /\ deleted \in BOOLEAN
      /\ Numbered(tasks, maxIdx) /\ maxIdx <= MaxAdds /\ Len(tasks) \in Nat
  BY Facts DEF EInv, LoopTypes
<1>2. UNCHANGED <<window, listed, executed, mixed>>
  BY DEF ChangeList
<1>3. /\ \E t \in {thread, Rewrites(Left)} : thread' = [t EXCEPT !.modified = @ \/ InLoop]
      /\ \/ FinishAdd /\ deleted' = deleted
         \/ (\E j \in 1 .. Len(tabs) + 1 : DropTab(j)) /\ deleted' = deleted
         \/ DeleteTask /\ deleted' = (deleted \/ InLoop)
  BY DEF ChangeList
<1>4. /\ thread' \in Threads
      /\ thread'.pc = thread.pc /\ thread'.cursor = thread.cursor
      /\ thread'.uid = thread.uid /\ thread'.code = thread.code
      /\ InLoop => thread'.modified
  <2>1. PICK t \in {thread, Rewrites(Left)} : thread' = [t EXCEPT !.modified = @ \/ InLoop]
    BY <1>3
  <2>2. /\ t \in Threads
        /\ t.pc = thread.pc /\ t.cursor = thread.cursor
        /\ t.uid = thread.uid /\ t.code = thread.code
    BY <1>1, RewritesProperties
  <2> QED
    BY <2>1, <2>2, ModifiedProperties
<1>5. InPlaceNext
  BY <1>3 DEF InPlaceNext
<1>6. InStep'
  BY <1>1, <1>5, StaysInStep
<1>7. CASE FinishAdd /\ deleted' = deleted
  <2>1. /\ Numbered(tasks', maxIdx') /\ GivesBack /\ maxIdx' <= MaxAdds
        /\ Len(tasks') = Len(tasks) + 1
    BY <1>1, <1>7, FinishAddNumbers
  <2> QED
    BY <1>1, <1>2, <1>4, <1>6, <1>7, <2>1 DEF ListStep, LoopSees
<1>8. ASSUME NEW j \in 1 .. Len(tabs) + 1, DropTab(j), deleted' = deleted
      PROVE  ListStep /\ LoopSees
  <2>1. /\ Numbered(tasks', maxIdx') /\ GivesBack /\ maxIdx' = maxIdx
        /\ Len(tasks') = Len(tasks)
    BY <1>1, <1>8, DropTabNumbers
  <2> QED
    BY <1>1, <1>2, <1>4, <1>6, <1>8, <2>1 DEF ListStep, LoopSees
<1>9. CASE DeleteTask /\ deleted' = (deleted \/ InLoop)
  <2>1. Numbered(tasks', maxIdx') /\ GivesBack /\ maxIdx' = maxIdx
    BY <1>1, <1>9, DeleteTaskNumbers
  <2>2. /\ deleted' \in BOOLEAN /\ (InLoop => deleted')
        /\ ~InLoop => deleted' = deleted
    BY <1>1, <1>9 DEF InLoop
  <2> QED
    BY <1>1, <1>2, <1>4, <1>6, <2>1, <2>2 DEF ListStep, LoopSees
<1> QED
  BY <1>3, <1>7, <1>8, <1>9

\* Hiding displays the task at Exam.idx, which is the one on display.
LEMMA HideStep ==
    ASSUME EInv, Hide
    PROVE  ListStep /\ LoopSees
<1>1. /\ InStep /\ thread \in Threads /\ deleted \in BOOLEAN
      /\ Numbered(tasks, maxIdx) /\ maxIdx <= MaxAdds /\ Len(tasks) \in Nat
      /\ tasks \in Seq(Task) /\ DOMAIN tasks = 1 .. Len(tasks)
      /\ ed \in Editor /\ dlg \in Dialog
  BY Facts DEF EInv, LoopTypes
<1>2. /\ UpdateWindow(tasks, idx, idx) /\ window' = FALSE
      /\ UNCHANGED <<tasks, names, maxIdx, tabs, sel, status, dlg, thread, listed,
                     deleted, executed, mixed>>
  BY DEF Hide, pane
<1>3. idx' = idx /\ shown' = shown
  BY <1>1, <1>2, Current DEF UpdateWindow, win
<1>4. \/ ed' = ed
      \/ /\ idx \in 1 .. Len(tasks)
         /\ ed' = [code |-> tasks[idx].code, body |-> tasks[idx].body,
                   out |-> tasks[idx].out]
  BY <1>1, <1>2 DEF UpdateWindow, win
<1>5. ed' \in Editor
  <2>1. \A i \in 1 .. Len(tasks) : tasks[i] \in Task
    BY <1>1, ElementOfSeq
  <2> QED
    BY <1>1, <1>4, <2>1 DEF Task, Editor
<1>6. ContentChange(Outs)
  <2>1. EdBut(Outs)'
    BY <1>5 DEF EdBut, Editor
  <2> QED
    BY <1>1, <1>2, <1>3, <1>5, <2>1 DEF ContentChange
<1>7. InStep'
  BY <1>1, <1>6, ContentStep, AnyOutput
<1>8. GivesBack
  <2>1. Len(tasks) # 0 => ed'.out \in OutsOf(shown)
    <3>1. CASE ed' = ed
      BY <3>1 DEF OutsOf
    <3>2. CASE /\ idx \in 1 .. Len(tasks)
               /\ ed' = [code |-> tasks[idx].code, body |-> tasks[idx].body,
                         out |-> tasks[idx].out]
      <4>1. shown = tasks[idx].uid
        BY <1>1, <3>2, Current
      <4> QED
        BY <3>2, <4>1 DEF OutsOf
    <3> QED
      BY <1>4, <3>1, <3>2
  <2> QED
    BY <1>2, <1>3, <2>1 DEF GivesBack, OutsOf
<1>9. ListStep
  BY <1>1, <1>2, <1>7, <1>8 DEF ListStep
<1>10. LoopSees
  <2>1. tasks' = tasks /\ maxIdx' = maxIdx
    BY <1>2
  <2>2. KeepsList /\ Len(tasks) <= Len(tasks')
    BY <1>1, <2>1 DEF KeepsList
  <2>3. /\ thread' = thread /\ deleted' = deleted
        /\ UNCHANGED <<listed, executed, mixed>>
    BY <1>2
  <2>4. window' \in BOOLEAN
    BY <1>2
  <2> QED
    BY <1>1, <2>2, <2>3, <2>4 DEF LoopSees
<1> QED
  BY <1>9, <1>10

-----------------------------------------------------------------------------
(* Steps of the compile thread.                                            *)

\* While the window stands still.
LEMMA WindowStands ==
    ASSUME EInv, UNCHANGED vars, HadGrows, mixed \subseteq mixed'
    PROVE  /\ InStep' /\ Numbered(tasks, maxIdx)' /\ maxIdx' <= MaxAdds
           /\ had' \in [1 .. MaxAdds -> SUBSET Codes]
           /\ \A u \in 1 .. MaxAdds : had[u] \subseteq had'[u]
           /\ CodesKnown' /\ ResultsKnown'
           /\ tasks' = tasks
<1>1. tasks' = tasks /\ maxIdx' = maxIdx /\ ed' = ed /\ shown' = shown
  BY DEF vars, exam, win
<1>2. InStep'
  BY StaysInStep DEF EInv
<1>3. Numbered(tasks', maxIdx') /\ maxIdx' <= MaxAdds
  BY <1>1 DEF EInv
<1>4. /\ had' \in [1 .. MaxAdds -> SUBSET Codes]
      /\ \A u \in 1 .. MaxAdds : had[u] \subseteq had'[u]
      /\ CodesKnown'
      /\ \A i \in 1 .. Len(tasks) : tasks[i].uid \in 1 .. MaxAdds
      /\ Len(tasks) # 0 => shown \in 1 .. MaxAdds
  BY <1>1, <1>2, <1>3, CodesRecorded
<1>5. ResultsKnown'
  BY <1>1, <1>4 DEF EInv, ResultsKnown, Own
<1> QED
  BY <1>1, <1>2, <1>3, <1>4, <1>5

\* A thread that holds nothing.
LEMMA ThreadProperties ==
    ASSUME NEW p \in ThreadPcs
    PROVE  /\ Thread(p) \in Threads
           /\ Thread(p).pc = p /\ Thread(p).cursor = 0 /\ Thread(p).modified = FALSE
BY TabsAssumption DEF Thread, Threads

LEMMA BeginStep ==
    ASSUME EInv, Begin, HadGrows
    PROVE  EInv'
<1>1. /\ thread.pc = "none" /\ thread' = Thread("next") /\ window' = TRUE
      /\ listed' = UidsOf(tasks)
      /\ UNCHANGED <<vars, deleted, executed, mixed>>
  BY DEF Begin
<1>2. /\ InStep' /\ Numbered(tasks, maxIdx)' /\ maxIdx' <= MaxAdds
      /\ had' \in [1 .. MaxAdds -> SUBSET Codes]
      /\ CodesKnown' /\ ResultsKnown' /\ tasks' = tasks
  BY <1>1, WindowStands
<1>3. /\ tasks \in Seq(Task) /\ DOMAIN tasks = 1 .. Len(tasks) /\ Len(tasks) \in Nat
  BY Facts DEF EInv
<1>4. /\ listed' \in Seq(Nat) /\ Len(listed') = Len(tasks)
      /\ \A i \in 1 .. Len(tasks) : listed'[i] = tasks[i].uid
  <2>1. ASSUME NEW i \in 1 .. Len(tasks)
        PROVE  tasks[i].uid \in Nat
    <3>1. tasks[i] \in Task
      BY <1>3, ElementOfSeq
    <3> QED
      BY <3>1 DEF Task
  <2>2. listed' = [i \in 1 .. Len(tasks) |-> tasks[i].uid]
    BY <1>1, <1>3 DEF UidsOf
  <2>3. listed' \in [1 .. Len(tasks) -> Nat]
    BY <2>1, <2>2
  <2> QED
    BY <1>3, <2>2, <2>3, FunctionIsSequence
<1>5. /\ thread' \in Threads /\ thread'.pc = "next" /\ thread'.cursor = 0
      /\ ~thread'.modified
  BY <1>1, ThreadProperties DEF ThreadPcs
<1>6. Len(executed) = 0 /\ executed' = executed /\ deleted' = deleted
  BY <1>1 DEF EInv, CursorInStep
<1>7. LoopTypes'
  <2>1. window' \in BOOLEAN /\ deleted' \in BOOLEAN /\ executed' \in Seq(Nat)
        /\ mixed' \subseteq 1 .. MaxAdds
    BY <1>1 DEF EInv, LoopTypes
  <2> QED
    BY <1>2, <1>4, <1>5, <2>1 DEF LoopTypes
<1>8. InListedOrder'
  <2>1. \A i, j \in 1 .. Len(tasks) : i # j => tasks[i].uid # tasks[j].uid
    BY DEF EInv, Numbered
  <2>2. Len(executed') = 0 /\ Len(listed') = Len(tasks)
    BY <1>4, <1>6
  <2>3. \A i, j \in 1 .. Len(listed') : i # j => listed'[i] # listed'[j]
    BY <1>4, <2>1
  <2>4. /\ Len(executed') <= Len(listed')
        /\ \A i \in 1 .. Len(executed') : executed'[i] = listed'[i]
    BY <1>3, <2>2
  <2> QED
    BY <2>3, <2>4 DEF InListedOrder
<1>9. CursorInStep'
  BY <1>2, <1>3, <1>4, <1>5, <1>6 DEF CursorInStep, InLoop
<1>10. Held'
  BY <1>5 DEF Held
<1> QED
  BY <1>2, <1>7, <1>8, <1>9, <1>10 DEF EInv

LEMMA FetchStep ==
    ASSUME EInv, Fetch, HadGrows
    PROVE  EInv'
<1>1. /\ thread.pc = "next"
      /\ UNCHANGED <<vars, window, listed, deleted, mixed>>
  BY DEF Fetch
<1>2. /\ InStep' /\ Numbered(tasks, maxIdx)' /\ maxIdx' <= MaxAdds
      /\ had' \in [1 .. MaxAdds -> SUBSET Codes]
      /\ \A u \in 1 .. MaxAdds : had[u] \subseteq had'[u]
      /\ CodesKnown' /\ ResultsKnown' /\ tasks' = tasks
  BY <1>1, WindowStands
<1>3. /\ tasks \in Seq(Task) /\ DOMAIN tasks = 1 .. Len(tasks) /\ Len(tasks) \in Nat
      /\ thread \in Threads /\ listed \in Seq(Nat) /\ executed \in Seq(Nat)
      /\ Len(listed) \in Nat /\ Len(executed) \in Nat
  BY Facts, LenProperties DEF EInv, LoopTypes
<1>4. /\ thread.cursor = Len(executed)
      /\ ~thread.modified => /\ Len(tasks) = Len(listed)
                             /\ \A i \in 1 .. Len(listed) : tasks[i].uid = listed[i]
      /\ ~deleted => Len(listed) <= Len(tasks)
      /\ Len(executed) <= Len(listed)
  BY <1>1 DEF EInv, CursorInStep, InLoop, InListedOrder
<1>5. window' \in BOOLEAN /\ deleted' \in BOOLEAN /\ listed' \in Seq(Nat)
      /\ mixed' \subseteq 1 .. MaxAdds
  BY <1>1 DEF EInv, LoopTypes
<1>6. ASSUME thread' \in {Thread("returned"), Thread("dead")}, executed' = executed,
             thread'.pc = "returned" => thread.cursor = Len(tasks)
      PROVE  EInv'
  <2>1. thread' \in Threads /\ thread'.pc \in {"returned", "dead"}
    BY <1>6, ThreadProperties DEF ThreadPcs
  <2>2. LoopTypes'
    BY <1>2, <1>3, <1>5, <1>6, <2>1 DEF LoopTypes
  <2>3. InListedOrder'
    BY <1>1, <1>6 DEF EInv, InListedOrder
  <2>4. thread'.pc = "returned" /\ ~deleted' => Len(executed') = Len(listed')
    BY <1>1, <1>3, <1>4, <1>6
  <2>5. CursorInStep'
    BY <2>1, <2>4 DEF CursorInStep, InLoop
  <2>6. Held'
    BY <2>1 DEF Held
  <2> QED
    BY <1>2, <2>2, <2>3, <2>5, <2>6 DEF EInv
<1>7. CASE thread.cursor = Len(tasks) /\ thread' = Thread("returned") /\ executed' = executed
  BY <1>6, <1>7
<1>8. CASE thread' = Thread("dead") /\ executed' = executed
  <2>1. thread'.pc = "dead"
    BY <1>8 DEF Thread
  <2> QED
    BY <1>6, <1>8, <2>1
<1>9. ASSUME thread.cursor # Len(tasks), ~thread.modified,
             LET t == tasks[thread.cursor + 1]
             IN  /\ thread' = [thread EXCEPT !.pc = "read", !.cursor = @ + 1,
                                             !.uid = t.uid, !.code = t.code]
                 /\ executed' = Append(executed, t.uid)
      PROVE  EInv'
  <2> DEFINE k == thread.cursor + 1
             t == tasks[k]
  <2>1. k \in 1 .. Len(tasks) /\ k = Len(executed) + 1 /\ k \in 1 .. Len(listed) /\ k \in Nat
    BY <1>3, <1>4, <1>9
  <2>2. t \in Task /\ t.uid = listed[k]
    BY <1>3, <1>4, <1>9, <2>1, ElementOfSeq
  <2>3. thread' = [thread EXCEPT !.pc = "read", !.cursor = k, !.uid = t.uid, !.code = t.code]
        /\ executed' = Append(executed, t.uid)
    BY <1>9
  <2>4. t.uid \in 1 .. MaxAdds /\ t.code \in had[t.uid]
    <3>1. tasks[k].uid \in 1 .. maxIdx /\ maxIdx <= MaxAdds /\ tasks[k].code \in had[tasks[k].uid]
      BY <2>1 DEF EInv, Numbered, CodesKnown
    <3>2. maxIdx \in Nat /\ MaxAdds \in Nat
      BY Facts, TabsAssumption DEF EInv
    <3> QED
      BY <3>1, <3>2
  <2> HIDE DEF k, t
  <2>5. t.uid \in Nat /\ t.code \in Codes
    BY <2>2 DEF Task
  <2>6. /\ thread' \in Threads /\ thread'.pc = "read" /\ thread'.cursor = k
        /\ thread'.modified = thread.modified /\ thread'.uid = t.uid /\ thread'.code = t.code
    BY <1>3, <2>1, <2>3, <2>5 DEF Threads, ThreadPcs
  <2>7. /\ executed' \in Seq(Nat) /\ Len(executed') = k
        /\ \A i \in 1 .. k : executed'[i] = IF i = k THEN t.uid ELSE executed[i]
    BY <1>3, <2>1, <2>3, <2>5, AppendProperties
  <2>8. LoopTypes'
    BY <1>2, <1>5, <2>6, <2>7 DEF LoopTypes
  <2>9. InListedOrder'
    <3>1. \A i \in 1 .. k : i = k \/ i \in 1 .. Len(executed)
      BY <1>3, <2>1
    <3>2. /\ \A i \in 1 .. Len(executed) : executed[i] = listed[i]
          /\ \A i, j \in 1 .. Len(listed) : i # j => listed[i] # listed[j]
      BY DEF EInv, InListedOrder
    <3>3. \A i \in 1 .. Len(executed') : executed'[i] = listed'[i]
      BY <1>1, <2>2, <2>7, <3>1, <3>2
    <3>4. Len(executed') <= Len(listed')
      BY <1>1, <1>3, <2>1, <2>7
    <3> QED
      BY <1>1, <3>2, <3>3, <3>4 DEF InListedOrder
  <2>10. CursorInStep'
    BY <1>1, <1>2, <1>4, <1>9, <2>6, <2>7 DEF CursorInStep, InLoop
  <2>11. Held'
    BY <1>2, <2>4, <2>6 DEF Held
  <2> QED
    BY <1>2, <2>8, <2>9, <2>10, <2>11 DEF EInv
<1> QED
  BY <1>7, <1>8, <1>9 DEF Fetch, CanFetch

LEMMA ReadStep ==
    ASSUME EInv, Read, HadGrows
    PROVE  EInv'
<1>1. /\ thread.pc = "read"
      /\ UNCHANGED <<vars, window, listed, deleted, executed>>
  BY Zenon DEF Read
<1>2. /\ thread \in Threads /\ thread.uid \in 1 .. MaxAdds
      /\ thread.uid \notin mixed => thread.code \in had[thread.uid]
      /\ mixed \subseteq 1 .. MaxAdds
  BY <1>1 DEF EInv, LoopTypes, Held
<1>3. /\ mixed \subseteq mixed' /\ mixed' \subseteq 1 .. MaxAdds
  <2>1. mixed' = mixed \/ mixed' = mixed \cup {thread.uid}
    BY Zenon DEF Read
  <2> QED
    BY <1>2, <2>1
<1>4. /\ InStep' /\ Numbered(tasks, maxIdx)' /\ maxIdx' <= MaxAdds
      /\ had' \in [1 .. MaxAdds -> SUBSET Codes]
      /\ \A u \in 1 .. MaxAdds : had[u] \subseteq had'[u]
      /\ CodesKnown' /\ ResultsKnown' /\ tasks' = tasks
  BY <1>1, <1>3, WindowStands
<1>5. \/ /\ thread' = [thread EXCEPT !.pc = "store"]
         /\ mixed' = mixed
      \/ /\ \E c \in Codes : thread' = [thread EXCEPT !.pc = "store", !.code = c, !.torn = FALSE]
         /\ mixed' = mixed \cup {thread.uid}
      \/ thread' = Thread("dead")
  BY Zenon DEF Read
<1>6. /\ thread' \in Threads
      /\ \/ thread'.pc = "dead"
         \/ /\ thread'.pc = "store" /\ thread'.uid = thread.uid
            /\ thread'.cursor = thread.cursor /\ thread'.modified = thread.modified
            /\ thread'.uid \notin mixed' => thread'.code \in had[thread.uid]
  <2>1. CASE thread' = [thread EXCEPT !.pc = "store"] /\ mixed' = mixed
    <3>1. /\ thread' \in Threads
          /\ thread'.pc = "store" /\ thread'.uid = thread.uid /\ thread'.code = thread.code
          /\ thread'.cursor = thread.cursor /\ thread'.modified = thread.modified
      BY <1>2, <2>1 DEF Threads, ThreadPcs
    <3> QED
      BY <1>2, <2>1, <3>1
  <2>2. ASSUME NEW c \in Codes,
               thread' = [thread EXCEPT !.pc = "store", !.code = c, !.torn = FALSE],
               mixed' = mixed \cup {thread.uid}
        PROVE  /\ thread' \in Threads
               /\ thread'.pc = "store" /\ thread'.uid = thread.uid
               /\ thread'.cursor = thread.cursor /\ thread'.modified = thread.modified
               /\ thread'.uid \notin mixed' => thread'.code \in had[thread.uid]
    <3>1. /\ thread' \in Threads
          /\ thread'.pc = "store" /\ thread'.uid = thread.uid
          /\ thread'.cursor = thread.cursor /\ thread'.modified = thread.modified
      BY <1>2, <2>2 DEF Threads, ThreadPcs
    <3> QED
      BY <2>2, <3>1
  <2>3. CASE thread' = Thread("dead")
    BY <2>3, ThreadProperties DEF ThreadPcs
  <2> QED
    BY <1>5, <2>1, <2>2, <2>3, Zenon
<1>7. \/ thread'.pc = "dead"
      \/ /\ thread'.pc = "store" /\ thread'.uid = thread.uid
         /\ thread'.cursor = thread.cursor /\ thread'.modified = thread.modified
         /\ thread'.uid \notin mixed' => thread'.code \in had[thread.uid]
  BY <1>6
<1>8. LoopTypes'
  BY <1>1, <1>3, <1>4, <1>6 DEF EInv, LoopTypes
<1>9. InListedOrder'
  BY <1>1 DEF EInv, InListedOrder
<1>10. CursorInStep'
  BY <1>1, <1>4, <1>7 DEF EInv, CursorInStep, InLoop
<1>11. Held'
  BY <1>2, <1>4, <1>7 DEF Held
<1> QED
  BY <1>4, <1>8, <1>9, <1>10, <1>11 DEF EInv

LEMMA StoreStep ==
    ASSUME EInv, Store, HadGrows
    PROVE  EInv'
<1>1. /\ thread.pc = "store"
      /\ tasks' = [i \in DOMAIN tasks |->
                      IF Receives(i) THEN WithResult(tasks[i]) ELSE tasks[i]]
      /\ thread' = Thread("dead")
            \/ thread' = [thread EXCEPT !.pc = "next", !.uid = 0, !.code = NoCode]
      /\ UNCHANGED <<names, maxIdx, idx, tabs, sel, status, ed, shown, dlg>>
      /\ UNCHANGED <<window, listed, deleted, executed, mixed>>
  BY Zenon DEF Store, pane, win
<1>2. /\ InStep /\ tasks \in Seq(Task) /\ DOMAIN tasks = 1 .. Len(tasks) /\ Len(tasks) \in Nat
      /\ tasks = <<>> <=> Len(tasks) = 0
      /\ thread \in Threads /\ thread.uid \in 1 .. MaxAdds
      /\ thread.uid \notin mixed => thread.code \in had[thread.uid]
  BY <1>1, Facts DEF EInv, LoopTypes, Held
<1>3. thread.code \in Codes
  BY <1>2 DEF Threads
<1>4. ASSUME NEW i \in 1 .. Len(tasks)
      PROVE  /\ tasks'[i] \in Task
             /\ tasks'[i].uid = tasks[i].uid /\ tasks'[i].code = tasks[i].code
             /\ \/ tasks'[i].out = tasks[i].out
                \/ tasks[i].uid = thread.uid /\ tasks'[i].out = thread.code
  <2>1. tasks[i] \in Task
    BY <1>2, ElementOfSeq
  <2>2. CASE ~Receives(i)
    BY <1>1, <1>2, <2>1, <2>2
  <2>3. CASE Receives(i)
    <3>1. tasks'[i] = [tasks[i] EXCEPT !.out = thread.code]
      BY <1>1, <1>2, <2>3 DEF WithResult
    <3> QED
      BY <1>3, <2>1, <2>3, <3>1 DEF Task, Outs, Receives
  <2> QED
    BY <2>2, <2>3
<1>5. /\ tasks' \in Seq(Task) /\ Len(tasks') = Len(tasks)
      /\ DOMAIN tasks' = 1 .. Len(tasks)
      /\ tasks' = <<>> <=> tasks = <<>>
  <2>1. tasks' \in [1 .. Len(tasks) -> Task]
    BY <1>1, <1>2, <1>4
  <2>2. tasks' \in Seq(Task) /\ Len(tasks') = Len(tasks)
    BY <1>2, <2>1, FunctionIsSequence
  <2> QED
    BY <1>2, <2>1, <2>2, EmptySeq
<1>6. InStep'
  <2>1. TypeOK'
    BY <1>1, <1>2, <1>5 DEF InStep, TypeOK
  <2>2. IdxIsSelected' /\ ListenerArmed' /\ MenuOnSelectedOnly'
    BY <1>1, <1>2, <1>5 DEF InStep, IdxIsSelected, ListenerArmed, MenuOnSelectedOnly
  <2>3. TabsMatchTasks'
    BY <1>1, <1>2, <1>4, <1>5 DEF InStep, TabsMatchTasks
  <2>4. EditorShowsCurrent'
    BY <1>1, <1>2, <1>4, <1>5 DEF InStep, EditorShowsCurrent
  <2> QED
    BY <2>1, <2>2, <2>3, <2>4 DEF InStep
<1>7. Numbered(tasks', maxIdx') /\ maxIdx' <= MaxAdds
  BY <1>1, <1>4, <1>5 DEF EInv, Numbered
<1>8. /\ had' \in [1 .. MaxAdds -> SUBSET Codes]
      /\ \A u \in 1 .. MaxAdds : had[u] \subseteq had'[u]
      /\ CodesKnown'
      /\ \A i \in 1 .. Len(tasks') : tasks'[i].uid \in 1 .. MaxAdds
      /\ Len(tasks') # 0 => shown' \in 1 .. MaxAdds
  BY <1>6, <1>7, CodesRecorded
<1>9. /\ thread' \in Threads
      /\ \/ thread'.pc = "dead"
         \/ /\ thread'.pc = "next" /\ thread'.cursor = thread.cursor
            /\ thread'.modified = thread.modified
  <2>1. CASE thread' = Thread("dead")
    BY <2>1, ThreadProperties DEF ThreadPcs
  <2>2. CASE thread' = [thread EXCEPT !.pc = "next", !.uid = 0, !.code = NoCode]
    BY <1>2, <2>2, TabsAssumption DEF Threads, ThreadPcs
  <2> QED
    BY <1>1, <2>1, <2>2
<1>10. LoopTypes'
  BY <1>1, <1>8, <1>9 DEF EInv, LoopTypes
<1>11. InListedOrder'
  BY <1>1 DEF EInv, InListedOrder
<1>12. CursorInStep'
  <2>1. /\ thread.cursor = Len(executed)
        /\ ~thread.modified => /\ Len(tasks) = Len(listed)
                               /\ \A i \in 1 .. Len(listed) : tasks[i].uid = listed[i]
        /\ ~deleted => Len(listed) <= Len(tasks)
    BY <1>1 DEF EInv, CursorInStep, InLoop
  <2>2. ASSUME thread'.pc = "next"
        PROVE  /\ thread'.cursor = Len(executed')
               /\ ~thread'.modified =>
                     /\ Len(tasks') = Len(listed')
                     /\ \A i \in 1 .. Len(listed') : tasks'[i].uid = listed'[i]
               /\ ~deleted' => Len(listed') <= Len(tasks')
    BY <1>1, <1>4, <1>5, <1>9, <2>1, <2>2
  <2> QED
    BY <1>9, <2>2 DEF CursorInStep, InLoop
<1>13. Held'
  BY <1>9 DEF Held
<1>14. ResultsKnown'
  <2>1. /\ \A i \in 1 .. Len(tasks) : Own(tasks[i].out, tasks[i].uid)
        /\ Len(tasks) # 0 => Own(ed.out, shown)
    BY DEF EInv, ResultsKnown
  <2>2. ASSUME NEW i \in 1 .. Len(tasks')
        PROVE  tasks'[i].uid \notin mixed' => tasks'[i].out \in {NoOut} \cup had'[tasks'[i].uid]
    <3>1. Own(tasks[i].out, tasks[i].uid)
      BY <1>5, <2>1
    <3>2. /\ tasks'[i].uid = tasks[i].uid
          /\ \/ tasks'[i].out = tasks[i].out
             \/ tasks[i].uid = thread.uid /\ tasks'[i].out = thread.code
      BY <1>4, <1>5
    <3> QED
      BY <1>1, <1>2, <1>8, <3>1, <3>2 DEF Own
  <2>3. Len(tasks') # 0 /\ shown' \notin mixed' => ed'.out \in {NoOut} \cup had'[shown']
    BY <1>1, <1>5, <1>8, <2>1 DEF Own
  <2> QED
    BY <2>2, <2>3 DEF ResultsKnown, Own
<1> QED
  BY <1>6, <1>7, <1>8, <1>10, <1>11, <1>12, <1>13, <1>14 DEF EInv

LEMMA NextEInv ==
    ASSUME EInv, [EditNext]_cvars
    PROVE  EInv'
<1>1. CASE Begin /\ HadGrows
  BY <1>1, BeginStep
<1>2. CASE Fetch /\ HadGrows
  BY <1>2, FetchStep
<1>3. CASE Read /\ HadGrows
  BY <1>3, ReadStep
<1>4. CASE Store /\ HadGrows
  BY <1>4, StoreStep
<1>5. CASE (Hide \/ ChangeList \/ Edit) /\ HadGrows
  BY <1>5, HideStep, ChangeListStep, EditStep, WindowStep
<1>6. CASE UNCHANGED cvars
  <2>1. /\ UNCHANGED <<tasks, maxIdx, ed, shown>> /\ UNCHANGED <<window, listed, deleted, executed>>
        /\ UNCHANGED <<thread, mixed, had>> /\ UNCHANGED vars
    BY <1>6 DEF cvars, loop, vars, exam, win
  <2>2. InStep'
    BY <2>1, StaysInStep DEF EInv
  <2>3. LoopTypes' /\ InListedOrder' /\ Held'
    BY <2>1 DEF EInv, LoopTypes, InListedOrder, Held
  <2>4. CursorInStep'
    BY <2>1 DEF EInv, CursorInStep, InLoop
  <2>5. CodesKnown' /\ ResultsKnown'
    BY <2>1 DEF EInv, CodesKnown, ResultsKnown, Own
  <2>6. Numbered(tasks', maxIdx') /\ maxIdx' <= MaxAdds
    BY <2>1 DEF EInv
  <2> QED
    BY <2>2, <2>3, <2>4, <2>5, <2>6 DEF EInv
<1> QED
  BY <1>1, <1>2, <1>3, <1>4, <1>5, <1>6, Zenon DEF EditNext, HadGrows

-----------------------------------------------------------------------------
(* The texts of the exam: the pages without their outputs.                 *)

\* A page, and a sequence of pages, without the outputs.
Blank(p) == [p EXCEPT !.out = NoOut]

Blanked(s) == [i \in DOMAIN s |-> Blank(s[i])]

Texts == Blanked(Pages)

LEMMA BlankProperties ==
    ASSUME NEW p \in Contents
    PROVE  /\ Blank(p) \in Contents
           /\ Blank(p).uid = p.uid /\ Blank(p).name = p.name
           /\ Blank(p).code = p.code /\ Blank(p).body = p.body /\ Blank(p).out = NoOut
BY DEF Blank, Contents, Outs

\* Pages that differ in their outputs only have the same text.
LEMMA SameText ==
    ASSUME NEW p \in Contents, NEW q \in Contents,
           p.uid = q.uid, p.name = q.name, p.code = q.code, p.body = q.body
    PROVE  Blank(p) = Blank(q)
<1> DEFINE a == Blank(p)
           b == Blank(q)
<1>1. /\ a \in Contents /\ b \in Contents
      /\ a.uid = b.uid /\ a.name = b.name /\ a.code = b.code /\ a.body = b.body
      /\ a.out = b.out
  BY BlankProperties
<1> HIDE DEF a, b
<1>2. a = b
  BY <1>1 DEF Contents
<1> QED
  BY <1>2 DEF a, b

LEMMA BlankedProperties ==
    ASSUME NEW s \in Seq(Contents)
    PROVE  /\ Blanked(s) \in Seq(Contents)
           /\ Len(Blanked(s)) = Len(s)
           /\ DOMAIN Blanked(s) = 1 .. Len(s)
           /\ \A i \in 1 .. Len(s) : Blanked(s)[i] = Blank(s[i])
<1>1. Len(s) \in Nat /\ DOMAIN s = 1 .. Len(s)
  BY LenProperties
<1>2. \A i \in 1 .. Len(s) : Blank(s[i]) \in Contents
  BY ElementOfSeq, BlankProperties
<1>3. Blanked(s) = [i \in 1 .. Len(s) |-> Blank(s[i])]
  BY <1>1 DEF Blanked
<1>4. Blanked(s) \in [1 .. Len(s) -> Contents]
  BY <1>2, <1>3
<1>5. Blanked(s) \in Seq(Contents) /\ Len(Blanked(s)) = Len(s)
  BY <1>1, <1>4, FunctionIsSequence
<1> QED
  BY <1>3, <1>5

\* What shows that r is s without the outputs.
LEMMA EqualTexts ==
    ASSUME NEW s \in Seq(Contents), NEW r \in Seq(Contents), Len(r) = Len(s),
           \A i \in 1 .. Len(s) : r[i] = Blank(s[i])
    PROVE  Blanked(s) = r
<1>1. /\ Blanked(s) \in Seq(Contents) /\ Len(Blanked(s)) = Len(r)
      /\ \A i \in 1 .. Len(r) : Blanked(s)[i] = r[i]
  BY BlankedProperties
<1> QED
  BY <1>1, SeqEqual

(* Taking the outputs off the pages commutes with what is done to pages.   *)

LEMMA BlankedWrite ==
    ASSUME NEW s \in Seq(Contents), NEW i \in 1 .. Len(s), NEW p \in Contents
    PROVE  Blanked([s EXCEPT ![i] = p]) = [Blanked(s) EXCEPT ![i] = Blank(p)]
<1> DEFINE u == [s EXCEPT ![i] = p]
           r == [Blanked(s) EXCEPT ![i] = Blank(p)]
<1>1. /\ Blanked(s) \in Seq(Contents) /\ Len(Blanked(s)) = Len(s)
      /\ \A k \in 1 .. Len(s) : Blanked(s)[k] = Blank(s[k])
      /\ Blank(p) \in Contents
  BY BlankedProperties, BlankProperties
<1>2. /\ u \in Seq(Contents) /\ Len(u) = Len(s)
      /\ \A k \in 1 .. Len(s) : u[k] = IF k = i THEN p ELSE s[k]
  BY ExceptSeq
<1>3. /\ r \in Seq(Contents) /\ Len(r) = Len(s)
      /\ \A k \in 1 .. Len(s) : r[k] = IF k = i THEN Blank(p) ELSE Blanked(s)[k]
  BY <1>1, ExceptSeq
<1> HIDE DEF u, r
<1>4. Blanked(u) = r
  BY <1>1, <1>2, <1>3, EqualTexts
<1> QED
  BY <1>4 DEF u, r

LEMMA BlankedAppend ==
    ASSUME NEW s \in Seq(Contents), NEW p \in Contents
    PROVE  Blanked(Append(s, p)) = Append(Blanked(s), Blank(p))
<1> DEFINE u == Append(s, p)
           r == Append(Blanked(s), Blank(p))
<1>0. Len(s) \in Nat
  BY LenProperties
<1>1. /\ Blanked(s) \in Seq(Contents) /\ Len(Blanked(s)) = Len(s)
      /\ \A k \in 1 .. Len(s) : Blanked(s)[k] = Blank(s[k])
      /\ Blank(p) \in Contents
  BY BlankedProperties, BlankProperties
<1>2. /\ u \in Seq(Contents) /\ Len(u) = Len(s) + 1
      /\ u[Len(s) + 1] = p
      /\ \A k \in 1 .. Len(s) : u[k] = s[k]
  BY AppendProperties
<1>3. /\ r \in Seq(Contents) /\ Len(r) = Len(s) + 1
      /\ r[Len(s) + 1] = Blank(p)
      /\ \A k \in 1 .. Len(s) : r[k] = Blanked(s)[k]
  BY <1>1, AppendProperties
<1> HIDE DEF u, r
<1>4. \A k \in 1 .. Len(u) : k = Len(s) + 1 \/ k \in 1 .. Len(s)
  BY <1>0, <1>2
<1>5. Blanked(u) = r
  BY <1>1, <1>2, <1>3, <1>4, EqualTexts
<1> QED
  BY <1>5 DEF u, r

LEMMA BlankedRemove ==
    ASSUME NEW s \in Seq(Contents), NEW i \in 1 .. Len(s)
    PROVE  Blanked(RemoveAt(s, i)) = RemoveAt(Blanked(s), i)
<1> DEFINE u == RemoveAt(s, i)
           r == RemoveAt(Blanked(s), i)
<1>1. /\ Blanked(s) \in Seq(Contents) /\ Len(Blanked(s)) = Len(s) /\ Len(s) \in Nat
      /\ \A k \in 1 .. Len(s) : Blanked(s)[k] = Blank(s[k])
  BY BlankedProperties, LenProperties
<1>2. IsRemoval(Contents, u, s, i) /\ IsRemoval(Contents, r, Blanked(s), i)
  BY <1>1, RemoveAtProperties
<1> HIDE DEF u, r
<1>3. \A k \in 1 .. Len(u) : r[k] = Blank(u[k])
  <2> TAKE k \in 1 .. Len(u)
  <2>1. k \in 1 .. Len(s) - 1 /\ k \in 1 .. Len(s) /\ k + 1 \in 1 .. Len(s)
    BY <1>1, <1>2 DEF IsRemoval
  <2> QED
    BY <2>1, <1>1, <1>2 DEF IsRemoval
<1>4. Blanked(u) = r
  BY <1>1, <1>2, <1>3, EqualTexts DEF IsRemoval
<1> QED
  BY <1>4 DEF u, r

LEMMA BlankedMove ==
    ASSUME NEW s \in Seq(Contents), NEW p \in 1 .. Len(s), NEW q \in 1 .. Len(s)
    PROVE  Blanked(Moved(s, p, q)) = Moved(Blanked(s), p, q)
<1> DEFINE u == Moved(s, p, q)
           r == Moved(Blanked(s), p, q)
<1>1. /\ Blanked(s) \in Seq(Contents) /\ Len(Blanked(s)) = Len(s)
      /\ \A k \in 1 .. Len(s) : Blanked(s)[k] = Blank(s[k])
  BY BlankedProperties
<1>2. IsMove(Contents, u, s, p, q) /\ IsMove(Contents, r, Blanked(s), p, q)
  BY <1>1, MovedProperties
<1> HIDE DEF u, r
<1>3. \A k \in 1 .. Len(u) : r[k] = Blank(u[k])
  BY <1>1, <1>2 DEF IsMove
<1>4. Blanked(u) = r
  BY <1>1, <1>2, <1>3, EqualTexts DEF IsMove
<1> QED
  BY <1>4 DEF u, r

\* The pages of NBT are the texts.
LEMMA NotebookTexts ==
    /\ [i \in DOMAIN tasks |-> [PageOf(i) EXCEPT !.out = NoOut]] = Texts
    /\ [i \in DOMAIN tasks |-> [PageOf(i) EXCEPT !.out = NoOut]]' = Texts'
<1>1. DOMAIN Pages = DOMAIN tasks /\ \A i \in DOMAIN tasks : Pages[i] = PageOf(i)
  BY Zenon DEF Pages, PagesOf, PageOf
<1>2. DOMAIN Pages' = DOMAIN tasks' /\ \A i \in DOMAIN tasks' : Pages'[i] = PageOf(i)'
  BY Zenon DEF Pages, PagesOf, PageOf
<1> QED
  BY <1>1, <1>2, Zenon DEF Texts, Blanked, Blank

\* What makes a step of NBT, said of the texts.
LEMMA TextSteps ==
    /\ Texts = <<>> /\ sel = 0 /\ maxIdx = 0 => NBT!NotebookInit
    /\ Texts' = Texts /\ sel' = sel /\ maxIdx' = maxIdx => UNCHANGED NBT!nbVars
    /\ \A c \in Codes, b \in Bodies :
          /\ sel # 0 /\ sel' = sel /\ maxIdx' = maxIdx
          /\ Texts' = [Texts EXCEPT ![sel] = [@ EXCEPT !.code = c, !.body = b, !.out = NoOut]]
          => NBT!Write
    /\ sel' \in DOMAIN Texts /\ Texts' = Texts /\ maxIdx' = maxIdx => NBT!Turn
    /\ \A c \in Codes, b \in Bodies :
          /\ sel' = Len(Texts) + 1 /\ maxIdx' = maxIdx + 1
          /\ Texts' = Append(Texts, [uid |-> maxIdx + 1, name |-> maxIdx + 1,
                                     code |-> c, body |-> b, out |-> NoOut])
          => NBT!AddPage
    /\ /\ sel # 0 /\ Texts' = RemoveAt(Texts, sel) /\ maxIdx' = maxIdx
       /\ sel' \in IF Len(Texts) = 1 THEN {0} ELSE 1 .. Len(Texts) - 1
       => NBT!RemovePage
    /\ /\ sel # 0 /\ sel' \in DOMAIN Texts
       /\ Texts' = Moved(Texts, sel, sel') /\ maxIdx' = maxIdx
       => NBT!MovePage
<1>1. Texts = <<>> /\ sel = 0 /\ maxIdx = 0 => NBT!NotebookInit
  BY NotebookTexts, Zenon DEF NBT!NotebookInit
<1>2. Texts' = Texts /\ sel' = sel /\ maxIdx' = maxIdx => UNCHANGED NBT!nbVars
  BY NotebookTexts, Zenon DEF NBT!nbVars
<1>3. ASSUME sel # 0, sel' = sel, maxIdx' = maxIdx,
             NEW c \in Codes, NEW b \in Bodies,
             Texts' = [Texts EXCEPT ![sel] = [@ EXCEPT !.code = c, !.body = b, !.out = NoOut]]
      PROVE  NBT!Write
  <2>1. NoOut \in NBT!Fresh(c)
    BY DEF NBT!Fresh
  <2> DEFINE P == [i \in DOMAIN tasks |-> [PageOf(i) EXCEPT !.out = NoOut]]
             Q == [i \in DOMAIN tasks |-> [PageOf(i) EXCEPT !.out = NoOut]]'
             W(d, e, o) == Q = [P EXCEPT ![sel] = [@ EXCEPT !.code = d, !.body = e, !.out = o]]
  <2>2. NBT!Write <=> /\ sel # 0
                      /\ \E d \in Codes, e \in Bodies : \E o \in NBT!Fresh(d) : W(d, e, o)
                      /\ UNCHANGED <<sel, maxIdx>>
    BY Zenon DEF NBT!Write
  <2>3. P = Texts /\ Q = Texts'
    BY NotebookTexts
  <2> HIDE DEF P, Q
  <2>4. W(c, b, NoOut)
    BY <1>3, <2>3
  <2> HIDE DEF W
  <2> QED
    BY <1>3, <2>1, <2>2, <2>4
<1>4. sel' \in DOMAIN Texts /\ Texts' = Texts /\ maxIdx' = maxIdx => NBT!Turn
  BY NotebookTexts, Zenon DEF NBT!Turn
<1>5. ASSUME sel' = Len(Texts) + 1, maxIdx' = maxIdx + 1,
             NEW c \in Codes, NEW b \in Bodies,
             Texts' = Append(Texts, [uid |-> maxIdx + 1, name |-> maxIdx + 1,
                                     code |-> c, body |-> b, out |-> NoOut])
      PROVE  NBT!AddPage
  BY <1>5, NotebookTexts, Zenon DEF NBT!AddPage
<1>6. ASSUME sel # 0, Texts' = RemoveAt(Texts, sel), maxIdx' = maxIdx,
             sel' \in IF Len(Texts) = 1 THEN {0} ELSE 1 .. Len(Texts) - 1
      PROVE  NBT!RemovePage
  BY <1>6, NotebookTexts, Zenon DEF NBT!RemovePage, NBT!RemoveAt, RemoveAt
<1>7. ASSUME sel # 0, sel' \in DOMAIN Texts, Texts' = Moved(Texts, sel, sel'), maxIdx' = maxIdx
      PROVE  NBT!MovePage
  BY <1>7, NotebookTexts, Zenon
  DEF NBT!MovePage, NBT!RemoveAt, RemoveAt, NBT!InsertAt, InsertAt, Moved
<1> QED
  BY <1>1, <1>2, <1>3, <1>4, <1>5, <1>6, <1>7, Zenon

\* The texts before and after a step.
LEMMA TextsOfPages ==
    ASSUME InStep, InStep'
    PROVE  /\ Pages \in Seq(Contents) /\ Pages' \in Seq(Contents)
           /\ Len(Pages) = Len(tasks) /\ Len(Texts) = Len(Pages)
           /\ Len(tasks) \in Nat
           /\ DOMAIN Texts = 1 .. Len(Pages) /\ DOMAIN Pages = 1 .. Len(Pages)
           /\ Texts \in Seq(Contents)
           /\ Pages' = Pages => Texts' = Texts
<1>1. Pages \in Seq(Contents) /\ Len(Pages) = Len(tasks) /\ DOMAIN Pages = 1 .. Len(Pages)
  BY StepPages, LenProperties
<1>2. Pages' \in Seq(Contents)
  BY PagesShown DEF Pages, AreShown, InStep, TypeOK, TabsMatchTasks
<1>3. Len(tasks) \in Nat
  BY Facts
<1> QED
  BY <1>1, <1>2, <1>3, BlankedProperties, Zenon DEF Texts

LEMMA ContentStepTexts ==
    ASSUME InStep, InStep', NEW G, ContentChange(G)
    PROVE  NBT!Write \/ UNCHANGED NBT!nbVars
<1>1. sel' = sel /\ maxIdx' = maxIdx
  BY DEF ContentChange
<1>2. CASE Len(tasks) = 0
  BY <1>1, <1>2, ContentPages, TextsOfPages, TextSteps
<1>3. CASE Len(tasks) # 0
  <2> DEFINE c == ed'.code
             b == ed'.body
             o == ed'.out
             p == Written(Pages[sel], c, b, o)
             q == Written(Texts[sel], c, b, NoOut)
  <2>1. c \in Codes /\ b \in Bodies /\ o \in Outs /\ NoOut \in Outs
    BY DEF ContentChange, Editor, Outs
  <2>2. /\ sel \in 1 .. Len(Pages) /\ sel # 0
        /\ Pages \in Seq(Contents) /\ Pages[sel] \in Contents
        /\ Texts[sel] = Blank(Pages[sel])
        /\ Pages' = [Pages EXCEPT ![sel] = p]
    BY <1>3, ContentPages, TextsOfPages, BlankedProperties DEF Texts
  <2>3. /\ p \in Contents /\ p.uid = Pages[sel].uid /\ p.name = Pages[sel].name
        /\ p.code = c /\ p.body = b
    BY <2>1, <2>2, WrittenProperties
  <2>4. /\ Blank(Pages[sel]) \in Contents
        /\ Blank(Pages[sel]).uid = Pages[sel].uid /\ Blank(Pages[sel]).name = Pages[sel].name
    BY <2>2, BlankProperties
  <2>5. /\ q \in Contents /\ q.uid = Pages[sel].uid /\ q.name = Pages[sel].name
        /\ q.code = c /\ q.body = b /\ q.out = NoOut
    BY <2>1, <2>2, <2>4, WrittenProperties
  <2> HIDE DEF p, q
  <2>6. Blank(p) = Blank(q)
    BY <2>3, <2>5, SameText
  <2>7. Blank(q) = q
    BY <2>5 DEF Blank, Contents
  <2>8. Texts' = [Texts EXCEPT ![sel] = q]
    <3>1. Blanked([Pages EXCEPT ![sel] = p]) = [Blanked(Pages) EXCEPT ![sel] = Blank(p)]
      BY <2>2, <2>3, BlankedWrite
    <3>2. Blank(p) = q
      BY <2>6, <2>7
    <3> QED
      BY <2>2, <3>1, <3>2, Zenon DEF Texts
  <2>9. Texts' = [Texts EXCEPT ![sel] = [@ EXCEPT !.code = c, !.body = b, !.out = NoOut]]
    BY <2>8 DEF q, Written
  <2> HIDE DEF c, b
  <2> QED
    BY <1>1, <2>1, <2>2, <2>9, TextSteps
<1> QED
  BY <1>2, <1>3

LEMMA FinishAddTexts ==
    ASSUME InStep, InStep', FinishAdd
    PROVE  NBT!AddPage
<1>1. PICK c \in Codes, b \in Bodies :
         Pages' = Append(Pages, [uid |-> maxIdx + 1, name |-> maxIdx + 1,
                                 code |-> c, body |-> b, out |-> NoOut])
  BY FinishAddPages
<1>2. sel' = Len(Texts) + 1 /\ maxIdx' = maxIdx + 1
  BY FinishAddPages, TextsOfPages
<1> DEFINE p == [uid |-> maxIdx + 1, name |-> maxIdx + 1,
                 code |-> c, body |-> b, out |-> NoOut]
<1>3. p \in Contents /\ p.out = NoOut
  BY Facts DEF Contents, Names, Outs
<1> HIDE DEF p
<1>4. Blank(p) = p
  BY <1>3 DEF Blank, Contents
<1>5. Texts' = Append(Texts, p)
  <2>1. Pages' = Append(Pages, p) /\ Texts' = Blanked(Pages')
    BY <1>1 DEF p, Texts
  <2> QED
    BY <1>3, <1>4, <2>1, TextsOfPages, BlankedAppend DEF Texts
<1> QED
  BY <1>2, <1>5, TextSteps DEF p

LEMMA DeleteTaskTexts ==
    ASSUME InStep, InStep', DeleteTask
    PROVE  NBT!RemovePage
<1>1. /\ sel \in 1 .. Len(Pages)
      /\ Pages' = RemoveAt(Pages, sel)
      /\ sel' \in IF Len(Pages) = 1 THEN {0} ELSE 1 .. Len(Pages) - 1
      /\ maxIdx' = maxIdx
  BY DeleteTaskPages
<1>2. Texts' = RemoveAt(Texts, sel)
  <2>1. Texts' = Blanked(RemoveAt(Pages, sel))
    BY <1>1 DEF Texts
  <2> QED
    BY <1>1, <2>1, TextsOfPages, BlankedRemove DEF Texts
<1>3. Len(Texts) = Len(Pages) /\ sel # 0
  BY <1>1, TextsOfPages
<1> QED
  BY <1>1, <1>2, <1>3, TextSteps

LEMMA DropTabTexts ==
    ASSUME InStep, InStep', NEW j \in 1 .. Len(tabs) + 1, DropTab(j)
    PROVE  NBT!MovePage
<1>1. /\ sel \in 1 .. Len(Pages) /\ sel' \in 1 .. Len(Pages)
      /\ Pages' = Moved(Pages, sel, sel')
      /\ maxIdx' = maxIdx
  BY DropTabPages
<1>2. Texts' = Moved(Texts, sel, sel')
  <2>1. Texts' = Blanked(Moved(Pages, sel, sel'))
    BY <1>1 DEF Texts
  <2> QED
    BY <1>1, <2>1, TextsOfPages, BlankedMove DEF Texts
<1>3. sel' \in DOMAIN Texts /\ sel # 0
  BY <1>1, TextsOfPages
<1> QED
  BY <1>1, <1>2, <1>3, TextSteps

\* The result that the compile thread stores is no text.
LEMMA StoreTexts ==
    ASSUME InStep, InStep', Store
    PROVE  UNCHANGED NBT!nbVars
<1>1. /\ tasks' = [i \in DOMAIN tasks |->
                      IF Receives(i) THEN WithResult(tasks[i]) ELSE tasks[i]]
      /\ UNCHANGED <<names, maxIdx, sel, ed>>
  BY Zenon DEF Store, pane, win
<1>2. /\ tasks \in Seq(Task) /\ DOMAIN tasks = 1 .. Len(tasks)
      /\ tasks' \in Seq(Task) /\ DOMAIN tasks' = 1 .. Len(tasks')
      /\ Len(tasks) \in Nat /\ Len(tasks') \in Nat
  BY LenProperties DEF InStep, TypeOK
<1>3. Len(tasks') = Len(tasks)
  BY <1>1, <1>2
<1>4. \A i \in 1 .. Len(tasks) : /\ tasks'[i].uid = tasks[i].uid
                                 /\ tasks'[i].code = tasks[i].code
                                 /\ tasks'[i].body = tasks[i].body
  <2> TAKE i \in 1 .. Len(tasks)
  <2>1. tasks'[i] \in {WithResult(tasks[i]), tasks[i]} /\ tasks[i] \in Task
    BY <1>1, <1>2, ElementOfSeq
  <2> QED
    BY <2>1 DEF WithResult, Task
<1>5. AreShown(Pages, tasks, names, sel, ed)
  BY StepPages
<1>6. AreShown(Pages', tasks', names', sel', ed')
  <2>1. AreShown(PagesOf(tasks', names', sel', ed'), tasks', names', sel', ed')
    BY PagesShown DEF InStep, TypeOK, TabsMatchTasks
  <2> QED
    BY <2>1 DEF Pages
<1>7. \A i \in 1 .. Len(Pages) : Blank(Pages'[i]) = Blank(Pages[i])
  <2> TAKE i \in 1 .. Len(Pages)
  <2>1. i \in 1 .. Len(tasks) /\ i \in 1 .. Len(tasks') /\ i \in 1 .. Len(Pages')
    BY <1>3, <1>5, <1>6 DEF AreShown
  <2>2. Pages[i] \in Contents /\ Pages'[i] \in Contents
    BY <1>5, <1>6, <2>1, ElementOfSeq DEF AreShown
  <2>3. /\ Pages'[i].uid = Pages[i].uid /\ Pages'[i].name = Pages[i].name
        /\ Pages'[i].code = Pages[i].code /\ Pages'[i].body = Pages[i].body
    <3>1. CASE i = sel
      <4>1. /\ Sees(Pages, i, tasks[i], names[i], ed)
            /\ Sees(Pages', i, tasks'[i], names'[i], ed)
        BY <3>1, <1>1, <1>5, <1>6, <2>1 DEF AreShown
      <4> QED
        BY <4>1, <1>1, <1>4, <2>1 DEF Sees
    <3>2. CASE i # sel
      <4>1. /\ Sees(Pages, i, tasks[i], names[i], tasks[i])
            /\ Sees(Pages', i, tasks'[i], names'[i], tasks'[i])
        BY <3>2, <1>1, <1>5, <1>6, <2>1 DEF AreShown
      <4> QED
        BY <4>1, <1>1, <1>4, <2>1 DEF Sees
    <3> QED
      BY <3>1, <3>2
  <2> QED
    BY <2>2, <2>3, SameText
<1>8. Texts' = Texts
  <2>1. /\ Texts \in Seq(Contents) /\ Len(Texts) = Len(Pages)
        /\ \A i \in 1 .. Len(Pages) : Texts[i] = Blank(Pages[i])
    BY <1>5, BlankedProperties DEF AreShown, Texts
  <2>2. Pages' \in Seq(Contents) /\ Len(Pages') = Len(Pages)
    BY <1>3, <1>5, <1>6 DEF AreShown
  <2>3. Blanked(Pages') = Texts
    BY <1>7, <2>1, <2>2, EqualTexts
  <2> QED
    BY <2>3 DEF Texts
<1> QED
  BY <1>1, <1>8, TextSteps

LEMMA InitTexts == EditInit => NBT!NotebookInit
<1> SUFFICES ASSUME EditInit PROVE NBT!NotebookInit
  OBVIOUS
<1>1. Init
  BY DEF EditInit
<1>2. InStep /\ Len(tasks) = 0 /\ sel = 0 /\ maxIdx = 0
  BY <1>1, InitIInv DEF IInv, Init
<1>3. Pages \in Seq(Contents) /\ Len(Pages) = 0
  <2>1. /\ tasks \in Seq(Task) /\ names \in Seq(Names) /\ Len(names) = Len(tasks)
        /\ ed \in Editor
    BY <1>2, Facts
  <2> QED
    BY <1>2, <2>1, PagesShown DEF Pages, AreShown
<1>4. Texts = <<>>
  BY <1>3, BlankedProperties, EmptySeq DEF Texts
<1> QED
  BY <1>2, <1>4, TextSteps

\* Hiding the window aside, every step is one of the notebook or none.
TextStep ==
    \/ NBT!NotebookNext
    \/ UNCHANGED NBT!nbVars
    \/ /\ window /\ ~window'
       /\ \A i \in DOMAIN tasks \ {sel} : tasks'[i] = tasks[i] /\ names'[i] = names[i]

LEMMA NextTexts == EInv /\ EInv' /\ [EditNext]_cvars => TextStep
<1> SUFFICES ASSUME EInv, EInv', [EditNext]_cvars PROVE TextStep
  OBVIOUS
<1>0. InStep /\ InStep' /\ TypeOK /\ EdBut(Outs)
  BY AnyOutput DEF EInv, InStep, InvBut, FreshBut, EdBut
<1>1. CASE UNCHANGED vars
  <2>1. UNCHANGED NBT!nbVars
    BY <1>1, Zenon DEF NBT!nbVars, PageOf, vars, exam, pane, win
  <2> QED
    BY <2>1 DEF TextStep
<1>2. CASE Begin \/ Fetch \/ Read
  BY <1>1, <1>2, Zenon DEF Begin, Fetch, Read
<1>3. CASE Store
  BY <1>0, <1>3, StoreTexts DEF TextStep
<1>4. CASE Hide
  BY <1>4 DEF Hide, TextStep
<1>5. CASE FinishAdd
  BY <1>0, <1>5, FinishAddTexts DEF TextStep, NBT!NotebookNext
<1>6. CASE DeleteTask
  BY <1>0, <1>6, DeleteTaskTexts DEF TextStep, NBT!NotebookNext
<1>7. ASSUME NEW j \in 1 .. Len(tabs) + 1, DropTab(j) PROVE TextStep
  BY <1>0, <1>7, DropTabTexts DEF TextStep, NBT!NotebookNext
<1>8. ASSUME NEW n \in DOMAIN tabs, SelectTab(n) PROVE TextStep
  <2>1. NBT!Turn
    BY <1>0, <1>8, SelectTabPages, TextsOfPages, TextSteps
  <2> QED
    BY <2>1 DEF TextStep, NBT!NotebookNext
<1>9. CASE KeepsTasks
  <2>1. ContentChange(Outs)
    BY <1>0, <1>9, DialogContent, TypingContent, ExecuteContent, SaveCurrentContent,
       OpenEditContent, FinishEditContent DEF KeepsTasks
  <2> QED
    BY <1>0, <2>1, ContentStepTexts DEF TextStep, NBT!NotebookNext
<1>10. CASE ChangeList
  BY <1>5, <1>6, <1>7, <1>10 DEF ChangeList
<1>11. CASE Edit
  BY <1>8, <1>9, <1>11 DEF Edit, KeepsTasks
<1>12. CASE UNCHANGED cvars
  BY <1>1, <1>12 DEF cvars
<1> QED
  BY <1>2, <1>3, <1>4, <1>10, <1>11, <1>12, Zenon DEF EditNext

-----------------------------------------------------------------------------
(* The theorems.                                                           *)

\* The inductive invariant holds in every reachable state: the window stays in
\* step while the compile thread stores results (Task.setResult) behind its
\* back, and the thread's position says how much of the list it has executed.
THEOREM EditInvariant == EditSpec => []EInv
<1>1. EditInit => EInv
  BY InitEInv
<1>2. EInv /\ [EditNext]_cvars => EInv'
  BY NextEInv
<1> QED
  BY <1>1, <1>2, PTL DEF EditSpec

\* Every variable of the window and of the compile thread has its type.
THEOREM EditTypes == EditSpec => []EditTypeOK
<1>1. EInv => EditTypeOK
  BY DEF EInv, InStep, LoopTypes, Threads, EditTypeOK
<1> QED
  BY <1>1, EditInvariant, PTL

\* The loop of Exam.compile executes no task twice, however the list is
\* changed under its iterator, for every number of tasks.
THEOREM ExecutedOncePerTask == EditSpec => []OncePerTask
<1>1. ASSUME EInv PROVE OncePerTask
  <2>1. executed \in Seq(Nat) /\ listed \in Seq(Nat)
    BY <1>1 DEF EInv, LoopTypes
  <2>2. /\ DOMAIN executed = 1 .. Len(executed) /\ Len(executed) \in Nat
        /\ Len(listed) \in Nat
    BY <2>1, LenProperties
  <2>3. /\ Len(executed) <= Len(listed)
        /\ \A i \in 1 .. Len(executed) : executed[i] = listed[i]
        /\ \A i, j \in 1 .. Len(listed) : i # j => listed[i] # listed[j]
    BY <1>1 DEF EInv, InListedOrder
  <2>4. \A i \in 1 .. Len(executed) : i \in 1 .. Len(listed)
    BY <2>2, <2>3
  <2> QED
    BY <2>2, <2>3, <2>4 DEF OncePerTask, IsInjective
<1> QED
  BY <1>1, EditInvariant, PTL

\* When compile() returns it has executed every task that was in the list when
\* it began, unless a task was deleted meanwhile.
THEOREM AllExecutedUnlessDeleted == EditSpec => []AllUnlessDeleted
<1>1. ASSUME EInv PROVE AllUnlessDeleted
  <2>1. executed \in Seq(Nat) /\ listed \in Seq(Nat)
    BY <1>1 DEF EInv, LoopTypes
  <2>2. DOMAIN executed = 1 .. Len(executed) /\ DOMAIN listed = 1 .. Len(listed)
    BY <2>1, LenProperties
  <2>3. \A i \in 1 .. Len(executed) : executed[i] = listed[i]
    BY <1>1 DEF EInv, InListedOrder
  <2>4. ASSUME thread.pc = "returned", ~deleted
        PROVE  Range(listed) \subseteq Range(executed)
    <3>1. Len(executed) = Len(listed)
      BY <1>1, <2>4 DEF EInv, CursorInStep
    <3> QED
      BY <2>2, <2>3, <3>1 DEF Range
  <2> QED
    BY <2>4 DEF AllUnlessDeleted
<1> QED
  BY <1>1, EditInvariant, PTL

\* No task has, and the window never shows, the output of another task's
\* program, although the thread holds a task while the user moves and edits
\* it.
THEOREM ResultsAlwaysOwn == EditSpec => []OwnResults
<1>1. ASSUME EInv PROVE OwnResults
  <2>1. /\ DOMAIN tasks = 1 .. Len(tasks)
        /\ tasks = <<>> <=> Len(tasks) = 0
    BY <1>1, Facts DEF EInv
  <2>2. /\ \A i \in 1 .. Len(tasks) : Own(tasks[i].out, tasks[i].uid)
        /\ Len(tasks) # 0 => Own(ed.out, shown)
    BY <1>1 DEF EInv, ResultsKnown
  <2> QED
    BY <2>1, <2>2 DEF OwnResults, Own
<1> QED
  BY <1>1, EditInvariant, PTL

(* The compile thread takes nothing from what the user writes meanwhile, and *)
(* gives nothing back: without their outputs the pages behave as those of   *)
(* the notebook while Exam.compile runs.  Only hiding the compilation        *)
(* window, which redisplays the current task without saving the editor,     *)
(* loses text, and it leaves every other task alone.                        *)
THEOREM TextSurvives == EditSpec => TextSurvivesCompiling
<1>1. EInv /\ EInv' /\ [EditNext]_cvars =>
         [ \/ NBT!NotebookNext
           \/ UNCHANGED NBT!nbVars
           \/ /\ window /\ ~window'
              /\ \A i \in DOMAIN tasks \ {sel} :
                    /\ tasks'[i] = tasks[i]
                    /\ names'[i] = names[i] ]_cvars
  BY NextTexts, Zenon DEF TextStep
<1> QED
  BY <1>1, InitTexts, EditInvariant, PTL DEF EditSpec, TextSurvivesCompiling

=============================================================================
