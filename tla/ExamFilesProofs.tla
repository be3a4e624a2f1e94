-------------------------- MODULE ExamFilesProofs --------------------------
(***************************************************************************)
(* Proofs about ExamFiles, for every value of its constants: what holds in *)
(* every session, the context menu moves, loaded exams and restarts        *)
(* included.                                                               *)
(***************************************************************************)
EXTENDS ExamFiles, NotebookProofs

-----------------------------------------------------------------------------
(* Types, and one tab and one name per task.  No handler needs the ids of   *)
(* the tabs or Exam.idx to be right for these.                             *)

Typed ==
    /\ TypeOK
    /\ PaneMatchesExam
    /\ sel = 0 <=> tabs = <<>>

LEMMA TypedFacts ==
    ASSUME Typed
    PROVE  /\ Len(tasks) \in Nat /\ Len(tabs) = Len(tasks) /\ Len(names) = Len(tasks)
           /\ DOMAIN tasks = 1 .. Len(tasks)
           /\ DOMAIN tabs = 1 .. Len(tasks)
           /\ DOMAIN names = 1 .. Len(tasks)
           /\ tasks \in Seq(Task) /\ tabs \in Seq(Tab) /\ names \in Seq(Names)
           /\ ed \in Editor /\ dlg \in Dialog /\ maxIdx \in Nat /\ shown \in Nat
           /\ status \in Statuses /\ idx \in Nat \ {0}
           /\ tasks = <<>> <=> Len(tasks) = 0
           /\ sel \in 0 .. Len(tasks)
           /\ sel = 0 <=> Len(tasks) = 0
<1>1. /\ Len(tasks) \in Nat /\ DOMAIN tasks = 1 .. Len(tasks)
      /\ Len(tabs) \in Nat /\ DOMAIN tabs = 1 .. Len(tabs)
      /\ Len(names) \in Nat /\ DOMAIN names = 1 .. Len(names)
      /\ tasks = <<>> <=> Len(tasks) = 0
      /\ tabs = <<>> <=> Len(tabs) = 0
  BY LenProperties, EmptySeq DEF Typed, TypeOK
<1> QED
  BY <1>1 DEF Typed, TypeOK, PaneMatchesExam

\* What a step has to establish.
LEMMA Retyped ==
    ASSUME tasks' \in Seq(Task), tabs' \in Seq(Tab), names' \in Seq(Names),
           Len(tabs') = Len(tasks'), Len(names') = Len(tasks'),
           sel' \in 0 .. Len(tasks'), sel' = 0 <=> Len(tasks') = 0,
           idx' \in Nat \ {0}, maxIdx' \in Nat, status' \in Statuses,
           ed' \in Editor, shown' \in Nat, dlg' \in Dialog
    PROVE  Typed'
<1>1. tabs' = <<>> <=> Len(tabs') = 0
  BY EmptySeq
<1> QED
  BY <1>1 DEF Typed, TypeOK, PaneMatchesExam

\* updateWindow displays some task or leaves the window alone.
LEMMA UpdateWindowTyped ==
    ASSUME Typed
    PROVE  \A ts \in Seq(Task) : \A k : \A i \in Nat \ {0} :
              UpdateWindow(ts, k, i) =>
                 idx' \in Nat \ {0} /\ ed' \in Editor /\ shown' \in Nat
<1> TAKE ts \in Seq(Task)
<1> TAKE k
<1> TAKE i \in Nat \ {0}
<1> HAVE UpdateWindow(ts, k, i)
<1>1. DOMAIN ts = 1 .. Len(ts) /\ Len(ts) \in Nat
  BY LenProperties
<1>2. CASE k \in DOMAIN ts
  <2>1. ts[k] \in Task /\ k \in Nat \ {0}
    BY <1>1, <1>2, ElementOfSeq
  <2>2. /\ idx' = k
        /\ ed' = [code |-> ts[k].code, body |-> ts[k].body, out |-> ts[k].out]
        /\ shown' = ts[k].uid
    BY <1>2 DEF UpdateWindow
  <2> QED
    BY <2>1, <2>2 DEF Task, Editor
<1>3. CASE k \notin DOMAIN ts
  BY <1>3, TypedFacts DEF UpdateWindow, win
<1> QED
  BY <1>2, <1>3

\* The selection listener, whatever the ids of the tabs are.
LEMMA SwitchTyped ==
    ASSUME Typed, NEW ts \in Seq(Task), NEW tb \in Seq(Tab), NEW o, NEW n,
           NEW i \in Nat \ {0},
           SwitchEvent(ts, tb, o, n, i)
    PROVE  /\ status' \in Statuses
           /\ tasks' \in Seq(Task) /\ Len(tasks') = Len(ts)
           /\ tabs' \in Seq(Tab) /\ Len(tabs') = Len(tb)
           /\ idx' \in Nat \ {0} /\ ed' \in Editor /\ shown' \in Nat
<1>1. ed \in Editor /\ shown \in Nat
  BY TypedFacts
<1>2. status' = "SWITCH"
  BY DEF SwitchEvent
<1>3. CASE /\ tasks' = ts
           /\ tabs' = tb
           /\ idx' = i
           /\ UNCHANGED win
  BY <1>1, <1>2, <1>3 DEF Statuses, win
<1>4. CASE /\ \/ tasks' = ts
              \/ tb[o].id \in DOMAIN ts /\ tasks' = SaveTaskInfo(ts, tb[o].id)
           /\ tabs' = MenuOn(tb, o, n)
           /\ UpdateWindow(tasks', tb[n].id, i)
  <2>1. tasks' \in Seq(Task) /\ Len(tasks') = Len(ts)
    <3>1. ASSUME tb[o].id \in DOMAIN ts, tasks' = SaveTaskInfo(ts, tb[o].id)
          PROVE  tasks' \in Seq(Task) /\ Len(tasks') = Len(ts)
      <4>1. \E t : IsUpdate(tasks', ts, tb[o].id, t)
        BY <1>1, <3>1, SaveTaskInfoProperties
      <4> QED
        BY <4>1 DEF IsUpdate
    <3> QED
      BY <1>4, <3>1
  <2>2. tabs' \in Seq(Tab) /\ Len(tabs') = Len(tb)
    BY <1>4, MenuOnProperties DEF IsMenuSwitch
  <2> QED
    BY <1>2, <1>4, <2>1, <2>2, UpdateWindowTyped DEF Statuses
<1> QED
  BY <1>3, <1>4 DEF SwitchEvent

LEMMA DeleteTyped ==
    ASSUME Typed, NEW ts \in Seq(Task), NEW tb \in Seq(Tab), NEW oldId, NEW n,
           DeleteEvent(ts, tb, oldId, n)
    PROVE  /\ status' \in Statuses
           /\ tasks' \in Seq(Task) /\ Len(tasks') = Len(ts)
           /\ tabs' \in Seq(Tab) /\ Len(tabs') = Len(tb)
           /\ idx' \in Nat \ {0} /\ ed' \in Editor /\ shown' \in Nat
<1>1. ed \in Editor /\ shown \in Nat /\ idx \in Nat \ {0}
  BY TypedFacts
<1>2. status' \in Statuses /\ tasks' = ts
  BY DEF DeleteEvent, Statuses
<1>3. tabs' = Renumbered(tb) \/ tabs' = tb
  BY DEF DeleteEvent
<1>4. tabs' \in Seq(Tab) /\ Len(tabs') = Len(tb)
  BY <1>3, RenumberedProperties DEF IsRenumbering
<1>5. (\E k : UpdateWindow(ts, k, idx)) \/ UNCHANGED <<idx, win>>
  BY DEF DeleteEvent
<1>6. idx' \in Nat \ {0} /\ ed' \in Editor /\ shown' \in Nat
  BY <1>1, <1>5, UpdateWindowTyped DEF win
<1> QED
  BY <1>2, <1>4, <1>6

LEMMA ContentTyped ==
    ASSUME Typed, ContentChange(Outs)
    PROVE  Typed'
BY TypedFacts, Retyped DEF ContentChange, Statuses

LEMMA SelectTabTyped ==
    ASSUME Typed, NEW n \in DOMAIN tabs, SelectTab(n)
    PROVE  Typed'
<1>1. /\ tasks \in Seq(Task) /\ tabs \in Seq(Tab) /\ names \in Seq(Names)
      /\ Len(tabs) = Len(tasks) /\ Len(names) = Len(tasks) /\ Len(tasks) \in Nat
      /\ n \in 1 .. Len(tasks) /\ idx \in Nat \ {0} /\ dlg \in Dialog /\ maxIdx \in Nat
      /\ status \in Statuses /\ ed \in Editor /\ shown \in Nat
  BY TypedFacts
<1>2. sel' = n /\ UNCHANGED <<names, maxIdx, dlg>>
  BY DEF SelectTab
<1>3. /\ status' \in Statuses
      /\ tasks' \in Seq(Task) /\ Len(tasks') = Len(tasks)
      /\ tabs' \in Seq(Tab) /\ Len(tabs') = Len(tabs)
      /\ idx' \in Nat \ {0} /\ ed' \in Editor /\ shown' \in Nat
  <2>1. CASE SwitchEvent(tasks, tabs, sel, n, idx)
    BY <1>1, <2>1, SwitchTyped
  <2>2. CASE DeleteEvent(tasks, tabs, tabs[sel].id, n)
    BY <1>1, <2>2, DeleteTyped
  <2>3. CASE UNCHANGED <<tasks, tabs, status, idx, win>>
    BY <1>1, <2>3 DEF win
  <2> QED
    BY <2>1, <2>2, <2>3 DEF SelectTab
<1> QED
  BY <1>1, <1>2, <1>3, Retyped

LEMMA AddTaskTyped ==
    ASSUME Typed, NEW t \in Task, AddTask(t), dlg' \in Dialog
    PROVE  Typed'
<1> DEFINE n == Len(tasks) + 1
           b == [uid |-> maxIdx + 1, name |-> maxIdx + 1, id |-> n, menu |-> FALSE]
           ts == Append(tasks, t)
           tb == Append(tabs, b)
<1>1. /\ tasks \in Seq(Task) /\ tabs \in Seq(Tab) /\ names \in Seq(Names)
      /\ Len(tabs) = Len(tasks) /\ Len(names) = Len(tasks) /\ Len(tasks) \in Nat
      /\ maxIdx \in Nat
  BY TypedFacts
<1>2. b \in Tab /\ maxIdx + 1 \in Names /\ t \in Task
  BY <1>1 DEF Tab, Names
<1>3. /\ maxIdx' = maxIdx + 1
      /\ names' = Append(names, maxIdx + 1)
      /\ sel' = Len(tb)
      /\ SwitchEvent(ts, tb, sel, Len(tb), n)
  BY DEF AddTask
<1> HIDE DEF b
<1>4. /\ ts \in Seq(Task) /\ Len(ts) = n /\ tb \in Seq(Tab) /\ Len(tb) = n
      /\ names' \in Seq(Names) /\ Len(names') = n
  BY <1>1, <1>2, <1>3, AppendProperties
<1>5. n \in Nat \ {0}
  BY <1>1
<1> HIDE DEF ts, tb
<1>6. /\ status' \in Statuses
      /\ tasks' \in Seq(Task) /\ Len(tasks') = Len(ts)
      /\ tabs' \in Seq(Tab) /\ Len(tabs') = Len(tb)
      /\ idx' \in Nat \ {0} /\ ed' \in Editor /\ shown' \in Nat
  BY <1>3, <1>4, <1>5, SwitchTyped
<1> HIDE DEF n
<1>7. sel' = n /\ maxIdx' \in Nat
  BY <1>1, <1>3, <1>4
<1> QED
  BY <1>4, <1>5, <1>6, <1>7, Retyped

LEMMA FinishAddTyped ==
    ASSUME Typed, FinishAdd
    PROVE  Typed'
<1>1. PICK c \in Codes :
         AddTask([uid |-> maxIdx + 1, code |-> c, body |-> dlg.body, out |-> NoOut])
  BY DEF FinishAdd
<1>2. dlg' \in Dialog
  BY TabsAssumption DEF FinishAdd, Closed, Dialog
<1>3. dlg \in Dialog /\ maxIdx \in Nat
  BY TypedFacts
<1>4. [uid |-> maxIdx + 1, code |-> c, body |-> dlg.body, out |-> NoOut] \in Task
  BY <1>3 DEF Task, Outs, Dialog
<1> QED
  BY <1>1, <1>2, <1>4, AddTaskTyped

LEMMA DeleteTaskTyped ==
    ASSUME Typed, DeleteTask
    PROVE  Typed'
<1>1. /\ tasks \in Seq(Task) /\ tabs \in Seq(Tab) /\ names \in Seq(Names)
      /\ Len(tabs) = Len(tasks) /\ Len(names) = Len(tasks)
      /\ Len(tasks) \in Nat \ {0} /\ DOMAIN tasks = 1 .. Len(tasks)
      /\ sel \in 1 .. Len(tasks) /\ idx \in Nat \ {0}
      /\ dlg \in Dialog /\ maxIdx \in Nat /\ ed \in Editor /\ shown \in Nat
  BY TypedFacts DEF DeleteTask
<1>2. dlg' = dlg /\ maxIdx' = maxIdx
  BY DEF DeleteTask, exam
<1>3. CASE idx \notin DOMAIN tasks
  <2>1. status' = "DELETE" /\ UNCHANGED <<exam, tabs, sel, win>>
    BY <1>3 DEF DeleteTask
  <2> QED
    BY <1>1, <1>2, <2>1, Retyped DEF Statuses, exam, win
<1>4. CASE idx \in DOMAIN tasks
  <2> DEFINE ts == RemoveAt(tasks, idx)
             tb == RemoveAt(tabs, idx)
  <2>1. /\ ts \in Seq(Task) /\ Len(ts) = Len(tasks) - 1
        /\ tb \in Seq(Tab) /\ Len(tb) = Len(tasks) - 1
        /\ RemoveAt(names, idx) \in Seq(Names)
        /\ Len(RemoveAt(names, idx)) = Len(tasks) - 1
    BY <1>1, <1>4, RemoveAtProperties DEF IsRemoval
  <2>2. names' = RemoveAt(names, idx)
    BY <1>4 DEF DeleteTask
  <2>3. CASE idx = sel
    <3>1. /\ sel' = Nearest(sel, Len(tabs) - 1)
          /\ DeleteEvent(ts, tb, tabs[sel].id, sel')
      BY <1>4, <2>3 DEF DeleteTask
    <3> HIDE DEF ts, tb
    <3>2. /\ status' \in Statuses
          /\ tasks' \in Seq(Task) /\ Len(tasks') = Len(ts)
          /\ tabs' \in Seq(Tab) /\ Len(tabs') = Len(tb)
          /\ idx' \in Nat \ {0} /\ ed' \in Editor /\ shown' \in Nat
      BY <2>1, <3>1, DeleteTyped
    <3>3. sel' \in 0 .. Len(ts) /\ (sel' = 0 <=> Len(ts) = 0)
      BY <1>1, <2>1, <3>1 DEF Nearest
    <3> QED
      BY <1>1, <1>2, <2>1, <2>2, <3>2, <3>3, Retyped
  <2>4. CASE idx # sel
    <3>1. /\ sel' = (IF idx < sel THEN sel - 1 ELSE sel)
          /\ status' = "DELETE" /\ tasks' = ts /\ tabs' = tb
          /\ UNCHANGED <<idx, ed, shown>>
      BY <1>4, <2>4 DEF DeleteTask, win
    <3>2. sel' \in 1 .. Len(tasks) - 1
      BY <1>1, <1>4, <2>4, <3>1
    <3> HIDE DEF ts, tb
    <3> QED
      BY <1>1, <1>2, <2>1, <2>2, <3>1, <3>2, Retyped DEF Statuses
  <2> QED
    BY <2>3, <2>4
<1> QED
  BY <1>3, <1>4

LEMMA RenameTaskTyped ==
    ASSUME Typed, RenameTask
    PROVE  Typed'
<1>1. /\ tasks \in Seq(Task) /\ tabs \in Seq(Tab) /\ names \in Seq(Names)
      /\ Len(tabs) = Len(tasks) /\ Len(names) = Len(tasks)
      /\ DOMAIN names = 1 .. Len(tasks) /\ DOMAIN tabs = 1 .. Len(tasks)
      /\ Len(tasks) \in Nat \ {0}
      /\ sel \in 1 .. Len(tasks) /\ idx \in Nat \ {0}
      /\ dlg \in Dialog /\ maxIdx \in Nat /\ ed \in Editor /\ shown \in Nat
  BY TypedFacts DEF RenameTask
<1>2. UNCHANGED <<tasks, maxIdx, idx, ed, shown, dlg>>
  BY DEF RenameTask, win
<1>3. PICK t \in Titles :
         \/ /\ idx \in DOMAIN names
            /\ names' = [names EXCEPT ![idx] = t]
            /\ tabs' = [tabs EXCEPT ![idx] =
                           [uid |-> @.uid, name |-> t, id |-> idx, menu |-> FALSE]]
            /\ sel' = idx
            /\ status' = "SWITCH"
         \/ status' = "RENAME" /\ UNCHANGED <<names, tabs, sel>>
  BY DEF RenameTask
<1>4. CASE status' = "RENAME" /\ UNCHANGED <<names, tabs, sel>>
  BY <1>1, <1>2, <1>4, Retyped DEF Statuses
<1>5. CASE /\ idx \in DOMAIN names
           /\ names' = [names EXCEPT ![idx] = t]
           /\ tabs' = [tabs EXCEPT ![idx] =
                          [uid |-> @.uid, name |-> t, id |-> idx, menu |-> FALSE]]
           /\ sel' = idx
           /\ status' = "SWITCH"
  <2> DEFINE b == [uid |-> tabs[idx].uid, name |-> t, id |-> idx, menu |-> FALSE]
  <2>1. t \in Names /\ b \in Tab
    <3>1. tabs[idx] \in Tab
      BY <1>1, <1>5, ElementOfSeq
    <3> QED
      BY <1>1, <3>1 DEF Tab, Names
  <2>2. tabs' = [tabs EXCEPT ![idx] = b]
    BY <1>1, <1>5
  <2> HIDE DEF b
  <2>3. /\ names' \in Seq(Names) /\ Len(names') = Len(tasks)
        /\ tabs' \in Seq(Tab) /\ Len(tabs') = Len(tasks)
    <3>1. idx \in 1 .. Len(tasks) /\ names' = [names EXCEPT ![idx] = t]
      BY <1>1, <1>5
    <3>2. names' \in Seq(Names) /\ Len(names') = Len(tasks)
      BY <1>1, <2>1, <3>1, ExceptSeq
    <3>3. tabs' \in Seq(Tab) /\ Len(tabs') = Len(tasks)
      BY <1>1, <2>1, <2>2, <3>1, ExceptSeq
    <3> QED
      BY <3>2, <3>3
  <2>4. /\ sel' \in 0 .. Len(tasks') /\ (sel' = 0 <=> Len(tasks') = 0)
        /\ idx' \in Nat \ {0} /\ status' \in Statuses
    BY <1>1, <1>2, <1>5 DEF Statuses
  <2> QED
    BY <1>1, <1>2, <2>3, <2>4, Retyped
<1> QED
  BY <1>3, <1>4, <1>5

\* Both ways of moving a tab; the tab that moves need not be the selected one.
LEMMA MoveTyped ==
    ASSUME Typed, NEW p \in DOMAIN tabs, NEW q \in DOMAIN tasks, sel # 0,
           tasks' = Moved(tasks, sel, q), names' = Moved(names, sel, q),
           tabs' = Renumbered(Moved(tabs, p, q)),
           sel' = q, idx' \in Nat \ {0}, status' = "SWITCH",
           UNCHANGED <<maxIdx, ed, shown, dlg>>
    PROVE  Typed'
<1>1. /\ tasks \in Seq(Task) /\ tabs \in Seq(Tab) /\ names \in Seq(Names)
      /\ Len(tabs) = Len(tasks) /\ Len(names) = Len(tasks)
      /\ Len(tasks) \in Nat /\ sel \in 1 .. Len(tasks)
      /\ p \in 1 .. Len(tasks) /\ q \in 1 .. Len(tasks)
      /\ dlg \in Dialog /\ maxIdx \in Nat /\ ed \in Editor /\ shown \in Nat
  BY TypedFacts
<1>2. /\ tasks' \in Seq(Task) /\ Len(tasks') = Len(tasks)
      /\ names' \in Seq(Names) /\ Len(names') = Len(tasks)
      /\ Moved(tabs, p, q) \in Seq(Tab) /\ Len(Moved(tabs, p, q)) = Len(tasks)
  BY <1>1, MovedProperties DEF IsMove
<1>3. tabs' \in Seq(Tab) /\ Len(tabs') = Len(tasks)
  BY <1>2, RenumberedProperties DEF IsRenumbering
<1> QED
  BY <1>1, <1>2, <1>3, Retyped DEF Statuses

LEMMA DropTabTyped ==
    ASSUME Typed, NEW j \in 1 .. Len(tabs) + 1, DropTab(j)
    PROVE  Typed'
<1> DEFINE to == IF sel < j THEN j - 1 ELSE j
<1>1. /\ DOMAIN tabs = 1 .. Len(tasks) /\ DOMAIN tasks = 1 .. Len(tasks)
      /\ sel \in 1 .. Len(tasks) /\ Len(tasks) \in Nat /\ Len(tabs) = Len(tasks)
  BY TypedFacts DEF DropTab
<1>2. to \in 1 .. Len(tasks)
  BY <1>1
<1>3. /\ tasks' = Moved(tasks, sel, to) /\ names' = Moved(names, sel, to)
      /\ tabs' = Renumbered(Moved(tabs, sel, to))
      /\ sel' = to /\ idx' = to /\ status' = "SWITCH"
      /\ UNCHANGED <<maxIdx, ed, shown, dlg>>
  BY DEF DropTab, win
<1> HIDE DEF to
<1> QED
  BY <1>1, <1>2, <1>3, MoveTyped

LEMMA MenuMoveTyped ==
    ASSUME Typed, NEW p \in DOMAIN tabs, NEW d \in {1, -1}, MenuMove(p, d)
    PROVE  Typed'
<1> DEFINE to == sel + d
<1>1. /\ DOMAIN tabs = 1 .. Len(tasks) /\ sel # 0 /\ idx \in Nat \ {0}
  BY TypedFacts
<1>2. status' = "SWITCH" /\ UNCHANGED <<maxIdx, idx, ed, shown, dlg>>
  BY DEF MenuMove, win
<1>3. CASE to \in DOMAIN tasks
  <2>1. /\ tasks' = Moved(tasks, sel, to) /\ names' = Moved(names, sel, to)
        /\ tabs' = Renumbered(Moved(tabs, p, to)) /\ sel' = to
    BY <1>3 DEF MenuMove
  <2> HIDE DEF to
  <2> QED
    BY <1>1, <1>2, <1>3, <2>1, MoveTyped
<1>4. CASE to \notin DOMAIN tasks
  <2>1. UNCHANGED <<tasks, names, tabs, sel>>
    BY <1>4 DEF MenuMove
  <2> QED
    BY <1>2, <2>1, TypedFacts, Retyped DEF Statuses
<1> QED
  BY <1>3, <1>4

LEMMA NextTyped ==
    ASSUME Typed, [Next]_vars
    PROVE  Typed'
<1>0. TypeOK /\ EdBut(Outs)
  BY DEF Typed, TypeOK, EdBut, Editor
<1>1. CASE TypeCode \/ TypeBody
  BY <1>0, <1>1, TypingContent, ContentTyped
<1>2. CASE Execute
  BY <1>0, <1>2, ExecuteContent, ContentTyped
<1>3. CASE SaveCurrent
  BY <1>0, <1>3, SaveCurrentContent, ContentTyped
<1>4. ASSUME NEW n \in DOMAIN tabs, SelectTab(n)
      PROVE  Typed'
  BY <1>4, SelectTabTyped
<1>5. CASE DeleteTask
  BY <1>5, DeleteTaskTyped
<1>6. CASE RenameTask
  BY <1>6, RenameTaskTyped
<1>7. CASE CancelRename \/ OpenAdd \/ ChooseType \/ CancelDialog
  BY <1>0, <1>7, DialogContent, ContentTyped
<1>8. ASSUME NEW j \in 1 .. Len(tabs) + 1, DropTab(j)
      PROVE  Typed'
  BY <1>8, DropTabTyped
<1>9. CASE OpenEdit
  BY <1>0, <1>9, OpenEditContent, ContentTyped
<1>10. CASE FinishAdd
  BY <1>10, FinishAddTyped
<1>11. CASE FinishEdit
  BY <1>0, <1>11, FinishEditContent, ContentTyped
<1>12. ASSUME NEW p \in DOMAIN tabs, NEW d \in {1, -1}, MenuMove(p, d)
       PROVE  Typed'
  BY <1>12, MenuMoveTyped
<1>13. CASE UNCHANGED vars
  BY <1>13 DEF vars, exam, pane, win, Typed, TypeOK, PaneMatchesExam
<1> QED
  BY <1>1, <1>2, <1>3, <1>4, <1>5, <1>6, <1>7, <1>8, <1>9, <1>10, <1>11, <1>12, <1>13
  DEF Next, InPlaceNext

-----------------------------------------------------------------------------
(* The names.                                                              *)

\* The generated names in s are distinct, and made by a counter that has come
\* to m.
Generated(s, m) ==
    /\ \A i \in 1 .. Len(s) : s[i] \in Nat => s[i] <= m
    /\ \A i, j \in 1 .. Len(s) :
          i # j /\ s[i] \in Nat /\ s[j] \in Nat => s[i] # s[j]

LEMMA GeneratedAppend ==
    ASSUME NEW s \in Seq(Names), NEW m \in Nat, Generated(s, m)
    PROVE  Generated(Append(s, m + 1), m + 1)
<1> DEFINE r == Append(s, m + 1)
<1>1. Len(s) \in Nat /\ m + 1 \in Names
  BY LenProperties DEF Names
<1>2. /\ Len(r) = Len(s) + 1
      /\ \A i \in 1 .. Len(s) + 1 : r[i] = IF i = Len(s) + 1 THEN m + 1 ELSE s[i]
  BY <1>1, AppendProperties
<1> HIDE DEF r
<1>3. \A i \in 1 .. Len(s) : s[i] \in Nat => s[i] <= m /\ s[i] # m + 1 /\ s[i] <= m + 1
  BY DEF Generated
<1>4. \A i \in 1 .. Len(r) : i = Len(s) + 1 \/ i \in 1 .. Len(s)
  BY <1>1, <1>2
<1>5. \A i \in 1 .. Len(r) : r[i] \in Nat => r[i] <= m + 1
  BY <1>1, <1>2, <1>3, <1>4
<1>6. ASSUME NEW i \in 1 .. Len(r), NEW j \in 1 .. Len(r), i # j,
             r[i] \in Nat, r[j] \in Nat
      PROVE  r[i] # r[j]
  <2>1. CASE i \in 1 .. Len(s) /\ j \in 1 .. Len(s)
    BY <1>1, <1>2, <1>6, <2>1 DEF Generated
  <2>2. CASE i = Len(s) + 1 \/ j = Len(s) + 1
    BY <1>1, <1>2, <1>3, <1>4, <1>6, <2>2
  <2> QED
    BY <1>4, <2>1, <2>2
<1>7. Generated(r, m + 1)
  BY <1>5, <1>6 DEF Generated
<1> QED
  BY <1>7 DEF r

LEMMA GeneratedRemove ==
    ASSUME NEW s \in Seq(Names), NEW m, Generated(s, m), NEW k \in 1 .. Len(s)
    PROVE  Generated(RemoveAt(s, k), m)
<1> DEFINE r == RemoveAt(s, k)
<1>1. IsRemoval(Names, r, s, k) /\ Len(s) \in Nat
  BY RemoveAtProperties, LenProperties
<1> HIDE DEF r
<1>2. Len(r) = Len(s) - 1
      /\ \A i \in 1 .. Len(r) : r[i] = IF i < k THEN s[i] ELSE s[i + 1]
  BY <1>1 DEF IsRemoval
<1>3. \A i \in 1 .. Len(r) : r[i] \in Nat => r[i] <= m
  BY <1>1, <1>2 DEF Generated
<1>4. ASSUME NEW i \in 1 .. Len(r), NEW j \in 1 .. Len(r), i # j,
             r[i] \in Nat, r[j] \in Nat
      PROVE  r[i] # r[j]
  <2>1. PICK i1 \in 1 .. Len(s) : r[i] = s[i1] /\ i1 = IF i < k THEN i ELSE i + 1
    BY <1>1, <1>2
  <2>2. PICK j1 \in 1 .. Len(s) : r[j] = s[j1] /\ j1 = IF j < k THEN j ELSE j + 1
    BY <1>1, <1>2
  <2>3. i1 # j1
    BY <1>4, <2>1, <2>2
  <2> QED
    BY <1>4, <2>1, <2>2, <2>3 DEF Generated
<1>5. Generated(r, m)
  BY <1>3, <1>4 DEF Generated
<1> QED
  BY <1>5 DEF r

LEMMA GeneratedMoved ==
    ASSUME NEW s \in Seq(Names), NEW m, Generated(s, m),
           NEW p \in 1 .. Len(s), NEW q \in 1 .. Len(s)
    PROVE  Generated(Moved(s, p, q), m)
<1> DEFINE r == Moved(s, p, q)
<1>1. IsMove(Names, r, s, p, q) /\ Len(s) \in Nat
  BY MovedProperties, LenProperties
<1> HIDE DEF r
<1>2. /\ Len(r) = Len(s)
      /\ \A i \in 1 .. Len(s) : Origin(p, q, i) \in 1 .. Len(s) /\ r[i] = s[Origin(p, q, i)]
  BY <1>1 DEF IsMove
<1>3. \A i, j \in 1 .. Len(s) : i # j => Origin(p, q, i) # Origin(p, q, j)
  BY <1>1 DEF Origin
<1>4. Generated(r, m)
  BY <1>2, <1>3 DEF Generated
<1> QED
  BY <1>4 DEF r

\* A typed name is no generated one.
LEMMA GeneratedRename ==
    ASSUME NEW s \in Seq(Names), NEW m, Generated(s, m), NEW k \in 1 .. Len(s),
           NEW t \in Titles
    PROVE  Generated([s EXCEPT ![k] = t], m)
<1> DEFINE r == [s EXCEPT ![k] = t]
<1>1. t \in Names /\ t \notin Nat
  BY FilesAssumption DEF Names
<1>2. Len(r) = Len(s) /\ \A i \in 1 .. Len(s) : r[i] = IF i = k THEN t ELSE s[i]
  BY <1>1, ExceptSeq
<1> HIDE DEF r
<1>3. Generated(r, m)
  BY <1>1, <1>2 DEF Generated
<1> QED
  BY <1>3 DEF r

LEMMA NextGenerated ==
    ASSUME Typed, Generated(names, maxIdx), [Next]_vars
    PROVE  Generated(names, maxIdx)'
<1>1. /\ names \in Seq(Names) /\ maxIdx \in Nat /\ Len(names) = Len(tasks)
      /\ Len(tabs) = Len(tasks) /\ Len(tasks) \in Nat
      /\ DOMAIN tasks = 1 .. Len(tasks) /\ DOMAIN names = 1 .. Len(tasks)
      /\ sel \in 0 .. Len(tasks) /\ (sel = 0 <=> Len(tasks) = 0)
      /\ DOMAIN tabs = 1 .. Len(tasks)
  BY TypedFacts
<1>2. CASE UNCHANGED <<names, maxIdx>>
  BY <1>2
<1>3. CASE TypeCode \/ TypeBody \/ Execute \/ SaveCurrent \/ CancelRename \/ OpenAdd
             \/ OpenEdit \/ ChooseType \/ FinishEdit \/ CancelDialog \/ UNCHANGED vars
  <2>1. UNCHANGED <<names, maxIdx>>
    BY <1>3 DEF TypeCode, TypeBody, Execute, SaveCurrent, CancelRename, OpenAdd, OpenEdit,
                ChooseType, FinishEdit, CancelDialog, vars, exam
  <2> QED
    BY <2>1, <1>2
<1>4. ASSUME NEW n \in DOMAIN tabs, SelectTab(n)
      PROVE  UNCHANGED <<names, maxIdx>>
  BY <1>4 DEF SelectTab
<1>5. CASE FinishAdd
  <2>1. names' = Append(names, maxIdx + 1) /\ maxIdx' = maxIdx + 1
    BY <1>5 DEF FinishAdd, AddTask
  <2> QED
    BY <1>1, <2>1, GeneratedAppend
<1>6. CASE DeleteTask
  <2>1. CASE idx \notin DOMAIN tasks
    BY <1>6, <2>1, <1>2 DEF DeleteTask, exam
  <2>2. CASE idx \in DOMAIN tasks
    <3>1. names' = RemoveAt(names, idx) /\ maxIdx' = maxIdx
      BY <1>6, <2>2 DEF DeleteTask
    <3> QED
      BY <1>1, <2>2, <3>1, GeneratedRemove
  <2> QED
    BY <2>1, <2>2
<1>7. CASE RenameTask
  <2>1. maxIdx' = maxIdx
    BY <1>7 DEF RenameTask
  <2>2. PICK t \in Titles :
           \/ idx \in DOMAIN names /\ names' = [names EXCEPT ![idx] = t]
           \/ names' = names
    BY <1>7 DEF RenameTask
  <2> QED
    BY <1>1, <1>2, <2>1, <2>2, GeneratedRename
<1>8. ASSUME NEW j \in 1 .. Len(tabs) + 1, DropTab(j)
      PROVE  Generated(names, maxIdx)'
  <2> DEFINE to == IF sel < j THEN j - 1 ELSE j
  <2>1. names' = Moved(names, sel, to) /\ maxIdx' = maxIdx /\ sel # 0
    BY <1>8 DEF DropTab
  <2>2. sel \in 1 .. Len(names) /\ to \in 1 .. Len(names)
    BY <1>1, <2>1
  <2> HIDE DEF to
  <2> QED
    BY <1>1, <2>1, <2>2, GeneratedMoved
<1>9. ASSUME NEW p \in DOMAIN tabs, NEW d \in {1, -1}, MenuMove(p, d)
      PROVE  Generated(names, maxIdx)'
  <2>1. maxIdx' = maxIdx /\ sel \in 1 .. Len(names)
    BY <1>1, <1>9 DEF MenuMove
  <2>2. CASE sel + d \in DOMAIN tasks
    <3>1. names' = Moved(names, sel, sel + d)
      BY <1>9, <2>2 DEF MenuMove
    <3>2. sel + d \in 1 .. Len(names)
      BY <1>1, <2>2
    <3> QED
      BY <1>1, <2>1, <3>1, <3>2, GeneratedMoved
  <2>3. CASE sel + d \notin DOMAIN tasks
    <3>1. names' = names
      BY <1>9, <2>3 DEF MenuMove
    <3> QED
      BY <2>1, <3>1, <1>2
  <2> QED
    BY <2>2, <2>3
<1> QED
  BY <1>2, <1>3, <1>4, <1>5, <1>6, <1>7, <1>8, <1>9 DEF Next, InPlaceNext

-----------------------------------------------------------------------------
(* The inductive invariant.                                                *)

FileOK ==
    /\ disk.exam \in BOOLEAN
    /\ disk.tasks \in Seq(Task)
    /\ disk.tasks # <<>>
    /\ disk.names \in Seq(Names)
    /\ disk.maxIdx \in Nat
    /\ disk.exam => Len(disk.names) = Len(disk.tasks)
    /\ Generated(disk.names, disk.maxIdx)

\* The names and the counter of the file have to be right for the session that
\* loads them; while a context menu move is not made good for, only the types
\* and the numbers of things are left to rely on.
FInv ==
    /\ Typed
    /\ ~moved => InStep
    /\ Generated(names, maxIdx)
    /\ moved \in BOOLEAN
    /\ disk # NoFile => FileOK

LEMMA InitFInv == FilesInit => FInv
<1> SUFFICES ASSUME FilesInit PROVE FInv
  OBVIOUS
<1>1. Init /\ disk = NoFile /\ moved = FALSE
  BY DEF FilesInit
<1>2. InStep
  BY <1>1, InitIInv DEF IInv
<1>3. Typed
  BY <1>1, <1>2 DEF Init, InStep, Typed, PaneMatchesExam
<1>4. Generated(names, maxIdx)
  BY <1>1 DEF Init, Generated
<1> QED
  BY <1>1, <1>2, <1>3, <1>4 DEF FInv

LEMMA InPlaceFInv ==
    ASSUME FInv, [InPlaceNext]_vars, UNCHANGED <<disk, moved>>
    PROVE  FInv'
<1>1. [Next]_vars
  BY DEF Next
<1>2. Typed' /\ Generated(names, maxIdx)'
  BY <1>1, NextTyped, NextGenerated DEF FInv
<1>3. ~moved' => InStep'
  BY NextInvBut, AnyOutput DEF FInv
<1>4. moved' \in BOOLEAN /\ (disk' # NoFile => FileOK')
  BY DEF FInv, FileOK
<1> QED
  BY <1>2, <1>3, <1>4 DEF FInv

LEMMA MenuMoveFInv ==
    ASSUME FInv, NEW p \in DOMAIN tabs, NEW d \in {1, -1}, MenuMove(p, d),
           moved' = TRUE, disk' = disk
    PROVE  FInv'
<1>1. [Next]_vars
  BY DEF Next
<1>2. Typed' /\ Generated(names, maxIdx)'
  BY <1>1, NextTyped, NextGenerated DEF FInv
<1>3. disk' # NoFile => FileOK'
  BY DEF FInv, FileOK
<1> QED
  BY <1>2, <1>3 DEF FInv

LEMMA SaveFileFInv ==
    ASSUME FInv, SaveFile
    PROVE  FInv'
<1>1. InPlaceNext /\ SaveCurrent /\ moved' = moved /\ disk' \in {ExamFile, TaskFile, NoFile}
  BY DEF SaveFile, InPlaceNext
<1>2. Typed' /\ Generated(names, maxIdx)'
  BY <1>1, NextTyped, NextGenerated DEF FInv, Next
<1>3. ~moved' => InStep'
  BY <1>1, NextInvBut, AnyOutput DEF FInv
<1>4. /\ names' = names /\ maxIdx' = maxIdx /\ idx \in DOMAIN tasks
      /\ tasks \in Seq(Task) /\ DOMAIN tasks = 1 .. Len(tasks)
      /\ names \in Seq(Names) /\ maxIdx \in Nat /\ Len(names) = Len(tasks)
  BY <1>1, TypedFacts DEF SaveCurrent, FInv
<1>5. tasks' \in Seq(Task) /\ Len(tasks') = Len(tasks) /\ tasks' # <<>>
  <2>1. tasks' = SaveTaskInfo(tasks, idx)
    BY <1>1 DEF SaveCurrent
  <2>2. tasks' \in Seq(Task) /\ Len(tasks') = Len(tasks)
    BY <1>4, <2>1, SavingChanges DEF FInv, Typed
  <2> QED
    BY <1>4, <2>2, LenProperties, EmptySeq
<1>6. CASE disk' = ExamFile
  <2>1. /\ disk'.exam = TRUE /\ disk'.tasks = tasks' /\ disk'.names = names
        /\ disk'.maxIdx = maxIdx
    BY <1>6 DEF ExamFile
  <2>2. FileOK'
    BY <1>4, <1>5, <2>1 DEF FileOK, FInv
  <2> QED
    BY <1>1, <1>2, <1>3, <2>2 DEF FInv
<1>7. CASE disk' = TaskFile
  <2> DEFINE t == tasks'[idx]
  <2>1. t \in Task
    BY <1>4, <1>5, ElementOfSeq
  <2> HIDE DEF t
  <2>2. <<t>> \in Seq(Task) /\ <<t>> # <<>>
    BY <2>1
  <2>3. /\ disk'.exam = FALSE /\ disk'.tasks = <<t>> /\ disk'.names = <<>>
        /\ disk'.maxIdx = 0
    BY <1>7 DEF TaskFile, t
  <2>4. <<>> \in Seq(Names) /\ Generated(<<>>, 0)
    BY DEF Generated
  <2>5. Generated(disk'.names, disk'.maxIdx)
    BY <2>3, <2>4
  <2>6. disk'.exam \in BOOLEAN /\ ~disk'.exam
    BY <2>3
  <2>7. /\ disk'.tasks \in Seq(Task) /\ disk'.tasks # <<>>
        /\ disk'.names \in Seq(Names) /\ disk'.maxIdx \in Nat
    BY <2>2, <2>3, <2>4
  <2>8. FileOK'
    BY <2>5, <2>6, <2>7 DEF FileOK
  <2> QED
    BY <1>1, <1>2, <1>3, <2>8 DEF FInv
<1>8. CASE disk' = NoFile
  BY <1>1, <1>2, <1>3, <1>8 DEF FInv
<1> QED
  BY <1>1, <1>6, <1>7, <1>8

\* The tabs of a loaded exam: the ids are the positions, the first tab, which
\* is selected, has the menu.
LEMMA LoadedTabsProperties ==
    ASSUME NEW ts \in Seq(Task), NEW ns \in Seq(Names), Len(ns) = Len(ts)
    PROVE  /\ LoadedTabs(ts, ns) \in Seq(Tab)
           /\ Len(LoadedTabs(ts, ns)) = Len(ts)
           /\ \A i \in 1 .. Len(ts) : /\ LoadedTabs(ts, ns)[i].uid = ts[i].uid
                                      /\ LoadedTabs(ts, ns)[i].name = ns[i]
                                      /\ LoadedTabs(ts, ns)[i].id = i
                                      /\ LoadedTabs(ts, ns)[i].menu => i = 1
<1> DEFINE b(i) == [uid |-> ts[i].uid, name |-> ns[i], id |-> i, menu |-> FALSE]
           tb == [i \in DOMAIN ts |-> b(i)]
<1>1. DOMAIN ts = 1 .. Len(ts) /\ Len(ts) \in Nat
  BY LenProperties
<1>2. ASSUME NEW i \in 1 .. Len(ts)
      PROVE  b(i) \in Tab
  <2>1. ts[i] \in Task /\ ns[i] \in Names
    BY <1>1, ElementOfSeq
  <2> QED
    BY <1>1, <2>1 DEF Task, Tab
<1>3. tb \in [1 .. Len(ts) -> Tab]
  BY <1>1, <1>2
<1>4. tb \in Seq(Tab) /\ Len(tb) = Len(ts)
  BY <1>1, <1>3, FunctionIsSequence
<1>5. \A i \in 1 .. Len(ts) : /\ tb[i].uid = ts[i].uid /\ tb[i].name = ns[i]
                              /\ tb[i].id = i /\ tb[i].menu = FALSE
  BY <1>1
<1>6. LoadedTabs(ts, ns) = MenuOn(tb, 0, 1)
  BY DEF LoadedTabs
<1> HIDE DEF tb
<1>7. IsMenuSwitch(LoadedTabs(ts, ns), tb, 0, 1)
  BY <1>4, <1>6, MenuOnProperties
<1> QED
  BY <1>4, <1>5, <1>7 DEF IsMenuSwitch

LEMMA LoadExamFInv ==
    ASSUME FInv, LoadExam
    PROVE  FInv'
<1> DEFINE ts == disk.tasks
           ns == disk.names
<1>1. /\ tasks' = ts /\ names' = ns /\ maxIdx' = disk.maxIdx
      /\ tabs' = LoadedTabs(ts, ns) /\ sel' = 1 /\ idx' = 1 /\ status' = "SWITCH"
      /\ ed' = [code |-> ts[1].code, body |-> ts[1].body,
                out |-> IF ts[1].code = NoCode THEN ts[1].out ELSE NoOut]
      /\ shown' = ts[1].uid /\ moved' = FALSE /\ dlg' = dlg /\ disk' = disk
  BY DEF LoadExam, Loaded
<1>2. FileOK /\ disk.exam
  BY DEF LoadExam, Loaded, FInv
<1>3. /\ ts \in Seq(Task) /\ ts # <<>> /\ ns \in Seq(Names) /\ Len(ns) = Len(ts)
      /\ disk.maxIdx \in Nat /\ Generated(ns, disk.maxIdx)
  BY <1>2 DEF FileOK
<1> HIDE DEF ts, ns
<1>4. Len(ts) \in Nat \ {0} /\ 1 \in 1 .. Len(ts) /\ ts[1] \in Task
  BY <1>3, LenProperties, EmptySeq, ElementOfSeq
<1>5. dlg \in Dialog
  BY TypedFacts DEF FInv
<1>6. ed' \in Editor /\ ed'.out \in Outs /\ shown' \in Nat
  BY <1>1, <1>4 DEF Task, Editor, Outs
<1>7. \A i \in 1 .. Len(ts) : ts[i].out \in Outs
  <2>1. \A i \in 1 .. Len(ts) : ts[i] \in Task
    BY <1>3, ElementOfSeq
  <2> QED
    BY <2>1 DEF Task
<1>8. /\ tabs' \in Seq(Tab) /\ Len(tabs') = Len(ts)
      /\ \A i \in 1 .. Len(ts) : /\ tabs'[i].uid = ts[i].uid
                                 /\ tabs'[i].name = ns[i]
                                 /\ tabs'[i].id = i
                                 /\ tabs'[i].menu => i = 1
  BY <1>1, <1>3, LoadedTabsProperties
<1>9. /\ sel' \in 0 .. Len(tasks') /\ (sel' = 0 <=> Len(tasks') = 0)
      /\ idx' \in Nat \ {0} /\ idx' = sel' /\ maxIdx' \in Nat /\ dlg' \in Dialog
      /\ tasks' \in Seq(Task) /\ names' \in Seq(Names)
      /\ Len(tabs') = Len(tasks') /\ Len(names') = Len(tasks')
      /\ shown' = tasks'[sel'].uid
  BY <1>1, <1>3, <1>4, <1>5, <1>8
<1>10. /\ \A i \in 1 .. Len(tasks') : /\ tabs'[i].uid = tasks'[i].uid
                                      /\ tabs'[i].name = names'[i]
                                      /\ tabs'[i].id = i
                                      /\ tabs'[i].menu => i = sel'
       /\ \A i \in 1 .. Len(tasks') : tasks'[i].out \in {NoOut, tasks'[i].code} \cup Outs
       /\ ed'.out \in {NoOut, ed'.code} \cup Outs
  BY <1>1, <1>6, <1>7, <1>8
<1>11. InvBut(Outs)'
  BY <1>1, <1>6, <1>8, <1>9, <1>10, Reestablish
<1>12. Typed'
  BY <1>1, <1>6, <1>8, <1>9, Retyped DEF Statuses
<1>13. Generated(names, maxIdx)' /\ moved' \in BOOLEAN /\ FileOK'
  BY <1>1, <1>2, <1>3 DEF FileOK
<1> QED
  BY <1>11, <1>12, <1>13, AnyOutput DEF FInv

LEMMA LoadTaskFInv ==
    ASSUME FInv, LoadTask
    PROVE  FInv'
<1> DEFINE u == disk.tasks[1]
           t == [u EXCEPT !.uid = maxIdx + 1]
<1>1. AddTask(t) /\ disk # NoFile /\ UNCHANGED <<dlg, disk, moved>>
  BY DEF LoadTask
<1>2. names \in Seq(Names) /\ maxIdx \in Nat /\ dlg \in Dialog
  BY TypedFacts DEF FInv
<1>3. u \in Task
  BY <1>1, LenProperties, EmptySeq, ElementOfSeq DEF FInv, FileOK
<1> HIDE DEF u
<1>4. t \in Task /\ t.uid = maxIdx + 1 /\ t.out \in Outs
  BY <1>2, <1>3 DEF Task
<1> HIDE DEF t
<1>5. Typed'
  BY <1>1, <1>2, <1>4, AddTaskTyped DEF FInv
<1>6. names' = Append(names, maxIdx + 1) /\ maxIdx' = maxIdx + 1
  BY <1>1 DEF AddTask
<1>7. Generated(names, maxIdx)'
  BY <1>2, <1>6, GeneratedAppend DEF FInv
<1>8. ~moved' => InStep'
  <2>1. Addable(t, Outs) /\ dlg' \in Dialog
    BY <1>1, <1>2, <1>4 DEF Addable
  <2> QED
    BY <1>1, <1>4, <2>1, AddTaskStep, AnyOutput DEF FInv
<1>9. moved' \in BOOLEAN /\ (disk' # NoFile => FileOK')
  BY <1>1 DEF FInv, FileOK
<1> QED
  BY <1>5, <1>7, <1>8, <1>9 DEF FInv

LEMMA RestartFInv ==
    ASSUME FInv, Restart
    PROVE  FInv'
<1>1. /\ tasks' = <<>> /\ names' = <<>> /\ maxIdx' = 0 /\ idx' = 1
      /\ tabs' = <<>> /\ sel' = 0 /\ status' = "SWITCH" /\ shown' = 0
      /\ ed' = [code |-> NoCode, body |-> NoBody, out |-> NoOut]
      /\ dlg' = Closed /\ moved' = FALSE /\ disk' = disk
  BY DEF Restart
<1>2. ed' \in Editor /\ ed'.out = NoOut /\ dlg' \in Dialog
  BY <1>1, TabsAssumption DEF Editor, Outs, Dialog, Closed
<1>3. Len(tasks') = 0 /\ Len(tabs') = 0 /\ Len(names') = 0
      /\ tasks' \in Seq(Task) /\ tabs' \in Seq(Tab) /\ names' \in Seq(Names)
  BY <1>1
<1>4. Typed' /\ InvBut(Outs)'
  BY <1>1, <1>2, <1>3, Retyped, Reestablish DEF Statuses
<1>5. Generated(names, maxIdx)'
  BY <1>3 DEF Generated
<1>6. moved' \in BOOLEAN /\ (disk' # NoFile => FileOK')
  BY <1>1 DEF FInv, FileOK
<1> QED
  BY <1>4, <1>5, <1>6, AnyOutput DEF FInv

LEMMA NextFInv == FInv /\ [FilesNext]_fvars => FInv'
<1> SUFFICES ASSUME FInv, [FilesNext]_fvars PROVE FInv'
  OBVIOUS
<1>1. CASE [InPlaceNext]_vars /\ UNCHANGED <<disk, moved>>
  BY <1>1, InPlaceFInv
<1>2. ASSUME NEW p \in DOMAIN tabs, NEW d \in {1, -1}, MenuMove(p, d),
             moved' = TRUE, UNCHANGED disk
      PROVE  FInv'
  BY <1>2, MenuMoveFInv
<1>3. CASE SaveFile
  BY <1>3, SaveFileFInv
<1>4. CASE LoadExam
  BY <1>4, LoadExamFInv
<1>5. CASE LoadTask
  BY <1>5, LoadTaskFInv
<1>6. CASE Restart
  BY <1>6, RestartFInv
<1> QED
  BY <1>1, <1>2, <1>3, <1>4, <1>5, <1>6 DEF FilesNext, fvars

-----------------------------------------------------------------------------
(* The pages of the file, and the steps of the notebook with a file.       *)

FilePages(d) ==
    [i \in DOMAIN d.tasks |->
        LET t == d.tasks[i]
        IN  [uid |-> t.uid, name |-> IF d.exam THEN d.names[i] ELSE 0,
             code |-> t.code, body |-> t.body, out |-> t.out]]

File(d) ==
    IF d = NoFile THEN NoFile
    ELSE [exam |-> d.exam, made |-> d.maxIdx, pages |-> FilePages(d)]

\* The names on the pages of the file: those of the exam, or none.
FileNames(d) == IF d.exam THEN d.names ELSE [i \in 1 .. Len(d.tasks) |-> 0]

LEMMA FilePagesShown ==
    ASSUME NEW d, d.tasks \in Seq(Task), d.exam \in BOOLEAN,
           d.exam => d.names \in Seq(Names) /\ Len(d.names) = Len(d.tasks)
    PROVE  /\ FilePages(d) \in Seq(Contents)
           /\ Len(FilePages(d)) = Len(d.tasks)
           /\ \A i \in 1 .. Len(d.tasks) :
                 Sees(FilePages(d), i, d.tasks[i], FileNames(d)[i], d.tasks[i])
<1> DEFINE e  == [code |-> NoCode, body |-> NoBody, out |-> NoOut]
           ns == FileNames(d)
<1>1. /\ Len(d.tasks) \in Nat /\ DOMAIN d.tasks = 1 .. Len(d.tasks)
      /\ 0 \notin 1 .. Len(d.tasks)
  BY LenProperties
<1>2. e \in Editor
  BY TabsAssumption DEF Editor, Outs
<1>3. ns \in Seq(Names) /\ Len(ns) = Len(d.tasks)
  <2>1. CASE d.exam
    BY <2>1 DEF FileNames
  <2>2. CASE ~d.exam
    <3>1. [i \in 1 .. Len(d.tasks) |-> 0] \in [1 .. Len(d.tasks) -> Names]
      BY DEF Names
    <3> QED
      BY <1>1, <2>2, <3>1, FunctionIsSequence DEF FileNames
  <2> QED
    BY <2>1, <2>2
<1>4. \A i \in 1 .. Len(d.tasks) : ns[i] = IF d.exam THEN d.names[i] ELSE 0
  BY DEF FileNames
<1> HIDE DEF ns, e
<1>5. AreShown(PagesOf(d.tasks, ns, 0, e), d.tasks, ns, 0, e)
  BY <1>2, <1>3, PagesShown
<1>6. FilePages(d) = PagesOf(d.tasks, ns, 0, e)
  <2> DEFINE p(i) == [uid |-> d.tasks[i].uid, name |-> ns[i], code |-> d.tasks[i].code,
                      body |-> d.tasks[i].body, out |-> d.tasks[i].out]
  <2>1. FilePages(d) = [i \in 1 .. Len(d.tasks) |-> p(i)]
    BY <1>1, <1>4 DEF FilePages
  <2>2. \A i \in 1 .. Len(d.tasks) : (IF i = 0 THEN e ELSE d.tasks[i]) = d.tasks[i]
    BY <1>1
  <2>3. PagesOf(d.tasks, ns, 0, e) = [i \in 1 .. Len(d.tasks) |-> p(i)]
    BY <1>1, <2>2 DEF PagesOf
  <2> QED
    BY <2>1, <2>3
<1>7. \A i \in 1 .. Len(d.tasks) : Sees(FilePages(d), i, d.tasks[i], ns[i], d.tasks[i])
  BY <1>1, <1>5, <1>6 DEF AreShown
<1> QED
  BY <1>5, <1>6, <1>7 DEF AreShown, ns

\* The file of FN, before and after a step.
LEMMA NotebookFile ==
    /\ (IF disk = NoFile THEN NoFile
        ELSE [exam |-> disk.exam, made |-> disk.maxIdx,
              pages |-> [i \in DOMAIN disk.tasks |-> FilePage(i)]]) = File(disk)
    /\ (IF disk = NoFile THEN NoFile
        ELSE [exam |-> disk.exam, made |-> disk.maxIdx,
              pages |-> [i \in DOMAIN disk.tasks |-> FilePage(i)]])' = File(disk')
BY Zenon DEF File, FilePages, FilePage

\* A file is something else than no file, and holds pages.
LEMMA FileHolds ==
    ASSUME disk # NoFile, FileOK
    PROVE  /\ File(disk) # NoFile
           /\ File(disk).exam = disk.exam
           /\ File(disk).made = disk.maxIdx
           /\ File(disk).pages = FilePages(disk)
<1>1. FilePages(disk) \in Seq(Contents)
  BY FilePagesShown DEF FileOK
<1>2. File(disk) \in [exam : BOOLEAN, made : Nat, pages : Seq(Contents)]
  BY <1>1 DEF File, FileOK
<1>3. File(disk) # NoFile
  BY <1>2, FilesAssumption DEF Contents, Names, Outs
<1> QED
  BY <1>3 DEF File

SamePages == Pages' = Pages /\ sel' = sel /\ maxIdx' = maxIdx

SameFile == File(disk') = File(disk)

\* The steps of the notebook alone.
LEMMA NotebookStepFiled ==
    ASSUME NB!NotebookNext, SameFile
    PROVE  FN!FiledNext
<1>1. (IF disk = NoFile THEN NoFile
       ELSE [exam |-> disk.exam, made |-> disk.maxIdx,
             pages |-> [i \in DOMAIN disk.tasks |-> FilePage(i)]])'
      = (IF disk = NoFile THEN NoFile
         ELSE [exam |-> disk.exam, made |-> disk.maxIdx,
               pages |-> [i \in DOMAIN disk.tasks |-> FilePage(i)]])
  BY NotebookFile, Zenon DEF SameFile
<1>2. NB!Write => FN!Write
  BY Zenon DEF NB!Write, FN!Write, NB!Fresh, FN!Fresh
<1>3. NB!Turn => FN!Turn
  BY Zenon DEF NB!Turn, FN!Turn
<1>4. NB!AddPage => FN!AddPage
  BY Zenon DEF NB!AddPage, FN!AddPage
<1>5. NB!RemovePage => FN!RemovePage
  BY Zenon DEF NB!RemovePage, FN!RemovePage, NB!RemoveAt, FN!RemoveAt
<1>6. NB!MovePage => FN!MovePage
  BY Zenon DEF NB!MovePage, FN!MovePage, NB!RemoveAt, FN!RemoveAt, NB!InsertAt, FN!InsertAt
<1>7. NB!RenamePage => FN!RenamePage
  BY Zenon DEF NB!RenamePage, FN!RenamePage
<1>8. FN!NotebookNext
  BY <1>2, <1>3, <1>4, <1>5, <1>6, <1>7, Zenon DEF NB!NotebookNext, FN!NotebookNext
<1> QED
  BY <1>1, <1>8, Zenon DEF FN!FiledNext

\* The other steps, said of the pages and the file.
LEMMA FiledSteps ==
    /\ Pages = <<>> /\ sel = 0 /\ maxIdx = 0 /\ disk = NoFile => FN!FiledInit
    /\ SamePages /\ SameFile => UNCHANGED FN!fnVars
    /\ SamePages /\ File(disk') = [exam |-> TRUE, pages |-> Pages, made |-> maxIdx]
       => FN!StoreExam
    /\ /\ SamePages /\ sel # 0
       /\ File(disk') = [exam |-> FALSE, pages |-> <<[Pages[sel] EXCEPT !.name = 0]>>,
                         made |-> 0]
       => FN!StorePage
    /\ SamePages /\ File(disk') = NoFile => FN!Spoil
    /\ /\ File(disk) # NoFile /\ File(disk).exam /\ SameFile
       /\ \E o \in {NoOut, File(disk).pages[1].out} :
             Pages' = [File(disk).pages EXCEPT ![1] = [@ EXCEPT !.out = o]]
       /\ sel' = 1 /\ maxIdx' = File(disk).made
       => FN!RestoreExam
    /\ /\ File(disk) # NoFile /\ ~File(disk).exam /\ SameFile
       /\ Pages' = Append(Pages, [File(disk).pages[1] EXCEPT !.uid = maxIdx + 1,
                                                             !.name = maxIdx + 1])
       /\ sel' = Len(Pages) + 1 /\ maxIdx' = maxIdx + 1
       => FN!RestorePage
    /\ /\ sel # 0 /\ sel' = sel /\ maxIdx' = maxIdx /\ SameFile
       /\ \E b \in Bodies : Pages' = [Pages EXCEPT ![sel] = [@ EXCEPT !.body = b]]
       => FN!Annotate
    /\ Pages' = <<>> /\ sel' = 0 /\ maxIdx' = 0 /\ SameFile => FN!StartAnew
<1>1. Pages = <<>> /\ sel = 0 /\ maxIdx = 0 /\ disk = NoFile => FN!FiledInit
  BY NotebookPages, Zenon DEF FN!FiledInit, FN!NotebookInit
<1>2. SamePages /\ SameFile => UNCHANGED FN!fnVars
  BY NotebookPages, NotebookFile, Zenon DEF FN!fnVars, FN!nbVars, SamePages, SameFile
<1>3. SamePages /\ File(disk') = [exam |-> TRUE, pages |-> Pages, made |-> maxIdx]
      => FN!StoreExam
  BY NotebookPages, NotebookFile, Zenon DEF FN!StoreExam, FN!nbVars, SamePages
<1>4. /\ SamePages /\ sel # 0
      /\ File(disk') = [exam |-> FALSE, pages |-> <<[Pages[sel] EXCEPT !.name = 0]>>,
                        made |-> 0]
      => FN!StorePage
  BY NotebookPages, NotebookFile, Zenon DEF FN!StorePage, FN!nbVars, SamePages
<1>5. SamePages /\ File(disk') = NoFile => FN!Spoil
  BY NotebookPages, NotebookFile, Zenon DEF FN!Spoil, FN!nbVars, SamePages
<1>6. /\ File(disk) # NoFile /\ File(disk).exam /\ SameFile
      /\ \E o \in {NoOut, File(disk).pages[1].out} :
            Pages' = [File(disk).pages EXCEPT ![1] = [@ EXCEPT !.out = o]]
      /\ sel' = 1 /\ maxIdx' = File(disk).made
      => FN!RestoreExam
  BY NotebookPages, NotebookFile, Zenon DEF FN!RestoreExam, SameFile
<1>7. /\ File(disk) # NoFile /\ ~File(disk).exam /\ SameFile
      /\ Pages' = Append(Pages, [File(disk).pages[1] EXCEPT !.uid = maxIdx + 1,
                                                            !.name = maxIdx + 1])
      /\ sel' = Len(Pages) + 1 /\ maxIdx' = maxIdx + 1
      => FN!RestorePage
  BY NotebookPages, NotebookFile, Zenon DEF FN!RestorePage, SameFile
<1>8. /\ sel # 0 /\ sel' = sel /\ maxIdx' = maxIdx /\ SameFile
      /\ \E b \in Bodies : Pages' = [Pages EXCEPT ![sel] = [@ EXCEPT !.body = b]]
      => FN!Annotate
  BY NotebookPages, NotebookFile, Zenon DEF FN!Annotate, SameFile
<1>9. Pages' = <<>> /\ sel' = 0 /\ maxIdx' = 0 /\ SameFile => FN!StartAnew
  BY NotebookPages, NotebookFile, Zenon DEF FN!StartAnew, FN!NotebookInit, SameFile
<1> QED
  BY <1>1, <1>2, <1>3, <1>4, <1>5, <1>6, <1>7, <1>8, <1>9, Zenon

-----------------------------------------------------------------------------
(* The handlers, in a window that is in step.                              *)

\* The output that comes back from a file stays beside its code as long as the
\* code stays; any other output belongs to the code.
LEMMA ContentStepFiled ==
    ASSUME InStep, InStep', ContentChange(Outs), disk' = disk,
           \/ ed' = ed
           \/ ed'.out \in {NoOut, ed'.code}
           \/ ed'.code = ed.code /\ ed'.out = ed.out
    PROVE  FN!FiledNext \/ UNCHANGED FN!fnVars
<1>0. SameFile /\ sel' = sel /\ maxIdx' = maxIdx /\ ed' \in Editor
  BY DEF SameFile, ContentChange
<1>1. CASE ed' = ed \/ Len(tasks) = 0
  <2>1. SamePages
    BY <1>0, <1>1, ContentPages DEF SamePages
  <2> QED
    BY <1>0, <2>1, FiledSteps
<1>2. CASE Len(tasks) # 0 /\ ed'.out \in {NoOut, ed'.code}
  <2>1. /\ sel # 0
        /\ Pages' = [Pages EXCEPT ![sel] = [@ EXCEPT !.code = ed'.code, !.body = ed'.body,
                                                     !.out = ed'.out]]
    BY <1>2, Facts, ContentPages DEF Written
  <2>2. ed'.code \in Codes /\ ed'.body \in Bodies /\ ed'.out \in NB!Fresh(ed'.code)
    BY <1>0, <1>2 DEF Editor, NB!Fresh
  <2>3. NB!Write
    BY <1>0, <2>1, <2>2, NotebookSteps, Zenon
  <2> QED
    BY <1>0, <2>3, NotebookStepFiled DEF NB!NotebookNext
<1>3. CASE Len(tasks) # 0 /\ ed'.code = ed.code /\ ed'.out = ed.out
  <2>1. /\ sel \in 1 .. Len(tasks) /\ sel # 0
        /\ Pages[sel] \in Contents
        /\ Sees(Pages, sel, tasks[sel], names[sel], ed)
        /\ Pages' = [Pages EXCEPT ![sel] = Written(Pages[sel], ed'.code, ed'.body, ed'.out)]
    BY <1>3, Facts, ContentPages
  <2>2. ed'.code = Pages[sel].code /\ ed'.out = Pages[sel].out /\ ed'.body \in Bodies
    BY <1>0, <1>3, <2>1 DEF Sees, Editor
  <2>3. Written(Pages[sel], ed'.code, ed'.body, ed'.out) = [Pages[sel] EXCEPT !.body = ed'.body]
    <3> DEFINE p == Pages[sel]
    <3>1. p \in Contents /\ ed'.code = p.code /\ ed'.out = p.out
      BY <2>1, <2>2
    <3> HIDE DEF p
    <3>2. Written(p, ed'.code, ed'.body, ed'.out) = [p EXCEPT !.body = ed'.body]
      BY <3>1 DEF Written, Contents
    <3> QED
      BY <3>2 DEF p
  <2>4. Pages' = [Pages EXCEPT ![sel] = [@ EXCEPT !.body = ed'.body]]
    BY <2>1, <2>3
  <2>5. FN!Annotate
    BY <1>0, <2>1, <2>2, <2>4, FiledSteps, Zenon
  <2> QED
    BY <2>5, Zenon DEF FN!FiledNext
<1> QED
  BY <1>1, <1>2, <1>3

\* Everything but the tabs.
LEMMA ContentHandlersFiled ==
    ASSUME InStep, InStep', disk' = disk,
           \/ TypeCode \/ TypeBody \/ Execute \/ SaveCurrent \/ CancelRename
           \/ OpenAdd \/ OpenEdit \/ ChooseType \/ FinishEdit \/ CancelDialog
    PROVE  FN!FiledNext \/ UNCHANGED FN!fnVars
<1>0. TypeOK /\ EdBut(Outs) /\ ed \in Editor
  BY AnyOutput, Facts DEF InvBut, InStep, FreshBut, EdBut
<1>1. ContentChange(Outs)
  BY <1>0, DialogContent, TypingContent, ExecuteContent, SaveCurrentContent,
     OpenEditContent, FinishEditContent
<1>2. CASE \/ SaveCurrent \/ CancelRename \/ OpenAdd \/ OpenEdit \/ ChooseType
           \/ CancelDialog
  <2>1. ed' = ed
    BY <1>2 DEF SaveCurrent, CancelRename, OpenAdd, OpenEdit, ChooseType, CancelDialog, win
  <2> QED
    BY <1>1, <2>1, ContentStepFiled
<1>3. CASE TypeCode
  <2>1. ed'.out = NoOut
    BY <1>0, <1>3 DEF TypeCode, Editor
  <2> QED
    BY <1>1, <2>1, ContentStepFiled
<1>4. CASE TypeBody
  <2>1. ed'.code = ed.code /\ ed'.out = ed.out
    BY <1>0, <1>4 DEF TypeBody, Editor
  <2> QED
    BY <1>1, <2>1, ContentStepFiled
<1>5. CASE Execute
  <2>1. \E o \in {NoOut, ed.code} : ed' = [ed EXCEPT !.out = o]
    BY <1>5 DEF Execute, Finishes, Throws
  <2>2. ed'.out \in {NoOut, ed'.code}
    BY <1>0, <2>1 DEF Editor
  <2> QED
    BY <1>1, <2>2, ContentStepFiled
<1>6. CASE FinishEdit
  <2>1. PICK c \in Codes :
           ed' = [code |-> c,
                  body |-> IF dlg.body = NoBody THEN ed.body ELSE dlg.body,
                  out |-> IF c = NoCode /\ ed.code = NoCode THEN ed.out ELSE NoOut]
    BY <1>6 DEF FinishEdit
  <2>2. ed'.out = NoOut \/ (ed'.code = ed.code /\ ed'.out = ed.out)
    BY <2>1
  <2> QED
    BY <1>1, <2>2, ContentStepFiled
<1> QED
  BY <1>2, <1>3, <1>4, <1>5, <1>6

\* Saving writes what is on display and changes no page.
LEMMA SaveFileFiled ==
    ASSUME FInv, FInv', InStep, InStep', SaveFile
    PROVE  FN!FiledNext
<1>1. /\ SaveCurrent /\ disk' \in {ExamFile, TaskFile, NoFile}
      /\ TypeOK /\ EdBut(Outs)
  BY AnyOutput DEF SaveFile, InvBut, InStep, FreshBut, EdBut
<1>2. ContentChange(Outs) /\ ed' = ed /\ idx \in DOMAIN tasks
      /\ tasks' = SaveTaskInfo(tasks, idx)
  BY <1>1, SaveCurrentContent DEF SaveCurrent, win
<1>3. /\ tasks \in Seq(Task) /\ ed \in Editor /\ idx \in 1 .. Len(tasks) /\ sel = idx
      /\ names \in Seq(Names) /\ Len(names) = Len(tasks) /\ Len(tasks) \in Nat
  BY <1>2, Facts
<1>4. /\ names' = names /\ sel' = sel /\ maxIdx' = maxIdx
      /\ tasks' \in Seq(Task) /\ Len(tasks') = Len(tasks)
  BY <1>2 DEF ContentChange
<1>5. SamePages
  BY <1>2, <1>4, ContentPages DEF SamePages
<1>6. AreShown(Pages, tasks', names, sel, ed)
  BY <1>2, <1>4, <1>5, PagesAfter DEF SamePages
<1>7. /\ tasks'[sel].code = ed.code /\ tasks'[sel].body = ed.body
      /\ tasks'[sel].out = ed.out
  <2> DEFINE u == [uid |-> tasks[idx].uid, code |-> ed.code, body |-> ed.body,
                   out |-> ed.out]
  <2>1. IsUpdate(tasks', tasks, idx, u)
    BY <1>2, <1>3, SaveTaskInfoProperties
  <2>2. u.code = ed.code /\ u.body = ed.body /\ u.out = ed.out
    OBVIOUS
  <2> HIDE DEF u
  <2>3. tasks'[sel] = u
    BY <1>3, <2>1 DEF IsUpdate
  <2> QED
    BY <2>2, <2>3
<1>8. \A i \in 1 .. Len(tasks) : Sees(Pages, i, tasks'[i], names[i], tasks'[i])
  BY <1>4, <1>6, <1>7 DEF AreShown, Sees
<1>9. CASE disk' = NoFile
  <2>1. FN!Spoil
    BY <1>5, <1>9, FiledSteps DEF File
  <2> QED
    BY <2>1, Zenon DEF FN!FiledNext
<1>10. CASE disk' = ExamFile /\ disk' # NoFile
  <2>1. /\ disk'.exam = TRUE /\ disk'.tasks = tasks' /\ disk'.names = names
        /\ disk'.maxIdx = maxIdx
    BY <1>10 DEF ExamFile
  <2>2. /\ FilePages(disk') \in Seq(Contents) /\ Len(FilePages(disk')) = Len(tasks)
        /\ \A i \in 1 .. Len(tasks) :
              Sees(FilePages(disk'), i, tasks'[i], FileNames(disk')[i], tasks'[i])
    BY <1>3, <1>4, <2>1, FilePagesShown
  <2>3. FileNames(disk') = names
    BY <2>1 DEF FileNames
  <2>4. FilePages(disk') = Pages
    <3>1. \A i \in 1 .. Len(tasks) : FilePages(disk')[i] = Pages[i]
      <4> TAKE i \in 1 .. Len(tasks)
      <4>1. FilePages(disk')[i] \in Contents /\ Pages[i] \in Contents
        BY <1>4, <1>6, <2>2, ElementOfSeq DEF AreShown
      <4>2. /\ Sees(FilePages(disk'), i, tasks'[i], names[i], tasks'[i])
            /\ Sees(Pages, i, tasks'[i], names[i], tasks'[i])
        BY <1>8, <2>2, <2>3
      <4> QED
        BY <4>1, <4>2 DEF Sees, Contents
    <3> QED
      BY <1>4, <1>6, <2>2, <3>1, SeqEqual DEF AreShown
  <2>5. File(disk') = [exam |-> TRUE, pages |-> Pages, made |-> maxIdx]
    BY <1>10, <2>1, <2>4 DEF File
  <2>6. FN!StoreExam
    BY <1>5, <2>5, FiledSteps
  <2> QED
    BY <2>6, Zenon DEF FN!FiledNext
<1>11. CASE disk' = TaskFile /\ disk' # NoFile
  <2> DEFINE t == tasks'[sel]
             p == [Pages[sel] EXCEPT !.name = 0]
  <2>1. /\ disk'.exam = FALSE /\ disk'.tasks = <<t>> /\ disk'.maxIdx = 0
    BY <1>3, <1>11 DEF TaskFile
  <2>2. t \in Task /\ Pages[sel] \in Contents
    BY <1>3, <1>4, <1>6, ElementOfSeq DEF AreShown
  <2>3. /\ p \in Contents /\ p.name = 0
        /\ p.uid = Pages[sel].uid /\ p.code = Pages[sel].code
        /\ p.body = Pages[sel].body /\ p.out = Pages[sel].out
    BY <2>2 DEF Contents, Names
  <2>4. /\ Pages[sel].uid = t.uid /\ Pages[sel].code = t.code
        /\ Pages[sel].body = t.body /\ Pages[sel].out = t.out
    BY <1>3, <1>8 DEF Sees
  <2> HIDE DEF t, p
  <2>5. <<t>> \in Seq(Task) /\ Len(<<t>>) = 1 /\ <<t>>[1] = t /\ DOMAIN <<t>> = 1 .. 1
    BY <2>2
  <2>6. /\ FilePages(disk') \in Seq(Contents) /\ Len(FilePages(disk')) = 1
        /\ Sees(FilePages(disk'), 1, t, FileNames(disk')[1], t)
    <3> DEFINE d == disk'
    <3>1. /\ d.exam = FALSE /\ d.tasks \in Seq(Task) /\ Len(d.tasks) = 1
          /\ d.tasks[1] = t
      BY <2>1, <2>5
    <3> HIDE DEF d
    <3>2. /\ FilePages(d) \in Seq(Contents) /\ Len(FilePages(d)) = Len(d.tasks)
          /\ \A i \in 1 .. Len(d.tasks) :
                Sees(FilePages(d), i, d.tasks[i], FileNames(d)[i], d.tasks[i])
      BY <3>1, FilePagesShown
    <3>3. /\ FilePages(d) \in Seq(Contents) /\ Len(FilePages(d)) = 1
          /\ Sees(FilePages(d), 1, t, FileNames(d)[1], t)
      BY <3>1, <3>2
    <3> QED
      BY <3>3 DEF d
  <2>7. FileNames(disk')[1] = 0
    <3>1. disk'.exam = FALSE /\ Len(disk'.tasks) = 1
      BY <2>1, <2>5
    <3> QED
      BY <3>1 DEF FileNames
  <2>8. FilePages(disk')[1] = p
    <3> DEFINE q == FilePages(disk')[1]
    <3>1. /\ q \in Contents /\ q.uid = t.uid /\ q.name = 0
          /\ q.code = t.code /\ q.body = t.body /\ q.out = t.out
      <4>1. q \in Contents
        <5> DEFINE s == FilePages(disk')
        <5>1. s \in Seq(Contents) /\ Len(s) = 1
          BY <2>6
        <5> HIDE DEF s
        <5>2. s[1] \in Contents
          BY <5>1, ElementOfSeq
        <5> QED
          BY <5>2 DEF s
      <4>2. FileNames(disk')[1] = 0 /\ Sees(FilePages(disk'), 1, t, FileNames(disk')[1], t)
        BY <2>6, <2>7
      <4> QED
        BY <4>1, <4>2, Zenon DEF Sees
    <3> HIDE DEF q
    <3>2. q = p
      BY <2>3, <2>4, <3>1 DEF Contents
    <3> QED
      BY <3>2 DEF q
  <2>9. FilePages(disk') = <<p>>
    <3>1. <<p>> \in Seq(Contents) /\ Len(<<p>>) = 1 /\ <<p>>[1] = p
      BY <2>3
    <3>2. \A i \in 1 .. 1 : FilePages(disk')[i] = <<p>>[i]
      BY <2>8, <3>1
    <3> QED
      BY <2>6, <3>1, <3>2, SeqEqual
  <2>10. File(disk') = [exam |-> FALSE, pages |-> <<p>>, made |-> 0]
    BY <1>11, <2>1, <2>9 DEF File
  <2>11. FN!StorePage
    BY <1>3, <1>5, <2>10, FiledSteps DEF p
  <2> QED
    BY <2>11, Zenon DEF FN!FiledNext
<1> QED
  BY <1>1, <1>9, <1>10, <1>11

\* Loading an exam restores all its pages, whatever the window held.
LEMMA LoadExamFiled ==
    ASSUME FInv, InStep', LoadExam
    PROVE  FN!FiledNext
<1> DEFINE fp == FilePages(disk)
           q  == [fp[1] EXCEPT !.out = ed'.out]
           s  == [fp EXCEPT ![1] = q]
<1>1. /\ disk # NoFile /\ FileOK /\ disk.exam /\ disk' = disk
      /\ tasks' = disk.tasks /\ names' = disk.names /\ maxIdx' = disk.maxIdx /\ sel' = 1
      /\ ed' = [code |-> disk.tasks[1].code, body |-> disk.tasks[1].body,
                out |-> IF disk.tasks[1].code = NoCode THEN disk.tasks[1].out ELSE NoOut]
  BY DEF LoadExam, Loaded, FInv
<1>2. /\ fp \in Seq(Contents) /\ Len(fp) = Len(tasks')
      /\ \A i \in 1 .. Len(tasks') : Sees(fp, i, tasks'[i], names'[i], tasks'[i])
  BY <1>1, FilePagesShown DEF FileOK, FileNames
<1>3. /\ File(disk) # NoFile /\ File(disk).exam /\ File(disk).made = disk.maxIdx
      /\ File(disk).pages = fp
  BY <1>1, FileHolds
<1>4. Len(tasks') \in Nat /\ 1 \in 1 .. Len(tasks')
  BY <1>1, LenProperties, EmptySeq DEF FileOK
<1>5. /\ ed'.code = tasks'[1].code /\ ed'.body = tasks'[1].body
      /\ ed'.out \in {NoOut, tasks'[1].out}
  BY <1>1
<1> HIDE DEF fp
<1>6. fp[1] \in Contents /\ Sees(fp, 1, tasks'[1], names'[1], tasks'[1])
  BY <1>2, <1>4, ElementOfSeq
<1>7. fp[1].out = tasks'[1].out /\ ed'.out \in Outs
  BY <1>5, <1>6 DEF Sees, Contents, Outs
<1>8. /\ q \in Contents /\ q.out = ed'.out
      /\ q.uid = fp[1].uid /\ q.name = fp[1].name
      /\ q.code = fp[1].code /\ q.body = fp[1].body
  BY <1>6, <1>7 DEF Contents
<1> HIDE DEF q
<1>9. /\ s \in Seq(Contents) /\ Len(s) = Len(tasks')
      /\ \A i \in 1 .. Len(tasks') : s[i] = IF i = 1 THEN q ELSE fp[i]
  BY <1>2, <1>4, <1>8, ExceptSeq
<1> HIDE DEF s
<1>10. AreShown(s, tasks', names', sel', ed')
  <2>1. Sees(s, 1, tasks'[1], names'[1], ed')
    BY <1>4, <1>5, <1>6, <1>8, <1>9 DEF Sees
  <2>2. \A i \in 1 .. Len(tasks') : i # 1 => Sees(s, i, tasks'[i], names'[i], tasks'[i])
    BY <1>2, <1>9 DEF Sees
  <2> QED
    BY <1>1, <1>9, <2>1, <2>2 DEF AreShown
<1>11. Pages' = s
  BY <1>10, PagesAfter
<1>12. Pages' = [File(disk).pages EXCEPT ![1] = [@ EXCEPT !.out = ed'.out]]
  BY <1>3, <1>11 DEF s, q
<1>13. ed'.out \in {NoOut, File(disk).pages[1].out}
  BY <1>3, <1>5, <1>7
<1>14. SameFile
  BY <1>1 DEF SameFile
<1>15. FN!RestoreExam
  BY <1>1, <1>3, <1>12, <1>13, <1>14, FiledSteps, Zenon
<1> QED
  BY <1>15, Zenon DEF FN!FiledNext

\* A loaded task comes back on a new page.
LEMMA LoadTaskFiled ==
    ASSUME FInv, InStep, InStep', LoadTask
    PROVE  FN!FiledNext
<1> DEFINE u  == disk.tasks[1]
           t  == [u EXCEPT !.uid = maxIdx + 1]
           fp == FilePages(disk)
<1>1. AddTask(t) /\ disk # NoFile /\ FileOK /\ ~disk.exam /\ disk' = disk
  BY DEF LoadTask, FInv
<1>2. maxIdx \in Nat
  BY Facts
<1>3. u \in Task /\ Len(disk.tasks) \in Nat /\ 1 \in 1 .. Len(disk.tasks)
  BY <1>1, LenProperties, EmptySeq, ElementOfSeq DEF FileOK
<1>4. fp \in Seq(Contents) /\ Len(fp) = Len(disk.tasks)
      /\ Sees(fp, 1, u, FileNames(disk)[1], u)
  BY <1>1, <1>3, FilePagesShown DEF FileOK
<1>5. fp[1] \in Contents
  BY <1>3, <1>4, ElementOfSeq
<1>6. File(disk) # NoFile /\ ~File(disk).exam /\ File(disk).pages = fp
  BY <1>1, FileHolds
<1> HIDE DEF u, fp
<1>7. /\ t \in Task /\ t.uid = maxIdx + 1
      /\ t.code = u.code /\ t.body = u.body /\ t.out = u.out
  BY <1>2, <1>3 DEF Task
<1> HIDE DEF t
<1> DEFINE p == [uid |-> maxIdx + 1, name |-> maxIdx + 1,
                 code |-> t.code, body |-> t.body, out |-> t.out]
           q == [fp[1] EXCEPT !.uid = maxIdx + 1, !.name = maxIdx + 1]
<1>8. Pages' = Append(Pages, p) /\ sel' = Len(Pages) + 1 /\ maxIdx' = maxIdx + 1
  BY <1>1, <1>7, AddTaskPages
<1>9. p = q
  <2> DEFINE r == [fp[1] EXCEPT !.uid = maxIdx + 1]
  <2>1. /\ r \in Contents /\ r.uid = maxIdx + 1 /\ r.code = fp[1].code
        /\ r.body = fp[1].body /\ r.out = fp[1].out
    BY <1>2, <1>5 DEF Contents
  <2>2. q = [r EXCEPT !.name = maxIdx + 1]
    OBVIOUS
  <2>3. fp[1].code = t.code /\ fp[1].body = t.body /\ fp[1].out = t.out
    BY <1>4, <1>7 DEF Sees
  <2> HIDE DEF r
  <2> QED
    BY <2>1, <2>2, <2>3 DEF Contents
<1>10. SameFile
  BY <1>1 DEF SameFile
<1>11. Pages' = Append(Pages, [File(disk).pages[1] EXCEPT !.uid = maxIdx + 1,
                                                          !.name = maxIdx + 1])
  BY <1>6, <1>8, <1>9
<1>12. FN!RestorePage
  BY <1>6, <1>8, <1>10, <1>11, FiledSteps, Zenon
<1> QED
  BY <1>12, Zenon DEF FN!FiledNext

\* A new session begins with an empty notebook.
LEMMA RestartFiled ==
    ASSUME InStep', Restart
    PROVE  FN!FiledNext
<1>1. tasks' = <<>> /\ sel' = 0 /\ maxIdx' = 0 /\ disk' = disk
  BY DEF Restart
<1>2. Pages' \in Seq(Contents) /\ Len(Pages') = 0
  BY <1>1, PagesAfter DEF AreShown
<1>3. Pages' = <<>> /\ SameFile
  BY <1>1, <1>2, EmptySeq DEF SameFile
<1>4. FN!StartAnew
  BY <1>1, <1>3, FiledSteps
<1> QED
  BY <1>4, Zenon DEF FN!FiledNext

LEMMA InitFiled == FilesInit => FN!FiledInit
<1> SUFFICES ASSUME FilesInit PROVE FN!FiledInit
  OBVIOUS
<1>1. Init /\ disk = NoFile
  BY DEF FilesInit
<1>2. tasks = <<>> /\ names = <<>> /\ ed \in Editor /\ sel = 0 /\ maxIdx = 0
  BY <1>1, InitIInv, Facts DEF IInv, Init
<1>3. Pages \in Seq(Contents) /\ Len(Pages) = 0
  <2>1. /\ tasks \in Seq(Task) /\ names \in Seq(Names) /\ Len(names) = Len(tasks)
        /\ Len(tasks) = 0
    BY <1>2
  <2>2. ed \in Editor
    BY <1>2
  <2>3. AreShown(Pages, tasks, names, sel, ed)
    BY <2>1, <2>2, PagesShown DEF Pages
  <2> QED
    BY <2>1, <2>3 DEF AreShown
<1>4. Pages = <<>>
  BY <1>3, EmptySeq
<1> QED
  BY <1>1, <1>2, <1>4, FiledSteps

LEMMA NextFiled ==
    FInv /\ FInv' /\ [FilesNext]_fvars => moved' \/ FN!FiledNext \/ UNCHANGED FN!fnVars
<1> SUFFICES ASSUME FInv, FInv', [FilesNext]_fvars, ~moved'
             PROVE  FN!FiledNext \/ UNCHANGED FN!fnVars
  OBVIOUS
<1>0. InStep'
  BY DEF FInv
<1>1. CASE InPlaceNext /\ UNCHANGED <<disk, moved>>
  <2>0. InStep /\ disk' = disk /\ SameFile
    BY <1>1 DEF FInv, SameFile
  <2>1. CASE TabHandlers
    BY <1>0, <2>0, <2>1, TabHandlersStep, NotebookStepFiled
  <2>2. CASE \/ TypeCode \/ TypeBody \/ Execute \/ SaveCurrent \/ CancelRename
             \/ OpenAdd \/ OpenEdit \/ ChooseType \/ FinishEdit \/ CancelDialog
    BY <1>0, <2>0, <2>2, ContentHandlersFiled
  <2> QED
    BY <1>1, <2>1, <2>2, Zenon DEF InPlaceNext, TabHandlers
<1>2. CASE SaveFile
  <2>1. InStep
    BY <1>2 DEF SaveFile, FInv
  <2> QED
    BY <1>0, <1>2, <2>1, SaveFileFiled
<1>3. CASE LoadExam
  BY <1>0, <1>3, LoadExamFiled
<1>4. CASE LoadTask
  <2>1. InStep
    BY <1>4 DEF LoadTask, FInv
  <2> QED
    BY <1>0, <1>4, <2>1, LoadTaskFiled
<1>5. CASE Restart
  BY <1>0, <1>5, RestartFiled
<1>6. CASE UNCHANGED fvars
  <2>1. SamePages /\ SameFile
    BY <1>6, Zenon DEF fvars, vars, exam, pane, win, SamePages, SameFile, Pages, PagesOf
  <2> QED
    BY <2>1, FiledSteps
<1> QED
  BY <1>1, <1>2, <1>3, <1>4, <1>5, <1>6, Zenon DEF FilesNext

-----------------------------------------------------------------------------
(* The theorems.                                                           *)

(* The inductive invariant of all sessions, one after the other, with      *)
(* everything the main window and the files of exams and tasks allow.      *)
THEOREM FilesInvariant == FilesSpec => []FInv
<1> QED
  BY InitFInv, NextFInv, PTL DEF FilesSpec

(* The window and the file keep their types, whatever was moved, deleted,  *)
(* saved and loaded in which order: the selection is a position even after *)
(* a handler was cut short.                                                *)
THEOREM FilesTyped == FilesSpec => []FilesTypeOK
<1>1. FInv => FilesTypeOK
  BY DEF FInv, Typed, FileOK, FilesTypeOK
<1> QED
  BY <1>1, FilesInvariant, PTL

(* The pane has one tab and the exam one name per task in every session,   *)
(* context menu moves included.                                            *)
THEOREM FilesPaneMatchesExam == FilesSpec => []PaneMatchesExam
<1>1. FInv => PaneMatchesExam
  BY DEF FInv, Typed
<1> QED
  BY <1>1, FilesInvariant, PTL

(* Loading an exam or starting anew brings Exam.idx, the selection, the tab *)
(* ids and the editor back in step, whatever state the context menu moves  *)
(* had left, and they stay in step until a tab is moved that way again.    *)
THEOREM FilesInStep == FilesSpec => []InStepUnlessMoved
<1>1. FInv => InStepUnlessMoved
  BY DEF FInv, InStep, InStepUnlessMoved
<1> QED
  BY <1>1, FilesInvariant, PTL

(* No two tasks get the same generated name, in any session: the counter   *)
(* saved with an exam is ahead of the names saved with it.                 *)
THEOREM FilesNamesDistinct == FilesSpec => []NamesDistinct
<1>1. FInv => NamesDistinct
  <2>1. ASSUME FInv PROVE DOMAIN names = 1 .. Len(names)
    BY <2>1, TypedFacts DEF FInv
  <2> QED
    BY <2>1 DEF FInv, Generated, NamesDistinct
<1> QED
  BY <1>1, FilesInvariant, PTL

(* The window implements the notebook with a file: saving writes what is on *)
(* display, loading brings all of it back but the output of the first page, *)
(* a new session starts empty, and no handler changes another page than the *)
(* open one, however many tasks there are; but for the time from a context  *)
(* menu move to the next loaded exam or the next session.                   *)
THEOREM FilesImplementNotebook == FilesSpec => ImplementsFiledNotebook
<1>1. FInv /\ FInv' /\ [FilesNext]_fvars =>
         [moved' \/ FN!FiledNext \/ UNCHANGED FN!fnVars]_fvars
  BY NextFiled
<1> QED
  BY <1>1, InitFiled, FilesInvariant, PTL DEF FilesSpec, ImplementsFiledNotebook

=============================================================================
