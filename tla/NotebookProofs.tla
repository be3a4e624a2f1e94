--------------------------- MODULE NotebookProofs ---------------------------
(***************************************************************************)
(* The main window without the moves of the context menu implements the    *)
(* notebook: every handler is one step of Notebook.tla or none, for every  *)
(* value of the constants.                                                 *)
(***************************************************************************)
EXTENDS ExamTabsProofs

-----------------------------------------------------------------------------
(* The pages, made of tasks ts, names ns, the open position n and the       *)
(* editor e.                                                               *)

Contents == [uid : Nat, name : Names, code : Codes, body : Bodies, out : Outs]

PagesOf(ts, ns, n, e) ==
    [i \in DOMAIN ts |->
        LET c == IF i = n THEN e ELSE ts[i]
        IN  [uid |-> ts[i].uid, name |-> ns[i],
             code |-> c.code, body |-> c.body, out |-> c.out]]

\* s[i] is what the user sees when c is displayed for task t under name m.
Sees(s, i, t, m, c) ==
    /\ s[i].uid = t.uid /\ s[i].name = m
    /\ s[i].code = c.code /\ s[i].body = c.body /\ s[i].out = c.out

\* s are the pages made of ts, ns, n and e, one by one.
AreShown(s, ts, ns, n, e) ==
    /\ s \in Seq(Contents)
    /\ Len(s) = Len(ts)
    /\ \A i \in 1 .. Len(ts) : /\ i = n => Sees(s, i, ts[i], ns[i], e)
                               /\ i # n => Sees(s, i, ts[i], ns[i], ts[i])

LEMMA PagesShown ==
    ASSUME NEW ts \in Seq(Task), NEW ns \in Seq(Names), Len(ns) = Len(ts), NEW n,
           NEW e \in Editor
    PROVE  AreShown(PagesOf(ts, ns, n, e), ts, ns, n, e)
<1> DEFINE c(i) == IF i = n THEN e ELSE ts[i]
           p(i) == [uid |-> ts[i].uid, name |-> ns[i],
                    code |-> c(i).code, body |-> c(i).body, out |-> c(i).out]
<1>1. Len(ts) \in Nat /\ DOMAIN ts = 1 .. Len(ts)
  BY LenProperties
<1>2. \A i \in 1 .. Len(ts) : p(i) \in Contents
  <2> TAKE i \in 1 .. Len(ts)
  <2>1. ts[i] \in Task /\ ns[i] \in Names
    BY <1>1, ElementOfSeq
  <2>2. c(i).code \in Codes /\ c(i).body \in Bodies /\ c(i).out \in Outs
    BY <2>1 DEF Task, Editor
  <2>3. ts[i].uid \in Nat
    BY <2>1 DEF Task
  <2> HIDE DEF c
  <2> QED
    BY <2>1, <2>2, <2>3 DEF Contents
<1>3. PagesOf(ts, ns, n, e) = [i \in 1 .. Len(ts) |-> p(i)]
  BY <1>1 DEF PagesOf
<1>4. PagesOf(ts, ns, n, e) \in Seq(Contents) /\ Len(PagesOf(ts, ns, n, e)) = Len(ts)
  <2>1. PagesOf(ts, ns, n, e) \in [1 .. Len(ts) -> Contents]
    BY <1>2, <1>3
  <2> QED
    BY <1>1, <2>1, FunctionIsSequence
<1>5. \A i \in 1 .. Len(ts) : PagesOf(ts, ns, n, e)[i] = p(i)
  BY <1>3
<1>6. \A i \in 1 .. Len(ts) : Sees(PagesOf(ts, ns, n, e), i, ts[i], ns[i], c(i))
  <2> TAKE i \in 1 .. Len(ts)
  <2> HIDE DEF c
  <2>1. /\ p(i).uid = ts[i].uid /\ p(i).name = ns[i]
        /\ p(i).code = c(i).code /\ p(i).body = c(i).body /\ p(i).out = c(i).out
    OBVIOUS
  <2> HIDE DEF p
  <2> QED
    BY <1>5, <2>1 DEF Sees
<1>7. \A i \in 1 .. Len(ts) : (i = n => c(i) = e) /\ (i # n => c(i) = ts[i])
  OBVIOUS
<1> HIDE DEF c, p
<1>8. \A i \in 1 .. Len(ts) :
         /\ i = n => Sees(PagesOf(ts, ns, n, e), i, ts[i], ns[i], e)
         /\ i # n => Sees(PagesOf(ts, ns, n, e), i, ts[i], ns[i], ts[i])
  BY <1>6, <1>7
<1> QED
  BY <1>4, <1>8 DEF AreShown

LEMMA ShownAreEqual ==
    ASSUME NEW ts \in Seq(Task), NEW ns, NEW n, NEW e,
           NEW r, NEW s, AreShown(r, ts, ns, n, e), AreShown(s, ts, ns, n, e)
    PROVE  r = s
<1>1. r \in Seq(Contents) /\ s \in Seq(Contents) /\ Len(r) = Len(s) /\ Len(r) = Len(ts)
  BY DEF AreShown
<1>2. ASSUME NEW i \in 1 .. Len(r) PROVE r[i] = s[i]
  <2>1. r[i] \in Contents /\ s[i] \in Contents
    BY <1>1, ElementOfSeq
  <2>2. /\ r[i].uid = s[i].uid /\ r[i].name = s[i].name /\ r[i].code = s[i].code
        /\ r[i].body = s[i].body /\ r[i].out = s[i].out
    BY <1>1 DEF AreShown, Sees
  <2> QED
    BY <2>1, <2>2 DEF Contents
<1> QED
  BY <1>1, <1>2, SeqEqual

Pages == PagesOf(tasks, names, sel, ed)

\* The pages of NB are the pages.
LEMMA NotebookPages ==
    /\ [i \in DOMAIN tasks |-> PageOf(i)] = Pages
    /\ [i \in DOMAIN tasks |-> PageOf(i)]' = Pages'
BY DEF PageOf, Pages, PagesOf

\* The steps of NB, said of the pages.
LEMMA NotebookSteps ==
    /\ NB!NotebookInit <=> Pages = <<>> /\ sel = 0 /\ maxIdx = 0
    /\ UNCHANGED NB!nbVars <=> Pages' = Pages /\ sel' = sel /\ maxIdx' = maxIdx
    /\ NB!Write <=>
          /\ sel # 0
          /\ \E c \in Codes, b \in Bodies : \E o \in NB!Fresh(c) :
                Pages' = [Pages EXCEPT ![sel] =
                             [@ EXCEPT !.code = c, !.body = b, !.out = o]]
          /\ sel' = sel /\ maxIdx' = maxIdx
    /\ NB!Turn <=>
          /\ \E n \in DOMAIN Pages : sel' = n
          /\ Pages' = Pages /\ maxIdx' = maxIdx
    /\ NB!AddPage <=>
          /\ \E c \in Codes, b \in Bodies :
                Pages' = Append(Pages, [uid |-> maxIdx + 1, name |-> maxIdx + 1,
                                        code |-> c, body |-> b, out |-> NoOut])
          /\ sel' = Len(Pages) + 1
          /\ maxIdx' = maxIdx + 1
    /\ NB!RemovePage <=>
          /\ sel # 0
          /\ Pages' = RemoveAt(Pages, sel)
          /\ sel' \in IF Len(Pages) = 1 THEN {0} ELSE 1 .. Len(Pages) - 1
          /\ maxIdx' = maxIdx
    /\ NB!MovePage <=>
          /\ sel # 0
          /\ \E to \in DOMAIN Pages : Pages' = Moved(Pages, sel, to) /\ sel' = to
          /\ maxIdx' = maxIdx
    /\ NB!RenamePage <=>
          /\ sel # 0
          /\ \E t \in Titles : Pages' = [Pages EXCEPT ![sel] = [@ EXCEPT !.name = t]]
          /\ sel' = sel /\ maxIdx' = maxIdx
<1>1. NB!NotebookInit <=> Pages = <<>> /\ sel = 0 /\ maxIdx = 0
  BY NotebookPages, Zenon DEF NB!NotebookInit
<1>2. UNCHANGED NB!nbVars <=> Pages' = Pages /\ sel' = sel /\ maxIdx' = maxIdx
  BY NotebookPages, Zenon DEF NB!nbVars
<1>3. NB!Write <=>
         /\ sel # 0
         /\ \E c \in Codes, b \in Bodies : \E o \in NB!Fresh(c) :
               Pages' = [Pages EXCEPT ![sel] =
                            [@ EXCEPT !.code = c, !.body = b, !.out = o]]
         /\ sel' = sel /\ maxIdx' = maxIdx
  <2> DEFINE P == [i \in DOMAIN tasks |-> PageOf(i)]
             Q == [i \in DOMAIN tasks |-> PageOf(i)]'
             W(c, b, o) ==
                Q = [P EXCEPT ![sel] = [@ EXCEPT !.code = c, !.body = b, !.out = o]]
             V(c, b, o) ==
                Pages' = [Pages EXCEPT ![sel] =
                             [@ EXCEPT !.code = c, !.body = b, !.out = o]]
  <2>1. NB!Write <=> /\ sel # 0
                     /\ \E c \in Codes, b \in Bodies : \E o \in NB!Fresh(c) : W(c, b, o)
                     /\ UNCHANGED <<sel, maxIdx>>
    BY Zenon DEF NB!Write
  <2>2. P = Pages /\ Q = Pages'
    BY NotebookPages
  <2> HIDE DEF P, Q
  <2>3. \A c, b, o : W(c, b, o) <=> V(c, b, o)
    BY <2>2
  <2> HIDE DEF V, W
  <2>4. NB!Write <=> /\ sel # 0
                     /\ \E c \in Codes, b \in Bodies : \E o \in NB!Fresh(c) : V(c, b, o)
                     /\ sel' = sel /\ maxIdx' = maxIdx
    BY <2>1, <2>3
  <2> QED
    BY <2>4, Zenon DEF V
<1>4. NB!Turn <=>
         /\ \E n \in DOMAIN Pages : sel' = n
         /\ Pages' = Pages /\ maxIdx' = maxIdx
  BY NotebookPages, Zenon DEF NB!Turn
<1>5. NB!AddPage <=>
         /\ \E c \in Codes, b \in Bodies :
               Pages' = Append(Pages, [uid |-> maxIdx + 1, name |-> maxIdx + 1,
                                       code |-> c, body |-> b, out |-> NoOut])
         /\ sel' = Len(Pages) + 1
         /\ maxIdx' = maxIdx + 1
  BY NotebookPages, Zenon DEF NB!AddPage
<1>6. NB!RemovePage <=>
         /\ sel # 0
         /\ Pages' = RemoveAt(Pages, sel)
         /\ sel' \in IF Len(Pages) = 1 THEN {0} ELSE 1 .. Len(Pages) - 1
         /\ maxIdx' = maxIdx
  BY NotebookPages, Zenon DEF NB!RemovePage, NB!RemoveAt, RemoveAt
<1>7. NB!MovePage <=>
         /\ sel # 0
         /\ \E to \in DOMAIN Pages : Pages' = Moved(Pages, sel, to) /\ sel' = to
         /\ maxIdx' = maxIdx
  BY NotebookPages, Zenon
  DEF NB!MovePage, NB!RemoveAt, RemoveAt, NB!InsertAt, InsertAt, Moved
<1>8. NB!RenamePage <=>
         /\ sel # 0
         /\ \E t \in Titles : Pages' = [Pages EXCEPT ![sel] = [@ EXCEPT !.name = t]]
         /\ sel' = sel /\ maxIdx' = maxIdx
  BY NotebookPages, Zenon DEF NB!RenamePage
<1> QED
  BY <1>1, <1>2, <1>3, <1>4, <1>5, <1>6, <1>7, <1>8, Zenon

\* What shows that s are the pages after a step.
LEMMA PagesAfter ==
    ASSUME InStep'
    PROVE  /\ AreShown(Pages', tasks', names', sel', ed')
           /\ \A s : AreShown(s, tasks', names', sel', ed') => Pages' = s
<1>1. /\ tasks' \in Seq(Task) /\ names' \in Seq(Names) /\ Len(names') = Len(tasks')
      /\ ed' \in Editor
  BY DEF InStep, TypeOK, TabsMatchTasks
<1>2. AreShown(PagesOf(tasks', names', sel', ed'), tasks', names', sel', ed')
  BY <1>1, PagesShown
<1>3. AreShown(Pages', tasks', names', sel', ed')
  BY <1>2 DEF Pages
<1> QED
  BY <1>1, <1>3, ShownAreEqual

\* The pages before a step.
LEMMA StepPages ==
    ASSUME InStep, InStep'
    PROVE  /\ AreShown(Pages, tasks, names, sel, ed)
           /\ Pages \in Seq(Contents) /\ Len(Pages) = Len(tasks)
           /\ DOMAIN Pages = 1 .. Len(tasks)
           /\ \A s : AreShown(s, tasks', names', sel', ed') => Pages' = s
<1>1. /\ tasks \in Seq(Task) /\ names \in Seq(Names) /\ Len(names) = Len(tasks)
      /\ ed \in Editor
  BY Facts
<1>2. AreShown(Pages, tasks, names, sel, ed)
  BY <1>1, PagesShown DEF Pages
<1>3. Pages \in Seq(Contents) /\ Len(Pages) = Len(tasks)
  BY <1>2 DEF AreShown
<1> QED
  BY <1>2, <1>3, PagesAfter, LenProperties

-----------------------------------------------------------------------------
(* Typing, running, saving and dialogs write on the open page.             *)

\* p with other contents.
Written(p, c, b, o) == [p EXCEPT !.code = c, !.body = b, !.out = o]

LEMMA WrittenProperties ==
    ASSUME NEW p \in Contents, NEW c \in Codes, NEW b \in Bodies, NEW o \in Outs
    PROVE  /\ Written(p, c, b, o) \in Contents
           /\ Written(p, c, b, o).uid = p.uid /\ Written(p, c, b, o).name = p.name
           /\ Written(p, c, b, o).code = c /\ Written(p, c, b, o).body = b
           /\ Written(p, c, b, o).out = o
<1> DEFINE q == [p EXCEPT !.code = c]
           r == [q EXCEPT !.body = b]
<1>1. q \in Contents /\ q.uid = p.uid /\ q.name = p.name /\ q.code = c
  BY DEF Contents
<1>2. Written(p, c, b, o) = [r EXCEPT !.out = o]
  BY DEF Written
<1> HIDE DEF q
<1>3. r \in Contents /\ r.uid = p.uid /\ r.name = p.name /\ r.code = c /\ r.body = b
  BY <1>1 DEF Contents
<1> HIDE DEF r
<1> QED
  BY <1>2, <1>3 DEF Contents

\* Only the open page changes, and not if the editor does not.
LEMMA ContentPages ==
    ASSUME InStep, InStep', NEW G, ContentChange(G)
    PROVE  /\ UNCHANGED <<sel, maxIdx>>
           /\ Len(tasks) = 0 => Pages' = Pages
           /\ Len(tasks) # 0 =>
                 /\ sel \in 1 .. Len(tasks)
                 /\ Pages[sel] \in Contents
                 /\ Sees(Pages, sel, tasks[sel], names[sel], ed)
                 /\ Pages' = [Pages EXCEPT ![sel] = Written(@, ed'.code, ed'.body, ed'.out)]
           /\ ed' = ed => Pages' = Pages
<1>1. /\ names' = names /\ maxIdx' = maxIdx /\ sel' = sel /\ ed' \in Editor
      /\ Len(tasks') = Len(tasks)
      /\ \A j \in 1 .. Len(tasks) : /\ tasks'[j].uid = tasks[j].uid
                                    /\ j # idx => tasks'[j] = tasks[j]
  BY DEF ContentChange
<1>2. /\ AreShown(Pages, tasks, names, sel, ed)
      /\ Pages \in Seq(Contents) /\ Len(Pages) = Len(tasks)
      /\ \A s : AreShown(s, tasks', names', sel', ed') => Pages' = s
  BY StepPages
<1>3. Len(tasks) \in Nat /\ (Len(tasks) # 0 => sel = idx /\ sel \in 1 .. Len(tasks))
  BY Facts
<1>4. CASE Len(tasks) = 0
  <2>1. AreShown(Pages, tasks', names', sel', ed')
    BY <1>1, <1>2, <1>4 DEF AreShown
  <2>2. Pages' = Pages
    BY <1>2, <2>1
  <2> QED
    BY <1>1, <1>4, <2>2
<1>5. CASE Len(tasks) # 0
  <2> DEFINE w == Written(Pages[sel], ed'.code, ed'.body, ed'.out)
             s == [Pages EXCEPT ![sel] = w]
  <2>1. sel = idx /\ sel \in 1 .. Len(tasks) /\ sel # 0
    BY <1>3, <1>5
  <2>2. Pages[sel] \in Contents
    BY <1>2, <2>1, ElementOfSeq
  <2>3. ed'.code \in Codes /\ ed'.body \in Bodies /\ ed'.out \in Outs
    BY <1>1 DEF Editor
  <2>4. /\ w \in Contents
        /\ w.uid = Pages[sel].uid /\ w.name = Pages[sel].name
        /\ w.code = ed'.code /\ w.body = ed'.body /\ w.out = ed'.out
    BY <2>2, <2>3, WrittenProperties
  <2> HIDE DEF w
  <2>5. /\ s \in Seq(Contents) /\ Len(s) = Len(tasks)
        /\ \A i \in 1 .. Len(tasks) : s[i] = IF i = sel THEN w ELSE Pages[i]
    BY <1>2, <2>1, <2>4, ExceptSeq
  <2> HIDE DEF s
  <2>6. AreShown(s, tasks', names', sel', ed')
    BY <1>1, <1>2, <2>1, <2>4, <2>5 DEF AreShown, Sees
  <2>7. Pages' = [Pages EXCEPT ![sel] = Written(Pages[sel], ed'.code, ed'.body, ed'.out)]
    BY <1>2, <2>6 DEF s, w
  <2>8. Sees(Pages, sel, tasks[sel], names[sel], ed)
    BY <1>2, <2>1 DEF AreShown
  <2>9. ASSUME ed' = ed PROVE Pages' = Pages
    <3>1. AreShown(Pages, tasks', names', sel', ed')
      <4>1. \A i \in 1 .. Len(tasks) :
               /\ i = sel => Sees(Pages, i, tasks'[i], names'[i], ed')
               /\ i # sel => Sees(Pages, i, tasks'[i], names'[i], tasks'[i])
        BY <1>1, <1>2, <2>1, <2>9 DEF AreShown, Sees
      <4> QED
        BY <1>1, <1>2, <4>1 DEF AreShown
    <3> QED
      BY <1>2, <3>1
  <2> QED
    BY <1>1, <1>5, <2>1, <2>2, <2>7, <2>8, <2>9
<1> QED
  BY <1>4, <1>5

\* The output on the open page belongs to the code on it.
LEMMA ContentStepWrites ==
    ASSUME InStep, InStep', ContentChange({})
    PROVE  NB!Write \/ UNCHANGED NB!nbVars
<1>1. ed' \in Editor /\ ed'.out \in {NoOut, ed'.code}
  BY DEF ContentChange, EdBut
<1>2. ed'.code \in Codes /\ ed'.body \in Bodies /\ ed'.out \in NB!Fresh(ed'.code)
  BY <1>1 DEF Editor, NB!Fresh
<1>3. CASE Len(tasks) = 0
  BY <1>3, ContentPages, NotebookSteps
<1>4. CASE Len(tasks) # 0
  <2>1. /\ sel # 0 /\ sel' = sel /\ maxIdx' = maxIdx
        /\ Pages' = [Pages EXCEPT ![sel] = [@ EXCEPT !.code = ed'.code, !.body = ed'.body,
                                                     !.out = ed'.out]]
    BY <1>4, Facts, ContentPages DEF Written
  <2> QED
    BY <1>2, <2>1, NotebookSteps, Zenon
<1> QED
  BY <1>3, <1>4
-----------------------------------------------------------------------------
(* The handlers that change the tabs turn, add, remove, rename and move     *)
(* pages.                                                                  *)

\* Clicking a tab opens its page and changes none.
LEMMA SelectTabPages ==
    ASSUME InStep, InStep', NEW n \in DOMAIN tabs, SelectTab(n)
    PROVE  /\ Pages' = Pages
           /\ sel' \in DOMAIN Pages
           /\ maxIdx' = maxIdx
<1>1. /\ tasks \in Seq(Task) /\ tabs \in Seq(Tab) /\ Len(tabs) = Len(tasks)
      /\ Len(tasks) \in Nat /\ DOMAIN tasks = 1 .. Len(tasks)
      /\ n \in 1 .. Len(tasks) /\ sel \in 1 .. Len(tasks)
      /\ ed \in Editor /\ status = "SWITCH"
      /\ \A k \in 1 .. Len(tabs) : tabs[k].id = k
  BY Facts
<1>2. /\ AreShown(Pages, tasks, names, sel, ed)
      /\ DOMAIN Pages = 1 .. Len(tasks)
      /\ \A s : AreShown(s, tasks', names', sel', ed') => Pages' = s
  BY StepPages
<1>3. /\ SwitchEvent(tasks, tabs, sel, n, idx) /\ n # sel /\ sel' = n
      /\ names' = names /\ maxIdx' = maxIdx
  BY <1>1 DEF SelectTab
<1>4. /\ tasks' = SaveTaskInfo(tasks, sel)
      /\ ed' = [code |-> tasks'[n].code, body |-> tasks'[n].body, out |-> tasks'[n].out]
  BY <1>1, <1>3, SwitchEffect
<1> DEFINE t == [uid |-> tasks[sel].uid, code |-> ed.code, body |-> ed.body,
                 out |-> ed.out]
<1>5. IsUpdate(tasks', tasks, sel, t)
  BY <1>1, <1>4, SaveTaskInfoProperties
<1>6. /\ t.uid = tasks[sel].uid /\ t.code = ed.code /\ t.body = ed.body /\ t.out = ed.out
      /\ ed'.code = tasks'[n].code /\ ed'.body = tasks'[n].body /\ ed'.out = tasks'[n].out
  BY <1>4
<1> HIDE DEF t
<1>7. AreShown(Pages, tasks', names', sel', ed')
  <2>1. /\ \A i \in 1 .. Len(tasks) : tasks'[i] = IF i = sel THEN t ELSE tasks[i]
        /\ Len(tasks') = Len(tasks) /\ names' = names /\ sel' = n /\ n # sel
    BY <1>3, <1>5 DEF IsUpdate
  <2>2. \A i \in 1 .. Len(tasks) :
           /\ i = sel => Sees(Pages, i, tasks[i], names[i], ed)
           /\ i # sel => Sees(Pages, i, tasks[i], names[i], tasks[i])
    BY <1>2 DEF AreShown
  <2>3. ASSUME NEW i \in 1 .. Len(tasks)
        PROVE  Sees(Pages, i, tasks'[i], names'[i], IF i = n THEN ed' ELSE tasks'[i])
    <3>1. CASE i = sel
      BY <3>1, <2>1, <2>2, <1>6 DEF Sees
    <3>2. CASE i # sel
      <4>1. tasks'[i] = tasks[i] /\ Sees(Pages, i, tasks[i], names[i], tasks[i])
        BY <3>2, <2>1, <2>2
      <4> QED
        BY <4>1, <2>1, <1>6 DEF Sees
    <3> QED
      BY <3>1, <3>2
  <2>4. Pages \in Seq(Contents) /\ Len(Pages) = Len(tasks')
    BY <1>2, <2>1 DEF AreShown
  <2> QED
    BY <2>1, <2>3, <2>4 DEF AreShown
<1>8. Pages' = Pages
  BY <1>2, <1>7
<1> QED
  BY <1>1, <1>2, <1>3, <1>8

\* A new task is a new page at the end, and it is opened.
LEMMA AddTaskPages ==
    ASSUME InStep, InStep', NEW t \in Task, t.uid = maxIdx + 1, AddTask(t)
    PROVE  /\ Pages' = Append(Pages, [uid |-> maxIdx + 1, name |-> maxIdx + 1,
                                      code |-> t.code, body |-> t.body, out |-> t.out])
           /\ sel' = Len(Pages) + 1
           /\ maxIdx' = maxIdx + 1
<1>1. /\ tasks \in Seq(Task) /\ tabs \in Seq(Tab) /\ names \in Seq(Names)
      /\ Len(tasks) \in Nat /\ Len(tabs) = Len(tasks) /\ Len(names) = Len(tasks)
      /\ sel \in 0 .. Len(tasks) /\ ed \in Editor /\ dlg \in Dialog /\ maxIdx \in Nat
      /\ \A k \in 1 .. Len(tasks) : tabs[k].id = k
  BY Facts
<1>2. /\ AreShown(Pages, tasks, names, sel, ed)
      /\ Pages \in Seq(Contents) /\ Len(Pages) = Len(tasks)
      /\ \A s : AreShown(s, tasks', names', sel', ed') => Pages' = s
  BY StepPages
<1> DEFINE n  == Len(tasks) + 1
           b  == [uid |-> maxIdx + 1, name |-> maxIdx + 1, id |-> n, menu |-> FALSE]
           ts == Append(tasks, t)
           tb == Append(tabs, b)
           p  == [uid |-> maxIdx + 1, name |-> maxIdx + 1,
                  code |-> t.code, body |-> t.body, out |-> t.out]
<1>4. /\ p \in Contents
      /\ p.uid = maxIdx + 1 /\ p.name = maxIdx + 1
      /\ p.code = t.code /\ p.body = t.body /\ p.out = t.out
  BY <1>1 DEF Task, Contents, Names
<1>tab. b \in Tab /\ b.id = n
  BY <1>1 DEF Tab, Names
<1>5. /\ maxIdx' = maxIdx + 1
      /\ names' = Append(names, maxIdx + 1)
      /\ sel' = Len(tb)
      /\ SwitchEvent(ts, tb, sel, Len(tb), n)
  BY DEF AddTask
<1>6. maxIdx + 1 \in Names
  BY <1>1 DEF Names
<1> HIDE DEF b, p
<1>7. /\ ts \in Seq(Task) /\ Len(ts) = n
      /\ \A j \in 1 .. n : ts[j] = IF j = n THEN t ELSE tasks[j]
  BY <1>1, <1>4, AppendProperties
<1>8. /\ tb \in Seq(Tab) /\ Len(tb) = n
      /\ \A j \in 1 .. n : tb[j] = IF j = n THEN b ELSE tabs[j]
  BY <1>1, <1>tab, AppendProperties
<1>9. \A j \in 1 .. n : names'[j] = IF j = n THEN maxIdx + 1 ELSE names[j]
  BY <1>1, <1>5, <1>6, AppendProperties
<1>10. /\ Append(Pages, p) \in Seq(Contents) /\ Len(Append(Pages, p)) = n
       /\ \A j \in 1 .. n : Append(Pages, p)[j] = IF j = n THEN p ELSE Pages[j]
  <2>1. p \in Contents /\ Pages \in Seq(Contents) /\ Len(Pages) + 1 = n
    BY <1>2, <1>4
  <2> HIDE DEF n
  <2> QED
    BY <2>1, AppendProperties
<1> DEFINE s == Append(Pages, p)
<1> HIDE DEF ts, tb, s
<1>11. /\ n \in Nat \ {0} /\ sel \in 0 .. Len(tb) /\ n \in 1 .. Len(tb) /\ sel' = n
       /\ \A k \in 1 .. Len(tb) : tb[k].id = k
  <2>1. n \in Nat \ {0} /\ sel \in 0 .. n /\ Len(tb) = n
    BY <1>1, <1>8
  <2>2. ASSUME NEW k \in 1 .. n PROVE tb[k].id = k
    <3>1. k = n \/ k \in 1 .. Len(tasks)
      BY <1>1
    <3> QED
      BY <3>1, <1>1, <1>tab, <1>8
  <2> QED
    BY <2>1, <2>2, <1>5
<1>12. /\ tasks' = IF sel = 0 THEN ts ELSE SaveTaskInfo(ts, sel)
       /\ Len(tasks') = n
       /\ ed' = [code |-> tasks'[n].code, body |-> tasks'[n].body, out |-> tasks'[n].out]
  <2>1. SwitchEvent(ts, tb, sel, n, n) /\ Len(ts) = Len(tb)
    BY <1>5, <1>7, <1>8
  <2> QED
    BY <1>1, <1>7, <1>8, <1>11, <2>1, SwitchEffect
<1>13. /\ ed'.code = tasks'[n].code /\ ed'.body = tasks'[n].body /\ ed'.out = tasks'[n].out
  BY <1>12
<1>14. /\ tasks'[n] = t
       /\ \A j \in 1 .. Len(tasks) :
             /\ tasks'[j].uid = tasks[j].uid
             /\ j # sel => tasks'[j] = tasks[j]
             /\ j = sel => /\ tasks'[j].code = ed.code /\ tasks'[j].body = ed.body
                           /\ tasks'[j].out = ed.out
  <2>1. CASE sel = 0
    BY <2>1, <1>1, <1>7, <1>12
  <2>2. CASE sel # 0
    <3> DEFINE u == [uid |-> ts[sel].uid, code |-> ed.code, body |-> ed.body,
                     out |-> ed.out]
    <3>1. sel \in DOMAIN ts
      BY <2>2, <1>1, <1>7, LenProperties
    <3>2. IsUpdate(tasks', ts, sel, u)
      BY <3>1, <2>2, <1>1, <1>7, <1>12, SaveTaskInfoProperties
    <3>3. u.code = ed.code /\ u.body = ed.body /\ u.out = ed.out
      OBVIOUS
    <3> HIDE DEF u
    <3>4. /\ u.uid = ts[sel].uid
          /\ \A j \in 1 .. n : tasks'[j] = IF j = sel THEN u ELSE ts[j]
      BY <3>2, <1>7 DEF IsUpdate
    <3>5. /\ \A j \in 1 .. Len(tasks) : j \in 1 .. n /\ j # n /\ ts[j] = tasks[j]
          /\ n \in 1 .. n /\ ts[n] = t /\ sel # n
      BY <1>1, <1>7
    <3> HIDE DEF n
    <3> QED
      BY <3>3, <3>4, <3>5
  <2> QED
    BY <2>1, <2>2
<1>15. AreShown(s, tasks', names', sel', ed')
  <2>1. s \in Seq(Contents) /\ Len(s) = Len(tasks')
        /\ s[n] = p /\ \A j \in 1 .. Len(tasks) : s[j] = Pages[j]
    BY <1>1, <1>10, <1>12 DEF s
  <2>2. Sees(s, n, tasks'[n], names'[n], ed')
    BY <2>1, <1>4, <1>9, <1>11, <1>13, <1>14 DEF Sees
  <2>3. \A j \in 1 .. Len(tasks) : Sees(s, j, tasks'[j], names'[j], tasks'[j])
    <3> TAKE j \in 1 .. Len(tasks)
    <3>a. j \in 1 .. n /\ j # n
      BY <1>1
    <3>b. names'[j] = names[j]
      <4> HIDE DEF n
      <4> QED
        BY <3>a, <1>9
    <3>c. s[j] = Pages[j] /\ tasks'[j].uid = tasks[j].uid
      <4> HIDE DEF n
      <4> QED
        BY <2>1, <1>14
    <3>1. s[j] = Pages[j] /\ names'[j] = names[j] /\ tasks'[j].uid = tasks[j].uid
      BY <3>b, <3>c
    <3>2. Sees(Pages, j, tasks[j], names[j], tasks'[j])
      BY <1>2, <1>14 DEF AreShown, Sees
    <3> QED
      BY <3>1, <3>2 DEF Sees
  <2>4. \A j \in 1 .. n : j = n \/ (j # n /\ j \in 1 .. Len(tasks))
    BY <1>1
  <2> HIDE DEF n
  <2> QED
    BY <2>1, <2>2, <2>3, <2>4, <1>11, <1>12 DEF AreShown
<1>16. Pages' = Append(Pages, [uid |-> maxIdx + 1, name |-> maxIdx + 1,
                               code |-> t.code, body |-> t.body, out |-> t.out])
  BY <1>2, <1>15 DEF s, p
<1>17. sel' = Len(Pages) + 1
  BY <1>2, <1>11
<1> QED
  BY <1>5, <1>16, <1>17

\* The open page goes.
LEMMA DeleteTaskPages ==
    ASSUME InStep, InStep', DeleteTask
    PROVE  /\ sel \in 1 .. Len(Pages)
           /\ Pages' = RemoveAt(Pages, sel)
           /\ sel' \in IF Len(Pages) = 1 THEN {0} ELSE 1 .. Len(Pages) - 1
           /\ maxIdx' = maxIdx
<1>1. /\ tasks \in Seq(Task) /\ tabs \in Seq(Tab) /\ names \in Seq(Names)
      /\ Len(tasks) \in Nat \ {0} /\ Len(tabs) = Len(tasks) /\ Len(names) = Len(tasks)
      /\ idx \in 1 .. Len(tasks) /\ idx \in DOMAIN tasks /\ sel = idx
      /\ tabs[sel].id = sel
  BY Facts DEF DeleteTask
<1>2. /\ AreShown(Pages, tasks, names, sel, ed)
      /\ Pages \in Seq(Contents) /\ Len(Pages) = Len(tasks)
      /\ \A s : AreShown(s, tasks', names', sel', ed') => Pages' = s
  BY StepPages
<1> DEFINE ts == RemoveAt(tasks, idx)
           tb == RemoveAt(tabs, idx)
           n  == Nearest(sel, Len(tabs) - 1)
           s  == RemoveAt(Pages, sel)
<1>3. /\ sel' = n
      /\ names' = RemoveAt(names, idx)
      /\ DeleteEvent(ts, tb, sel, n)
      /\ maxIdx' = maxIdx
  BY <1>1 DEF DeleteTask
<1>4. /\ IsRemoval(Task, ts, tasks, idx)
      /\ IsRemoval(Tab, tb, tabs, idx)
      /\ IsRemoval(Names, names', names, idx)
      /\ IsRemoval(Contents, s, Pages, idx)
  BY <1>1, <1>2, <1>3, RemoveAtProperties
<1> HIDE DEF ts, tb, s
<1>5. /\ ts \in Seq(Task) /\ tb \in Seq(Tab) /\ s \in Seq(Contents)
      /\ Len(ts) = Len(tasks) - 1 /\ Len(tb) = Len(ts) /\ Len(s) = Len(ts)
      /\ Len(ts) \in Nat
  BY <1>1, <1>2, <1>4 DEF IsRemoval
<1>6. /\ n \in 0 .. Len(tb) /\ (n = 0 <=> Len(tb) = 0)
      /\ n = 0 => sel = 1
      /\ sel = 1 /\ Len(tb) # 0 => n = 1
  BY <1>1, <1>5 DEF Nearest
<1> HIDE DEF n
<1>7. /\ tasks' = ts
      /\ n # 0 => ed' = [code |-> ts[n].code, body |-> ts[n].body, out |-> ts[n].out]
  <2>1. sel \in Nat \ {0} /\ Len(ts) = Len(tb)
    BY <1>1, <1>5
  <2> QED
    BY <1>3, <1>5, <1>6, <2>1, DeleteEffect
<1>8. \A j \in 1 .. Len(ts) : Sees(s, j, ts[j], names'[j], ts[j])
  <2> TAKE j \in 1 .. Len(ts)
  <2>1. PICK k \in 1 .. Len(tasks) :
           k # sel /\ ts[j] = tasks[k] /\ names'[j] = names[k] /\ s[j] = Pages[k]
    <3> DEFINE k == IF j < idx THEN j ELSE j + 1
    <3>1. k \in 1 .. Len(tasks) /\ k # sel
      BY <1>1, <1>5
    <3>2. ts[j] = tasks[k] /\ names'[j] = names[k] /\ s[j] = Pages[k]
      BY <1>1, <1>2, <1>4, <1>5 DEF IsRemoval
    <3> QED
      BY <3>1, <3>2
  <2>2. Sees(Pages, k, tasks[k], names[k], tasks[k])
    BY <1>2, <2>1 DEF AreShown
  <2> QED
    BY <2>1, <2>2 DEF Sees
<1>9. AreShown(s, tasks', names', sel', ed')
  <2>1. n # 0 => /\ ed'.code = ts[n].code /\ ed'.body = ts[n].body
                 /\ ed'.out = ts[n].out
    BY <1>7
  <2>2. \A j \in 1 .. Len(ts) : j = n => Sees(s, j, ts[j], names'[j], ed')
    BY <1>8, <2>1 DEF Sees
  <2> QED
    BY <1>3, <1>5, <1>7, <1>8, <2>2 DEF AreShown
<1>10. Pages' = RemoveAt(Pages, sel)
  BY <1>2, <1>9 DEF s
<1>11. sel' \in IF Len(Pages) = 1 THEN {0} ELSE 1 .. Len(Pages) - 1
  BY <1>1, <1>2, <1>3, <1>5, <1>6
<1>12. sel \in 1 .. Len(Pages)
  BY <1>1, <1>2
<1> QED
  BY <1>3, <1>10, <1>11, <1>12

\* The open page gets another name.
LEMMA RenameTaskPages ==
    ASSUME InStep, InStep', RenameTask
    PROVE  /\ sel \in 1 .. Len(Pages)
           /\ \E t \in Titles : Pages' = [Pages EXCEPT ![sel] = [@ EXCEPT !.name = t]]
           /\ UNCHANGED <<sel, maxIdx>>
<1>1. /\ names \in Seq(Names) /\ Len(names) = Len(tasks) /\ Len(tasks) \in Nat \ {0}
      /\ DOMAIN names = 1 .. Len(tasks) /\ idx \in 1 .. Len(tasks) /\ sel = idx
  BY Facts DEF RenameTask
<1>2. /\ AreShown(Pages, tasks, names, sel, ed)
      /\ Pages \in Seq(Contents) /\ Len(Pages) = Len(tasks)
      /\ \A s : AreShown(s, tasks', names', sel', ed') => Pages' = s
  BY StepPages
<1>3. PICK t \in Titles : names' = [names EXCEPT ![idx] = t] /\ sel' = idx
  BY <1>1 DEF RenameTask
<1>4. tasks' = tasks /\ ed' = ed /\ maxIdx' = maxIdx
  BY DEF RenameTask, win
<1> DEFINE p == [Pages[sel] EXCEPT !.name = t]
           s == [Pages EXCEPT ![sel] = p]
<1>5. t \in Names
  BY DEF Names
<1>6. /\ p \in Contents /\ p.name = t
      /\ p.uid = Pages[sel].uid /\ p.code = Pages[sel].code
      /\ p.body = Pages[sel].body /\ p.out = Pages[sel].out
  <2>1. Pages[sel] \in Contents
    BY <1>1, <1>2, ElementOfSeq
  <2> QED
    BY <2>1, <1>5 DEF Contents
<1> HIDE DEF p
<1>7. \A j \in 1 .. Len(tasks) : names'[j] = IF j = sel THEN t ELSE names[j]
  BY <1>1, <1>3, <1>5, ExceptSeq
<1>8. /\ s \in Seq(Contents) /\ Len(s) = Len(tasks)
      /\ \A j \in 1 .. Len(tasks) : s[j] = IF j = sel THEN p ELSE Pages[j]
  BY <1>1, <1>2, <1>6, ExceptSeq
<1> HIDE DEF s
<1>9. AreShown(s, tasks', names', sel', ed')
  BY <1>1, <1>2, <1>3, <1>4, <1>6, <1>7, <1>8 DEF AreShown, Sees
<1>10. Pages' = [Pages EXCEPT ![sel] = [@ EXCEPT !.name = t]]
  BY <1>2, <1>9 DEF s, p
<1>11. sel \in 1 .. Len(Pages) /\ sel' = sel
  BY <1>1, <1>2, <1>3
<1> QED
  BY <1>4, <1>10, <1>11, Zenon

\* The open page moves and stays open.
LEMMA DropTabPages ==
    ASSUME InStep, InStep', NEW j \in 1 .. Len(tabs) + 1, DropTab(j)
    PROVE  /\ sel \in 1 .. Len(Pages)
           /\ sel' \in 1 .. Len(Pages)
           /\ Pages' = Moved(Pages, sel, sel')
           /\ maxIdx' = maxIdx
<1>1. /\ tasks \in Seq(Task) /\ names \in Seq(Names)
      /\ Len(tasks) \in Nat \ {0} /\ Len(tabs) = Len(tasks) /\ Len(names) = Len(tasks)
      /\ sel \in 1 .. Len(tasks)
  BY Facts DEF DropTab
<1>2. /\ AreShown(Pages, tasks, names, sel, ed)
      /\ Pages \in Seq(Contents) /\ Len(Pages) = Len(tasks)
      /\ DOMAIN Pages = 1 .. Len(tasks)
      /\ \A s : AreShown(s, tasks', names', sel', ed') => Pages' = s
  BY StepPages
<1> DEFINE to == IF sel < j THEN j - 1 ELSE j
           s  == Moved(Pages, sel, to)
<1>3. to \in 1 .. Len(tasks)
  BY <1>1
<1>4. /\ tasks' = Moved(tasks, sel, to)
      /\ names' = Moved(names, sel, to)
      /\ sel' = to /\ maxIdx' = maxIdx /\ ed' = ed
  BY DEF DropTab, win
<1> HIDE DEF to
<1>5. /\ IsMove(Task, tasks', tasks, sel, to)
      /\ IsMove(Names, names', names, sel, to)
      /\ IsMove(Contents, s, Pages, sel, to)
  BY <1>1, <1>2, <1>3, <1>4, MovedProperties
<1> HIDE DEF s
<1>6. s \in Seq(Contents) /\ Len(s) = Len(tasks) /\ Len(tasks') = Len(tasks)
  BY <1>2, <1>5 DEF IsMove
<1>7. \A i \in 1 .. Len(tasks) :
         /\ Origin(sel, to, i) \in 1 .. Len(tasks)
         /\ tasks'[i] = tasks[Origin(sel, to, i)]
         /\ names'[i] = names[Origin(sel, to, i)]
         /\ s[i] = Pages[Origin(sel, to, i)]
  BY <1>1, <1>2, <1>5 DEF IsMove
<1>8. \A i \in 1 .. Len(tasks) : Origin(sel, to, i) = sel <=> i = to
  BY <1>1, <1>3 DEF Origin
<1>9. AreShown(s, tasks', names', sel', ed')
  <2>1. ASSUME NEW i \in 1 .. Len(tasks)
        PROVE  /\ i = to => Sees(s, i, tasks'[i], names'[i], ed)
               /\ i # to => Sees(s, i, tasks'[i], names'[i], tasks'[i])
    <3>1. PICK k \in 1 .. Len(tasks) :
             /\ k = sel <=> i = to
             /\ tasks'[i] = tasks[k] /\ names'[i] = names[k] /\ s[i] = Pages[k]
      BY <1>7, <1>8
    <3>2. /\ k = sel => Sees(Pages, k, tasks[k], names[k], ed)
          /\ k # sel => Sees(Pages, k, tasks[k], names[k], tasks[k])
      BY <1>2 DEF AreShown
    <3> QED
      BY <3>1, <3>2 DEF Sees
  <2> QED
    BY <2>1, <1>4, <1>6 DEF AreShown
<1>10. Pages' = Moved(Pages, sel, to)
  BY <1>2, <1>9 DEF s
<1>11. sel \in 1 .. Len(Pages) /\ to \in 1 .. Len(Pages)
  BY <1>1, <1>2, <1>3
<1> QED
  BY <1>4, <1>10, <1>11

-----------------------------------------------------------------------------
(* The theorem.                                                            *)

\* An open page is one of the pages.
LEMMA OpenIsSome ==
    ASSUME InStep, sel \in 1 .. Len(Pages)
    PROVE  sel # 0 /\ 1 .. Len(Pages) = DOMAIN Pages
<1>1. Pages \in Seq(Contents)
  BY Facts, PagesShown DEF Pages, AreShown
<1> QED
  BY <1>1, LenProperties

\* The dialog for adding fills in a new page.
LEMMA FinishAddPages ==
    ASSUME InStep, InStep', FinishAdd
    PROVE  /\ \E c \in Codes, b \in Bodies :
                 Pages' = Append(Pages, [uid |-> maxIdx + 1, name |-> maxIdx + 1,
                                         code |-> c, body |-> b, out |-> NoOut])
           /\ sel' = Len(Pages) + 1
           /\ maxIdx' = maxIdx + 1
<1>1. PICK c \in Codes :
         AddTask([uid |-> maxIdx + 1, code |-> c, body |-> dlg.body, out |-> NoOut])
  BY DEF FinishAdd
<1> DEFINE t == [uid |-> maxIdx + 1, code |-> c, body |-> dlg.body, out |-> NoOut]
<1>2. dlg.body \in Bodies /\ maxIdx \in Nat
  BY Facts DEF Dialog
<1>3. /\ t \in Task /\ t.uid = maxIdx + 1
      /\ t.code = c /\ t.body = dlg.body /\ t.out = NoOut
  BY <1>2 DEF Task, Outs
<1>4. AddTask(t)
  BY <1>1
<1> HIDE DEF t
<1>5. /\ Pages' = Append(Pages, [uid |-> maxIdx + 1, name |-> maxIdx + 1,
                                 code |-> t.code, body |-> t.body, out |-> t.out])
      /\ sel' = Len(Pages) + 1
      /\ maxIdx' = maxIdx + 1
  BY <1>3, <1>4, AddTaskPages
<1>6. Pages' = Append(Pages, [uid |-> maxIdx + 1, name |-> maxIdx + 1,
                              code |-> c, body |-> dlg.body, out |-> NoOut])
  BY <1>3, <1>5, Zenon
<1> QED
  BY <1>2, <1>5, <1>6

LEMMA InitNotebook == Init => NB!NotebookInit
<1> SUFFICES ASSUME Init PROVE NB!NotebookInit
  OBVIOUS
<1>1. /\ tasks \in Seq(Task) /\ names \in Seq(Names) /\ Len(names) = Len(tasks)
      /\ ed \in Editor /\ Len(tasks) = 0
  BY InitIInv, Facts DEF IInv, Init
<1>2. Pages \in Seq(Contents) /\ Len(Pages) = 0
  BY <1>1, PagesShown DEF Pages, AreShown
<1>3. Pages = <<>> /\ sel = 0 /\ maxIdx = 0
  BY <1>2, EmptySeq DEF Init
<1> QED
  BY <1>3, NotebookSteps

\* The handlers that change the tabs.
TabHandlers ==
    \/ \E n \in DOMAIN tabs : SelectTab(n)
    \/ DeleteTask \/ RenameTask \/ FinishAdd
    \/ \E j \in 1 .. Len(tabs) + 1 : DropTab(j)

LEMMA TabHandlersStep ==
    ASSUME InStep, InStep', TabHandlers
    PROVE  NB!NotebookNext
<1>1. ASSUME NEW n \in DOMAIN tabs, SelectTab(n)
      PROVE  NB!Turn
  BY <1>1, SelectTabPages, NotebookSteps
<1>2. CASE DeleteTask
  <2>1. NB!RemovePage
    BY <1>2, OpenIsSome, DeleteTaskPages, NotebookSteps, Zenon
  <2> QED
    BY <2>1 DEF NB!NotebookNext
<1>3. CASE RenameTask
  <2>1. NB!RenamePage
    BY <1>3, OpenIsSome, RenameTaskPages, NotebookSteps, Zenon
  <2> QED
    BY <2>1 DEF NB!NotebookNext
<1>4. CASE FinishAdd
  <2>1. NB!AddPage
    BY <1>4, FinishAddPages, NotebookSteps, Zenon
  <2> QED
    BY <2>1 DEF NB!NotebookNext
<1>5. ASSUME NEW j \in 1 .. Len(tabs) + 1, DropTab(j)
      PROVE  NB!MovePage
  BY <1>5, OpenIsSome, DropTabPages, NotebookSteps, Zenon
<1> QED
  BY <1>1, <1>2, <1>3, <1>4, <1>5 DEF TabHandlers, NB!NotebookNext

LEMMA StepNotebook ==
    IInv /\ IInv' /\ [InPlaceNext]_vars => [NB!NotebookNext]_(NB!nbVars)
<1> SUFFICES ASSUME IInv, IInv', [InPlaceNext]_vars
             PROVE  NB!NotebookNext \/ UNCHANGED NB!nbVars
  OBVIOUS
<1>0. InStep /\ InStep' /\ TypeOK /\ EdBut({})
  BY DEF IInv, InStep, FreshResults, EdBut
<1>1. CASE ContentChange({})
  BY <1>0, <1>1, ContentStepWrites DEF NB!NotebookNext
<1>2. CASE TypeCode \/ TypeBody
  BY <1>0, <1>1, <1>2, TypingContent
<1>3. CASE Execute
  BY <1>0, <1>1, <1>3, ExecuteContent
<1>4. CASE SaveCurrent
  BY <1>0, <1>1, <1>4, SaveCurrentContent
<1>5. CASE TabHandlers
  BY <1>0, <1>5, TabHandlersStep
<1>6. CASE CancelRename \/ OpenAdd \/ ChooseType \/ CancelDialog
  BY <1>0, <1>1, <1>6, DialogContent
<1>7. CASE OpenEdit
  BY <1>0, <1>1, <1>7, OpenEditContent
<1>8. CASE FinishEdit
  BY <1>0, <1>1, <1>8, FinishEditContent
<1>9. CASE UNCHANGED vars
  BY <1>9, Zenon DEF NB!nbVars, PageOf, vars, exam, pane, win
<1> QED
  BY <1>2, <1>3, <1>4, <1>5, <1>6, <1>7, <1>8, <1>9 DEF InPlaceNext, TabHandlers

(* The window implements the notebook, with any number of tasks: as long as *)
(* the user moves no tab with the context menu, no handler writes what the  *)
(* editor holds to a task other than the one it shows or drops what was     *)
(* typed, and switching, dragging, saving and opening dialogs change no     *)
(* page.                                                                   *)
THEOREM WindowImplementsNotebook == InPlaceSpec => ImplementsNotebook
<1>1. InPlaceSpec => []IInv
  BY InPlaceInvariant
<1> QED
  BY <1>1, InitNotebook, StepNotebook, PTL
  DEF InPlaceSpec, ImplementsNotebook, NB!NotebookSpec

=============================================================================
