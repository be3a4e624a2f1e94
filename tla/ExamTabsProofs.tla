--------------------------- MODULE ExamTabsProofs ---------------------------
(***************************************************************************)
(* Proofs about ExamTabs, for every value of its constants.                *)
(***************************************************************************)
EXTENDS ExamTabs, SequenceTheorems, TLAPS

-----------------------------------------------------------------------------
(* The operations on sequences the handlers are made of.                   *)

\* A function on 1 .. n with values in S is a sequence over S of length n.
LEMMA FunctionIsSequence ==
    ASSUME NEW S, NEW n \in Nat, NEW f, f \in [1 .. n -> S]
    PROVE  f \in Seq(S) /\ Len(f) = n
<1>1. f \in UNION {[1 .. m -> S] : m \in Nat}
  OBVIOUS
<1>2. f \in Seq(S)
  BY <1>1, SeqDef
<1>3. DOMAIN f = 1 .. Len(f) /\ Len(f) \in Nat
  BY <1>2, LenProperties
<1> QED
  BY <1>2, <1>3

\* r is s without its i-th element: the gap is closed.
IsRemoval(S, r, s, i) ==
    /\ r \in Seq(S)
    /\ Len(r) = Len(s) - 1
    /\ \A j \in 1 .. Len(s) - 1 : r[j] = IF j < i THEN s[j] ELSE s[j + 1]

LEMMA RemoveAtProperties ==
    ASSUME NEW S
    PROVE  \A s \in Seq(S) : \A i \in 1 .. Len(s) :
              IsRemoval(S, RemoveAt(s, i), s, i)
<1> TAKE s \in Seq(S)
<1> TAKE i \in 1 .. Len(s)
<1> DEFINE a == SubSeq(s, 1, i - 1)
           b == SubSeq(s, i + 1, Len(s))
<1>1. Len(s) \in Nat /\ \A j \in 1 .. Len(s) : s[j] \in S
  BY LenProperties, ElementOfSeq
<1>2. /\ a \in Seq(S)
      /\ Len(a) = i - 1
      /\ \A j \in 1 .. i - 1 : a[j] = s[j]
  BY <1>1, SubSeqProperties
<1>3. /\ b \in Seq(S)
      /\ Len(b) = Len(s) - i
      /\ \A j \in 1 .. Len(s) - i : b[j] = s[i + j]
  BY <1>1, SubSeqProperties
<1>4. /\ a \o b \in Seq(S)
      /\ Len(a \o b) = Len(a) + Len(b)
      /\ \A j \in 1 .. Len(a) + Len(b) :
            (a \o b)[j] = IF j <= Len(a) THEN a[j] ELSE b[j - Len(a)]
  BY <1>2, <1>3, ConcatProperties
<1>5. RemoveAt(s, i) = a \o b
  BY DEF RemoveAt
<1> HIDE DEF a, b
<1>6. ASSUME NEW j \in 1 .. Len(s) - 1
      PROVE  (a \o b)[j] = IF j < i THEN s[j] ELSE s[j + 1]
  <2>1. (a \o b)[j] = IF j <= i - 1 THEN a[j] ELSE b[j - (i - 1)]
    BY <1>1, <1>2, <1>3, <1>4
  <2>2. CASE j < i
    BY <2>1, <2>2, <1>1, <1>2
  <2>3. CASE ~(j < i)
    <3>1. j - (i - 1) \in 1 .. Len(s) - i /\ i + (j - (i - 1)) = j + 1
      BY <2>3, <1>1
    <3>2. b[j - (i - 1)] = s[j + 1]
      BY <3>1, <1>3
    <3> QED
      BY <2>1, <2>3, <3>2, <1>1
  <2> QED
    BY <2>2, <2>3
<1>7. a \o b \in Seq(S) /\ Len(a \o b) = Len(s) - 1
  BY <1>1, <1>2, <1>3, <1>4
<1> QED
  BY <1>5, <1>6, <1>7 DEF IsRemoval

\* r is s with e put before its i-th element.
IsInsertion(S, r, s, i, e) ==
    /\ r \in Seq(S)
    /\ Len(r) = Len(s) + 1
    /\ \A j \in 1 .. Len(s) + 1 :
          r[j] = IF j < i THEN s[j] ELSE IF j = i THEN e ELSE s[j - 1]

LEMMA InsertAtProperties ==
    ASSUME NEW S
    PROVE  \A s \in Seq(S) : \A i \in 1 .. Len(s) + 1 : \A e \in S :
              IsInsertion(S, InsertAt(s, i, e), s, i, e)
<1> TAKE s \in Seq(S)
<1> TAKE i \in 1 .. Len(s) + 1
<1> TAKE e \in S
<1> DEFINE a == SubSeq(s, 1, i - 1)
           b == SubSeq(s, i, Len(s))
           m == <<e>>
<1>1. Len(s) \in Nat /\ \A j \in 1 .. Len(s) : s[j] \in S
  BY LenProperties, ElementOfSeq
<1>2. /\ a \in Seq(S)
      /\ Len(a) = i - 1
      /\ \A j \in 1 .. i - 1 : a[j] = s[j]
  BY <1>1, SubSeqProperties
<1>3. /\ b \in Seq(S)
      /\ Len(b) = Len(s) - i + 1
      /\ \A j \in 1 .. Len(s) - i + 1 : b[j] = s[i + j - 1]
  BY <1>1, SubSeqProperties
<1>4. m \in Seq(S) /\ Len(m) = 1 /\ m[1] = e
  OBVIOUS
<1> HIDE DEF a, b, m
<1>5. /\ a \o m \in Seq(S)
      /\ Len(a \o m) = i
      /\ \A j \in 1 .. i : (a \o m)[j] = IF j < i THEN a[j] ELSE e
  <2>1. /\ a \o m \in Seq(S)
        /\ Len(a \o m) = Len(a) + Len(m)
        /\ \A j \in 1 .. Len(a) + Len(m) :
              (a \o m)[j] = IF j <= Len(a) THEN a[j] ELSE m[j - Len(a)]
    BY <1>2, <1>4, ConcatProperties
  <2> QED
    BY <2>1, <1>1, <1>2, <1>4
<1>6. /\ (a \o m) \o b \in Seq(S)
      /\ Len((a \o m) \o b) = Len(a \o m) + Len(b)
      /\ \A j \in 1 .. Len(a \o m) + Len(b) :
            ((a \o m) \o b)[j] =
               IF j <= Len(a \o m) THEN (a \o m)[j] ELSE b[j - Len(a \o m)]
  BY <1>5, <1>3, ConcatProperties
<1>7. InsertAt(s, i, e) = (a \o m) \o b
  BY DEF InsertAt, a, b, m
<1> QED
  BY <1>1, <1>2, <1>3, <1>5, <1>6, <1>7 DEF IsInsertion

\* Where the elements are after one of them has moved from p to q.
Origin(p, q, j) ==
    IF j = q THEN p
    ELSE IF j < q THEN (IF j < p THEN j ELSE j + 1)
    ELSE (IF j - 1 < p THEN j - 1 ELSE j)

\* r is a permutation of s: position j holds what was at Origin(p, q, j).
IsMove(S, r, s, p, q) ==
    /\ r \in Seq(S)
    /\ Len(r) = Len(s)
    /\ \A j \in 1 .. Len(s) : Origin(p, q, j) \in 1 .. Len(s) /\ r[j] = s[Origin(p, q, j)]

LEMMA MovedProperties ==
    ASSUME NEW S
    PROVE  \A s \in Seq(S) : \A p \in 1 .. Len(s) : \A q \in 1 .. Len(s) :
              IsMove(S, Moved(s, p, q), s, p, q)
<1> TAKE s \in Seq(S)
<1> TAKE p \in 1 .. Len(s)
<1> TAKE q \in 1 .. Len(s)
<1> DEFINE r == RemoveAt(s, p)
<1>1. Len(s) \in Nat /\ s[p] \in S
  BY LenProperties, ElementOfSeq
<1>2. IsRemoval(S, r, s, p)
  BY RemoveAtProperties
<1>3. Moved(s, p, q) = InsertAt(r, q, s[p])
  BY DEF Moved
<1> HIDE DEF r
<1>4. r \in Seq(S) /\ q \in 1 .. Len(r) + 1
  BY <1>1, <1>2 DEF IsRemoval
<1>5. IsInsertion(S, InsertAt(r, q, s[p]), r, q, s[p])
  BY <1>1, <1>4, InsertAtProperties
<1> QED
  BY <1>1, <1>2, <1>3, <1>5 DEF IsRemoval, IsInsertion, IsMove, Origin

-----------------------------------------------------------------------------
(* What the calls of the handlers do to the tasks and the tabs.            *)

\* us is ts with task k replaced by t, which has the same uid.
IsUpdate(us, ts, k, t) ==
    /\ us \in Seq(Task)
    /\ Len(us) = Len(ts)
    /\ t.uid = ts[k].uid
    /\ \A j \in 1 .. Len(ts) : us[j] = IF j = k THEN t ELSE ts[j]

\* saveTaskInfo changes one task, to what the editor holds.
LEMMA SaveTaskInfoProperties ==
    ASSUME ed \in Editor
    PROVE  \A ts \in Seq(Task) : \A k \in DOMAIN ts :
              IsUpdate(SaveTaskInfo(ts, k), ts, k,
                       [uid |-> ts[k].uid, code |-> ed.code, body |-> ed.body,
                        out |-> ed.out])
<1> TAKE ts \in Seq(Task)
<1> TAKE k \in DOMAIN ts
<1> DEFINE t == [ts[k] EXCEPT !.code = ed.code, !.body = ed.body, !.out = ed.out]
<1>0. k \in 1 .. Len(ts)
  BY LenProperties
<1>1. ts[k] \in Task
  BY <1>0, ElementOfSeq
<1>2. t \in Task /\ t = [uid |-> ts[k].uid, code |-> ed.code,
                         body |-> ed.body, out |-> ed.out]
  <2>1. ed.code \in Codes /\ ed.body \in Bodies /\ ed.out \in Outs
    BY DEF Editor
  <2>2. ASSUME NEW u \in Task, NEW c \in Codes, NEW b \in Bodies, NEW o \in Outs
        PROVE  [u EXCEPT !.code = c, !.body = b, !.out = o]
                  = [uid |-> u.uid, code |-> c, body |-> b, out |-> o]
    <3> DEFINE u1 == [u EXCEPT !.code = c]
               u2 == [u1 EXCEPT !.body = b]
    <3>1. u1 \in Task /\ u1 = [uid |-> u.uid, code |-> c, body |-> u.body, out |-> u.out]
      BY DEF Task
    <3> HIDE DEF u1
    <3>2. u2 \in Task /\ u2 = [uid |-> u.uid, code |-> c, body |-> b, out |-> u.out]
      BY <3>1 DEF Task
    <3> HIDE DEF u2
    <3>3. [u2 EXCEPT !.out = o] = [uid |-> u.uid, code |-> c, body |-> b, out |-> o]
      BY <3>2 DEF Task
    <3> QED
      BY <3>3 DEF u1, u2
  <2>3. t = [uid |-> ts[k].uid, code |-> ed.code, body |-> ed.body, out |-> ed.out]
    BY <1>1, <2>1, <2>2
  <2>4. ts[k].uid \in Nat
    BY <1>1 DEF Task
  <2> QED
    BY <2>1, <2>3, <2>4 DEF Task
<1>4. SaveTaskInfo(ts, k) = [ts EXCEPT ![k] = t]
  BY DEF SaveTaskInfo
<1> HIDE DEF t
<1>5. /\ [ts EXCEPT ![k] = t] \in Seq(Task)
      /\ Len([ts EXCEPT ![k] = t]) = Len(ts)
      /\ \A j \in 1 .. Len(ts) : [ts EXCEPT ![k] = t][j] = IF j = k THEN t ELSE ts[j]
  BY <1>0, <1>2, ExceptSeq
<1>6. t.uid = ts[k].uid
  BY <1>2
<1> QED
  BY <1>2, <1>4, <1>5, <1>6 DEF IsUpdate

LEMMA SaveTextProperties ==
    ASSUME ed \in Editor
    PROVE  \A ts \in Seq(Task) : \A k \in DOMAIN ts :
              IsUpdate(SaveText(ts, k), ts, k,
                       [uid |-> ts[k].uid, code |-> ed.code, body |-> ts[k].body,
                        out |-> ts[k].out])
<1> TAKE ts \in Seq(Task)
<1> TAKE k \in DOMAIN ts
<1> DEFINE t == [ts[k] EXCEPT !.code = ed.code]
<1>0. k \in 1 .. Len(ts)
  BY LenProperties
<1>1. ts[k] \in Task
  BY <1>0, ElementOfSeq
<1>2. t \in Task /\ t = [uid |-> ts[k].uid, code |-> ed.code,
                         body |-> ts[k].body, out |-> ts[k].out]
  BY <1>1 DEF Task, Editor, Outs
<1>4. SaveText(ts, k) = [ts EXCEPT ![k] = t]
  BY DEF SaveText
<1> HIDE DEF t
<1>5. /\ [ts EXCEPT ![k] = t] \in Seq(Task)
      /\ Len([ts EXCEPT ![k] = t]) = Len(ts)
      /\ \A j \in 1 .. Len(ts) : [ts EXCEPT ![k] = t][j] = IF j = k THEN t ELSE ts[j]
  BY <1>0, <1>2, ExceptSeq
<1>6. t.uid = ts[k].uid
  BY <1>2
<1> QED
  BY <1>2, <1>4, <1>5, <1>6 DEF IsUpdate

\* ub is tb with every id set to the position and nothing else changed.
IsRenumbering(ub, tb) ==
    /\ ub \in Seq(Tab)
    /\ Len(ub) = Len(tb)
    /\ \A j \in 1 .. Len(tb) : /\ ub[j].uid = tb[j].uid
                               /\ ub[j].name = tb[j].name
                               /\ ub[j].id = j
                               /\ ub[j].menu = tb[j].menu

LEMMA RenumberedProperties == \A tb \in Seq(Tab) : IsRenumbering(Renumbered(tb), tb)
<1> TAKE tb \in Seq(Tab)
<1>1. Len(tb) \in Nat /\ DOMAIN tb = 1 .. Len(tb)
  BY LenProperties
<1>2. \A j \in 1 .. Len(tb) :
         /\ [tb[j] EXCEPT !.id = j] \in Tab
         /\ [tb[j] EXCEPT !.id = j] = [uid |-> tb[j].uid, name |-> tb[j].name,
                                       id |-> j, menu |-> tb[j].menu]
  <2>1. ASSUME NEW u \in Tab, NEW j \in Nat
        PROVE  /\ [u EXCEPT !.id = j] \in Tab
               /\ [u EXCEPT !.id = j] =
                     [uid |-> u.uid, name |-> u.name, id |-> j, menu |-> u.menu]
    BY DEF Tab
  <2>2. \A j \in 1 .. Len(tb) : j \in Nat /\ tb[j] \in Tab
    BY <1>1, ElementOfSeq
  <2> QED
    BY <2>1, <2>2
<1>3. Renumbered(tb) \in [1 .. Len(tb) -> Tab]
  BY <1>1, <1>2 DEF Renumbered
<1> QED
  BY <1>1, <1>2, <1>3, FunctionIsSequence DEF Renumbered, IsRenumbering

\* ub is tb with the menu switched off at o and on at n.
IsMenuSwitch(ub, tb, o, n) ==
    /\ ub \in Seq(Tab)
    /\ Len(ub) = Len(tb)
    /\ \A j \in 1 .. Len(tb) : /\ ub[j].uid = tb[j].uid
                               /\ ub[j].name = tb[j].name
                               /\ ub[j].id = tb[j].id
                               /\ ub[j].menu => j = n \/ (j # o /\ tb[j].menu)

LEMMA MenuOnProperties ==
    ASSUME NEW o, NEW n
    PROVE  \A tb \in Seq(Tab) : IsMenuSwitch(MenuOn(tb, o, n), tb, o, n)
<1> TAKE tb \in Seq(Tab)
<1> DEFINE m(j) == IF j = n THEN TRUE ELSE IF j = o THEN FALSE ELSE tb[j].menu
<1>1. Len(tb) \in Nat /\ DOMAIN tb = 1 .. Len(tb)
  BY LenProperties
<1>2. \A j \in 1 .. Len(tb) :
         /\ [tb[j] EXCEPT !.menu = m(j)] \in Tab
         /\ [tb[j] EXCEPT !.menu = m(j)] =
               [uid |-> tb[j].uid, name |-> tb[j].name,
                id |-> tb[j].id, menu |-> m(j)]
  <2>1. ASSUME NEW u \in Tab, NEW b \in BOOLEAN
        PROVE  /\ [u EXCEPT !.menu = b] \in Tab
               /\ [u EXCEPT !.menu = b] =
                     [uid |-> u.uid, name |-> u.name, id |-> u.id, menu |-> b]
    BY DEF Tab
  <2>2. \A j \in 1 .. Len(tb) : tb[j] \in Tab
    BY ElementOfSeq
  <2>3. \A j \in 1 .. Len(tb) : m(j) \in BOOLEAN
    BY <2>2 DEF Tab
  <2> QED
    BY <2>1, <2>2, <2>3
<1>3. \A j \in 1 .. Len(tb) : MenuOn(tb, o, n)[j] = [tb[j] EXCEPT !.menu = m(j)]
  BY <1>1 DEF MenuOn
<1>4. MenuOn(tb, o, n) \in [1 .. Len(tb) -> Tab]
  BY <1>1, <1>2 DEF MenuOn
<1>5. MenuOn(tb, o, n) \in Seq(Tab) /\ Len(MenuOn(tb, o, n)) = Len(tb)
  BY <1>1, <1>4, FunctionIsSequence
<1>6. \A j \in 1 .. Len(tb) :
         /\ MenuOn(tb, o, n)[j].uid = tb[j].uid
         /\ MenuOn(tb, o, n)[j].name = tb[j].name
         /\ MenuOn(tb, o, n)[j].id = tb[j].id
  <2> HIDE DEF m
  <2> TAKE j \in 1 .. Len(tb)
  <2>1. /\ [tb[j] EXCEPT !.menu = m(j)].uid = tb[j].uid
        /\ [tb[j] EXCEPT !.menu = m(j)].name = tb[j].name
        /\ [tb[j] EXCEPT !.menu = m(j)].id = tb[j].id
    BY <1>2
  <2>2. MenuOn(tb, o, n)[j] = [tb[j] EXCEPT !.menu = m(j)]
    BY <1>3
  <2> QED
    BY <2>1, <2>2, Zenon
<1>7. \A j \in 1 .. Len(tb) :
         MenuOn(tb, o, n)[j].menu => j = n \/ (j # o /\ tb[j].menu)
  <2>1. \A j \in 1 .. Len(tb) : MenuOn(tb, o, n)[j].menu = m(j)
    <3> HIDE DEF m
    <3> QED
      BY <1>2, <1>3
  <2> QED
    BY <2>1
<1> QED
  BY <1>5, <1>6, <1>7 DEF IsMenuSwitch

\* When the ids are the positions, the listener saves the editor to the task
\* of the tab left and displays that of the tab entered.
LEMMA SwitchEffect ==
    ASSUME NEW ts \in Seq(Task), NEW tb \in Seq(Tab), Len(ts) = Len(tb),
           \A k \in 1 .. Len(tb) : tb[k].id = k,
           NEW o \in 0 .. Len(tb), NEW n \in 1 .. Len(tb), NEW i,
           ed \in Editor,
           SwitchEvent(ts, tb, o, n, i)
    PROVE  /\ status' = "SWITCH"
           /\ tasks' = IF o = 0 THEN ts ELSE SaveTaskInfo(ts, o)
           /\ tasks' \in Seq(Task) /\ Len(tasks') = Len(ts)
           /\ tabs' = MenuOn(tb, o, n)
           /\ idx' = n
           /\ ed' = [code |-> tasks'[n].code, body |-> tasks'[n].body,
                     out |-> tasks'[n].out]
           /\ shown' = tasks'[n].uid
<1>1. /\ Len(ts) \in Nat
      /\ DOMAIN ts = 1 .. Len(ts)
  BY LenProperties
<1>2. ~(o # 0 /\ tb[o].id \notin DOMAIN ts)
  BY <1>1
<1>3. /\ status' = "SWITCH"
      /\ tasks' = IF o = 0 THEN ts ELSE SaveTaskInfo(ts, o)
      /\ tabs' = MenuOn(tb, o, n)
      /\ UpdateWindow(tasks', tb[n].id, i)
  BY <1>1, <1>2 DEF SwitchEvent
<1>4. tasks' \in Seq(Task) /\ Len(tasks') = Len(ts)
  <2>1. CASE o = 0
    BY <2>1, <1>3
  <2>2. CASE o # 0
    <3>1. o \in DOMAIN ts
      BY <2>2, <1>1
    <3>2. \E t : IsUpdate(SaveTaskInfo(ts, o), ts, o, t)
      BY <3>1, SaveTaskInfoProperties
    <3> QED
      BY <3>2, <2>2, <1>3 DEF IsUpdate
  <2> QED
    BY <2>1, <2>2
<1>5. n \in DOMAIN tasks'
  BY <1>4, LenProperties
<1> QED
  BY <1>3, <1>4, <1>5 DEF UpdateWindow

\* When the editor's tab was the one deleted, the tabs are renumbered and the
\* task of the new selection is displayed, if one is left.
LEMMA DeleteEffect ==
    ASSUME NEW ts \in Seq(Task), NEW tb \in Seq(Tab), Len(ts) = Len(tb),
           NEW oldId \in Nat \ {0}, NEW n \in 0 .. Len(tb),
           n = 0 => Len(tb) = 0 /\ oldId = 1,
           oldId = 1 /\ Len(tb) # 0 => n = 1,
           DeleteEvent(ts, tb, oldId, n)
    PROVE  /\ status' = "SWITCH"
           /\ tasks' = ts
           /\ tabs' = Renumbered(tb)
           /\ n # 0 => /\ idx' = n
                       /\ ed' = [code |-> ts[n].code, body |-> ts[n].body,
                                 out |-> ts[n].out]
                       /\ shown' = ts[n].uid
           /\ n = 0 => idx' = idx /\ UNCHANGED <<ed, shown>>
<1>1. /\ Len(ts) \in Nat
      /\ DOMAIN ts = 1 .. Len(ts)
  BY LenProperties
<1>2. CASE n = 0
  <2>1. oldId = 1 /\ 1 \notin DOMAIN ts
    BY <1>1, <1>2
  <2> QED
    BY <2>1, <1>2 DEF DeleteEvent, UpdateWindow, win
<1>3. CASE n # 0
  <2>1. n \in DOMAIN ts /\ (oldId = 1 => n = 1)
    BY <1>1, <1>3
  <2> QED
    BY <2>1, <1>3 DEF DeleteEvent, UpdateWindow
<1> QED
  BY <1>2, <1>3

-----------------------------------------------------------------------------
(* The inductive invariant.                                                *)

\* The selected tab, Exam.idx, the ids of the tabs, the lists of the exam and
\* the editor are in step.
InStep ==
    /\ TypeOK
    /\ IdxIsSelected
    /\ TabsMatchTasks
    /\ ListenerArmed
    /\ EditorShowsCurrent
    /\ MenuOnSelectedOnly

\* Outputs are fresh, but for those in G.
FreshBut(G) ==
    /\ ed.out \in {NoOut, ed.code} \cup G
    /\ \A i \in DOMAIN tasks \ {idx} : tasks[i].out \in {NoOut, tasks[i].code} \cup G

\* What the steps preserve for any G: that the window is in step depends on no
\* output, and loaded tasks come with the outputs of another session.
InvBut(G) == InStep /\ FreshBut(G)

IInv == InStep /\ FreshResults

LEMMA NoneStale ==
    /\ IInv <=> InvBut({})
    /\ IInv' <=> InvBut({})'
BY DEF IInv, InvBut, FreshBut, FreshResults

LEMMA InitIInv == Init => IInv
<1> SUFFICES ASSUME Init PROVE IInv
  OBVIOUS
<1>1. TypeOK
  BY TabsAssumption
  DEF Init, TypeOK, Statuses, Editor, Outs, Dialog, Closed
<1>2. Len(tasks) = 0 /\ Len(tabs) = 0 /\ Len(names) = 0
      /\ DOMAIN tasks = {} /\ DOMAIN tabs = {}
  BY DEF Init
<1> QED
  BY <1>1, <1>2
  DEF Init, IInv, InStep, IdxIsSelected, TabsMatchTasks, ListenerArmed,
      EditorShowsCurrent, MenuOnSelectedOnly, FreshResults

\* The invariant in terms of positions: what every step starts from.
LEMMA Facts ==
    ASSUME InStep
    PROVE  /\ Len(tasks) \in Nat /\ Len(tabs) = Len(tasks) /\ Len(names) = Len(tasks)
           /\ DOMAIN tasks = 1 .. Len(tasks)
           /\ DOMAIN tabs = 1 .. Len(tasks)
           /\ DOMAIN names = 1 .. Len(tasks)
           /\ tasks \in Seq(Task) /\ tabs \in Seq(Tab) /\ names \in Seq(Names)
           /\ ed \in Editor /\ dlg \in Dialog /\ maxIdx \in Nat /\ shown \in Nat
           /\ status = "SWITCH"
           /\ \A k \in 1 .. Len(tasks) : /\ tabs[k].id = k
                                         /\ tabs[k].uid = tasks[k].uid
                                         /\ tabs[k].name = names[k]
           /\ tasks = <<>> <=> Len(tasks) = 0
           /\ Len(tasks) = 0 => sel = 0
           /\ Len(tasks) # 0 => sel = idx /\ sel \in 1 .. Len(tasks)
           /\ idx \in Nat \ {0}
<1>1. TypeOK
  BY DEF InStep
<1>2. /\ Len(tasks) \in Nat /\ DOMAIN tasks = 1 .. Len(tasks)
      /\ Len(tabs) \in Nat /\ DOMAIN tabs = 1 .. Len(tabs)
      /\ Len(names) \in Nat /\ DOMAIN names = 1 .. Len(names)
  BY <1>1, LenProperties DEF TypeOK
<1>3. Len(tabs) = Len(tasks) /\ Len(names) = Len(tasks)
  BY DEF InStep, TabsMatchTasks
<1>4. /\ tasks = <<>> <=> Len(tasks) = 0
      /\ tabs = <<>> <=> Len(tabs) = 0
  BY <1>1, <1>2, EmptySeq DEF TypeOK
<1>5. sel = 0 <=> Len(tasks) = 0
  BY <1>3, <1>4 DEF InStep, ListenerArmed
<1>6. sel \in 0 .. Len(tabs)
  BY <1>1 DEF TypeOK
<1>7. Len(tasks) # 0 => sel = idx /\ sel \in 1 .. Len(tasks)
  BY <1>2, <1>3, <1>4, <1>5, <1>6 DEF InStep, IdxIsSelected
<1>8. \A k \in 1 .. Len(tasks) : /\ tabs[k].id = k
                                 /\ tabs[k].uid = tasks[k].uid
                                 /\ tabs[k].name = names[k]
  BY <1>2, <1>3 DEF InStep, TabsMatchTasks
<1> QED
  BY <1>1, <1>2, <1>3, <1>4, <1>5, <1>7, <1>8
  DEF InStep, TypeOK, ListenerArmed

\* Whether the window is in step does not depend on the outputs.
LEMMA AnyOutput ==
    /\ InStep => InvBut(Outs)
    /\ InvBut(Outs)' => InStep'
<1>1. ASSUME InStep PROVE FreshBut(Outs)
  <2>1. tasks \in Seq(Task) /\ DOMAIN tasks = 1 .. Len(tasks) /\ ed \in Editor
    BY <1>1, Facts
  <2>2. \A i \in DOMAIN tasks : tasks[i] \in Task
    BY <2>1, ElementOfSeq
  <2> QED
    BY <2>1, <2>2 DEF FreshBut, Task, Editor
<1> QED
  BY <1>1 DEF InvBut

\* What is shown as output is fresh, or in G.
EdBut(G) == ed.out \in {NoOut, ed.code} \cup G

\* A step that only changes contents: the editor, the dialog and the task at
\* Exam.idx, wherever that is.
ContentChange(G) ==
    /\ UNCHANGED <<names, maxIdx, idx, tabs, sel, shown>>
    /\ status' \in {status, "SWITCH"}
    /\ tasks' \in Seq(Task)
    /\ Len(tasks') = Len(tasks)
    /\ \A j \in 1 .. Len(tasks) : /\ tasks'[j].uid = tasks[j].uid
                                  /\ j # idx => tasks'[j] = tasks[j]
    /\ ed' \in Editor
    /\ EdBut(G)'
    /\ dlg' \in Dialog

LEMMA ContentStep ==
    ASSUME NEW G, InvBut(G), ContentChange(G)
    PROVE  InvBut(G)'
<1>0. /\ UNCHANGED <<names, maxIdx, idx, tabs, sel, status, shown>>
      /\ tasks' \in Seq(Task) /\ Len(tasks') = Len(tasks)
      /\ \A j \in 1 .. Len(tasks) : /\ tasks'[j].uid = tasks[j].uid
                                    /\ j # idx => tasks'[j] = tasks[j]
      /\ ed' \in Editor /\ ed'.out \in {NoOut, ed'.code} \cup G /\ dlg' \in Dialog
  BY Facts DEF ContentChange, EdBut, InvBut
<1>1. TypeOK'
  BY <1>0 DEF InvBut, InStep, TypeOK
<1>2. /\ DOMAIN tasks = 1 .. Len(tasks) /\ Len(tasks) \in Nat
      /\ DOMAIN tabs = 1 .. Len(tasks)
      /\ tasks = <<>> <=> Len(tasks) = 0
      /\ Len(tasks) # 0 => idx \in 1 .. Len(tasks)
  BY Facts DEF InvBut
<1>3. /\ DOMAIN tasks' = 1 .. Len(tasks)
      /\ tasks' = <<>> <=> Len(tasks) = 0
  BY <1>0, LenProperties, EmptySeq
<1>4. IdxIsSelected' /\ TabsMatchTasks' /\ ListenerArmed'
      /\ EditorShowsCurrent' /\ MenuOnSelectedOnly'
  BY <1>0, <1>2, <1>3
  DEF InvBut, InStep, IdxIsSelected, TabsMatchTasks, ListenerArmed,
      EditorShowsCurrent, MenuOnSelectedOnly
<1>5. FreshBut(G)'
  BY <1>0, <1>2, <1>3 DEF InvBut, InStep, FreshBut
<1> QED
  BY <1>1, <1>4, <1>5 DEF InvBut, InStep

-----------------------------------------------------------------------------
(* Every action preserves it.  First those that only change contents: they *)
(* do no more wherever Exam.idx points.                                    *)

\* What the lemmas on contents start from.
LEMMA TypedContents ==
    ASSUME TypeOK
    PROVE  /\ tasks \in Seq(Task) /\ DOMAIN tasks = 1 .. Len(tasks)
           /\ ed \in Editor /\ dlg \in Dialog /\ maxIdx \in Nat
BY LenProperties DEF TypeOK

\* saveText and saveTaskInfo change the task they are called for.
LEMMA SavingChanges ==
    ASSUME TypeOK, idx \in DOMAIN tasks,
           NEW us \in {SaveText(tasks, idx), SaveTaskInfo(tasks, idx)}
    PROVE  /\ us \in Seq(Task) /\ Len(us) = Len(tasks)
           /\ \A j \in 1 .. Len(tasks) : /\ us[j].uid = tasks[j].uid
                                         /\ j # idx => us[j] = tasks[j]
<1>1. \E t : IsUpdate(us, tasks, idx, t)
  BY TypedContents, SaveTextProperties, SaveTaskInfoProperties
<1> QED
  BY <1>1 DEF IsUpdate

\* Dialogs that open, close or are filled in.
LEMMA DialogContent ==
    ASSUME NEW G, TypeOK, EdBut(G), CancelRename \/ OpenAdd \/ ChooseType \/ CancelDialog
    PROVE  ContentChange(G)
<1>1. UNCHANGED <<exam, tabs, sel, win>> /\ status' \in {status, "SWITCH"}
  BY DEF CancelRename, OpenAdd, ChooseType, CancelDialog, exam, pane, win
<1>2. dlg' \in Dialog
  <2>1. dlg \in Dialog
    BY TypedContents
  <2>2. ASSUME NEW b \in Bodies, dlg' = [dlg EXCEPT !.ready = TRUE, !.body = b]
        PROVE  dlg' \in Dialog
    <3> DEFINE d == [dlg EXCEPT !.ready = TRUE]
    <3>1. d \in Dialog
      BY <2>1 DEF Dialog
    <3>2. dlg' = [d EXCEPT !.body = b]
      BY <2>2
    <3> HIDE DEF d
    <3> QED
      BY <3>1, <3>2 DEF Dialog
  <2>3. CASE ChooseType
    BY <2>2, <2>3 DEF ChooseType
  <2>4. CASE CancelRename
    BY <2>1, <2>4 DEF CancelRename
  <2>5. CASE OpenAdd
    BY <2>5, TabsAssumption DEF OpenAdd, Dialog
  <2>6. CASE CancelDialog
    BY <2>6, TabsAssumption DEF CancelDialog, Dialog, Closed
  <2> QED
    BY <2>3, <2>4, <2>5, <2>6
<1>3. ed \in Editor /\ tasks \in Seq(Task)
  BY TypedContents
<1> QED
  BY <1>1, <1>2, <1>3 DEF ContentChange, EdBut, exam, win

LEMMA TypingContent ==
    ASSUME NEW G, TypeOK, EdBut(G), TypeCode \/ TypeBody
    PROVE  ContentChange(G)
<1>1. UNCHANGED <<exam, pane, shown, dlg>>
  BY DEF TypeCode, TypeBody
<1>2. ed \in Editor /\ tasks \in Seq(Task) /\ dlg \in Dialog
  BY TypedContents
<1>3. ed' \in Editor /\ ed'.out \in {NoOut, ed'.code} \cup G
  BY <1>2 DEF TypeCode, TypeBody, Editor, Outs, EdBut
<1> QED
  BY <1>1, <1>2, <1>3 DEF ContentChange, EdBut, exam, pane

LEMMA ExecuteContent ==
    ASSUME NEW G, TypeOK, EdBut(G), Execute
    PROVE  ContentChange(G)
<1>1. /\ tasks \in Seq(Task) /\ DOMAIN tasks = 1 .. Len(tasks)
      /\ ed \in Editor /\ dlg \in Dialog
  BY TypedContents
<1>2. UNCHANGED <<names, maxIdx, idx, tabs, sel, status, shown, dlg>>
  BY DEF Execute, pane
<1>3. ASSUME NEW o \in {NoOut, ed.code}, Finishes(o)
      PROVE  ContentChange(G)
  <2> DEFINE saved == SaveText(tasks, idx)
             t == [saved[idx] EXCEPT !.out = o]
  <2>1. idx \in DOMAIN tasks
    BY <1>3 DEF Finishes
  <2>2. /\ saved \in Seq(Task) /\ Len(saved) = Len(tasks)
        /\ \A j \in 1 .. Len(tasks) : /\ saved[j].uid = tasks[j].uid
                                      /\ j # idx => saved[j] = tasks[j]
    BY <2>1, SavingChanges
  <2> HIDE DEF saved
  <2>3. tasks' = [saved EXCEPT ![idx] = t]
    BY <1>1, <1>3, <2>1, <2>2, LenProperties DEF Finishes, saved
  <2>4. saved[idx] \in Task /\ o \in Outs
    BY <1>1, <2>1, <2>2, ElementOfSeq DEF Editor, Outs
  <2>5. t \in Task /\ t.uid = saved[idx].uid
    BY <2>4 DEF Task
  <2> HIDE DEF t
  <2>6. /\ tasks' \in Seq(Task) /\ Len(tasks') = Len(tasks)
        /\ \A j \in 1 .. Len(tasks) : tasks'[j] = IF j = idx THEN t ELSE saved[j]
    BY <1>1, <2>1, <2>2, <2>3, <2>5, ExceptSeq
  <2>7. \A j \in 1 .. Len(tasks) : /\ tasks'[j].uid = tasks[j].uid
                                   /\ j # idx => tasks'[j] = tasks[j]
    BY <2>2, <2>5, <2>6
  <2>8. ed' \in Editor /\ ed'.out \in {NoOut, ed'.code} \cup G
    BY <1>1, <1>3, <2>4 DEF Finishes, Editor
  <2> QED
    BY <1>1, <1>2, <2>6, <2>7, <2>8 DEF ContentChange, EdBut
<1>4. ASSUME Throws
      PROVE  ContentChange(G)
  <2>1. /\ tasks' \in Seq(Task) /\ Len(tasks') = Len(tasks)
        /\ \A j \in 1 .. Len(tasks) : /\ tasks'[j].uid = tasks[j].uid
                                      /\ j # idx => tasks'[j] = tasks[j]
    <3>1. CASE idx \in DOMAIN tasks
      BY <1>4, <3>1, SavingChanges DEF Throws
    <3>2. CASE idx \notin DOMAIN tasks
      BY <1>1, <1>4, <3>2 DEF Throws
    <3> QED
      BY <3>1, <3>2
  <2>2. ed' \in Editor /\ ed'.out \in {NoOut, ed'.code} \cup G
    BY <1>1, <1>4 DEF Throws, Editor, Outs
  <2> QED
    BY <1>1, <1>2, <2>1, <2>2 DEF ContentChange, EdBut
<1> QED
  BY <1>3, <1>4 DEF Execute

LEMMA SaveCurrentContent ==
    ASSUME NEW G, TypeOK, EdBut(G), SaveCurrent
    PROVE  ContentChange(G)
<1>1. tasks \in Seq(Task) /\ idx \in DOMAIN tasks /\ ed \in Editor /\ dlg \in Dialog
  BY TypedContents DEF SaveCurrent
<1>2. tasks' = SaveTaskInfo(tasks, idx)
      /\ UNCHANGED <<names, maxIdx, idx, tabs, sel, status, ed, shown, dlg>>
  BY DEF SaveCurrent, pane, win
<1>3. /\ tasks' \in Seq(Task) /\ Len(tasks') = Len(tasks)
      /\ \A j \in 1 .. Len(tasks) : /\ tasks'[j].uid = tasks[j].uid
                                    /\ j # idx => tasks'[j] = tasks[j]
  BY <1>1, <1>2, SavingChanges
<1> QED
  BY <1>1, <1>2, <1>3 DEF ContentChange, EdBut

LEMMA OpenEditContent ==
    ASSUME NEW G, TypeOK, EdBut(G), OpenEdit
    PROVE  ContentChange(G)
<1>1. /\ tasks \in Seq(Task) /\ DOMAIN tasks = 1 .. Len(tasks) /\ ed \in Editor
  BY TypedContents
<1>2. tasks' = (IF idx \in DOMAIN tasks THEN SaveText(tasks, idx) ELSE tasks)
      /\ UNCHANGED <<names, maxIdx, idx, tabs, sel, status, ed, shown>>
  BY DEF OpenEdit, pane, win
<1>3. dlg' \in Dialog
  BY TabsAssumption DEF OpenEdit, Dialog
<1>4. /\ tasks' \in Seq(Task) /\ Len(tasks') = Len(tasks)
      /\ \A j \in 1 .. Len(tasks) : /\ tasks'[j].uid = tasks[j].uid
                                    /\ j # idx => tasks'[j] = tasks[j]
  <2>1. CASE idx \in DOMAIN tasks
    BY <1>2, <2>1, SavingChanges
  <2>2. CASE idx \notin DOMAIN tasks
    BY <1>1, <1>2, <2>2
  <2> QED
    BY <2>1, <2>2
<1> QED
  BY <1>1, <1>2, <1>3, <1>4 DEF ContentChange, EdBut

LEMMA FinishEditContent ==
    ASSUME NEW G, TypeOK, EdBut(G), FinishEdit
    PROVE  ContentChange(G)
<1>1. /\ tasks \in Seq(Task) /\ DOMAIN tasks = 1 .. Len(tasks)
      /\ idx \in 1 .. Len(tasks)
      /\ ed \in Editor /\ dlg \in Dialog /\ ed.out \in {NoOut, ed.code} \cup G
  BY TypedContents DEF FinishEdit, EdBut
<1>2. UNCHANGED <<names, maxIdx, idx, tabs, sel, status, shown>>
      /\ dlg' \in Dialog
  BY TabsAssumption DEF FinishEdit, pane, Closed, Dialog
<1>3. PICK c \in Codes :
         /\ tasks' = [tasks EXCEPT ![idx] = [@ EXCEPT !.code = c, !.body = dlg.body]]
         /\ ed' = [code |-> c,
                   body |-> IF dlg.body = NoBody THEN ed.body ELSE dlg.body,
                   out |-> IF c = NoCode /\ ed.code = NoCode THEN ed.out ELSE NoOut]
  BY DEF FinishEdit
<1>4. dlg.body \in Bodies
  BY <1>1 DEF Dialog
<1> DEFINE t1 == [tasks[idx] EXCEPT !.code = c]
           t  == [t1 EXCEPT !.body = dlg.body]
<1>5. tasks[idx] \in Task
  BY <1>1, ElementOfSeq
<1>6. t1 \in Task /\ t1.uid = tasks[idx].uid
  BY <1>5 DEF Task
<1>7. tasks' = [tasks EXCEPT ![idx] = t]
  BY <1>1, <1>3, LenProperties
<1> HIDE DEF t1
<1>8. t \in Task /\ t.uid = t1.uid
  BY <1>6, <1>4 DEF Task
<1> HIDE DEF t
<1>9. /\ tasks' \in Seq(Task) /\ Len(tasks') = Len(tasks)
      /\ \A j \in 1 .. Len(tasks) : tasks'[j] = IF j = idx THEN t ELSE tasks[j]
  BY <1>1, <1>7, <1>8, ExceptSeq
<1>10. ed' \in Editor /\ ed'.out \in {NoOut, ed'.code} \cup G
  BY <1>1, <1>3, <1>4 DEF Editor, Outs
<1> QED
  BY <1>1, <1>2, <1>6, <1>8, <1>9, <1>10 DEF ContentChange, EdBut

-----------------------------------------------------------------------------
(* Then those that change the tabs.                                        *)

\* What a step that changes the tabs has to establish.
LEMMA Reestablish ==
    ASSUME NEW G, sel' \in 0 .. Len(tasks'), sel' = 0 <=> Len(tasks') = 0,
           tasks' \in Seq(Task), tabs' \in Seq(Tab), names' \in Seq(Names),
           Len(tabs') = Len(tasks'), Len(names') = Len(tasks'),
           maxIdx' \in Nat, dlg' \in Dialog, status' = "SWITCH",
           idx' \in Nat \ {0}, sel' # 0 => idx' = sel',
           ed' \in Editor, ed'.out \in {NoOut, ed'.code} \cup G,
           shown' \in Nat, sel' # 0 => shown' = tasks'[sel'].uid,
           \A j \in 1 .. Len(tasks') : /\ tabs'[j].uid = tasks'[j].uid
                                       /\ tabs'[j].name = names'[j]
                                       /\ tabs'[j].id = j
                                       /\ tabs'[j].menu => j = sel',
           \A j \in 1 .. Len(tasks') :
              j # sel' => tasks'[j].out \in {NoOut, tasks'[j].code} \cup G
    PROVE  InvBut(G)'
<1>1. /\ DOMAIN tasks' = 1 .. Len(tasks') /\ Len(tasks') \in Nat
      /\ DOMAIN tabs' = 1 .. Len(tasks')
      /\ tasks' = <<>> <=> Len(tasks') = 0
      /\ tabs' = <<>> <=> Len(tasks') = 0
  BY LenProperties, EmptySeq
<1>2. TypeOK'
  BY DEF TypeOK, Statuses
<1>3. IdxIsSelected' /\ ListenerArmed' /\ EditorShowsCurrent'
  BY <1>1 DEF IdxIsSelected, ListenerArmed, EditorShowsCurrent
<1>4. TabsMatchTasks' /\ MenuOnSelectedOnly'
  BY <1>1 DEF TabsMatchTasks, MenuOnSelectedOnly
<1>5. FreshBut(G)'
  <2>1. \A j \in DOMAIN tasks' \ {idx'} : j # sel'
    BY <1>1
  <2> QED
    BY <1>1, <2>1 DEF FreshBut
<1> QED
  BY <1>2, <1>3, <1>4, <1>5 DEF InvBut, InStep

\* Displaying a task puts a well-typed editor with a fresh output on screen.
LEMMA DisplayEffect ==
    ASSUME NEW G, NEW t \in Task, t.out \in {NoOut, t.code} \cup G,
           ed' = [code |-> t.code, body |-> t.body, out |-> t.out],
           shown' = t.uid
    PROVE  ed' \in Editor /\ ed'.out \in {NoOut, ed'.code} \cup G /\ shown' \in Nat
BY DEF Task, Editor, Outs

\* The results stored with all tasks, the saved current one included, are fresh.
LEMMA FreshAfterSave ==
    ASSUME NEW G, InvBut(G), sel # 0
    PROVE  LET us == SaveTaskInfo(tasks, sel)
           IN  \A j \in 1 .. Len(tasks) : us[j].out \in {NoOut, us[j].code} \cup G
<1> DEFINE us == SaveTaskInfo(tasks, sel)
           t == [uid |-> tasks[sel].uid, code |-> ed.code, body |-> ed.body,
                 out |-> ed.out]
<1>1. /\ tasks \in Seq(Task) /\ DOMAIN tasks = 1 .. Len(tasks)
      /\ sel \in DOMAIN tasks /\ sel = idx /\ ed \in Editor
  BY Facts DEF InvBut
<1>2. IsUpdate(us, tasks, sel, t)
  BY <1>1, SaveTaskInfoProperties
<1> HIDE DEF us
<1>3. ed.out \in {NoOut, ed.code} \cup G
      /\ \A j \in DOMAIN tasks \ {sel} : tasks[j].out \in {NoOut, tasks[j].code} \cup G
  BY <1>1 DEF InvBut, InStep, FreshBut
<1>4. \A j \in 1 .. Len(tasks) : us[j].out \in {NoOut, us[j].code} \cup G
  BY <1>1, <1>2, <1>3 DEF IsUpdate
<1> QED
  BY <1>4 DEF us

LEMMA SelectTabStep ==
    ASSUME NEW G, InvBut(G), NEW n \in DOMAIN tabs, SelectTab(n)
    PROVE  InvBut(G)'
<1>1. /\ tasks \in Seq(Task) /\ tabs \in Seq(Tab) /\ names \in Seq(Names)
      /\ Len(tasks) \in Nat /\ Len(tabs) = Len(tasks) /\ Len(names) = Len(tasks)
      /\ DOMAIN tasks = 1 .. Len(tasks)
      /\ n \in 1 .. Len(tasks) /\ sel \in 1 .. Len(tasks)
      /\ ed \in Editor /\ dlg \in Dialog /\ maxIdx \in Nat
      /\ status = "SWITCH"
      /\ \A k \in 1 .. Len(tasks) : /\ tabs[k].id = k
                                    /\ tabs[k].uid = tasks[k].uid
                                    /\ tabs[k].name = names[k]
  BY Facts DEF InvBut
<1>2. SwitchEvent(tasks, tabs, sel, n, idx) /\ n # sel /\ sel' = n
      /\ UNCHANGED <<names, maxIdx, dlg>>
  BY <1>1 DEF SelectTab
<1>3. /\ status' = "SWITCH"
      /\ tasks' = SaveTaskInfo(tasks, sel)
      /\ tasks' \in Seq(Task) /\ Len(tasks') = Len(tasks)
      /\ tabs' = MenuOn(tabs, sel, n)
      /\ idx' = n
      /\ ed' = [code |-> tasks'[n].code, body |-> tasks'[n].body,
                out |-> tasks'[n].out]
      /\ shown' = tasks'[n].uid
  BY <1>1, <1>2, SwitchEffect
<1>4. \E t : IsUpdate(tasks', tasks, sel, t)
  BY <1>1, <1>3, SaveTaskInfoProperties
<1>5. IsMenuSwitch(tabs', tabs, sel, n)
  BY <1>1, <1>3, MenuOnProperties
<1>6. \A j \in 1 .. Len(tasks) : tabs[j].menu => j = sel
  BY <1>1, LenProperties DEF InvBut, InStep, MenuOnSelectedOnly
<1>7. /\ tabs' \in Seq(Tab) /\ Len(tabs') = Len(tasks)
      /\ \A j \in 1 .. Len(tasks) : /\ tabs'[j].uid = tasks'[j].uid
                                    /\ tabs'[j].name = names'[j]
                                    /\ tabs'[j].id = j
                                    /\ tabs'[j].menu => j = n
  <2>1. /\ tabs' \in Seq(Tab) /\ Len(tabs') = Len(tasks)
        /\ \A j \in 1 .. Len(tasks) : /\ tabs'[j].uid = tasks'[j].uid
                                      /\ tabs'[j].name = names'[j]
                                      /\ tabs'[j].id = j
    <3>1. /\ tabs' \in Seq(Tab) /\ Len(tabs') = Len(tasks)
          /\ \A j \in 1 .. Len(tasks) : /\ tabs'[j].uid = tabs[j].uid
                                        /\ tabs'[j].name = tabs[j].name
                                        /\ tabs'[j].id = tabs[j].id
      BY <1>1, <1>5 DEF IsMenuSwitch
    <3>2. \A j \in 1 .. Len(tasks) : tasks'[j].uid = tasks[j].uid
      BY <1>4 DEF IsUpdate
    <3> QED
      BY <3>1, <3>2, <1>1, <1>2
  <2>2. \A j \in 1 .. Len(tabs) : tabs'[j].menu => j = n \/ (j # sel /\ tabs[j].menu)
    BY <1>5 DEF IsMenuSwitch
  <2>3. \A j \in 1 .. Len(tasks) : tabs'[j].menu => j = n
    BY <1>1, <1>6, <2>2
  <2> QED
    BY <2>1, <2>3
<1>8. \A j \in 1 .. Len(tasks) : tasks'[j].out \in {NoOut, tasks'[j].code} \cup G
  BY <1>1, <1>3, FreshAfterSave
<1>9. ed' \in Editor /\ ed'.out \in {NoOut, ed'.code} \cup G /\ shown' \in Nat
  <2>1. tasks'[n] \in Task
    BY <1>1, <1>3, ElementOfSeq
  <2> QED
    BY <1>1, <1>3, <1>8, <2>1, DisplayEffect
<1>10. /\ sel' \in 0 .. Len(tasks') /\ (sel' = 0 <=> Len(tasks') = 0)
       /\ names' \in Seq(Names) /\ maxIdx' \in Nat /\ dlg' \in Dialog
       /\ Len(tabs') = Len(tasks') /\ Len(names') = Len(tasks')
       /\ idx' \in Nat \ {0} /\ idx' = sel' /\ shown' = tasks'[sel'].uid
  BY <1>1, <1>2, <1>3, <1>7
<1>11. /\ \A j \in 1 .. Len(tasks') : /\ tabs'[j].uid = tasks'[j].uid
                                      /\ tabs'[j].name = names'[j]
                                      /\ tabs'[j].id = j
                                      /\ tabs'[j].menu => j = sel'
       /\ \A j \in 1 .. Len(tasks') : tasks'[j].out \in {NoOut, tasks'[j].code} \cup G
  BY <1>2, <1>3, <1>7, <1>8
<1> QED
  BY <1>3, <1>7, <1>9, <1>10, <1>11, Reestablish

\* A new task; its output may be stale only if G has it.
Addable(t, G) == t.uid = maxIdx + 1 /\ t.out \in {NoOut, t.code} \cup G

LEMMA AddTaskStep ==
    ASSUME NEW G, InvBut(G), NEW t \in Task, Addable(t, G),
           AddTask(t), dlg' \in Dialog
    PROVE  InvBut(G)'
<1>1. /\ tasks \in Seq(Task) /\ tabs \in Seq(Tab) /\ names \in Seq(Names)
      /\ Len(tasks) \in Nat /\ Len(tabs) = Len(tasks) /\ Len(names) = Len(tasks)
      /\ DOMAIN tasks = 1 .. Len(tasks)
      /\ sel \in 0 .. Len(tasks)
      /\ ed \in Editor /\ maxIdx \in Nat
      /\ \A k \in 1 .. Len(tasks) : /\ tabs[k].id = k
                                    /\ tabs[k].uid = tasks[k].uid
                                    /\ tabs[k].name = names[k]
  BY Facts DEF InvBut
<1>0. t.uid = maxIdx + 1 /\ t.out \in {NoOut, t.code} \cup G
  BY DEF Addable
<1> DEFINE n  == Len(tasks) + 1
           b  == [uid |-> maxIdx + 1, name |-> maxIdx + 1, id |-> n, menu |-> FALSE]
           ts == Append(tasks, t)
           tb == Append(tabs, b)
<1>2. /\ b \in Tab
      /\ b.uid = maxIdx + 1 /\ b.name = maxIdx + 1 /\ b.id = n /\ b.menu = FALSE
  BY <1>1 DEF Tab, Names
<1>3. /\ maxIdx' = maxIdx + 1
      /\ names' = Append(names, maxIdx + 1)
      /\ sel' = Len(tb)
      /\ SwitchEvent(ts, tb, sel, Len(tb), n)
  BY DEF AddTask
<1> HIDE DEF b
<1>4. /\ ts \in Seq(Task) /\ Len(ts) = n
      /\ \A j \in 1 .. n : ts[j] = IF j = n THEN t ELSE tasks[j]
  <2>1. t \in Task
    OBVIOUS
  <2> QED
    BY <1>1, <2>1, AppendProperties
<1>5. /\ tb \in Seq(Tab) /\ Len(tb) = n
      /\ \A j \in 1 .. n : tb[j] = IF j = n THEN b ELSE tabs[j]
  BY <1>1, <1>2, AppendProperties
<1>6. /\ names' \in Seq(Names) /\ Len(names') = n
      /\ \A j \in 1 .. n : names'[j] = IF j = n THEN maxIdx + 1 ELSE names[j]
  <2>1. maxIdx + 1 \in Names
    BY <1>1 DEF Names
  <2> QED
    BY <1>1, <1>3, <2>1, AppendProperties
<1> HIDE DEF ts, tb
<1>7. n \in Nat \ {0} /\ sel \in 0 .. Len(tb) /\ n \in 1 .. Len(tb) /\ sel' = n
  BY <1>1, <1>3, <1>5
<1>8. \A k \in 1 .. Len(tb) : tb[k].id = k
  BY <1>1, <1>2, <1>5
<1>9. /\ status' = "SWITCH"
      /\ tasks' = IF sel = 0 THEN ts ELSE SaveTaskInfo(ts, sel)
      /\ tasks' \in Seq(Task) /\ Len(tasks') = Len(ts)
      /\ tabs' = MenuOn(tb, sel, n)
      /\ idx' = n
      /\ ed' = [code |-> tasks'[n].code, body |-> tasks'[n].body,
                out |-> tasks'[n].out]
      /\ shown' = tasks'[n].uid
  <2>1. SwitchEvent(ts, tb, sel, n, n) /\ Len(ts) = Len(tb)
    BY <1>3, <1>4, <1>5
  <2> QED
    BY <1>1, <1>4, <1>5, <1>7, <1>8, <2>1, SwitchEffect
<1>10. /\ \A j \in 1 .. n : tasks'[j].uid = ts[j].uid
       /\ \A j \in 1 .. n : tasks'[j].out \in {NoOut, tasks'[j].code} \cup G
  <2>1. ed.out \in {NoOut, ed.code} \cup G
        /\ \A j \in 1 .. Len(tasks) :
              j # sel => tasks[j].out \in {NoOut, tasks[j].code} \cup G
    <3>1. \A j \in 1 .. Len(tasks) : j # sel => j \in DOMAIN tasks \ {idx}
      BY Facts DEF InvBut
    <3> QED
      BY <3>1 DEF InvBut, InStep, FreshBut
  <2>2. CASE sel = 0
    <3>1. tasks' = ts
      BY <2>2, <1>9
    <3> QED
      BY <3>1, <2>1, <2>2, <1>0, <1>1, <1>4
  <2>3. CASE sel # 0
    <3>1. sel \in DOMAIN ts
      BY <2>3, <1>1, <1>4, LenProperties
    <3>2. IsUpdate(tasks', ts, sel, [uid |-> ts[sel].uid, code |-> ed.code,
                                     body |-> ed.body, out |-> ed.out])
      BY <3>1, <2>3, <1>1, <1>4, <1>9, SaveTaskInfoProperties
    <3>3. \A j \in 1 .. n : tasks'[j].uid = ts[j].uid
      BY <3>2, <1>4 DEF IsUpdate
    <3>4. \A j \in 1 .. n : IF j = sel THEN tasks'[j].out = ed.out /\ tasks'[j].code = ed.code
                                       ELSE tasks'[j] = ts[j]
      BY <3>2, <1>4 DEF IsUpdate
    <3>5. \A j \in 1 .. n : j # sel => ts[j].out \in {NoOut, ts[j].code} \cup G
      BY <2>1, <1>0, <1>1, <1>4
    <3> QED
      BY <3>3, <3>4, <3>5, <2>1
  <2> QED
    BY <2>2, <2>3
<1>11. IsMenuSwitch(tabs', tb, sel, n)
  BY <1>5, <1>9, MenuOnProperties
<1>12. /\ tabs' \in Seq(Tab) /\ Len(tabs') = n
       /\ \A j \in 1 .. n : /\ tabs'[j].uid = tasks'[j].uid
                            /\ tabs'[j].name = names'[j]
                            /\ tabs'[j].id = j
  <2>1. /\ tabs' \in Seq(Tab) /\ Len(tabs') = n
        /\ \A j \in 1 .. n : /\ tabs'[j].uid = tb[j].uid
                             /\ tabs'[j].name = tb[j].name
                             /\ tabs'[j].id = tb[j].id
    BY <1>5, <1>11 DEF IsMenuSwitch
  <2>2. tb[n].uid = ts[n].uid /\ tb[n].name = names'[n]
    BY <1>0, <1>2, <1>4, <1>5, <1>6, <1>7
  <2>3. ASSUME NEW j \in 1 .. n, j # n
        PROVE  tb[j].uid = ts[j].uid /\ tb[j].name = names'[j]
    <3>1. j \in 1 .. Len(tasks)
      BY <1>1, <2>3
    <3>2. tb[j] = tabs[j] /\ ts[j] = tasks[j] /\ names'[j] = names[j]
      BY <2>3, <1>4, <1>5, <1>6
    <3> QED
      BY <3>1, <3>2, <1>1
  <2>4. \A j \in 1 .. n : tb[j].uid = ts[j].uid /\ tb[j].name = names'[j]
    BY <2>2, <2>3
  <2> QED
    BY <2>1, <2>4, <1>5, <1>8, <1>10
<1>13. \A j \in 1 .. n : tabs'[j].menu => j = n
  <2>1. \A j \in 1 .. Len(tb) : tabs'[j].menu => j = n \/ (j # sel /\ tb[j].menu)
    BY <1>11 DEF IsMenuSwitch
  <2>2. \A j \in 1 .. Len(tasks) : tabs[j].menu => j = sel
    BY <1>1, LenProperties DEF InvBut, InStep, MenuOnSelectedOnly
  <2>3. \A j \in 1 .. n : j = n \/ (j \in 1 .. Len(tasks) /\ tb[j] = tabs[j])
    BY <1>1, <1>5
  <2> QED
    BY <2>1, <2>2, <2>3, <1>5
<1>14. ed' \in Editor /\ ed'.out \in {NoOut, ed'.code} \cup G /\ shown' \in Nat
  <2>1. tasks'[n] \in Task
    BY <1>4, <1>7, <1>9, ElementOfSeq
  <2> QED
    BY <1>7, <1>4, <1>5, <1>9, <1>10, <2>1, DisplayEffect
<1> HIDE DEF n
<1>15. Len(tasks') = n /\ maxIdx' \in Nat /\ sel' = idx' /\ sel' # 0
  BY <1>1, <1>3, <1>4, <1>7, <1>9
<1>16. \A j \in 1 .. Len(tasks') :
          /\ tabs'[j].uid = tasks'[j].uid
          /\ tabs'[j].name = names'[j]
          /\ tabs'[j].id = j
          /\ tabs'[j].menu => j = sel'
          /\ tasks'[j].out \in {NoOut, tasks'[j].code} \cup G
  BY <1>7, <1>10, <1>12, <1>13, <1>15
<1>17. /\ sel' \in 0 .. Len(tasks') /\ (sel' = 0 <=> Len(tasks') = 0)
       /\ tasks' \in Seq(Task) /\ tabs' \in Seq(Tab) /\ names' \in Seq(Names)
       /\ Len(tabs') = Len(tasks') /\ Len(names') = Len(tasks')
       /\ status' = "SWITCH" /\ idx' \in Nat \ {0}
       /\ shown' = tasks'[sel'].uid
  BY <1>6, <1>7, <1>9, <1>12, <1>15
<1> QED
  BY <1>14, <1>15, <1>16, <1>17, Reestablish

LEMMA FinishAddStep ==
    ASSUME NEW G, InvBut(G), FinishAdd
    PROVE  InvBut(G)'
<1>1. PICK c \in Codes :
         AddTask([uid |-> maxIdx + 1, code |-> c, body |-> dlg.body, out |-> NoOut])
  BY DEF FinishAdd
<1> DEFINE t == [uid |-> maxIdx + 1, code |-> c, body |-> dlg.body, out |-> NoOut]
<1>2. dlg' \in Dialog
  BY TabsAssumption DEF FinishAdd, Closed, Dialog
<1>3. dlg \in Dialog /\ maxIdx \in Nat
  BY Facts DEF InvBut
<1>4. t \in Task /\ t.uid = maxIdx + 1 /\ t.out = NoOut
  BY <1>3 DEF Task, Outs, Dialog
<1>5. AddTask(t)
  BY <1>1
<1> HIDE DEF t
<1> QED
  BY <1>2, <1>4, <1>5, AddTaskStep DEF Addable

LEMMA DeleteTaskStep ==
    ASSUME NEW G, InvBut(G), DeleteTask
    PROVE  InvBut(G)'
<1>1. /\ tasks \in Seq(Task) /\ tabs \in Seq(Tab) /\ names \in Seq(Names)
      /\ Len(tasks) \in Nat \ {0} /\ Len(tabs) = Len(tasks) /\ Len(names) = Len(tasks)
      /\ idx \in 1 .. Len(tasks) /\ idx \in DOMAIN tasks /\ sel = idx
      /\ ed \in Editor /\ dlg \in Dialog /\ maxIdx \in Nat /\ shown \in Nat
      /\ tabs[sel].id = sel
      /\ \A k \in 1 .. Len(tasks) : /\ tabs[k].uid = tasks[k].uid
                                    /\ tabs[k].name = names[k]
  BY Facts DEF InvBut, DeleteTask
<1> DEFINE ts == RemoveAt(tasks, idx)
           tb == RemoveAt(tabs, idx)
           n  == Nearest(sel, Len(tabs) - 1)
<1>2. /\ sel' = n
      /\ names' = RemoveAt(names, idx)
      /\ DeleteEvent(ts, tb, sel, n)
      /\ maxIdx' = maxIdx /\ dlg' = dlg
  BY <1>1 DEF DeleteTask
<1>3. /\ IsRemoval(Task, ts, tasks, idx)
      /\ IsRemoval(Tab, tb, tabs, idx)
      /\ IsRemoval(Names, names', names, idx)
  BY <1>1, <1>2, RemoveAtProperties
<1> HIDE DEF ts, tb
<1>4. /\ ts \in Seq(Task) /\ tb \in Seq(Tab) /\ names' \in Seq(Names)
      /\ Len(ts) = Len(tasks) - 1 /\ Len(tb) = Len(ts) /\ Len(names') = Len(ts)
      /\ Len(ts) \in Nat
  BY <1>1, <1>3 DEF IsRemoval
<1>5. \A j \in 1 .. Len(ts) : \E k \in 1 .. Len(tasks) :
         /\ k # idx
         /\ ts[j] = tasks[k] /\ tb[j] = tabs[k] /\ names'[j] = names[k]
  <2>1. ASSUME NEW j \in 1 .. Len(ts)
        PROVE  \E k \in 1 .. Len(tasks) :
                  /\ k # idx
                  /\ ts[j] = tasks[k] /\ tb[j] = tabs[k] /\ names'[j] = names[k]
    <3> DEFINE k == IF j < idx THEN j ELSE j + 1
    <3>1. k \in 1 .. Len(tasks) /\ k # idx
      BY <1>1, <1>4
    <3>2. ts[j] = tasks[k] /\ tb[j] = tabs[k] /\ names'[j] = names[k]
      BY <1>1, <1>3, <1>4 DEF IsRemoval
    <3> QED
      BY <3>1, <3>2
  <2> QED
    BY <2>1
<1>6. /\ n \in 0 .. Len(tb)
      /\ n = 0 <=> Len(tb) = 0
      /\ n = 0 => sel = 1
      /\ sel = 1 /\ Len(tb) # 0 => n = 1
  BY <1>1, <1>4 DEF Nearest
<1> HIDE DEF n
<1>7. /\ status' = "SWITCH"
      /\ tasks' = ts
      /\ tabs' = Renumbered(tb)
      /\ n # 0 => /\ idx' = n
                  /\ ed' = [code |-> ts[n].code, body |-> ts[n].body,
                            out |-> ts[n].out]
                  /\ shown' = ts[n].uid
      /\ n = 0 => idx' = idx /\ UNCHANGED <<ed, shown>>
  <2>1. sel \in Nat \ {0} /\ Len(ts) = Len(tb)
    BY <1>1, <1>4
  <2> QED
    BY <1>2, <1>4, <1>6, <2>1, DeleteEffect
<1>8. IsRenumbering(tabs', tb)
  BY <1>4, <1>7, RenumberedProperties
<1>9. \A j \in 1 .. Len(ts) : /\ tb[j].uid = ts[j].uid
                              /\ tb[j].name = names'[j]
                              /\ ts[j].out \in {NoOut, ts[j].code} \cup G
  <2>1. \A k \in 1 .. Len(tasks) :
           k # idx => tasks[k].out \in {NoOut, tasks[k].code} \cup G
    BY <1>1, LenProperties DEF InvBut, InStep, FreshBut
  <2> QED
    BY <1>1, <1>5, <2>1
<1>10. \A j \in 1 .. Len(ts) : ~tb[j].menu
  <2>1. \A k \in 1 .. Len(tasks) : k # idx => ~tabs[k].menu
    BY <1>1, LenProperties DEF InvBut, InStep, MenuOnSelectedOnly
  <2> QED
    BY <1>5, <2>1
<1>11. /\ tabs' \in Seq(Tab) /\ Len(tabs') = Len(ts)
       /\ \A j \in 1 .. Len(ts) : /\ tabs'[j].uid = ts[j].uid
                                  /\ tabs'[j].name = names'[j]
                                  /\ tabs'[j].id = j
  BY <1>4, <1>8, <1>9 DEF IsRenumbering
<1>12. \A j \in 1 .. Len(ts) : ~tabs'[j].menu
  <2>1. \A j \in 1 .. Len(tb) : tabs'[j].menu = tb[j].menu
    BY <1>8 DEF IsRenumbering
  <2> QED
    BY <1>4, <1>10, <2>1
<1>13. /\ ed' \in Editor /\ ed'.out \in {NoOut, ed'.code} \cup G /\ shown' \in Nat
       /\ idx' \in Nat \ {0}
  <2>1. CASE n = 0
    <3>1. ed.out \in {NoOut, ed.code} \cup G /\ shown \in Nat
      BY DEF InvBut, InStep, FreshBut, TypeOK
    <3> QED
      BY <1>1, <1>7, <2>1, <3>1
  <2>2. CASE n # 0
    <3>1. n \in 1 .. Len(ts) /\ ts[n] \in Task
      BY <1>4, <1>6, <2>2, ElementOfSeq
    <3> QED
      BY <1>7, <1>9, <2>2, <3>1, DisplayEffect
  <2> QED
    BY <2>1, <2>2
<1>14. tasks' = ts /\ sel' = n /\ Len(ts) = Len(tb) /\ maxIdx' \in Nat /\ dlg' \in Dialog
  BY <1>1, <1>2, <1>4, <1>7
<1>15. /\ sel' \in 0 .. Len(tasks') /\ (sel' = 0 <=> Len(tasks') = 0)
       /\ tasks' \in Seq(Task) /\ tabs' \in Seq(Tab) /\ names' \in Seq(Names)
       /\ Len(tabs') = Len(tasks') /\ Len(names') = Len(tasks')
       /\ status' = "SWITCH"
       /\ sel' # 0 => idx' = sel' /\ shown' = tasks'[sel'].uid
  BY <1>4, <1>6, <1>7, <1>11, <1>14
<1>16. \A j \in 1 .. Len(tasks') : /\ tabs'[j].uid = tasks'[j].uid
                                   /\ tabs'[j].name = names'[j]
                                   /\ tabs'[j].id = j
                                   /\ tabs'[j].menu => j = sel'
  BY <1>11, <1>12, <1>14
<1>17. \A j \in 1 .. Len(tasks') : tasks'[j].out \in {NoOut, tasks'[j].code} \cup G
  BY <1>9, <1>14
<1> QED
  BY <1>13, <1>14, <1>15, <1>16, <1>17, Reestablish

LEMMA RenameTaskStep ==
    ASSUME NEW G, InvBut(G), RenameTask
    PROVE  InvBut(G)'
<1>1. /\ tasks \in Seq(Task) /\ tabs \in Seq(Tab) /\ names \in Seq(Names)
      /\ Len(tasks) \in Nat \ {0} /\ Len(tabs) = Len(tasks) /\ Len(names) = Len(tasks)
      /\ DOMAIN names = 1 .. Len(tasks) /\ DOMAIN tabs = 1 .. Len(tasks)
      /\ idx \in 1 .. Len(tasks) /\ sel = idx
      /\ ed \in Editor /\ dlg \in Dialog /\ maxIdx \in Nat /\ shown \in Nat
      /\ \A k \in 1 .. Len(tasks) : /\ tabs[k].id = k
                                    /\ tabs[k].uid = tasks[k].uid
                                    /\ tabs[k].name = names[k]
  BY Facts DEF InvBut, RenameTask
<1>2. PICK t \in Titles :
         /\ names' = [names EXCEPT ![idx] = t]
         /\ tabs' = [tabs EXCEPT ![idx] =
                        [uid |-> @.uid, name |-> t, id |-> idx, menu |-> FALSE]]
         /\ sel' = idx /\ status' = "SWITCH"
  BY <1>1 DEF RenameTask
<1>3. UNCHANGED <<tasks, maxIdx, idx, ed, shown, dlg>>
  BY DEF RenameTask, win
<1> DEFINE b == [uid |-> tabs[idx].uid, name |-> t, id |-> idx, menu |-> FALSE]
<1>4. t \in Names /\ b \in Tab
  <2>1. tabs[idx] \in Tab
    BY <1>1, ElementOfSeq
  <2> QED
    BY <1>1, <2>1 DEF Tab, Names
<1>5. tabs' = [tabs EXCEPT ![idx] = b]
  BY <1>1, <1>2
<1>6. b.uid = tabs[idx].uid /\ b.name = t /\ b.id = idx /\ b.menu = FALSE
  OBVIOUS
<1> HIDE DEF b
<1>7. /\ names' \in Seq(Names) /\ Len(names') = Len(tasks)
      /\ \A j \in 1 .. Len(tasks) : names'[j] = IF j = idx THEN t ELSE names[j]
  BY <1>1, <1>2, <1>4, ExceptSeq
<1>8. /\ tabs' \in Seq(Tab) /\ Len(tabs') = Len(tasks)
      /\ \A j \in 1 .. Len(tasks) : tabs'[j] = IF j = idx THEN b ELSE tabs[j]
  BY <1>1, <1>4, <1>5, ExceptSeq
<1>9. \A j \in 1 .. Len(tasks) : /\ tabs'[j].uid = tasks[j].uid
                                 /\ tabs'[j].name = names'[j]
                                 /\ tabs'[j].id = j
  BY <1>1, <1>6, <1>7, <1>8
<1>10. \A j \in 1 .. Len(tasks) : tabs'[j].menu => j = idx
  <2>1. \A j \in 1 .. Len(tasks) : tabs[j].menu => j = idx
    BY <1>1 DEF InvBut, InStep, MenuOnSelectedOnly
  <2> QED
    BY <2>1, <1>6, <1>8
<1>11. /\ ed.out \in {NoOut, ed.code} \cup G
       /\ shown = tasks[idx].uid
       /\ \A j \in 1 .. Len(tasks) : j # idx => tasks[j].out \in {NoOut, tasks[j].code} \cup G
  <2>1. tasks # <<>> /\ DOMAIN tasks = 1 .. Len(tasks)
    BY <1>1, LenProperties, EmptySeq DEF RenameTask
  <2> QED
    BY <2>1 DEF InvBut, InStep, EditorShowsCurrent, FreshBut
<1>12. sel' = idx /\ idx' = idx /\ tasks' = tasks /\ ed' = ed /\ shown' = shown
       /\ idx # 0
  BY <1>1, <1>2, <1>3
<1>13. /\ sel' \in 0 .. Len(tasks') /\ (sel' = 0 <=> Len(tasks') = 0)
       /\ tasks' \in Seq(Task) /\ maxIdx' \in Nat /\ dlg' \in Dialog
       /\ Len(tabs') = Len(tasks') /\ Len(names') = Len(tasks')
       /\ idx' \in Nat \ {0} /\ idx' = sel' /\ status' = "SWITCH"
       /\ ed' \in Editor /\ ed'.out \in {NoOut, ed'.code} \cup G
       /\ shown' \in Nat /\ shown' = tasks'[sel'].uid
  BY <1>1, <1>2, <1>3, <1>7, <1>8, <1>11, <1>12
<1>14. /\ \A j \in 1 .. Len(tasks') : /\ tabs'[j].uid = tasks'[j].uid
                                      /\ tabs'[j].name = names'[j]
                                      /\ tabs'[j].id = j
                                      /\ tabs'[j].menu => j = sel'
       /\ \A j \in 1 .. Len(tasks') :
             j # sel' => tasks'[j].out \in {NoOut, tasks'[j].code} \cup G
  BY <1>9, <1>10, <1>11, <1>12
<1> QED
  BY <1>7, <1>8, <1>13, <1>14, Reestablish

LEMMA DropTabStep ==
    ASSUME NEW G, InvBut(G), NEW j \in 1 .. Len(tabs) + 1, DropTab(j)
    PROVE  InvBut(G)'
<1>1. /\ tasks \in Seq(Task) /\ tabs \in Seq(Tab) /\ names \in Seq(Names)
      /\ Len(tasks) \in Nat \ {0} /\ Len(tabs) = Len(tasks) /\ Len(names) = Len(tasks)
      /\ idx \in 1 .. Len(tasks) /\ sel = idx /\ sel \in 1 .. Len(tasks)
      /\ ed \in Editor /\ dlg \in Dialog /\ maxIdx \in Nat /\ shown \in Nat
      /\ \A k \in 1 .. Len(tasks) : /\ tabs[k].uid = tasks[k].uid
                                    /\ tabs[k].name = names[k]
  BY Facts DEF InvBut, DropTab
<1> DEFINE to == IF sel < j THEN j - 1 ELSE j
           tb == Moved(tabs, sel, to)
<1>2. to \in 1 .. Len(tasks) /\ to # 0 /\ to \in Nat \ {0}
  BY <1>1
<1>3. /\ tasks' = Moved(tasks, sel, to)
      /\ names' = Moved(names, sel, to)
      /\ tabs' = Renumbered(tb)
      /\ sel' = to /\ idx' = to /\ status' = "SWITCH"
      /\ UNCHANGED <<maxIdx, ed, shown, dlg>>
  BY DEF DropTab, win
<1> HIDE DEF to
<1>4. /\ IsMove(Task, tasks', tasks, sel, to)
      /\ IsMove(Tab, tb, tabs, sel, to)
      /\ IsMove(Names, names', names, sel, to)
  BY <1>1, <1>2, <1>3, MovedProperties
<1> HIDE DEF tb
<1>5. /\ tasks' \in Seq(Task) /\ tb \in Seq(Tab) /\ names' \in Seq(Names)
      /\ Len(tasks') = Len(tasks) /\ Len(tb) = Len(tasks) /\ Len(names') = Len(tasks)
  BY <1>1, <1>4 DEF IsMove
<1>6. \A i \in 1 .. Len(tasks) :
         /\ Origin(sel, to, i) \in 1 .. Len(tasks)
         /\ tasks'[i] = tasks[Origin(sel, to, i)]
         /\ tb[i] = tabs[Origin(sel, to, i)]
         /\ names'[i] = names[Origin(sel, to, i)]
  BY <1>1, <1>4 DEF IsMove
<1>7. \A i \in 1 .. Len(tasks) : Origin(sel, to, i) = sel <=> i = to
  BY <1>1, <1>2 DEF Origin
<1>8. IsRenumbering(tabs', tb)
  BY <1>3, <1>5, RenumberedProperties
<1>9. /\ tabs' \in Seq(Tab) /\ Len(tabs') = Len(tasks)
      /\ \A i \in 1 .. Len(tasks) : /\ tabs'[i].uid = tasks'[i].uid
                                    /\ tabs'[i].name = names'[i]
                                    /\ tabs'[i].id = i
  <2>1. ASSUME NEW i \in 1 .. Len(tasks)
        PROVE  tb[i].uid = tasks'[i].uid /\ tb[i].name = names'[i]
    <3>1. PICK k \in 1 .. Len(tasks) : /\ tasks'[i] = tasks[k]
                                       /\ tb[i] = tabs[k]
                                       /\ names'[i] = names[k]
      BY <1>6
    <3>2. tabs[k].uid = tasks[k].uid /\ tabs[k].name = names[k]
      BY <1>1
    <3> QED
      BY <3>1, <3>2
  <2>2. /\ tabs' \in Seq(Tab) /\ Len(tabs') = Len(tb)
        /\ \A i \in 1 .. Len(tb) : /\ tabs'[i].uid = tb[i].uid
                                    /\ tabs'[i].name = tb[i].name
                                    /\ tabs'[i].id = i
    BY <1>8 DEF IsRenumbering
  <2> QED
    BY <2>1, <2>2, <1>5
<1>10. \A i \in 1 .. Len(tasks) : tabs'[i].menu => i = to
  <2>1. \A k \in 1 .. Len(tasks) : tabs[k].menu => k = sel
    BY <1>1, LenProperties DEF InvBut, InStep, MenuOnSelectedOnly
  <2>2. \A i \in 1 .. Len(tb) : tabs'[i].menu = tb[i].menu
    BY <1>8 DEF IsRenumbering
  <2>3. \A i \in 1 .. Len(tasks) : tb[i].menu => i = to
    BY <2>1, <1>6, <1>7
  <2> QED
    BY <2>2, <2>3, <1>5
<1>11. /\ ed.out \in {NoOut, ed.code} \cup G
       /\ shown = tasks[sel].uid
       /\ \A k \in 1 .. Len(tasks) : k # sel => tasks[k].out \in {NoOut, tasks[k].code} \cup G
  <2>1. tasks # <<>> /\ DOMAIN tasks = 1 .. Len(tasks)
    BY <1>1, LenProperties, EmptySeq
  <2> QED
    BY <1>1, <2>1 DEF InvBut, InStep, EditorShowsCurrent, FreshBut
<1>12. /\ \A i \in 1 .. Len(tasks) :
             i # to => tasks'[i].out \in {NoOut, tasks'[i].code} \cup G
       /\ shown = tasks'[to].uid
  BY <1>2, <1>6, <1>7, <1>11
<1>13. /\ sel' \in 0 .. Len(tasks') /\ (sel' = 0 <=> Len(tasks') = 0)
       /\ idx' \in Nat \ {0} /\ idx' = sel' /\ sel' # 0
       /\ ed' = ed /\ shown' = shown /\ dlg' = dlg /\ maxIdx' = maxIdx
  BY <1>1, <1>2, <1>3, <1>5
<1>14. /\ Len(tabs') = Len(tasks') /\ Len(names') = Len(tasks')
       /\ shown' = tasks'[sel'].uid
       /\ \A i \in 1 .. Len(tasks') : /\ tabs'[i].uid = tasks'[i].uid
                                      /\ tabs'[i].name = names'[i]
                                      /\ tabs'[i].id = i
                                      /\ tabs'[i].menu => i = sel'
       /\ \A i \in 1 .. Len(tasks') :
             i # sel' => tasks'[i].out \in {NoOut, tasks'[i].code} \cup G
  BY <1>3, <1>5, <1>9, <1>10, <1>12
<1> QED
  BY <1>1, <1>3, <1>5, <1>9, <1>11, <1>13, <1>14, Reestablish

-----------------------------------------------------------------------------
(* The theorems.                                                           *)

LEMMA NextInvBut ==
    ASSUME NEW G, InvBut(G), [InPlaceNext]_vars
    PROVE  InvBut(G)'
<1>0. TypeOK /\ EdBut(G)
  BY DEF InvBut, InStep, FreshBut, EdBut
<1>1. CASE TypeCode \/ TypeBody
  BY <1>0, <1>1, TypingContent, ContentStep
<1>2. CASE Execute
  BY <1>0, <1>2, ExecuteContent, ContentStep
<1>3. CASE SaveCurrent
  BY <1>0, <1>3, SaveCurrentContent, ContentStep
<1>4. ASSUME NEW n \in DOMAIN tabs, SelectTab(n)
      PROVE  InvBut(G)'
  BY <1>4, SelectTabStep
<1>5. CASE DeleteTask
  BY <1>5, DeleteTaskStep
<1>6. CASE RenameTask
  BY <1>6, RenameTaskStep
<1>7. CASE CancelRename \/ OpenAdd \/ ChooseType \/ CancelDialog
  BY <1>0, <1>7, DialogContent, ContentStep
<1>8. ASSUME NEW j \in 1 .. Len(tabs) + 1, DropTab(j)
      PROVE  InvBut(G)'
  BY <1>8, DropTabStep
<1>9. CASE OpenEdit
  BY <1>0, <1>9, OpenEditContent, ContentStep
<1>10. CASE FinishAdd
  BY <1>10, FinishAddStep
<1>11. CASE FinishEdit
  BY <1>0, <1>11, FinishEditContent, ContentStep
<1>12. CASE UNCHANGED vars
  BY <1>12
  DEF vars, exam, pane, win, InvBut, InStep, TypeOK, IdxIsSelected, TabsMatchTasks,
      ListenerArmed, EditorShowsCurrent, MenuOnSelectedOnly, FreshBut
<1> QED
  BY <1>1, <1>2, <1>3, <1>4, <1>5, <1>6, <1>7, <1>8, <1>9, <1>10, <1>11, <1>12
  DEF InPlaceNext

LEMMA NextIInv == IInv /\ [InPlaceNext]_vars => IInv'
BY NextInvBut, NoneStale

(* The inductive invariant holds in every session without context menu     *)
(* moves: in every state the three indexes agree, so every handler works   *)
(* on the task the user sees.                                              *)
THEOREM InPlaceInvariant == InPlaceSpec => []IInv
<1> QED
  BY InitIInv, NextIInv, PTL DEF InPlaceSpec

(* The state stays within its types, Exam.idx and the selected tab         *)
(* included.                                                               *)
THEOREM InPlaceTypeOK == InPlaceSpec => []TypeOK
<1>1. IInv => TypeOK
  BY DEF IInv, InStep
<1> QED
  BY <1>1, InPlaceInvariant, PTL

(* Run, save, edit, rename and delete, which all go to Exam.idx, go to the *)
(* task of the selected tab (Exam.java:35).                                *)
THEOREM InPlaceIdxIsSelected == InPlaceSpec => []IdxIsSelected
<1>1. IInv => IdxIsSelected
  BY DEF IInv, InStep
<1> QED
  BY <1>1, InPlaceInvariant, PTL

(* Tabs, tasks and names are permuted, extended and shortened together, and *)
(* the ids of the tabs are their positions.                                *)
THEOREM InPlaceTabsMatchTasks == InPlaceSpec => []TabsMatchTasks
<1>1. IInv => TabsMatchTasks
  BY DEF IInv, InStep
<1> QED
  BY <1>1, InPlaceInvariant, PTL

(* No handler leaves a status behind that makes the selection listener skip *)
(* the save.                                                               *)
THEOREM InPlaceListenerArmed == InPlaceSpec => []ListenerArmed
<1>1. IInv => ListenerArmed
  BY DEF IInv, InStep
<1> QED
  BY <1>1, InPlaceInvariant, PTL

(* The editor shows the task that run and save write to.                   *)
THEOREM InPlaceEditorShowsCurrent == InPlaceSpec => []EditorShowsCurrent
<1>1. IInv => EditorShowsCurrent
  BY DEF IInv, InStep
<1> QED
  BY <1>1, InPlaceInvariant, PTL

(* Only the selected tab has a context menu.                               *)
THEOREM InPlaceMenuOnSelectedOnly == InPlaceSpec => []MenuOnSelectedOnly
<1>1. IInv => MenuOnSelectedOnly
  BY DEF IInv, InStep
<1> QED
  BY <1>1, InPlaceInvariant, PTL

(* An output is never shown or stored next to code that did not produce it. *)
THEOREM InPlaceFreshResults == InPlaceSpec => []FreshResults
<1>1. IInv => FreshResults
  BY DEF IInv, InStep
<1> QED
  BY <1>1, InPlaceInvariant, PTL

\* What is not at Exam.idx is still there after deleteTask, and Exam.idx is
\* the selected tab.
LEMMA DeleteTaskKeeps ==
    ASSUME InStep, DeleteTask, NEW i \in DOMAIN tasks,
           \A j \in DOMAIN tasks' : tasks'[j].uid # tasks[i].uid
    PROVE  tasks[i].uid = tabs[sel].uid
<1>1. /\ tasks \in Seq(Task) /\ DOMAIN tasks = 1 .. Len(tasks) /\ Len(tasks) \in Nat
      /\ idx \in 1 .. Len(tasks) /\ sel = idx
      /\ \A k \in 1 .. Len(tasks) : tabs[k].uid = tasks[k].uid
  BY Facts DEF DeleteTask
<1>2. tasks' = RemoveAt(tasks, idx)
  BY <1>1 DEF DeleteTask, DeleteEvent
<1>3. IsRemoval(Task, tasks', tasks, idx)
  BY <1>1, <1>2, RemoveAtProperties
<1>4. tasks' \in Seq(Task) /\ Len(tasks') = Len(tasks) - 1
      /\ \A j \in 1 .. Len(tasks) - 1 :
            tasks'[j] = IF j < idx THEN tasks[j] ELSE tasks[j + 1]
  BY <1>3 DEF IsRemoval
<1>5. DOMAIN tasks' = 1 .. Len(tasks) - 1
  BY <1>4, LenProperties
<1>6. i \in 1 .. Len(tasks)
  BY <1>1
<1>7. ASSUME i < idx
      PROVE  FALSE
  <2>1. i \in DOMAIN tasks' /\ tasks'[i] = tasks[i]
    BY <1>1, <1>4, <1>5, <1>6, <1>7
  <2> QED
    BY <2>1
<1>8. ASSUME i > idx
      PROVE  FALSE
  <2>1. /\ i - 1 \in 1 .. Len(tasks) - 1
        /\ ~ (i - 1 < idx)
        /\ i - 1 + 1 = i
    BY <1>1, <1>6, <1>8
  <2>2. tasks'[i - 1] = tasks[i]
    BY <1>4, <2>1
  <2> QED
    BY <1>5, <2>1, <2>2
<1>9. i = idx
  BY <1>1, <1>6, <1>7, <1>8
<1> QED
  BY <1>1, <1>9

\* Deleting removes the task of the active tab and no other, as
\* GUIMainController.java:440 says, as long as no tab is moved with the
\* context menu.
THEOREM InPlaceDeletesActiveTask == InPlaceSpec => DeletesActiveTask
<1>1. IInv /\ [InPlaceNext]_vars
         => [DeleteTask => \A i \in DOMAIN tasks :
                (\A j \in DOMAIN tasks' : tasks'[j].uid # tasks[i].uid)
                    => tasks[i].uid = tabs[sel].uid]_vars
  BY DeleteTaskKeeps DEF IInv
<1> QED
  BY <1>1, InPlaceInvariant, PTL DEF InPlaceSpec, DeletesActiveTask

=============================================================================
