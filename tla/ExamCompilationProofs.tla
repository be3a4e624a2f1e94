------------------------ MODULE ExamCompilationProofs ------------------------
(***************************************************************************)
(* Proofs about ExamCompilation, for every number of tasks and of runs.    *)
(*                                                                         *)
(* What the OK button and the progress thread may rely on rests on what    *)
(* every compile thread has done by the time it is at a place, and, for    *)
(* the only run, on how far the shared counter is by then.                 *)
(***************************************************************************)
EXTENDS ExamCompilation, TLAPS

Threads == [pc : CompPcs, task : 1 .. NTasks, out : Outcomes, ret : {1, -1, -2, -3}]

-----------------------------------------------------------------------------
(* The inductive invariant.                                                *)

\* What a compile thread at its place has done.
InPlace(c) ==
    /\ c.pc \in {"none", "start"} => c.task = 1
    /\ c.pc \in {"none", "start", "run", "judge", "last"} => CompilationOk(c.ret)
    /\ c.pc = "last" => c.task = NTasks
    /\ c.pc \in {"end", "done"} /\ CompilationOk(c.ret) => c.task = NTasks
    /\ c.pc \in {"cancel", "post"} => ~CompilationOk(c.ret)

AllInPlace == \A j \in Runs : InPlace(comp[j])

\* Nothing is known of runs that were not started.
OnlyStarted ==
    /\ \A j \in Runs : j > shows => comp[j].pc = "none" /\ watch[j] = "none"
    /\ \A j \in pdfs : j <= shows
    /\ shows = 0 => ~window

\* The counter p beside the only thread c there is.
CountedBy(c, p) ==
    /\ c.pc # "none"
    /\ c.pc = "start" => p = -1
    /\ c.pc = "run" => p = c.task - 2
    /\ c.pc = "judge" => p = c.task - 1
    /\ c.pc \notin {"start", "run"} /\ p >= NTasks - 1 => c.task = NTasks

OnlyRunCounts == shows = 1 => CountedBy(comp[1], progress)

IInv ==
    /\ TypeOK
    /\ AllInPlace
    /\ OnlyStarted
    /\ OnlyRunCounts
    /\ OkFromSuccess
    /\ PdfAfterOnlyRun
    /\ AnnouncedAfterOnlyRun

-----------------------------------------------------------------------------
LEMMA InitIInv == Init => IInv
<1> SUFFICES ASSUME Init PROVE IInv
  OBVIOUS
<1>1. NTasks \in Nat \ {0} /\ MaxShows \in Nat \ {0}
  BY CompilationAssumption
<1>2. TypeOK
  <2>1. [pc |-> "none", task |-> 1, out |-> "ok", ret |-> 1] \in Threads
    BY <1>1 DEF Threads, CompPcs, Outcomes
  <2>2. comp \in [Runs -> Threads] /\ watch \in [Runs -> WatchPcs]
    BY <2>1 DEF Init, WatchPcs
  <2>3. shows \in 0 .. MaxShows /\ progress \in Int /\ fx \in {"idle", "hiding"}
        /\ posted = {} /\ alerted = {} /\ pdfs = {}
    BY <1>1 DEF Init
  <2>4. window = FALSE /\ okEnabled = FALSE /\ cancelled = FALSE
    BY DEF Init
  <2> QED
    BY <2>2, <2>3, <2>4 DEF TypeOK, Threads
<1>3. AllInPlace
  BY DEF Init, AllInPlace, InPlace, CompilationOk
<1>4. OnlyStarted /\ OnlyRunCounts
  BY DEF Init, OnlyStarted, OnlyRunCounts
<1>5. OkFromSuccess /\ PdfAfterOnlyRun /\ AnnouncedAfterOnlyRun
  BY DEF Init, OkFromSuccess, PdfAfterOnlyRun, AnnouncedAfterOnlyRun
<1> QED
  BY <1>2, <1>3, <1>4, <1>5 DEF IInv

-----------------------------------------------------------------------------
(* The compile threads.                                                    *)

\* A step of the compile thread of run j to d, with what is shared after it.
IsThreadStep(j, d) ==
    /\ comp[j].pc \notin {"none", "done"}
    /\ d \in Threads
    /\ d.pc # "none"
    /\ InPlace(d)
    /\ AllExecuted(j) => d.task = NTasks /\ d.pc \notin {"none", "start", "run"}
    /\ comp' = [comp EXCEPT ![j] = d]
    /\ shows = 1 => CountedBy(comp[1], progress)'
    /\ okEnabled' \in BOOLEAN
    /\ okEnabled' => \/ okEnabled
                     \/ d.task = NTasks /\ d.pc = "done" /\ CompilationOk(d.ret)
    /\ cancelled' \in BOOLEAN
    /\ progress' \in Int
    /\ posted' \subseteq Runs
    /\ UNCHANGED <<shows, window, watch, alerted, fx, pdfs>>

LEMMA ThreadStep ==
    ASSUME IInv, NEW j \in Runs, NEW d, IsThreadStep(j, d)
    PROVE  IInv'
<1>1. comp' = [comp EXCEPT ![j] = d] /\ d \in Threads
      /\ UNCHANGED <<shows, window, watch, alerted, fx, pdfs>>
  BY DEF IsThreadStep
<1>2. comp \in [Runs -> Threads] /\ shows \in 0 .. MaxShows
  BY DEF IInv, TypeOK, Threads
<1>3. comp'[j] = d /\ \A i \in Runs : i # j => comp'[i] = comp[i]
  BY <1>1, <1>2
<1>4. TypeOK'
  <2>1. comp' \in [Runs -> Threads]
    BY <1>1, <1>2
  <2> QED
    BY <1>1, <2>1 DEF IInv, TypeOK, Threads, IsThreadStep
<1>5. AllInPlace'
  BY <1>3 DEF IInv, AllInPlace, InPlace, IsThreadStep
<1>6. j <= shows
  <2>1. ~(j > shows)
    BY DEF IInv, OnlyStarted, IsThreadStep
  <2> QED
    BY <2>1, <1>2, CompilationAssumption DEF Runs
<1>7. OnlyStarted'
  <2>1. \A i \in Runs : i > shows => i # j
    BY <1>2, <1>6, CompilationAssumption DEF Runs
  <2> QED
    BY <1>1, <1>3, <2>1 DEF IInv, OnlyStarted
<1>8. OnlyRunCounts'
  BY <1>1 DEF OnlyRunCounts, IsThreadStep
<1>9. \A i \in Runs : (AllExecuted(i) => AllExecuted(i)') /\ (Succeeded(i) => Succeeded(i)')
  BY <1>3 DEF AllExecuted, Succeeded, IsThreadStep
<1>10. OkFromSuccess'
  <2>1. ASSUME okEnabled' PROVE \E i \in Runs : Succeeded(i)'
    <3>1. CASE okEnabled
      BY <3>1, <1>9 DEF IInv, OkFromSuccess
    <3>2. CASE d.task = NTasks /\ d.pc = "done" /\ CompilationOk(d.ret)
      BY <3>2, <1>3 DEF Succeeded, AllExecuted, CompilationOk
    <3> QED
      BY <2>1, <3>1, <3>2 DEF IsThreadStep
  <2> QED
    BY <2>1 DEF OkFromSuccess
<1>11. PdfAfterOnlyRun'
  <2>1. pdfs \subseteq Runs
    BY DEF IInv, TypeOK
  <2> QED
    BY <1>1, <1>9, <2>1 DEF IInv, PdfAfterOnlyRun, PdfAfterCompile
<1>12. AnnouncedAfterOnlyRun'
  BY <1>1, <1>9 DEF IInv, AnnouncedAfterOnlyRun, AnnouncedAfterLast
<1> QED
  BY <1>4, <1>5, <1>7, <1>8, <1>10, <1>11, <1>12 DEF IInv

\* The only run is run 1.
LEMMA OnlyRunIsFirst ==
    ASSUME IInv, NEW j \in Runs, comp[j].pc # "none", shows = 1
    PROVE  j = 1 /\ CountedBy(comp[j], progress)
<1>1. ~(j > shows)
  BY DEF IInv, OnlyStarted
<1>2. j = 1
  BY <1>1, CompilationAssumption DEF Runs
<1> QED
  BY <1>2 DEF IInv, OnlyRunCounts

\* A thread with some of its fields replaced.
At(c, p)         == [c EXCEPT !.pc = p]
Returns(c, p, r) == [c EXCEPT !.pc = p, !.ret = r]
Ends(c, p, o)    == [c EXCEPT !.pc = p, !.out = o]

LEMMA ThreadFields ==
    \A c \in Threads, p \in CompPcs :
       /\ /\ At(c, p) \in Threads
          /\ At(c, p).pc = p
          /\ At(c, p).task = c.task
          /\ At(c, p).ret = c.ret
       /\ \A r \in {1, -1, -2, -3} :
             /\ Returns(c, p, r) \in Threads
             /\ Returns(c, p, r).pc = p
             /\ Returns(c, p, r).task = c.task
             /\ Returns(c, p, r).ret = r
       /\ \A o \in Outcomes :
             /\ Ends(c, p, o) \in Threads
             /\ Ends(c, p, o).pc = p
             /\ Ends(c, p, o).task = c.task
             /\ Ends(c, p, o).ret = c.ret
  BY DEF Threads, At, Returns, Ends

LEMMA StartIInv == ASSUME IInv, NEW j \in Runs, CompStart(j) PROVE IInv'
<1> DEFINE c == comp[j]
           d == At(c, "run")
<1>1. c \in Threads /\ InPlace(c) /\ c.pc = "start" /\ comp \in [Runs -> Threads]
  BY DEF IInv, TypeOK, Threads, AllInPlace, CompStart
<1>2. d \in Threads /\ d.pc = "run" /\ d.task = c.task /\ d.ret = c.ret
  BY <1>1, ThreadFields DEF CompPcs
<1>3. comp' = [comp EXCEPT ![j] = d]
  BY DEF CompStart, Goto, At
<1>4. shows = 1 => CountedBy(comp[1], progress)'
  <2> SUFFICES ASSUME shows = 1 PROVE CountedBy(comp[1], progress)'
    OBVIOUS
  <2>1. j = 1 /\ CountedBy(c, progress)
    BY <1>1, OnlyRunIsFirst
  <2>2. progress' = progress /\ comp'[1] = d
    BY <1>1, <1>3, <2>1 DEF CompStart
  <2> QED
    BY <1>1, <1>2, <2>1, <2>2 DEF CountedBy, InPlace
<1> HIDE DEF d
<1>5. InPlace(d)
  BY <1>1, <1>2 DEF InPlace
<1> QED
  <2>1. IsThreadStep(j, d)
    BY <1>1, <1>2, <1>3, <1>4, <1>5 DEF IsThreadStep, AllExecuted, CompStart, IInv, TypeOK
  <2> QED
    BY <2>1, ThreadStep

LEMMA RunIInv == ASSUME IInv, NEW j \in Runs, CompRun(j) PROVE IInv'
<1> DEFINE c == comp[j]
<1>1. c \in Threads /\ InPlace(c) /\ c.pc = "run" /\ comp \in [Runs -> Threads]
      /\ progress \in Int
  BY DEF IInv, TypeOK, Threads, AllInPlace, CompRun
<1>2. c.task \in 1 .. NTasks /\ NTasks \in Nat
  BY <1>1, CompilationAssumption DEF Threads
<1>3. CASE progress' = progress /\ comp' = [comp EXCEPT ![j].pc = "end", ![j].ret = -2]
  <2> DEFINE d == Returns(c, "end", -2)
  <2>1. d \in Threads /\ d.pc = "end" /\ d.task = c.task /\ d.ret = -2
    BY <1>1, ThreadFields DEF CompPcs
  <2>2. comp' = [comp EXCEPT ![j] = d]
    BY <1>3 DEF Returns
  <2> HIDE DEF d
  <2>3. shows = 1 => CountedBy(comp[1], progress)'
    <3> SUFFICES ASSUME shows = 1 PROVE CountedBy(comp[1], progress)'
      OBVIOUS
    <3>1. j = 1 /\ CountedBy(c, progress)
      BY <1>1, OnlyRunIsFirst
    <3>2. comp'[1] = d
      BY <1>1, <2>2, <3>1
    <3> QED
      BY <1>1, <1>2, <1>3, <2>1, <3>1, <3>2 DEF CountedBy
  <2>4. InPlace(d)
    BY <2>1 DEF InPlace, CompilationOk
  <2>5. IsThreadStep(j, d)
    BY <1>1, <2>1, <2>2, <2>3, <2>4, <1>3
       DEF IsThreadStep, AllExecuted, CompRun, IInv, TypeOK
  <2> QED
    BY <2>5, ThreadStep
<1>4. CASE /\ progress' = progress + 1
           /\ \E o \in Outcomes : comp' = [comp EXCEPT ![j].pc = "judge", ![j].out = o]
  <2> PICK o \in Outcomes : comp' = [comp EXCEPT ![j].pc = "judge", ![j].out = o]
    BY <1>4
  <2> DEFINE d == Ends(c, "judge", o)
  <2>1. d \in Threads /\ d.pc = "judge" /\ d.task = c.task /\ d.ret = c.ret
    BY <1>1, ThreadFields DEF CompPcs
  <2>2. comp' = [comp EXCEPT ![j] = d]
    BY DEF Ends
  <2> HIDE DEF d
  <2>3. shows = 1 => CountedBy(comp[1], progress)'
    <3> SUFFICES ASSUME shows = 1 PROVE CountedBy(comp[1], progress)'
      OBVIOUS
    <3>1. j = 1 /\ CountedBy(c, progress)
      BY <1>1, OnlyRunIsFirst
    <3>2. comp'[1] = d
      BY <1>1, <2>2, <3>1
    <3> QED
      BY <1>1, <1>2, <1>4, <2>1, <3>1, <3>2 DEF CountedBy
  <2>4. InPlace(d)
    BY <1>1, <2>1 DEF InPlace
  <2>5. progress' \in Int
    BY <1>1, <1>4
  <2>6. IsThreadStep(j, d)
    BY <1>1, <2>1, <2>2, <2>3, <2>4, <2>5
       DEF IsThreadStep, AllExecuted, CompRun, IInv, TypeOK
  <2> QED
    BY <2>6, ThreadStep
<1> QED
  BY <1>3, <1>4 DEF CompRun

LEMMA JudgeIInv == ASSUME IInv, NEW j \in Runs, CompJudge(j) PROVE IInv'
<1> DEFINE c == [comp[j] EXCEPT !.out = "ok"]
           n == AfterTask(c)
<1>1. comp[j] \in Threads /\ InPlace(comp[j]) /\ comp[j].pc = "judge"
      /\ comp \in [Runs -> Threads] /\ NTasks \in Nat
  BY CompilationAssumption DEF IInv, TypeOK, Threads, AllInPlace, CompJudge
<1>2. c \in Threads /\ c.pc = "judge" /\ c.task = comp[j].task /\ c.ret = comp[j].ret
      /\ c.task \in 1 .. NTasks
  BY <1>1 DEF Threads, Outcomes
<1> HIDE DEF c
<1>3. \/ c.task = NTasks /\ n = [c EXCEPT !.pc = "last"]
      \/ c.task # NTasks /\ n = [c EXCEPT !.pc = "run", !.task = c.task + 1]
  BY DEF AfterTask
<1>4. /\ n \in Threads /\ n.ret = c.ret
      /\ \/ c.task = NTasks /\ n.pc = "last" /\ n.task = c.task
         \/ c.task # NTasks /\ n.pc = "run" /\ n.task = c.task + 1
  <2>1. CASE c.task = NTasks /\ n = [c EXCEPT !.pc = "last"]
    BY <1>2, <2>1 DEF Threads, CompPcs
  <2>2. CASE c.task # NTasks /\ n = [c EXCEPT !.pc = "run", !.task = c.task + 1]
    <3>1. c.task + 1 \in 1 .. NTasks
      BY <1>1, <1>2, <2>2
    <3> HIDE DEF n
    <3> QED
      BY <1>2, <2>2, <3>1 DEF Threads, CompPcs
  <2> QED
    BY <1>3, <2>1, <2>2
<1> HIDE DEF n
<1>5. progress' = progress /\ UNCHANGED <<shows, window, okEnabled, cancelled, watch,
                                          posted, alerted, fx, pdfs>>
  BY DEF CompJudge, shared
<1>6. shows = 1 => j = 1 /\ progress = c.task - 1
  BY <1>1, <1>2, OnlyRunIsFirst DEF CountedBy
<1>7. ASSUME NEW d \in Threads, comp' = [comp EXCEPT ![j] = d],
             \/ /\ CompilationOk(d.ret)
                /\ \/ c.task = NTasks /\ d.pc = "last" /\ d.task = c.task
                   \/ c.task # NTasks /\ d.pc = "run" /\ d.task = c.task + 1
             \/ d.task = c.task /\ d.pc = "end" /\ ~CompilationOk(d.ret)
             \/ d.task = c.task /\ d.pc = "dead"
      PROVE  IInv'
  <2>1. InPlace(d)
    BY <1>7 DEF InPlace
  <2>2. shows = 1 => CountedBy(comp[1], progress)'
    <3> SUFFICES ASSUME shows = 1 PROVE CountedBy(comp[1], progress)'
      OBVIOUS
    <3>1. comp'[1] = d /\ progress' = c.task - 1
      BY <1>1, <1>5, <1>6, <1>7
    <3> QED
      BY <1>1, <1>2, <1>7, <3>1 DEF CountedBy
  <2>3. AllExecuted(j) => d.task = NTasks /\ d.pc \notin {"none", "start", "run"}
    BY <1>2, <1>7 DEF AllExecuted
  <2>4. d.pc # "none"
    BY <1>7
  <2>5. IsThreadStep(j, d)
    BY <1>1, <1>5, <1>7, <2>1, <2>2, <2>3, <2>4 DEF IsThreadStep, IInv, TypeOK
  <2> QED
    BY <2>5, ThreadStep
<1>8. CASE comp' = [comp EXCEPT ![j] = n]
  BY <1>1, <1>2, <1>4, <1>7, <1>8 DEF InPlace
<1>9. CASE comp' = [comp EXCEPT ![j] = [n EXCEPT !.ret = -3]]
  <2>1. [n EXCEPT !.ret = -3] \in Threads /\ [n EXCEPT !.ret = -3].ret = -3
        /\ [n EXCEPT !.ret = -3].pc = n.pc /\ [n EXCEPT !.ret = -3].task = n.task
    BY <1>4 DEF Threads
  <2> QED
    BY <1>4, <1>7, <1>9, <2>1 DEF CompilationOk
<1>10. CASE comp' = [comp EXCEPT ![j] = [c EXCEPT !.pc = "end", !.ret = -1]]
  <2> DEFINE d == Returns(c, "end", -1)
  <2>1. d \in Threads /\ d.pc = "end" /\ d.ret = -1 /\ d.task = c.task
    BY <1>2, ThreadFields DEF CompPcs
  <2>2. comp' = [comp EXCEPT ![j] = d]
    BY <1>10 DEF Returns
  <2> HIDE DEF d
  <2>3. ~CompilationOk(d.ret)
    BY <2>1 DEF CompilationOk
  <2> QED
    BY <1>7, <2>1, <2>2, <2>3
<1>11. CASE comp' = [comp EXCEPT ![j] = [c EXCEPT !.pc = "dead"]]
  <2> DEFINE d == At(c, "dead")
  <2>1. d \in Threads /\ d.pc = "dead" /\ d.task = c.task
    BY <1>2, ThreadFields DEF CompPcs
  <2>2. comp' = [comp EXCEPT ![j] = d]
    BY <1>11 DEF At
  <2> HIDE DEF d
  <2> QED
    BY <1>7, <2>1, <2>2
<1> QED
  BY <1>8, <1>9, <1>10, <1>11 DEF CompJudge, c, n

\* The steps that do not change the task: the last count, the end and what
\* follows it.
LEMMA LastIInv == ASSUME IInv, NEW j \in Runs, CompLast(j) PROVE IInv'
<1> DEFINE c == comp[j]
           d == At(c, "end")
<1>1. c \in Threads /\ InPlace(c) /\ c.pc = "last" /\ comp \in [Runs -> Threads]
      /\ progress \in Int
  BY DEF IInv, TypeOK, Threads, AllInPlace, CompLast
<1>2. d \in Threads /\ d.pc = "end" /\ d.task = c.task /\ d.ret = c.ret
  BY <1>1, ThreadFields DEF CompPcs
<1>3. comp' = [comp EXCEPT ![j] = d] /\ progress' \in Int
  BY <1>1 DEF CompLast, Goto, At
<1> HIDE DEF d
<1>4. d.task = NTasks /\ InPlace(d)
  BY <1>1, <1>2 DEF InPlace
<1>5. shows = 1 => CountedBy(comp[1], progress)'
  <2> SUFFICES ASSUME shows = 1 PROVE CountedBy(comp[1], progress)'
    OBVIOUS
  <2>1. comp'[1] = d
    BY <1>1, <1>3, OnlyRunIsFirst
  <2> QED
    BY <1>2, <1>4, <2>1 DEF CountedBy
<1>6. IsThreadStep(j, d)
  BY <1>1, <1>2, <1>3, <1>4, <1>5 DEF IsThreadStep, AllExecuted, CompLast, IInv, TypeOK
<1> QED
  BY <1>6, ThreadStep

LEMMA EndIInv ==
    ASSUME IInv, NEW j \in Runs, CompEnd(j) \/ CompCancel(j) \/ CompPost(j)
    PROVE  IInv'
<1> DEFINE c == comp[j]
<1>1. c \in Threads /\ InPlace(c) /\ c.pc \in {"end", "cancel", "post"}
      /\ comp \in [Runs -> Threads]
  BY DEF IInv, TypeOK, Threads, AllInPlace, CompEnd, CompCancel, CompPost
<1>2. PICK p \in {"done", "cancel", "post"} :
         /\ comp' = [comp EXCEPT ![j].pc = p]
         /\ p = "done" /\ CompilationOk(c.ret) => c.task = NTasks
         /\ p # "done" => ~CompilationOk(c.ret)
         /\ okEnabled' => okEnabled \/ (p = "done" /\ CompilationOk(c.ret))
  <2>1. CASE CompEnd(j)
    <3>1. CASE CompilationOk(c.ret)
      BY <2>1, <3>1, <1>1 DEF CompEnd, Goto, InPlace
    <3>2. CASE ~CompilationOk(c.ret)
      BY <2>1, <3>2, <1>1 DEF CompEnd, Goto, InPlace
    <3> QED
      BY <3>1, <3>2
  <2>2. CASE CompCancel(j)
    BY <2>2, <1>1 DEF CompCancel, Goto, InPlace
  <2>3. CASE CompPost(j)
    BY <2>3, <1>1 DEF CompPost, Goto, InPlace, shared
  <2> QED
    BY <2>1, <2>2, <2>3
<1>3. progress' = progress /\ okEnabled' \in BOOLEAN /\ cancelled' \in BOOLEAN
      /\ posted' \subseteq Runs /\ UNCHANGED <<shows, window, watch, alerted, fx, pdfs>>
  <2>1. TypeOK
    BY DEF IInv
  <2>2. CASE CompEnd(j)
    <3>1. okEnabled' \in BOOLEAN
      BY <2>2 DEF CompEnd, CompilationOk
    <3> QED
      BY <2>1, <2>2, <3>1 DEF CompEnd, TypeOK
  <2>3. CASE CompCancel(j)
    BY <2>1, <2>3 DEF CompCancel, TypeOK
  <2>4. CASE CompPost(j)
    BY <2>1, <2>4 DEF CompPost, TypeOK, shared
  <2> QED
    BY <2>2, <2>3, <2>4
<1> DEFINE d == At(c, p)
<1>4. d \in Threads /\ d.pc = p /\ d.task = c.task /\ d.ret = c.ret
  BY <1>1, ThreadFields DEF CompPcs
<1>5. comp' = [comp EXCEPT ![j] = d]
  BY <1>2 DEF At
<1> HIDE DEF d
<1>6. InPlace(d)
  BY <1>2, <1>4 DEF InPlace
<1>7. shows = 1 => CountedBy(comp[1], progress)'
  <2> SUFFICES ASSUME shows = 1 PROVE CountedBy(comp[1], progress)'
    OBVIOUS
  <2>1. j = 1 /\ CountedBy(c, progress)
    BY <1>1, OnlyRunIsFirst
  <2>2. comp'[1] = d
    BY <1>1, <1>5, <2>1
  <2> QED
    BY <1>1, <1>3, <1>4, <2>1, <2>2 DEF CountedBy
<1>8. IsThreadStep(j, d)
  <2>1. AllExecuted(j) => d.task = NTasks /\ d.pc \notin {"none", "start", "run"}
    BY <1>4 DEF AllExecuted
  <2>2. okEnabled' => \/ okEnabled
                      \/ d.task = NTasks /\ d.pc = "done" /\ CompilationOk(d.ret)
    BY <1>2, <1>4
  <2> QED
    BY <1>1, <1>3, <1>4, <1>5, <1>6, <1>7, <2>1, <2>2 DEF IsThreadStep, IInv, TypeOK
<1> QED
  BY <1>8, ThreadStep

-----------------------------------------------------------------------------
(* The progress threads and the JavaFX thread.                             *)

LEMMA WatchIInv == ASSUME IInv, NEW j \in Runs, Watch(j) PROVE IInv'
<1>1. TypeOK /\ NTasks \in Nat \ {0}
  BY CompilationAssumption DEF IInv
<1>2. UNCHANGED <<shows, window, okEnabled, cancelled, progress, comp, posted, alerted,
                  fx, pdfs>>
  BY DEF Watch, WatchCheck, WatchTest, shared
<1>3. PICK p \in WatchPcs :
         /\ watch' = [watch EXCEPT ![j] = p]
         /\ p = "success" => ~StillCompiling
  BY DEF Watch, WatchCheck, WatchTest, WatchPcs
<1>4. watch[j] # "none"
  BY DEF Watch, WatchCheck, WatchTest
<1>5. watch \in [Runs -> WatchPcs] /\ shows \in 0 .. MaxShows /\ progress \in Int
  BY <1>1 DEF TypeOK
<1>6. watch'[j] = p /\ \A i \in Runs : i # j => watch'[i] = watch[i]
  BY <1>3, <1>5
<1>7. TypeOK'
  <2>1. watch' \in [Runs -> WatchPcs]
    BY <1>3, <1>5
  <2> QED
    BY <1>1, <1>2, <2>1 DEF TypeOK
<1>8. AllInPlace' /\ OnlyRunCounts' /\ OkFromSuccess' /\ PdfAfterOnlyRun'
  BY <1>2 DEF IInv, AllInPlace, InPlace, OnlyRunCounts, CountedBy, OkFromSuccess,
              PdfAfterOnlyRun, PdfAfterCompile, Succeeded, AllExecuted
<1>9. ~(j > shows)
  BY <1>4 DEF IInv, OnlyStarted
<1>10. OnlyStarted'
  BY <1>2, <1>6, <1>9 DEF IInv, OnlyStarted
<1>11. AnnouncedAfterOnlyRun'
  <2> SUFFICES ASSUME shows = 1, NEW i \in Runs, watch'[i] = "success"
               PROVE  AllExecuted(i)
    BY <1>2 DEF AnnouncedAfterOnlyRun, AnnouncedAfterLast, AllExecuted
  <2>1. CASE i # j
    BY <2>1, <1>6 DEF IInv, AnnouncedAfterOnlyRun, AnnouncedAfterLast
  <2>2. CASE i = j
    <3>1. progress >= NTasks - 1
      BY <1>1, <1>3, <1>5, <1>6, <2>2 DEF StillCompiling
    <3>2. j = 1
      BY <1>9, CompilationAssumption DEF Runs
    <3>3. CountedBy(comp[1], progress)
      BY DEF IInv, OnlyRunCounts
    <3>4. comp[1].task \in 1 .. NTasks
      BY <1>1, <3>2 DEF TypeOK
    <3> QED
      BY <1>1, <2>2, <3>1, <3>2, <3>3, <3>4 DEF CountedBy, AllExecuted
  <2> QED
    BY <2>1, <2>2
<1> QED
  BY <1>7, <1>8, <1>10, <1>11 DEF IInv

\* Handlers that leave the threads, the counter and the button alone.
LEMMA HandlerStep ==
    ASSUME IInv, TypeOK', UNCHANGED <<shows, okEnabled, progress, comp, watch>>,
           window' => window,
           \A i \in pdfs' : i \in pdfs \/ (shows # 0 /\ i = shows
                                           /\ \E k \in Runs : Succeeded(k))
    PROVE  IInv'
<1>1. AllInPlace' /\ OnlyRunCounts' /\ OkFromSuccess'
  BY DEF IInv, AllInPlace, InPlace, OnlyRunCounts, CountedBy, OkFromSuccess, Succeeded,
         AllExecuted
<1>2. shows \in 0 .. MaxShows
  BY DEF IInv, TypeOK
<1>3. OnlyStarted'
  BY <1>2, CompilationAssumption DEF IInv, OnlyStarted
<1>4. AnnouncedAfterOnlyRun'
  BY DEF IInv, AnnouncedAfterOnlyRun, AnnouncedAfterLast, AllExecuted
<1>5. PdfAfterOnlyRun'
  <2> SUFFICES ASSUME shows = 1, NEW i \in pdfs' PROVE Succeeded(i)
    BY DEF PdfAfterOnlyRun, PdfAfterCompile, Succeeded, AllExecuted
  <2>1. CASE i \in pdfs
    BY <2>1 DEF IInv, PdfAfterOnlyRun, PdfAfterCompile
  <2>2. CASE i = 1 /\ \E k \in Runs : Succeeded(k)
    <3>1. PICK k \in Runs : Succeeded(k)
      BY <2>2
    <3>2. comp[k].pc # "none"
      BY <3>1 DEF Succeeded
    <3>3. k = 1
      BY <3>2, OnlyRunIsFirst
    <3> QED
      BY <2>2, <3>1, <3>3
  <2> QED
    BY <2>1, <2>2
<1> QED
  BY <1>1, <1>3, <1>4, <1>5 DEF IInv

LEMMA HandlerIInv ==
    ASSUME IInv,
           PressCancel \/ CloseWindow \/ FinishHiding \/ PressOk
           \/ \E j \in Runs : ShowError(j)
    PROVE  IInv'
<1>1. TypeOK
  BY DEF IInv
<1>2. CASE PressCancel
  <2>1. TypeOK'
    BY <1>1, <1>2 DEF PressCancel, TypeOK
  <2> QED
    BY <1>2, <2>1, HandlerStep DEF PressCancel
<1>3. CASE CloseWindow
  <2>1. TypeOK'
    BY <1>1, <1>3 DEF CloseWindow, Hide, TypeOK
  <2> QED
    BY <1>3, <2>1, HandlerStep DEF CloseWindow, Hide
<1>4. CASE FinishHiding
  <2>1. TypeOK'
    BY <1>1, <1>4 DEF FinishHiding, Hide, TypeOK
  <2> QED
    BY <1>4, <2>1, HandlerStep DEF FinishHiding, Hide
<1>5. CASE PressOk
  <2>1. shows # 0
    BY <1>5 DEF PressOk, IInv, OnlyStarted
  <2>2. shows \in Runs
    BY <1>1, <2>1, CompilationAssumption DEF TypeOK, Runs
  <2>3. TypeOK'
    BY <1>1, <1>5, <2>2 DEF PressOk, Hide, TypeOK
  <2>4. \E k \in Runs : Succeeded(k)
    BY <1>5 DEF PressOk, IInv, OkFromSuccess
  <2> QED
    BY <1>5, <2>1, <2>3, <2>4, HandlerStep DEF PressOk, Hide
<1>6. ASSUME NEW j \in Runs, ShowError(j) PROVE IInv'
  <2>1. TypeOK'
    BY <1>1, <1>6 DEF ShowError, TypeOK
  <2> QED
    BY <1>6, <2>1, HandlerStep DEF ShowError
<1> QED
  BY <1>2, <1>3, <1>4, <1>5, <1>6

LEMMA ShowIInv == ASSUME IInv, Show PROVE IInv'
<1> DEFINE n == shows + 1
           d == At(comp[n], "start")
<1>1. TypeOK /\ shows \in 0 .. MaxShows /\ shows < MaxShows /\ MaxShows \in Nat
      /\ NTasks \in Nat \ {0}
  BY CompilationAssumption DEF IInv, TypeOK, Show
<1>2. n \in Runs /\ n > shows
  BY <1>1 DEF Runs
<1>3. comp \in [Runs -> Threads] /\ watch \in [Runs -> WatchPcs]
  BY <1>1 DEF TypeOK, Threads
<1>4. comp[n].pc = "none" /\ watch[n] = "none" /\ InPlace(comp[n]) /\ comp[n] \in Threads
  BY <1>2, <1>3 DEF IInv, OnlyStarted, AllInPlace
<1>5. comp' = [comp EXCEPT ![n] = d] /\ watch' = [watch EXCEPT ![n] = "check"]
      /\ shows' = n /\ progress' = -1 /\ UNCHANGED <<okEnabled, pdfs>>
  BY DEF Show, Goto, At
<1>6. d \in Threads /\ d.pc = "start" /\ d.task = comp[n].task /\ d.ret = comp[n].ret
  BY <1>4, ThreadFields DEF CompPcs
<1> HIDE DEF d
<1>7. comp'[n] = d /\ watch'[n] = "check"
      /\ \A i \in Runs : i # n => comp'[i] = comp[i] /\ watch'[i] = watch[i]
  BY <1>2, <1>3, <1>5
<1>8. d.task = 1 /\ InPlace(d)
  BY <1>4, <1>6 DEF InPlace
<1> HIDE DEF n
<1>9. TypeOK'
  <2>1. comp' \in [Runs -> Threads] /\ watch' \in [Runs -> WatchPcs]
    BY <1>3, <1>5, <1>6 DEF WatchPcs
  <2>2. shows' \in 0 .. MaxShows
    BY <1>1, <1>2, <1>5 DEF Runs
  <2>3. window' \in BOOLEAN /\ cancelled' \in BOOLEAN
    BY Zenon DEF Show
  <2>4. progress' \in Int /\ UNCHANGED <<okEnabled, posted, alerted, fx, pdfs>>
    BY DEF Show
  <2> QED
    BY <1>1, <2>1, <2>2, <2>3, <2>4 DEF TypeOK, Threads
<1>10. AllInPlace'
  BY <1>7, <1>8 DEF IInv, AllInPlace, InPlace
<1>11. \A i \in Runs : (Succeeded(i) => Succeeded(i)') /\ (AllExecuted(i) => AllExecuted(i)')
  BY <1>4, <1>7 DEF Succeeded, AllExecuted
<1>12. OkFromSuccess'
  BY <1>5, <1>11 DEF IInv, OkFromSuccess
<1>13. OnlyStarted'
  <2>1. \A i \in Runs : i > n => i > shows /\ i # n
    BY <1>1 DEF Runs, n
  <2>2. pdfs \subseteq Runs
    BY <1>1 DEF TypeOK
  <2>3. \A i \in pdfs : i <= n
    BY <1>1, <2>2 DEF IInv, OnlyStarted, Runs, n
  <2>4. n # 0
    BY <1>2 DEF Runs
  <2> QED
    BY <1>5, <1>7, <2>1, <2>3, <2>4 DEF IInv, OnlyStarted
<1>14. ASSUME n = 1
       PROVE  CountedBy(comp'[1], progress') /\ pdfs = {} /\ \A i \in Runs : watch'[i] # "success"
  <2>1. shows = 0
    BY <1>1, <1>14 DEF n
  <2>2. \A i \in Runs : i > shows
    BY <2>1, <1>1 DEF Runs
  <2>3. \A i \in Runs : watch'[i] # "success"
    BY <1>7, <2>2 DEF IInv, OnlyStarted
  <2>4. pdfs = {}
    BY <1>1, <2>1, <2>2 DEF IInv, OnlyStarted, TypeOK, Runs
  <2>5. CountedBy(comp'[1], progress')
    BY <1>1, <1>5, <1>6, <1>7, <1>8, <1>14 DEF CountedBy
  <2> QED
    BY <2>3, <2>4, <2>5
<1>15. OnlyRunCounts' /\ PdfAfterOnlyRun' /\ AnnouncedAfterOnlyRun'
  BY <1>5, <1>14 DEF OnlyRunCounts, PdfAfterOnlyRun, PdfAfterCompile,
                     AnnouncedAfterOnlyRun, AnnouncedAfterLast
<1> QED
  BY <1>9, <1>10, <1>12, <1>13, <1>15 DEF IInv

LEMMA NextIInv == IInv /\ [Next]_vars => IInv'
<1> SUFFICES ASSUME IInv, [Next]_vars PROVE IInv'
  OBVIOUS
<1>1. CASE Show
  BY <1>1, ShowIInv
<1>2. CASE PressCancel \/ CloseWindow \/ FinishHiding \/ PressOk
           \/ \E j \in Runs : ShowError(j)
  BY <1>2, HandlerIInv
<1>3. ASSUME NEW j \in Runs, CompStart(j) PROVE IInv'
  BY <1>3, StartIInv
<1>4. ASSUME NEW j \in Runs, CompRun(j) PROVE IInv'
  BY <1>4, RunIInv
<1>5. ASSUME NEW j \in Runs, CompJudge(j) PROVE IInv'
  BY <1>5, JudgeIInv
<1>6. ASSUME NEW j \in Runs, CompLast(j) PROVE IInv'
  BY <1>6, LastIInv
<1>7. ASSUME NEW j \in Runs, CompEnd(j) \/ CompCancel(j) \/ CompPost(j) PROVE IInv'
  BY <1>7, EndIInv
<1>8. ASSUME NEW j \in Runs, WatchCheck(j) \/ WatchTest(j) PROVE IInv'
  BY <1>8, WatchIInv DEF Watch
<1>9. CASE UNCHANGED vars
  <2>1. TypeOK'
    BY <1>9 DEF vars, shared, IInv, TypeOK
  <2> QED
    BY <1>9, <2>1, HandlerStep DEF vars, shared
<1> QED
  BY <1>1, <1>2, <1>3, <1>4, <1>5, <1>6, <1>7, <1>8, <1>9 DEF Next

-----------------------------------------------------------------------------
(* The theorems.                                                           *)

\* The inductive invariant holds in every reachable state: types, what each
\* compile thread has done where it is, and what the counter says of the only
\* run.
THEOREM CompilationInvariant == Spec => []IInv
<1>1. Init => IInv
  BY InitIInv
<1>2. IInv /\ [Next]_vars => IInv'
  BY NextIInv
<1> QED
  BY <1>1, <1>2, PTL DEF Spec

\* Every variable has its type, in particular no thread indexes a task that
\* is not there (the loop of Exam.compile).
THEOREM CompilationTypes == Spec => []TypeOK
<1>1. IInv => TypeOK
  BY DEF IInv
<1> QED
  BY <1>1, CompilationInvariant, PTL

\* However many runs there are and in whatever order their threads write it,
\* the OK button is enabled only when some run has compiled all its tasks.
THEOREM OkAlwaysFromSuccess == Spec => []OkFromSuccess
<1>1. IInv => OkFromSuccess
  BY DEF IInv
<1> QED
  BY <1>1, CompilationInvariant, PTL

\* While the window was shown only once, the OK button generates a PDF only
\* of an exam that was compiled.
THEOREM PdfAlwaysAfterOnlyRun == Spec => []PdfAfterOnlyRun
<1>1. IInv => PdfAfterOnlyRun
  BY DEF IInv
<1> QED
  BY <1>1, CompilationInvariant, PTL

\* While the window was shown only once, success is announced only after the
\* last task was executed, for every number of tasks.
THEOREM AnnouncedAlwaysAfterOnlyRun == Spec => []AnnouncedAfterOnlyRun
<1>1. IInv => AnnouncedAfterOnlyRun
  BY DEF IInv
<1> QED
  BY <1>1, CompilationInvariant, PTL

==============================================================================
