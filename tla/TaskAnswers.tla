----------------------------- MODULE TaskAnswers -----------------------------
(***************************************************************************)
(* The answers of one task: the task types (TaskType*.java) that make them *)
(* from what the compiler and the program said, the answer area and its    *)
(* check box "remember the answers" (GUIMainController.java), the dialog   *)
(* that changes the type, and the rounds of Exam.compile that prepare the  *)
(* task for the PDF.                                                       *)
(*                                                                         *)
(* A round runs on a thread of its own: it takes the code, waits for the   *)
(* compiler and the program, and only then looks at the flag that says     *)
(* whether answers are generated, while the user goes on editing.          *)
(*                                                                         *)
(* The task is on display ("open") or another one is.  One action is one   *)
(* handler, or one half of a round.  The labels in front of the answers     *)
(* are left out.                                                           *)
(***************************************************************************)
EXTENDS LineNumbers

Unset == 2147483646    \* Integer.MAX_VALUE - 1: answers not counted yet

CONSTANTS Codes,     \* the codes of the task: [parts, errors, prints]
          NoCode,    \* stands for no code
          MaxLines,  \* bound on the lines typed in the answer area (model bound)
          MaxStored  \* bound on the answers stored when a round begins (model bound)

ASSUME AnswersAssumption ==
    /\ \A c \in Codes : /\ c.parts \in Seq(Part)
                        /\ c.errors \in Seq(Nat \ {0})
                        /\ c.prints \in Nat
    /\ NoCode \notin Codes
    /\ MaxLines \in 0 .. Unset
    /\ MaxStored \in 0 .. Unset - 1

\* ReturnedValue and VarValue generate answers as ComplexOutput does.
Types == {"SimpleOutput", "ComplexOutput", "Gaps", "LineNumbers", "OwnType"}

\* An answer: where it comes from, the code it was made of, and which it is
\* (for "number": the line it names).
Origins == {"printed", "complaint", "error", "none", "gap", "number", "typed"}
Answer  == [from : Origins, code : Codes \cup {NoCode}, n : Int]

Typed == [from |-> "typed", code |-> NoCode, n |-> 0]

VARIABLES
    task,      \* the task: [type, code, update, no, answers]
    open,      \* is it on display
    code,      \* the code area
    area,      \* the answer area, by lines
    remember,  \* the check box
    round,     \* the round of Exam.compile: the code it took, or NoCode
    ready,     \* the last thing that happened to the task is that a round
               \* finished which lets the PDF be generated (history)
    places,    \* the size of the task's pdfAnswers while ready, otherwise 0
    clean,     \* nothing happened to the task since the round began (history)
    dialog,    \* its code came from the dialog and was not saved since (history)
    kept       \* the answers last saved with the box checked: [on, answers] (history)

window == <<open, code, area, remember>>
hist   == <<ready, places, clean, dialog, kept>>
vars   == <<task, window, round, hist>>

NotKept  == [on |-> FALSE, answers |-> <<>>]

(* Every variable has its type.                                             *)
TypeOK ==
    /\ task \in [type : Types, code : Codes, update : BOOLEAN, no : 0 .. Unset,
                 answers : Seq(Answer)]
    /\ open \in BOOLEAN /\ remember \in BOOLEAN
    /\ code \in Codes
    /\ area \in Seq(Answer)
    /\ round \in Codes \cup {NoCode}
    /\ {ready, clean, dialog} \subseteq BOOLEAN
    /\ places \in 0 .. Unset
    /\ kept \in [on : BOOLEAN, answers : Seq(Answer)]

-----------------------------------------------------------------------------
(* The constructors of the types.                                          *)

Updates(type) == type # "OwnType"

\* Mutant: the number is the largest one; the loops add one to it.
Count0_Max(type) == IF type = "SimpleOutput" THEN 1 ELSE Unset + 1

Count0(type) == CASE type = "SimpleOutput" -> 1
                  [] type = "Gaps"         -> 0
                  [] OTHER                 -> Unset

-----------------------------------------------------------------------------
(* Generating answers from the outcome of code c.                          *)

Compiles(c) == c.errors = <<>>
Made(from, c, k) == [from |-> from, code |-> c, n |-> k]
Lines(from, c, m) == [k \in 1 .. m |-> Made(from, c, k)]

\* The number of answers of calculateGapsAnswers: the lines of the gaps.
GapLines(c) == Cardinality(LinesOf(c.parts, {"gap"}))

\* Java's lists hold at most Unset elements; there is room for one more answer.
ASSUME SizesAssumption ==
    \A c \in Codes : /\ c.prints <= Unset
                     /\ Len(c.errors) <= Unset
                     /\ GapLines(c) + 1 < Unset

\* SimpleOutput takes the second line of the output whatever it is; there is
\* none when the program prints nothing.
Silent(c) == Compiles(c) /\ c.prints = 0

\* Mutant: the answers of the last run are not cleared.
GeneratedComplex_Appends(t, c) ==
    IF Compiles(c) THEN t.answers \o Lines("printed", c, c.prints)
                   ELSE <<Made("error", c, 0)>>

GeneratedComplex(t, c) ==
    IF Compiles(c) THEN Lines("printed", c, c.prints) ELSE <<Made("error", c, 0)>>

\* generateAnswers of the type of t.
Generated(t, c) ==
    CASE t.type = "SimpleOutput" ->
            IF Silent(c) THEN <<>>
            ELSE <<Made(IF Compiles(c) THEN "printed" ELSE "complaint", c, 1)>>
      [] t.type = "ComplexOutput" -> GeneratedComplex(t, c)
      [] t.type = "Gaps" ->
            IF Compiles(c) THEN t.answers ELSE Append(t.answers, Made("none", c, 0))
      [] t.type = "LineNumbers" ->
            IF Compiles(c) THEN <<Made("none", c, 0)>>
            ELSE [k \in DOMAIN c.errors |->
                     Made("number", c, PdfLineNumber(c.parts, c.errors[k]))]
      [] t.type = "OwnType" -> t.answers

\* setNoOfAnswers in generateAnswers.
Counted(t, c) ==
    CASE t.type \in {"ComplexOutput", "LineNumbers"} -> Len(Generated(t, c))
      [] t.type = "Gaps" -> IF Compiles(c) THEN t.no ELSE 1
      [] OTHER -> t.no

\* preparePdfAnswers: as many places for answers in the PDF.
Places(t) == CASE t.type = "SimpleOutput" -> 1
               [] t.type = "OwnType"      -> Len(t.answers)
               [] OTHER                   -> t.no

\* Mutant: the flag is not looked at.
Generates_Always(t) == t.type # "OwnType"
\* Does callExecute generate answers?
Generates(t) == t.type # "OwnType" /\ t.update

\* callExecute with the outcome of code c; the places are prepared last.
Executed(t, c) ==
    IF Generates(t) THEN [t EXCEPT !.answers = Generated(t, c), !.no = Counted(t, c)] ELSE t

-----------------------------------------------------------------------------
(* Saving and displaying.                                                  *)

\* Mutant: the gaps are not computed anew.
SaveText_NoGaps(t) == [t EXCEPT !.code = code]

\* saveText: the answers to a task with gaps are its gaps.
SaveText(t) ==
    IF t.type = "Gaps"
    THEN [t EXCEPT !.code = code, !.answers = Lines("gap", code, GapLines(code)),
                   !.no = GapLines(code)]
    ELSE [t EXCEPT !.code = code]

\* Mutant: the answers are saved without the number of them.
Remembered_Uncounted(t) ==
    IF remember
    THEN [t EXCEPT !.update = FALSE, !.answers = area]
    ELSE [t EXCEPT !.update = TRUE]
\* setUpdateAnswers, and saveAnswers when the box is checked.
Remembered(t) ==
    IF remember
    THEN [t EXCEPT !.update = FALSE, !.answers = area, !.no = Len(area)]
    ELSE [t EXCEPT !.update = TRUE]

\* saveTaskInfo
Saved(t) == Remembered(SaveText(t))

\* updateAnswer
Display(t) ==
    /\ area' = t.answers
    /\ remember' = ~t.update

\* What a save means for the history.
Kept == IF remember THEN [on |-> TRUE, answers |-> area] ELSE NotKept
Touched   == ready' = FALSE /\ places' = 0 /\ clean' = FALSE
AfterSave == Touched /\ dialog' = FALSE /\ kept' = Kept

Init ==
    /\ \E t \in Types : \E c \in Codes :
          /\ task = [type |-> t, code |-> c, update |-> Updates(t), no |-> Count0(t),
                     answers |-> <<>>]
          /\ code = c
          /\ remember = ~Updates(t)
    /\ open = TRUE
    /\ area = <<>>
    /\ round = NoCode
    /\ ready = FALSE /\ places = 0 /\ clean = FALSE
    /\ dialog = TRUE
    /\ kept = NotKept

-----------------------------------------------------------------------------
(* The JavaFX thread.                                                      *)

\* A change of the code text.  While the box is not checked the listener
\* deletes the characters of the answer area that have no style.  Those of
\* displayed answers have one; whether typed ones do depends on the text they
\* were typed next to.
EditCode ==
    /\ open
    /\ \E c \in Codes \ {code} : code' = c
    /\ \/ UNCHANGED area
       \/ ~remember /\ (\A i \in DOMAIN area : area[i] = Typed) /\ area' = <<>>
    /\ UNCHANGED <<task, open, remember, round, hist>>

\* The user rewrites the answers; what is left of others counts as typed.
EditArea ==
    /\ open
    /\ \E m \in 0 .. MaxLines : area' = [k \in 1 .. m |-> Typed]
    /\ UNCHANGED <<task, open, code, remember, round, hist>>

\* The check box is disabled for tasks of the user's own type.
Check ==
    /\ open
    /\ task.type # "OwnType"
    /\ remember' = ~remember
    /\ UNCHANGED <<task, open, code, area, round, hist>>

\* The exam or the task is saved, or a PDF asked for.
Save ==
    /\ open
    /\ task' = Saved(task)
    /\ AfterSave
    /\ UNCHANGED <<window, round>>

\* Another tab is selected, which saves; its task is not modelled.
Leave ==
    /\ open
    /\ task' = Saved(task)
    /\ AfterSave
    /\ open' = FALSE
    /\ code' = task'.code
    /\ area' = <<>>
    /\ remember' = FALSE
    /\ UNCHANGED round

\* updateWindow
Show ==
    /\ open' = TRUE
    /\ code' = task.code
    /\ Display(task)
    /\ UNCHANGED <<task, round, hist>>

\* The tab of the task is selected.
Return == ~open /\ Show

\* The compilation window is hidden: the task is displayed, not saved.
Hide == open /\ Show

\* execute: the answers are displayed after the program ended, unless an exception ended the handler.
Execute ==
    /\ open
    /\ LET t == Remembered(SaveText(task))
           g == Executed(t, code)
           throws == t.type = "SimpleOutput" /\ t.update /\ Silent(code)
       IN  /\ task' = g
           /\ IF throws \/ remember THEN UNCHANGED <<area, remember>> ELSE Display(g)
    /\ AfterSave
    /\ UNCHANGED <<open, code, round>>

\* testExecute saves the code only; for a task with gaps that replaces the
\* answers, remembered or not.
TestExecute ==
    /\ open
    /\ task' = SaveText(task)
    /\ Touched
    /\ dialog' = FALSE
    /\ kept' = IF task.type = "Gaps" THEN NotKept ELSE kept
    /\ UNCHANGED <<window, round>>

\* finishEdition of the dialog for editing, with the code c.
Rewritten(c) ==
    /\ open
    /\ code' = c
    /\ Touched
    /\ dialog' = TRUE
    /\ UNCHANGED <<open, area, remember, round>>

EditTask ==
    \E c \in Codes :
        /\ Rewritten(c)
        /\ task' = [task EXCEPT !.code = c]
        /\ UNCHANGED kept

\* If a type was chosen the task gets a new object for it.  Neither the
\* answers nor the answer area and its check box are touched.  (Not during a
\* round, which would go on with the old object: a model bound.)
ChangeType ==
    /\ round = NoCode
    /\ \E c \in Codes : \E t \in Types :
          /\ Rewritten(c)
          /\ task' = [task EXCEPT !.code = c, !.type = t,
                                  !.update = Updates(t), !.no = Count0(t)]
    /\ kept' = NotKept

-----------------------------------------------------------------------------
(* A round of Exam.compile.                                                *)

\* callExecute takes the code and has it compiled and run.
Begin ==
    /\ round = NoCode
    /\ Len(task.answers) <= MaxStored
    /\ round' = task.code
    /\ ready' = FALSE /\ places' = 0
    /\ clean' = TRUE
    /\ UNCHANGED <<task, window, dialog, kept>>

\* Does Exam.compile go on after the round: the result has a second line, and
\* g++ complains only about tasks that are meant for it.
GoesOn == IF Compiles(round) THEN round.prints > 0 ELSE task.type = "LineNumbers"

\* The flag is looked at when the program has ended.
Finish ==
    /\ round # NoCode
    /\ task' = Executed(task, round)
    /\ ready' = GoesOn
    /\ places' = IF GoesOn THEN Places(task') ELSE 0
    /\ round' = NoCode
    /\ UNCHANGED <<window, clean, dialog, kept>>

Next ==
    \/ EditCode \/ EditArea \/ Check \/ Save \/ Leave \/ Return \/ Hide
    \/ Execute \/ TestExecute \/ EditTask \/ ChangeType
    \/ Begin \/ Finish

Spec == Init /\ [][Next]_vars

-----------------------------------------------------------------------------
(* When a round has let the PDF be generated, the generated answers are     *)
(* those of the code the task has, not of one it had before; this is for    *)
(* tasks nothing happened to during the round.                              *)
AnswersOfCode ==
    ready /\ clean /\ task.update /\ task.type \notin {"OwnType", "Gaps"} =>
        \A i \in DOMAIN task.answers : task.answers[i].code = task.code

(* The answers to a task with gaps are the gaps of its code, in order, once *)
(* it is saved and as long as its code does not come from the dialog, which *)
(* does not compute them.  A round only adds answers behind them (one that  *)
(* finishes late, of a code that did not compile, adds a stale one).        *)
GapsAnswered ==
    task.type = "Gaps" /\ task.update /\ ~dialog =>
        IsPrefix(Lines("gap", task.code, GapLines(task.code)), task.answers)

(* When a round has let the PDF be generated, the generator does not refuse *)
(* the task (PDFGenerator.java:47):                                         *)
(* there are answers for all the places prepared, whatever was remembered,  *)
(* typed, labelled and saved before or during the round.  Only a program's  *)
(* output that is remembered and empty leaves its place without one.        *)
PlacesFilled ==
    ready /\ (task.type = "SimpleOutput" => task.update \/ task.answers # <<>>)
        => places <= Len(task.answers)

(* An answer about line numbers, wherever it got, names the printed line on *)
(* which the compiler found its error, or is -1 if that line is not printed, *)
(* is the last one of its part, or is not a line of the code.               *)
ErrorLinesNamed ==
    \A i \in DOMAIN task.answers :
        LET a == task.answers[i]
        IN  a.from = "number" => NamesLine(a.code.parts, a.code.errors[i], a.n)

(* What was saved with "remember the answers" checked stays until something *)
(* else is saved, whatever is compiled meanwhile, at the same time, or      *)
(* displayed: no round replaces it by generated answers.  (A test run of a  *)
(* task with gaps does, and so does a change of the type.)                  *)
RememberedKept == kept.on => task.answers = kept.answers /\ ~task.update

(* For tasks of the user's own type the answers are always remembered       *)
(* (help.fxml:205).  The dialog turns a task into one without checking the  *)
(* box, which it then disables.                                             *)
OwnAlwaysRemembered == task.type = "OwnType" /\ open => remember

=============================================================================
