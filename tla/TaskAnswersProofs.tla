------------------------- MODULE TaskAnswersProofs -------------------------
(***************************************************************************)
(* Proofs about TaskAnswers, for every set of codes and every bound.       *)
(***************************************************************************)
EXTENDS TaskAnswers, LineNumbersProofs

Tasks == [type : Types, code : Codes, update : BOOLEAN, no : Nat, answers : Seq(Answer)]

-----------------------------------------------------------------------------
(* The inductive invariant.                                                *)

HasTypes ==
    /\ task \in Tasks
    /\ code \in Codes
    /\ area \in Seq(Answer)
    /\ remember \in BOOLEAN
    /\ round \in Codes \cup {NoCode}

\* The counter behind the places for answers.
InStep(t) ==
    /\ ~t.update /\ t.type # "OwnType" => t.no = Len(t.answers)
    /\ t.type = "Gaps" => t.no <= Len(t.answers)

\* The round under way took the code the task still has.
RoundOfCode == clean /\ round # NoCode => round = task.code

IInv ==
    /\ HasTypes
    /\ InStep(task)
    /\ RoundOfCode
    /\ AnswersOfCode
    /\ GapsAnswered
    /\ PlacesFilled
    /\ RememberedKept

-----------------------------------------------------------------------------
(* Sequences.                                                              *)

\* A function on 1 .. n with values in S is a sequence over S of length n.
LEMMA FunctionIsSequence ==
    ASSUME NEW S, NEW n \in Nat, NEW f, f \in [1 .. n -> S]
    PROVE  f \in Seq(S) /\ Len(f) = n
<1>1. f \in UNION {[1 .. m -> S] : m \in Nat}
  OBVIOUS
<1>2. f \in Seq(S)
  BY <1>1, SeqDef
<1>3. DOMAIN f = 1 .. Len(f) /\ Len(f) \in Nat
  BY <1>2, LenProperties
<1> QED
  BY <1>2, <1>3

\* One answer for each of m lines.
LEMMA LinesProperties ==
    ASSUME NEW from \in Origins, NEW c \in Codes, NEW m \in Nat
    PROVE  /\ Lines(from, c, m) \in Seq(Answer)
           /\ Len(Lines(from, c, m)) = m
           /\ \A k \in 1 .. m : Lines(from, c, m)[k].code = c
<1>1. \A k \in 1 .. m : Made(from, c, k) \in Answer /\ Made(from, c, k).code = c
  BY DEF Made, Answer
<1>2. Lines(from, c, m) \in [1 .. m -> Answer]
  BY <1>1 DEF Lines
<1> QED
  BY <1>1, <1>2, FunctionIsSequence DEF Lines

\* Gaps have finitely many lines.
LEMMA GapLinesType == \A c \in Codes : GapLines(c) \in Nat
BY AnswersAssumption, LineProperties, FS_CardinalityType DEF GapLines

\* Prefixes, element by element.
LEMMA PrefixProperties ==
    ASSUME NEW S, NEW s \in Seq(S), NEW t \in Seq(S)
    PROVE  IsPrefix(s, t) <=> /\ Len(s) <= Len(t)
                              /\ \A k \in 1 .. Len(s) : s[k] = t[k]
<1>1. Len(s) \in Nat /\ Len(t) \in Nat
  BY LenProperties
<1>2. SubSeq(s, 1, Len(s)) = s
  BY SubSeqFull
<1>3. ASSUME Len(s) <= Len(t)
      PROVE  /\ SubSeq(t, 1, Len(s)) \in Seq(S)
             /\ Len(SubSeq(t, 1, Len(s))) = Len(s)
             /\ \A k \in 1 .. Len(s) : SubSeq(t, 1, Len(s))[k] = t[k]
  <2>1. \A k \in 1 .. Len(s) : t[k] \in S
    BY <1>1, <1>3, ElementOfSeq
  <2> QED
    BY <1>1, <2>1, SubSeqProperties
<1>4. ASSUME Len(s) <= Len(t), \A k \in 1 .. Len(s) : s[k] = t[k]
      PROVE  s = SubSeq(t, 1, Len(s))
  BY <1>3, <1>4, SeqEqual
<1> QED
  BY <1>2, <1>3, <1>4 DEF IsPrefix

-----------------------------------------------------------------------------
(* What saving and executing do to a task, field by field.                 *)

IsSavedText(u, t) ==
    /\ u \in Tasks
    /\ u.type = t.type
    /\ u.code = code
    /\ u.update = t.update
    /\ t.type = "Gaps" => /\ u.answers = Lines("gap", code, GapLines(code))
                          /\ u.no = GapLines(code)
    /\ t.type # "Gaps" => u.answers = t.answers /\ u.no = t.no

LEMMA SaveTextProperties ==
    ASSUME HasTypes
    PROVE  \A t \in Tasks : IsSavedText(SaveText(t), t)
<1> TAKE t \in Tasks
<1> DEFINE n == GapLines(code)
           a == Lines("gap", code, n)
           u1 == [t EXCEPT !.code = code]
           u2 == [u1 EXCEPT !.answers = a]
           u3 == [u2 EXCEPT !.no = n]
<1>1. code \in Codes
  BY DEF HasTypes
<1>2. n \in Nat
  BY <1>1, GapLinesType
<1>3. a \in Seq(Answer)
  BY <1>1, <1>2, LinesProperties DEF Origins
<1> HIDE DEF n, a
<1>4. u1 = [type |-> t.type, code |-> code, update |-> t.update, no |-> t.no,
            answers |-> t.answers] /\ u1 \in Tasks
  BY <1>1 DEF Tasks
<1>5. SaveText(t) = IF t.type = "Gaps" THEN u3 ELSE u1
  BY DEF SaveText, n, a
<1> HIDE DEF u1
<1>6. u2 = [type |-> t.type, code |-> code, update |-> t.update, no |-> t.no,
            answers |-> a] /\ u2 \in Tasks
  BY <1>3, <1>4 DEF Tasks
<1> HIDE DEF u2
<1>7. u3 = [type |-> t.type, code |-> code, update |-> t.update, no |-> n,
            answers |-> a] /\ u3 \in Tasks
  BY <1>2, <1>6 DEF Tasks
<1> HIDE DEF u3
<1>8. CASE t.type = "Gaps"
  BY <1>5, <1>7, <1>8 DEF IsSavedText, n, a
<1>9. CASE t.type # "Gaps"
  BY <1>4, <1>5, <1>9 DEF IsSavedText
<1> QED
  BY <1>8, <1>9

IsRemembered(u, t) ==
    /\ u \in Tasks
    /\ u.type = t.type
    /\ u.code = t.code
    /\ remember => u.update = FALSE /\ u.answers = area /\ u.no = Len(area)
    /\ ~remember => u.update = TRUE /\ u.answers = t.answers /\ u.no = t.no

LEMMA RememberedProperties ==
    ASSUME HasTypes
    PROVE  \A t \in Tasks : IsRemembered(Remembered(t), t)
<1> TAKE t \in Tasks
<1> DEFINE n == Len(area)
           u1 == [t EXCEPT !.update = FALSE]
           u2 == [u1 EXCEPT !.answers = area]
           u3 == [u2 EXCEPT !.no = n]
           v  == [t EXCEPT !.update = TRUE]
<1>1. area \in Seq(Answer) /\ n \in Nat
  BY LenProperties DEF HasTypes
<1>2. Remembered(t) = IF remember THEN u3 ELSE v
  BY DEF Remembered
<1> HIDE DEF n
<1>3. ASSUME NEW b \in BOOLEAN
      PROVE  /\ [t EXCEPT !.update = b] \in Tasks
             /\ [t EXCEPT !.update = b] =
                   [type |-> t.type, code |-> t.code, update |-> b, no |-> t.no,
                    answers |-> t.answers]
  BY DEF Tasks
<1>4. /\ v = [type |-> t.type, code |-> t.code, update |-> TRUE, no |-> t.no,
              answers |-> t.answers] /\ v \in Tasks
      /\ u1 = [type |-> t.type, code |-> t.code, update |-> FALSE, no |-> t.no,
               answers |-> t.answers] /\ u1 \in Tasks
  BY <1>3
<1> HIDE DEF u1, v
<1>5. ASSUME NEW w \in Tasks
      PROVE  /\ [w EXCEPT !.answers = area] \in Tasks
             /\ [w EXCEPT !.answers = area] =
                   [type |-> w.type, code |-> w.code, update |-> w.update,
                    no |-> w.no, answers |-> area]
             /\ [w EXCEPT !.no = n] \in Tasks
             /\ [w EXCEPT !.no = n] =
                   [type |-> w.type, code |-> w.code, update |-> w.update,
                    no |-> n, answers |-> w.answers]
  BY <1>1 DEF Tasks
<1>9. u2 \in Tasks /\ u2 = [type |-> t.type, code |-> t.code, update |-> FALSE,
                            no |-> t.no, answers |-> area]
  BY <1>4, <1>5
<1> HIDE DEF u2
<1>6. u3 \in Tasks /\ u3 = [type |-> t.type, code |-> t.code, update |-> FALSE,
                            no |-> n, answers |-> area]
  BY <1>5, <1>9
<1> HIDE DEF u3
<1>7. CASE remember
  BY <1>2, <1>6, <1>7 DEF IsRemembered, n
<1>8. CASE ~remember
  BY <1>2, <1>4, <1>8 DEF IsRemembered
<1> QED
  BY <1>7, <1>8

\* The answers made from the outcome of code c are of code c, as many as are
\* counted, and leave those of gaps in front.
IsGenerated(g, no, t, c) ==
    /\ g \in Seq(Answer)
    /\ no \in Nat
    /\ t.type \in {"ComplexOutput", "LineNumbers"} => no = Len(g)
    /\ t.type = "Gaps" => /\ t.no <= Len(t.answers) => no <= Len(g)
                          /\ Len(t.answers) <= Len(g)
                          /\ \A i \in 1 .. Len(t.answers) : g[i] = t.answers[i]
    /\ t.type = "SimpleOutput" /\ ~Silent(c) => Len(g) = 1
    /\ t.type \notin {"Gaps", "OwnType"} => \A i \in 1 .. Len(g) : g[i].code = c

LEMMA GeneratedProperties ==
    \A t \in Tasks : \A c \in Codes : IsGenerated(Generated(t, c), Counted(t, c), t, c)
<1> TAKE t \in Tasks
<1> TAKE c \in Codes
<1>1. t.type \in Types /\ t.no \in Nat /\ t.answers \in Seq(Answer)
  BY DEF Tasks
<1>2. Len(t.answers) \in Nat
  BY <1>1, LenProperties
<1>3. ASSUME NEW from \in Origins, NEW n \in Int
      PROVE  /\ Made(from, c, n) \in Answer /\ Made(from, c, n).code = c
             /\ <<Made(from, c, n)>> \in Seq(Answer)
             /\ Len(<<Made(from, c, n)>>) = 1
             /\ \A i \in 1 .. 1 : <<Made(from, c, n)>>[i].code = c
  <2>1. Made(from, c, n) \in Answer /\ Made(from, c, n).code = c
    BY DEF Made, Answer
  <2> QED
    BY <2>1
<1>4. CASE t.type = "SimpleOutput"
  <2>1. CASE Silent(c)
    <3>1. Generated(t, c) = <<>> /\ Counted(t, c) = t.no
      BY <1>4, <2>1 DEF Generated, Counted
    <3> QED
      BY <3>1, <1>1, <1>4, <2>1 DEF IsGenerated
  <2>2. CASE ~Silent(c)
    <3> DEFINE from == IF Compiles(c) THEN "printed" ELSE "complaint"
    <3>1. Generated(t, c) = <<Made(from, c, 1)>> /\ Counted(t, c) = t.no
      BY <1>4, <2>2 DEF Generated, Counted
    <3>2. from \in Origins
      BY DEF Origins
    <3> HIDE DEF from
    <3> QED
      BY <3>1, <3>2, <1>1, <1>3, <1>4 DEF IsGenerated
  <2> QED
    BY <2>1, <2>2
<1>5. CASE t.type = "ComplexOutput"
  <2>1. Generated(t, c) = GeneratedComplex(t, c) /\ Counted(t, c) = Len(Generated(t, c))
    BY <1>5 DEF Generated, Counted
  <2>2. /\ GeneratedComplex(t, c) \in Seq(Answer)
        /\ Len(GeneratedComplex(t, c)) \in Nat
        /\ \A i \in 1 .. Len(GeneratedComplex(t, c)) : GeneratedComplex(t, c)[i].code = c
    <3>1. CASE Compiles(c)
      <4>1. c.prints \in Nat
        BY AnswersAssumption
      <4>2. GeneratedComplex(t, c) = Lines("printed", c, c.prints)
        BY <3>1 DEF GeneratedComplex
      <4>3. "printed" \in Origins
        BY DEF Origins
      <4> QED
        BY <4>1, <4>2, <4>3, LinesProperties
    <3>2. CASE ~Compiles(c)
      <4>1. GeneratedComplex(t, c) = <<Made("error", c, 0)>>
        BY <3>2 DEF GeneratedComplex
      <4> QED
        BY <4>1, <1>3 DEF Origins
    <3> QED
      BY <3>1, <3>2
  <2> QED
    BY <2>1, <2>2, <1>5 DEF IsGenerated
<1>6. CASE t.type = "Gaps"
  <2>1. CASE Compiles(c)
    <3>1. Generated(t, c) = t.answers /\ Counted(t, c) = t.no
      BY <1>6, <2>1 DEF Generated, Counted
    <3> QED
      BY <3>1, <1>1, <1>2, <1>6 DEF IsGenerated
  <2>2. CASE ~Compiles(c)
    <3> DEFINE b == Made("none", c, 0)
    <3>1. Generated(t, c) = Append(t.answers, b) /\ Counted(t, c) = 1
      BY <1>6, <2>2 DEF Generated, Counted
    <3>2. b \in Answer
      BY <1>3 DEF Origins
    <3> HIDE DEF b
    <3>3. /\ Append(t.answers, b) \in Seq(Answer)
          /\ Len(Append(t.answers, b)) = Len(t.answers) + 1
          /\ \A i \in 1 .. Len(t.answers) : Append(t.answers, b)[i] = t.answers[i]
      BY <1>1, <3>2, AppendProperties
    <3> QED
      BY <3>1, <3>3, <1>2, <1>6 DEF IsGenerated
  <2> QED
    BY <2>1, <2>2
<1>7. CASE t.type = "LineNumbers"
  <2>1. Counted(t, c) = Len(Generated(t, c))
    BY <1>7 DEF Counted
  <2>2. /\ Generated(t, c) \in Seq(Answer)
        /\ Len(Generated(t, c)) \in Nat
        /\ \A i \in 1 .. Len(Generated(t, c)) : Generated(t, c)[i].code = c
    <3>1. CASE Compiles(c)
      <4>1. Generated(t, c) = <<Made("none", c, 0)>>
        BY <1>7, <3>1 DEF Generated
      <4> QED
        BY <4>1, <1>3 DEF Origins
    <3>2. CASE ~Compiles(c)
      <4> DEFINE m(k) == Made("number", c, PdfLineNumber(c.parts, c.errors[k]))
      <4>1. Generated(t, c) = [k \in DOMAIN c.errors |-> m(k)]
        BY <1>7, <3>2 DEF Generated
      <4>2. c.errors \in Seq(Nat \ {0}) /\ c.parts \in Seq(Part)
        BY AnswersAssumption
      <4>3. DOMAIN c.errors = 1 .. Len(c.errors) /\ Len(c.errors) \in Nat
        BY <4>2, LenProperties
      <4>4. \A k \in 1 .. Len(c.errors) : m(k) \in Answer /\ m(k).code = c
        <5> TAKE k \in 1 .. Len(c.errors)
        <5>1. c.errors[k] \in Nat \ {0}
          BY <4>2, ElementOfSeq
        <5>2. PdfLineNumber(c.parts, c.errors[k]) \in Int
          BY <4>2, <5>1, PrintedLineNamed
        <5> QED
          BY <5>2 DEF Made, Answer, Origins
      <4> HIDE DEF m
      <4>5. Generated(t, c) \in [1 .. Len(c.errors) -> Answer]
        BY <4>1, <4>3, <4>4
      <4> QED
        BY <4>1, <4>3, <4>4, <4>5, FunctionIsSequence
    <3> QED
      BY <3>1, <3>2
  <2> QED
    BY <2>1, <2>2, <1>7 DEF IsGenerated
<1>8. CASE t.type = "OwnType"
  <2>1. Generated(t, c) = t.answers /\ Counted(t, c) = t.no
    BY <1>8 DEF Generated, Counted
  <2> QED
    BY <2>1, <1>1, <1>8 DEF IsGenerated
<1> QED
  BY <1>1, <1>4, <1>5, <1>6, <1>7, <1>8 DEF Types

IsExecuted(u, t, c) ==
    /\ u \in Tasks
    /\ u.type = t.type
    /\ u.code = t.code
    /\ u.update = t.update
    /\ Generates(t) => /\ u.answers = Generated(t, c)
                       /\ u.no = Counted(t, c)
                       /\ IsGenerated(u.answers, u.no, t, c)
    /\ ~Generates(t) => u = t

LEMMA ExecutedProperties ==
    \A t \in Tasks : \A c \in Codes : IsExecuted(Executed(t, c), t, c)
<1> TAKE t \in Tasks
<1> TAKE c \in Codes
<1> DEFINE g == Generated(t, c)
           n == Counted(t, c)
           u1 == [t EXCEPT !.answers = g]
           u2 == [u1 EXCEPT !.no = n]
<1>1. IsGenerated(g, n, t, c)
  BY GeneratedProperties
<1>2. Executed(t, c) = IF Generates(t) THEN u2 ELSE t
  BY DEF Executed
<1> HIDE DEF g, n
<1>3. g \in Seq(Answer) /\ n \in Nat
  BY <1>1 DEF IsGenerated
<1>4. u1 = [type |-> t.type, code |-> t.code, update |-> t.update, no |-> t.no,
            answers |-> g] /\ u1 \in Tasks
  BY <1>3 DEF Tasks
<1> HIDE DEF u1
<1>5. u2 = [type |-> t.type, code |-> t.code, update |-> t.update, no |-> n,
            answers |-> g] /\ u2 \in Tasks
  BY <1>3, <1>4 DEF Tasks
<1> HIDE DEF u2
<1>6. CASE Generates(t)
  BY <1>1, <1>2, <1>5, <1>6 DEF IsExecuted, g, n
<1>7. CASE ~Generates(t)
  BY <1>2, <1>7 DEF IsExecuted
<1> QED
  BY <1>6, <1>7

-----------------------------------------------------------------------------
(* What is in step stays in step.                                          *)

\* The answers of t begin with the gaps of its code.
BeginsWithGaps(t) == IsPrefix(Lines("gap", t.code, GapLines(t.code)), t.answers)

\* u was saved from the window.
IsSaved(u) ==
    /\ u \in Tasks
    /\ u.code = code
    /\ InStep(u)
    /\ u.type = "Gaps" /\ u.update => BeginsWithGaps(u)
    /\ remember => u.update = FALSE /\ u.answers = area
    /\ ~remember => u.update = TRUE

LEMMA GapsProperties ==
    ASSUME NEW c \in Codes
    PROVE  /\ Lines("gap", c, GapLines(c)) \in Seq(Answer)
           /\ Len(Lines("gap", c, GapLines(c))) = GapLines(c)
           /\ GapLines(c) \in Nat
           /\ IsPrefix(Lines("gap", c, GapLines(c)), Lines("gap", c, GapLines(c)))
<1>1. GapLines(c) \in Nat
  BY GapLinesType
<1>2. "gap" \in Origins
  BY DEF Origins
<1>3. /\ Lines("gap", c, GapLines(c)) \in Seq(Answer)
      /\ Len(Lines("gap", c, GapLines(c))) = GapLines(c)
  BY <1>1, <1>2, LinesProperties
<1>4. IsPrefix(Lines("gap", c, GapLines(c)), Lines("gap", c, GapLines(c)))
  BY <1>1, <1>3, PrefixProperties
<1> QED
  BY <1>1, <1>3, <1>4

\* Saving the code of a task puts it in step, whatever it was.
LEMMA SavedTextInStep ==
    ASSUME HasTypes, NEW t \in Tasks
    PROVE  /\ InStep(t) => InStep(SaveText(t))
           /\ t.type = "Gaps" => InStep(SaveText(t)) /\ BeginsWithGaps(SaveText(t))
<1> DEFINE u == SaveText(t)
<1>1. IsSavedText(u, t)
  BY SaveTextProperties
<1>2. code \in Codes
  BY DEF HasTypes
<1> HIDE DEF u
<1>3. ASSUME t.type = "Gaps"
      PROVE  InStep(u) /\ BeginsWithGaps(u)
  <2>1. u.answers = Lines("gap", code, GapLines(code)) /\ u.no = GapLines(code)
    BY <1>1, <1>3 DEF IsSavedText
  <2>2. u.no = Len(u.answers) /\ u.no \in Nat
    BY <2>1, <1>2, GapsProperties
  <2>3. BeginsWithGaps(u)
    BY <2>1, <1>1, <1>2, GapsProperties DEF BeginsWithGaps, IsSavedText
  <2> QED
    BY <2>2, <2>3 DEF InStep
<1>4. ASSUME t.type # "Gaps", InStep(t)
      PROVE  InStep(u)
  BY <1>1, <1>4 DEF InStep, IsSavedText
<1> QED
  BY <1>3, <1>4 DEF u

LEMMA SavedProperties ==
    ASSUME HasTypes, NEW t \in Tasks
    PROVE  IsSaved(Remembered(SaveText(t)))
<1> DEFINE v == SaveText(t)
           u == Remembered(v)
<1> SUFFICES IsSaved(u)
  OBVIOUS
<1>1. IsSavedText(v, t) /\ v \in Tasks
  BY SaveTextProperties DEF IsSavedText
<1>2. IsRemembered(u, v)
  BY <1>1, RememberedProperties
<1>3. t.type = "Gaps" => InStep(v) /\ BeginsWithGaps(v)
  BY SavedTextInStep
<1> HIDE DEF v, u
<1>4. v.type = t.type /\ v.code = code
  BY <1>1 DEF IsSavedText
<1>5. Len(u.answers) \in Nat
  BY <1>2, LenProperties DEF IsRemembered, Tasks
<1>6. CASE remember
  <2>1. u.type = v.type /\ u.code = v.code /\ u.update = FALSE
        /\ u.answers = area /\ u.no = Len(u.answers) /\ u \in Tasks
    BY <1>2, <1>6 DEF IsRemembered
  <2>2. InStep(u)
    BY <2>1, <1>5 DEF InStep
  <2> QED
    BY <2>1, <2>2, <1>4, <1>6 DEF IsSaved
<1>7. CASE ~remember
  <2>1. u.type = v.type /\ u.code = v.code /\ u.update = TRUE
        /\ u.answers = v.answers /\ u.no = v.no /\ u \in Tasks
    BY <1>2, <1>7 DEF IsRemembered
  <2>2. InStep(u)
    BY <2>1, <1>3, <1>4 DEF InStep
  <2>3. u.type = "Gaps" => BeginsWithGaps(u)
    BY <2>1, <1>3, <1>4 DEF BeginsWithGaps
  <2> QED
    BY <2>1, <2>2, <2>3, <1>4, <1>7 DEF IsSaved
<1> QED
  BY <1>6, <1>7

\* Generating answers keeps a task in step and the gaps in front.
LEMMA ExecutedInStep ==
    ASSUME NEW t \in Tasks, NEW c \in Codes, InStep(t)
    PROVE  /\ InStep(Executed(t, c))
           /\ t.type = "Gaps" /\ BeginsWithGaps(t) => BeginsWithGaps(Executed(t, c))
<1> DEFINE u == Executed(t, c)
<1> SUFFICES InStep(u) /\ (t.type = "Gaps" /\ BeginsWithGaps(t) => BeginsWithGaps(u))
  OBVIOUS
<1>1. IsExecuted(u, t, c)
  BY ExecutedProperties
<1>2. t.update \in BOOLEAN /\ t.answers \in Seq(Answer) /\ t.code \in Codes
  BY DEF Tasks
<1> HIDE DEF u
<1>3. CASE ~Generates(t)
  BY <1>1, <1>3 DEF IsExecuted
<1>4. CASE Generates(t)
  <2>1. IsGenerated(u.answers, u.no, t, c) /\ u.type = t.type /\ u.update = t.update
        /\ u.code = t.code
    BY <1>1, <1>4 DEF IsExecuted
  <2>2. t.update
    BY <1>4 DEF Generates
  <2>3. InStep(u)
    BY <2>1, <2>2 DEF InStep, IsGenerated
  <2>4. ASSUME t.type = "Gaps", BeginsWithGaps(t)
        PROVE  BeginsWithGaps(u)
    <3> DEFINE g == Lines("gap", t.code, GapLines(t.code))
    <3>1. g \in Seq(Answer) /\ u.answers \in Seq(Answer)
      BY <1>2, <2>1, GapsProperties DEF IsGenerated
    <3>2. Len(g) \in Nat /\ Len(t.answers) \in Nat /\ Len(u.answers) \in Nat
      BY <1>2, <3>1, LenProperties
    <3>3. IsPrefix(g, t.answers)
      BY <2>4 DEF BeginsWithGaps
    <3>4. Len(t.answers) <= Len(u.answers)
          /\ \A i \in 1 .. Len(t.answers) : u.answers[i] = t.answers[i]
      BY <2>1, <2>4 DEF IsGenerated
    <3> HIDE DEF g
    <3>5. Len(g) <= Len(t.answers) /\ \A i \in 1 .. Len(g) : g[i] = t.answers[i]
      BY <1>2, <3>1, <3>3, PrefixProperties
    <3>6. Len(g) <= Len(u.answers) /\ \A i \in 1 .. Len(g) : g[i] = u.answers[i]
      BY <3>2, <3>4, <3>5
    <3>7. IsPrefix(g, u.answers)
      BY <3>1, <3>6, PrefixProperties
    <3> QED
      BY <3>7, <2>1 DEF BeginsWithGaps, g
  <2> QED
    BY <2>3, <2>4
<1> QED
  BY <1>3, <1>4

-----------------------------------------------------------------------------
(* The inductive invariant holds initially and after every step.           *)

LEMMA InitIInv == Init => IInv
<1> SUFFICES ASSUME Init PROVE IInv
  OBVIOUS
<1>1. PICK t \in Types, c \in Codes :
         /\ task = [type |-> t, code |-> c, update |-> Updates(t), no |-> Count0(t),
                    answers |-> <<>>]
         /\ code = c
         /\ remember = ~Updates(t)
  BY DEF Init
<1>2. Updates(t) \in BOOLEAN /\ Count0(t) \in Nat /\ (t = "Gaps" => Count0(t) = 0)
      /\ (t # "OwnType" => Updates(t))
  BY DEF Updates, Count0, Unset
<1>3. task.type = t /\ task.update = Updates(t) /\ task.no = Count0(t)
      /\ task.answers = <<>> /\ task \in Tasks
  BY <1>1, <1>2 DEF Tasks
<1>4. area = <<>> /\ round = NoCode /\ ready = FALSE /\ clean = FALSE /\ dialog = TRUE
      /\ kept = [on |-> FALSE, answers |-> <<>>]
  BY DEF Init, NotKept
<1>5. HasTypes
  BY <1>1, <1>3, <1>4 DEF HasTypes
<1>6. InStep(task)
  BY <1>2, <1>3 DEF InStep
<1> QED
  BY <1>4, <1>5, <1>6 DEF IInv, RoundOfCode, AnswersOfCode, GapsAnswered, PlacesFilled,
                          RememberedKept

\* Actions that change the window only.
LEMMA WindowOnly ==
    ASSUME IInv, HasTypes', UNCHANGED <<task, round, hist>>
    PROVE  IInv'
<1>1. UNCHANGED <<task, round, ready, places, clean, dialog, kept>>
  BY DEF hist
<1>2. InStep(task)'
  BY <1>1 DEF IInv, InStep
<1>3. RoundOfCode' /\ RememberedKept'
  BY <1>1 DEF IInv, RoundOfCode, RememberedKept
<1>4. AnswersOfCode' /\ PlacesFilled'
  BY <1>1 DEF IInv, AnswersOfCode, PlacesFilled
<1>5. GapsAnswered'
  BY <1>1 DEF IInv, GapsAnswered
<1> QED
  BY <1>2, <1>3, <1>4, <1>5 DEF IInv

\* Actions after which no round has finished.
LEMMA TouchedStep ==
    ASSUME Touched, HasTypes', InStep(task'), GapsAnswered', RememberedKept'
    PROVE  IInv'
<1>1. ready' = FALSE /\ clean' = FALSE
  BY DEF Touched
<1>2. RoundOfCode' /\ AnswersOfCode' /\ PlacesFilled'
  BY <1>1 DEF RoundOfCode, AnswersOfCode, PlacesFilled
<1>3. InStep(task)'
  BY DEF InStep
<1> QED
  BY <1>2, <1>3 DEF IInv

\* Actions that save the window, to a task that is executed or not.
LEMMA SavingStep ==
    ASSUME HasTypes, NEW u, IsSaved(u), AfterSave, HasTypes', task'.code = u.code,
           task'.type = u.type, task'.update = u.update, InStep(task'),
           task'.type = "Gaps" /\ task'.update => BeginsWithGaps(task'),
           ~u.update => task' = u
    PROVE  IInv'
<1>1. Touched /\ kept' = Kept
  BY DEF AfterSave
<1>2. GapsAnswered'
  BY DEF GapsAnswered, BeginsWithGaps
<1>3. RememberedKept'
  <2>1. CASE remember
    <3>1. kept' = [on |-> TRUE, answers |-> area]
      BY <1>1, <2>1 DEF Kept
    <3>2. u.update = FALSE /\ u.answers = area
      BY <2>1 DEF IsSaved
    <3>3. task'.answers = area /\ task'.update = FALSE
      BY <3>2
    <3> QED
      BY <3>1, <3>3 DEF RememberedKept
  <2>2. CASE ~remember
    <3>1. kept' = [on |-> FALSE, answers |-> <<>>]
      BY <1>1, <2>2 DEF Kept, NotKept
    <3> QED
      BY <3>1 DEF RememberedKept
  <2> QED
    BY <2>1, <2>2
<1> QED
  BY <1>1, <1>2, <1>3, TouchedStep

LEMMA SaveLeaveIInv == ASSUME IInv, Save \/ Leave PROVE IInv'
<1> DEFINE u == Saved(task)
<1>1. HasTypes /\ task \in Tasks
  BY DEF IInv, HasTypes
<1>2. IsSaved(u)
  BY <1>1, SavedProperties DEF Saved
<1>3. task' = u /\ AfterSave /\ UNCHANGED round
  BY DEF Save, Leave
<1> HIDE DEF u
<1>4. u \in Tasks /\ InStep(u) /\ u.code \in Codes
  BY <1>2 DEF IsSaved, Tasks
<1>5. HasTypes'
  <2>1. CASE Save
    BY <2>1, <1>1, <1>3, <1>4 DEF Save, window, HasTypes
  <2>2. CASE Leave
    <3>1. code' = u.code /\ area' = <<>> /\ remember' = FALSE
      BY <2>2, <1>3 DEF Leave
    <3>2. code' \in Codes
      BY <3>1, <1>4
    <3>3. area' \in Seq(Answer)
      BY <3>1
    <3>4. round' \in Codes \cup {NoCode}
      BY <1>1, <1>3 DEF HasTypes
    <3>5. task' \in Tasks /\ remember' \in BOOLEAN
      BY <3>1, <1>3, <1>4
    <3> QED
      BY <3>2, <3>3, <3>4, <3>5 DEF HasTypes
  <2> QED
    BY <2>1, <2>2
<1>6. task'.type = "Gaps" /\ task'.update => BeginsWithGaps(task')
  BY <1>2, <1>3 DEF IsSaved
<1> QED
  BY <1>1, <1>2, <1>3, <1>4, <1>5, <1>6, SavingStep

LEMMA ExecuteIInv == ASSUME IInv, Execute PROVE IInv'
<1> DEFINE u == Remembered(SaveText(task))
           g == Executed(u, code)
<1>1. HasTypes /\ task \in Tasks /\ code \in Codes
  BY DEF IInv, HasTypes
<1>2. IsSaved(u)
  BY <1>1, SavedProperties
<1>3. task' = g /\ AfterSave /\ UNCHANGED <<code, round>>
  BY DEF Execute
<1>4. UNCHANGED <<area, remember>> \/ (area' = g.answers /\ remember' = ~g.update)
  BY DEF Execute, Display
<1> HIDE DEF u
<1>5. u \in Tasks /\ InStep(u)
  BY <1>2 DEF IsSaved
<1>6. IsExecuted(g, u, code)
  BY <1>1, <1>5, ExecutedProperties
<1>7. InStep(g) /\ (u.type = "Gaps" /\ BeginsWithGaps(u) => BeginsWithGaps(g))
  BY <1>1, <1>5, ExecutedInStep
<1> HIDE DEF g
<1>8. g \in Tasks /\ g.type = u.type /\ g.code = u.code /\ g.update = u.update
  BY <1>6 DEF IsExecuted
<1>9. HasTypes'
  <2>1. g.answers \in Seq(Answer) /\ (~g.update) \in BOOLEAN
    BY <1>8 DEF Tasks
  <2>2. area' \in Seq(Answer) /\ remember' \in BOOLEAN
    BY <2>1, <1>1, <1>4 DEF HasTypes
  <2> QED
    BY <2>2, <1>1, <1>3, <1>8 DEF HasTypes
<1>10. g.type = "Gaps" /\ g.update => BeginsWithGaps(g)
  BY <1>2, <1>7, <1>8 DEF IsSaved
<1>11. ~u.update => g = u
  BY <1>6 DEF IsExecuted, Generates
<1> QED
  BY <1>1, <1>2, <1>3, <1>7, <1>8, <1>9, <1>10, <1>11, SavingStep

LEMMA TestExecuteIInv == ASSUME IInv, TestExecute PROVE IInv'
<1> DEFINE u == SaveText(task)
<1>1. HasTypes /\ task \in Tasks /\ InStep(task) /\ RememberedKept
  BY DEF IInv, HasTypes
<1>2. IsSavedText(u, task)
  BY <1>1, SaveTextProperties
<1>3. InStep(u) /\ (task.type = "Gaps" => BeginsWithGaps(u))
  BY <1>1, SavedTextInStep
<1>4. task' = u /\ Touched /\ UNCHANGED <<code, area, remember, round>>
      /\ kept' = IF task.type = "Gaps" THEN NotKept ELSE kept
  BY DEF TestExecute, window
<1> HIDE DEF u
<1>5. u \in Tasks /\ u.type = task.type /\ u.update = task.update
  BY <1>2 DEF IsSavedText
<1>6. HasTypes'
  BY <1>1, <1>4, <1>5 DEF HasTypes
<1>7. GapsAnswered'
  BY <1>3, <1>4, <1>5 DEF GapsAnswered, BeginsWithGaps
<1>8. RememberedKept'
  <2>1. CASE task.type = "Gaps"
    <3>1. kept'.on = FALSE
      BY <1>4, <2>1 DEF NotKept
    <3> QED
      BY <3>1 DEF RememberedKept
  <2>2. CASE task.type # "Gaps"
    <3>1. kept' = kept /\ u.answers = task.answers
      BY <1>2, <1>4, <2>2 DEF IsSavedText
    <3> QED
      BY <3>1, <1>1, <1>4, <1>5 DEF RememberedKept
  <2> QED
    BY <2>1, <2>2
<1> QED
  BY <1>3, <1>4, <1>6, <1>7, <1>8, TouchedStep

LEMMA DialogIInv == ASSUME IInv, EditTask \/ ChangeType PROVE IInv'
<1>1. HasTypes /\ task \in Tasks /\ InStep(task) /\ RememberedKept
  BY DEF IInv, HasTypes
<1>2. ASSUME NEW c \in Codes, NEW w \in Tasks
      PROVE  /\ [w EXCEPT !.code = c] \in Tasks
             /\ [w EXCEPT !.code = c] =
                   [type |-> w.type, code |-> c, update |-> w.update, no |-> w.no,
                    answers |-> w.answers]
  BY DEF Tasks
<1>3. CASE EditTask
  <2>1. PICK c \in Codes : Rewritten(c) /\ task' = [task EXCEPT !.code = c]
    BY <1>3 DEF EditTask
  <2>2. kept' = kept /\ Touched /\ dialog' = TRUE /\ code' = c
        /\ UNCHANGED <<area, remember, round>>
    BY <1>3, <2>1 DEF EditTask, Rewritten
  <2>3. task' \in Tasks /\ task' =
           [type |-> task.type, code |-> c, update |-> task.update, no |-> task.no,
            answers |-> task.answers]
    BY <1>1, <1>2, <2>1
  <2>4. HasTypes'
    BY <1>1, <2>2, <2>3 DEF HasTypes
  <2>5. InStep(task')
    BY <1>1, <2>3 DEF InStep
  <2>6. GapsAnswered'
    BY <2>2 DEF GapsAnswered
  <2>7. RememberedKept'
    BY <1>1, <2>2, <2>3 DEF RememberedKept
  <2> QED
    BY <2>2, <2>4, <2>5, <2>6, <2>7, TouchedStep
<1>4. CASE ChangeType
  <2>1. PICK c \in Codes, t \in Types :
           /\ Rewritten(c)
           /\ task' = [task EXCEPT !.code = c, !.type = t,
                                   !.update = Updates(t), !.no = Count0(t)]
    BY <1>4 DEF ChangeType
  <2>2. kept' = NotKept /\ Touched /\ dialog' = TRUE /\ code' = c
        /\ UNCHANGED <<area, remember, round>>
    BY <1>4, <2>1 DEF ChangeType, Rewritten
  <2>3. Updates(t) \in BOOLEAN /\ Count0(t) \in Nat /\ (t = "Gaps" => Count0(t) = 0)
        /\ (t # "OwnType" => Updates(t))
    BY DEF Updates, Count0, Unset
  <2>4. task' \in Tasks /\ task' =
           [type |-> t, code |-> c, update |-> Updates(t), no |-> Count0(t),
            answers |-> task.answers]
    <3> DEFINE w1 == [task EXCEPT !.code = c]
               w2 == [w1 EXCEPT !.type = t]
               w3 == [w2 EXCEPT !.update = Updates(t)]
               w4 == [w3 EXCEPT !.no = Count0(t)]
    <3>1. task' = w4
      BY <2>1
    <3>2. w1 \in Tasks /\ w1 = [type |-> task.type, code |-> c, update |-> task.update,
                                no |-> task.no, answers |-> task.answers]
      BY <1>1, <1>2
    <3> HIDE DEF w1
    <3>3. w2 \in Tasks /\ w2 = [type |-> t, code |-> c, update |-> task.update,
                                no |-> task.no, answers |-> task.answers]
      BY <3>2 DEF Tasks
    <3> HIDE DEF w2
    <3>4. ASSUME NEW w \in Tasks, NEW b \in BOOLEAN
          PROVE  /\ [w EXCEPT !.update = b] \in Tasks
                 /\ [w EXCEPT !.update = b] =
                       [type |-> w.type, code |-> w.code, update |-> b, no |-> w.no,
                        answers |-> w.answers]
      BY DEF Tasks
    <3>5. w3 \in Tasks /\ w3 = [type |-> t, code |-> c, update |-> Updates(t),
                                no |-> task.no, answers |-> task.answers]
      BY <2>3, <3>3, <3>4
    <3> HIDE DEF w3
    <3>6. ASSUME NEW w \in Tasks, NEW n \in Nat
          PROVE  /\ [w EXCEPT !.no = n] \in Tasks
                 /\ [w EXCEPT !.no = n] =
                       [type |-> w.type, code |-> w.code, update |-> w.update, no |-> n,
                        answers |-> w.answers]
      BY DEF Tasks
    <3> QED
      BY <2>3, <3>1, <3>5, <3>6
  <2>5. HasTypes'
    BY <1>1, <2>2, <2>4 DEF HasTypes
  <2>6. InStep(task')
    <3>1. Len(task'.answers) \in Nat
      BY <2>4, LenProperties DEF Tasks
    <3>2. task'.type = t /\ task'.update = Updates(t) /\ task'.no = Count0(t)
      BY <2>4
    <3> QED
      BY <2>3, <3>1, <3>2 DEF InStep
  <2>7. GapsAnswered'
    BY <2>2 DEF GapsAnswered
  <2>8. RememberedKept'
    BY <2>2 DEF RememberedKept, NotKept
  <2> QED
    BY <2>2, <2>5, <2>6, <2>7, <2>8, TouchedStep
<1> QED
  BY <1>3, <1>4

\* The actions that change the window only.
LEMMA WindowIInv ==
    ASSUME IInv, EditCode \/ EditArea \/ Check \/ Return \/ Hide
    PROVE  IInv'
<1>1. HasTypes /\ task \in Tasks
  BY DEF IInv, HasTypes
<1>2. UNCHANGED <<task, round, hist>>
  BY DEF EditCode, EditArea, Check, Return, Hide, Show
<1>3. task' \in Tasks /\ round' \in Codes \cup {NoCode}
  BY <1>1, <1>2 DEF HasTypes
<1>4. code' \in Codes /\ area' \in Seq(Answer) /\ remember' \in BOOLEAN
  <2>1. CASE EditCode
    <3>1. code' \in Codes /\ remember' = remember
      BY <2>1 DEF EditCode
    <3>2. area' = area \/ area' = <<>>
      BY <2>1 DEF EditCode
    <3>3. area \in Seq(Answer) /\ remember \in BOOLEAN
      BY <1>1 DEF HasTypes
    <3>4. <<>> \in Seq(Answer)
      OBVIOUS
    <3>5. area' \in Seq(Answer)
      BY <3>2, <3>3, <3>4
    <3> QED
      BY <3>1, <3>3, <3>5
  <2>2. CASE EditArea
    <3>1. PICK m \in 0 .. MaxLines : area' = [k \in 1 .. m |-> Typed]
      BY <2>2 DEF EditArea
    <3>2. m \in Nat
      BY AnswersAssumption
    <3>3. Typed \in Answer
      BY DEF Typed, Answer, Origins
    <3>4. area' \in [1 .. m -> Answer]
      BY <3>1, <3>3
    <3>5. area' \in Seq(Answer)
      BY <3>2, <3>4, FunctionIsSequence
    <3>6. code' = code /\ remember' = remember
      BY <2>2 DEF EditArea
    <3> QED
      BY <3>5, <3>6, <1>1 DEF HasTypes
  <2>3. CASE Check
    BY <2>3, <1>1 DEF Check, HasTypes
  <2>4. CASE Return \/ Hide
    <3>1. code' = task.code /\ area' = task.answers /\ remember' = ~task.update
      BY <2>4 DEF Return, Hide, Show, Display
    <3>2. task.code \in Codes /\ task.answers \in Seq(Answer)
      BY <1>1 DEF Tasks
    <3>3. (~task.update) \in BOOLEAN
      OBVIOUS
    <3> QED
      BY <3>1, <3>2, <3>3
  <2> QED
    BY <2>1, <2>2, <2>3, <2>4
<1>5. HasTypes'
  BY <1>3, <1>4 DEF HasTypes
<1> QED
  BY <1>2, <1>5, WindowOnly

LEMMA BeginIInv == ASSUME IInv, Begin PROVE IInv'
<1>1. HasTypes /\ task \in Tasks /\ task.code \in Codes
  BY DEF IInv, HasTypes, Tasks
<1>2. UNCHANGED <<task, code, area, remember, dialog, kept>>
      /\ round' = task.code /\ ready' = FALSE
  BY DEF Begin, window
<1>3. HasTypes'
  BY <1>1, <1>2 DEF HasTypes
<1>4. InStep(task)' /\ RememberedKept'
  BY <1>2 DEF IInv, InStep, RememberedKept
<1>5. RoundOfCode' /\ AnswersOfCode' /\ PlacesFilled'
  BY <1>2 DEF RoundOfCode, AnswersOfCode, PlacesFilled
<1>6. GapsAnswered'
  BY <1>2 DEF IInv, GapsAnswered
<1> QED
  BY <1>3, <1>4, <1>5, <1>6 DEF IInv

\* A round that finishes fills as many places as it prepares.
LEMMA FilledByRound ==
    ASSUME NEW t \in Tasks, NEW c \in Codes, NEW u \in Tasks, IsExecuted(u, t, c),
           InStep(u), ~Silent(c),
           u.type = "SimpleOutput" => u.update \/ u.answers # <<>>
    PROVE  Places(u) <= Len(u.answers)
<1>1. /\ u.answers \in Seq(Answer) /\ Len(u.answers) \in Nat /\ u.no \in Nat
      /\ u.type \in Types /\ u.update \in BOOLEAN
  BY LenProperties DEF Tasks
<1>2. u.type = t.type /\ u.update = t.update
  BY DEF IsExecuted
<1>3. u.type # "OwnType" /\ u.update => IsGenerated(u.answers, u.no, t, c)
  BY <1>2 DEF IsExecuted, Generates
<1>4. CASE u.type = "SimpleOutput"
  <2>1. Places(u) = 1
    BY <1>4 DEF Places
  <2>2. CASE u.update
    <3>1. IsGenerated(u.answers, u.no, t, c)
      BY <2>2, <1>3, <1>4
    <3>2. Len(u.answers) = 1
      BY <3>1, <1>2, <1>4 DEF IsGenerated
    <3> QED
      BY <2>1, <3>2
  <2>3. CASE u.answers # <<>>
    <3>1. Len(u.answers) # 0
      BY <2>3, <1>1, EmptySeq
    <3> QED
      BY <2>1, <3>1, <1>1
  <2> QED
    BY <2>2, <2>3, <1>4
<1>5. CASE u.type = "OwnType"
  BY <1>1, <1>5 DEF Places
<1>6. CASE u.type = "Gaps"
  BY <1>1, <1>6 DEF Places, InStep
<1>7. CASE u.type \in {"ComplexOutput", "LineNumbers"}
  <2>1. Places(u) = u.no
    BY <1>7 DEF Places
  <2>2. u.no = Len(u.answers)
    BY <1>2, <1>3, <1>7 DEF InStep, IsGenerated
  <2> QED
    BY <2>1, <2>2, <1>1
<1> QED
  BY <1>1, <1>4, <1>5, <1>6, <1>7 DEF Types

LEMMA FinishIInv == ASSUME IInv, Finish PROVE IInv'
<1> DEFINE u == Executed(task, round)
<1>1. HasTypes /\ task \in Tasks /\ InStep(task) /\ RoundOfCode /\ GapsAnswered
      /\ RememberedKept
  BY DEF IInv, HasTypes
<1>2. round \in Codes
  BY <1>1 DEF Finish, HasTypes
<1>3. task' = u /\ UNCHANGED <<code, area, remember, clean, dialog, kept>>
      /\ round' = NoCode /\ ready' = GoesOn
  BY DEF Finish, window
<1>4. GoesOn => places' = Places(u)
  BY <1>3 DEF Finish
<1>5. IsExecuted(u, task, round)
  BY <1>1, <1>2, ExecutedProperties
<1>6. InStep(u) /\ (task.type = "Gaps" /\ BeginsWithGaps(task) => BeginsWithGaps(u))
  BY <1>1, <1>2, ExecutedInStep
<1> HIDE DEF u
<1>7. u \in Tasks /\ u.type = task.type /\ u.code = task.code /\ u.update = task.update
  BY <1>5 DEF IsExecuted
<1>8. HasTypes'
  BY <1>1, <1>3, <1>7 DEF HasTypes
<1>9. RoundOfCode' /\ InStep(task)'
  BY <1>3, <1>6 DEF RoundOfCode, InStep
<1>10. AnswersOfCode'
  <2> SUFFICES ASSUME clean, u.update, u.type \notin {"OwnType", "Gaps"},
                      NEW i \in DOMAIN u.answers
               PROVE  u.answers[i].code = u.code
    BY <1>3 DEF AnswersOfCode
  <2>1. round = task.code
    BY <1>1, <1>2, AnswersAssumption DEF RoundOfCode
  <2>2. IsGenerated(u.answers, u.no, task, round)
    BY <1>5, <1>7 DEF IsExecuted, Generates
  <2>3. DOMAIN u.answers = 1 .. Len(u.answers)
    BY <1>7, LenProperties DEF Tasks
  <2> QED
    BY <2>1, <2>2, <2>3, <1>7 DEF IsGenerated
<1>11. GapsAnswered'
  BY <1>1, <1>3, <1>6, <1>7 DEF GapsAnswered, BeginsWithGaps
<1>12. PlacesFilled'
  <2> SUFFICES ASSUME GoesOn, u.type = "SimpleOutput" => u.update \/ u.answers # <<>>
               PROVE  places' <= Len(u.answers)
    BY <1>3 DEF PlacesFilled
  <2>1. ~Silent(round)
    <3>1. round.prints \in Nat
      BY <1>2, AnswersAssumption
    <3> QED
      BY <3>1 DEF GoesOn, Silent
  <2>2. Places(u) <= Len(u.answers)
    BY <2>1, <1>1, <1>2, <1>5, <1>6, <1>7, FilledByRound
  <2> QED
    BY <2>2, <1>4
<1>13. RememberedKept'
  <2>1. kept.on => u = task
    BY <1>1, <1>5 DEF RememberedKept, IsExecuted, Generates
  <2> QED
    BY <2>1, <1>1, <1>3 DEF RememberedKept
<1> QED
  BY <1>3, <1>8, <1>9, <1>10, <1>11, <1>12, <1>13 DEF IInv

LEMMA NextIInv == IInv /\ [Next]_vars => IInv'
<1> SUFFICES ASSUME IInv, [Next]_vars PROVE IInv'
  OBVIOUS
<1>1. CASE EditCode \/ EditArea \/ Check \/ Return \/ Hide
  BY <1>1, WindowIInv
<1>2. CASE Save \/ Leave
  BY <1>2, SaveLeaveIInv
<1>3. CASE Execute
  BY <1>3, ExecuteIInv
<1>4. CASE TestExecute
  BY <1>4, TestExecuteIInv
<1>5. CASE EditTask \/ ChangeType
  BY <1>5, DialogIInv
<1>6. CASE Begin
  BY <1>6, BeginIInv
<1>7. CASE Finish
  BY <1>7, FinishIInv
<1>8. CASE UNCHANGED vars
  <2>1. UNCHANGED <<task, round, hist, code, area, remember>>
    BY <1>8 DEF vars, window
  <2>2. HasTypes'
    BY <2>1 DEF IInv, HasTypes
  <2> QED
    BY <2>1, <2>2, WindowOnly
<1> QED
  BY <1>1, <1>2, <1>3, <1>4, <1>5, <1>6, <1>7, <1>8 DEF Next

-----------------------------------------------------------------------------
(* What the answers say and how many they are.                             *)

\* The answers about line numbers are right, wherever they are.
Named(s) ==
    \A i \in DOMAIN s :
        s[i].from = "number" => NamesLine(s[i].code.parts, s[i].code.errors[i], s[i].n)

\* The answers fit into a list of Java, and so does their number.
Sized(t) == Len(t.answers) <= Unset /\ t.no <= Unset

\* There is room for the answer that a round adds to the gaps.
Roomy(t) == t.type = "Gaps" /\ t.update => Len(t.answers) < Unset

\* What the properties need of a task, without what overlapping rounds do.
Good(t) == t \in Tasks /\ Named(t.answers) /\ Sized(t)

OtherTypes ==
    /\ open \in BOOLEAN
    /\ ready \in BOOLEAN
    /\ clean \in BOOLEAN
    /\ dialog \in BOOLEAN
    /\ places \in 0 .. Unset
    /\ kept \in [on : BOOLEAN, answers : Seq(Answer)]

Contents ==
    /\ Good(task)
    /\ Named(area)
    /\ Len(area) <= Unset
    /\ round # NoCode => Roomy(task)
    /\ OtherTypes

LEMMA SizeFacts ==
    /\ Unset \in Nat /\ 1 < Unset
    /\ MaxLines \in Nat /\ MaxLines <= Unset
    /\ MaxStored \in Nat /\ MaxStored < Unset
    /\ \A c \in Codes : GapLines(c) \in Nat /\ GapLines(c) + 1 < Unset
<1>1. Unset \in Nat /\ 1 < Unset
  BY DEF Unset
<1>2. MaxLines \in 0 .. Unset /\ MaxStored \in 0 .. Unset - 1
  BY AnswersAssumption
<1>3. \A c \in Codes : GapLines(c) \in Nat /\ GapLines(c) + 1 < Unset
  BY GapLinesType, SizesAssumption
<1> QED
  BY <1>1, <1>2, <1>3

\* Answers that are about no line numbers name no wrong ones.
LEMMA OthersNamed ==
    /\ \A from, c, m : from # "number" => Named(Lines(from, c, m))
    /\ \A from, c, k : from # "number" => Named(<<Made(from, c, k)>>)
    /\ \A m : Named([k \in 1 .. m |-> Typed])
    /\ Named(<<>>)
<1>1. \A from, c, m : from # "number" => Named(Lines(from, c, m))
  BY DEF Named, Lines, Made
<1>2. ASSUME NEW from, NEW c, NEW k, from # "number"
      PROVE  Named(<<Made(from, c, k)>>)
  <2>1. Made(from, c, k).from = from
    BY DEF Made
  <2>2. DOMAIN <<Made(from, c, k)>> = {1}
        /\ <<Made(from, c, k)>>[1] = Made(from, c, k)
    OBVIOUS
  <2> QED
    BY <1>2, <2>1, <2>2 DEF Named
<1>3. \A m : Named([k \in 1 .. m |-> Typed])
  BY DEF Named, Typed
<1>4. Named(<<>>)
  BY DEF Named
<1> QED
  BY <1>1, <1>2, <1>3, <1>4

LEMMA AppendNamed ==
    ASSUME NEW s \in Seq(Answer), NEW a \in Answer, Named(s), a.from # "number"
    PROVE  Named(Append(s, a))
<1>1. /\ Append(s, a) \in Seq(Answer)
      /\ Len(Append(s, a)) = Len(s) + 1
      /\ \A i \in 1 .. Len(s) : Append(s, a)[i] = s[i]
      /\ Append(s, a)[Len(s) + 1] = a
  BY AppendProperties
<1>2. /\ DOMAIN s = 1 .. Len(s)
      /\ Len(s) \in Nat
      /\ DOMAIN Append(s, a) = 1 .. Len(s) + 1
  BY <1>1, LenProperties
<1> SUFFICES ASSUME NEW i \in 1 .. Len(s) + 1, Append(s, a)[i].from = "number"
             PROVE  NamesLine(Append(s, a)[i].code.parts, Append(s, a)[i].code.errors[i],
                              Append(s, a)[i].n)
  BY <1>2 DEF Named
<1>3. i # Len(s) + 1
  BY <1>1
<1>4. i \in 1 .. Len(s)
  BY <1>2, <1>3
<1>5. Append(s, a)[i] = s[i]
  BY <1>1, <1>4
<1> QED
  BY <1>2, <1>4, <1>5 DEF Named

\* What a run generates, for the type LineNumbers above all.
LEMMA GeneratedNamed ==
    ASSUME NEW t \in Tasks, NEW c \in Codes, Named(t.answers)
    PROVE  Named(Generated(t, c))
<1>1. t.type \in Types /\ t.answers \in Seq(Answer)
  BY DEF Tasks
<1>2. CASE t.type = "SimpleOutput"
  <2>1. \/ Generated(t, c) = <<>>
        \/ Generated(t, c) = <<Made("printed", c, 1)>>
        \/ Generated(t, c) = <<Made("complaint", c, 1)>>
    BY <1>2 DEF Generated
  <2> QED
    BY <2>1, OthersNamed
<1>3. CASE t.type = "ComplexOutput"
  <2>1. \/ Generated(t, c) = Lines("printed", c, c.prints)
        \/ Generated(t, c) = <<Made("error", c, 0)>>
    BY <1>3 DEF Generated, GeneratedComplex
  <2> QED
    BY <2>1, OthersNamed
<1>4. CASE t.type = "Gaps"
  <2>1. \/ Generated(t, c) = t.answers
        \/ Generated(t, c) = Append(t.answers, Made("none", c, 0))
    BY <1>4 DEF Generated
  <2>2. Made("none", c, 0) \in Answer /\ Made("none", c, 0).from # "number"
    BY DEF Made, Answer, Origins
  <2>3. Named(Append(t.answers, Made("none", c, 0)))
    BY <1>1, <2>2, AppendNamed
  <2> QED
    BY <2>1, <2>3
<1>5. CASE t.type = "LineNumbers"
  <2>1. CASE Compiles(c)
    <3>1. Generated(t, c) = <<Made("none", c, 0)>>
      BY <1>5, <2>1 DEF Generated
    <3> QED
      BY <3>1, OthersNamed
  <2>2. CASE ~Compiles(c)
    <3> DEFINE g == [k \in DOMAIN c.errors |->
                        Made("number", c, PdfLineNumber(c.parts, c.errors[k]))]
    <3>1. Generated(t, c) = g
      BY <1>5, <2>2 DEF Generated
    <3>2. c.errors \in Seq(Nat \ {0}) /\ c.parts \in Seq(Part)
      BY AnswersAssumption
    <3>3. ASSUME NEW k \in DOMAIN c.errors
          PROVE  /\ g[k].code = c
                 /\ NamesLine(c.parts, c.errors[k], g[k].n)
      <4>1. c.errors[k] \in Nat \ {0}
        BY <3>2
      <4>2. NamesLine(c.parts, c.errors[k], PdfLineNumber(c.parts, c.errors[k]))
        BY <3>2, <4>1, PrintedLineNamed
      <4>3. g[k] = Made("number", c, PdfLineNumber(c.parts, c.errors[k]))
        OBVIOUS
      <4> QED
        BY <4>2, <4>3 DEF Made
    <3>4. DOMAIN g = DOMAIN c.errors
      OBVIOUS
    <3> HIDE DEF g
    <3> QED
      BY <3>1, <3>3, <3>4 DEF Named
  <2> QED
    BY <2>1, <2>2
<1>6. CASE t.type = "OwnType"
  BY <1>6 DEF Generated
<1> QED
  BY <1>1, <1>2, <1>3, <1>4, <1>5, <1>6 DEF Types

\* ... and how much of it there is.
LEMMA GeneratedSize ==
    ASSUME NEW t \in Tasks, NEW c \in Codes, Sized(t), Roomy(t), Generates(t)
    PROVE  /\ Len(Generated(t, c)) \in Nat
           /\ Len(Generated(t, c)) <= Unset
           /\ Counted(t, c) <= Unset
           /\ t.type = "Gaps" => Len(Generated(t, c)) <= Len(t.answers) + 1
<1> DEFINE g == Generated(t, c)
<1>1. /\ t.type \in Types /\ t.no \in Nat /\ t.no <= Unset
      /\ t.answers \in Seq(Answer) /\ Len(t.answers) \in Nat /\ Len(t.answers) <= Unset
      /\ t.type # "OwnType" /\ t.update
  BY LenProperties DEF Tasks, Sized, Generates
<1>2. Unset \in Nat /\ 1 < Unset
  BY SizeFacts
<1>3. c.prints \in Nat /\ c.prints <= Unset /\ Len(c.errors) <= Unset
      /\ c.errors \in Seq(Nat \ {0})
  BY AnswersAssumption, SizesAssumption
<1>4. \A from, k : Len(<<Made(from, c, k)>>) = 1 /\ Len(<<>>) = 0
  OBVIOUS
<1>5. CASE t.type = "SimpleOutput"
  <2>1. \/ g = <<>>
        \/ g = <<Made("printed", c, 1)>>
        \/ g = <<Made("complaint", c, 1)>>
    BY <1>5 DEF Generated
  <2>2. Counted(t, c) = t.no
    BY <1>5 DEF Counted
  <2>3. Len(g) = 0 \/ Len(g) = 1
    BY <1>4, <2>1
  <2> HIDE DEF g
  <2>4. Len(g) \in Nat /\ Len(g) <= Unset
    BY <1>2, <2>3
  <2> QED
    BY <1>1, <1>5, <2>2, <2>4 DEF g
<1>6. CASE t.type = "ComplexOutput"
  <2>1. \/ g = Lines("printed", c, c.prints)
        \/ g = <<Made("error", c, 0)>>
    BY <1>6 DEF Generated, GeneratedComplex
  <2>2. Len(Lines("printed", c, c.prints)) = c.prints
    <3>1. "printed" \in Origins
      BY DEF Origins
    <3> QED
      BY <1>3, <3>1, LinesProperties
  <2>3. Len(g) = c.prints \/ Len(g) = 1
    BY <1>4, <2>1, <2>2
  <2>4. Counted(t, c) = Len(g)
    BY <1>6 DEF Counted
  <2> QED
    BY <1>2, <1>3, <1>6, <2>3, <2>4
<1>7. CASE t.type = "Gaps"
  <2>1. /\ Compiles(c) => g = t.answers
        /\ ~Compiles(c) => g = Append(t.answers, Made("none", c, 0))
    BY <1>7 DEF Generated
  <2>2. Len(Append(t.answers, Made("none", c, 0))) = Len(t.answers) + 1
    <3>1. Made("none", c, 0) \in Answer
      BY DEF Made, Answer, Origins
    <3> QED
      BY <1>1, <3>1, AppendProperties
  <2>3. Counted(t, c) = t.no \/ Counted(t, c) = 1
    BY <1>7 DEF Counted
  <2>4. Len(t.answers) < Unset
    BY <1>1, <1>7 DEF Roomy
  <2>5. Len(g) = Len(t.answers) \/ Len(g) = Len(t.answers) + 1
    BY <2>1, <2>2
  <2> QED
    BY <1>1, <1>2, <2>3, <2>4, <2>5
<1>8. CASE t.type = "LineNumbers"
  <2>1. \/ g = <<Made("none", c, 0)>>
        \/ g = [k \in DOMAIN c.errors |->
                   Made("number", c, PdfLineNumber(c.parts, c.errors[k]))]
    BY <1>8 DEF Generated
  <2>2. DOMAIN c.errors = 1 .. Len(c.errors) /\ Len(c.errors) \in Nat
    BY <1>3, LenProperties
  <2>3. IsGenerated(g, Counted(t, c), t, c)
    BY GeneratedProperties
  <2>4. g \in Seq(Answer)
    BY <2>3 DEF IsGenerated
  <2>5. Len(g) = 1 \/ Len(g) = Len(c.errors)
    <3>1. CASE g = <<Made("none", c, 0)>>
      BY <1>4, <3>1
    <3>2. CASE g = [k \in DOMAIN c.errors |->
                       Made("number", c, PdfLineNumber(c.parts, c.errors[k]))]
      <4>1. DOMAIN g = 1 .. Len(c.errors)
        BY <2>2, <3>2
      <4>2. DOMAIN g = 1 .. Len(g) /\ Len(g) \in Nat
        BY <2>4, LenProperties
      <4> HIDE DEF g
      <4> QED
        BY <2>2, <4>1, <4>2
    <3> QED
      BY <2>1, <3>1, <3>2
  <2>6. Counted(t, c) = Len(g)
    BY <1>8 DEF Counted
  <2> QED
    BY <1>2, <1>3, <1>8, <2>2, <2>5, <2>6
<1> QED
  BY <1>1, <1>5, <1>6, <1>7, <1>8 DEF Types

-----------------------------------------------------------------------------
(* What saving and executing do to good tasks.                             *)

LEMMA SaveTextGood ==
    ASSUME HasTypes, NEW t, Good(t)
    PROVE  /\ Good(SaveText(t))
           /\ Roomy(SaveText(t))
           /\ SaveText(t).type = "Gaps" => Len(SaveText(t).answers) + 1 < Unset
<1> DEFINE u == SaveText(t)
<1>1. IsSavedText(u, t)
  BY SaveTextProperties DEF Good
<1>2. code \in Codes
  BY DEF HasTypes
<1>3. /\ Len(Lines("gap", code, GapLines(code))) = GapLines(code)
      /\ GapLines(code) \in Nat
      /\ GapLines(code) + 1 < Unset
      /\ Unset \in Nat
  BY <1>2, GapsProperties, SizeFacts
<1> HIDE DEF u
<1>4. CASE t.type = "Gaps"
  <2>1. u.answers = Lines("gap", code, GapLines(code)) /\ u.no = GapLines(code)
        /\ u \in Tasks /\ u.type = "Gaps"
    BY <1>1, <1>4 DEF IsSavedText
  <2>2. Named(u.answers)
    BY <2>1, OthersNamed
  <2>3. Len(u.answers) = GapLines(code)
    BY <1>3, <2>1
  <2>4. Len(u.answers) + 1 < Unset /\ Len(u.answers) < Unset /\ Len(u.answers) <= Unset
        /\ u.no <= Unset
    BY <1>3, <2>1, <2>3
  <2>5. Good(u) /\ Roomy(u)
    BY <2>1, <2>2, <2>4 DEF Good, Sized, Roomy
  <2> QED
    BY <2>4, <2>5 DEF u
<1>5. CASE t.type # "Gaps"
  <2>1. u.answers = t.answers /\ u.no = t.no /\ u \in Tasks /\ u.type # "Gaps"
    BY <1>1, <1>5 DEF IsSavedText
  <2>2. Good(u) /\ Roomy(u)
    BY <2>1 DEF Good, Sized, Roomy
  <2> QED
    BY <2>1, <2>2 DEF u
<1> QED
  BY <1>4, <1>5

LEMMA SavedGood ==
    ASSUME HasTypes, NEW t, Good(t), Named(area), Len(area) <= Unset
    PROVE  LET u == Remembered(SaveText(t))
           IN  /\ Good(u)
               /\ u.type = "Gaps" /\ u.update => Len(u.answers) + 1 < Unset
<1> DEFINE v == SaveText(t)
           u == Remembered(v)
<1>1. Good(v) /\ (v.type = "Gaps" => Len(v.answers) + 1 < Unset)
  BY SaveTextGood
<1>2. IsRemembered(u, v)
  BY <1>1, RememberedProperties DEF Good
<1> HIDE DEF u, v
<1>3. CASE remember
  <2>1. u \in Tasks /\ u.update = FALSE /\ u.answers = area /\ u.no = Len(area)
    BY <1>2, <1>3 DEF IsRemembered
  <2>2. Good(u)
    BY <2>1 DEF Good, Sized
  <2> QED
    BY <2>1, <2>2 DEF u, v
<1>4. CASE ~remember
  <2>1. u \in Tasks /\ u.answers = v.answers /\ u.no = v.no /\ u.type = v.type
    BY <1>2, <1>4 DEF IsRemembered
  <2>2. Good(u)
    BY <1>1, <2>1 DEF Good, Sized
  <2> QED
    BY <1>1, <2>1, <2>2 DEF u, v
<1> QED
  BY <1>3, <1>4

LEMMA ExecutedGood ==
    ASSUME NEW t, Good(t), Roomy(t), NEW c \in Codes
    PROVE  LET u == Executed(t, c)
           IN  /\ Good(u)
               /\ u.type = t.type /\ u.update = t.update
               /\ u.type = "Gaps" => Len(u.answers) <= Len(t.answers) + 1
<1> DEFINE u == Executed(t, c)
<1>1. t \in Tasks /\ Named(t.answers) /\ Sized(t)
  BY DEF Good
<1>2. IsExecuted(u, t, c)
  BY <1>1, ExecutedProperties
<1> HIDE DEF u
<1>3. u \in Tasks /\ u.type = t.type /\ u.update = t.update
  BY <1>2 DEF IsExecuted
<1>4. CASE Generates(t)
  <2>1. u.answers = Generated(t, c) /\ u.no = Counted(t, c)
    BY <1>2, <1>4 DEF IsExecuted
  <2>2. Named(u.answers)
    BY <1>1, <2>1, GeneratedNamed
  <2>3. Len(u.answers) <= Unset /\ u.no <= Unset
        /\ (t.type = "Gaps" => Len(u.answers) <= Len(t.answers) + 1)
    BY <1>1, <1>4, <2>1, GeneratedSize
  <2> QED
    BY <1>3, <2>2, <2>3 DEF Good, Sized, u
<1>5. CASE ~Generates(t)
  <2>1. u = t
    BY <1>2, <1>5 DEF IsExecuted
  <2>2. Len(t.answers) \in Nat
    BY <1>1, LenProperties DEF Tasks
  <2> QED
    BY <2>1, <2>2 DEF u
<1> QED
  BY <1>4, <1>5

\* As many places as there are answers, or were counted.
LEMMA PlacesSized ==
    ASSUME NEW t, Good(t)
    PROVE  Places(t) \in 0 .. Unset
<1>1. /\ t.no \in Nat /\ t.no <= Unset
      /\ Len(t.answers) \in Nat /\ Len(t.answers) <= Unset
  BY LenProperties DEF Good, Tasks, Sized
<1>2. Unset \in Nat /\ 1 < Unset
  BY SizeFacts
<1>3. Places(t) = 1 \/ Places(t) = Len(t.answers) \/ Places(t) = t.no
  BY DEF Places
<1> QED
  BY <1>1, <1>2, <1>3

-----------------------------------------------------------------------------
(* ... and the handlers.                                                   *)

LEMMA InitContents == ASSUME Init PROVE Contents
<1>1. HasTypes
  BY InitIInv DEF IInv
<1>2. PICK t \in Types, c \in Codes :
         task = [type |-> t, code |-> c, update |-> Updates(t), no |-> Count0(t),
                 answers |-> <<>>]
  BY DEF Init
<1>3. task \in Tasks
  BY <1>1 DEF HasTypes
<1>4. task.answers = <<>> /\ task.no = Count0(t)
  BY <1>2
<1>5. Unset \in Nat /\ Count0(t) <= Unset
  BY DEF Count0, Unset
<1>6. Len(<<>>) = 0
  OBVIOUS
<1>7. Good(task)
  BY <1>3, <1>4, <1>5, <1>6, OthersNamed DEF Good, Sized
<1>8. area = <<>> /\ round = NoCode
  BY DEF Init
<1>9. Named(area) /\ Len(area) <= Unset
  BY <1>5, <1>6, <1>8, OthersNamed
<1>10. OtherTypes
  <2>1. NotKept \in [on : BOOLEAN, answers : Seq(Answer)]
    BY DEF NotKept
  <2>2. open = TRUE /\ ready = FALSE /\ places = 0 /\ clean = FALSE /\ dialog = TRUE
        /\ kept = NotKept
    BY DEF Init
  <2>3. 0 \in 0 .. Unset
    BY SizeFacts
  <2> QED
    BY <2>1, <2>2, <2>3 DEF OtherTypes
<1> QED
  BY <1>7, <1>8, <1>9, <1>10 DEF Contents

\* What a save or a test run does to the history.
LEMMA HistoryTypes ==
    ASSUME HasTypes, OtherTypes, open' \in BOOLEAN, Touched, dialog' \in BOOLEAN,
           kept' \in {kept, Kept, NotKept}
    PROVE  OtherTypes'
<1>1. NotKept \in [on : BOOLEAN, answers : Seq(Answer)]
  BY DEF NotKept
<1>2. area \in Seq(Answer) /\ kept \in [on : BOOLEAN, answers : Seq(Answer)]
  BY DEF HasTypes, OtherTypes
<1>3. Kept \in [on : BOOLEAN, answers : Seq(Answer)]
  BY <1>1, <1>2 DEF Kept
<1>4. kept' \in [on : BOOLEAN, answers : Seq(Answer)]
  BY <1>1, <1>2, <1>3
<1>5. 0 \in 0 .. Unset
  BY SizeFacts
<1> QED
  BY <1>4, <1>5 DEF Touched, OtherTypes

LEMMA WindowContents ==
    ASSUME IInv, Contents, EditCode \/ EditArea \/ Check \/ Return \/ Hide
    PROVE  Contents'
<1>1. UNCHANGED <<task, round, hist>>
  BY DEF EditCode, EditArea, Check, Return, Hide, Show
<1>2. Good(task)' /\ (round' # NoCode => Roomy(task)')
  BY <1>1 DEF Contents, Good, Named, Sized, Roomy
<1>3. open' \in BOOLEAN
  BY DEF EditCode, EditArea, Check, Return, Hide, Show, Contents, OtherTypes
<1>4. OtherTypes'
  BY <1>1, <1>3 DEF Contents, OtherTypes, hist
<1>5. /\ Named(area) /\ Len(area) <= Unset
      /\ Named(task.answers) /\ Len(task.answers) <= Unset
  BY DEF Contents, Good, Sized
<1>6. \/ area' = area
      \/ area' = <<>>
      \/ area' = task.answers
      \/ \E m \in 0 .. MaxLines : area' = [k \in 1 .. m |-> Typed]
  BY DEF EditCode, EditArea, Check, Return, Hide, Show, Display
<1>7. ASSUME NEW m \in 0 .. MaxLines, area' = [k \in 1 .. m |-> Typed]
      PROVE  Named(area)' /\ Len(area') <= Unset
  <2>1. Named(area')
    BY <1>7, OthersNamed
  <2>2. m \in Nat /\ m <= Unset
    BY SizeFacts
  <2>3. Typed \in Answer
    BY DEF Typed, Answer, Origins
  <2>4. area' \in [1 .. m -> Answer]
    BY <1>7, <2>3
  <2>5. Len(area') = m
    BY <2>2, <2>4, FunctionIsSequence
  <2> QED
    BY <2>1, <2>2, <2>5 DEF Named
<1>8. Named(area)' /\ Len(area') <= Unset
  <2>1. CASE area' = area
    BY <1>5, <2>1 DEF Named
  <2>2. CASE area' = <<>>
    <3>1. Len(<<>>) = 0 /\ Unset \in Nat
      BY SizeFacts
    <3>2. Named(<<>>)
      BY OthersNamed
    <3> QED
      BY <2>2, <3>1, <3>2 DEF Named
  <2>3. CASE area' = task.answers
    BY <1>5, <2>3 DEF Named
  <2> QED
    BY <1>6, <1>7, <2>1, <2>2, <2>3
<1> QED
  BY <1>2, <1>4, <1>8 DEF Contents

LEMMA SaveLeaveContents ==
    ASSUME IInv, Contents, Save \/ Leave
    PROVE  Contents'
<1> DEFINE u == Remembered(SaveText(task))
<1>1. HasTypes /\ Good(task) /\ Named(area) /\ Len(area) <= Unset /\ OtherTypes
  BY DEF IInv, Contents
<1>2. Good(u) /\ (u.type = "Gaps" /\ u.update => Len(u.answers) + 1 < Unset)
  BY <1>1, SavedGood
<1>3. task' = u
  BY DEF Save, Leave, Saved
<1> HIDE DEF u
<1>4. Len(u.answers) \in Nat
  BY <1>2, LenProperties DEF Good, Tasks
<1>5. Roomy(u)
  BY <1>2, <1>4, SizeFacts DEF Roomy
<1>6. Good(task)' /\ Roomy(task)'
  BY <1>2, <1>3, <1>5 DEF Good, Roomy, Named, Sized
<1>7. area' = area \/ area' = <<>>
  BY DEF Save, Leave, window
<1>8. Named(area)' /\ Len(area') <= Unset
  <2>1. Len(<<>>) = 0 /\ Unset \in Nat
    BY SizeFacts
  <2> QED
    BY <1>1, <1>7, <2>1, OthersNamed DEF Named
<1>9. OtherTypes'
  <2>1. open' \in BOOLEAN /\ Touched /\ dialog' = FALSE /\ kept' = Kept
    BY <1>1 DEF Save, Leave, AfterSave, window, OtherTypes
  <2> QED
    BY <1>1, <2>1, HistoryTypes
<1> QED
  BY <1>6, <1>8, <1>9 DEF Contents

LEMMA ExecuteContents == ASSUME IInv, Contents, Execute PROVE Contents'
<1> DEFINE t == Remembered(SaveText(task))
           g == Executed(t, code)
<1>1. HasTypes /\ Good(task) /\ Named(area) /\ Len(area) <= Unset /\ OtherTypes
      /\ code \in Codes
  BY DEF IInv, Contents, HasTypes
<1>2. Good(t) /\ (t.type = "Gaps" /\ t.update => Len(t.answers) + 1 < Unset)
  BY <1>1, SavedGood
<1>3. task' = g /\ (area' = area \/ area' = g.answers)
  BY DEF Execute, Display
<1> HIDE DEF t, g
<1>4. Len(t.answers) \in Nat
  BY <1>2, LenProperties DEF Good, Tasks
<1>5. Roomy(t)
  BY <1>2, <1>4, SizeFacts DEF Roomy
<1>6. /\ Good(g) /\ g.type = t.type /\ g.update = t.update
      /\ g.type = "Gaps" => Len(g.answers) <= Len(t.answers) + 1
  BY <1>1, <1>2, <1>5, ExecutedGood DEF g
<1>7. Len(g.answers) \in Nat
  BY <1>6, LenProperties DEF Good, Tasks
<1>8. Roomy(g)
  BY <1>2, <1>4, <1>6, <1>7, SizeFacts DEF Roomy
<1>9. Good(task)' /\ Roomy(task)'
  BY <1>3, <1>6, <1>8 DEF Good, Roomy, Named, Sized
<1>10. Named(area)' /\ Len(area') <= Unset
  BY <1>1, <1>3, <1>6 DEF Named, Good, Sized
<1>11. OtherTypes'
  <2>1. open' \in BOOLEAN /\ Touched /\ dialog' = FALSE /\ kept' = Kept
    BY <1>1 DEF Execute, AfterSave, OtherTypes
  <2> QED
    BY <1>1, <2>1, HistoryTypes
<1> QED
  BY <1>9, <1>10, <1>11 DEF Contents

LEMMA TestExecuteContents == ASSUME IInv, Contents, TestExecute PROVE Contents'
<1> DEFINE u == SaveText(task)
<1>1. HasTypes /\ Good(task) /\ Named(area) /\ Len(area) <= Unset /\ OtherTypes
  BY DEF IInv, Contents
<1>2. Good(u) /\ Roomy(u)
  BY <1>1, SaveTextGood
<1>3. task' = u /\ area' = area
  BY DEF TestExecute, window
<1> HIDE DEF u
<1>4. Good(task)' /\ Roomy(task)'
  BY <1>2, <1>3 DEF Good, Roomy, Named, Sized
<1>5. Named(area)' /\ Len(area') <= Unset
  BY <1>1, <1>3 DEF Named
<1>6. OtherTypes'
  <2>1. open' \in BOOLEAN /\ Touched /\ dialog' = FALSE /\ kept' \in {kept, NotKept}
    BY <1>1 DEF TestExecute, window, OtherTypes
  <2> QED
    BY <1>1, <2>1, HistoryTypes
<1> QED
  BY <1>4, <1>5, <1>6 DEF Contents

LEMMA DialogContents ==
    ASSUME IInv, Contents, HasTypes', EditTask \/ ChangeType
    PROVE  Contents'
<1>1. HasTypes /\ task \in Tasks /\ Good(task) /\ Named(area) /\ Len(area) <= Unset
      /\ OtherTypes /\ (round # NoCode => Roomy(task))
  BY DEF IInv, Contents, HasTypes
<1>2. task' \in Tasks
  BY DEF HasTypes
<1>3. UNCHANGED <<area, round, open>> /\ Touched /\ dialog' = TRUE
      /\ kept' \in {kept, NotKept}
  BY DEF EditTask, ChangeType, Rewritten
<1>4. /\ task'.answers = task.answers
      /\ task'.no <= Unset
      /\ round # NoCode => task'.type = task.type /\ task'.update = task.update
  <2>1. CASE EditTask
    <3>1. PICK c \in Codes : task' = [task EXCEPT !.code = c]
      BY <2>1 DEF EditTask
    <3>2. task'.answers = task.answers /\ task'.no = task.no
          /\ task'.type = task.type /\ task'.update = task.update
      BY <1>1, <3>1 DEF Tasks
    <3> QED
      BY <1>1, <3>2 DEF Good, Sized
  <2>2. CASE ChangeType
    <3>1. PICK c \in Codes, t \in Types :
             task' = [task EXCEPT !.code = c, !.type = t,
                                  !.update = Updates(t), !.no = Count0(t)]
      BY <2>2 DEF ChangeType
    <3>2. task'.answers = task.answers /\ task'.no = Count0(t)
      BY <1>1, <3>1 DEF Tasks
    <3>3. Count0(t) <= Unset
      BY DEF Count0, Unset
    <3>4. round = NoCode
      BY <2>2 DEF ChangeType
    <3> QED
      BY <3>2, <3>3, <3>4
  <2> QED
    BY <2>1, <2>2
<1>5. Good(task)' /\ (round' # NoCode => Roomy(task)')
  BY <1>1, <1>2, <1>3, <1>4 DEF Good, Roomy, Named, Sized
<1>6. Named(area)' /\ Len(area') <= Unset
  BY <1>1, <1>3 DEF Named
<1>7. OtherTypes'
  <2>1. open' \in BOOLEAN
    BY <1>1, <1>3 DEF OtherTypes
  <2> QED
    BY <1>1, <1>3, <2>1, HistoryTypes
<1> QED
  BY <1>5, <1>6, <1>7 DEF Contents

LEMMA BeginContents == ASSUME IInv, Contents, Begin PROVE Contents'
<1>1. UNCHANGED <<task, area, open, dialog, kept>> /\ Len(task.answers) <= MaxStored
      /\ ready' = FALSE /\ places' = 0 /\ clean' = TRUE
  BY DEF Begin, window
<1>2. Good(task) /\ Named(area) /\ Len(area) <= Unset /\ OtherTypes
  BY DEF Contents
<1>3. Len(task.answers) \in Nat
  BY <1>2, LenProperties DEF Good, Tasks
<1>4. Len(task.answers) < Unset /\ 0 \in 0 .. Unset
  BY <1>1, <1>3, SizeFacts
<1>5. Good(task)' /\ Roomy(task)'
  BY <1>1, <1>2, <1>4 DEF Good, Roomy, Named, Sized
<1>6. OtherTypes' /\ Named(area)' /\ Len(area') <= Unset
  BY <1>1, <1>2, <1>4 DEF OtherTypes, Named
<1> QED
  BY <1>5, <1>6 DEF Contents

LEMMA FinishContents == ASSUME IInv, Contents, Finish PROVE Contents'
<1> DEFINE u == Executed(task, round)
<1>1. HasTypes /\ Good(task) /\ Named(area) /\ Len(area) <= Unset /\ OtherTypes
      /\ Roomy(task) /\ round \in Codes
  BY DEF IInv, Contents, HasTypes, Finish
<1>2. /\ task' = u /\ UNCHANGED <<area, open, clean, dialog, kept>>
      /\ round' = NoCode /\ ready' = GoesOn
      /\ places' = Places(u) \/ places' = 0
  BY DEF Finish, window
<1>3. Good(u)
  BY <1>1, ExecutedGood
<1> HIDE DEF u
<1>4. Good(task)'
  BY <1>2, <1>3 DEF Good, Named, Sized
<1>5. places' \in 0 .. Unset
  BY <1>2, <1>3, PlacesSized, SizeFacts
<1>6. GoesOn \in BOOLEAN
  <2>1. (round.prints > 0) \in BOOLEAN /\ (task.type = "LineNumbers") \in BOOLEAN
    OBVIOUS
  <2> QED
    BY <2>1, Zenon DEF GoesOn
<1>7. OtherTypes'
  BY <1>1, <1>2, <1>5, <1>6 DEF OtherTypes
<1>8. Named(area)' /\ Len(area') <= Unset
  BY <1>1, <1>2 DEF Named
<1> QED
  BY <1>2, <1>4, <1>7, <1>8 DEF Contents

LEMMA NextContents == IInv /\ Contents /\ [Next]_vars => Contents'
<1> SUFFICES ASSUME IInv, Contents, [Next]_vars PROVE Contents'
  OBVIOUS
<1>1. CASE EditCode \/ EditArea \/ Check \/ Return \/ Hide
  BY <1>1, WindowContents
<1>2. CASE Save \/ Leave
  BY <1>2, SaveLeaveContents
<1>3. CASE Execute
  BY <1>3, ExecuteContents
<1>4. CASE TestExecute
  BY <1>4, TestExecuteContents
<1>5. CASE EditTask \/ ChangeType
  <2>1. HasTypes'
    BY NextIInv DEF IInv
  <2> QED
    BY <1>5, <2>1, DialogContents
<1>6. CASE Begin
  BY <1>6, BeginContents
<1>7. CASE Finish
  BY <1>7, FinishContents
<1>8. CASE UNCHANGED vars
  BY <1>8
  DEF vars, window, hist, Contents, OtherTypes, Good, Roomy, Named, Sized
<1> QED
  BY <1>1, <1>2, <1>3, <1>4, <1>5, <1>6, <1>7, <1>8 DEF Next

-----------------------------------------------------------------------------
(* The theorems.                                                           *)

\* The inductive invariant holds in every reachable state: types, counters in
\* step with the answers, and the properties below.
THEOREM AnswersInvariant == Spec => []IInv
<1>1. Init => IInv
  BY InitIInv
<1>2. IInv /\ [Next]_vars => IInv'
  BY NextIInv
<1> QED
  BY <1>1, <1>2, PTL DEF Spec

\* After a round that lets the PDF be generated and nothing disturbed, the
\* answers are of the code the task has (callExecute).
THEOREM AnswersOfCodeHold == Spec => []AnswersOfCode
<1>1. IInv => AnswersOfCode
  BY DEF IInv
<1> QED
  BY <1>1, AnswersInvariant, PTL

\* A saved task with gaps has its gaps as its first answers (saveText).
THEOREM GapsAlwaysAnswered == Spec => []GapsAnswered
<1>1. IInv => GapsAnswered
  BY DEF IInv
<1> QED
  BY <1>1, AnswersInvariant, PTL

\* The places preparePdfAnswers makes never outnumber the answers, so the
\* generator does not refuse the task.
THEOREM PlacesAlwaysFilled == Spec => []PlacesFilled
<1>1. IInv => PlacesFilled
  BY DEF IInv
<1> QED
  BY <1>1, AnswersInvariant, PTL

\* Remembered answers survive every round, save and display (saveAnswers,
\* callExecute).
THEOREM RememberedAlwaysKept == Spec => []RememberedKept
<1>1. IInv => RememberedKept
  BY DEF IInv
<1> QED
  BY <1>1, AnswersInvariant, PTL

\* Whatever the answers go through, those about line numbers name printed
\* lines, and there are never more than a list of Java holds.
THEOREM ContentsInvariant == Spec => []Contents
<1>1. Init => Contents
  BY InitContents
<1> QED
  BY <1>1, NextContents, AnswersInvariant, PTL DEF Spec

\* An answer about line numbers names the printed line on which the compiler
\* found its error (getPdfLineNumber), and stays with its error while answers
\* are remembered, displayed, saved and generated again.
THEOREM ErrorLinesAlwaysNamed == Spec => []ErrorLinesNamed
<1>1. Contents => ErrorLinesNamed
  BY DEF Contents, Good, Named, ErrorLinesNamed
<1> QED
  BY <1>1, ContentsInvariant, PTL

\* Every variable has its type: counters and places stay within Java's range.
THEOREM AnswersTypeOK == Spec => []TypeOK
<1>1. IInv /\ Contents => TypeOK
  <2> SUFFICES ASSUME IInv, Contents PROVE TypeOK
    OBVIOUS
  <2>1. task \in Tasks /\ task.no <= Unset /\ Unset \in Nat
    BY SizeFacts DEF IInv, HasTypes, Contents, Good, Sized
  <2>2. task.no \in 0 .. Unset
    BY <2>1 DEF Tasks
  <2>3. task \in [type : Types, code : Codes, update : BOOLEAN, no : 0 .. Unset,
                  answers : Seq(Answer)]
    BY <2>1, <2>2 DEF Tasks
  <2>4. {ready, clean, dialog} \subseteq BOOLEAN
    BY DEF Contents, OtherTypes
  <2> QED
    BY <2>3, <2>4 DEF TypeOK, IInv, HasTypes, Contents, OtherTypes
<1> QED
  BY <1>1, AnswersInvariant, ContentsInvariant, PTL

=============================================================================
