----------------------------- MODULE LineNumbers -----------------------------
(***************************************************************************)
(* From the line g++ complains about to the line of the printed code       *)
(* (TaskTypeLineNumbers.getPdfLineNumber).                                 *)
(*                                                                         *)
(* The code of a task is a list of parts, each with a marker.  Parts       *)
(* marked "test" are not compiled and not printed, "hidden" ones are       *)
(* compiled and not printed.  Lines are what lineCount counts in a part:   *)
(* empty ones at its end do not count, and a line that two parts share     *)
(* counts in both.                                                         *)
(***************************************************************************)
EXTENDS Integers, SequencesExt

Markers == {"none", "hidden", "test", "gap"}
Part    == [type : Markers, lines : Nat]

Reaches(std, p, n) == p.lines + std >= n

\* Mutant: hidden lines are counted as printed.
Printed_Hidden(p) == p.lines

Printed(p) == IF p.type = "hidden" THEN 0 ELSE p.lines

\* One round of the loop over the parts, for the line n of the compiled code.
\* "hit" and "hidden" leave the loop.
Count(acc, p, n) ==
    CASE acc.at # "before" \/ p.type = "test" -> acc
      [] acc.at = "before" /\ p.type # "test" /\ ~Reaches(acc.std, p, n) ->
            [acc EXCEPT !.pdf = @ + Printed(p), !.std = @ + p.lines]
      [] acc.at = "before" /\ p.type # "test" /\ Reaches(acc.std, p, n) ->
            IF p.type = "hidden"
            THEN [acc EXCEPT !.at = "hidden"]
            ELSE [at |-> "hit", pdf |-> acc.pdf + n - acc.std, std |-> acc.std + p.lines]

\* The loop: after i parts.
Counts(parts, n) ==
    LET after[i \in 0 .. Len(parts)] ==
            IF i = 0 THEN [at |-> "before", pdf |-> 0, std |-> 0]
                     ELSE Count(after[i - 1], parts[i], n)
    IN  after

\* getPdfLineNumber
PdfLineNumber(parts, n) ==
    LET end == Counts(parts, n)[Len(parts)]
    IN  IF end.at = "hidden" \/ n >= end.std THEN -1 ELSE end.pdf

-----------------------------------------------------------------------------
(* The lines themselves, as pairs of a part and a position in it.          *)

LinesOf(parts, types) ==
    UNION {{i} \X (1 .. parts[i].lines) :
              i \in {j \in DOMAIN parts : parts[j].type \in types}}

CompiledTypes == Markers \ {"test"}
PrintedTypes  == Markers \ {"test", "hidden"}

NotAfter(l, m) == l[1] < m[1] \/ (l[1] = m[1] /\ l[2] <= m[2])

\* The number of the line l among those of the parts of some types.
Place(parts, types, l) == Cardinality({m \in LinesOf(parts, types) : NotAfter(m, l)})

EndsPart(parts, l) == l[2] = parts[l[1]].lines

\* Does r say the right thing of the n-th compiled line: the line it is
\* printed as, or -1 if it is not printed or there is none.  The check after
\* the loop (TaskTypeLineNumbers.java:72), meant for numbers beyond the code,
\* compares with the lines counted so far: it says -1 of the last line of
\* every part, too.
NamesLine(parts, n, r) ==
    /\ \A l \in LinesOf(parts, CompiledTypes) :
          Place(parts, CompiledTypes, l) = n =>
              r = IF l \in LinesOf(parts, PrintedTypes) /\ ~EndsPart(parts, l)
                  THEN Place(parts, PrintedTypes, l) ELSE -1
    /\ n > Cardinality(LinesOf(parts, CompiledTypes)) => r = -1

=============================================================================
