---------------------------- MODULE MCExamFiles ----------------------------
EXTENDS ExamFiles

\* Everything that holds a code, an output and a statement.
Texts == {ed} \cup Range(tasks)
         \cup IF disk = NoFile THEN {} ELSE Range(disk.tasks)

\* Bound: there are other codes and outputs than those of a new task, or
\* other statements, not both.
OneKindOfText ==
    \/ \A t \in Texts : t.code = NoCode /\ t.out = NoOut
    \/ dlg.body = NoBody /\ \A t \in Texts : t.body = NoBody
=============================================================================
