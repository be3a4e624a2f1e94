----------------------------- MODULE MCExamTabs -----------------------------
EXTENDS ExamTabs

\* Bound: there are other codes and outputs than those of a new task, or
\* other statements, not both.
OneKindOfText ==
    LET texts == {ed} \cup Range(tasks)
    IN  \/ \A t \in texts : t.code = NoCode /\ t.out = NoOut
        \/ dlg.body = NoBody /\ \A t \in texts : t.body = NoBody
=============================================================================
