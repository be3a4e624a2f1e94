-------------------------- MODULE MCExamCompilation --------------------------
EXTENDS ExamCompilation
=============================================================================
