---------------------------- MODULE MCTaskAnswers ----------------------------
EXTENDS TaskAnswers

P(type, lines) == [type |-> type, lines |-> lines]

\* A program that prints two lines and has a gap, one that does not compile
\* (the errors are in its first and in its last printed line, after a line
\* that is not printed, one that is not compiled and a part without lines),
\* and one that prints nothing.
MCCodes ==
    {[parts |-> <<P("none", 1), P("gap", 1)>>, errors |-> <<>>, prints |-> 2],
     [parts |-> <<P("hidden", 1), P("test", 1), P("none", 0), P("gap", 2)>>,
      errors |-> <<2, 3>>, prints |-> 0],
     [parts |-> <<P("none", 1)>>, errors |-> <<>>, prints |-> 0]}
MCNoCode == [parts |-> <<>>, errors |-> <<>>, prints |-> 0]
=============================================================================
