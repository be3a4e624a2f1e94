------------------------------- MODULE MCGccRun -------------------------------
EXTENDS GccRun, TLC

\* The two threads are alike (used by runs that check invariants only).
Symmetry == Permutations(Callers)

\* The last call overlaps no other one: it is made of what the calls before
\* it, overlapping or not, left in the fields and on disk.
LastAlone == MaxCalls \notin overlapped
===============================================================================
