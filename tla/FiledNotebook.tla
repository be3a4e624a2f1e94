--------------------------- MODULE FiledNotebook ---------------------------
(***************************************************************************)
(* The notebook of Notebook.tla and one file beside it.  Saving writes     *)
(* what the user sees, all pages or the open one, and changes no page.     *)
(* Loading an exam puts the pages of the file in the place of those of the *)
(* notebook, loading a task adds a page; a file that cannot be read        *)
(* changes nothing.                                                        *)
(***************************************************************************)
EXTENDS Notebook

CONSTANT NoFile     \* nothing was saved, or the file cannot be read

VARIABLE file       \* [exam, pages, made], or NoFile

fnVars == <<nbVars, file>>

FiledInit == NotebookInit /\ file = NoFile

-----------------------------------------------------------------------------

StoreExam ==
    /\ file' = [exam |-> TRUE, pages |-> pages, made |-> made]
    /\ UNCHANGED nbVars

\* A page in a file of its own has no name.
StorePage ==
    /\ open # 0
    /\ file' = [exam |-> FALSE, pages |-> <<[pages[open] EXCEPT !.name = 0]>>, made |-> 0]
    /\ UNCHANGED nbVars

\* Writing was interrupted.
Spoil ==
    /\ file' = NoFile
    /\ UNCHANGED nbVars

\* All pages come back with their names and in their order; the output of the
\* first one, which is opened, may be lost.
RestoreExam ==
    /\ file # NoFile
    /\ file.exam
    /\ \E o \in {NoOut, file.pages[1].out} :
          pages' = [file.pages EXCEPT ![1] = [@ EXCEPT !.out = o]]
    /\ open' = 1
    /\ made' = file.made
    /\ UNCHANGED file

\* The page comes back under a new name, with its output.
RestorePage ==
    /\ file # NoFile
    /\ ~file.exam
    /\ pages' = Append(pages, [file.pages[1] EXCEPT !.uid = made + 1, !.name = made + 1])
    /\ open' = Len(pages) + 1
    /\ made' = made + 1
    /\ UNCHANGED file

\* A file may hold an output beside a code that did not produce it, when a
\* context menu move had put the window out of step.  It stays beside that
\* code as long as the code stays.
Annotate ==
    /\ open # 0
    /\ \E b \in Bodies : pages' = [pages EXCEPT ![open] = [@ EXCEPT !.body = b]]
    /\ UNCHANGED <<open, made, file>>

\* A new notebook beside the old file.
StartAnew ==
    /\ NotebookInit'
    /\ UNCHANGED file

FiledNext ==
    \/ NotebookNext /\ UNCHANGED file
    \/ Annotate \/ StartAnew
    \/ StoreExam \/ StorePage \/ Spoil \/ RestoreExam \/ RestorePage

=============================================================================
