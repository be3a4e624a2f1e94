------------------------------ MODULE Notebook ------------------------------
(***************************************************************************)
(* What the main window of CEG promises its user, without tabs, indexes,   *)
(* listeners or a buffered editor: an exam is a notebook of pages, one     *)
(* page per task, and exactly one page is open.  Writing changes the open  *)
(* page and no other; turning to another page changes no page at all;      *)
(* pages are added, removed, moved and renamed one at a time.              *)
(*                                                                         *)
(* A page carries what the user sees when it is open: the code, the body   *)
(* (statement, labels and answers, which are saved by the same calls) and  *)
(* the output of the last run.  An output is represented by the code it    *)
(* was produced from.                                                      *)
(***************************************************************************)
EXTENDS Integers, Sequences, SequencesExt

CONSTANTS Codes,    \* contents of the code area
          Bodies,   \* contents of the statement and answer areas
          Titles,   \* names a user may type for a task
          NoOut     \* "no output is shown"

VARIABLES pages,    \* the tasks of the exam, in the order of the tabs
          open,     \* position of the open page, 0 when there is none
          made      \* number of pages ever made

nbVars == <<pages, open, made>>

\* The outputs that may accompany code c: none, or one that c produced.
Fresh(c) == {NoOut, c}

Page == [uid : Nat, name : Nat \cup Titles,
         code : Codes, body : Bodies, out : Codes \cup {NoOut}]

NotebookInit ==
    /\ pages = <<>>
    /\ open = 0
    /\ made = 0

-----------------------------------------------------------------------------

\* Typing, running, editing in the dialog: only the open page changes, and
\* the output on it belongs to the code on it.
Write ==
    /\ open # 0
    /\ \E c \in Codes, b \in Bodies : \E o \in Fresh(c) :
          pages' = [pages EXCEPT ![open] =
                       [@ EXCEPT !.code = c, !.body = b, !.out = o]]
    /\ UNCHANGED <<open, made>>

\* Turning to another page leaves every page as it was.
Turn ==
    /\ \E n \in DOMAIN pages : open' = n
    /\ UNCHANGED <<pages, made>>

AddPage ==
    /\ \E c \in Codes, b \in Bodies :
          pages' = Append(pages, [uid |-> made + 1, name |-> made + 1,
                                  code |-> c, body |-> b, out |-> NoOut])
    /\ open' = Len(pages) + 1
    /\ made' = made + 1

\* The open page goes, some other page (if any is left) is opened.
RemovePage ==
    /\ open # 0
    /\ pages' = RemoveAt(pages, open)
    /\ open' \in IF Len(pages) = 1 THEN {0} ELSE 1 .. Len(pages) - 1
    /\ UNCHANGED made

\* The open page moves and stays open.
MovePage ==
    /\ open # 0
    /\ \E to \in DOMAIN pages :
          /\ pages' = InsertAt(RemoveAt(pages, open), to, pages[open])
          /\ open' = to
    /\ UNCHANGED made

RenamePage ==
    /\ open # 0
    /\ \E t \in Titles : pages' = [pages EXCEPT ![open] = [@ EXCEPT !.name = t]]
    /\ UNCHANGED <<open, made>>

NotebookNext == Write \/ Turn \/ AddPage \/ RemovePage \/ MovePage \/ RenamePage

NotebookSpec == NotebookInit /\ [][NotebookNext]_nbVars

=============================================================================
