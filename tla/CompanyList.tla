---------------------------- MODULE CompanyList ----------------------------
(***************************************************************************)
(* `make update-company-list`: copy the master to its backup, merge the    *)
(* discovered inventory into it (ingest/merge_companies.py), validate it   *)
(* (ingest/validate_companies.py) and project the active rows              *)
(* (ingest/export_companies.py), which the owner pushes to the variable    *)
(* the scheduled ingest reads.                                             *)
(*                                                                         *)
(* The owner edits the master by hand between updates and restores it from *)
(* the backup after one that died over it.  The files are written in place *)
(* and a run may die at any point.  A row's source and board_ref are one   *)
(* board; website and notes, filled alike, are one field that is there or  *)
(* not.  The layout of the file is left out, and with it the order of the  *)
(* rows: a list has one row per company.  MaxUpdates and MaxEdits bound    *)
(* TLC.                                                                    *)
(***************************************************************************)
EXTENDS Integers, Sequences, FiniteSets

CONSTANTS
    Company,      \* companies, by normalized name
    Board,        \* (source, board_ref) pairs
    BadBoard,     \* those whose ref breaks the rule of a registered source
    Inventories,  \* what discovery may have found: sequences of rows
    MaxUpdates,   \* bound: updates started
    MaxEdits      \* bound: rows edited by hand

Row == [company : Company, board : Board, active : BOOLEAN, site : BOOLEAN]

ASSUME BoardAssumption == BadBoard \subseteq Board
ASSUME InventoriesAssumption == \A s \in Inventories : s \in Seq(Row)
ASSUME BoundsAssumption == MaxUpdates \in Nat /\ MaxEdits \in Nat

VARIABLES
    master,     \* rows of config/companies.csv
    backup,     \* rows of config/companies.csv.bak
    incoming,   \* rows of config/discovery/companies_inventory.csv
    merged,     \* rows the merge is building, then about to write
    layered,    \* incoming rows it is through with
    projected,  \* rows of config/companies.active.csv
    variable,   \* rows of COMPANIES_CSV_CONTENT
    step,       \* the step the make target is at
    updates,    \* updates started so far
    edits,      \* rows edited by hand so far
    byHand,     \* observer: the rows as the owner last edited them
    safe,       \* observer: the backup is a whole copy of an intact master
    torn,       \* observer: an update died over the master
    cut         \* observer: the lists that hold a row cut short

files == <<master, backup, projected, variable>>
bounds == <<updates, edits>>
observers == <<byHand, safe, torn, cut>>
merging == <<merged, layered>>
vars == <<files, incoming, merging, step, bounds, observers>>

Steps == {"idle", "copy", "read", "merge", "write", "validate", "project"}

TypeOK ==
    /\ master \in SUBSET Row /\ backup \in SUBSET Row /\ merged \in SUBSET Row
    /\ \A r, s \in master : r.company = s.company => r = s
    /\ projected \in SUBSET Row /\ variable \in SUBSET Row
    /\ incoming \in Inventories /\ layered \in 0..Len(incoming)
    /\ step \in Steps
    /\ updates \in 0..MaxUpdates /\ edits \in 0..MaxEdits
    /\ byHand \in SUBSET Row
    /\ safe \in BOOLEAN /\ torn \in BOOLEAN
    /\ cut \subseteq {"projection", "variable"}

Init ==
    /\ master = {} /\ backup = {} /\ merged = {}
    /\ projected = {} /\ variable = {}
    /\ incoming \in Inventories /\ layered = 0
    /\ step = "idle"
    /\ updates = 0 /\ edits = 0
    /\ byHand = {} /\ safe = FALSE /\ torn = FALSE /\ cut = {}

Of(rows, c) == {r \in rows : r.company = c}

-----------------------------------------------------------------------------
(* The owner.                                                              *)

(* A row added or corrected; a board_ref may well be mistyped.             *)
EditByHand(r) ==
    /\ step = "idle" /\ edits < MaxEdits
    /\ edits' = edits + 1
    /\ master' = (master \ Of(master, r.company)) \cup {r}
    /\ byHand' = (byHand \ Of(byHand, r.company)) \cup {r}
    /\ safe' = FALSE
    /\ UNCHANGED <<backup, projected, variable, incoming, merging, step, updates, torn, cut>>

(* make discover has been run.                                             *)
Discovered ==
    /\ step = "idle"
    /\ incoming' \in Inventories
    /\ UNCHANGED <<files, merging, step, bounds, observers>>

Restore ==
    /\ step = "idle" /\ torn
    /\ master' = backup
    /\ torn' = ~safe
    /\ UNCHANGED <<backup, projected, variable, incoming, merging, step, bounds, byHand, safe, cut>>

(* gh variable set COMPANIES_CSV_CONTENT < config/companies.active.csv     *)
Push ==
    /\ step = "idle"
    /\ variable' = projected
    /\ cut' = IF "projection" \in cut THEN {"projection", "variable"} ELSE {}
    /\ UNCHANGED <<master, backup, projected, incoming, merging, step, bounds, byHand, safe, torn>>

-----------------------------------------------------------------------------
(* The make target.                                                        *)
StartUpdate ==
    /\ step = "idle" /\ updates < MaxUpdates
    /\ updates' = updates + 1
    /\ step' = "copy"
    /\ UNCHANGED <<files, incoming, merging, edits, observers>>

(* cp, whose failure does not stop the target: the backup is what it was,  *)
(* or a part of the master.                                                *)
Copied_Nothing == backup
Copied == master

Copy ==
    /\ step = "copy"
    /\ \/ backup' = Copied /\ safe' = ~torn
       \/ backup' \in SUBSET master /\ safe' = FALSE
       \/ UNCHANGED <<backup, safe>>
    /\ step' = "read"
    /\ UNCHANGED <<master, projected, variable, incoming, merging, bounds, byHand, torn, cut>>

(* merge(): a company that is not in the list is added; of one that is,    *)
(* only a blank field is filled.  Where its board lives, and whether it is *)
(* active, stays as the master has it: a conflict is only reported.        *)
Layer_DiscoveryWins(rows, new) == (rows \ Of(rows, new.company)) \cup {new}
Layer_ByBoard(rows, new) ==
    IF \A r \in Of(rows, new.company) : r.board # new.board THEN rows \cup {new} ELSE rows
Layer(rows, new) ==
    IF Of(rows, new.company) = {}
      THEN rows \cup {new}
      ELSE {IF r.company = new.company THEN [r EXCEPT !.site = @ \/ new.site] ELSE r : r \in rows}

(* main() reads both lists ...                                             *)
Read ==
    /\ step = "read"
    /\ merged' = master /\ layered' = 0
    /\ step' = "merge"
    /\ UNCHANGED <<files, incoming, bounds, observers>>

(* ... layers the rows found under the master's, in their order ...        *)
Merge ==
    /\ step = "merge" /\ layered < Len(incoming)
    /\ layered' = layered + 1
    /\ merged' = Layer(merged, incoming[layered'])
    /\ UNCHANGED <<files, incoming, step, bounds, observers>>

(* ... and opens the master to write it, which empties it.                 *)
OpenMaster ==
    /\ step = "merge" /\ layered = Len(incoming)
    /\ master' = {}
    /\ step' = "write"
    /\ UNCHANGED <<backup, projected, variable, incoming, merging, bounds, observers>>

WriteMaster ==
    /\ step = "write"
    /\ master' = merged
    /\ merged' = {} /\ layered' = 0
    /\ step' = "validate"
    /\ UNCHANGED <<backup, projected, variable, incoming, bounds, observers>>

(* A bad ref of an active row is a problem; of an inactive one, a notice.  *)
Problems_Inactive(rows) == {r \in rows : ~r.active /\ r.board \in BadBoard}
Problems(rows) == {r \in rows : r.active /\ r.board \in BadBoard}

(* The target stops at a problem.  Going on, the shell opens the           *)
(* projection, and so empties it, before the exporter runs.                *)
Validate ==
    /\ step = "validate"
    /\ IF Problems(master) = {}
         THEN step' = "project" /\ projected' = {} /\ cut' = cut \ {"projection"}
         ELSE step' = "idle" /\ UNCHANGED <<projected, cut>>
    /\ UNCHANGED <<master, backup, variable, incoming, merging, bounds, byHand, safe, torn>>

Active(rows) == {r \in rows : r.active}

Project ==
    /\ step = "project"
    /\ projected' = Active(master)
    /\ step' = "idle"
    /\ UNCHANGED <<master, backup, variable, incoming, merging, bounds, observers>>

(* What a row of the projection says when the file ends in the middle of   *)
(* it: the columns that are missing are blank, so a row may lose its       *)
(* website, or be inactive, whatever is left of its ref.  One with no ref  *)
(* at all is malformed and fails the run that reads it, as a bad ref does. *)
Cut(r) ==
    {[r EXCEPT !.site = FALSE], [r EXCEPT !.active = FALSE, !.site = FALSE]}
    \cup {[r EXCEPT !.board = b] : b \in BadBoard}

(* The update dies.  Of a file being written any part may be there.        *)
DieCopying ==
    /\ step = "copy"
    /\ \/ backup' \in SUBSET master /\ safe' = FALSE
       \/ UNCHANGED <<backup, safe>>
    /\ UNCHANGED <<master, projected, torn, cut>>

DieWriting ==
    /\ step = "write"
    /\ master' \in SUBSET merged
    /\ torn' = TRUE
    /\ UNCHANGED <<backup, projected, safe, cut>>

DieProjecting ==
    /\ step = "project"
    /\ \E rows \in SUBSET Active(master) :
          \/ projected' = rows /\ UNCHANGED cut
          \/ \E r \in Active(master) \ rows : \E c \in Cut(r) :
                projected' = rows \cup {c} /\ cut' = cut \cup {"projection"}
    /\ UNCHANGED <<master, backup, safe, torn>>

Die ==
    /\ \/ DieCopying \/ DieWriting \/ DieProjecting
       \/ /\ step \in {"read", "merge", "validate"}
          /\ UNCHANGED <<master, backup, projected, safe, torn, cut>>
    /\ step' = "idle"
    /\ merged' = {} /\ layered' = 0
    /\ UNCHANGED <<variable, incoming, bounds, byHand>>

Update ==
    \/ StartUpdate \/ Copy \/ Read \/ Merge \/ OpenMaster \/ WriteMaster
    \/ Validate \/ Project \/ Die

Next ==
    \/ Update \/ Discovered \/ Restore \/ Push
    \/ \E r \in Row : EditByHand(r)

Spec == Init /\ [][Next]_vars
-----------------------------------------------------------------------------
(* The list says of a company what the owner said last: the same board,    *)
(* as active, and a website if one was given.                              *)
Keeps(rows, h) ==
    \E r \in rows : /\ r.company = h.company /\ r.board = h.board
                    /\ r.active = h.active /\ (h.site => r.site)

(* The master always wins: no number of updates, with whatever discovery   *)
(* found, undoes what was edited by hand, as long as no update died while  *)
(* it wrote the master.                                                    *)
MasterWins == step = "write" \/ torn \/ \A h \in byHand : Keeps(master, h)

(* And when one died there, nothing is lost for good while the backup was  *)
(* taken in full from an intact master.                                    *)
EditsRecoverable ==
    (step = "write" \/ torn) /\ safe => \A h \in byHand : Keeps(backup, h)

(* After a merge every company discovered is in the list, once, and the    *)
(* same inventory would change nothing more.                               *)
MergeSettles ==
    step = "validate" =>
        \A i \in DOMAIN incoming :
            /\ Cardinality(Of(master, incoming[i].company)) = 1
            /\ Layer(master, incoming[i]) = master

(* What reaches the variable is fit for the scheduled run: only companies  *)
(* that are to be fetched, and no ref that would fail it before the first  *)
(* fetch, whatever was mistyped and wherever an update died, but for a     *)
(* projection that was cut in the middle of a row.                         *)
PushedListIsFit ==
    "variable" \notin cut => \A r \in variable : r.active /\ r.board \notin BadBoard
=============================================================================
