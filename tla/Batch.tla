-------------------------------- MODULE Batch --------------------------------
(***************************************************************************)
(* What one `make ingest` promises to the steps and the runs after it,     *)
(* without threads, phases or an order of boards: all boards of a good     *)
(* list are fetched at one moment, what each returned is stored at most    *)
(* once, the tallies of all sources are recorded in one write and only     *)
(* when everything is stored, and the verdict is that of the outcomes.     *)
(* Before the record the run may be given up, with what is stored by then; *)
(* its last write may have been made.                                      *)
(* Ingest implements it (Ingest!RunIsABatch).                              *)
(***************************************************************************)
EXTENDS Integers, Functions

CONSTANTS Source, Board, SourceOf, MaxRows

VARIABLES
    list,      \* the boards to fetch
    bad,       \* those that cannot be read from the list
    fetched,   \* the outcome of every board: a set of at most one
    stored,    \* rows stored, per board
    recorded,  \* the record of the run
    verdict    \* the exit code: a set of at most one

Outcomes == {o \in [error : BOOLEAN, postings : 0..MaxRows] : o.error => o.postings = 0}

Init ==
    /\ list \in SUBSET Board /\ bad \in SUBSET list
    /\ fetched = {} /\ stored = [b \in Board |-> 0]
    /\ recorded = {} /\ verdict = {}

(* What the outcomes f say of a source that has boards.                    *)
BoardsOf(s) == {b \in list : SourceOf[b] = s}
Failed(f, s) == {b \in BoardsOf(s) : f[b].error}
Dark(f, s) == Failed(f, s) = BoardsOf(s)
Tally(f, s) ==
    [source |-> s, boards |-> BoardsOf(s),
     rows |-> SumFunction([b \in BoardsOf(s) |-> f[b].postings]),
     status |-> IF Dark(f, s) THEN "error" ELSE "ok", failed |-> Failed(f, s)]
Ran == {s \in Source : BoardsOf(s) # {}}
Report(f) == {Tally(f, s) : s \in Ran}

FetchAll ==
    /\ fetched = {} /\ bad = {}
    /\ \E f \in [list -> Outcomes] : fetched' = {f}
    /\ UNCHANGED <<list, bad, stored, recorded, verdict>>

(* The write of one board's rows, and that of the record.                  *)
Rows(b) ==
    /\ stored[b] = 0 /\ recorded = {}
    /\ \E f \in fetched : stored' = [stored EXCEPT ![b] = f[b].postings]
    /\ UNCHANGED recorded

Tallies ==
    /\ recorded = {}
    /\ \E f \in fetched :
         /\ \A b \in list : stored[b] = f[b].postings
         /\ recorded' = Report(f)
    /\ UNCHANGED stored

Store(b) == Rows(b) /\ UNCHANGED <<list, bad, fetched, verdict>>

Record == Tallies /\ UNCHANGED <<list, bad, fetched, verdict>>

Conclude ==
    /\ \E f \in fetched :
         /\ recorded = Report(f)
         /\ verdict' = {IF \E s \in Ran : Dark(f, s) THEN 1 ELSE 0}
    /\ UNCHANGED <<list, bad, fetched, stored, recorded>>

GiveUp ==
    /\ recorded = {}
    /\ verdict' = {1}
    /\ UNCHANGED <<stored, recorded>> \/ (\E b \in list : Rows(b)) \/ Tallies
    /\ UNCHANGED <<list, bad, fetched>>

Next == verdict = {} /\ (FetchAll \/ (\E b \in list : Store(b)) \/ Record \/ Conclude \/ GiveUp)

Spec == Init /\ [][Next]_<<list, bad, fetched, stored, recorded, verdict>>
=============================================================================
