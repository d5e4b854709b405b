------------------------------- MODULE Ingest -------------------------------
(***************************************************************************)
(* One `make ingest` (ingest/pipeline.py): provision, load the company     *)
(* list, fetch every board on a pool of threads, land on the main thread,  *)
(* tally each source, record the run, summarise, exit.                     *)
(*                                                                         *)
(* What the list holds is chosen at the start: the active boards, and      *)
(* those whose board_ref is malformed.  A fetch returns a number of        *)
(* postings or fails; which postings is left to Workflow, the pace of the  *)
(* requests to RateLimiter.  The program goes through sources and boards   *)
(* in the order of the registry and the list; any order is allowed here.   *)
(* Provisioning and every write to the warehouse may raise, a write before *)
(* or after it took effect, and the disk may refuse the summary or cut it. *)
(* A runner that dies is Workflow's Abort.                                 *)
(***************************************************************************)
EXTENDS Integers, FiniteSets, FiniteSetsExt

CONSTANTS
    Source,      \* SOURCES, the active ones
    Board,       \* boards the list may name
    SourceOf,    \* [Board -> Source]
    Worker,      \* threads of the fetch pool
    Nothing,     \* no board in a worker's hands
    MaxRows,     \* bound: postings of one board
    LowVolume    \* low_volume_threshold

ASSUME SourceOfAssumption == SourceOf \in [Board -> Source]
ASSUME FiniteAssumption == IsFiniteSet(Source) /\ Source # {} /\ IsFiniteSet(Board)
ASSUME PoolAssumption == Worker # {} /\ Nothing \notin Board
ASSUME RowsAssumption == MaxRows \in Nat /\ LowVolume \in Nat

VARIABLES
    listed,        \* active boards of the company list
    malformed,     \* listed boards whose ref does not parse
    phase,         \* where the main thread is
    loaded,        \* sources whose companies are read
    unconfigured,  \* of these, the ones without an active company
    queue,         \* boards the pool has not taken up
    busy,          \* the board each worker is fetching
    results,       \* what the fetches returned
    landed,        \* results the main thread is through with
    raw,           \* rows this run added to the raw tables, per board
    runs,          \* IngestRun of each source tallied so far
    ops,           \* rows of the run in ops.ingest_runs
    summary,       \* the summary on disk: a set of at most one
    exit           \* the exit code: a set of at most one

listVars == <<listed, malformed>>
fetchVars == <<queue, busy, results>>
warehouse == <<raw, ops>>
outVars == <<summary, exit>>
vars == <<listVars, phase, loaded, unconfigured, fetchVars, landed, runs, warehouse, outVars>>

Phase == {"ensure", "load", "fetch", "land", "record", "finalize", "over"}
Result == [board : Board, error : BOOLEAN, postings : 0..MaxRows]
Run == [source : Source, boards : SUBSET Board, rows : Nat,
        status : {"ok", "error"}, failed : SUBSET Board]
Summary == [whole : BOOLEAN, pipeline : BOOLEAN, failures : SUBSET Source, warnings : SUBSET Source,
            unconfigured : SUBSET Source, skipped : SUBSET Board, sources : SUBSET Source]
           \* whole: the file was written to its end

TypeOK ==
    /\ listed \in SUBSET Board
    /\ malformed \in SUBSET Board
    /\ phase \in Phase
    /\ loaded \in SUBSET Source
    /\ unconfigured \in SUBSET Source
    /\ queue \in SUBSET Board
    /\ busy \in [Worker -> Board \cup {Nothing}]
    /\ results \in SUBSET Result
    /\ landed \in SUBSET Result
    /\ raw \in [Board -> Nat]
    /\ runs \in SUBSET Run
    /\ ops \in SUBSET Run
    /\ summary \in SUBSET Summary
    /\ exit \in SUBSET {0, 1}

Init ==
    /\ listed \in SUBSET Board
    /\ malformed \in SUBSET listed
    /\ phase = "ensure"
    /\ loaded = {} /\ unconfigured = {}
    /\ queue = {} /\ results = {} /\ landed = {}
    /\ busy = [w \in Worker |-> Nothing]
    /\ raw = [b \in Board |-> 0]
    /\ runs = {} /\ ops = {}
    /\ summary = {} /\ exit = {}

(* The active companies of a source, and the results of their fetches.     *)
Companies(s) == {b \in listed : SourceOf[b] = s}
ResultsOf(s) == {x \in results : SourceOf[x.board] = s}
FailedBoards(s) == {x.board : x \in {x \in ResultsOf(s) : x.error}}
ResultOf(b) == CHOOSE x \in results : x.board = b

-----------------------------------------------------------------------------
EnsureTables ==
    /\ phase = "ensure"
    /\ phase' = "load"
    /\ UNCHANGED <<listVars, loaded, unconfigured, fetchVars, landed, runs, warehouse, outVars>>

(* load_companies(s): a malformed ref of s raises (see Raise).             *)
Loadable_IgnoresRefs(s) == TRUE
Loadable(s) == Companies(s) \cap malformed = {}

LoadCompanies(s) ==
    /\ phase = "load" /\ s \notin loaded /\ Loadable(s)
    /\ loaded' = loaded \cup {s}
    /\ unconfigured' = IF Companies(s) = {} THEN unconfigured \cup {s} ELSE unconfigured
    /\ UNCHANGED <<listVars, phase, fetchVars, landed, runs, warehouse, outVars>>

(* _fetch_all: all boards of all sources go to one pool.                   *)
Submit ==
    /\ phase = "load" /\ loaded = Source
    /\ queue' = {b \in Board : \E s \in Source : b \in Companies(s)}
    /\ phase' = "fetch"
    /\ UNCHANGED <<listVars, loaded, unconfigured, busy, results, landed, runs,
                   warehouse, outVars>>

Take(w) ==
    /\ phase = "fetch" /\ busy[w] = Nothing
    /\ \E b \in queue :
         /\ busy' = [busy EXCEPT ![w] = b]
         /\ queue' = queue \ {b}
    /\ UNCHANGED <<listVars, phase, loaded, unconfigured, results, landed, runs,
                   warehouse, outVars>>

(* _fetch_board: postings, or whatever the adapter raised, as a result.    *)
Outcome(b) ==
    {[board |-> b, error |-> FALSE, postings |-> n] : n \in 0..MaxRows}
        \cup {[board |-> b, error |-> TRUE, postings |-> 0]}

FetchBoard(w) ==
    /\ busy[w] # Nothing
    /\ \E x \in Outcome(busy[w]) : results' = results \cup {x}
    /\ busy' = [busy EXCEPT ![w] = Nothing]
    /\ UNCHANGED <<listVars, phase, loaded, unconfigured, queue, landed, runs,
                   warehouse, outVars>>

(* The pool is left when every future is done.                             *)
PoolDone_NoWait == queue = {}
PoolDone == queue = {} /\ \A w \in Worker : busy[w] = Nothing

Collect ==
    /\ phase = "fetch" /\ PoolDone
    /\ phase' = "land"
    /\ UNCHANGED <<listVars, loaded, unconfigured, fetchVars, landed, runs,
                   warehouse, outVars>>

(* storage.land of one board's postings; a failed board has none.          *)
Land(x) ==
    /\ phase = "land" /\ x \in results \ landed
    /\ landed' = landed \cup {x}
    /\ raw' = [raw EXCEPT ![x.board] = @ + x.postings]
    /\ UNCHANGED <<listVars, phase, loaded, unconfigured, fetchVars, runs, ops, outVars>>

Status_Lenient(s) == "ok"
Status(s) == IF FailedBoards(s) = Companies(s) THEN "error" ELSE "ok"

(* What land returned, added up over the boards of s.                      *)
RowsOf_LastBoard(s) == Max({0} \cup {x.postings : x \in ResultsOf(s)})
RowsOf(s) == SumFunction([b \in Companies(s) |-> ResultOf(b).postings])

TallySource(s) ==
    /\ phase = "land" /\ Companies(s) # {}
    /\ ResultsOf(s) \subseteq landed
    /\ \A u \in runs : u.source # s
    /\ runs' = runs \cup
         {[source |-> s, boards |-> Companies(s), rows |-> RowsOf(s),
           status |-> Status(s), failed |-> FailedBoards(s)]}
    /\ UNCHANGED <<listVars, phase, loaded, unconfigured, fetchVars, landed,
                   warehouse, outVars>>

ToTally_EverySource == Source
ToTally == {s \in Source : Companies(s) # {}}

AllTallied ==
    /\ phase = "land"
    /\ \A s \in ToTally : \E u \in runs : u.source = s
    /\ phase' = "record"
    /\ UNCHANGED <<listVars, loaded, unconfigured, fetchVars, landed, runs,
                   warehouse, outVars>>

(* storage.land_runs: the tallies in one write, none for an empty list.    *)
LandRuns ==
    /\ phase = "record"
    /\ ops' = runs
    /\ phase' = "finalize"
    /\ UNCHANGED <<listVars, loaded, unconfigured, fetchVars, landed, runs, raw, outVars>>

-----------------------------------------------------------------------------
Failures == {u.source : u \in {u \in runs : u.status = "error"}}
Warnings == {u.source : u \in {u \in runs : u.status = "ok" /\ u.rows < LowVolume}}

(* The boards that failed while their source stayed ok.                    *)
Skipped_Silent == {}
Skipped == UNION {u.failed : u \in {u \in runs : u.status = "ok"}}

(* _write_summary: an OSError is logged, and the file is not there or has  *)
(* been cut, down to nothing: write_text truncates it first.               *)
Write(content) == summary' \in {{}, {content}, {[content EXCEPT !.whole = FALSE]}}

ExitCode_ByWarnings == IF Failures \cup Warnings # {} THEN 1 ELSE 0
ExitCode == IF Failures # {} THEN 1 ELSE 0

Finalize ==
    /\ phase = "finalize"
    /\ Write([whole |-> TRUE, pipeline |-> FALSE, failures |-> Failures,
              warnings |-> Warnings, unconfigured |-> unconfigured, skipped |-> Skipped,
              sources |-> {u.source : u \in runs}])
    /\ exit' = {ExitCode}
    /\ phase' = "over"
    /\ UNCHANGED <<listVars, loaded, unconfigured, fetchVars, landed, runs, warehouse>>

(* run()'s handler: provisioning, the list, a write of postings or that of *)
(* the tallies raised.  A write is waited for after it was submitted, so   *)
(* it may raise with its rows in the table.  The summary names no source,  *)
(* only __pipeline__.                                                      *)
Raise ==
    /\ \/ /\ \/ phase = "ensure"
             \/ phase = "load" /\ \E s \in Source \ loaded : ~Loadable(s)
          /\ UNCHANGED warehouse
       \/ /\ phase = "land"
          /\ \E x \in results \ landed :
               x.postings > 0 /\ raw' \in {raw, [raw EXCEPT ![x.board] = @ + x.postings]}
          /\ UNCHANGED ops
       \/ /\ phase = "record" /\ runs # {}
          /\ ops' \in {ops, runs}
          /\ UNCHANGED raw
    /\ Write([whole |-> TRUE, pipeline |-> TRUE, failures |-> {}, warnings |-> {},
              unconfigured |-> {}, skipped |-> {}, sources |-> {}])
    /\ exit' = {1}
    /\ phase' = "over"
    /\ UNCHANGED <<listVars, loaded, unconfigured, fetchVars, landed, runs>>

Main ==
    \/ EnsureTables \/ Submit \/ Collect \/ AllTallied \/ LandRuns \/ Finalize \/ Raise
    \/ \E s \in Source : LoadCompanies(s) \/ TallySource(s)
    \/ \E x \in results : Land(x)

Fetcher(w) == Take(w) \/ FetchBoard(w)

Next == Main \/ \E w \in Worker : Fetcher(w)

Spec == Init /\ [][Next]_vars

(* The main thread and every worker go on: a fetch ends, by an answer or   *)
(* by a timeout after its last retry.                                      *)
FairSpec == Spec /\ WF_vars(Main) /\ \A w \in Worker : WF_vars(Fetcher(w))
-----------------------------------------------------------------------------
(* No board is fetched twice and none is forgotten: once the pool is left  *)
(* every listed board has its one result, whichever thread took it.        *)
OneResultPerBoard ==
    phase \in {"land", "record", "finalize"} =>
        \A b \in listed : \E x \in results :
            x.board = b /\ \A y \in results : y.board = b => y = x

(* A success means what it says: every source with a board in the list     *)
(* fetched one, and every posting fetched is in the warehouse, counted in  *)
(* the run's row of its source.                                            *)
SuccessIsComplete ==
    exit = {0} =>
        /\ \A s \in Source : Companies(s) # {} =>
              \E x \in results : x.board \in Companies(s) /\ ~x.error
        /\ \A x \in results : raw[x.board] = x.postings
        /\ \A s \in Source : Companies(s) # {} => \E u \in ops : u.source = s

(* ops.ingest_runs agrees with the raw tables about the run.               *)
OpsAgreesWithRaw ==
    \A u \in ops : u.rows = SumFunction([b \in u.boards |-> raw[b]])

(* The digest's footer says "healthy" on a summary with nothing to report: *)
(* then every registered source ran and every board of the list landed.    *)
(* (Of a summary cut short there is no footer: the digest raises on it.)   *)
Quiet(m) ==
    /\ m.whole /\ ~m.pipeline /\ m.failures = {} /\ m.warnings = {}
    /\ m.unconfigured = {} /\ m.skipped = {}

HealthyMeansComplete ==
    \A m \in summary : Quiet(m) =>
        /\ m.sources = Source
        /\ \A b \in listed : \E x \in results : x.board = b /\ ~x.error

(* A run is as good as a single-threaded one (module Batch): to the        *)
(* warehouse and the exit code it looks as if all boards were fetched when *)
(* the pool is left.                                                       *)
Fetched ==
    IF phase \in {"ensure", "load", "fetch"} \/ loaded # Source THEN {}
    ELSE {[b \in listed |-> [error |-> ResultOf(b).error, postings |-> ResultOf(b).postings]]}

AsBatch == INSTANCE Batch WITH
    list <- listed,
    bad <- malformed,
    fetched <- Fetched,
    stored <- raw,
    recorded <- ops,
    verdict <- exit

RunIsABatch == AsBatch!Spec

(* A list with a malformed ref fails before anything is fetched.           *)
BadListFetchesNothing ==
    malformed # {} => queue = {} /\ results = {} /\ \A w \in Worker : busy[w] = Nothing

(* The run comes to an exit code.                                          *)
RunExits == <>(exit # {})
=============================================================================
