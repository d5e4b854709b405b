---------------------------- MODULE Ingest_proofs ----------------------------
(* Proofs about Ingest, for any sources, boards, threads and postings:     *)
(* what the pool returns, what a success and a healthy summary mean, that  *)
(* ops.ingest_runs agrees with the raw tables, that a list with a          *)
(* malformed ref fetches nothing, and that every step, whichever thread    *)
(* takes it, brings the run nearer to its end.                             *)
EXTENDS Ingest, FiniteSetTheorems, NaturalsInduction, WellFoundedInduction, TLAPS

(* The types of what the properties here read.                             *)
Types ==
    /\ listed \in SUBSET Board /\ malformed \in SUBSET listed
    /\ phase \in Phase
    /\ loaded \in SUBSET Source /\ unconfigured \in SUBSET Source
    /\ queue \in SUBSET Board
    /\ busy \in [Worker -> Board \cup {Nothing}]
    /\ results \in SUBSET Result /\ \A x \in results : x.error => x.postings = 0
    /\ landed \in SUBSET results
    /\ raw \in [Board -> Nat]

(* A listed board is in the queue, in one worker's hands or has its one    *)
(* result, and never in two of these.                                      *)
OnePlace ==
    /\ \A b \in queue : /\ b \in listed
                        /\ \A w \in Worker : busy[w] # b
                        /\ \A x \in results : x.board # b
    /\ \A w \in Worker : busy[w] # Nothing =>
           /\ busy[w] \in listed
           /\ \A x \in results : x.board # busy[w]
           /\ \A v \in Worker : busy[v] = busy[w] => v = w
    /\ \A x \in results : x.board \in listed
    /\ \A x, y \in results : x.board = y.board => x = y
Held(b) == \/ b \in queue
           \/ \E w \in Worker : busy[w] = b
           \/ \E x \in results : x.board = b

(* The pool works in its own phase, on a list that was read to its end.    *)
PoolInv ==
    /\ phase \in {"ensure", "load"} => results = {}
    /\ phase = "ensure" => loaded = {}
    /\ phase # "fetch" => queue = {} /\ \A w \in Worker : busy[w] = Nothing
    /\ phase \in {"fetch", "land", "record", "finalize"} => \A b \in listed : Held(b)
    /\ phase \notin {"ensure", "load", "over"} \/ results # {} => loaded = Source
    /\ \A s \in loaded : Loadable(s) /\ (Companies(s) = {} => s \in unconfigured)

(* A board's rows are those of its result, from its landing on (or from a  *)
(* write that ended the run after it took effect); a tally is              *)
(* made of the results of its source, one for each of its boards and all   *)
(* of them landed.                                                         *)
Tallied(u) ==
    /\ u.source \in Source /\ Companies(u.source) # {}
    /\ ResultsOf(u.source) \subseteq landed
    /\ \A b \in Companies(u.source) : \E x \in results : x.board = b
    /\ u.boards = Companies(u.source)
    /\ u.rows = RowsOf(u.source)
    /\ u.status = Status(u.source)
    /\ u.failed = FailedBoards(u.source)
LandInv ==
    /\ phase \in {"ensure", "load", "fetch"} => landed = {} /\ runs = {}
    /\ phase \notin {"finalize", "over"} => ops = {}
    /\ \A x \in landed : raw[x.board] = x.postings
    /\ phase # "over" => \A b \in Board : (\A x \in landed : x.board # b) => raw[b] = 0
    /\ \A u \in runs : Tallied(u)
    /\ ops \subseteq runs

(* What the run knows when it comes to the summary, and what it wrote.     *)
Finished == phase = "finalize" \/ exit = {0} \/ \E m \in summary : ~m.pipeline
Content == [whole |-> TRUE, pipeline |-> FALSE, failures |-> Failures,
            warnings |-> Warnings, unconfigured |-> unconfigured, skipped |-> Skipped,
            sources |-> {u.source : u \in runs}]
EndInv ==
    /\ phase # "over" => exit = {} /\ summary = {}
    /\ phase = "record" \/ Finished =>
           /\ loaded = Source
           /\ \A b \in listed : \E x \in results : x.board = b
           /\ \A s \in ToTally : \E u \in runs : u.source = s
    /\ Finished => ops = runs
    /\ exit = {0} => Failures = {}
    /\ \A m \in summary : m.pipeline \/ ~m.whole \/ m = Content

RunInv == Types /\ OnePlace /\ PoolInv /\ LandInv /\ EndInv

-----------------------------------------------------------------------------
(* An action by what it leaves alone.                                      *)
LEMMA StepCases ==
    ASSUME Next
    PROVE  \/ EnsureTables \/ Submit \/ Collect \/ AllTallied \/ LandRuns \/ Finalize \/ Raise
           \/ \E s \in Source : LoadCompanies(s)
           \/ \E s \in Source : TallySource(s)
           \/ \E x \in results : Land(x)
           \/ \E w \in Worker : Take(w)
           \/ \E w \in Worker : FetchBoard(w)
BY DEF Next, Main, Fetcher

LEMMA TypesStep == Types /\ [Next]_vars => Types'
<1> SUFFICES ASSUME Types, [Next]_vars PROVE Types'
  OBVIOUS
<1> USE DEF Types, listVars, fetchVars, warehouse, outVars, Phase
<1>1. CASE EnsureTables \/ Submit \/ Collect \/ AllTallied
  BY <1>1 DEF EnsureTables, Submit, Collect, AllTallied
<1>2. CASE LandRuns \/ Finalize \/ Raise
  <2>1. \A x \in results : x.board \in Board /\ x.postings \in Nat
    BY RowsAssumption DEF Result
  <2>2. raw' \in [Board -> Nat]
    BY <1>2, <2>1 DEF LandRuns, Finalize, Raise
  <2> QED BY <1>2, <2>2 DEF LandRuns, Finalize, Raise
<1>3. ASSUME NEW s \in Source, LoadCompanies(s) PROVE Types'
  BY <1>3 DEF LoadCompanies
<1>4. ASSUME NEW s \in Source, TallySource(s) PROVE Types'
  BY <1>4 DEF TallySource
<1>5. ASSUME NEW x \in results, Land(x) PROVE Types'
  <2>1. x.board \in Board /\ x.postings \in Nat
    BY RowsAssumption DEF Result
  <2> QED BY <1>5, <2>1 DEF Land
<1>6. ASSUME NEW w \in Worker, Take(w) PROVE Types'
  BY <1>6 DEF Take
<1>7. ASSUME NEW w \in Worker, FetchBoard(w) PROVE Types'
  <2>1. busy[w] \in Board
    BY <1>7 DEF FetchBoard
  <2>2. ASSUME NEW x \in Outcome(busy[w]) PROVE x \in Result /\ (x.error => x.postings = 0)
    <3>1. 0 \in 0..MaxRows
      BY RowsAssumption
    <3>2. CASE \E n \in 0..MaxRows : x = [board |-> busy[w], error |-> FALSE, postings |-> n]
      BY <2>1, <3>2 DEF Result
    <3>3. CASE x = [board |-> busy[w], error |-> TRUE, postings |-> 0]
      BY <2>1, <3>1, <3>3 DEF Result
    <3> QED BY <3>2, <3>3 DEF Outcome
  <2> QED BY <1>7, <2>2 DEF FetchBoard
<1>8. CASE UNCHANGED vars
  BY <1>8 DEF vars
<1> QED BY <1>1, <1>2, <1>3, <1>4, <1>5, <1>6, <1>7, <1>8, StepCases

(* The board of what a fetch returned.                                     *)
LEMMA OutcomeBoard == \A b, x : x \in Outcome(b) => x.board = b
BY DEF Outcome

(* The boards move from the queue to a worker and from it to the results.  *)
LEMMA PoolStep ==
    ASSUME Types, OnePlace, PoolInv, [Next]_vars
    PROVE  OnePlace' /\ PoolInv'
<1> USE DEF Types, listVars, fetchVars, warehouse, outVars
<1>1. CASE EnsureTables
  BY <1>1 DEF EnsureTables, OnePlace, PoolInv, Held, Loadable, Companies
<1>2. CASE Submit
  <2>1. queue' = listed
    BY <1>2, SourceOfAssumption DEF Submit, Companies
  <2>2. results = {} /\ \A w \in Worker : busy[w] = Nothing
    BY <1>2 DEF Submit, PoolInv
  <2> QED BY <1>2, <2>1, <2>2, PoolAssumption
          DEF Submit, OnePlace, PoolInv, Held, Loadable, Companies
<1>3. CASE Collect
  BY <1>3, PoolAssumption DEF Collect, PoolDone, OnePlace, PoolInv, Held, Loadable, Companies
<1>4. CASE AllTallied \/ LandRuns
  BY <1>4 DEF AllTallied, LandRuns, OnePlace, PoolInv, Held, Loadable, Companies
<1>5. CASE Finalize \/ Raise
  <2>1. phase' = "over" /\ UNCHANGED <<listVars, loaded, unconfigured, fetchVars>> /\ phase # "fetch"
    BY <1>5 DEF Finalize, Raise
  <2> QED BY <2>1 DEF OnePlace, PoolInv, Held, Loadable, Companies
<1>6. ASSUME NEW s \in Source, LoadCompanies(s) PROVE OnePlace' /\ PoolInv'
  BY <1>6 DEF LoadCompanies, OnePlace, PoolInv, Held, Loadable, Companies
<1>7. ASSUME NEW s \in Source, TallySource(s) PROVE OnePlace' /\ PoolInv'
  BY <1>7 DEF TallySource, OnePlace, PoolInv, Held, Loadable, Companies
<1>8. ASSUME NEW x \in results, Land(x) PROVE OnePlace' /\ PoolInv'
  BY <1>8 DEF Land, OnePlace, PoolInv, Held, Loadable, Companies
<1>9. ASSUME NEW w \in Worker, Take(w) PROVE OnePlace' /\ PoolInv'
  <2>1. PICK b \in queue : busy' = [busy EXCEPT ![w] = b] /\ queue' = queue \ {b}
    BY <1>9 DEF Take
  <2>2. busy[w] = Nothing /\ b \in Board /\ b # Nothing
        /\ UNCHANGED <<listVars, phase, loaded, unconfigured, results>> /\ phase = "fetch"
    BY <1>9, PoolAssumption DEF Take
  <2>3. OnePlace'
    BY <2>1, <2>2 DEF OnePlace
  <2>4. \A c \in Board : Held(c) => Held(c)'
    BY <2>1, <2>2, PoolAssumption DEF Held
  <2>5. PoolInv'
    BY <2>2, <2>4 DEF PoolInv, Loadable, Companies
  <2> QED BY <2>3, <2>5
<1>10. ASSUME NEW w \in Worker, FetchBoard(w) PROVE OnePlace' /\ PoolInv'
  <2>1. PICK x \in Outcome(busy[w]) : results' = results \cup {x}
    BY <1>10 DEF FetchBoard
  <2>2. x.board = busy[w] /\ busy[w] # Nothing
        /\ busy' = [busy EXCEPT ![w] = Nothing]
        /\ UNCHANGED <<listVars, phase, loaded, unconfigured, queue>> /\ phase = "fetch"
    BY <1>10, <2>1, OutcomeBoard DEF FetchBoard, PoolInv
  <2>3. OnePlace'
    <3>1. /\ busy'[w] = Nothing
          /\ \A v \in Worker \ {w} : busy'[v] = busy[v] /\ busy[v] # x.board
      BY <2>2 DEF OnePlace
    <3>2. x.board \in listed /\ x.board \notin queue /\ \A y \in results : y.board # x.board
      BY <2>2 DEF OnePlace
    <3>3. results' = results \cup {x} /\ queue' = queue /\ listed' = listed
      BY <2>1, <2>2
    <3>4. ASSUME NEW b \in queue'
          PROVE  /\ b \in listed'
                 /\ \A v \in Worker : busy'[v] # b
                 /\ \A y \in results' : y.board # b
      <4>1. b # Nothing
        BY <3>3, PoolAssumption
      <4> QED BY <3>1, <3>2, <3>3, <4>1 DEF OnePlace
    <3>5. ASSUME NEW v \in Worker, busy'[v] # Nothing
          PROVE  /\ busy'[v] \in listed'
                 /\ \A y \in results' : y.board # busy'[v]
                 /\ \A u \in Worker : busy'[u] = busy'[v] => u = v
      <4>1. v # w /\ busy'[v] = busy[v] /\ busy[v] # Nothing
        BY <3>1, <3>5
      <4> QED BY <3>1, <3>2, <3>3, <3>5, <4>1 DEF OnePlace
    <3>6. /\ \A y \in results' : y.board \in listed'
          /\ \A y, z \in results' : y.board = z.board => y = z
      BY <3>2, <3>3 DEF OnePlace
    <3> QED BY <3>4, <3>5, <3>6 DEF OnePlace
  <2>4. \A c \in Board : Held(c) => Held(c)'
    BY <2>1, <2>2, PoolAssumption DEF Held
  <2>5. PoolInv'
    BY <2>2, <2>4 DEF PoolInv, Loadable, Companies
  <2> QED BY <2>3, <2>5
<1>11. CASE UNCHANGED vars
  BY <1>11 DEF vars, OnePlace, PoolInv, Held, Loadable, Companies
<1> QED BY <1>1, <1>2, <1>3, <1>4, <1>5, <1>6, <1>7, <1>8, <1>9, <1>10, <1>11, StepCases

(* What a tally is made of stays as it is once the pool is left.           *)
LEMMA TalliesStill ==
    ASSUME UNCHANGED <<listed, results>>, landed \subseteq landed'
    PROVE  \A u : Tallied(u) => Tallied(u)'
<1>1. \A s : /\ Companies(s)' = Companies(s)
             /\ ResultsOf(s)' = ResultsOf(s)
             /\ RowsOf(s)' = RowsOf(s)
             /\ FailedBoards(s)' = FailedBoards(s)
             /\ Status(s)' = Status(s)
  BY DEF Companies, ResultsOf, RowsOf, ResultOf, FailedBoards, Status
<1> QED BY <1>1 DEF Tallied

LEMMA LandStep ==
    ASSUME Types, OnePlace, PoolInv, LandInv, [Next]_vars
    PROVE  LandInv'
<1> USE DEF Types, listVars, fetchVars, warehouse, outVars
<1>1. CASE EnsureTables \/ Submit \/ AllTallied \/ (\E s \in Source : LoadCompanies(s))
  <2>1. /\ UNCHANGED <<listed, results, landed, raw, runs, ops>>
        /\ phase' \in {"ensure", "load", "fetch"} => phase \in {"ensure", "load", "fetch"}
        /\ phase \notin {"finalize", "over"}
    BY <1>1 DEF EnsureTables, Submit, AllTallied, LoadCompanies
  <2> QED BY <2>1, TalliesStill DEF LandInv
<1>2. CASE Collect \/ Finalize
  <2>1. /\ UNCHANGED <<listed, results, landed, raw, runs, ops>>
        /\ phase' \notin {"ensure", "load", "fetch"}
        /\ phase = "fetch" \/ phase' = "over"
    BY <1>2 DEF Collect, Finalize
  <2> QED BY <2>1, TalliesStill DEF LandInv
<1>3. CASE LandRuns
  <2>1. /\ UNCHANGED <<listed, results, landed, raw, runs>> /\ ops' = runs
        /\ phase = "record" /\ phase' = "finalize"
    BY <1>3 DEF LandRuns
  <2> QED BY <2>1, TalliesStill DEF LandInv
<1>4. ASSUME NEW s \in Source, TallySource(s) PROVE LandInv'
  <2>1. /\ UNCHANGED <<listed, results, landed, raw>>
        /\ phase = "land" /\ phase' = "land"
        /\ Companies(s) # {} /\ ResultsOf(s) \subseteq landed
    BY <1>4 DEF TallySource
  <2> DEFINE t == [source |-> s, boards |-> Companies(s), rows |-> RowsOf(s),
                   status |-> Status(s), failed |-> FailedBoards(s)]
  <2>2. runs' = runs \cup {t} /\ UNCHANGED ops
    BY <1>4 DEF TallySource
  <2>3. \A b \in Companies(s) : \E x \in results : x.board = b
    BY <1>4, PoolAssumption DEF TallySource, PoolInv, Held, Companies
  <2>4. Tallied(t)
    BY <2>1, <2>3 DEF Tallied
  <2> HIDE DEF t
  <2> QED BY <2>1, <2>2, <2>4, TalliesStill DEF LandInv
<1>5. ASSUME NEW x \in results, Land(x) PROVE LandInv'
  <2>1. /\ UNCHANGED <<listed, results, runs, ops>>
        /\ phase = "land" /\ phase' = "land" /\ x \notin landed
        /\ landed' = landed \cup {x}
        /\ raw' = [raw EXCEPT ![x.board] = @ + x.postings]
    BY <1>5 DEF Land
  <2>2. \A y \in results : y.board \in Board /\ y.postings \in Nat
    BY RowsAssumption DEF Result
  <2>3. \A y \in landed : y.board # x.board
    BY <2>1 DEF OnePlace
  <2>4. raw[x.board] = 0
    BY <2>1, <2>2, <2>3 DEF LandInv
  <2>5. raw'[x.board] = x.postings /\ \A b \in Board : b # x.board => raw'[b] = raw[b]
    BY <2>1, <2>2, <2>4
  <2>6. /\ \A y \in landed' : raw'[y.board] = y.postings
        /\ \A b \in Board : (\A y \in landed' : y.board # b) => raw'[b] = 0
    BY <2>1, <2>2, <2>3, <2>5 DEF LandInv
  <2> QED BY <2>1, <2>6, TalliesStill DEF LandInv
<1>6. ASSUME NEW w \in Worker, Take(w) \/ FetchBoard(w) PROVE LandInv'
  <2>1. /\ phase = "fetch" /\ phase' = "fetch"
        /\ UNCHANGED <<landed, raw, runs, ops>>
    BY <1>6 DEF Take, FetchBoard, PoolInv
  <2> QED BY <2>1 DEF LandInv
<1>7. CASE UNCHANGED vars
  BY <1>7, TalliesStill DEF vars, LandInv
<1>8. CASE Raise
  <2>1. /\ UNCHANGED <<listed, results, landed, runs>> /\ phase' = "over"
        /\ ops' \in {ops, runs}
    BY <1>8 DEF Raise
  <2>2. \A x \in results : x.board \in Board /\ x.postings \in Nat
    BY RowsAssumption DEF Result
  <2>3. raw' = raw \/ \E x \in results \ landed : raw' = [raw EXCEPT ![x.board] = @ + x.postings]
    BY <1>8 DEF Raise
  <2>4. ASSUME NEW y \in landed PROVE raw'[y.board] = y.postings
    BY <2>2, <2>3 DEF LandInv, OnePlace
  <2> QED BY <2>1, <2>4, TalliesStill DEF LandInv
<1> QED BY <1>1, <1>2, <1>3, <1>4, <1>5, <1>6, <1>7, <1>8, StepCases

(* Nothing that the summary tells moves after it is written.               *)
LEMMA ContentStill ==
    ASSUME UNCHANGED <<runs, unconfigured>>
    PROVE  Content' = Content /\ Failures' = Failures
BY DEF Content, Failures, Warnings, Skipped

LEMMA EndStep ==
    ASSUME RunInv, [Next]_vars
    PROVE  EndInv'
<1> USE DEF RunInv, Types, listVars, fetchVars, warehouse, outVars
<1>1. CASE phase # "over" /\ phase' \notin {"record", "finalize", "over"}
           /\ UNCHANGED outVars
  BY <1>1 DEF EndInv, Finished
<1>2. CASE AllTallied
  <2>1. /\ phase = "land" /\ phase' = "record"
        /\ UNCHANGED <<listed, loaded, results, runs, outVars>>
        /\ \A s \in ToTally : \E u \in runs : u.source = s
    BY <1>2 DEF AllTallied
  <2>2. \A b \in listed : \E x \in results : x.board = b
    BY <2>1, PoolAssumption DEF PoolInv, Held
  <2>3. loaded = Source
    BY <2>1 DEF PoolInv
  <2> QED BY <2>1, <2>2, <2>3 DEF EndInv, Finished, ToTally, Companies
<1>3. CASE LandRuns
  <2>1. /\ phase = "record" /\ phase' = "finalize"
        /\ UNCHANGED <<listed, loaded, results, runs, outVars>>
        /\ ops' = runs
    BY <1>3 DEF LandRuns
  <2> QED BY <2>1 DEF EndInv, Finished, ToTally, Companies
<1>4. CASE Finalize
  <2>1. /\ phase = "finalize" /\ phase' = "over"
        /\ UNCHANGED <<listed, loaded, unconfigured, results, runs, ops>>
        /\ exit' = {ExitCode}
        /\ summary' \in {{}, {Content}, {[Content EXCEPT !.whole = FALSE]}}
    BY <1>4 DEF Finalize, Write, Content
  <2>2. /\ Content' = Content /\ Failures' = Failures
        /\ exit' = {0} => Failures = {}
    BY <2>1, ContentStill DEF ExitCode
  <2>3. \A m \in summary' : ~m.whole \/ m = Content
    BY <2>1 DEF Content
  <2> QED BY <2>1, <2>2, <2>3 DEF EndInv, Finished, ToTally, Companies
<1>5. CASE Raise
  <2>1. /\ phase # "over" /\ phase' = "over" /\ exit' = {1}
        /\ \A m \in summary' : m.pipeline
    BY <1>5 DEF Raise, Write
  <2> QED BY <2>1 DEF EndInv, Finished
<1>6. CASE UNCHANGED vars
  BY <1>6, ContentStill DEF vars, EndInv, Finished, ToTally, Companies
<1>7. CASE EnsureTables \/ Submit \/ Collect \/ (\E s \in Source : LoadCompanies(s))
  BY <1>1, <1>7 DEF EnsureTables, Submit, Collect, LoadCompanies
<1>8. CASE (\E s \in Source : TallySource(s)) \/ (\E x \in results : Land(x))
  BY <1>1, <1>8 DEF TallySource, Land
<1>9. ASSUME NEW w \in Worker, Take(w) \/ FetchBoard(w) PROVE EndInv'
  BY <1>1, <1>9 DEF Take, FetchBoard, PoolInv
<1> QED BY <1>2, <1>3, <1>4, <1>5, <1>6, <1>7, <1>8, <1>9, StepCases

(* The invariant holds for any threads and outcomes, also when something   *)
(* escapes and the handler ends the run.                                   *)
THEOREM RunHolds == Spec => []RunInv
<1>1. Init => RunInv
  BY SourceOfAssumption DEF Init, RunInv, Types, Phase, OnePlace, PoolInv, LandInv, EndInv,
     Finished
<1>2. RunInv /\ [Next]_vars => RunInv'
  BY TypesStep, PoolStep, LandStep, EndStep DEF RunInv
<1> QED BY <1>1, <1>2, PTL DEF Spec

-----------------------------------------------------------------------------
(* What ops.ingest_runs says a source fetched is what the raw tables got   *)
(* from its boards in this run.                                            *)
THEOREM OpsAgrees == Spec => []OpsAgreesWithRaw
<1>1. RunInv => OpsAgreesWithRaw
  <2> SUFFICES ASSUME RunInv, NEW u \in ops
               PROVE  u.rows = SumFunction([b \in u.boards |-> raw[b]])
    BY DEF OpsAgreesWithRaw
  <2>1. Tallied(u)
    BY DEF RunInv, LandInv
  <2>2. ASSUME NEW b \in u.boards PROVE ResultOf(b).postings = raw[b]
    <3>1. PICK x \in results : x.board = b
      BY <2>1 DEF Tallied
    <3>2. ResultOf(b) = x
      BY <3>1 DEF RunInv, OnePlace, ResultOf
    <3>3. x \in landed
      BY <2>1, <3>1 DEF Tallied, ResultsOf, Companies
    <3> QED BY <3>1, <3>2, <3>3 DEF RunInv, LandInv
  <2>3. [b \in u.boards |-> ResultOf(b).postings] = [b \in u.boards |-> raw[b]]
    BY <2>2
  <2> QED BY <2>1, <2>3 DEF Tallied, RowsOf
<1> QED BY <1>1, RunHolds, PTL

-----------------------------------------------------------------------------
(* No board is fetched twice and none is forgotten: once the pool is left  *)
(* every listed board has its one result, whichever thread took it.        *)
THEOREM EveryBoardOnce == Spec => []OneResultPerBoard
<1>1. RunInv => OneResultPerBoard
  BY PoolAssumption DEF RunInv, Types, OnePlace, PoolInv, Held, OneResultPerBoard
<1> QED BY <1>1, RunHolds, PTL

(* A list with a malformed ref is never read to its end, so nothing of it  *)
(* is fetched.                                                             *)
THEOREM BadListStops == Spec => []BadListFetchesNothing
<1>1. RunInv => BadListFetchesNothing
  <2> SUFFICES ASSUME RunInv, NEW b \in malformed
               PROVE  queue = {} /\ results = {} /\ \A w \in Worker : busy[w] = Nothing
    BY DEF BadListFetchesNothing
  <2>1. SourceOf[b] \in Source /\ ~Loadable(SourceOf[b])
    BY SourceOfAssumption DEF RunInv, Types, Loadable, Companies
  <2>2. loaded # Source
    BY <2>1 DEF RunInv, PoolInv
  <2> QED BY <2>2 DEF RunInv, PoolInv
<1> QED BY <1>1, RunHolds, PTL

(* A run that succeeded fetched a board of every source the list names,    *)
(* stored every posting it fetched, and recorded every such source.        *)
THEOREM SuccessHolds == Spec => []SuccessIsComplete
<1>1. RunInv => SuccessIsComplete
  <2> SUFFICES ASSUME RunInv, exit = {0} PROVE
        /\ \A s \in Source : Companies(s) # {} =>
              \E x \in results : x.board \in Companies(s) /\ ~x.error
        /\ \A x \in results : raw[x.board] = x.postings
        /\ \A s \in Source : Companies(s) # {} => \E u \in ops : u.source = s
    BY DEF SuccessIsComplete
  <2>1. /\ \A b \in listed : \E x \in results : x.board = b
        /\ \A s \in Source : Companies(s) # {} => \E u \in runs : u.source = s
        /\ ops = runs /\ Failures = {}
    BY DEF RunInv, EndInv, Finished, ToTally
  <2>2. ASSUME NEW s \in Source, Companies(s) # {}
        PROVE  \E x \in results : x.board \in Companies(s) /\ ~x.error
    <3>1. PICK u \in runs : u.source = s
      BY <2>1, <2>2
    <3>2. Status(s) # "error"
      BY <2>1, <3>1 DEF Failures, RunInv, LandInv, Tallied
    <3>3. FailedBoards(s) # Companies(s)
      BY <3>2 DEF Status
    <3>4. FailedBoards(s) \subseteq Companies(s)
      BY DEF FailedBoards, ResultsOf, Companies, RunInv, OnePlace
    <3>5. PICK b \in Companies(s) : b \notin FailedBoards(s)
      BY <3>3, <3>4
    <3>6. PICK x \in results : x.board = b
      BY <2>1, <3>5 DEF Companies
    <3>7. ~x.error
      BY <3>5, <3>6 DEF FailedBoards, ResultsOf, Companies
    <3> QED BY <3>5, <3>6, <3>7
  <2>3. ASSUME NEW x \in results PROVE raw[x.board] = x.postings
    <3> DEFINE s == SourceOf[x.board]
    <3>1. s \in Source /\ x.board \in Companies(s)
      BY SourceOfAssumption DEF Companies, RunInv, Types, OnePlace
    <3>2. PICK u \in runs : u.source = s
      BY <2>1, <3>1
    <3>3. x \in landed
      BY <3>2 DEF RunInv, LandInv, Tallied, ResultsOf
    <3> QED BY <3>3 DEF RunInv, LandInv
  <2> QED BY <2>1, <2>2, <2>3
<1> QED BY <1>1, RunHolds, PTL

(* A summary with nothing to report tells the truth: every registered      *)
(* source ran and every board of the list was fetched.                     *)
THEOREM HealthyHolds == Spec => []HealthyMeansComplete
<1>1. RunInv => HealthyMeansComplete
  <2> SUFFICES ASSUME RunInv, NEW m \in summary, Quiet(m)
               PROVE  /\ m.sources = Source
                      /\ \A b \in listed : \E x \in results : x.board = b /\ ~x.error
    BY DEF HealthyMeansComplete
  <2>1. m = Content /\ Finished
    BY DEF Quiet, RunInv, EndInv, Finished
  <2>2. /\ Failures = {} /\ unconfigured = {} /\ Skipped = {}
        /\ m.sources = {u.source : u \in runs}
    BY <2>1 DEF Quiet, Content
  <2>3. /\ \A b \in listed : \E x \in results : x.board = b
        /\ \A s \in Source : Companies(s) # {} => \E u \in runs : u.source = s
        /\ \A s \in Source : Companies(s) # {}
    BY <2>1, <2>2 DEF RunInv, EndInv, ToTally, PoolInv
  <2>4. m.sources = Source
    BY <2>2, <2>3 DEF RunInv, LandInv, Tallied
  <2>5. ASSUME NEW b \in listed PROVE \E x \in results : x.board = b /\ ~x.error
    <3> DEFINE s == SourceOf[b]
    <3>1. s \in Source
      BY SourceOfAssumption DEF RunInv, Types
    <3>2. PICK u \in runs : u.source = s
      BY <2>3, <3>1
    <3>3. u.status = Status(s) /\ u.failed = FailedBoards(s)
      BY <3>2 DEF RunInv, LandInv, Tallied
    <3>4. u.status # "error"
      BY <2>2, <3>2 DEF Failures
    <3>5. u.status = "ok"
      BY <3>3, <3>4 DEF Status
    <3>6. FailedBoards(s) = {}
      BY <2>2, <3>2, <3>3, <3>5 DEF Skipped
    <3>7. PICK x \in results : x.board = b
      BY <2>3
    <3>8. ~x.error
      BY <3>6, <3>7 DEF FailedBoards, ResultsOf
    <3> QED BY <3>7, <3>8
  <2> QED BY <2>4, <2>5
<1> QED BY <1>1, RunHolds, PTL
-----------------------------------------------------------------------------
(* Sums.  SumFunction adds up the values of a function one by one, each    *)
(* time those of a smaller set.  That this recursion has a solution, and   *)
(* that it is a number, is shown by looking at a least set, by size, for   *)
(* which it is not so.                                                     *)
LEMMA LeastNumber ==
    ASSUME NEW N \in SUBSET Nat, N # {}
    PROVE  \E n \in N : \A m \in N : n <= m
<1>1. PICK n \in N : \A m \in N : ~(<<m, n>> \in OpToRel(<, Nat))
  BY Zenon, WFMin, NatLessThanWellFounded
<1>2. \A m \in Nat : m < n => <<m, n>> \in OpToRel(<, Nat)
  BY Zenon DEF OpToRel
<1>3. \A m \in N : ~(m < n)
  BY <1>1, <1>2
<1> QED BY <1>3

(* The summand of s that is added first, and what a solution is at s.      *)
FirstOf(s) == CHOOSE x \in s : TRUE
SumStep(f, it, s) == IF s = {} THEN 0 ELSE f[FirstOf(s)] + it[s \ {FirstOf(s)}]

LEMMA FirstTaken ==
    ASSUME NEW D, IsFiniteSet(D), NEW s \in SUBSET D, s # {}
    PROVE  /\ FirstOf(s) \in D
           /\ s \ {FirstOf(s)} \in SUBSET D
           /\ Cardinality(s) \in Nat \ {0}
           /\ Cardinality(s \ {FirstOf(s)}) = Cardinality(s) - 1
<1>1. FirstOf(s) \in s
  BY DEF FirstOf
<1>2. IsFiniteSet(s)
  BY FS_Subset
<1> QED BY <1>1, <1>2, FS_RemoveElement, FS_CardinalityType, FS_EmptySet

(* Up to any size there is a solution: one more step makes the next.       *)
LEMMA SumsExist ==
    ASSUME NEW D, IsFiniteSet(D), NEW f \in [D -> Nat]
    PROVE  \E it \in [SUBSET D -> Nat] : \A s \in SUBSET D : it[s] = SumStep(f, it, s)
<1> DEFINE Upto(it, n) == \A s \in SUBSET D : Cardinality(s) <= n => it[s] = SumStep(f, it, s)
           Bad == {n \in Nat : ~\E it \in [SUBSET D -> Nat] : Upto(it, n)}
<1>1. \A s \in SUBSET D : Cardinality(s) \in Nat /\ Cardinality(s) <= Cardinality(D)
  BY FS_Subset, FS_CardinalityType
<1>2. 0 \notin Bad
  <2> DEFINE z == [s \in SUBSET D |-> 0]
  <2>1. \A s \in SUBSET D : Cardinality(s) <= 0 => s = {}
    BY <1>1, FS_Subset, FS_EmptySet
  <2>2. Upto(z, 0)
    BY <2>1 DEF SumStep
  <2>3. z \in [SUBSET D -> Nat]
    OBVIOUS
  <2> QED BY <2>2, <2>3
<1>3. ASSUME NEW n \in Nat, n \notin Bad PROVE n + 1 \notin Bad
  <2>1. PICK it \in [SUBSET D -> Nat] : Upto(it, n)
    BY <1>3
  <2> DEFINE it2 == [s \in SUBSET D |-> SumStep(f, it, s)]
  <2>2. ASSUME NEW s \in SUBSET D PROVE SumStep(f, it, s) \in Nat
    <3>1. CASE s = {}
      BY <3>1 DEF SumStep
    <3>2. CASE s # {}
      <4>1. FirstOf(s) \in D /\ s \ {FirstOf(s)} \in SUBSET D
        BY <3>2, FirstTaken
      <4>2. f[FirstOf(s)] \in Nat /\ it[s \ {FirstOf(s)}] \in Nat
        BY <4>1
      <4> QED BY <3>2, <4>2 DEF SumStep
    <3> QED BY <3>1, <3>2
  <2>3. it2 \in [SUBSET D -> Nat]
    BY <2>2
  <2>4. ASSUME NEW s \in SUBSET D, Cardinality(s) <= n + 1 PROVE it2[s] = SumStep(f, it2, s)
    <3>1. CASE s = {}
      BY <3>1 DEF SumStep
    <3>2. CASE s # {}
      <4> DEFINE t == s \ {FirstOf(s)}
      <4>1. t \in SUBSET D /\ Cardinality(t) <= n
        BY <2>4, <3>2, FirstTaken
      <4>2. it2[t] = it[t]
        BY <2>1, <4>1
      <4>3. SumStep(f, it, s) = f[FirstOf(s)] + it[t] /\ SumStep(f, it2, s) = f[FirstOf(s)] + it2[t]
        BY <3>2 DEF SumStep
      <4> QED BY <4>2, <4>3
    <3> QED BY <3>1, <3>2
  <2> QED BY <2>3, <2>4
<1> HIDE DEF Bad
<1>4. Bad = {}
  <2>0. Bad \subseteq Nat
    BY DEF Bad
  <2>1. SUFFICES ASSUME Bad # {} PROVE FALSE
    OBVIOUS
  <2>2. PICK n \in Bad : \A m \in Bad : n <= m
    BY <2>0, <2>1, LeastNumber
  <2>3. n \in Nat /\ n # 0 /\ n - 1 \in Nat
    BY <1>2, <2>0, <2>2
  <2>4. n - 1 \notin Bad
    BY <2>2, <2>3
  <2> QED BY <1>3, <2>2, <2>3, <2>4
<1>5. PICK it \in [SUBSET D -> Nat] : Upto(it, Cardinality(D))
  BY <1>4, FS_CardinalityType DEF Bad
<1>6. \A s \in SUBSET D : it[s] = SumStep(f, it, s)
  BY <1>1, <1>5
<1> QED BY <1>6

(* A sum of natural numbers is one.                                        *)
LEMMA SumIsNat ==
    ASSUME NEW D, IsFiniteSet(D), NEW f \in [D -> Nat]
    PROVE  SumFunction(f) \in Nat
<1>1. PICK h \in [SUBSET D -> Nat] : \A s \in SUBSET D : h[s] = SumStep(f, h, s)
  BY SumsExist
<1>2. h = [s \in SUBSET D |-> SumStep(f, h, s)]
  BY <1>1
<1> DEFINE it == CHOOSE i : i = [s \in SUBSET D |-> SumStep(f, i, s)]
           Bad == {n \in Nat : \E s \in SUBSET D : Cardinality(s) = n /\ it[s] \notin Nat}
<1>3. SumFunction(f) = it[D]
  <2>1. DOMAIN f = D
    OBVIOUS
  <2> QED BY Zenon, <2>1 DEF SumFunction, SumFunctionOnSet, FoldFunctionOnSet, MapThenFoldSet, FirstOf, SumStep
<1>4. it = [s \in SUBSET D |-> SumStep(f, it, s)]
  BY Zenon, <1>2
<1> HIDE DEF it
<1>5. Bad = {}
  <2>1. SUFFICES ASSUME Bad # {} PROVE FALSE
    OBVIOUS
  <2>2. PICK n \in Bad : \A m \in Bad : n <= m
    BY <2>1, LeastNumber
  <2>3. PICK s \in SUBSET D : Cardinality(s) = n /\ it[s] \notin Nat
    BY <2>2
  <2>4. it[s] = SumStep(f, it, s)
    BY <1>4
  <2>5. s # {}
    BY <2>3, <2>4 DEF SumStep
  <2> DEFINE t == s \ {FirstOf(s)}
  <2>6. FirstOf(s) \in D /\ t \in SUBSET D /\ Cardinality(t) = n - 1 /\ n - 1 \in Nat
    BY <2>3, <2>5, FirstTaken
  <2>7. it[t] \in Nat
    BY <2>2, <2>6
  <2>8. f[FirstOf(s)] \in Nat /\ it[s] = f[FirstOf(s)] + it[t]
    BY <2>4, <2>5, <2>6 DEF SumStep
  <2> QED BY <2>3, <2>7, <2>8
<1> QED BY <1>3, <1>5, FS_CardinalityType

-----------------------------------------------------------------------------
(* The rows of a tally are a number: each of its boards has a result.      *)
LEMMA RowsAreNat ==
    ASSUME Types, NEW s \in Source, \A b \in Companies(s) : \E x \in results : x.board = b
    PROVE  RowsOf(s) \in Nat
<1>1. IsFiniteSet(Companies(s))
  BY FiniteAssumption, FS_Subset DEF Types, Companies
<1>2. \A b \in Companies(s) : ResultOf(b).postings \in Nat
  BY RowsAssumption DEF Types, ResultOf, Result
<1>3. [b \in Companies(s) |-> ResultOf(b).postings] \in [Companies(s) -> Nat]
  BY <1>2
<1> QED BY <1>1, <1>3, SumIsNat DEF RowsOf

(* The variables keep their types, the rows of a source among them.        *)
THEOREM TypeCorrect == Spec => []TypeOK
<1>1. Init => TypeOK
  BY DEF Init, TypeOK, Phase
<1>2. ASSUME TypeOK, RunInv, RunInv', [Next]_vars PROVE TypeOK'
  <2> USE DEF listVars, fetchVars, warehouse, outVars
  <2>1. /\ listed' \in SUBSET Board /\ malformed' \in SUBSET Board /\ phase' \in Phase
        /\ loaded' \in SUBSET Source /\ unconfigured' \in SUBSET Source
        /\ queue' \in SUBSET Board /\ busy' \in [Worker -> Board \cup {Nothing}]
        /\ results' \in SUBSET Result /\ landed' \in SUBSET Result /\ raw' \in [Board -> Nat]
    BY <1>2 DEF RunInv, Types
  <2>2. runs' \in SUBSET Run
    <3>1. CASE UNCHANGED runs
      BY <1>2, <3>1 DEF TypeOK
    <3>2. ASSUME NEW s \in Source, TallySource(s) PROVE runs' \in SUBSET Run
      <4>1. \A b \in Companies(s) : \E x \in results : x.board = b
        BY <1>2, <3>2, PoolAssumption DEF TallySource, RunInv, PoolInv, Held, Companies, Types
      <4>2. RowsOf(s) \in Nat
        BY <1>2, <4>1, RowsAreNat DEF RunInv
      <4>3. /\ Companies(s) \in SUBSET Board /\ FailedBoards(s) \in SUBSET Board
            /\ Status(s) \in {"ok", "error"}
        BY <1>2 DEF RunInv, Types, Companies, FailedBoards, ResultsOf, Status, Result
      <4> QED BY <1>2, <3>2, <4>2, <4>3 DEF TallySource, TypeOK, Run
    <3>3. UNCHANGED runs \/ \E s \in Source : TallySource(s)
      BY <1>2, StepCases DEF vars, EnsureTables, Submit, Collect, AllTallied, LandRuns, Finalize,
         Raise, LoadCompanies, Land, Take, FetchBoard
    <3> QED BY <3>1, <3>2, <3>3
  <2>3. ops' \in SUBSET Run
    BY <1>2, <2>2 DEF RunInv, LandInv
  <2>4. summary' \in SUBSET Summary /\ exit' \in SUBSET {0, 1}
    <3>1. CASE Finalize
      <4>1. /\ Failures \in SUBSET Source /\ Warnings \in SUBSET Source
            /\ Skipped \in SUBSET Board /\ {u.source : u \in runs} \in SUBSET Source
        BY <1>2 DEF TypeOK, Failures, Warnings, Skipped, Run
      <4>2. Content \in Summary
        BY <1>2, <4>1 DEF Content, Summary, TypeOK
      <4>3. summary' \in {{}, {Content}, {[Content EXCEPT !.whole = FALSE]}}
            /\ exit' = {ExitCode}
        BY <3>1 DEF Finalize, Write, Content
      <4>4. [Content EXCEPT !.whole = FALSE] \in Summary
        BY <4>2 DEF Summary
      <4> HIDE DEF outVars
      <4> QED BY <4>2, <4>3, <4>4 DEF ExitCode
    <3>2. CASE Raise
      <4> DEFINE c == [whole |-> TRUE, pipeline |-> TRUE, failures |-> {}, warnings |-> {},
                       unconfigured |-> {}, skipped |-> {}, sources |-> {}]
      <4>1. c \in Summary
        BY DEF Summary
      <4>2. summary' \in {{}, {c}, {[c EXCEPT !.whole = FALSE]}} /\ exit' = {1}
        BY <3>2 DEF Raise, Write
      <4> HIDE DEF c
      <4>3. [c EXCEPT !.whole = FALSE] \in Summary
        BY <4>1 DEF Summary
      <4> QED BY <4>1, <4>2, <4>3
    <3>3. CASE UNCHANGED <<summary, exit>>
      BY <1>2, <3>3 DEF TypeOK
    <3>4. Finalize \/ Raise \/ UNCHANGED <<summary, exit>>
      BY <1>2, StepCases DEF vars, EnsureTables, Submit, Collect, AllTallied, LandRuns,
         LoadCompanies, TallySource, Land, Take, FetchBoard
    <3> QED BY <3>1, <3>2, <3>3, <3>4
  <2> QED BY <2>1, <2>2, <2>3, <2>4 DEF TypeOK
<1> QED BY <1>1, <1>2, RunHolds, PTL DEF Spec

-----------------------------------------------------------------------------
(* What is left to do: phases, sources to load and to tally, boards to     *)
(* take, to fetch and to land.                                             *)
Rank == [ensure |-> 6, load |-> 5, fetch |-> 4, land |-> 3, record |-> 2, finalize |-> 1,
         over |-> 0]
ToLoad == Source \ loaded
Untallied == Source \ {u.source : u \in runs}
Untaken == Board \ ({busy[w] : w \in Worker} \cup {x.board : x \in results})
Unfetched == Board \ {x.board : x \in results}
Unlanded == Board \ {x.board : x \in landed}
Left ==
    Rank[phase] + Cardinality(ToLoad) + Cardinality(Untallied) + Cardinality(Untaken)
        + Cardinality(Unfetched) + Cardinality(Unlanded)

(* Nothing of it grows, and something gets less.                           *)
Less ==
    /\ Rank[phase'] <= Rank[phase]
    /\ ToLoad' \subseteq ToLoad /\ Untallied' \subseteq Untallied /\ Untaken' \subseteq Untaken
    /\ Unfetched' \subseteq Unfetched /\ Unlanded' \subseteq Unlanded
    /\ \/ Rank[phase'] < Rank[phase] \/ ToLoad' # ToLoad \/ Untallied' # Untallied
       \/ Untaken' # Untaken \/ Unfetched' # Unfetched \/ Unlanded' # Unlanded

LEMMA Counted ==
    /\ \A S \in SUBSET Source : IsFiniteSet(S)
    /\ \A S \in SUBSET Board : IsFiniteSet(S)
    /\ \A S : IsFiniteSet(S) => Cardinality(S) \in Nat
    /\ \A S : \A T \in SUBSET S : IsFiniteSet(S) =>
           Cardinality(T) <= Cardinality(S) /\ (T # S => Cardinality(T) < Cardinality(S))
<1>1. /\ \A S \in SUBSET Source : IsFiniteSet(S)
      /\ \A S \in SUBSET Board : IsFiniteSet(S)
  BY FiniteAssumption, FS_Subset
<1>2. ASSUME NEW S, NEW T \in SUBSET S, IsFiniteSet(S)
      PROVE  Cardinality(T) <= Cardinality(S) /\ (T # S => Cardinality(T) < Cardinality(S))
  <2>1. /\ IsFiniteSet(T) /\ Cardinality(T) <= Cardinality(S)
        /\ Cardinality(S) = Cardinality(T) => S = T
    BY <1>2, FS_Subset
  <2>2. Cardinality(S) \in Nat /\ Cardinality(T) \in Nat
    BY <1>2, <2>1, FS_CardinalityType
  <2> QED BY <2>1, <2>2
<1> QED BY <1>1, <1>2, FS_CardinalityType

LEMMA LessIsLess ==
    ASSUME phase \in Phase, phase' \in Phase, Less
    PROVE  Left \in Nat /\ Left' \in Nat /\ Left' < Left
<1>1. Rank[phase] \in Nat /\ Rank[phase'] \in Nat
  BY DEF Phase, Rank
<1>2. /\ ToLoad \in SUBSET Source /\ Untallied \in SUBSET Source
      /\ Untaken \in SUBSET Board /\ Unfetched \in SUBSET Board /\ Unlanded \in SUBSET Board
  BY DEF ToLoad, Untallied, Untaken, Unfetched, Unlanded
<1>3. /\ ToLoad' \in SUBSET Source /\ Untallied' \in SUBSET Source
      /\ Untaken' \in SUBSET Board /\ Unfetched' \in SUBSET Board /\ Unlanded' \in SUBSET Board
  BY DEF ToLoad, Untallied, Untaken, Unfetched, Unlanded
<1> DEFINE a == Cardinality(ToLoad)    aa == Cardinality(ToLoad')
           b == Cardinality(Untallied) bb == Cardinality(Untallied')
           c == Cardinality(Untaken)   cc == Cardinality(Untaken')
           d == Cardinality(Unfetched) dd == Cardinality(Unfetched')
           e == Cardinality(Unlanded)  ee == Cardinality(Unlanded')
<1>4. /\ a \in Nat /\ b \in Nat /\ c \in Nat /\ d \in Nat /\ e \in Nat
      /\ aa \in Nat /\ bb \in Nat /\ cc \in Nat /\ dd \in Nat /\ ee \in Nat
  BY <1>2, <1>3, Counted
<1>5. /\ aa <= a /\ (ToLoad' # ToLoad => aa < a)
      /\ bb <= b /\ (Untallied' # Untallied => bb < b)
  BY <1>2, Counted DEF Less
<1>6. /\ cc <= c /\ (Untaken' # Untaken => cc < c)
      /\ dd <= d /\ (Unfetched' # Unfetched => dd < d)
      /\ ee <= e /\ (Unlanded' # Unlanded => ee < e)
  BY <1>2, Counted DEF Less
<1>7. Left = Rank[phase] + a + b + c + d + e /\ Left' = Rank[phase'] + aa + bb + cc + dd + ee
  BY DEF Left
<1> HIDE DEF a, b, c, d, e, aa, bb, cc, dd, ee
<1>8. Rank[phase] + a + b + c + d + e \in Nat
  BY <1>1, <1>4
<1>9. Rank[phase'] + aa + bb + cc + dd + ee \in Nat
  BY <1>1, <1>4
<1>10. Rank[phase'] + aa + bb + cc + dd + ee < Rank[phase] + a + b + c + d + e
  BY <1>1, <1>4, <1>5, <1>6 DEF Less
<1> QED BY <1>7, <1>8, <1>9, <1>10

LEMMA StepIsLess ==
    ASSUME RunInv, Next
    PROVE  Less
<1> USE DEF RunInv, Types, listVars, fetchVars, warehouse, outVars
<1>1. CASE EnsureTables \/ Submit \/ Collect \/ AllTallied \/ LandRuns \/ Finalize \/ Raise
  <2>1. UNCHANGED <<loaded, runs, busy, results, landed>>
    BY <1>1 DEF EnsureTables, Submit, Collect, AllTallied, LandRuns, Finalize, Raise
  <2>2. Rank[phase'] < Rank[phase] /\ Rank[phase'] <= Rank[phase]
    BY <1>1 DEF EnsureTables, Submit, Collect, AllTallied, LandRuns, Finalize, Raise, Rank
  <2> QED BY <2>1, <2>2 DEF Less, ToLoad, Untallied, Untaken, Unfetched, Unlanded
<1>2. ASSUME UNCHANGED phase PROVE Rank[phase'] <= Rank[phase]
  BY <1>2 DEF Rank, Phase
<1>3. ASSUME NEW s \in Source, LoadCompanies(s) PROVE Less
  <2>1. /\ s \notin loaded /\ loaded' = loaded \cup {s}
        /\ UNCHANGED <<phase, runs, busy, results, landed>>
    BY <1>3 DEF LoadCompanies
  <2> QED BY <1>2, <2>1 DEF Less, ToLoad, Untallied, Untaken, Unfetched, Unlanded
<1>4. ASSUME NEW s \in Source, TallySource(s) PROVE Less
  <2>1. /\ \A u \in runs : u.source # s
        /\ \E u : u.source = s /\ runs' = runs \cup {u}
        /\ UNCHANGED <<phase, loaded, busy, results, landed>>
    <3> DEFINE u == [source |-> s, boards |-> Companies(s), rows |-> RowsOf(s),
                     status |-> Status(s), failed |-> FailedBoards(s)]
    <3>1. u.source = s /\ runs' = runs \cup {u}
      BY <1>4 DEF TallySource
    <3> QED BY <1>4, <3>1 DEF TallySource
  <2>2. Untallied' \subseteq Untallied /\ s \in Untallied /\ s \notin Untallied'
    BY <2>1 DEF Untallied
  <2> QED BY <1>2, <2>1, <2>2 DEF Less, ToLoad, Untaken, Unfetched, Unlanded
<1>5. ASSUME NEW x \in results, Land(x) PROVE Less
  <2>1. /\ x \notin landed /\ landed' = landed \cup {x}
        /\ UNCHANGED <<phase, loaded, runs, busy, results>>
    BY <1>5 DEF Land
  <2>2. x.board \in Board /\ \A y \in landed : y.board # x.board
    BY <2>1 DEF OnePlace, Result
  <2>3. Unlanded' \subseteq Unlanded /\ x.board \in Unlanded /\ x.board \notin Unlanded'
    BY <2>1, <2>2 DEF Unlanded
  <2> QED BY <1>2, <2>1, <2>3 DEF Less, ToLoad, Untallied, Untaken, Unfetched
<1>6. ASSUME NEW w \in Worker, Take(w) PROVE Less
  <2>1. PICK b \in queue : busy' = [busy EXCEPT ![w] = b]
    BY <1>6 DEF Take
  <2>2. /\ busy[w] = Nothing /\ UNCHANGED <<phase, loaded, runs, results, landed>>
    BY <1>6 DEF Take
  <2>3. /\ b \in Board /\ (\A v \in Worker : busy[v] # b) /\ \A x \in results : x.board # b
    BY DEF OnePlace
  <2>4. b \in Untaken /\ b \notin Untaken'
    BY <2>1, <2>3 DEF Untaken
  <2>5. ASSUME NEW c \in Untaken' PROVE c \in Untaken
    <3>1. c \in Board /\ c # Nothing /\ \A x \in results : x.board # c
      BY <2>2, PoolAssumption DEF Untaken
    <3>2. \A v \in Worker : busy'[v] # c
      BY DEF Untaken
    <3>3. \A v \in Worker : busy[v] # c
      BY <2>1, <2>2, <3>1, <3>2
    <3> QED BY <3>1, <3>3 DEF Untaken
  <2> QED BY <1>2, <2>2, <2>4, <2>5 DEF Less, ToLoad, Untallied, Unfetched, Unlanded
<1>7. ASSUME NEW w \in Worker, FetchBoard(w) PROVE Less
  <2>1. PICK x \in Outcome(busy[w]) : results' = results \cup {x}
    BY <1>7 DEF FetchBoard
  <2>2. /\ x.board = busy[w] /\ busy[w] # Nothing /\ busy' = [busy EXCEPT ![w] = Nothing]
        /\ UNCHANGED <<phase, loaded, runs, landed>>
    BY <1>7, <2>1, OutcomeBoard DEF FetchBoard
  <2>3. busy[w] \in Board /\ \A y \in results : y.board # busy[w]
    BY <2>2 DEF OnePlace
  <2>4. Unfetched' \subseteq Unfetched /\ busy[w] \in Unfetched /\ busy[w] \notin Unfetched'
    BY <2>1, <2>2, <2>3 DEF Unfetched
  <2>5. ASSUME NEW c \in Untaken' PROVE c \in Untaken
    <3>1. c \in Board /\ \A y \in results' : y.board # c
      BY DEF Untaken
    <3>2. c # busy[w] /\ \A y \in results : y.board # c
      BY <2>1, <2>2, <3>1
    <3>3. \A v \in Worker : busy'[v] # c
      BY DEF Untaken
    <3>4. \A v \in Worker : busy[v] # c
      BY <2>2, <3>2, <3>3
    <3> QED BY <3>1, <3>2, <3>4 DEF Untaken
  <2> QED BY <1>2, <2>2, <2>4, <2>5 DEF Less, ToLoad, Untallied, Unlanded
<1> QED BY <1>1, <1>3, <1>4, <1>5, <1>6, <1>7, StepCases

(* No schedule of the threads makes a run go round in circles: each step   *)
(* leaves less to do, so a run takes at most Left steps and then has its   *)
(* exit code.                                                              *)
Counts == Left \in Nat /\ Left' < Left
EveryStepCounts == [][Counts]_vars

(* Whatever the threads do, in whatever order, a run is nearer its end.    *)
THEOREM EveryStepIsProgress == Spec => EveryStepCounts
<1>1. RunInv /\ RunInv' /\ [Next]_vars => [Counts]_vars
  <2> SUFFICES ASSUME RunInv, RunInv', Next PROVE Counts
    OBVIOUS
  <2>1. Less
    BY StepIsLess
  <2> QED BY <2>1, LessIsLess DEF RunInv, Types, Counts
<1> QED BY <1>1, RunHolds, PTL DEF Spec, EveryStepCounts

(* And it does not stop short of it: until there is an exit code the main  *)
(* thread or a worker has something to do.  A worker waits for a board     *)
(* only, the main thread for the pool only.                                *)
CanGoOn ==
    \/ phase = "ensure"                                    \* EnsureTables, Raise
    \/ phase = "load" /\ loaded = Source                   \* Submit
    \/ phase = "load" /\ \E s \in Source : s \notin loaded  \* LoadCompanies, Raise
    \/ \E w \in Worker :
          \/ phase = "fetch" /\ busy[w] = Nothing /\ queue # {}   \* Take
          \/ busy[w] \in Board                                   \* FetchBoard
    \/ phase = "fetch" /\ PoolDone                         \* Collect
    \/ phase = "land" /\
          \/ results \ landed # {}                         \* Land
          \/ \E s \in ToTally : /\ ResultsOf(s) \subseteq landed
                               /\ \A u \in runs : u.source # s     \* TallySource
          \/ \A s \in ToTally : \E u \in runs : u.source = s     \* AllTallied
    \/ phase \in {"record", "finalize"}                    \* LandRuns, Finalize
NeverStuck == exit = {} => CanGoOn

(* A run without an exit code can go on, in every order of its threads.    *)
THEOREM NobodyWaitsForever == Spec => []NeverStuck
<1>1. Spec => [](phase = "over" => exit # {})
  <2>1. Init => (phase = "over" => exit # {})
    BY DEF Init
  <2>2. RunInv /\ (phase = "over" => exit # {}) /\ [Next]_vars => (phase = "over" => exit # {})'
    BY StepCases DEF vars, outVars, EnsureTables, Submit, Collect, AllTallied, LandRuns, Finalize,
       Raise, LoadCompanies, TallySource, Land, Take, FetchBoard, PoolInv, RunInv
  <2> QED BY <2>1, <2>2, RunHolds, PTL DEF Spec
<1>2. RunInv /\ (phase = "over" => exit # {}) => NeverStuck
  <2> SUFFICES ASSUME RunInv, phase # "over" PROVE CanGoOn
    BY DEF NeverStuck
  <2>1. CASE phase = "fetch"
    BY <2>1, PoolAssumption DEF CanGoOn, PoolDone, RunInv, Types
  <2>2. CASE phase = "land"
    BY <2>2 DEF CanGoOn, ResultsOf
  <2> QED BY <2>1, <2>2 DEF CanGoOn, RunInv, Types, Phase
<1> QED BY <1>1, <1>2, RunHolds, PTL

-----------------------------------------------------------------------------
(* Ingest implements Batch.  What each board came to, once the pool is     *)
(* left.                                                                   *)
Came == [b \in listed |-> [error |-> ResultOf(b).error, postings |-> ResultOf(b).postings]]
PoolLeft == phase \notin {"ensure", "load", "fetch"} /\ loaded = Source
batchVars == <<listed, malformed, Fetched, raw, ops, exit>>

(* Batch sums as Ingest does.                                              *)
LEMMA SameSum == ASSUME NEW f PROVE AsBatch!SumFunction(f) = SumFunction(f)
BY Zenon DEF SumFunction, SumFunctionOnSet, FoldFunctionOnSet, MapThenFoldSet,
   AsBatch!SumFunction, AsBatch!SumFunctionOnSet, AsBatch!FoldFunctionOnSet, AsBatch!MapThenFoldSet

LEMMA FetchedIsCame ==
    /\ ~PoolLeft => Fetched = {}
    /\ PoolLeft => Fetched = {Came}
    /\ PoolLeft' => Fetched' = {Came'}
    /\ ~PoolLeft' => Fetched' = {}
BY DEF PoolLeft, Fetched, Came

LEMMA FetchedStill ==
    ASSUME UNCHANGED <<listed, results>>, PoolLeft' = PoolLeft
    PROVE  Fetched' = Fetched
<1>1. Came' = Came
  BY DEF Came, ResultOf
<1> QED BY <1>1, FetchedIsCame

(* The result of a board, and what it came to, is that of its one fetch.   *)
LEMMA CameOf ==
    ASSUME Types, OnePlace, NEW x \in results
    PROVE  /\ x.board \in listed /\ ResultOf(x.board) = x
           /\ Came[x.board].error = x.error /\ Came[x.board].postings = x.postings
<1>1. x.board \in listed /\ ResultOf(x.board) = x
  BY DEF OnePlace, ResultOf
<1> QED BY <1>1 DEF Came

(* The tallies are the report on what the boards came to.                  *)
LEMMA TallyOf ==
    ASSUME RunInv, NEW u \in Run, Tallied(u)
    PROVE  /\ u = AsBatch!Tally(Came, u.source) /\ u.source \in AsBatch!Ran
           /\ u.status = "error" <=> AsBatch!Dark(Came, u.source)
<1> DEFINE s == u.source
<1>1. \A t : AsBatch!BoardsOf(t) = Companies(t)
  BY DEF AsBatch!BoardsOf, Companies
<1>2. \A b \in Companies(s) : \E x \in ResultsOf(s) : x.board = b
  BY DEF Tallied, ResultsOf, Companies
<1>3. AsBatch!Failed(Came, s) = FailedBoards(s)
  <2>1. ASSUME NEW b \in Companies(s), Came[b].error PROVE b \in FailedBoards(s)
    BY <1>2, <2>1, CameOf DEF FailedBoards, ResultsOf, RunInv
  <2>2. ASSUME NEW b \in FailedBoards(s) PROVE b \in Companies(s) /\ Came[b].error
    BY CameOf DEF FailedBoards, ResultsOf, Companies, RunInv
  <2> QED BY <1>1, <2>1, <2>2 DEF AsBatch!Failed
<1>4. [b \in Companies(s) |-> Came[b].postings] = [b \in Companies(s) |-> ResultOf(b).postings]
  BY DEF Came, Companies
<1>5. AsBatch!SumFunction([b \in AsBatch!BoardsOf(s) |-> Came[b].postings]) = RowsOf(s)
  BY <1>1, <1>4, SameSum DEF RowsOf
<1>6. u.status = IF AsBatch!Dark(Came, s) THEN "error" ELSE "ok"
  BY <1>1, <1>3 DEF AsBatch!Dark, Tallied, Status
<1>7. u = [source |-> s, boards |-> u.boards, rows |-> u.rows, status |-> u.status,
           failed |-> u.failed]
  BY DEF Run
<1>8. u = AsBatch!Tally(Came, s)
  BY <1>1, <1>3, <1>5, <1>6, <1>7 DEF AsBatch!Tally, Tallied
<1>9. s \in AsBatch!Ran
  BY <1>1 DEF AsBatch!Ran, Tallied
<1> QED BY <1>6, <1>8, <1>9

LEMMA RunsAreTheReport ==
    ASSUME RunInv, TypeOK, \A s \in ToTally : \E u \in runs : u.source = s
    PROVE  /\ runs = AsBatch!Report(Came)
           /\ Failures # {} <=> \E s \in AsBatch!Ran : AsBatch!Dark(Came, s)
<1>1. \A u \in runs : u \in Run /\ Tallied(u)
  BY DEF RunInv, LandInv, TypeOK
<1>2. AsBatch!Ran = ToTally
  BY DEF AsBatch!Ran, AsBatch!BoardsOf, ToTally, Companies
<1>3. ASSUME NEW u \in runs PROVE u \in AsBatch!Report(Came)
  <2>1. u = AsBatch!Tally(Came, u.source) /\ u.source \in AsBatch!Ran
    BY <1>1, TallyOf
  <2> QED BY <2>1 DEF AsBatch!Report
<1>4. ASSUME NEW s \in AsBatch!Ran PROVE AsBatch!Tally(Came, s) \in runs
  <2>1. PICK u \in runs : u.source = s
    BY <1>2
  <2> QED BY <1>1, <2>1, TallyOf
<1>5. runs = AsBatch!Report(Came)
  BY <1>3, <1>4 DEF AsBatch!Report
<1>6. ASSUME NEW u \in runs, u.status = "error"
      PROVE  \E s \in AsBatch!Ran : AsBatch!Dark(Came, s)
  BY <1>1, <1>6, TallyOf
<1>7. ASSUME NEW s \in AsBatch!Ran, AsBatch!Dark(Came, s)
      PROVE  \E u \in runs : u.status = "error"
  <2>1. PICK u \in runs : u.source = s
    BY <1>2
  <2> QED BY <1>1, <1>7, <2>1, TallyOf
<1> QED BY <1>5, <1>6, <1>7 DEF Failures

LEMMA CollectFetchesAll ==
    ASSUME RunInv, RunInv', Collect
    PROVE  AsBatch!FetchAll
<1> USE DEF RunInv, Types, listVars, fetchVars, warehouse, outVars
<1>1. /\ phase = "fetch" /\ phase' = "land"
      /\ UNCHANGED <<listed, malformed, results, loaded, raw, ops, exit>>
  BY DEF Collect
<1>2. loaded = Source
  BY <1>1 DEF PoolInv
<1>3. Fetched = {} /\ Fetched' = {Came'} /\ Came' = Came
  BY <1>1, <1>2, FetchedIsCame DEF PoolLeft, Came, ResultOf
<1>4. malformed = {}
  <2>1. ASSUME NEW b \in malformed PROVE FALSE
    <3>1. SourceOf[b] \in Source /\ ~Loadable(SourceOf[b])
      BY SourceOfAssumption DEF Loadable, Companies
    <3> QED BY <1>2, <3>1 DEF PoolInv
  <2> QED BY <2>1
<1>5. \A b \in listed : \E x \in results : x.board = b
  BY <1>1, PoolAssumption DEF PoolInv, Held
<1>6. ASSUME NEW b \in listed
      PROVE  [error |-> ResultOf(b).error, postings |-> ResultOf(b).postings] \in AsBatch!Outcomes
  <2>1. ResultOf(b) \in Result /\ (ResultOf(b).error => ResultOf(b).postings = 0)
    BY <1>5 DEF ResultOf
  <2> QED BY <2>1 DEF AsBatch!Outcomes, Result
<1>7. Came \in [listed -> AsBatch!Outcomes]
  BY <1>6 DEF Came
<1> QED BY <1>1, <1>3, <1>4, <1>7 DEF AsBatch!FetchAll

(* A board's rows go in once, as many as it came to, whether the landing   *)
(* then returns or raises.                                                 *)
LEMMA RowOf ==
    ASSUME RunInv, phase = "land", NEW x \in results \ landed,
           raw' = [raw EXCEPT ![x.board] = @ + x.postings], UNCHANGED ops
    PROVE  x.board \in listed /\ AsBatch!Rows(x.board)
<1> USE DEF RunInv, Types
<1>1. ops = {} /\ PoolLeft
  BY DEF PoolLeft, PoolInv, LandInv
<1>2. Fetched = {Came}
  BY <1>1, FetchedIsCame
<1>3. \A y \in landed : y.board # x.board
  BY DEF OnePlace
<1>4. x.board \in Board /\ x.postings \in Nat
  BY RowsAssumption DEF Result
<1>5. raw[x.board] = 0
  BY <1>3, <1>4 DEF LandInv
<1>6. x.board \in listed /\ Came[x.board].postings = x.postings
  BY CameOf
<1>7. raw[x.board] + x.postings = Came[x.board].postings
  BY <1>4, <1>5, <1>6
<1>8. raw' = [raw EXCEPT ![x.board] = Came[x.board].postings]
  BY <1>7
<1>9. Came \in Fetched
  BY <1>2
<1> HIDE DEF RunInv, Types
<1> QED BY <1>1, <1>5, <1>6, <1>8, <1>9 DEF AsBatch!Rows

LEMMA LandStores ==
    ASSUME RunInv, NEW x \in results, Land(x)
    PROVE  AsBatch!Store(x.board) /\ x.board \in listed
<1>1. /\ phase = "land" /\ x \notin landed
      /\ raw' = [raw EXCEPT ![x.board] = @ + x.postings]
      /\ UNCHANGED <<listed, malformed, phase, results, loaded, ops, exit>>
  BY DEF Land, listVars, fetchVars, outVars
<1>2. PoolLeft' = PoolLeft
  BY <1>1 DEF PoolLeft
<1>3. Fetched' = Fetched
  BY <1>1, <1>2, FetchedStill
<1>4. x.board \in listed /\ AsBatch!Rows(x.board)
  BY <1>1, RowOf
<1> QED BY <1>1, <1>3, <1>4 DEF AsBatch!Store

(* The tallies are written when everything is stored, and are its report.  *)
LEMMA TalliesOf ==
    ASSUME RunInv, TypeOK, phase = "record", ops' = runs, UNCHANGED raw
    PROVE  AsBatch!Tallies
<1> USE DEF RunInv, Types
<1>1. /\ loaded = Source /\ ops = {}
      /\ \A b \in listed : \E x \in results : x.board = b
      /\ \A s \in ToTally : \E u \in runs : u.source = s
  BY DEF EndInv, LandInv
<1>2. Fetched = {Came}
  BY <1>1, FetchedIsCame DEF PoolLeft
<1>3. ASSUME NEW b \in listed PROVE raw[b] = Came[b].postings
  <2>1. PICK x \in results : x.board = b
    BY <1>1
  <2>2. SourceOf[b] \in ToTally
    BY SourceOfAssumption DEF ToTally, Companies
  <2>3. x \in landed
    BY <1>1, <2>1, <2>2 DEF LandInv, Tallied, ResultsOf
  <2> QED BY <2>1, <2>3, CameOf DEF LandInv
<1>4. runs = AsBatch!Report(Came)
  BY <1>1, RunsAreTheReport
<1> QED BY <1>1, <1>2, <1>3, <1>4 DEF AsBatch!Tallies

LEMMA LandRunsRecords ==
    ASSUME RunInv, TypeOK, LandRuns
    PROVE  AsBatch!Record
<1>1. /\ phase = "record" /\ phase' = "finalize" /\ ops' = runs
      /\ UNCHANGED <<listed, malformed, results, loaded, raw, exit>>
  BY DEF LandRuns, listVars, fetchVars, outVars
<1>2. PoolLeft' = PoolLeft
  BY <1>1 DEF PoolLeft
<1>3. Fetched' = Fetched
  BY <1>1, <1>2, FetchedStill
<1>4. AsBatch!Tallies
  BY <1>1, TalliesOf
<1> QED BY <1>1, <1>3, <1>4 DEF AsBatch!Record

LEMMA FinalizeConcludes ==
    ASSUME RunInv, TypeOK, Finalize
    PROVE  AsBatch!Conclude
<1> USE DEF RunInv, Types, listVars, fetchVars, warehouse, outVars
<1>1. /\ phase = "finalize" /\ phase' = "over" /\ exit' = {ExitCode}
      /\ UNCHANGED <<listed, malformed, results, loaded, raw, ops>>
  BY DEF Finalize
<1>2. /\ loaded = Source /\ ops = runs
      /\ \A s \in ToTally : \E u \in runs : u.source = s
  BY <1>1 DEF EndInv, Finished
<1>3. Fetched = {Came} /\ Fetched' = Fetched
  BY <1>1, <1>2, FetchedIsCame, FetchedStill DEF PoolLeft
<1>4. /\ ops = AsBatch!Report(Came)
      /\ ExitCode = IF \E s \in AsBatch!Ran : AsBatch!Dark(Came, s) THEN 1 ELSE 0
  BY <1>2, RunsAreTheReport DEF ExitCode
<1> QED BY <1>1, <1>3, <1>4 DEF AsBatch!Conclude

(* The handler gives the run up; the write that raised it is that of one   *)
(* board or of the tallies, and was made or not.                           *)
LEMMA RaiseGivesUp ==
    ASSUME RunInv, TypeOK, Raise
    PROVE  AsBatch!GiveUp
<1> USE DEF RunInv, Types, listVars, fetchVars, warehouse, outVars
<1>1. /\ phase' = "over" /\ exit' = {1}
      /\ UNCHANGED <<listed, malformed, results, loaded>>
      /\ phase \in {"ensure", "load", "land", "record"}
      /\ phase = "load" => \E s \in Source \ loaded : ~Loadable(s)
  BY DEF Raise
<1>2. ops = {}
  BY <1>1 DEF LandInv
<1>3. phase \in {"ensure", "load"} => loaded # Source
  BY <1>1, FiniteAssumption DEF PoolInv
<1>4. PoolLeft' = PoolLeft
  BY <1>1, <1>3 DEF PoolLeft
<1>5. Fetched' = Fetched
  BY <1>1, <1>4, FetchedStill
<1>6. CASE UNCHANGED <<raw, ops>>
  BY <1>1, <1>2, <1>5, <1>6 DEF AsBatch!GiveUp
<1>7. ASSUME NEW x \in results \ landed, phase = "land",
             raw' = [raw EXCEPT ![x.board] = @ + x.postings], UNCHANGED ops
      PROVE  AsBatch!GiveUp
  <2>1. x.board \in listed /\ AsBatch!Rows(x.board)
    BY <1>7, RowOf
  <2> QED BY <1>1, <1>2, <1>5, <2>1 DEF AsBatch!GiveUp
<1>8. ASSUME phase = "record", ops' = runs, UNCHANGED raw
      PROVE  AsBatch!GiveUp
  <2>1. AsBatch!Tallies
    BY <1>8, TalliesOf
  <2> QED BY <1>1, <1>2, <1>5, <2>1 DEF AsBatch!GiveUp
<1> QED BY <1>6, <1>7, <1>8 DEF Raise

(* What no one outside the run sees: the list is read, the pool works, the *)
(* results are tallied.                                                    *)
LEMMA InnerStep ==
    ASSUME RunInv,
           \/ EnsureTables \/ Submit \/ AllTallied \/ UNCHANGED vars
           \/ (\E s \in Source : LoadCompanies(s) \/ TallySource(s))
           \/ (\E w \in Worker : Take(w) \/ FetchBoard(w))
    PROVE  UNCHANGED batchVars
<1> USE DEF RunInv, Types, listVars, fetchVars, warehouse, outVars
<1>1. CASE EnsureTables \/ Submit \/ \E s \in Source : LoadCompanies(s)
  <2>1. /\ phase \in {"ensure", "load"} /\ phase' \in {"load", "fetch"}
        /\ UNCHANGED <<listed, malformed, raw, ops, exit>>
    BY <1>1 DEF EnsureTables, Submit, LoadCompanies
  <2> QED BY <2>1, FetchedIsCame DEF PoolLeft, batchVars
<1>2. CASE \E w \in Worker : Take(w) \/ FetchBoard(w)
  <2>1. /\ phase = "fetch" /\ phase' = "fetch"
        /\ UNCHANGED <<listed, malformed, raw, ops, exit>>
    BY <1>2 DEF Take, FetchBoard, PoolInv
  <2> QED BY <2>1, FetchedIsCame DEF PoolLeft, batchVars
<1>3. CASE AllTallied \/ \E s \in Source : TallySource(s)
  <2>1. /\ phase = "land" /\ phase' \in {"land", "record"}
        /\ UNCHANGED <<listed, malformed, results, loaded, raw, ops, exit>>
    BY <1>3 DEF AllTallied, TallySource
  <2>2. PoolLeft' = PoolLeft
    BY <2>1 DEF PoolLeft
  <2> QED BY <2>1, <2>2, FetchedStill DEF batchVars
<1>4. CASE UNCHANGED vars
  <2>1. PoolLeft' = PoolLeft /\ UNCHANGED <<listed, malformed, results, raw, ops, exit>>
    BY <1>4 DEF vars, PoolLeft
  <2> QED BY <2>1, FetchedStill DEF batchVars
<1> QED BY <1>1, <1>2, <1>3, <1>4

LEMMA BatchStep ==
    ASSUME RunInv, RunInv', TypeOK, [Next]_vars
    PROVE  [AsBatch!Next]_batchVars
<1>1. phase # "over" => exit = {}
  BY DEF RunInv, EndInv
<1>2. CASE Collect \/ LandRuns \/ Finalize \/ Raise
  <2>1. phase # "over"
    BY <1>2 DEF Collect, LandRuns, Finalize, Raise
  <2> QED BY <1>1, <1>2, <2>1, CollectFetchesAll, LandRunsRecords, FinalizeConcludes,
             RaiseGivesUp DEF AsBatch!Next
<1>3. ASSUME NEW x \in results, Land(x) PROVE AsBatch!Next
  <2>1. phase # "over"
    BY <1>3 DEF Land
  <2> QED BY <1>1, <1>3, <2>1, LandStores DEF AsBatch!Next
<1> QED BY <1>2, <1>3, InnerStep, StepCases

(* However the threads interleave, to the warehouse and the exit code a    *)
(* run is one that fetched all boards at one moment: every step of the     *)
(* program is a step of Batch or changes nothing of it.                    *)
THEOREM RunImplementsBatch == Spec => RunIsABatch
<1>1. Init => AsBatch!Init
  BY DEF Init, AsBatch!Init, Fetched
<1>2. RunInv /\ RunInv' /\ TypeOK /\ [Next]_vars => [AsBatch!Next]_batchVars
  BY BatchStep
<1>3. Spec => [][AsBatch!Next]_batchVars
  BY <1>2, RunHolds, TypeCorrect, PTL DEF Spec
<1> QED BY <1>1, <1>3, PTL DEF Spec, RunIsABatch, AsBatch!Spec, batchVars
=============================================================================
