------------------------------ MODULE Workflow ------------------------------
(***************************************************************************)
(* A run of .github/workflows/ingest.yml from end to end: fetch, land,     *)
(* summarise, surface the warnings, build silver and gold, pass the        *)
(* freshness gate, read the digest's watermark, query, send and record.    *)
(* The runs share the warehouse: the raw tables, silver, gold and          *)
(* ops.digest_runs.                                                        *)
(*                                                                         *)
(* Nothing in the workflow keeps two of its runs apart, so Runner is a     *)
(* set; with one element the runs are sequential.  A step of a run may     *)
(* fail at any point and a runner may die there (Abort): the job ends and  *)
(* a later run starts afresh.  A load job does not outlive its runner: it  *)
(* is in the table or it is not when the run is over.                      *)
(*                                                                         *)
(* The company list and the settings do not change, except that the SMTP   *)
(* secrets may be set after some runs.  Raw partitions do not expire here  *)
(* (Retention has that).  MaxNow and MaxRuns bound TLC.                    *)
(***************************************************************************)
EXTENDS Lifecycle, FiniteSets

CONSTANTS
    Runner,     \* workflow runs that may be in progress at once
    Source,     \* registered sources, one raw table each
    SourceOf,   \* [Board -> Source]; Board is the listed, active boards
    GateError,  \* error_after of the freshness gate
    Lookback,   \* digest_lookback_hours
    Places,     \* the places postings take in this instance
    Absent,     \* the board does not list the job
    MaxNow,     \* bound: idle time passes only up to here
    MaxRuns     \* bound: runs started

ASSUME SourceAssumption == SourceOf \in [Board -> Source]
ASSUME FiniteAssumption == IsFiniteSet(Board)
ASSUME TimesAssumption ==
    GateError \in Nat /\ Lookback \in Nat /\ MaxNow \in Nat /\ MaxRuns \in Nat
ASSUME PlacesAssumption == Places \subseteq Place /\ Absent \notin Place

VARIABLES
    now,        \* the wall clock
    raw,        \* rows of the raw tables
    silver,     \* the table silver_jobs
    gold,       \* the table fct_job_postings
    ledger,     \* watermarks in ops.digest_runs
    smtp,       \* the SMTP secrets are set
    stage,      \* what each runner does next, or how its last run ended
    failed,     \* boards whose fetch failed in the run
    haul,       \* fetched postings not yet landed
    loading,    \* stamped rows whose load job is running
    summary,    \* the run wrote ingest_summary.json
    wm,         \* the watermark the digest step read
    batch,      \* the rows its query returned
    runs,       \* runs started so far
    delivered,  \* observer: digests each job was mailed in
    tooOld,     \* observer: gold rows below a bootstrap window
    hidden,     \* observer: jobs kept out of gold when a watermark passed them
    lost        \* observer: mails that went out and were not recorded

tables == <<raw, silver, gold, ledger>>
ingestVars == <<failed, haul, loading, summary>>
digestVars == <<wm, batch>>
observers == <<delivered, tooOld, hidden, lost>>
vars == <<now, tables, smtp, stage, ingestVars, digestVars, runs, observers>>

Active == {"fetch", "land", "report", "warnings", "silver", "gold", "gate",
           "watermark", "query", "send", "record"}
Ended == {"idle", "done", "unmailed", "faulted",
          "ingest failed", "warnings failed", "gate failed"}

Posting == [job : Job, place : Place]
GoldRow == [job : Job, first : Nat]
SilverRows == [job : Job, place : Place, first : Nat, last : Nat, active : BOOLEAN]

TypeOK ==
    /\ now \in Nat
    /\ raw \in SUBSET Row
    /\ silver \in SUBSET SilverRows
    /\ gold \in SUBSET GoldRow
    /\ ledger \in SUBSET Nat
    /\ smtp \in BOOLEAN
    /\ stage \in [Runner -> Active \cup Ended]
    /\ failed \in [Runner -> SUBSET Board]
    /\ haul \in [Runner -> SUBSET Posting]
    /\ loading \in [Runner -> SUBSET Row]
    /\ summary \in [Runner -> BOOLEAN]
    /\ wm \in [Runner -> Int]
    /\ batch \in [Runner -> SUBSET GoldRow]
    /\ runs \in Nat
    /\ delivered \in [Job -> Nat]
    /\ tooOld \in SUBSET GoldRow
    /\ hidden \in SUBSET Job
    /\ lost \in Nat

Init ==
    /\ now = 0
    /\ raw = {} /\ silver = {} /\ gold = {} /\ ledger = {}
    /\ smtp \in BOOLEAN
    /\ stage = [r \in Runner |-> "idle"]
    /\ failed = [r \in Runner |-> {}]
    /\ haul = [r \in Runner |-> {}]
    /\ loading = [r \in Runner |-> {}]
    /\ summary = [r \in Runner |-> FALSE]
    /\ wm = [r \in Runner |-> 0]
    /\ batch = [r \in Runner |-> {}]
    /\ runs = 0
    /\ delivered = [j \in Job |-> 0]
    /\ tooOld = {} /\ hidden = {}
    /\ lost = 0

GoTo(r, s) == stage' = [stage EXCEPT ![r] = s]

-----------------------------------------------------------------------------
(* The world: time, the owner, and the cron or a dispatch.                 *)
Elapse ==
    /\ now < MaxNow
    /\ now' = now + 1
    /\ UNCHANGED <<tables, smtp, stage, ingestVars, digestVars, runs, observers>>

ConfigureMail ==
    /\ ~smtp
    /\ smtp' = TRUE
    /\ UNCHANGED <<now, tables, stage, ingestVars, digestVars, runs, observers>>

(* A fresh virtual machine: nothing is left of the runner's last run.      *)
Start(r) ==
    /\ stage[r] \in Ended /\ runs < MaxRuns
    /\ runs' = runs + 1
    /\ failed' = [failed EXCEPT ![r] = {}]
    /\ haul' = [haul EXCEPT ![r] = {}]
    /\ summary' = [summary EXCEPT ![r] = FALSE]
    /\ wm' = [wm EXCEPT ![r] = 0]
    /\ batch' = [batch EXCEPT ![r] = {}]
    /\ GoTo(r, "fetch")
    /\ UNCHANGED <<now, tables, smtp, loading, observers>>

-----------------------------------------------------------------------------
(* make ingest                                                             *)

(* _fetch_all: every board fails or returns what it lists.                 *)
Returned_Unfiltered(shown, bad) ==
    {[job |-> j, place |-> shown[j]] : j \in {j \in Job : BoardOf[j] \notin bad}}
Returned(shown, bad) ==
    {[job |-> j, place |-> shown[j]] :
        j \in {j \in Job : BoardOf[j] \notin bad /\ shown[j] # Absent}}

Fetch(r) ==
    /\ stage[r] = "fetch"
    /\ \E shown \in [Job -> Places \cup {Absent}], bad \in SUBSET Board :
         /\ failed' = [failed EXCEPT ![r] = bad]
         /\ haul' = [haul EXCEPT ![r] = Returned(shown, bad)]
    /\ GoTo(r, "land")
    /\ UNCHANGED <<now, tables, smtp, loading, summary, digestVars, runs, observers>>

(* storage.land of board b: _posting_rows reads the clock once for all of  *)
(* its rows, and the rows are in the table when the load job is done.  A   *)
(* board without postings has no rows to stamp.                            *)
Stamp(r, b) ==
    LET mine == {p \in haul[r] : BoardOf[p.job] = b}
    IN  /\ stage[r] = "land" /\ loading[r] = {} /\ mine # {}
        /\ now' = now + 1
        /\ loading' = [loading EXCEPT ![r] =
             {[job |-> p.job, place |-> p.place, at |-> now + 1] : p \in mine}]
        /\ haul' = [haul EXCEPT ![r] = @ \ mine]
        /\ UNCHANGED <<tables, smtp, stage, failed, summary, digestVars, runs, observers>>

Load(r) ==
    /\ stage[r] = "land" /\ loading[r] # {}
    /\ raw' = raw \cup loading[r]
    /\ loading' = [loading EXCEPT ![r] = {}]
    /\ UNCHANGED <<now, silver, gold, ledger, smtp, stage, failed, haul, summary,
                   digestVars, runs, observers>>

Landed(r) ==
    /\ stage[r] = "land" /\ haul[r] = {} /\ loading[r] = {}
    /\ GoTo(r, "report")
    /\ UNCHANGED <<now, tables, smtp, ingestVars, digestVars, runs, observers>>

(* The source ran and not one of its boards was fetched.                   *)
AllFailed_Never(r, s) == FALSE
AllFailed(r, s) ==
    LET listed == {b \in Board : SourceOf[b] = s}
    IN  listed # {} /\ listed \subseteq failed[r]

(* land_runs and _finalize: the summary is written, unless the disk        *)
(* refuses and the error is only logged; the exit code follows the         *)
(* sources.                                                                *)
Report(r) ==
    /\ stage[r] = "report"
    /\ \E written \in BOOLEAN : summary' = [summary EXCEPT ![r] = written]
    /\ GoTo(r, IF \E s \in Source : AllFailed(r, s) THEN "ingest failed" ELSE "warnings")
    /\ UNCHANGED <<now, tables, smtp, failed, haul, loading, digestVars, runs, observers>>

(* Surface warnings: jq reads the summary.                                 *)
Surface(r) ==
    /\ stage[r] = "warnings"
    /\ GoTo(r, IF summary[r] THEN "silver" ELSE "warnings failed")
    /\ UNCHANGED <<now, tables, smtp, ingestVars, digestVars, runs, observers>>

-----------------------------------------------------------------------------
(* make dbt-prod, one table after the other; make freshness                *)
BuildSilver(r) ==
    /\ stage[r] = "silver"
    /\ silver' = Silver(raw)
    /\ GoTo(r, "gold")
    /\ UNCHANGED <<now, raw, gold, ledger, smtp, ingestVars, digestVars, runs, observers>>

BuildGold(r) ==
    /\ stage[r] = "gold"
    /\ gold' = Offered(silver)
    /\ GoTo(r, "gate")
    /\ UNCHANGED <<now, raw, silver, ledger, smtp, ingestVars, digestVars, runs, observers>>

(* max(ingested_at) of the source's table is within the error limit: never *)
(* so for an empty table, whether or not the source has a board.           *)
Fresh(s) ==
    \E q \in raw : SourceOf[BoardOf[q.job]] = s /\ now <= q.at + GateError

Gate(r) ==
    /\ stage[r] = "gate"
    /\ GoTo(r, IF \A s \in Source : Fresh(s) THEN "watermark" ELSE "gate failed")
    /\ UNCHANGED <<now, tables, smtp, ingestVars, digestVars, runs, observers>>

-----------------------------------------------------------------------------
(* make deliver                                                            *)

(* Without credentials the digest is skipped and the run is a success.     *)
SkipMail(r) ==
    /\ stage[r] = "watermark" /\ ~smtp
    /\ GoTo(r, "unmailed")
    /\ UNCHANGED <<now, tables, smtp, ingestVars, digestVars, runs, observers>>

Latest(L, w) == w \in L /\ \A v \in L : v <= w

(* The last recorded watermark, or the bootstrap window when there is none.*)
ReadWatermark(r) ==
    /\ stage[r] = "watermark" /\ smtp
    /\ \/ \E w \in ledger :
            /\ Latest(ledger, w)
            /\ wm' = [wm EXCEPT ![r] = w]
            /\ UNCHANGED tooOld
       \/ /\ ledger = {}
          /\ wm' = [wm EXCEPT ![r] = now - Lookback]
          /\ tooOld' = tooOld \cup {g \in gold : g.first <= now - Lookback}
    /\ GoTo(r, "query")
    /\ UNCHANGED <<now, tables, smtp, ingestVars, batch, runs, delivered, hidden, lost>>

(* first_seen_at > watermark                                               *)
IsNew_NotBefore(g, w) == g.first >= w
IsNew_RoundedUp(g, w) == g.first > w + 1
IsNew(g, w) == g.first > w

Query(r) ==
    /\ stage[r] = "query"
    /\ batch' = [batch EXCEPT ![r] = {g \in gold : IsNew(g, wm[r])}]
    /\ GoTo(r, "send")
    /\ UNCHANGED <<now, tables, smtp, ingestVars, wm, runs, observers>>

(* The mail is accepted: a digest, or the heartbeat when there is nothing  *)
(* to send, which leaves the ledger alone.                                 *)
AfterSend_AlwaysRecord(b) == "record"
AfterSend(b) == IF b = {} THEN "done" ELSE "record"

Send_FailureSwallowed(r) ==
    /\ stage[r] = "send"
    /\ GoTo(r, AfterSend(batch[r]))
    /\ UNCHANGED <<now, tables, smtp, ingestVars, digestVars, runs, observers>>

Send(r) ==
    /\ stage[r] = "send"
    /\ delivered' = [j \in Job |->
         IF \E g \in batch[r] : g.job = j THEN delivered[j] + 1 ELSE delivered[j]]
    /\ GoTo(r, AfterSend(batch[r]))
    /\ UNCHANGED <<now, tables, smtp, ingestVars, digestVars, runs,
                   tooOld, hidden, lost>>

(* land_digest: the watermark is the newest first_seen_at of the batch.    *)
IsNewest(b, w) == \A g \in b : g.first <= w

(* Jobs that were in raw by w and not in gold: the next digests skip them. *)
Passed(w) ==
    {q.job : q \in {q \in raw : /\ IsFirst(raw, q) /\ q.at <= w
                                /\ \A g \in gold : g.job # q.job}}

Record(r) ==
    /\ stage[r] = "record"
    /\ \E w \in {g.first : g \in batch[r]} :
         /\ IsNewest(batch[r], w)
         /\ ledger' = ledger \cup {w}
         /\ hidden' = hidden \cup Passed(w)
    /\ GoTo(r, "done")
    /\ UNCHANGED <<now, raw, silver, gold, smtp, ingestVars, digestVars, runs,
                   delivered, tooOld, lost>>

-----------------------------------------------------------------------------
(* A step fails, or the runner is gone.  The rows of a load job in flight  *)
(* are in the table or they are not; a mail that was accepted stays so.    *)
Abort(r) ==
    /\ stage[r] \in Active
    /\ \E there \in SUBSET loading[r] :
         /\ there \in {{}, loading[r]}
         /\ raw' = raw \cup there
    /\ loading' = [loading EXCEPT ![r] = {}]
    /\ lost' = IF stage[r] = "record" THEN lost + 1 ELSE lost
    /\ GoTo(r, "faulted")
    /\ UNCHANGED <<now, silver, gold, ledger, smtp, failed, haul, summary, digestVars,
                   runs, delivered, tooOld, hidden>>

Ingest(r) == Fetch(r) \/ (\E b \in Board : Stamp(r, b)) \/ Load(r) \/ Landed(r) \/ Report(r)
Transform(r) == Surface(r) \/ BuildSilver(r) \/ BuildGold(r) \/ Gate(r)
Deliver(r) == SkipMail(r) \/ ReadWatermark(r) \/ Query(r) \/ Send(r) \/ Record(r)
Step(r) == Ingest(r) \/ Transform(r) \/ Deliver(r)

Next ==
    \/ Elapse \/ ConfigureMail
    \/ \E r \in Runner : Start(r) \/ Step(r) \/ Abort(r)

Spec == Init /\ [][Next]_vars

(* A run that is under way goes on: no step of the job waits for another   *)
(* run, and the runner's time limit ends a step that hangs.                *)
FairSpec == Spec /\ \A r \in Runner : WF_vars(Step(r))
-----------------------------------------------------------------------------
(* What the digest owes a reader: it was mailed, it was older than the     *)
(* window of a first digest, or it was not in gold (wrong place, taken     *)
(* down, stale board) when a digest moved the watermark past it.           *)
Settled(j) ==
    \/ delivered[j] > 0
    \/ j \in hidden
    \/ \E t \in tooOld : t.job = j

(* No silent loss: a posting in gold is settled, or it is ahead of every   *)
(* watermark recorded, so that the next successful run will mail it -      *)
(* whatever failed before.  (digest.run, storage.land_digest)              *)
NoSilentLoss == \A g \in gold : Settled(g.job) \/ \A w \in ledger : w < g.first

(* A run that ended well after its digest step left nothing in gold        *)
(* unsettled.                                                              *)
DoneMeansDelivered ==
    \A r \in Runner : stage[r] = "done" => \A g \in gold : Settled(g.job)

(* A posting is mailed once, and once more only for each time a run died   *)
(* between the mail and the ledger.                                        *)
DuplicatesNeedACrash == \A j \in Job : delivered[j] <= 1 + lost

(* A source that is dark stops the run before anything is mailed: a run    *)
(* that ends well has fetched a board of every registered source, and the  *)
(* warehouse holds a posting of each.                                      *)
DarkSourceStopsTheRun ==
    \A r \in Runner : stage[r] \in {"done", "unmailed"} =>
        \A s \in Source :
            /\ \E b \in Board : SourceOf[b] = s /\ b \notin failed[r]
            /\ \E q \in raw : SourceOf[BoardOf[q.job]] = s

(* The digest is an outbox (module Outbox): gold is the shelf, and due is  *)
(* what is ahead of every watermark.                                       *)
Due == {g.job : g \in {g \in gold : \A w \in ledger : w < g.first}}

Promise == INSTANCE Outbox WITH
    Item <- Job,
    shelf <- {g.job : g \in gold},
    due <- Due,
    settled <- {j \in Job : Settled(j)},
    opened <- ledger # {}

KeepsThePromise == Promise!Spec

(* Every run that starts ends, well or badly.                              *)
RunEnds == \A r \in Runner : stage[r] \in Active ~> stage[r] \in Ended

(* ingest.yml: warnings must never be able to fail the run.                *)
WarningsNeverFail == \A r \in Runner : stage[r] # "warnings failed"
=============================================================================
