# Verification of the job search pipeline

TLA+ modules that model the parts of this repository whose correctness depends on
order, failure and time, the TLC configurations that check them on small instances,
and proofs that TLAPS checks for instances of any size. The reference is the code
under `src/`; where a document and the code disagree, the modules follow the code
and the disagreement is listed under [Divergences](#divergences).

- [The system](#the-system)
- [Modules and the code](#modules-and-the-code)
- [Runs](#runs)
- [Fairness](#fairness)
- [Proofs](#proofs)
- [Divergences](#divergences)
- [Not modelled](#not-modelled)
- [Plan](#plan)

## The system

```
 spreadsheet -> discovery -> inventory -> update-company-list -> variable
                (ats_audit)               (merge, validate, export)   |
                                                                      v
 ATS APIs -> adapters -> fetch pool -> land -> raw tables -> dbt -> gold -> digest
             (sources)   + limiter     (storage)            silver        + ledger
             '------------------ one run of ingest.yml -------------------------'
```

| Component | State it keeps | Operations | What makes it correct |
|---|---|---|---|
| HTTP layer, `shared/http.py` | next free slot per host, under a lock | `acquire`, `get_json`, urllib3's retries | slots of a host an interval apart whatever thread gets the lock first; no thread waits for another host; every GET ends |
| Ingestion run, `ingest/pipeline.py` | per-run lists: companies, results, tallies; summary file; exit code | provision, load companies, fetch on a pool, land, tally, record, finalize, the catch-all handler | a board is fetched once; exit 0 and a quiet summary mean what they say; a bad list stops before the first fetch |
| Source adapters, `ingest/adapters/`, `ingest/sources.py` | none but the locals of a fetch | list, page, detail, collapse, fall back to the other shard | what a fetch misses or repeats is bounded by what moved on the board meanwhile; a missing board is told from an outage; a fetch ends |
| Storage, `shared/storage.py` | raw tables, `ops.ingest_runs`, `ops.digest_runs` | ensure, land, land_runs, latest_digest_watermark, land_digest | rows of a landing share a stamp; the ledger never passes a posting nobody was told of |
| dbt models, `dbt/models/` | `silver_jobs`, `fct_job_postings` (rebuilt by every run) | build silver, build gold, freshness | gold is what the boards last showed, no more and no less |
| Digest, `deliver/digest.py` | none but the ledger | read watermark, query, send, record | every posting in gold is mailed, and once |
| Workflow, `.github/workflows/ingest.yml` | the runner's disk | the steps above in order, each may fail | a dark source stops the run; a run ends |
| Audit of a company, `ats_audit.py`: `audit`, `probe_record` | the tab, the hits so far, the verdict | render, find careers, scan, hop, judge, probe | what showed on a page is never judged away; a failure costs one look, one page or one guess |
| Discovery batch, `ats_audit.py`: `run`, `probe_unknowns` | audit cache, inventory | load, resume, audit, checkpoint, probe, emit | between two saves less than a checkpoint is at stake; results land at their own company |
| Company list, `ingest/merge_companies.py`, `validate_companies.py`, `export_companies.py`, `Makefile` | master, backup, projection, the repository variable | copy, merge, validate, project, push | what the owner wrote wins and is recoverable; what is pushed is fit |
| Categorizer notebook, feed probe | a results sheet; none | ask a language model; print which endpoints answer | used by hand |
| Redaction and whois, settings, bronze models and seeds | none | - | stateless |

They interact through shared state, not calls: the run and the digest through the
warehouse, the run and later steps through `ingest_summary.json`, one run and the next
through the raw tables and the ledger, the owner's machine and the scheduled run through
the repository variable. Inside a run the only threads are the fetch pool's, and the only
state they share is the limiter; landing is on the main thread.

The hard parts, and hence the hazards `PROJECT.json` lists line by line: threads that
read the clock before they have the lock; a watermark computed from rows that other
boards, other runs and other failures stamp; windows over a table whose rows arrive in
batches and expire; boards that change between the pages of one walk; page requests that
call back between any two looks at the page; steps that fail after the mail is out, after the file is truncated,
after half of the boards have landed; documents written as if none of these happened.

## Modules and the code

Modules are kept apart the way the components are; each has Init, one action per
operation, and its properties at the end. A parameter is a CONSTANT with a named
assumption, and every bound for TLC is named as a bound. An operator with a suffix
(`IsNew_RoundedUp`) is a faulty variant of the one it precedes: nothing uses it, it is
what a property must be able to tell from the code.

**RateLimiter** - `shared/http.py`. A worker's locals are variables (`readAt`, `slot`,
`wakeAt`, `retries`). `Start` is `get_json` up to the clock reading, `Reserve` the
critical section and the delay computed from the *earlier* reading, `Send` the end of the
sleep, `Fault` a retry inside urllib3, which does not come back through the limiter,
`Answered` the return. Time is discrete. `Tick` may not pass a thread that is `Overdue`:
that is the scheduling lag `MaxLag`, the only timing assumption. `slots`
observes what was reserved and `sent` the first request of each GET; retries are sent, but
no property is about when.

**Lifecycle** - the dbt models as operators on a set of raw rows: `IsFirst` and
`IsCurrent` are the windows of `silver_jobs.sql`, `SinceBoardLast` and `BoardFresh` the two
clauses of `is_active`, `LocationOK` the location gate, `Silver`, `Offered` and `Gold` the
tables. Columns that annotate and order (matches, score) are left out.

**Retention** extends Lifecycle with time: `Ingest(b)` lands what board `b` shows,
`Expire` drops partitions, and gold is computed from the rows left. It answers what
gold means over weeks, and has one atomic landing. `sighted` observes every posting a landing
saw, and when.

**Workflow** extends Lifecycle with runs: `Fetch`, `Stamp` (the clock, read once per
landing), `Load` (the rows become visible), `Report`, `Surface`, `BuildSilver`, `BuildGold`,
`Gate`, `ReadWatermark`, `Query`, `Send`, `Record`, each a step of its own, and `Abort` at
any of them. `Runner` is a set because nothing in the workflow keeps two runs apart.
`stage[r]` is the step a run is at, or how it ended. It answers what a reader of the
digest can rely on.

**Outbox** - that answer as an abstract specification, without runs, tables, watermarks or
clocks: items come and go on a shelf, what comes is due, a mailing carries all that is due,
an acknowledgement needs it mailed. Workflow implements it
(`KeepsThePromise == Promise!Spec`) under the mapping: shelf is gold, due is what is ahead
of every watermark (`Due`), settled is mailed, too old or hidden, opened is a non-empty
ledger. `BuildGold` maps to `Restock`, `Send` to `Mail`, `Record` to `Acknowledge`,
`ReadWatermark` to `WriteOff` while the ledger is empty, and every other step stutters.

**Ingest** - `_run` in detail, for one run: the pool (`Take`, `FetchBoard`, `Collect`),
`Land` board by board, `TallySource`, `LandRuns`, `Finalize`, and `Raise` for the handler of
everything that escapes: a write is waited for after it was submitted (`storage.py:331-332`),
so it may raise with its rows in the table. A summary is there, absent or cut short. Workflow's `Fetch` ... `Report` are the same phases seen from the
warehouse; Ingest has the counts, the statuses, the summary and the exit code.

**Batch** - what such a run promises, as an abstract specification without threads, phases
or an order of boards: `FetchAll` fetches every board of a good list at one moment, `Store`
stores what one of them returned, `Record` writes the tallies of all sources once everything
is stored, `Conclude` gives the verdict of the outcomes, `GiveUp` ends a run that has no
record yet, its last write made or not. Ingest implements it (`RunIsABatch == AsBatch!Spec`) under the mapping: stored
is raw, recorded is ops, verdict is exit, and fetched is what each board came to once the
pool is left. `Collect` maps to `FetchAll`, `Land` to `Store`, `LandRuns`
to `Record`, `Finalize` to `Conclude`, `Raise` to `GiveUp`, and every other step stutters.

**Adapters** - `fetch`, one request after another. `Access` sorts the nine sources by how
they get at a board: in one reply; so, from one of two shards; a list and a detail for each
posting; so, with a row per place; so, with pages. The board changes between requests
(`Open`, `Close`, `MoveUp`), a request may fail, and SmartRecruiters' API may miscount or
repeat a page (`Quirks`). `FetchAgain` is the next run. A posting is an id and the places
kept of it: one (`Listed`), but for Rippling, whose rows per place are collapsed;
retries and pacing below a request are RateLimiter's, and the order in which Rippling's
collapsed rows come is left out.

**Audit** - one company in `ats_audit.py`: `audit` from the home page over `find_careers`,
`scan_dom` and the second hop to the judgement, then `probe_record`. A step ends at the next
`await`, and `Request`, the page's `on_req`, may come between any two. What the sites show
is a constant (`Sites`); a load may fail with the old or the new page in the tab, a look may
fail, the browser may die.

**Discovery** - the batch around it. A page or an API is a `Verdict`. `Finish` takes the next
result in any order (`asyncio.as_completed`), `OpenCache` and `WriteCache` are the two
halves of `write_csv`, `Crash` may fall between them. `Hang(i)` is an audit that never comes
back: it keeps its slot of the semaphore (`SlotFree`). `Resumed` is `load_done` with its
rule that the last row of a key counts.

**CompanyList** - `make update-company-list` as a chain of steps (`Copy`, `Read`, `Merge`
for each row found, `OpenMaster`, `WriteMaster`, `Validate`, `Project`, and `Die` at each),
with the owner's edits, restores and pushes between updates. `Layer` is one turn of
`merge`'s loop. A failing `cp` does not
stop the target, as in the Makefile, and leaves the old backup or a part of the master. A
death leaves any rows of the file being written, and of the projection also one row cut in
the middle (`Cut`).

Each of the eight modules with behaviour has its theorems in a module of its own,
`<module>_proofs`, which extends it; Lifecycle is proved about in `Retention_proofs` and
`Workflow_proofs`, Outbox in `Workflow_proofs`, Batch in `Ingest_proofs`. The `MC` modules
give the constants for TLC. `TypeOK` is proved for all eight (Audit's as a part of
`AuditInv`) and is part of the runs of RateLimiter and Workflow; the other runs go to the
properties that the code could get wrong.

## Runs

A passing run explores its whole state space, the longest in about two and a half minutes.
Where `CHECK_DEADLOCK FALSE` is set the bounds on runs and time stop the model where the
program would be started again; `RateLimiter` has an explicit `Finished` instead.

| Run | Instance | Shows |
|---|---|---|
| RateLimiter_gets | 2 threads, intervals 2 and the default 1, 3 GETs, 1 retry, lag 1 | slots of one host apart, first attempts apart up to the lag, waits behind one's own host only, no slot reserved for nobody; every GET ends |
| Retention_gold | 2 boards, 3 postings, grace 1, expiry 3, 5 instants | gold holds what the boards last showed, all of it, and nothing of a stale board; what was seen within the retention does not look new |
| Retention_takendown | the same | **violated**: a board that shows nothing any more keeps its postings in gold |
| Workflow_runs | 3 sequential runs, 2 sources, any boards failing, any step failing, mail configured late | no silent loss, a good end delivered everything, one mail per posting and lost record, a dark source stops the run; every run ends; Workflow implements Outbox |
| Workflow_overlap | 2 overlapping runs | **violated**: a posting is lost behind the other run's watermark |
| Workflow_warnings | 1 run | **violated**: a missing summary fails the step that must never fail |
| Ingest_run | 3 boards, 2 sources, 2 threads, every list, every outcome | one result per board, success and silence mean completeness, ops agrees with raw, a bad list fetches nothing, the run exits; Ingest implements Batch |
| Discovery_resume | 3 companies, 2 sheets, 2 runs, saves after 2, 2 pages at once | every company audited, less than a checkpoint unsaved, what is emitted is saved, saved boards survive, a run ends unless pages hang |
| CompanyList_update | 2 companies, 3 boards, 2 updates, 2 edits | the owner's rows win and are recoverable, a merge settles, the pushed list is fit |
| Adapters_fetch | all five ways, boards of 0 and 4 postings in pages of 2, 2 changes, 1 fault, every quirk | what a walk misses or repeats is bounded by what moved, collapsed rows keep their places, an outage is no missing board; a fetch ends, a board that is up recovers |
| Adapters_paging | SmartRecruiters, an honest API, no fault | **violated**: a posting listed all along is not in hand |
| Audit_verdict | sites of 4 pages that call, show or mention a board or an aggregator, 2 hops, 3 guesses | what was seen is judged, the crawl stops at the first sight, the probe asks on through failures and empty boards |

Why the bounds are enough. *RateLimiter*: a wrong slot needs two threads on one host, one
that read early and one that got the lock first; a wrong wait needs another host, with an
interval of its own; three GETs let one thread come back. More threads and GETs are left to
the proofs. *Retention*: a job's rows need two landings, a
taken-down posting needs a sibling that stays, staleness a second board, expiry four
instants. *Workflow*: losing a posting needs one run that stamps and fails, one that
records, and one that should deliver: three. *Ingest*: a source with two boards can fail
in part, one with a single board only as a whole. *Discovery*: a second run resumes from
the first one's cache; three companies with a save after two leave both a full and a
partial checkpoint, and with two slots one hung page slows the run and two stop it. *Adapters*: a posting crosses
a page boundary with one change, two make one leave and one come; two pages and an empty
board are the shapes that a count can be wrong about. *Audit*: a request can come on the
page before the one that shows, one candidate shows nothing and the next does, and of
three guesses one can fail, one be empty and one answer. *CompanyList*: the second update is the one that finds a torn
master and overwrites the backup. The proofs lift these bounds from every safety property.

Some properties carry an observer that a reader should know. `NoSilentLoss` counts a
posting as settled if it was mailed, if it was below a bootstrap window (`tooOld`), or if
it was not in gold when a watermark passed it (`hidden`: a wrong place, taken down, a
stale board): the code promises no more. `BoardsSurvive` and `EditsRecoverable` exempt a
file whose last write a death cut short, resp. a backup that is not a whole copy of an
intact master: the code writes in place and protects neither. `CheckpointBoundsTheLoss` is
about a run between its saves and on its way to one, and says nothing of the moment in which
the cache is open: a death then may leave a part of it or none. `PushedListIsFit` exempts a
projection that a death cut in the middle of a row (`cut`). `NotNewAgain` is bounded by the
retention: when the first row of a posting expires, its `first_seen_at` moves on.

## Fairness

Only liveness uses it. Each assumption is what the code's own timeouts give; where there is no
timeout there is none.

- `RateLimiter`: the lock is granted and `time.sleep` returns (weak fairness of each
  worker's step), the clock runs; a GET in flight ends because requests carry a timeout
  and retries are counted. The same worker's `Start` is not fair: nobody must call.
- `Workflow`: a run's next step is taken. No step waits for another run, and the job's
  time limit ends one that hangs (as a failure, `Abort`, which is not fair).
- `Ingest`: the main thread and every worker go on; a fetch ends by the above.
- `Adapters`: a request is answered or times out, and the cron starts the next run. The
  employer's changes are bounded: `BoardRecovers` is about a board that has come to rest.
- `Discovery`: the process goes on: navigation and probes carry timeouts, so an audit that
  does not hang ends. Asking a page for its links or its HTML carries none
  (`page.evaluate`, `ats_audit.py:254, 269, 326`; `page.content`, 342), and the loop waits for
  every audit (445): such a page hangs its audit, and `Hang` is outside of the fairness, as is
  `Crash`. `DiscoveryEnds` therefore says that a run ends or is `Stuck`: pages hang, and no
  other audit is left or no slot for it.

## Proofs

TLAPS (SMT, Zenon, LS4) checks the theorems for every value of the constants under the
named assumptions of the modules: any number of threads, boards, postings, sheets, updates,
pages, and changes between two requests. Each proof module states its inductive invariant
first, then how each action keeps it.

| Module | Theorem | Property | Argument |
|---|---|---|---|
| RateLimiter | `TypeCorrect` | `TypeOK` | inductive by itself |
| | `SlotsAlwaysSpaced`, `WaitsAreOwnHosts` | `SlotsSpaced`, `WaitsOnlyForOwnHost` | `ReservationInv`: every slot ends by `nextAllowed`, and a positive `nextAllowed` is the end of a slot. Spacing alone is not inductive: it does not say where the next slot may go |
| | `FirstAttemptsAlwaysSpaced` | `FirstAttemptsSpaced` | `SendInv`: a thread is on time, works at a GET of its own, and its first attempt leaves within `MaxLag` of a slot of `slots`; then slots apart means attempts apart |
| | `BacklogAlwaysBounded` | `BacklogBounded` | `BacklogInv`: the bound holds for every moment `t` to come, counting those still asleep at `t`. At the present moment alone it is lost when a thread leaves the queue |
| | `LateThreadsCanRun`, `EveryLineIsProgress` | | `SleepsInTime`: a sleep ends within `MaxLag` of its slot, so the clock never waits for a thread that is still asleep; progress, below |
| Workflow | `TypeCorrect` | `TypeOK` | inductive, for any number of overlapping runs |
| | `NothingIsLostSilently` | `NoSilentLoss` | `DeliveryInv` (below): from `LedgerSettled` and `GoldFirsts` |
| | `DoneDeliversAll` | `DoneMeansDelivered` | a conjunct of `DeliveryInv` |
| | `MailedOncePerCrash` | `DuplicatesNeedACrash` | `OnceInv`: a job mailed once more than mails were lost is behind a watermark or awaits its record |
| | `WorkflowIsAnOutbox` | `KeepsThePromise` | step by step (below) |
| | `DarkSourceStopsEveryRun` | `DarkSourceStopsTheRun` | `SourcesInv`: beyond `Report` no source of the run failed altogether; beyond `Gate` every source has rows. No assumption on overlap |
| | `NobodyWaitsForever`, `EveryStepIsProgress` | | `PastInv`: no table has a stamp later than the clock, so a ledger or a batch that is not empty has a newest member to go on with; progress, below. No assumption on overlap |
| Retention | `TypeCorrect` | (`TypeOK`) | from `IngestParts`, a landing by its parts |
| | `GoldIsLive`, `LiveIsOffered` | `GoldWasSeenLive`, `SeenIsActive` | `RowsFollowLandings`: rows are no later than their board's last landing, those with its stamp are postings it saw, and a landing is missing from the table only when nothing as old is left. The last part is what expiry by age gives: while a board or a posting has rows left, those of its last landing are among them |
| | `NothingIsNewTwice` | `NotNewAgain` | `SightedKept`, a part of the same invariant: a sighting has its row until the retention is over |
| Ingest | `EveryBoardOnce`, `BadListStops`, `SuccessHolds`, `HealthyHolds` | `OneResultPerBoard`, `BadListFetchesNothing`, `SuccessIsComplete`, `HealthyMeansComplete` | `RunInv`: a listed board is in the queue, in one worker's hands or has its result, never in two of these (`OnePlace`); results are landed before they are tallied (`LandInv`); a summary, unless it is the handler's, says what the run did (`EndInv`) |
| | `OpsAgrees` | `OpsAgreesWithRaw` | `Tallied`: a source is tallied after the last of its boards has landed, so its row and the raw tables add up the same postings |
| | `TypeCorrect` | (`TypeOK`) | from `RunInv`; that a row count is a number is shown of the library's sum (below) |
| | `RunImplementsBatch` | `RunIsABatch` | step by step from `RunInv`: results do not change once the pool is left, and only then is anything stored; a run that raises gives up, with its last write made or not (`RowOf`, `TalliesOf`) |
| | `NobodyWaitsForever`, `EveryStepIsProgress` | | progress, below |
| Discovery | `EachIsAudited` | `EveryCompanyAudited` | `RowsInv`: a record stands where its company stands in the sheet |
| | `LossIsBounded`, `EmittedWasSaved` | `CheckpointBoundsTheLoss`, `EmittedIsSaved` | `LossInv`: what is unsaved is at most what came in since the last multiple of the checkpoint, whose own result is the last one before a save |
| | `BoardsAreKept` | `BoardsSurvive` | `BoardInv`: a saved board is in the cache, and no record of its company shows anything else; the second half carries it over the rewrite of the file |
| | `TypeCorrect` | (`TypeOK`) | `CountInv`: what was processed and what is still to do are not more than the records |
| | `EveryStepIsProgress` | | progress, below |
| CompanyList | `TheMasterWins`, `EditsAreSafe` | `MasterWins`, `EditsRecoverable` | `EditsInv`: the owner's word is in the master, in what the merge is building and in a safe backup; `LayerRows`: a layer keeps what the list says |
| | `TheMergeSettles` | `MergeSettles` | `MergeInv`: what was layered is in the list; `LayerSettles`: layering it again changes nothing |
| | `ThePushIsFit` | `PushedListIsFit` | `PushInv`: a problem stops the target before the projection, and only a row that was cut makes a list unfit |
| | `TypeCorrect` | (`TypeOK`) | from `ListInv`: a list has one row a company, also when a restore or a death replaces it |
| Adapters | `TypeCorrect` | (`TypeOK`) | a board lists a posting once, and stays so under each change |
| | `MissingIsMissing`, `PlacesAreKept` | `MissingMeansMissing`, `CollapseKeepsEveryPlace` | `Shards`: the second shard is asked once the first said no; `Places`: what a source with a row per place has in hand has all its places (`Collapsed`) |
| | `ErrorIsBounded` | `ErrorIsBoundedByChange` | the walk, below |
| | `EveryStepIsProgress` | | progress, below |
| Audit | `NothingIsLost`, `CrawlStops`, `TheProbeIsThorough` | `NothingSeenIsLost`, `OnePageMore`, `ProbeIsThorough` | `AuditInv`: what was seen is in `hits`, a page more is looked at only with a hit in hand, and every guess before the one found failed or was no board |
| | `EveryLookIsProgress` | | progress, below |

*Delivery.* `DeliveryInv` has three layers. *Stamps*: rows and watermarks are in the past, a
load job's rows are newer than every row and watermark there is, so a row that arrives never
becomes the first of a job that has one, and never hides under a watermark. *Digest*: what a
digest in progress has in hand is exactly the rows of gold above the watermark it read, and
what is below is settled. *Ledger*: every row behind a recorded watermark belongs to a
settled job; a `Record` keeps this because the watermark is the newest of a batch that was
mailed. These need runs not to overlap (`OneRunner`, an assumption of the theorems, not of
the module): the run `Workflow_overlap` shows that without it `LoadingIsNewest` and with it
the property fails.

*Refinement.* Under `OneRunner` every step of Workflow is a step of Outbox or a stutter:
`BuildGold` restocks (a posting that stays in gold keeps its first row, so it is as due as it
was; one that comes and is not settled is ahead of every watermark), `Send` mails (its batch
is all that is due), `Record` acknowledges, `ReadWatermark` writes off, and only while no
watermark is recorded. Each step uses `DeliveryInv` before it and `NoSilentLoss` after it.

*The walk.* `ErrorIsBoundedByChange` is about what a fetch returns; the invariant is about
where it stands. The offset divides the board into what was passed and what is ahead.
A posting listed all along is lost when it gets behind the offset unseen (`Missed`), one is
doubled when it is in hand and ahead again (`Again`). `ChangeStep`: an opening, a closing or
a move brings at most one posting over the line, and is counted. `PageStep`: a page passes
nothing unseen, and takes twice only what was `Again`.

*Progress.* Liveness itself is out of the prover's reach, but the argument under it is not.
Each of six modules has a measure `Left`, a natural number that every step towards the end
lowers, failures, retries and crashes included: the lines a GET can still take, the steps a
run of the workflow has before it, the boards untaken, unfetched and unlanded and the sources
unloaded and untallied, the companies of a sheet to audit, probe and save, the pages,
details and changes still to come, the looks, hops and guesses of an audit. Where actors run beside each
other (RateLimiter, Workflow) each has its own, and the theorem adds that nobody else raises
it. `NobodyWaitsForever` says for Ingest and Workflow that somebody, resp. every run, can
take such a step until the end. What is left to fairness is that one who can go on does.

What the theorems assume. Of the runs: `OneRunner`, for delivery. Of the program's data:
no sheet has two companies on one domain (`SheetsAssumption`, a divergence listed below),
the pseudo-verdicts are no ATS of the table (`AtsAssumption`), a posting has finitely many
places and at least one (`PlacesAssumption`), the company list is finite
(`FiniteAssumption` of Ingest and Workflow), the thread pool is finite (`WorkerAssumption`). The other assumptions say what a constant is. The bounds of TLC
(`MaxNow`, `MaxUpdates`, `MaxHops`, ...) are constants without a limit.

Ordered data without induction. That the n-th of a page's links exists and is unique
(`NthExists` in `Audit_proofs`), that a key has a last row (`MaxIsIn` in `Discovery_proofs`),
that a ledger has a latest watermark (`MaxExists` in `Workflow_proofs`) and
that a posting has a first row (`LeastNat` in `Retention_proofs`) take the least member of a set
of numbers (`WFMin`) where one would expect an induction. Where the
code loops over rows, the model has a step per row (`Merge`, the pages, the details), so
that the loop's invariant is the invariant of a specification.

The same holds of the sums in Ingest. That the sum of a finite set's counts is a number
(`SumIsNat`) takes a smallest set whose sum is not; `OpsAgrees` needs no reordering of terms,
because the row and the raw tables give one and the same function to the sum; and Batch's
sum is Ingest's by their definitions (`SameSum`).

Only model-checked: liveness (`EveryGetEnds`, `RunEnds`, `RunExits`, `DiscoveryEnds`,
`FetchEnds`, `BoardRecovers`), which rests on fairness and ENABLED. For the first five the
measure that falls is proved; `BoardRecovers` speaks of the next fetch of a board that has
come to rest, and has none.

## Divergences

With a run that shows them:

1. **A taken-down posting** does not flip to inactive when it was its board's last one
   (`Retention_takendown`; ADR-0016 line 7, `storage.py:165`).
2. **Overlapping runs** lose postings for good (`Workflow_overlap`; ADR-0019, the workflow
   has two triggers and no concurrency group).
3. **Warnings can fail the run**, when the summary could not be written
   (`Workflow_warnings`; `ingest.yml:55-59`, `pipeline.py:334-337`).
4. **The paged walk** does not go on "until every posting is in hand": when a posting of an
   earlier page closes the rest move up, and the walk steps over one that was listed all the
   time (`Adapters_paging`; `smartrecruiters.py:8-10, 79`).

Met while modelling, without a run of their own:

- The durable audit cache keeps only the companies of the last sheet (`ats_audit.py:456`),
  against `ats_audit.py:39-41`; `BoardsSurvive` exempts what a sheet does not list.
- The verdict is the first hit to arrive (`ats_audit.py:368`): a link to an aggregator on the
  home page beats the board on the careers page, although `ATS_HOSTS` (`ats_audit.py:48, 80`)
  keeps aggregators last. The order of the table is used within one text only.
- A candidate of the second hop that does not load ends the hop (`ats_audit.py:355-364`); the
  others are not opened.
- A company whose audit raised has a status, so a resumed run takes it for done
  (`ats_audit.py:400`); only the probe may still place it.
- "A 200 with postings is proof" (`ats_audit.py:503`) of a board, not of whose it is: a guess
  can find a company of the same name.
- Retries bypass the limiter (`http.py:147`), against `http.py:5-6`; `FirstAttemptsSpaced`
  is therefore about first attempts.
- `fetch_min_interval_s` (`config.py:47`) never takes effect: every registered source
  brings an interval of its own (`http.py:91-94`, `sources.py`).
- Until the first digest is recorded the bootstrap window moves with the clock
  (`digest.py:195-197`), so a backlog older than the lookback is not delivered by "the next
  successful run" (ADR-0019:23-24).
- A registered source that never had a listed board has an empty raw table, and the
  freshness gate fails on it in the first run (`sources.yml`); `pipeline.py:15-17` calls the
  case a warning that the gate turns into an error some 30 hours later.
- A run that raises after landing some boards leaves raw rows and no row in
  `ops.ingest_runs` (`pipeline.py:107`). One whose record itself raises may have its rows
  there, all ok, and still exit 1 with the summary of a failed run (`storage.py:331-332`).
- "So a crash resumes instead of restarting" (`ats_audit.py:6-7`) holds but for a crash while
  the cache is rewritten in place (`ats_audit.py:405-410`), which leaves a part of it or none.
- A page that blocks its script hangs the discovery run for ever: see Fairness.
- Of a posting that is open in several places only Rippling's adapter keeps more than one.
  Ashby's drops `secondaryLocations` (`ashby.py:47`, `tests/fixtures/ashby_jobs.json:10`),
  Workable's `locations` (`workable.py:63-65`, `tests/fixtures/workable_account.json:24`),
  Lever's and BambooHR's keep one (`lever.py:78`, `bamboohr.py:86-103`), so the location gate
  judges such a posting by that one place.
- Resuming from the audit cache keys by domain (`ats_audit.py:417`), so two companies on one
  domain become one, though the list keeps such companies apart on purpose
  (`merge_companies.py:20-21`). `SheetsAssumption` excludes such sheets.

## Not modelled

- The adapters' field mapping, and whether a payload is well formed: a reply that is not is
  an error like any other.
- DuckDB as the dev target: `executemany` may leave a part of a landing where BigQuery's
  load job is all or nothing. The modules follow production.
- Word matching, scores and ordering in silver, layout and escaping of the mail, and dbt's
  data tests, which only fail the step (`Abort` covers that).
- A master torn in the middle of a row (whole rows are left), malformed rows of the company
  list other than that of a cut projection, the order of its rows, and a standalone
  `make companies-variable`, which skips validation.
- The categorizer notebook (`categorize.ipynb`) and the feed probe (`ats_feed_probe.py`): run
  cell by cell or by hand, with a language model and other companies' APIs at the other end,
  and their output is read by a person. One thing to know when reading it: the notebook
  overwrites its results sheet from the top and never cuts it (`categorize.ipynb:181`), so rows
  of a longer earlier run stay below.
- What is on a page and what looks like a link to a list of jobs: `Sites` has the outcome.
- Redaction and whois, settings: stateless.
- The workflow's last step, a ping, and the other workflows, which build and test.

## Plan

Written so far, most important first: the limiter; what gold means over time; delivery from
fetch to ledger, and the outbox it implements; the ingestion run; discovery and the company
list; the adapters; the audit of a company. Every safety property the runs check is proved,
every module is type-correct, and both refinements are proved.

Next, proving: Ingest as the implementation of Workflow's `Fetch` ... `Report`, the same run
seen from the warehouse, under a mapping of `phase` to `stage` and of `landed` to rows.

Next, extending the model: the first landings of a new source and the gate; a posting whose
place becomes allowed late, which enters gold with an old first row; the two companies on one
domain that `SheetsAssumption` excludes.
