----------------------------- MODULE Discovery -----------------------------
(***************************************************************************)
(* tools/company_discovery/ats_audit.py: `make discover` audits the        *)
(* companies of a spreadsheet, each once, saves what it found every so     *)
(* often so that a crash resumes, probes the APIs for those browsing could *)
(* not place, and emits the inventory that the company list is merged      *)
(* from.                                                                   *)
(*                                                                         *)
(* Of a page's ATS and token only the verdict is kept that the code tells  *)
(* apart.  Browsing any page takes any time, so audits finish in any order *)
(* (the semaphore only bounds how many browse at once); probes likewise.   *)
(* Navigation has a timeout, asking a page for its links or its HTML has   *)
(* none: an audit may hang for ever, and keeps its slot of the semaphore.  *)
(* A save opens the file, which truncates it, and writes the records; a    *)
(* run may die at any point, also in between.  The inventory, and the list *)
(* of ingestable rows that nothing reads, are rebuilt by every run.        *)
(***************************************************************************)
EXTENDS Integers, Sequences, FiniteSets, FiniteSetsExt, Functions

CONSTANTS
    Company,          \* companies, by name
    KeyOf,            \* [Company -> the domain of its website, or its name]
    Sheets,           \* spreadsheets the tool may be given
    CheckpointEvery,  \* audits between two saves
    ProbeEvery,       \* probes between two saves
    Concurrency,      \* pages browsed at once
    MaxRuns           \* bound: times the tool is run

ASSUME SheetsAssumption ==
    \A s \in Sheets :
        /\ s \in Seq(Company)
        /\ \A i, j \in DOMAIN s : i # j => KeyOf[s[i]] # KeyOf[s[j]]
ASSUME CountsAssumption ==
    /\ CheckpointEvery \in Nat \ {0} /\ ProbeEvery \in Nat \ {0}
    /\ Concurrency \in Nat \ {0} /\ MaxRuns \in Nat

VARIABLES
    cache,      \* rows of ats_audit_results.csv
    inventory,  \* rows of companies_inventory.csv
    phase,      \* where the run is
    saving,     \* a save is due, or the file is open, or neither
    sheet,      \* the companies of this run
    records,    \* their rows, in the same order
    todo,       \* indices still to be audited, or probed
    hung,       \* of these, the audits that hang
    processed,  \* audited, or probed, in this pass
    runs,       \* runs started so far
    placed,     \* observer: companies a complete save held a board of
    dropped,    \* observer: companies missing from the sheet of a save
    torn        \* observer: a run died while it wrote the cache

observers == <<placed, dropped, torn>>
vars == <<cache, inventory, phase, saving, sheet, records, todo, hung, processed, runs, observers>>

(* What an audit comes to: a board of an ATS with an adapter; that ATS but *)
(* no token, or one that is no board_ref; an ATS without an adapter, with  *)
(* or without a token; no ATS; an exception.                               *)
Verdict == {"board", "no token", "bad token", "other", "other, no token", "none", "error"}
Row == [company : Company, verdict : Verdict \cup {"pending"}]

(* The rows the API pass looks at, those the inventory lists, and those it *)
(* lists as active.                                                        *)
Unplaced == {"no token", "other, no token", "none", "error"}
Inventoried == {"board", "other", "other, no token"}
Item == [company : Company, active : BOOLEAN]

TypeOK ==
    /\ cache \in Seq(Row)
    /\ inventory \in SUBSET Item
    /\ phase \in {"idle", "audit", "probe", "emit"}
    /\ saving \in {"no", "due", "open"}
    /\ sheet \in Seq(Company)
    /\ records \in Seq(Row) /\ Len(records) = Len(sheet)
    /\ todo \in SUBSET DOMAIN records
    /\ phase = "audit" => todo = {i \in DOMAIN records : records[i].verdict = "pending"}
    /\ hung \in SUBSET todo /\ Cardinality(hung) <= Concurrency
    /\ phase # "audit" => hung = {}
    /\ processed \in 0..Len(records)
    /\ runs \in Nat
    /\ placed \in SUBSET Company
    /\ dropped \in SUBSET Company
    /\ torn \in BOOLEAN

Init ==
    /\ cache = <<>> /\ inventory = {}
    /\ phase = "idle" /\ saving = "no"
    /\ sheet = <<>> /\ records = <<>>
    /\ todo = {} /\ hung = {} /\ processed = 0
    /\ runs = 0
    /\ placed = {} /\ dropped = {} /\ torn = FALSE

-----------------------------------------------------------------------------
(* load_done: the audited rows of the cache under a key; the last counts.  *)
DoneRows_None(k) == {}
DoneRows(k) ==
    {i \in DOMAIN cache : KeyOf[cache[i].company] = k /\ cache[i].verdict # "pending"}

Resumed(c) ==
    LET done == DoneRows(KeyOf[c])
    IN  IF done = {} THEN [company |-> c, verdict |-> "pending"] ELSE cache[Max(done)]

Discover(s) ==
    /\ phase = "idle" /\ runs < MaxRuns
    /\ runs' = runs + 1
    /\ sheet' = s
    /\ records' = [i \in DOMAIN s |-> Resumed(s[i])]
    /\ todo' = {i \in DOMAIN s : DoneRows(KeyOf[s[i]]) = {}}
    /\ processed' = 0
    /\ phase' = "audit"
    /\ UNCHANGED <<cache, inventory, saving, hung, observers>>

(* A pass saves after every so many results, and once more at its end.     *)
SaveDue_OnlyEvery(n, left, every) == n % every = 0
SaveDue_OnlyAtEnd(n, left, every) == left = {}
SaveDue(n, left, every) == n % every = 0 \/ left = {}

Place_ByOrder(i) == processed + 1
Place(i) == i

(* A finished task's row goes where its company stands in the sheet.  The  *)
(* loop takes the next result only when a save is through.                 *)
Finish(i, row, every) ==
    /\ i \in todo /\ saving = "no"
    /\ records' = [records EXCEPT ![Place(i)] = row]
    /\ todo' = todo \ {i}
    /\ processed' = processed + 1
    /\ saving' = IF SaveDue(processed', todo', every) THEN "due" ELSE "no"
    /\ UNCHANGED <<cache, inventory, phase, sheet, hung, runs, observers>>

(* A page that never answers keeps its slot of the semaphore.              *)
SlotFree == Cardinality(hung) < Concurrency

Hang(i) ==
    /\ phase = "audit" /\ i \in todo \ hung /\ SlotFree
    /\ hung' = hung \cup {i}
    /\ UNCHANGED <<cache, inventory, phase, saving, sheet, records, todo, processed, runs,
                   observers>>

(* An exception of the browser is a verdict too.                           *)
Audit(i) ==
    /\ phase = "audit" /\ i \notin hung /\ SlotFree
    /\ \E v \in Verdict : Finish(i, [company |-> sheet[i], verdict |-> v], CheckpointEvery)

(* A hit names the source and the token that answered, and the company and *)
(* its site as the record had them.  A miss leaves the record.             *)
Probe(i) ==
    /\ phase = "probe"
    /\ \E v \in {"board", records[i].verdict} :
         Finish(i, [records[i] EXCEPT !.verdict = v], ProbeEvery)

OpenCache ==
    /\ saving = "due"
    /\ cache' = <<>>
    /\ saving' = "open"
    /\ UNCHANGED <<inventory, phase, sheet, records, todo, hung, processed, runs, observers>>

WriteCache ==
    LET saved == {records[i].company : i \in DOMAIN records}
    IN  /\ saving = "open"
        /\ cache' = records
        /\ saving' = "no"
        /\ placed' = placed \cup {r.company : r \in {r \in Range(records) : r.verdict = "board"}}
        /\ dropped' = dropped \cup (Company \ saved)
        /\ UNCHANGED <<inventory, phase, sheet, records, todo, hung, processed, runs, torn>>

(* run returns, and probe_unknowns looks for what it has to probe; with    *)
(* --no-probe it is not called.                                            *)
StartProbes ==
    LET unplaced == {i \in DOMAIN records : records[i].verdict \in Unplaced}
    IN  /\ phase = "audit" /\ todo = {} /\ saving = "no"
        /\ \/ unplaced # {} /\ phase' = "probe" /\ todo' = unplaced
           \/ phase' = "emit" /\ todo' = {}
        /\ processed' = 0
        /\ UNCHANGED <<cache, inventory, saving, sheet, records, hung, runs, observers>>

(* The pass is over when each company was probed once, found or not.       *)
Probed_AllPlaced == {i \in DOMAIN records : records[i].verdict \in Unplaced} = {}
Probed == todo = {}

EndProbes ==
    /\ phase = "probe" /\ Probed /\ saving = "no"
    /\ phase' = "emit"
    /\ UNCHANGED <<cache, inventory, saving, sheet, records, todo, hung, processed, runs, observers>>

(* main's last lines, and the end of the process.                          *)
Quit ==
    /\ phase' = "idle" /\ saving' = "no"
    /\ sheet' = <<>> /\ records' = <<>>
    /\ todo' = {} /\ hung' = {} /\ processed' = 0
    /\ UNCHANGED runs

Emit ==
    /\ phase = "emit"
    /\ inventory' = {[company |-> r.company, active |-> r.verdict = "board"] :
                        r \in {r \in Range(records) : r.verdict \in Inventoried}}
    /\ Quit
    /\ UNCHANGED <<cache, observers>>

(* The process dies.  Of a file being written any prefix may be there.     *)
Crash ==
    /\ phase # "idle"
    /\ Quit
    /\ \/ /\ saving = "open"
          /\ \E n \in 0..Len(records) : cache' = SubSeq(records, 1, n)
          /\ torn' = TRUE
       \/ /\ saving # "open"
          /\ UNCHANGED <<cache, torn>>
    /\ UNCHANGED <<inventory, placed, dropped>>

Proceed ==
    \/ OpenCache \/ WriteCache \/ StartProbes \/ EndProbes \/ Emit
    \/ \E i \in todo : Audit(i) \/ Probe(i)

Next ==
    \/ Proceed
    \/ \E i \in todo : Hang(i)
    \/ Crash
    \/ \E s \in Sheets : Discover(s)

Spec == Init /\ [][Next]_vars

(* A page that does not hang is browsed and an API answers, or a timeout   *)
(* ends the try.  Nobody owes a hang or a crash.                           *)
FairSpec == Spec /\ WF_vars(Proceed)
-----------------------------------------------------------------------------
(* When the audits are over each company of the sheet has a verdict of its *)
(* own, whatever the order the audits finished in and whether it was found *)
(* now or resumed.                                                         *)
EveryCompanyAudited ==
    phase \in {"probe", "emit"} =>
        \A i \in DOMAIN sheet :
            /\ records[i].verdict # "pending"
            /\ KeyOf[records[i].company] = KeyOf[sheet[i]]

(* A run that dies between two saves loses less than a checkpoint's worth  *)
(* of audits or probes, and one that dies on its way to a save no more     *)
(* than that: all other results are in the cache.  Not so while the file   *)
(* is rewritten, which keeps a part of the rows or none.                   *)
Unsaved == {i \in DOMAIN records :
                records[i].verdict # "pending" /\ records[i] \notin Range(cache)}
Every == IF phase = "audit" THEN CheckpointEvery ELSE ProbeEvery

CheckpointBoundsTheLoss ==
    /\ saving = "no" => Cardinality(Unsaved) < Every
    /\ saving = "due" => Cardinality(Unsaved) <= Every

(* The inventory never says more than the cache: what is emitted was saved.*)
EmittedIsSaved == phase = "emit" => Unsaved = {}

(* A company whose board was once saved keeps it in the cache through any  *)
(* number of runs and crashes, unless a run died while it was writing the  *)
(* file or was given a sheet without the company.                          *)
HasBoard(c) == \E r \in Range(cache) : r.company = c /\ r.verdict = "board"

BoardsSurvive == saving = "open" \/ torn \/ \A c \in placed \ dropped : HasBoard(c)

(* A run of the tool ends, unless pages hang for ever; and then it stops   *)
(* only when no other audit is left or no slot to do it in.                *)
Stuck == hung # {} /\ (hung = todo \/ ~SlotFree)

DiscoveryEnds == phase # "idle" ~> phase = "idle" \/ Stuck
=============================================================================
