--------------------------- MODULE Workflow_proofs ---------------------------
(* Proofs about Workflow: types, the gate and progress for any number of   *)
(* overlapping runs, and delivery for runs that do not overlap, whatever   *)
(* the jobs, boards, sources, limits and failures.                         *)
EXTENDS Workflow, FiniteSetTheorems, NaturalsInduction, WellFoundedInduction, TLAPS

(* The tables dbt builds from typed rows.                                  *)
LEMMA SilverType == ASSUME NEW R, R \in SUBSET Row PROVE Silver(R) \in SUBSET SilverRows
<1> SUFFICES ASSUME NEW p \in R \X R PROVE SilverRow(R, p[1], p[2]) \in SilverRows
  BY DEF Silver
<1>1. p[1] \in Row /\ p[2] \in Row
  OBVIOUS
<1>2. IsActive(R, p[1]) \in BOOLEAN
  BY DEF IsActive
<1> QED BY <1>1, <1>2 DEF SilverRow, SilverRows, Row

LEMMA OfferedType == ASSUME NEW S, S \in SUBSET SilverRows PROVE Offered(S) \in SUBSET GoldRow
BY DEF Offered, SilverRows, GoldRow

(* The variables keep their types.                                         *)
THEOREM TypeCorrect == Spec => []TypeOK
<1>1. Init => TypeOK
  BY DEF Init, TypeOK, Ended
<1>2. TypeOK /\ [Next]_vars => TypeOK'
  <2> SUFFICES ASSUME TypeOK, [Next]_vars PROVE TypeOK'
    OBVIOUS
  <2> USE DEF TypeOK
  <2>1. CASE Elapse
    BY <2>1 DEF Elapse, tables, ingestVars, digestVars, observers
  <2>2. CASE ConfigureMail
    BY <2>2 DEF ConfigureMail, tables, ingestVars, digestVars, observers
  <2>3. ASSUME NEW r \in Runner, Start(r) PROVE TypeOK'
    BY <2>3 DEF Start, GoTo, Active, tables, observers
  <2>4. ASSUME NEW r \in Runner, Ingest(r) PROVE TypeOK'
    <3>1. CASE Fetch(r)
      <4> PICK shown \in [Job -> Places \cup {Absent}], bad \in SUBSET Board :
                 /\ failed' = [failed EXCEPT ![r] = bad]
                 /\ haul' = [haul EXCEPT ![r] = Returned(shown, bad)]
        BY <3>1 DEF Fetch
      <4>1. Returned(shown, bad) \in SUBSET Posting
        BY PlacesAssumption DEF Returned, Posting
      <4> QED BY <3>1, <4>1 DEF Fetch, GoTo, Active, tables, digestVars, observers
    <3>2. ASSUME NEW b \in Board, Stamp(r, b) PROVE TypeOK'
      <4> DEFINE mine == {p \in haul[r] : BoardOf[p.job] = b}
                 rows == {[job |-> p.job, place |-> p.place, at |-> now + 1] : p \in mine}
      <4>1. rows \in SUBSET Row
        BY DEF Posting, Row
      <4>2. haul[r] \ mine \in SUBSET Posting
        OBVIOUS
      <4> HIDE DEF rows
      <4>3. loading' = [loading EXCEPT ![r] = rows] /\ now' = now + 1
            /\ haul' = [haul EXCEPT ![r] = @ \ mine]
        BY <3>2 DEF Stamp, rows
      <4> HIDE DEF mine
      <4> QED BY <3>2, <4>1, <4>2, <4>3 DEF Stamp, tables, digestVars, observers
    <3>3. CASE Load(r)
      BY <3>3 DEF Load, digestVars, observers
    <3>4. CASE Landed(r)
      BY <3>4 DEF Landed, GoTo, Active, tables, ingestVars, digestVars, observers
    <3>5. CASE Report(r)
      BY <3>5 DEF Report, GoTo, Active, Ended, tables, digestVars, observers
    <3> QED BY <2>4, <3>1, <3>2, <3>3, <3>4, <3>5 DEF Ingest
  <2>5. ASSUME NEW r \in Runner, Transform(r) PROVE TypeOK'
    <3>1. CASE Surface(r)
      BY <3>1 DEF Surface, GoTo, Active, Ended, tables, ingestVars, digestVars, observers
    <3>2. CASE BuildSilver(r)
      BY <3>2, SilverType DEF BuildSilver, GoTo, Active, ingestVars, digestVars, observers
    <3>3. CASE BuildGold(r)
      BY <3>3, OfferedType DEF BuildGold, GoTo, Active, ingestVars, digestVars, observers
    <3>4. CASE Gate(r)
      BY <3>4 DEF Gate, GoTo, Active, Ended, tables, ingestVars, digestVars, observers
    <3> QED BY <2>5, <3>1, <3>2, <3>3, <3>4 DEF Transform
  <2>6. ASSUME NEW r \in Runner, Deliver(r) PROVE TypeOK'
    <3>1. CASE SkipMail(r)
      BY <3>1 DEF SkipMail, GoTo, Active, Ended, tables, ingestVars, digestVars, observers
    <3>2. CASE ReadWatermark(r)
      <4>0. now - Lookback \in Int
        BY TimesAssumption
      <4>1. /\ wm' \in [Runner -> Int]
            /\ tooOld' \in SUBSET GoldRow
        <5>1. ASSUME NEW w \in ledger, wm' = [wm EXCEPT ![r] = w], UNCHANGED tooOld
              PROVE <4>1!:
          BY <5>1
        <5>2. ASSUME wm' = [wm EXCEPT ![r] = now - Lookback],
                     tooOld' = tooOld \cup {g \in gold : g.first <= now - Lookback}
              PROVE <4>1!:
          BY <5>2, <4>0
        <5> QED BY <3>2, <5>1, <5>2 DEF ReadWatermark
      <4> QED BY <3>2, <4>1 DEF ReadWatermark, GoTo, Active, tables, ingestVars
    <3>3. CASE Query(r)
      BY <3>3 DEF Query, GoTo, Active, tables, ingestVars, observers
    <3>4. CASE Send(r)
      <4>1. delivered' \in [Job -> Nat]
        BY <3>4 DEF Send
      <4>2. stage' \in [Runner -> Active \cup Ended]
        BY <3>4 DEF Send, AfterSend, GoTo, Active, Ended
      <4> QED BY <3>4, <4>1, <4>2 DEF Send, tables, ingestVars, digestVars
    <3>5. CASE Record(r)
      <4>1. ledger' \in SUBSET Nat /\ hidden' \in SUBSET Job
        <5>1. PICK w \in {g.first : g \in batch[r]} :
                     ledger' = ledger \cup {w} /\ hidden' = hidden \cup Passed(w)
          BY <3>5 DEF Record
        <5>2. w \in Nat
          BY DEF GoldRow
        <5>3. Passed(w) \in SUBSET Job
          BY DEF Passed, Row
        <5> QED BY <5>1, <5>2, <5>3
      <4> QED BY <3>5, <4>1 DEF Record, GoTo, Ended, ingestVars, digestVars
    <3> QED BY <2>6, <3>1, <3>2, <3>3, <3>4, <3>5 DEF Deliver
  <2>7. ASSUME NEW r \in Runner, Abort(r) PROVE TypeOK'
    <3>1. raw' \in SUBSET Row
      <4>1. PICK there \in SUBSET loading[r] : raw' = raw \cup there
        BY <2>7 DEF Abort
      <4> QED BY <4>1
    <3>2. loading' \in [Runner -> SUBSET Row]
      BY <2>7 DEF Abort
    <3>3. lost' \in Nat
      BY <2>7 DEF Abort
    <3> QED BY <2>7, <3>1, <3>2, <3>3 DEF Abort, GoTo, Ended, digestVars
  <2>8. CASE UNCHANGED vars
    BY <2>8 DEF vars, tables, ingestVars, digestVars, observers
  <2> QED BY <2>1, <2>2, <2>3, <2>4, <2>5, <2>6, <2>7, <2>8 DEF Next, Step
<1> QED BY <1>1, <1>2, PTL DEF Spec
-----------------------------------------------------------------------------
(* Delivery.  The argument is about runs that do not overlap.              *)
OneRunner == \A r, q \in Runner : r = q

(* Row f is the first_seen_at of job j.                                    *)
FirstRow(f, j, t) == f.job = j /\ f.at = t /\ IsFirst(raw, f)

(* The clock is past every stamp, and a load job's rows are newer than     *)
(* every row and every watermark in the warehouse.                         *)
StampsArePast ==
    /\ \A q \in raw : q.at <= now
    /\ \A w \in ledger : w <= now
    /\ \A r \in Runner : \A p \in loading[r] : p.at <= now

LoadingIsNewest ==
    \A r \in Runner : \A p \in loading[r] :
        /\ stage[r] = "land"
        /\ \A q \in raw : q.at < p.at
        /\ \A w \in ledger : w < p.at

(* first_seen_at in silver and gold is still that of the raw tables.       *)
SilverFirsts == \A s \in silver : \E f \in raw : FirstRow(f, s.job, s.first)
GoldFirsts == \A g \in gold : \E f \in raw : FirstRow(f, g.job, g.first)

(* What a digest in progress knows.                                        *)
BatchIsNewGold ==
    \A r \in Runner : stage[r] \in {"send", "record"} =>
        batch[r] = {g \in gold : IsNew(g, wm[r])}

BelowWatermarkSettled ==
    \A r \in Runner : stage[r] \in {"query", "send", "record"} =>
        /\ \A g \in gold : g.first <= wm[r] => Settled(g.job)
        /\ \A w \in ledger : w <= wm[r]

BatchIsMailed ==
    \A r \in Runner : stage[r] = "record" => \A g \in batch[r] : delivered[g.job] > 0

(* Whatever a watermark passed is settled.                                 *)
LedgerSettled ==
    \A w \in ledger, q \in raw : IsFirst(raw, q) /\ q.at <= w => Settled(q.job)

StampInv == StampsArePast /\ LoadingIsNewest /\ SilverFirsts /\ GoldFirsts
DigestInv == BatchIsNewGold /\ BelowWatermarkSettled /\ BatchIsMailed
DeliveryInv == StampInv /\ DigestInv /\ LedgerSettled /\ DoneMeansDelivered

(* A job mailed more often than mails were lost is behind a watermark, or  *)
(* in a batch that is about to be recorded.                                *)
Covered(j) == \E w \in ledger, q \in raw : q.job = j /\ IsFirst(raw, q) /\ q.at <= w
AwaitsRecord(j) ==
    \E r \in Runner : stage[r] = "record" /\ \E g \in batch[r] : g.job = j

OnceInv ==
    \A j \in Job : \/ delivered[j] <= lost
                   \/ delivered[j] = lost + 1 /\ (Covered(j) \/ AwaitsRecord(j))
-----------------------------------------------------------------------------
(* Facts about the windows of silver.                                      *)

(* A later row does not change which row of a job is the first.            *)
LEMMA FirstStays ==
    ASSUME NEW R \in SUBSET Row, NEW Q \in SUBSET Row,
           \A q \in Q, p \in R : p.at < q.at,
           NEW f \in R
    PROVE  IsFirst(R \cup Q, f) <=> IsFirst(R, f)
BY DEF IsFirst, Row

(* Two first rows of a job carry one stamp.                                *)
LEMMA FirstIsUnique ==
    ASSUME NEW R \in SUBSET Row, NEW f \in R, NEW q \in R,
           IsFirst(R, f), IsFirst(R, q), f.job = q.job
    PROVE  f.at = q.at
BY DEF IsFirst, Row

(* first_seen_at in silver is the stamp of a first row.                    *)
LEMMA SilverHasFirst ==
    ASSUME NEW R \in SUBSET Row, NEW s \in Silver(R)
    PROVE  \E f \in R : f.job = s.job /\ f.at = s.first /\ IsFirst(R, f)
<1>1. PICK p \in R \X R : /\ s = SilverRow(R, p[1], p[2])
                          /\ p[1].job = p[2].job /\ IsFirst(R, p[2])
  BY DEF Silver
<1>2. p[2] \in R
  OBVIOUS
<1>3. s.job = p[1].job /\ s.first = p[2].at
  BY <1>1 DEF SilverRow
<1> QED BY <1>1, <1>2, <1>3

(* A row of gold names a row of silver.                                    *)
LEMMA OfferedIsSilver ==
    ASSUME NEW S, NEW g \in Offered(S)
    PROVE  \E s \in S : g.job = s.job /\ g.first = s.first
BY DEF Offered

-----------------------------------------------------------------------------
(* The warehouse part of the invariant.                                    *)

(* Rows that are newer than every row and every watermark are added.       *)
LEMMA RowsArrive ==
    ASSUME TypeOK, StampInv, NEW Q \in SUBSET Row,
           \A q \in Q, p \in raw : p.at < q.at,
           raw' = raw \cup Q,
           silver' = silver, gold' = gold
    PROVE  SilverFirsts' /\ GoldFirsts'
<1>1. ASSUME NEW f \in raw, NEW j, NEW t, FirstRow(f, j, t) PROVE FirstRow(f, j, t)'
  BY <1>1, FirstStays DEF FirstRow, TypeOK
<1> QED BY <1>1 DEF StampInv, SilverFirsts, GoldFirsts

(* Nothing in the warehouse moves, and a run with a load job stays there.  *)
LEMMA WarehouseStill ==
    ASSUME StampInv, UNCHANGED <<now, raw, silver, gold, ledger, loading>>,
           \A r \in Runner : loading[r] # {} => stage'[r] = stage[r]
    PROVE  StampInv'
BY DEF StampInv, StampsArePast, LoadingIsNewest, SilverFirsts, GoldFirsts, FirstRow

LEMMA StampStep ==
    ASSUME OneRunner, TypeOK, StampInv, BatchIsNewGold, [Next]_vars
    PROVE  StampInv'
<1> USE DEF StampInv
<1>0. now \in Nat /\ ledger \in SUBSET Nat /\ \A q \in raw : q.at \in Nat
  BY DEF TypeOK, Row
<1>1. CASE Elapse
  <2>1. UNCHANGED <<raw, ledger, loading>> /\ now' = now + 1
    BY <1>1 DEF Elapse, tables, ingestVars
  <2>2. \A r \in Runner : \A p \in loading[r] : p.at \in Nat
    BY DEF TypeOK, Row
  <2>3. StampsArePast'
    BY <1>0, <2>1, <2>2 DEF StampsArePast
  <2>4. LoadingIsNewest' /\ SilverFirsts' /\ GoldFirsts'
    BY <1>1 DEF Elapse, tables, ingestVars, LoadingIsNewest, SilverFirsts, GoldFirsts, FirstRow
  <2> QED BY <2>3, <2>4
<1>2. ASSUME NEW r \in Runner, NEW b \in Board, Stamp(r, b) PROVE StampInv'
  <2>1. \A p \in loading'[r] : p.at = now + 1
    BY <1>2 DEF Stamp, TypeOK
  <2>2. UNCHANGED <<raw, silver, gold, ledger, stage>> /\ now' = now + 1 /\ stage[r] = "land"
    BY <1>2 DEF Stamp, tables
  <2>3. \A q \in Runner : q = r
    BY DEF OneRunner
  <2>4. StampsArePast'
    <3>1. \A q \in raw' : q.at <= now'
      BY <1>0, <2>2 DEF StampsArePast
    <3>2. \A w \in ledger' : w <= now'
      BY <1>0, <2>2 DEF StampsArePast
    <3>3. \A q \in Runner : \A p \in loading'[q] : p.at <= now'
      BY <1>0, <2>1, <2>2, <2>3
    <3> QED BY <3>1, <3>2, <3>3 DEF StampsArePast
  <2>5. LoadingIsNewest'
    BY <1>0, <2>1, <2>2, <2>3 DEF StampsArePast, LoadingIsNewest
  <2>6. SilverFirsts' /\ GoldFirsts'
    BY <2>2 DEF SilverFirsts, GoldFirsts, FirstRow
  <2> QED BY <2>4, <2>5, <2>6
<1>3. ASSUME NEW r \in Runner, NEW there \in SUBSET loading[r],
             raw' = raw \cup there, loading' = [loading EXCEPT ![r] = {}],
             UNCHANGED <<now, silver, gold, ledger>>
      PROVE  StampInv'
  <2>1. \A q \in Runner : loading'[q] = {}
    BY <1>3 DEF OneRunner, TypeOK
  <2>2. StampsArePast' /\ LoadingIsNewest'
    BY <1>3, <2>1 DEF StampsArePast, LoadingIsNewest
  <2>3. there \in SUBSET Row /\ \A q \in there, p \in raw : p.at < q.at
    BY DEF TypeOK, LoadingIsNewest
  <2> QED BY <1>3, <2>2, <2>3, RowsArrive
<1>4. ASSUME NEW r \in Runner, BuildSilver(r) PROVE StampInv'
  <2>1. UNCHANGED <<now, raw, gold, ledger, loading>> /\ silver' = Silver(raw)
    BY <1>4 DEF BuildSilver, ingestVars
  <2>2. \A q \in Runner : loading[q] = {}
    BY <1>4 DEF BuildSilver, LoadingIsNewest, OneRunner
  <2>3. SilverFirsts'
    BY <2>1, SilverHasFirst DEF SilverFirsts, FirstRow, TypeOK
  <2> QED BY <2>1, <2>2, <2>3
         DEF StampsArePast, LoadingIsNewest, GoldFirsts, FirstRow
<1>5. ASSUME NEW r \in Runner, BuildGold(r) PROVE StampInv'
  <2>1. UNCHANGED <<now, raw, silver, ledger, loading>> /\ gold' = Offered(silver)
    BY <1>5 DEF BuildGold, ingestVars
  <2>2. \A q \in Runner : loading[q] = {}
    BY <1>5 DEF BuildGold, LoadingIsNewest, OneRunner
  <2>3. GoldFirsts'
    BY <2>1, OfferedIsSilver DEF SilverFirsts, GoldFirsts, FirstRow
  <2> QED BY <2>1, <2>2, <2>3
         DEF StampsArePast, LoadingIsNewest, SilverFirsts, FirstRow
<1>6. ASSUME NEW r \in Runner, Record(r) PROVE StampInv'
  <2>1. PICK w \in {g.first : g \in batch[r]} : ledger' = ledger \cup {w}
    BY <1>6 DEF Record
  <2>2. UNCHANGED <<now, raw, silver, gold, loading>> /\ stage[r] = "record"
    BY <1>6 DEF Record, ingestVars
  <2>3. \A q \in Runner : loading[q] = {}
    BY <2>2 DEF LoadingIsNewest, OneRunner
  <2>4. w <= now
    BY <2>2 DEF BatchIsNewGold, GoldFirsts, FirstRow, StampsArePast
  <2> QED BY <2>1, <2>2, <2>3, <2>4
         DEF StampsArePast, LoadingIsNewest, SilverFirsts, GoldFirsts, FirstRow
<1>7. ASSUME NEW r \in Runner, stage[r] # "land" \/ loading[r] = {},
             UNCHANGED <<now, raw, silver, gold, ledger, loading>>,
             \E s : GoTo(r, s)
      PROVE  StampInv'
  <2>1. loading[r] = {}
    BY <1>7 DEF LoadingIsNewest
  <2>2. \A q \in Runner : loading[q] # {} => stage'[q] = stage[q]
    BY <1>7, <2>1 DEF GoTo, TypeOK
  <2> QED BY <1>7, <2>2, WarehouseStill
<1>8. ASSUME NEW r \in Runner, Start(r) \/ Fetch(r) \/ Landed(r) \/ Report(r) PROVE StampInv'
  BY <1>7, <1>8 DEF Start, Fetch, Landed, Report, tables, ingestVars, Ended
<1>9. ASSUME NEW r \in Runner, Surface(r) \/ Gate(r) \/ SkipMail(r) \/ ReadWatermark(r)
      PROVE  StampInv'
  BY <1>7, <1>9 DEF Surface, Gate, SkipMail, ReadWatermark, tables, ingestVars
<1>10. ASSUME NEW r \in Runner, Query(r) \/ Send(r) PROVE StampInv'
  BY <1>7, <1>10 DEF Query, Send, tables, ingestVars
<1>11. CASE ConfigureMail \/ UNCHANGED vars
  BY <1>11, WarehouseStill DEF ConfigureMail, vars, tables, ingestVars
<1>12. ASSUME NEW r \in Runner, Load(r) PROVE StampInv'
  BY <1>3, <1>12 DEF Load
<1>13. ASSUME NEW r \in Runner, Abort(r) PROVE StampInv'
  BY <1>3, <1>13 DEF Abort
<1> QED BY <1>1, <1>2, <1>4, <1>5, <1>6, <1>8, <1>9, <1>10, <1>11, <1>12, <1>13
       DEF Next, Step, Ingest, Transform, Deliver
-----------------------------------------------------------------------------
(* The digest part of the invariant.                                       *)

Digesting == {"query", "send", "record"}

(* Outside the digest step: rows may arrive, and what was settled stays.   *)
LEMMA AwayFromDigest ==
    ASSUME TypeOK, DeliveryInv, NEW Q \in SUBSET Row,
           \A q \in Q : (\A p \in raw : p.at < q.at) /\ \A w \in ledger : w < q.at,
           raw' = raw \cup Q,
           UNCHANGED <<ledger, delivered, tooOld, hidden>>,
           \A r \in Runner : stage'[r] \notin Digesting \cup {"done"}
    PROVE  DigestInv' /\ LedgerSettled' /\ DoneMeansDelivered'
<1>1. DigestInv' /\ DoneMeansDelivered'
  BY DEF DigestInv, BatchIsNewGold, BelowWatermarkSettled, BatchIsMailed,
         DoneMeansDelivered, Digesting
<1>2. LedgerSettled'
  <2> SUFFICES ASSUME NEW w \in ledger, NEW q \in raw \cup Q,
                      IsFirst(raw \cup Q, q), q.at <= w
               PROVE  Settled(q.job)'
    BY DEF LedgerSettled
  <2>1. q \in raw
    BY DEF TypeOK, Row
  <2>2. IsFirst(raw, q)
    BY <2>1, FirstStays DEF TypeOK
  <2> QED BY <2>1, <2>2 DEF DeliveryInv, LedgerSettled, Settled
<1> QED BY <1>1, <1>2

(* Nothing the digest invariants speak of changes.                         *)
LEMMA DigestStill ==
    ASSUME DeliveryInv,
           UNCHANGED <<raw, gold, ledger, stage, wm, batch, delivered, tooOld, hidden>>
    PROVE  DigestInv' /\ LedgerSettled' /\ DoneMeansDelivered'
BY DEF DeliveryInv, DigestInv, BatchIsNewGold, BelowWatermarkSettled, BatchIsMailed,
       LedgerSettled, DoneMeansDelivered, Settled, IsNew

LEMMA IngestKeepsDigest ==
    ASSUME OneRunner, TypeOK, DeliveryInv, NEW r \in Runner,
           Start(r) \/ Ingest(r) \/ Transform(r) \/ SkipMail(r) \/ Abort(r)
    PROVE  DigestInv' /\ LedgerSettled' /\ DoneMeansDelivered'
<1>1. UNCHANGED <<ledger, delivered, tooOld, hidden>>
  BY DEF Start, Ingest, Fetch, Stamp, Load, Landed, Report, Transform, Surface,
         BuildSilver, BuildGold, Gate, SkipMail, Abort, tables, observers
<1>2. stage'[r] \notin Digesting \cup {"done"}
  BY DEF Start, Ingest, Fetch, Stamp, Load, Landed, Report, Transform, Surface,
         BuildSilver, BuildGold, Gate, SkipMail, Abort, GoTo, TypeOK, Digesting
<1>3. \A q \in Runner : stage'[q] \notin Digesting \cup {"done"}
  BY <1>2 DEF OneRunner
<1>4. \E Q \in SUBSET loading[r] : raw' = raw \cup Q
  <2>1. CASE Load(r)
    BY <2>1 DEF Load
  <2>2. CASE Abort(r)
    BY <2>2 DEF Abort
  <2>3. CASE ~Load(r) /\ ~Abort(r)
    <3>1. raw' = raw \cup {}
      BY <2>3 DEF Start, Ingest, Fetch, Stamp, Landed, Report, Transform, Surface,
                  BuildSilver, BuildGold, Gate, SkipMail, tables
    <3> QED BY <3>1
  <2> QED BY <2>1, <2>2, <2>3
<1>5. PICK Q \in SUBSET loading[r] : raw' = raw \cup Q
  BY <1>4
<1>6. /\ Q \in SUBSET Row
      /\ \A q \in Q : (\A p \in raw : p.at < q.at) /\ \A w \in ledger : w < q.at
  BY DEF TypeOK, DeliveryInv, StampInv, LoadingIsNewest
<1> QED BY <1>1, <1>3, <1>5, <1>6, AwayFromDigest

(* Gold rows at or below a recorded watermark are settled.                 *)
LEMMA GoldBehindLedger ==
    ASSUME TypeOK, DeliveryInv, NEW g \in gold, NEW w \in ledger, g.first <= w
    PROVE  Settled(g.job)
BY DEF DeliveryInv, StampInv, GoldFirsts, FirstRow, LedgerSettled

LEMMA ReadKeepsDigest ==
    ASSUME OneRunner, TypeOK, DeliveryInv, NEW r \in Runner, ReadWatermark(r)
    PROVE  DigestInv' /\ LedgerSettled' /\ DoneMeansDelivered'
<1>1. /\ UNCHANGED <<raw, gold, ledger, delivered, hidden>>
      /\ tooOld \subseteq tooOld'
      /\ \A q \in Runner : q = r
      /\ stage'[r] = "query"
  BY DEF ReadWatermark, tables, GoTo, TypeOK, OneRunner
<1>2. \A j : Settled(j) => Settled(j)'
  BY <1>1 DEF Settled
<1>3. LedgerSettled'
  BY <1>1, <1>2 DEF DeliveryInv, LedgerSettled
<1>4. BelowWatermarkSettled'
  <2>1. CASE ledger = {} /\ wm' = [wm EXCEPT ![r] = now - Lookback]
             /\ tooOld' = tooOld \cup {g \in gold : g.first <= now - Lookback}
    BY <1>1, <2>1 DEF BelowWatermarkSettled, Settled, TypeOK
  <2>2. ASSUME NEW w \in ledger, Latest(ledger, w), wm' = [wm EXCEPT ![r] = w]
        PROVE  BelowWatermarkSettled'
    <3>1. wm'[r] = w
      BY <2>2 DEF TypeOK
    <3> QED BY <1>1, <1>2, <2>2, <3>1, GoldBehindLedger DEF BelowWatermarkSettled, Latest
  <2> QED BY <2>1, <2>2 DEF ReadWatermark
<1> QED BY <1>1, <1>3, <1>4 DEF DigestInv, BatchIsNewGold, BatchIsMailed, DoneMeansDelivered

LEMMA QueryKeepsDigest ==
    ASSUME OneRunner, TypeOK, DeliveryInv, NEW r \in Runner, Query(r)
    PROVE  DigestInv' /\ LedgerSettled' /\ DoneMeansDelivered'
<1>1. /\ UNCHANGED <<raw, gold, ledger, delivered, hidden, tooOld, wm>>
      /\ \A q \in Runner : q = r
      /\ stage[r] = "query" /\ stage'[r] = "send"
      /\ batch'[r] = {g \in gold : IsNew(g, wm[r])}
  BY DEF Query, tables, observers, GoTo, TypeOK, OneRunner
<1>2. \A j : Settled(j) => Settled(j)'
  BY <1>1 DEF Settled
<1>3. LedgerSettled' /\ BelowWatermarkSettled'
  BY <1>1, <1>2 DEF DeliveryInv, DigestInv, LedgerSettled, BelowWatermarkSettled
<1>4. BatchIsNewGold'
  BY <1>1 DEF BatchIsNewGold, IsNew
<1> QED BY <1>1, <1>3, <1>4 DEF DigestInv, BatchIsMailed, DoneMeansDelivered

LEMMA SendKeepsDigest ==
    ASSUME OneRunner, TypeOK, DeliveryInv, NEW r \in Runner, Send(r)
    PROVE  DigestInv' /\ LedgerSettled' /\ DoneMeansDelivered'
<1>1. /\ UNCHANGED <<raw, gold, ledger, hidden, tooOld, wm, batch>>
      /\ \A q \in Runner : q = r
      /\ stage[r] = "send" /\ stage'[r] = AfterSend(batch[r])
      /\ batch[r] = {g \in gold : IsNew(g, wm[r])}
  BY DEF Send, tables, digestVars, GoTo, TypeOK, OneRunner, DeliveryInv, DigestInv,
         BatchIsNewGold
<1>2. /\ \A j \in Job : delivered[j] > 0 => delivered'[j] > 0
      /\ \A g \in batch[r] : delivered'[g.job] > 0
  BY DEF Send, TypeOK, GoldRow
<1>3. \A j \in Job : Settled(j) => Settled(j)'
  BY <1>1, <1>2 DEF Settled
<1>4. LedgerSettled' /\ BelowWatermarkSettled'
  BY <1>1, <1>3 DEF DeliveryInv, DigestInv, LedgerSettled, BelowWatermarkSettled,
                    TypeOK, Row, GoldRow
<1>5. BatchIsNewGold' /\ BatchIsMailed'
  BY <1>1, <1>2 DEF BatchIsNewGold, BatchIsMailed, IsNew
<1>6. DoneMeansDelivered'
  <2> SUFFICES ASSUME AfterSend(batch[r]) = "done", NEW g \in gold PROVE Settled(g.job)'
    BY <1>1 DEF DoneMeansDelivered
  <2>1. batch[r] = {}
    BY DEF AfterSend
  <2>2. g.first <= wm[r]
    BY <1>1, <2>1 DEF IsNew, TypeOK, GoldRow
  <2> QED BY <1>1, <1>3, <2>2 DEF DeliveryInv, DigestInv, BelowWatermarkSettled, TypeOK, GoldRow
<1> QED BY <1>4, <1>5, <1>6 DEF DigestInv

(* When a digest is recorded everything in gold is settled: mailed just    *)
(* now, or behind the watermark it had read.                               *)
LEMMA RecordFindsAllSettled ==
    ASSUME OneRunner, TypeOK, DeliveryInv, NEW r \in Runner, stage[r] = "record"
    PROVE  \A g \in gold : Settled(g.job)
<1> SUFFICES ASSUME NEW g \in gold PROVE Settled(g.job)
  OBVIOUS
<1>1. batch[r] = {h \in gold : IsNew(h, wm[r])}
  BY DEF DeliveryInv, DigestInv, BatchIsNewGold
<1>2. CASE g \in batch[r]
  BY <1>2 DEF DeliveryInv, DigestInv, BatchIsMailed, Settled
<1>3. CASE g \notin batch[r]
  <2>1. g.first <= wm[r]
    BY <1>1, <1>3 DEF IsNew, TypeOK, GoldRow
  <2> QED BY <2>1 DEF DeliveryInv, DigestInv, BelowWatermarkSettled
<1> QED BY <1>2, <1>3

LEMMA RecordKeepsDigest ==
    ASSUME OneRunner, TypeOK, DeliveryInv, NEW r \in Runner, Record(r)
    PROVE  DigestInv' /\ LedgerSettled' /\ DoneMeansDelivered'
<1>1. PICK w \in {g.first : g \in batch[r]} :
             /\ IsNewest(batch[r], w)
             /\ ledger' = ledger \cup {w}
             /\ hidden' = hidden \cup Passed(w)
  BY DEF Record
<1>2. /\ UNCHANGED <<raw, gold, delivered, tooOld>>
      /\ \A q \in Runner : q = r
      /\ stage[r] = "record" /\ stage'[r] = "done"
      /\ batch[r] = {g \in gold : IsNew(g, wm[r])}
  BY DEF Record, GoTo, TypeOK, OneRunner, DeliveryInv, DigestInv, BatchIsNewGold
<1>3. \A j : Settled(j) => Settled(j)'
  BY <1>1, <1>2 DEF Settled
<1>4. \A g \in gold : Settled(g.job)
  BY <1>2, RecordFindsAllSettled
<1>5. LedgerSettled'
  <2> SUFFICES ASSUME NEW v \in ledger', NEW q \in raw, IsFirst(raw, q), q.at <= v
               PROVE  Settled(q.job)'
    BY <1>2 DEF LedgerSettled
  <2>1. CASE v \in ledger
    BY <1>3, <2>1 DEF DeliveryInv, LedgerSettled
  <2>2. CASE v = w
    <3>1. CASE \E g \in gold : g.job = q.job
      BY <1>3, <1>4, <3>1
    <3>2. CASE \A g \in gold : g.job # q.job
      BY <1>1, <2>2, <3>2 DEF Passed, Settled
    <3> QED BY <3>1, <3>2
  <2> QED BY <1>1, <2>1, <2>2
<1> QED BY <1>2, <1>3, <1>4, <1>5
       DEF DigestInv, BatchIsNewGold, BelowWatermarkSettled, BatchIsMailed, DoneMeansDelivered

LEMMA DigestStep ==
    ASSUME OneRunner, TypeOK, DeliveryInv, [Next]_vars
    PROVE  DigestInv' /\ LedgerSettled' /\ DoneMeansDelivered'
<1>1. CASE Elapse \/ ConfigureMail \/ UNCHANGED vars
  BY <1>1, DigestStill DEF Elapse, ConfigureMail, vars, tables, digestVars, observers
<1> QED BY <1>1, IngestKeepsDigest, ReadKeepsDigest, QueryKeepsDigest, SendKeepsDigest,
           RecordKeepsDigest DEF Next, Step, Deliver

(* With runs that do not overlap the delivery invariant holds, whatever    *)
(* fails or crashes.                                                       *)
THEOREM DeliveryHolds == ASSUME OneRunner PROVE Spec => []DeliveryInv
<1>1. Init => DeliveryInv
  BY DEF Init, DeliveryInv, StampInv, StampsArePast, LoadingIsNewest, SilverFirsts,
         GoldFirsts, DigestInv, BatchIsNewGold, BelowWatermarkSettled, BatchIsMailed,
         LedgerSettled, DoneMeansDelivered
<1>2. TypeOK /\ DeliveryInv /\ [Next]_vars => DeliveryInv'
  BY StampStep, DigestStep DEF DeliveryInv, DigestInv
<1> QED BY <1>1, <1>2, TypeCorrect, PTL DEF Spec

(* With runs that do not overlap, and whatever fails or crashes, a posting *)
(* in gold is settled or still ahead of every recorded watermark.          *)
THEOREM NothingIsLostSilently == ASSUME OneRunner PROVE Spec => []NoSilentLoss
<1>1. TypeOK /\ DeliveryInv => NoSilentLoss
  <2> SUFFICES ASSUME TypeOK, DeliveryInv, NEW g \in gold, NEW w \in ledger, ~(w < g.first)
               PROVE  Settled(g.job)
    BY DEF NoSilentLoss
  <2>1. g.first <= w
    BY DEF TypeOK, GoldRow
  <2> QED BY <2>1, GoldBehindLedger
<1> QED BY <1>1, DeliveryHolds, TypeCorrect, PTL

(* And a run that ends well has left nothing in gold unsettled.            *)
THEOREM DoneDeliversAll == ASSUME OneRunner PROVE Spec => []DoneMeansDelivered
<1>1. DeliveryInv => DoneMeansDelivered
  BY DEF DeliveryInv
<1> QED BY <1>1, DeliveryHolds, PTL
-----------------------------------------------------------------------------
(* Duplicates.                                                             *)

(* What a watermark has passed stays passed: rows are only added, on top.  *)
LEMMA CoveredStays ==
    ASSUME TypeOK, NEW Q \in SUBSET Row, \A q \in Q, p \in raw : p.at < q.at,
           raw' = raw \cup Q, ledger \subseteq ledger', NEW j, Covered(j)
    PROVE  Covered(j)'
<1>1. PICK w \in ledger, q \in raw : q.job = j /\ IsFirst(raw, q) /\ q.at <= w
  BY DEF Covered
<1>2. IsFirst(raw', q)
  BY <1>1, FirstStays DEF TypeOK
<1> QED BY <1>1, <1>2 DEF Covered

(* The jobs of a digest about to be sent are not covered.                  *)
LEMMA BatchIsAhead ==
    ASSUME TypeOK, DeliveryInv, NEW r \in Runner, stage[r] = "send", NEW g \in batch[r]
    PROVE  ~Covered(g.job)
<1> SUFFICES ASSUME NEW w \in ledger, NEW q \in raw,
                    q.job = g.job, IsFirst(raw, q), q.at <= w
             PROVE  FALSE
  BY DEF Covered
<1>1. g \in gold /\ g.first > wm[r] /\ w <= wm[r]
  BY DEF DeliveryInv, DigestInv, BatchIsNewGold, BelowWatermarkSettled, IsNew
<1>2. q.at = g.first
  BY <1>1, FirstIsUnique DEF DeliveryInv, StampInv, GoldFirsts, FirstRow, TypeOK
<1> QED BY <1>1, <1>2 DEF TypeOK, GoldRow

(* A step that sends and records nothing; when it loses a mail, it counts. *)
LEMMA CountsStill ==
    ASSUME OneRunner, TypeOK, OnceInv, DeliveryInv, NEW Q \in SUBSET Row,
           \A q \in Q, p \in raw : p.at < q.at,
           raw' = raw \cup Q, delivered' = delivered, ledger' = ledger,
           \/ lost' = lost /\ \A j \in Job : ~AwaitsRecord(j)
           \/ lost' = lost /\ UNCHANGED <<stage, batch>>
           \/ lost' = lost + 1
    PROVE  OnceInv'
<1> SUFFICES ASSUME NEW j \in Job
             PROVE  \/ delivered'[j] <= lost'
                    \/ delivered'[j] = lost' + 1 /\ (Covered(j)' \/ AwaitsRecord(j)')
  BY DEF OnceInv
<1>1. Covered(j) => Covered(j)'
  BY CoveredStays
<1>2. delivered[j] \in Nat /\ lost \in Nat
  BY DEF TypeOK
<1>3. CASE lost' = lost + 1
  BY <1>2, <1>3 DEF OnceInv
<1>4. CASE lost' = lost /\ \A i \in Job : ~AwaitsRecord(i)
  BY <1>1, <1>4 DEF OnceInv
<1>5. CASE lost' = lost /\ UNCHANGED <<stage, batch>>
  BY <1>1, <1>5 DEF OnceInv, AwaitsRecord
<1> QED BY <1>3, <1>4, <1>5

LEMMA SendCounts ==
    ASSUME OneRunner, TypeOK, DeliveryInv, OnceInv, NEW r \in Runner, Send(r)
    PROVE  OnceInv'
<1> SUFFICES ASSUME NEW j \in Job
             PROVE  \/ delivered'[j] <= lost'
                    \/ delivered'[j] = lost' + 1 /\ (Covered(j)' \/ AwaitsRecord(j)')
  BY DEF OnceInv
<1>1. /\ UNCHANGED <<raw, ledger, batch, lost>>
      /\ \A q \in Runner : q = r
      /\ stage[r] = "send" /\ stage'[r] = AfterSend(batch[r])
      /\ delivered[j] \in Nat /\ lost \in Nat
  BY DEF Send, tables, digestVars, GoTo, TypeOK, OneRunner
<1>2. (Covered(j) => Covered(j)') /\ ~AwaitsRecord(j)
  BY <1>1 DEF Covered, AwaitsRecord
<1>3. CASE \E g \in batch[r] : g.job = j
  <2>1. ~Covered(j)
    BY <1>1, <1>3, BatchIsAhead
  <2>2. delivered[j] <= lost
    BY <1>2, <2>1 DEF OnceInv
  <2>3. delivered'[j] = delivered[j] + 1
    BY <1>3 DEF Send
  <2>4. AwaitsRecord(j)'
    BY <1>1, <1>3 DEF AwaitsRecord, AfterSend
  <2> QED BY <1>1, <2>2, <2>3, <2>4
<1>4. CASE ~ \E g \in batch[r] : g.job = j
  <2>1. delivered'[j] = delivered[j]
    BY <1>4 DEF Send
  <2> QED BY <1>1, <1>2, <2>1 DEF OnceInv
<1> QED BY <1>3, <1>4

LEMMA RecordCounts ==
    ASSUME OneRunner, TypeOK, DeliveryInv, OnceInv, NEW r \in Runner, Record(r)
    PROVE  OnceInv'
<1> SUFFICES ASSUME NEW j \in Job
             PROVE  \/ delivered'[j] <= lost'
                    \/ delivered'[j] = lost' + 1 /\ (Covered(j)' \/ AwaitsRecord(j)')
  BY DEF OnceInv
<1>1. PICK w \in {g.first : g \in batch[r]} :
             IsNewest(batch[r], w) /\ ledger' = ledger \cup {w}
  BY DEF Record
<1>2. UNCHANGED <<raw, delivered, lost>> /\ stage[r] = "record" /\ \A q \in Runner : q = r
  BY DEF Record, OneRunner
<1>3. Covered(j) => Covered(j)'
  BY <1>1, <1>2 DEF Covered
<1>4. AwaitsRecord(j) => Covered(j)'
  <2> SUFFICES ASSUME NEW g \in batch[r], g.job = j PROVE Covered(j)'
    BY <1>2 DEF AwaitsRecord
  <2>1. g \in gold /\ g.first <= w
    BY <1>1, <1>2 DEF DeliveryInv, DigestInv, BatchIsNewGold, IsNewest
  <2>2. PICK f \in raw : FirstRow(f, g.job, g.first)
    BY <2>1 DEF DeliveryInv, StampInv, GoldFirsts
  <2> QED BY <1>1, <1>2, <2>1, <2>2 DEF Covered, FirstRow
<1> QED BY <1>2, <1>3, <1>4 DEF OnceInv

LEMMA OnceStep ==
    ASSUME OneRunner, TypeOK, DeliveryInv, OnceInv, [Next]_vars
    PROVE  OnceInv'
<1>1. CASE Elapse \/ ConfigureMail \/ UNCHANGED vars
  <2>1. UNCHANGED <<raw, ledger, delivered, lost, stage, batch>>
    BY <1>1 DEF Elapse, ConfigureMail, vars, tables, digestVars, observers
  <2> QED BY <2>1 DEF OnceInv, Covered, AwaitsRecord
<1>2. ASSUME NEW r \in Runner,
             Start(r) \/ Ingest(r) \/ Transform(r) \/ SkipMail(r) \/ ReadWatermark(r) \/ Query(r)
      PROVE  OnceInv'
  <2>1. UNCHANGED <<ledger, delivered, lost>> /\ stage[r] # "record"
    BY <1>2 DEF Start, Ingest, Fetch, Stamp, Load, Landed, Report, Transform, Surface,
         BuildSilver, BuildGold, Gate, SkipMail, ReadWatermark, Query, tables, observers, Ended
  <2>2. \A j \in Job : ~AwaitsRecord(j)
    BY <2>1 DEF AwaitsRecord, OneRunner
  <2>3. CASE Load(r)
    <3>1. loading[r] \in SUBSET Row /\ \A q \in loading[r], p \in raw : p.at < q.at
      BY DEF TypeOK, DeliveryInv, StampInv, LoadingIsNewest
    <3>2. raw' = raw \cup loading[r]
      BY <2>3 DEF Load
    <3> QED BY <2>1, <2>2, <3>1, <3>2, CountsStill
  <2>4. CASE ~Load(r)
    <3>1. raw' = raw \cup {}
      BY <1>2, <2>4 DEF Start, Ingest, Fetch, Stamp, Landed, Report, Transform, Surface,
         BuildSilver, BuildGold, Gate, SkipMail, ReadWatermark, Query, tables
    <3>2. {} \in SUBSET Row /\ \A q \in {}, p \in raw : p.at < q.at
      OBVIOUS
    <3> QED BY <2>1, <2>2, <3>1, <3>2, CountsStill
  <2> QED BY <2>3, <2>4
<1>3. ASSUME NEW r \in Runner, Abort(r) PROVE OnceInv'
  <2>1. PICK Q \in SUBSET loading[r] : raw' = raw \cup Q
    BY <1>3 DEF Abort
  <2>2. Q \in SUBSET Row /\ \A q \in Q, p \in raw : p.at < q.at
    BY DEF TypeOK, DeliveryInv, StampInv, LoadingIsNewest
  <2>3. UNCHANGED <<ledger, delivered>> /\ lost' = IF stage[r] = "record" THEN lost + 1 ELSE lost
    BY <1>3 DEF Abort
  <2>4. stage[r] # "record" => \A j \in Job : ~AwaitsRecord(j)
    BY DEF AwaitsRecord, OneRunner
  <2> QED BY <2>1, <2>2, <2>3, <2>4, CountsStill
<1> QED BY <1>1, <1>2, <1>3, SendCounts, RecordCounts DEF Next, Step, Deliver

(* With runs that do not overlap, a posting is mailed once, and once more  *)
(* only for each run that died between its mail and the ledger.            *)
THEOREM MailedOncePerCrash == ASSUME OneRunner PROVE Spec => []DuplicatesNeedACrash
<1>1. Init => OnceInv
  <2> SUFFICES ASSUME Init, NEW j \in Job PROVE delivered[j] <= lost
    BY DEF OnceInv
  <2>1. delivered[j] = 0 /\ lost = 0
    BY DEF Init
  <2> QED BY <2>1
<1>2. TypeOK /\ DeliveryInv /\ OnceInv /\ [Next]_vars => OnceInv'
  BY OnceStep
<1>3. TypeOK /\ OnceInv => DuplicatesNeedACrash
  <2>1. ASSUME TypeOK, OnceInv, NEW j \in Job PROVE delivered[j] <= 1 + lost
    <3>1. delivered[j] <= lost \/ delivered[j] = lost + 1
      BY <2>1 DEF OnceInv
    <3>2. delivered[j] \in Nat /\ lost \in Nat
      BY <2>1 DEF TypeOK
    <3> QED BY <3>1, <3>2
  <2> QED BY <2>1 DEF DuplicatesNeedACrash
<1> QED BY <1>1, <1>2, <1>3, TypeCorrect, DeliveryHolds, PTL DEF Spec
-----------------------------------------------------------------------------
(* Workflow implements Outbox.                                             *)
shelf == {g.job : g \in gold}
settled == {j \in Job : Settled(j)}
opened == ledger # {}

(* Nothing the outbox knows of has changed.                                *)
LEMMA OutboxStill ==
    ASSUME UNCHANGED <<gold, ledger, delivered, tooOld, hidden>>
    PROVE  UNCHANGED <<shelf, Due, settled, opened>>
BY DEF shelf, Due, settled, opened, Settled

(* A job that stays in gold through a build keeps its first_seen_at.       *)
LEMMA FirstKept ==
    ASSUME TypeOK, GoldFirsts, GoldFirsts', raw' = raw,
           NEW g \in gold, NEW h \in gold', g.job = h.job
    PROVE  g.first = h.first
<1>1. PICK f \in raw : f.job = g.job /\ f.at = g.first /\ IsFirst(raw, f)
  BY DEF GoldFirsts, FirstRow
<1>2. PICK q \in raw : q.job = h.job /\ q.at = h.first /\ IsFirst(raw, q)
  BY DEF GoldFirsts, FirstRow
<1> QED BY <1>1, <1>2, FirstIsUnique DEF TypeOK

LEMMA BuildRestocks ==
    ASSUME TypeOK, TypeOK', GoldFirsts, GoldFirsts', NoSilentLoss',
           NEW r \in Runner, BuildGold(r)
    PROVE  Promise!Restock
<1>1. UNCHANGED <<raw, ledger, delivered, tooOld, hidden>>
  BY DEF BuildGold, observers
<1>2. UNCHANGED <<settled, opened>>
  BY <1>1 DEF settled, opened, Settled
<1>3. shelf' \in SUBSET Job /\ Due' \in SUBSET shelf'
  BY DEF shelf, Due, TypeOK, GoldRow
<1>4. shelf' \ settled \subseteq Due'
  BY <1>1, <1>2 DEF shelf, Due, settled, NoSilentLoss, TypeOK, GoldRow
<1>5. ASSUME NEW j \in shelf, j \in shelf' PROVE j \in Due' <=> j \in Due
  BY <1>1, <1>5, FirstKept DEF shelf, Due
<1>6. Due' \cap shelf = Due \cap shelf'
  BY <1>3, <1>5 DEF shelf, Due
<1> QED BY <1>2, <1>3, <1>4, <1>6 DEF Promise!Restock, shelf, settled, opened

LEMMA ReadWritesOff ==
    ASSUME TypeOK, NEW r \in Runner, ReadWatermark(r)
    PROVE  Promise!WriteOff \/ UNCHANGED <<shelf, Due, settled, opened>>
<1>1. UNCHANGED <<gold, ledger, delivered, hidden>>
  BY DEF ReadWatermark, tables
<1>2. CASE UNCHANGED tooOld
  BY <1>1, <1>2, OutboxStill
<1>3. CASE ledger = {} /\ tooOld' = tooOld \cup {g \in gold : g.first <= now - Lookback}
  <2>1. UNCHANGED <<shelf, Due, opened>> /\ ~opened
    BY <1>1, <1>3 DEF shelf, Due, opened
  <2>2. settled \subseteq settled' /\ settled' \subseteq settled \cup shelf
    BY <1>1, <1>3 DEF settled, Settled, shelf
  <2> QED BY <2>1, <2>2 DEF Promise!WriteOff, shelf, settled, opened
<1> QED BY <1>2, <1>3 DEF ReadWatermark

LEMMA SendMails ==
    ASSUME OneRunner, TypeOK, DeliveryInv, NEW r \in Runner, Send(r)
    PROVE  Promise!Mail
<1>1. /\ UNCHANGED <<gold, ledger, tooOld, hidden>>
      /\ stage[r] = "send"
      /\ batch[r] = {g \in gold : IsNew(g, wm[r])}
  BY DEF Send, tables, DeliveryInv, DigestInv, BatchIsNewGold
<1>2. UNCHANGED <<shelf, Due, opened>>
  BY <1>1 DEF shelf, Due, opened
<1>3. \A j \in Job : delivered'[j] > 0 <=> delivered[j] > 0 \/ \E g \in batch[r] : g.job = j
  BY DEF Send, TypeOK
<1>4. ASSUME NEW g \in batch[r] PROVE g.job \in Due
  <2>1. g \in gold /\ g.first > wm[r]
    BY <1>1 DEF IsNew
  <2>2. \A w \in ledger : w <= wm[r]
    BY <1>1 DEF DeliveryInv, DigestInv, BelowWatermarkSettled
  <2>3. \A w \in ledger : w < g.first
    BY <2>1, <2>2 DEF TypeOK, GoldRow
  <2> QED BY <2>1, <2>3 DEF Due
<1>5. ASSUME NEW j \in Due PROVE Settled(j) \/ \E g \in batch[r] : g.job = j
  <2>1. PICK g \in gold : g.job = j
    BY DEF Due
  <2>2. CASE g.first <= wm[r]
    BY <1>1, <2>1, <2>2 DEF DeliveryInv, DigestInv, BelowWatermarkSettled
  <2>3. CASE g.first > wm[r]
    BY <1>1, <2>1, <2>3 DEF IsNew
  <2> QED BY <2>1, <2>2, <2>3 DEF TypeOK, GoldRow
<1>6. Due \subseteq Job
  BY DEF Due, TypeOK, GoldRow
<1>7. settled' = settled \cup Due
  BY <1>1, <1>3, <1>4, <1>5, <1>6 DEF settled, Settled
<1> QED BY <1>2, <1>7 DEF Promise!Mail, shelf, settled, opened

LEMMA RecordAcknowledges ==
    ASSUME OneRunner, TypeOK, DeliveryInv, NEW r \in Runner, Record(r)
    PROVE  Promise!Acknowledge
<1>1. PICK w \in {g.first : g \in batch[r]} :
             /\ IsNewest(batch[r], w)
             /\ ledger' = ledger \cup {w}
             /\ hidden' = hidden \cup Passed(w)
  BY DEF Record
<1>2. /\ UNCHANGED <<raw, gold, delivered, tooOld>>
      /\ stage[r] = "record"
      /\ batch[r] = {g \in gold : IsNew(g, wm[r])}
  BY DEF Record, DeliveryInv, DigestInv, BatchIsNewGold
<1>3. \A g \in gold : Settled(g.job)
  BY <1>2, RecordFindsAllSettled
<1>4. UNCHANGED shelf /\ opened'
  BY <1>1, <1>2 DEF shelf, opened
<1>5. Due \subseteq settled
  BY <1>3 DEF Due, settled, TypeOK, GoldRow
<1>6. Due' = {}
  <2> SUFFICES ASSUME NEW g \in gold PROVE \E v \in ledger' : ~(v < g.first)
    BY <1>2 DEF Due
  <2>1. wm[r] < w /\ w \in Nat /\ g.first \in Nat /\ wm[r] \in Int
    BY <1>2 DEF IsNew, TypeOK, GoldRow
  <2>2. g.first <= w
    BY <1>1, <1>2, <2>1 DEF IsNewest, IsNew
  <2> QED BY <1>1, <2>1, <2>2
<1>7. settled \subseteq settled'
  BY <1>1, <1>2 DEF settled, Settled
<1>8. Passed(w) \cap shelf = {}
  BY DEF Passed, shelf
<1>9. settled' \cap shelf = settled \cap shelf
  BY <1>1, <1>2, <1>7, <1>8 DEF settled, Settled
<1> QED BY <1>4, <1>5, <1>6, <1>7, <1>9 DEF Promise!Acknowledge, shelf, settled, opened

LEMMA OutboxStep ==
    ASSUME OneRunner, TypeOK, TypeOK', DeliveryInv, DeliveryInv', NoSilentLoss', [Next]_vars
    PROVE  [Promise!Next]_<<shelf, Due, settled, opened>>
<1>1. CASE Elapse \/ ConfigureMail \/ UNCHANGED vars
  BY <1>1, OutboxStill DEF Elapse, ConfigureMail, vars, tables, observers
<1>2. ASSUME NEW r \in Runner, Start(r) \/ Ingest(r) \/ Abort(r)
      PROVE  UNCHANGED <<shelf, Due, settled, opened>>
  BY <1>2, OutboxStill DEF Start, Ingest, Fetch, Stamp, Load, Landed, Report, Abort,
                           tables, observers
<1>3. ASSUME NEW r \in Runner, Surface(r) \/ BuildSilver(r) \/ Gate(r) \/ SkipMail(r) \/ Query(r)
      PROVE  UNCHANGED <<shelf, Due, settled, opened>>
  BY <1>3, OutboxStill DEF Surface, BuildSilver, Gate, SkipMail, Query, tables, observers
<1>4. ASSUME NEW r \in Runner, BuildGold(r) PROVE Promise!Restock
  BY <1>4, BuildRestocks DEF DeliveryInv, StampInv
<1> QED BY <1>1, <1>2, <1>3, <1>4, ReadWritesOff, SendMails, RecordAcknowledges
       DEF Next, Step, Transform, Deliver, Promise!Next

(* With runs that do not overlap, the workflow with its tables, clocks and *)
(* watermarks, and whatever fails in it, is an outbox: what is in gold and *)
(* ahead of the watermark is mailed before the watermark passes it, and    *)
(* nothing becomes due again that was mailed and recorded.                 *)
THEOREM WorkflowIsAnOutbox == ASSUME OneRunner PROVE Spec => KeepsThePromise
<1>1. Init => Promise!Init
  BY DEF Init, Promise!Init, Due, Settled
<1>2. TypeOK /\ TypeOK' /\ DeliveryInv /\ DeliveryInv' /\ NoSilentLoss' /\ [Next]_vars
          => [Promise!Next]_<<shelf, Due, settled, opened>>
  BY OutboxStep
<1>3. Spec => [][Promise!Next]_<<shelf, Due, settled, opened>>
  BY <1>2, TypeCorrect, DeliveryHolds, NothingIsLostSilently, PTL DEF Spec
<1> QED BY <1>1, <1>3, PTL DEF Spec, KeepsThePromise, Promise!Spec, shelf, settled, opened
-----------------------------------------------------------------------------
(* Dark sources.  Once the ingest has reported and gone on, each listed    *)
(* source has a board that did not fail; past the gate, each has a row.    *)
PastReport == {"warnings", "silver", "gold", "gate", "watermark", "query", "send",
               "record", "done", "unmailed"}
PastGate == {"watermark", "query", "send", "record", "done", "unmailed"}

SourcesInv ==
    \A r \in Runner : \A s \in Source :
        /\ stage[r] \in PastReport => ~AllFailed(r, s)
        /\ stage[r] \in PastGate => \E q \in raw : SourceOf[BoardOf[q.job]] = s

(* A step of r that is not its report or the gate keeps r on its side of   *)
(* both; the other runs stay where they are, and rows are only added.      *)
LEMMA SourcesStill ==
    ASSUME TypeOK, SourcesInv, raw \subseteq raw', NEW r \in Runner, NEW t,
           GoTo(r, t),
           \A q \in Runner \ {r} : failed'[q] = failed[q],
           t \in PastReport => stage[r] \in PastReport /\ failed'[r] = failed[r],
           t \in PastGate => stage[r] \in PastGate
    PROVE  SourcesInv'
<1> SUFFICES ASSUME NEW q \in Runner, NEW s \in Source
             PROVE  /\ stage'[q] \in PastReport => ~AllFailed(q, s)'
                    /\ stage'[q] \in PastGate => \E p \in raw' : SourceOf[BoardOf[p.job]] = s
  BY DEF SourcesInv
<1>1. stage'[q] = IF q = r THEN t ELSE stage[q]
  BY DEF GoTo, TypeOK
<1>2. failed'[q] = failed[q] => (AllFailed(q, s)' <=> AllFailed(q, s))
  BY DEF AllFailed
<1> QED BY <1>1, <1>2 DEF SourcesInv

LEMMA SourcesStep == ASSUME TypeOK, SourcesInv, [Next]_vars PROVE SourcesInv'
<1> USE DEF PastReport, PastGate
<1>1. CASE Elapse \/ ConfigureMail \/ UNCHANGED vars
  BY <1>1 DEF Elapse, ConfigureMail, vars, tables, ingestVars, SourcesInv, AllFailed
<1>2. ASSUME NEW r \in Runner, Start(r) \/ Fetch(r) PROVE SourcesInv'
  <2>1. raw' = raw /\ \A q \in Runner \ {r} : failed'[q] = failed[q]
    BY <1>2 DEF Start, Fetch, tables, TypeOK
  <2>2. GoTo(r, "fetch") \/ GoTo(r, "land")
    BY <1>2 DEF Start, Fetch
  <2> QED BY <2>1, <2>2, SourcesStill
<1>3. ASSUME NEW r \in Runner, (\E b \in Board : Stamp(r, b)) \/ Load(r) PROVE SourcesInv'
  <2>1. raw \subseteq raw' /\ UNCHANGED <<stage, failed>>
    BY <1>3 DEF Stamp, Load, tables
  <2> QED BY <2>1 DEF SourcesInv, AllFailed
<1>4. ASSUME NEW r \in Runner, Landed(r) \/ Abort(r) PROVE SourcesInv'
  <2>1. raw \subseteq raw' /\ UNCHANGED failed
    BY <1>4 DEF Landed, Abort, tables, ingestVars
  <2>2. GoTo(r, "report") \/ GoTo(r, "faulted")
    BY <1>4 DEF Landed, Abort
  <2> QED BY <2>1, <2>2, SourcesStill
<1>5. ASSUME NEW r \in Runner, Report(r) PROVE SourcesInv'
  <2>1. UNCHANGED <<raw, failed>>
    BY <1>5 DEF Report, tables
  <2>2. CASE \E s \in Source : AllFailed(r, s)
    <3>1. GoTo(r, "ingest failed")
      BY <1>5, <2>2 DEF Report
    <3> QED BY <2>1, <3>1, SourcesStill
  <2>3. CASE \A s \in Source : ~AllFailed(r, s)
    <3>1. \A q \in Runner : stage'[q] = IF q = r THEN "warnings" ELSE stage[q]
      BY <1>5, <2>3 DEF Report, GoTo, TypeOK
    <3> QED BY <2>1, <2>3, <3>1 DEF SourcesInv, AllFailed
  <2> QED BY <2>2, <2>3
<1>6. ASSUME NEW r \in Runner, Gate(r) PROVE SourcesInv'
  <2>1. UNCHANGED <<raw, failed>> /\ stage[r] = "gate"
    BY <1>6 DEF Gate, tables, ingestVars
  <2>2. CASE \A s \in Source : Fresh(s)
    <3>1. \A q \in Runner : stage'[q] = IF q = r THEN "watermark" ELSE stage[q]
      BY <1>6, <2>2 DEF Gate, GoTo, TypeOK
    <3>2. \A s \in Source : \E q \in raw : SourceOf[BoardOf[q.job]] = s
      BY <2>2 DEF Fresh
    <3> QED BY <2>1, <3>1, <3>2 DEF SourcesInv, AllFailed
  <2>3. CASE ~ \A s \in Source : Fresh(s)
    <3>1. GoTo(r, "gate failed")
      BY <1>6, <2>3 DEF Gate
    <3> QED BY <2>1, <3>1, SourcesStill
  <2> QED BY <2>2, <2>3
<1>7. ASSUME NEW r \in Runner, Surface(r) \/ BuildSilver(r) \/ BuildGold(r) PROVE SourcesInv'
  <2>1. UNCHANGED <<raw, failed>> /\ stage[r] \in PastReport
    BY <1>7 DEF Surface, BuildSilver, BuildGold, tables, ingestVars
  <2>2. \E t \in {"silver", "warnings failed", "gold", "gate"} : GoTo(r, t)
    BY <1>7 DEF Surface, BuildSilver, BuildGold
  <2> QED BY <2>1, <2>2, SourcesStill
<1>8. ASSUME NEW r \in Runner, Deliver(r) PROVE SourcesInv'
  <2>1. UNCHANGED <<raw, failed>> /\ stage[r] \in PastGate
    BY <1>8 DEF Deliver, SkipMail, ReadWatermark, Query, Send, Record, tables, ingestVars
  <2>2. \E t : GoTo(r, t)
    BY <1>8 DEF Deliver, SkipMail, ReadWatermark, Query, Send, Record
  <2> QED BY <2>1, <2>2, SourcesStill
<1> QED BY <1>1, <1>2, <1>3, <1>4, <1>5, <1>6, <1>7, <1>8 DEF Next, Step, Ingest, Transform

(* A run, also beside others, that ends well has fetched a board of every  *)
(* source, and the warehouse holds a posting of each.                      *)
THEOREM DarkSourceStopsEveryRun == Spec => []DarkSourceStopsTheRun
<1>1. Init => SourcesInv
  BY DEF Init, SourcesInv, PastReport, PastGate
<1>2. TypeOK /\ SourcesInv /\ [Next]_vars => SourcesInv'
  BY SourcesStep
<1>3. TypeOK /\ SourcesInv => DarkSourceStopsTheRun
  <2> SUFFICES ASSUME TypeOK, SourcesInv, NEW r \in Runner, stage[r] \in {"done", "unmailed"},
                      NEW s \in Source
               PROVE  /\ \E b \in Board : SourceOf[b] = s /\ b \notin failed[r]
                      /\ \E q \in raw : SourceOf[BoardOf[q.job]] = s
    BY DEF DarkSourceStopsTheRun
  <2>1. ~AllFailed(r, s)
    BY DEF SourcesInv, PastReport
  <2>2. PICK q \in raw : SourceOf[BoardOf[q.job]] = s
    BY DEF SourcesInv, PastGate
  <2>3. BoardOf[q.job] \in Board
    BY BoardOfAssumption DEF TypeOK, Row
  <2> QED BY <2>1, <2>2, <2>3 DEF AllFailed
<1> QED BY <1>1, <1>2, <1>3, TypeCorrect, PTL DEF Spec

-----------------------------------------------------------------------------
(* Progress of runs that may overlap.  Nothing in the warehouse is stamped *)
(* later than the clock, and what is recorded is the newest of something.  *)
PastStamps ==
    /\ StampsArePast
    /\ \A s \in silver : s.first <= now
    /\ \A g \in gold : g.first <= now
    /\ \A r \in Runner : \A g \in batch[r] : g.first <= now
RecordsABatch == \A r \in Runner : stage[r] = "record" => batch[r] # {}
PastInv == PastStamps /\ RecordsABatch

(* Whatever moves a stamp into the next table finds it in the one before.  *)
LEMMA PastStep == ASSUME TypeOK, PastInv, [Next]_vars PROVE PastInv'
<1> USE DEF PastInv, PastStamps, StampsArePast
<1>0. /\ now \in Nat /\ ledger \in SUBSET Nat /\ \A q \in raw : q.at \in Nat
      /\ \A s \in silver : s.first \in Nat
      /\ \A g \in gold : g.first \in Nat
      /\ \A r \in Runner : /\ \A p \in loading[r] : p.at \in Nat
                           /\ \A g \in batch[r] : g.first \in Nat
  BY DEF TypeOK, Row, SilverRows, GoldRow
<1>1. CASE Elapse
  <2>1. PastStamps'
    BY <1>0, <1>1 DEF Elapse, tables, ingestVars, digestVars
  <2> QED BY <1>1, <2>1 DEF Elapse, digestVars, RecordsABatch
<1>2. CASE ConfigureMail \/ UNCHANGED vars
  BY <1>2 DEF ConfigureMail, vars, tables, ingestVars, digestVars, RecordsABatch
<1>3. ASSUME NEW r \in Runner, NEW t, GoTo(r, t), t # "record",
             UNCHANGED <<now, tables, loading, batch>>
      PROVE  PastInv'
  <2>1. \A q \in Runner : stage'[q] = "record" => stage[q] = "record"
    BY <1>3 DEF GoTo, TypeOK
  <2> QED BY <1>3, <2>1 DEF tables, RecordsABatch
<1>4. ASSUME NEW r \in Runner, Start(r) PROVE PastInv'
  <2>1. \A q \in Runner : /\ batch'[q] = IF q = r THEN {} ELSE batch[q]
                          /\ stage'[q] = IF q = r THEN "fetch" ELSE stage[q]
    BY <1>4 DEF Start, GoTo, TypeOK
  <2>2. UNCHANGED <<now, tables, loading>>
    BY <1>4 DEF Start
  <2> QED BY <2>1, <2>2 DEF tables, RecordsABatch
<1>5. ASSUME NEW r \in Runner, Fetch(r) \/ Landed(r) \/ Report(r) PROVE PastInv'
  BY <1>3, <1>5 DEF Fetch, Landed, Report, ingestVars, digestVars
<1>6. ASSUME NEW r \in Runner, NEW b \in Board, Stamp(r, b) PROVE PastInv'
  <2>1. \A p \in loading'[r] : p.at = now + 1
    BY <1>6 DEF Stamp, TypeOK
  <2>2. \A q \in Runner \ {r} : loading'[q] = loading[q]
    BY <1>6 DEF Stamp, TypeOK
  <2>3. UNCHANGED <<tables, stage, batch>> /\ now' = now + 1
    BY <1>6 DEF Stamp, digestVars
  <2>4. \A q \in Runner : \A p \in loading'[q] : p.at <= now'
    BY <1>0, <2>1, <2>2, <2>3
  <2> QED BY <1>0, <2>3, <2>4 DEF tables, RecordsABatch
<1>7. ASSUME NEW r \in Runner, Load(r) \/ Abort(r) PROVE PastInv'
  <2>1. PICK there \in SUBSET loading[r] : raw' = raw \cup there
    BY <1>7 DEF Load, Abort
  <2>2. loading' = [loading EXCEPT ![r] = {}]
    BY <1>7 DEF Load, Abort
  <2>3. UNCHANGED <<now, silver, gold, ledger, batch>>
    BY <1>7 DEF Load, Abort, digestVars
  <2>4. \A q \in Runner : stage'[q] = "record" => stage[q] = "record"
    BY <1>7 DEF Load, Abort, GoTo, TypeOK
  <2>5. \A q \in Runner : loading'[q] \subseteq loading[q]
    BY <2>2 DEF TypeOK
  <2> QED BY <2>1, <2>3, <2>4, <2>5 DEF RecordsABatch
<1>8. ASSUME NEW r \in Runner, Surface(r) \/ Gate(r) PROVE PastInv'
  BY <1>3, <1>8 DEF Surface, Gate, ingestVars, digestVars
<1>9. ASSUME NEW r \in Runner, BuildSilver(r) PROVE PastInv'
  <2>1. \A s \in Silver(raw) : s.first <= now
    BY SilverHasFirst DEF TypeOK
  <2>2. UNCHANGED <<now, raw, gold, ledger, loading, batch>> /\ silver' = Silver(raw)
    BY <1>9 DEF BuildSilver, ingestVars, digestVars
  <2>3. \A q \in Runner : stage'[q] = "record" => stage[q] = "record"
    BY <1>9 DEF BuildSilver, GoTo, TypeOK
  <2> QED BY <2>1, <2>2, <2>3 DEF RecordsABatch
<1>10. ASSUME NEW r \in Runner, BuildGold(r) PROVE PastInv'
  <2>1. \A g \in Offered(silver) : g.first <= now
    BY OfferedIsSilver
  <2>2. UNCHANGED <<now, raw, silver, ledger, loading, batch>> /\ gold' = Offered(silver)
    BY <1>10 DEF BuildGold, ingestVars, digestVars
  <2>3. \A q \in Runner : stage'[q] = "record" => stage[q] = "record"
    BY <1>10 DEF BuildGold, GoTo, TypeOK
  <2> QED BY <2>1, <2>2, <2>3 DEF RecordsABatch
<1>11. ASSUME NEW r \in Runner, SkipMail(r) \/ ReadWatermark(r) PROVE PastInv'
  BY <1>3, <1>11 DEF SkipMail, ReadWatermark, ingestVars, digestVars
<1>12. ASSUME NEW r \in Runner, Query(r) PROVE PastInv'
  <2>1. UNCHANGED <<now, tables, loading>>
    BY <1>12 DEF Query, ingestVars
  <2>2. \A q \in Runner : batch'[q] \subseteq IF q = r THEN gold ELSE batch[q]
    BY <1>12 DEF Query, TypeOK
  <2>3. \A q \in Runner : stage'[q] = "record" => q # r /\ stage[q] = "record"
    BY <1>12 DEF Query, GoTo, TypeOK
  <2>4. \A q \in Runner \ {r} : batch'[q] = batch[q]
    BY <1>12 DEF Query, TypeOK
  <2>5. PastStamps'
    BY <2>1, <2>2 DEF tables
  <2> QED BY <2>3, <2>4, <2>5 DEF RecordsABatch
<1>13. ASSUME NEW r \in Runner, Send(r) PROVE PastInv'
  <2>1. UNCHANGED <<now, tables, loading, batch>>
    BY <1>13 DEF Send, ingestVars, digestVars
  <2>2. \A q \in Runner : stage'[q] = "record" => stage[q] = "record" \/ batch[q] # {}
    BY <1>13 DEF Send, AfterSend, GoTo, TypeOK
  <2> QED BY <2>1, <2>2 DEF tables, RecordsABatch
<1>14. ASSUME NEW r \in Runner, Record(r) PROVE PastInv'
  <2>1. PICK w \in {g.first : g \in batch[r]} : ledger' = ledger \cup {w}
    BY <1>14 DEF Record
  <2>2. UNCHANGED <<now, raw, silver, gold, loading, batch>>
    BY <1>14 DEF Record, ingestVars, digestVars
  <2>3. \A q \in Runner : stage'[q] = "record" => stage[q] = "record"
    BY <1>14 DEF Record, GoTo, TypeOK
  <2> QED BY <2>1, <2>2, <2>3 DEF RecordsABatch
<1> QED BY <1>1, <1>2, <1>4, <1>5, <1>6, <1>7, <1>8, <1>9, <1>10, <1>11, <1>12, <1>13, <1>14
        DEF Next, Step, Ingest, Transform, Deliver

LEMMA PastHolds == Spec => [](TypeOK /\ PastInv)
<1>1. Init => PastInv
  BY DEF Init, PastInv, PastStamps, StampsArePast, RecordsABatch
<1> QED BY <1>1, PastStep, TypeCorrect, PTL DEF Spec

(* A set of numbers below a bound has a largest one.                       *)
LEMMA MaxExists ==
    ASSUME NEW n \in Nat, NEW T \in SUBSET Nat, T # {}, \A t \in T : t <= n
    PROVE  \E t \in T : \A v \in T : v <= t
<1> DEFINE U == {n - t : t \in T}
<1>1. U \in SUBSET Nat /\ U # {}
  <2>1. \A t \in T : n - t \in Nat
    OBVIOUS
  <2> QED BY <2>1
<1>2. PICK u \in U : \A v \in U : ~(<<v, u>> \in OpToRel(<, Nat))
  <2> HIDE DEF U
  <2> QED BY Zenon, <1>1, WFMin, NatLessThanWellFounded
<1>3. \A v \in Nat, w \in Nat : v < w => <<v, w>> \in OpToRel(<, Nat)
  BY Zenon DEF OpToRel
<1>4. \A v \in U : ~(v < u)
  BY <1>1, <1>2, <1>3
<1>5. PICK t \in T : u = n - t
  BY <1>2
<1>6. ASSUME NEW v \in T PROVE v <= t
  <2>1. n - v \in U /\ ~(n - v < n - t)
    BY <1>4, <1>5
  <2>2. v \in Nat /\ t \in Nat
    OBVIOUS
  <2> QED BY <2>1, <2>2
<1> QED BY <1>6

(* What the next step of a run needs, stage by stage: a load job to wait   *)
(* for, a board to stamp or an empty haul; a latest watermark in a ledger  *)
(* that is not empty; a newest row of the batch to record.                 *)
CanGoOn(r) ==
    \/ stage[r] \in {"fetch", "report", "warnings", "silver", "gold", "gate", "query", "send"}
    \/ /\ stage[r] = "land"
       /\ \/ loading[r] # {}                                               \* Load
          \/ haul[r] = {}                                                  \* Landed
          \/ \E b \in Board : {p \in haul[r] : BoardOf[p.job] = b} # {}    \* Stamp
    \/ /\ stage[r] = "watermark"
       /\ \/ ~smtp                                                         \* SkipMail
          \/ ledger = {} \/ \E w \in ledger : Latest(ledger, w)            \* ReadWatermark
    \/ /\ stage[r] = "record"
       /\ \E w \in {g.first : g \in batch[r]} : IsNewest(batch[r], w)      \* Record
NeverStuck == \A r \in Runner : stage[r] \in Active => CanGoOn(r)

(* A run in progress always has a step it can take, whatever other runs    *)
(* did to the tables meanwhile: no step waits for another run.             *)
THEOREM NobodyWaitsForever == Spec => []NeverStuck
<1>1. TypeOK /\ PastInv => NeverStuck
  <2> SUFFICES ASSUME TypeOK, PastInv, NEW r \in Runner, stage[r] \in Active PROVE CanGoOn(r)
    BY DEF NeverStuck
  <2>1. CASE stage[r] = "land"
    <3>1. \A p \in haul[r] : BoardOf[p.job] \in Board
      BY BoardOfAssumption DEF TypeOK, Posting
    <3> QED BY <2>1, <3>1 DEF CanGoOn
  <2>2. CASE stage[r] = "watermark"
    <3>1. ledger # {} => \E w \in ledger : Latest(ledger, w)
      <4>1. ledger \in SUBSET Nat /\ now \in Nat /\ \A w \in ledger : w <= now
        BY DEF TypeOK, PastInv, PastStamps, StampsArePast
      <4> QED BY <4>1, MaxExists DEF Latest
    <3> QED BY <2>2, <3>1 DEF CanGoOn
  <2>3. CASE stage[r] = "record"
    <3> DEFINE firsts == {g.first : g \in batch[r]}
    <3>1. /\ firsts \in SUBSET Nat /\ firsts # {} /\ now \in Nat
          /\ \A w \in firsts : w <= now
      BY <2>3 DEF TypeOK, GoldRow, PastInv, PastStamps, RecordsABatch
    <3>2. PICK w \in firsts : \A v \in firsts : v <= w
      <4> HIDE DEF firsts
      <4> QED BY <3>1, MaxExists
    <3>3. IsNewest(batch[r], w)
      BY <3>2 DEF IsNewest
    <3> QED BY <2>3, <3>3 DEF CanGoOn
  <2> QED BY <2>1, <2>2, <2>3 DEF CanGoOn, Active
<1> QED BY <1>1, PastHolds, PTL

(* How far a run has to go: the boards it fetched and has not stamped, a   *)
(* load job to wait for, and the steps from a stage to the end of the job. *)
Unstamped(h) == {BoardOf[p.job] : p \in h}
StepsFrom(s) ==
    CASE s = "report" -> 9
      [] s = "warnings" -> 8
      [] s = "silver" -> 7
      [] s = "gold" -> 6
      [] s = "gate" -> 5
      [] s = "watermark" -> 4
      [] s = "query" -> 3
      [] s = "send" -> 2
      [] s = "record" -> 1
      [] OTHER -> 0
Landing(h, l) == 2 * Cardinality(Unstamped(h)) + (IF l = {} THEN 0 ELSE 1) + 10
Longest == 2 * Cardinality(Board) + 12
Way(s, h, l) ==
    CASE s = "fetch" -> Longest
      [] s = "land" -> Landing(h, l)
      [] OTHER -> StepsFrom(s)
Left(r) == Way(stage[r], haul[r], loading[r])

LEMMA UnstampedIs ==
    ASSUME NEW h \in SUBSET Posting
    PROVE  /\ Unstamped(h) \in SUBSET Board /\ IsFiniteSet(Unstamped(h))
           /\ Cardinality(Unstamped(h)) \in Nat /\ Cardinality(Board) \in Nat
           /\ Cardinality(Unstamped(h)) <= Cardinality(Board)
<1>1. Unstamped(h) \in SUBSET Board
  BY BoardOfAssumption DEF Posting, Unstamped
<1> QED BY <1>1, FiniteAssumption, FS_Subset, FS_CardinalityType

LEMMA WayIs ==
    ASSUME NEW s, NEW h \in SUBSET Posting, NEW l
    PROVE  /\ Way(s, h, l) \in 0..Longest /\ Longest \in Nat
           /\ Landing(h, l) \in Nat /\ 10 <= Landing(h, l) /\ Landing(h, l) < Longest
           /\ s \in Active => 0 < Way(s, h, l)
<1>1. /\ Landing(h, l) \in Nat /\ 10 <= Landing(h, l) /\ Landing(h, l) < Longest
      /\ Longest \in Nat /\ 12 <= Longest
  <2> DEFINE c == Cardinality(Unstamped(h))
             d == Cardinality(Board)
  <2>1. c \in Nat /\ d \in Nat /\ c <= d
    BY UnstampedIs
  <2>2. Landing(h, l) = 2 * c + (IF l = {} THEN 0 ELSE 1) + 10 /\ Longest = 2 * d + 12
    BY DEF Landing, Longest
  <2> HIDE DEF c, d
  <2> QED BY <2>1, <2>2
<1>2. StepsFrom(s) \in 0..9
  BY DEF StepsFrom
<1>3. s \in Active \ {"fetch", "land"} => 0 < StepsFrom(s)
  BY DEF StepsFrom, Active
<1> QED BY <1>1, <1>2, <1>3 DEF Way

LEMMA StepsAre ==
    /\ StepsFrom("report") = 9 /\ StepsFrom("warnings") = 8 /\ StepsFrom("silver") = 7
    /\ StepsFrom("gold") = 6 /\ StepsFrom("gate") = 5 /\ StepsFrom("watermark") = 4
    /\ StepsFrom("query") = 3 /\ StepsFrom("send") = 2 /\ StepsFrom("record") = 1
BY DEF StepsFrom

LEMMA StepsLeft == ASSUME NEW s \in Active \ {"fetch", "land"} PROVE 0 < StepsFrom(s)
BY DEF StepsFrom, Active

LEMMA NoStepsAre == ASSUME NEW s \in Ended PROVE StepsFrom(s) = 0
BY Zenon DEF StepsFrom, Ended

LEMMA WayFromStage ==
    ASSUME NEW s \in (Active \ {"fetch", "land"}) \cup Ended, NEW h, NEW l
    PROVE  Way(s, h, l) = StepsFrom(s)
BY DEF Way, Active, Ended

(* Nothing but a run's own steps counts for it.                            *)
LEMMA WayStill ==
    ASSUME TypeOK, NEW r \in Runner, [Next]_vars, stage[r] \in Active, ~(Step(r) \/ Abort(r))
    PROVE  Left(r)' = Left(r)
<1> SUFFICES UNCHANGED <<stage[r], haul[r], loading[r]>>
  BY DEF Left
<1>1. CASE Elapse \/ ConfigureMail \/ UNCHANGED vars
  BY <1>1 DEF Elapse, ConfigureMail, vars, ingestVars
<1>2. ASSUME NEW q \in Runner, Start(q) PROVE UNCHANGED <<stage[r], haul[r], loading[r]>>
  <2>1. r # q
    BY <1>2 DEF Start, Active, Ended
  <2> QED BY <1>2, <2>1 DEF Start, GoTo, TypeOK
<1>3. ASSUME NEW q \in Runner \ {r}, Ingest(q)
      PROVE  UNCHANGED <<stage[r], haul[r], loading[r]>>
  BY <1>3 DEF Ingest, Fetch, Stamp, Load, Landed, Report, GoTo, TypeOK, ingestVars
<1>4. ASSUME NEW q \in Runner \ {r}, Transform(q) \/ Deliver(q)
      PROVE  UNCHANGED <<stage[r], haul[r], loading[r]>>
  BY <1>4 DEF Transform, Surface, BuildSilver, BuildGold, Gate, Deliver, SkipMail,
     ReadWatermark, Query, Send, Record, GoTo, TypeOK, ingestVars
<1>5. ASSUME NEW q \in Runner \ {r}, Abort(q) PROVE UNCHANGED <<stage[r], haul[r], loading[r]>>
  BY <1>5 DEF Abort, GoTo, TypeOK
<1> QED BY <1>1, <1>2, <1>3, <1>4, <1>5 DEF Next, Step

(* A run's own step takes it nearer the end of its job.                    *)
LEMMA StepIsNearer ==
    ASSUME TypeOK, TypeOK', NEW r \in Runner, Step(r) \/ Abort(r)
    PROVE  Left(r)' < Left(r)
<1> DEFINE h == haul[r]
           l == loading[r]
           k == haul'[r]
           m == loading'[r]
<1>0. /\ h \in SUBSET Posting /\ k \in SUBSET Posting
      /\ Left(r) = Way(stage[r], h, l) /\ Left(r)' = Way(stage'[r], k, m)
  BY DEF TypeOK, Left
<1>1. ASSUME NEW t, GoTo(r, t) PROVE stage'[r] = t
  BY <1>1 DEF GoTo, TypeOK
<1>2. CASE Fetch(r)
  <2>1. stage[r] = "fetch" /\ stage'[r] = "land"
    BY <1>1, <1>2 DEF Fetch
  <2> QED BY <1>0, <2>1, WayIs DEF Way
<1>3. ASSUME NEW b \in Board, Stamp(r, b) PROVE Left(r)' < Left(r)
  <2>1. stage[r] = "land" /\ stage'[r] = "land" /\ l = {}
    BY <1>3 DEF Stamp
  <2>2. k = h \ {p \in h : BoardOf[p.job] = b}
    BY <1>3 DEF Stamp, TypeOK
  <2>3. b \in Unstamped(h) /\ Unstamped(k) = Unstamped(h) \ {b}
    BY <1>3, <2>2 DEF Stamp, Unstamped
  <2> DEFINE c == Cardinality(Unstamped(h))
             d == Cardinality(Unstamped(k))
  <2>4. c \in Nat /\ d = c - 1
    <3>1. IsFiniteSet(Unstamped(h)) /\ c \in Nat
      BY <1>0, UnstampedIs
    <3>2. Cardinality(Unstamped(h) \ {b}) = c - 1
      BY Zenon, <2>3, <3>1, FS_RemoveElement
    <3> QED BY <2>3, <3>1, <3>2
  <2>5. Left(r) = 2 * c + 10 /\ Left(r)' = 2 * d + (IF m = {} THEN 0 ELSE 1) + 10
    BY <1>0, <2>1, <2>4 DEF Way, Landing
  <2> HIDE DEF c, d
  <2> QED BY <2>4, <2>5
<1>4. CASE Load(r)
  <2>1. stage[r] = "land" /\ stage'[r] = "land" /\ l # {} /\ m = {} /\ k = h
    BY <1>4 DEF Load, TypeOK
  <2> DEFINE c == Cardinality(Unstamped(h))
  <2>2. c \in Nat
    BY <1>0, UnstampedIs
  <2>3. Left(r) = 2 * c + 1 + 10 /\ Left(r)' = 2 * c + 0 + 10
    BY <1>0, <2>1 DEF Way, Landing
  <2> HIDE DEF c
  <2> QED BY <2>2, <2>3
<1>5. CASE Landed(r)
  <2>1. stage[r] = "land" /\ stage'[r] = "report"
    BY <1>1, <1>5 DEF Landed
  <2> QED BY <1>0, <2>1, WayIs DEF Way, StepsFrom
<1>6. ASSUME /\ stage[r] \in (Active \ {"fetch", "land"}) \cup Ended
             /\ stage'[r] \in (Active \ {"fetch", "land"}) \cup Ended,
             StepsFrom(stage'[r]) < StepsFrom(stage[r])
      PROVE  Left(r)' < Left(r)
  BY <1>0, <1>6, WayFromStage
<1>7. CASE Report(r) \/ Transform(r)
  <2>1. \/ stage[r] \in Active \ {"fetch", "land"} /\ stage'[r] \in Ended
        \/ stage[r] = "report" /\ stage'[r] = "warnings"
        \/ stage[r] = "warnings" /\ stage'[r] = "silver"
        \/ stage[r] = "silver" /\ stage'[r] = "gold"
        \/ stage[r] = "gold" /\ stage'[r] = "gate"
        \/ stage[r] = "gate" /\ stage'[r] = "watermark"
    BY <1>1, <1>7 DEF Report, Transform, Surface, BuildSilver, BuildGold, Gate, Active, Ended
  <2> QED BY <1>6, <2>1, StepsAre, NoStepsAre, StepsLeft DEF Active
<1>8. CASE Deliver(r)
  <2>1. \/ stage[r] \in Active \ {"fetch", "land"} /\ stage'[r] \in Ended
        \/ stage[r] = "watermark" /\ stage'[r] = "query"
        \/ stage[r] = "query" /\ stage'[r] = "send"
        \/ stage[r] = "send" /\ stage'[r] = "record"
    BY <1>1, <1>8 DEF Deliver, SkipMail, ReadWatermark, Query, Send, AfterSend, Record,
       Active, Ended
  <2> QED BY <1>6, <2>1, StepsAre, NoStepsAre, StepsLeft DEF Active
<1>9. CASE Abort(r)
  <2>1. stage[r] \in Active /\ stage'[r] = "faulted"
    BY <1>1, <1>9 DEF Abort
  <2>2. Left(r)' = 0
    BY <1>0, <2>1 DEF Way, StepsFrom
  <2> QED BY <1>0, <2>1, <2>2, WayIs
<1> QED BY <1>2, <1>3, <1>4, <1>5, <1>7, <1>8, <1>9 DEF Step, Ingest

(* Each step of a run, a failure included, lowers the number of steps it   *)
(* can still take, which no other run, and not the clock or the owner,     *)
(* ever raises: runs that overlap cannot keep each other from ending.      *)
EveryStepCounts ==
    [][\A r \in Runner :
          /\ Left(r) \in 0..Longest
          /\ stage[r] \in Active => Left(r)' <= Left(r)
          /\ Step(r) \/ Abort(r) => Left(r)' < Left(r)]_vars

(* Each step of a run counts for it, and no other run's counts against it. *)
THEOREM EveryStepIsProgress == Spec => EveryStepCounts
<1> DEFINE Counts(r) == /\ Left(r) \in 0..Longest
                        /\ stage[r] \in Active => Left(r)' <= Left(r)
                        /\ Step(r) \/ Abort(r) => Left(r)' < Left(r)
<1>1. TypeOK /\ TypeOK' /\ [Next]_vars => [\A r \in Runner : Counts(r)]_vars
  <2> SUFFICES ASSUME TypeOK, TypeOK', [Next]_vars, NEW r \in Runner PROVE Counts(r)
    OBVIOUS
  <2>1. Left(r) \in 0..Longest
    <3>1. haul[r] \in SUBSET Posting
      BY DEF TypeOK
    <3> QED BY <3>1, WayIs DEF Left
  <2>2. stage[r] \in Active /\ ~(Step(r) \/ Abort(r)) => Left(r)' = Left(r)
    BY WayStill
  <2>3. Step(r) \/ Abort(r) => Left(r)' < Left(r)
    BY StepIsNearer
  <2>4. haul'[r] \in SUBSET Posting
    BY DEF TypeOK
  <2>5. Left(r)' \in Nat
    BY <2>4, WayIs DEF Left
  <2> HIDE DEF Left
  <2> QED BY <2>1, <2>2, <2>3, <2>5
<1> QED BY <1>1, TypeCorrect, PTL DEF Spec, EveryStepCounts
=============================================================================
