-------------------------- MODULE Discovery_proofs --------------------------
(* Proofs about Discovery, for any companies, spreadsheets, batch sizes    *)
(* and number of runs: every company gets a verdict of its own, a run that *)
(* dies between two saves loses less than a checkpoint, a saved board      *)
(* survives, and every step brings a batch nearer its end.                 *)
EXTENDS Discovery, FiniteSetTheorems, SequenceTheorems, TLAPS

Types ==
    /\ cache \in Seq(Row)
    /\ phase \in {"idle", "audit", "probe", "emit"}
    /\ saving \in {"no", "due", "open"}
    /\ sheet \in Seq(Company)
    /\ records \in Seq(Row) /\ Len(records) = Len(sheet)
    /\ todo \in SUBSET DOMAIN records
    /\ hung \in SUBSET todo
    /\ processed \in Nat
    /\ placed \in SUBSET Company

(* A record stands where its company stands in the sheet; the pending ones *)
(* are the audits to be done.  The cache holds one row per key, as every   *)
(* sheet does.                                                             *)
RowsInv ==
    /\ phase = "idle" => records = <<>> /\ todo = {}
    /\ phase \in {"idle", "emit"} => saving = "no" /\ todo = {}
    /\ phase # "audit" => hung = {}
    /\ phase # "idle" => sheet \in Sheets
    /\ \A i \in DOMAIN records :
           /\ KeyOf[records[i].company] = KeyOf[sheet[i]]
           /\ records[i].verdict = "pending" => records[i].company = sheet[i]
    /\ phase = "audit" => todo = {i \in DOMAIN records : records[i].verdict = "pending"}
    /\ phase # "audit" => \A i \in DOMAIN records : records[i].verdict # "pending"
    /\ \A i, j \in DOMAIN cache : KeyOf[cache[i].company] = KeyOf[cache[j].company] => i = j

(* What is unsaved came in since the last save; a pass ends with one.      *)
LossInv ==
    /\ saving = "no" =>
        /\ Cardinality(Unsaved) <= processed % Every
        /\ todo = {} => Unsaved = {}
    /\ saving = "due" => Cardinality(Unsaved) <= Every

(* A board that was saved is in the cache, unless the file is open, and a  *)
(* record of its company never shows anything else.                        *)
BoardInv ==
    ~torn => \A c \in placed \ dropped :
        /\ saving # "open" => HasBoard(c)
        /\ \A i \in DOMAIN records : records[i].company = c => records[i].verdict = "board"

RunInv == Types /\ RowsInv /\ LossInv /\ BoardInv

-----------------------------------------------------------------------------
(* Counting.  The remainder goes up by one until it is zero again ...      *)
LEMMA NextRemainder ==
    ASSUME NEW p \in Nat, NEW e \in Nat \ {0}, (p + 1) % e # 0
    PROVE  (p + 1) % e = (p % e) + 1
<1> DEFINE q == p \div e
           r == p % e
           q2 == (p + 1) \div e
           r2 == (p + 1) % e
<1>1. q \in Int /\ r \in 0..(e-1) /\ p = e * q + r
  OBVIOUS
<1>2. q2 \in Int /\ r2 \in 1..(e-1) /\ p + 1 = e * q2 + r2
  OBVIOUS
<1> HIDE DEF q, r, q2, r2
<1>3. e * (q2 - q) = (r + 1) - r2
  BY <1>1, <1>2
<1>4. q2 - q \in Int /\ e * (q2 - q) < e /\ 0 - e < e * (q2 - q)
  BY <1>1, <1>2, <1>3
<1>5. ASSUME NEW d \in Int, e * d < e, 0 - e < e * d PROVE d = 0
  <2>1. d >= 1 => e * d >= e
    OBVIOUS
  <2>2. d <= 0 - 1 => e * d <= 0 - e
    OBVIOUS
  <2> QED BY <1>5, <2>1, <2>2
<1>6. q2 - q = 0
  BY <1>4, <1>5
<1>7. r2 = r + 1
  BY <1>1, <1>2, <1>3, <1>6
<1> QED BY <1>7 DEF r, r2

LEMMA RemainderBound ==
    \A p \in Nat, e \in Nat \ {0} : p % e \in Nat /\ p % e < e
OBVIOUS

(* ... and a set of indices has a largest one.                             *)
LEMMA MaxIsIn ==
    ASSUME NEW n \in Nat, NEW T \in SUBSET (1..n), T # {}
    PROVE  Max(T) \in T
<1> DEFINE U == {n - t : t \in T}
<1>1. U \in SUBSET Nat /\ U # {}
  <2>1. \A t \in T : n - t \in Nat
    OBVIOUS
  <2> QED BY <2>1
<1>2. PICK u \in U : \A v \in U : ~(<<v, u>> \in OpToRel(<, Nat))
  <2> HIDE DEF U
  <2> QED BY Zenon, <1>1, WFMin, NatLessThanWellFounded
<1>3. \A v \in Nat, w \in Nat : v < w => <<v, w>> \in OpToRel(<, Nat)
  BY Zenon DEF OpToRel
<1>4. \A v \in U : ~(v < u)
  BY <1>1, <1>2, <1>3
<1>5. PICK t \in T : u = n - t
  BY <1>2
<1>6. \A v \in T : t >= v
  BY <1>4, <1>5
<1> QED BY <1>6 DEF Max

(* A record is pending and named by the sheet, or a row of the cache.      *)
LEMMA ResumedRow ==
    ASSUME cache \in Seq(Row), NEW c \in Company
    PROVE  \/ /\ DoneRows(KeyOf[c]) = {}
              /\ Resumed(c) = [company |-> c, verdict |-> "pending"]
           \/ /\ DoneRows(KeyOf[c]) # {}
              /\ \E j \in DOMAIN cache : /\ Resumed(c) = cache[j]
                                        /\ KeyOf[cache[j].company] = KeyOf[c]
                                        /\ cache[j].verdict # "pending"
<1>1. Len(cache) \in Nat /\ DOMAIN cache = 1..Len(cache)
  BY LenProperties
<1>2. DoneRows(KeyOf[c]) \in SUBSET (1..Len(cache))
  BY <1>1 DEF DoneRows
<1>3. CASE DoneRows(KeyOf[c]) = {}
  BY <1>3 DEF Resumed
<1>4. CASE DoneRows(KeyOf[c]) # {}
  <2>1. Max(DoneRows(KeyOf[c])) \in DoneRows(KeyOf[c])
    BY <1>1, <1>2, <1>4, MaxIsIn
  <2> QED BY <1>4, <2>1 DEF Resumed, DoneRows
<1> QED BY <1>3, <1>4

(* What a finished audit or probe does to the records: the row keeps its   *)
(* company, gets a verdict, and never loses a board.                       *)
FinishedRow(i, row) ==
    /\ row \in Row /\ row.verdict # "pending"
    /\ row.company = records[i].company
    /\ records[i].verdict = "board" => row.verdict = "board"
FinishEffect(i, row) ==
    /\ phase \in {"audit", "probe"} /\ saving = "no"
    /\ FinishedRow(i, row)
    /\ records' = [records EXCEPT ![i] = row]
    /\ todo' = todo \ {i}
    /\ processed' = processed + 1
    /\ saving' = IF SaveDue(processed + 1, todo', Every) THEN "due" ELSE "no"
    /\ i \notin hung
    /\ UNCHANGED <<cache, inventory, phase, sheet, hung, runs, observers>>

LEMMA FinishParts ==
    ASSUME Types, RowsInv, NEW i \in todo, Audit(i) \/ Probe(i)
    PROVE  \E row : FinishEffect(i, row)
<1>1. i \in DOMAIN records /\ records[i] \in Row /\ sheet[i] \in Company
  BY LenProperties DEF Types
<1>2. CASE Audit(i)
  <2>1. phase = "audit" /\ records[i].verdict = "pending"
    BY <1>2 DEF Audit, RowsInv
  <2>2. PICK v \in Verdict : Finish(i, [company |-> sheet[i], verdict |-> v], CheckpointEvery)
    BY <1>2 DEF Audit
  <2> DEFINE row == [company |-> sheet[i], verdict |-> v]
  <2>3. FinishedRow(i, row)
    BY <1>1, <2>1 DEF FinishedRow, Row, Verdict, RowsInv
  <2> QED BY <1>2, <2>1, <2>2, <2>3 DEF FinishEffect, Finish, Place, Every, Audit
<1>3. CASE Probe(i)
  <2>1. phase = "probe" /\ records[i].verdict # "pending"
    BY <1>1, <1>3 DEF Probe, RowsInv
  <2>2. PICK v \in {"board", records[i].verdict} :
          Finish(i, [records[i] EXCEPT !.verdict = v], ProbeEvery)
    BY <1>3 DEF Probe
  <2> DEFINE row == [records[i] EXCEPT !.verdict = v]
  <2>3. FinishedRow(i, row)
    BY <1>1, <2>1 DEF FinishedRow, Row, Verdict
  <2>4. i \notin hung
    BY <2>1, <1>3 DEF Probe, RowsInv
  <2> QED BY <1>3, <2>1, <2>2, <2>3, <2>4 DEF FinishEffect, Finish, Place, Every, Probe
<1> QED BY <1>2, <1>3

LEMMA StepCases ==
    ASSUME Types, RowsInv, [Next]_vars
    PROVE  \/ \E s \in Sheets : Discover(s)
           \/ \E i \in todo, row \in Row : FinishEffect(i, row)
           \/ \E i \in todo : Hang(i)
           \/ OpenCache \/ WriteCache \/ StartProbes \/ EndProbes \/ Emit \/ Crash
           \/ UNCHANGED vars
<1>1. ASSUME NEW i \in todo, Audit(i) \/ Probe(i)
      PROVE  \E row \in Row : FinishEffect(i, row)
  BY <1>1, FinishParts DEF FinishEffect, FinishedRow
<1> QED BY <1>1 DEF Next, Proceed

(* The records of a run that starts.                                       *)
LEMMA DiscoverRecords ==
    ASSUME Types, NEW s \in Sheets, Discover(s)
    PROVE  /\ s \in Seq(Company) /\ DOMAIN s = 1..Len(s)
           /\ records' \in Seq(Row) /\ Len(records') = Len(s) /\ DOMAIN records' = DOMAIN s
           /\ \A i \in DOMAIN s : s[i] \in Company /\ records'[i] = Resumed(s[i])
<1>1. s \in Seq(Company)
  BY SheetsAssumption
<1>2. DOMAIN s = 1..Len(s) /\ Len(s) \in Nat /\ \A i \in DOMAIN s : s[i] \in Company
  BY <1>1, LenProperties
<1>3. \A i \in DOMAIN s : Resumed(s[i]) \in Row
  <2>1. \A j \in DOMAIN cache : cache[j] \in Row
    BY LenProperties DEF Types
  <2>2. \A c \in Company : [company |-> c, verdict |-> "pending"] \in Row
    BY DEF Row
  <2> QED BY <1>2, <2>1, <2>2, ResumedRow DEF Types
<1>4. records' = [i \in DOMAIN s |-> Resumed(s[i])]
  BY DEF Discover
<1>5. records' \in [1..Len(s) -> Row]
  BY <1>2, <1>3, <1>4
<1> QED BY <1>1, <1>2, <1>4, <1>5

LEMMA TypesStep ==
    ASSUME Types, RowsInv, [Next]_vars
    PROVE  Types'
<1> USE DEF Types, observers
<1>1. ASSUME NEW s \in Sheets, Discover(s) PROVE Types'
  BY <1>1, DiscoverRecords DEF Discover, RowsInv
<1>2. ASSUME NEW i \in todo, NEW row \in Row, FinishEffect(i, row) PROVE Types'
  <2>1. /\ records' \in Seq(Row) /\ Len(records') = Len(records)
        /\ DOMAIN records' = DOMAIN records
    BY <1>2, LenProperties, ExceptSeq DEF FinishEffect
  <2> QED BY <1>2, <2>1 DEF FinishEffect
<1>3. CASE OpenCache \/ WriteCache \/ EndProbes
  <2>1. CASE OpenCache
    BY <2>1, EmptySeq DEF OpenCache
  <2>2. CASE WriteCache
    <3>1. \A r \in Range(records) : r.company \in Company
      <4>1. \A i \in DOMAIN records : records[i] \in Row
        BY LenProperties
      <4> QED BY <4>1 DEF Range, Row
    <3>2. placed' \in SUBSET Company
      BY <2>2, <3>1 DEF WriteCache
    <3> QED BY <2>2, <3>2 DEF WriteCache
  <2>3. CASE EndProbes
    BY <2>3 DEF EndProbes
  <2> QED BY <1>3, <2>1, <2>2, <2>3
<1>4. CASE StartProbes
  BY <1>4 DEF StartProbes
<1>5. CASE Emit \/ Crash
  <2>1. /\ phase' = "idle" /\ saving' = "no"
        /\ sheet' = <<>> /\ records' = <<>> /\ todo' = {} /\ hung' = {} /\ processed' = 0
    BY <1>5 DEF Emit, Crash, Quit
  <2>2. cache' \in Seq(Row)
    <3>1. CASE cache' = cache
      BY <3>1
    <3>2. ASSUME NEW n \in 0..Len(records), cache' = SubSeq(records, 1, n)
          PROVE  cache' \in Seq(Row)
      <4>1. n \in Int /\ \A k \in 1..n : records[k] \in Row
        BY LenProperties
      <4> QED BY <3>2, <4>1, SubSeqProperties
    <3> QED BY <1>5, <3>1, <3>2 DEF Emit, Crash
  <2>3. placed' = placed
    BY <1>5 DEF Emit, Crash
  <2>4. sheet' \in Seq(Company) /\ records' \in Seq(Row) /\ Len(records') = Len(sheet')
    BY <2>1, EmptySeq
  <2> QED BY <2>1, <2>2, <2>3, <2>4
<1>6. ASSUME NEW i \in todo, Hang(i) PROVE Types'
  BY <1>6 DEF Hang
<1>7. CASE UNCHANGED vars
  BY <1>7 DEF vars
<1> QED BY <1>1, <1>2, <1>3, <1>4, <1>5, <1>6, <1>7, StepCases

(* In a run every record is of another company.                            *)
LEMMA OneRecordEach ==
    ASSUME Types, RowsInv, phase # "idle"
    PROVE  \A i, j \in DOMAIN records :
               KeyOf[records[i].company] = KeyOf[records[j].company] => i = j
<1>1. DOMAIN sheet = DOMAIN records
  BY LenProperties DEF Types
<1>2. \A i, j \in DOMAIN sheet : i # j => KeyOf[sheet[i]] # KeyOf[sheet[j]]
  BY SheetsAssumption DEF RowsInv
<1>3. \A i \in DOMAIN records : KeyOf[records[i].company] = KeyOf[sheet[i]]
  BY DEF RowsInv
<1> QED BY <1>1, <1>2, <1>3

(* The records stay aligned with the sheet, whatever order results arrive  *)
(* in, so what is saved has one row per key.                               *)
LEMMA RowsStep ==
    ASSUME Types, RowsInv, [Next]_vars
    PROVE  RowsInv'
<1> USE DEF Types
<1>0. /\ DOMAIN records = 1..Len(records) /\ DOMAIN cache = 1..Len(cache)
      /\ Len(records) \in Nat /\ DOMAIN sheet = DOMAIN records
      /\ \A i \in DOMAIN records : records[i] \in Row
  BY LenProperties
<1>1. ASSUME NEW s \in Sheets, Discover(s) PROVE RowsInv'
  <2>1. ASSUME NEW i \in DOMAIN s
        PROVE  /\ KeyOf[records'[i].company] = KeyOf[s[i]]
               /\ records'[i].verdict = "pending" <=> DoneRows(KeyOf[s[i]]) = {}
               /\ records'[i].verdict = "pending" => records'[i].company = s[i]
    <3>1. s[i] \in Company /\ records'[i] = Resumed(s[i])
      BY <1>1, DiscoverRecords
    <3>2. CASE DoneRows(KeyOf[s[i]]) = {}
      <4>1. records'[i] = [company |-> s[i], verdict |-> "pending"]
        BY <3>1, <3>2, ResumedRow
      <4> QED BY <3>2, <4>1
    <3>3. CASE DoneRows(KeyOf[s[i]]) # {}
      <4>1. PICK j \in DOMAIN cache : /\ records'[i] = cache[j]
                                     /\ KeyOf[cache[j].company] = KeyOf[s[i]]
                                     /\ cache[j].verdict # "pending"
        BY <3>1, <3>3, ResumedRow
      <4> QED BY <3>3, <4>1
    <3> QED BY <3>2, <3>3
  <2>2. DOMAIN records' = DOMAIN s
    BY <1>1, DiscoverRecords
  <2>3. /\ phase' = "audit" /\ sheet' = s /\ cache' = cache
        /\ todo' = {i \in DOMAIN s : DoneRows(KeyOf[s[i]]) = {}}
    BY <1>1 DEF Discover
  <2>4. todo' = {i \in DOMAIN s : records'[i].verdict = "pending"}
    BY <2>1, <2>3
  <2> QED BY <2>1, <2>2, <2>3, <2>4 DEF RowsInv
<1>2. ASSUME NEW i \in todo, NEW row \in Row, FinishEffect(i, row) PROVE RowsInv'
  <2>1. /\ DOMAIN records' = DOMAIN records
        /\ \A k \in DOMAIN records : records'[k] = IF k = i THEN row ELSE records[k]
    BY <1>0, <1>2 DEF FinishEffect
  <2>2. /\ UNCHANGED <<phase, sheet, cache, hung>> /\ phase \in {"audit", "probe"}
        /\ todo' = todo \ {i} /\ row.verdict # "pending"
        /\ row.company = records[i].company
    BY <1>2 DEF FinishEffect, FinishedRow
  <2>3. \A k \in DOMAIN records' :
           /\ KeyOf[records'[k].company] = KeyOf[sheet'[k]]
           /\ records'[k].verdict = "pending" => records'[k].company = sheet'[k]
    BY <2>1, <2>2 DEF RowsInv
  <2>4. phase' = "audit" => todo' = {k \in DOMAIN records' : records'[k].verdict = "pending"}
    BY <2>1, <2>2 DEF RowsInv
  <2>5. phase' # "audit" => \A k \in DOMAIN records' : records'[k].verdict # "pending"
    BY <2>1, <2>2 DEF RowsInv
  <2> QED BY <2>2, <2>3, <2>4, <2>5 DEF RowsInv
<1>3. CASE OpenCache
  BY <1>3 DEF OpenCache, RowsInv
<1>4. CASE WriteCache
  <2>1. /\ cache' = records /\ phase # "idle"
        /\ UNCHANGED <<phase, sheet, records, todo, hung>> /\ saving' = "no"
    BY <1>4 DEF WriteCache, RowsInv
  <2>2. \A i, j \in DOMAIN records : KeyOf[records[i].company] = KeyOf[records[j].company] => i = j
    BY <2>1, OneRecordEach
  <2> QED BY <2>1, <2>2 DEF RowsInv
<1>5. CASE StartProbes \/ EndProbes
  BY <1>5 DEF StartProbes, EndProbes, Probed, RowsInv
<1>6. CASE Emit \/ Crash
  <2>1. /\ phase' = "idle" /\ saving' = "no"
        /\ sheet' = <<>> /\ records' = <<>> /\ todo' = {} /\ hung' = {} /\ phase # "idle"
    BY <1>6 DEF Emit, Crash, Quit
  <2>2. \A i, j \in DOMAIN cache' :
           KeyOf[cache'[i].company] = KeyOf[cache'[j].company] => i = j
    <3>1. CASE cache' = cache
      BY <3>1 DEF RowsInv
    <3>2. ASSUME NEW n \in 0..Len(records), cache' = SubSeq(records, 1, n)
          PROVE  \A i, j \in DOMAIN cache' :
                    KeyOf[cache'[i].company] = KeyOf[cache'[j].company] => i = j
      <4>1. /\ DOMAIN cache' = 1..n
            /\ \A k \in 1..n : cache'[k] = records[k] /\ k \in DOMAIN records
        <5>1. n \in Int /\ \A k \in 1..n : records[k] \in Row
          BY <1>0
        <5>2. /\ cache' \in Seq(Row) /\ Len(cache') = IF 1 <= n THEN n - 1 + 1 ELSE 0
              /\ \A k \in 1..(n - 1 + 1) : cache'[k] = records[1 + k - 1]
          BY <3>2, <5>1, SubSeqProperties
        <5>3. DOMAIN cache' = 1..Len(cache')
          BY <5>2, LenProperties
        <5> QED BY <1>0, <5>2, <5>3
      <4>2. \A i, j \in DOMAIN records :
               KeyOf[records[i].company] = KeyOf[records[j].company] => i = j
        BY <2>1, OneRecordEach
      <4> QED BY <4>1, <4>2
    <3> QED BY <1>6, <3>1, <3>2 DEF Emit, Crash
  <2> QED BY <2>1, <2>2 DEF RowsInv
<1>7. ASSUME NEW i \in todo, Hang(i) PROVE RowsInv'
  BY <1>7 DEF Hang, RowsInv
<1>8. CASE UNCHANGED vars
  BY <1>8 DEF vars, RowsInv
<1> QED BY <1>1, <1>2, <1>3, <1>4, <1>5, <1>6, <1>7, <1>8, StepCases

(* What a crash would lose is what came in since the last save.            *)
LEMMA LossStep ==
    ASSUME Types, RowsInv, LossInv, [Next]_vars
    PROVE  LossInv'
<1> USE DEF Types
<1>0. /\ DOMAIN records = 1..Len(records) /\ DOMAIN cache = 1..Len(cache)
      /\ Len(records) \in Nat
  BY LenProperties
<1>1. IsFiniteSet(Unsaved) /\ Cardinality(Unsaved) \in Nat
  <2>1. IsFiniteSet(1..Len(records))
    BY <1>0, FS_Interval
  <2>2. Unsaved \in SUBSET (1..Len(records))
    BY <1>0 DEF Unsaved
  <2> QED BY <2>1, <2>2, FS_Subset, FS_CardinalityType
<1>2. Every \in Nat \ {0}
  BY CountsAssumption DEF Every
<1>3. ASSUME Unsaved' = {}, processed' \in Nat PROVE LossInv'
  <2>1. Every' \in Nat \ {0}
    BY CountsAssumption DEF Every
  <2>2. processed' % Every' \in Nat
    BY <1>3, <2>1, RemainderBound
  <2>3. Cardinality(Unsaved') = 0
    BY <1>3, FS_EmptySet
  <2>4. 0 <= processed' % Every' /\ 0 <= Every'
    BY <2>1, <2>2
  <2> QED BY <1>3, <2>3, <2>4 DEF LossInv
<1>4. ASSUME NEW s \in Sheets, Discover(s) PROVE LossInv'
  <2>1. /\ DOMAIN records' = DOMAIN s
        /\ \A i \in DOMAIN s : s[i] \in Company /\ records'[i] = Resumed(s[i])
    BY <1>4, DiscoverRecords
  <2>2. cache' = cache /\ processed' = 0
    BY <1>4 DEF Discover
  <2>3. ASSUME NEW i \in DOMAIN records', records'[i].verdict # "pending"
        PROVE  records'[i] \in Range(cache')
    <3>1. DoneRows(KeyOf[s[i]]) # {}
      <4>1. CASE Resumed(s[i]) = [company |-> s[i], verdict |-> "pending"]
        BY <2>1, <2>3, <4>1
      <4> QED BY <2>1, <4>1, ResumedRow
    <3>2. PICK j \in DOMAIN cache : records'[i] = cache[j]
      <4>1. \E j \in DOMAIN cache : Resumed(s[i]) = cache[j]
        BY <2>1, <3>1, ResumedRow
      <4> QED BY <2>1, <4>1
    <3> QED BY <2>2, <3>2 DEF Range
  <2>4. Unsaved' = {}
    BY <2>3 DEF Unsaved
  <2> QED BY <1>3, <2>2, <2>4
<1>5. ASSUME NEW i \in todo, NEW row \in Row, FinishEffect(i, row) PROVE LossInv'
  <2>1. /\ saving' = "no" => (processed + 1) % Every # 0 /\ todo' # {}
        /\ processed' = processed + 1 /\ Every' = Every
        /\ saving = "no"
    BY <1>5 DEF FinishEffect, SaveDue, Every
  <2>2. saving' = "no" => processed' % Every' = (processed % Every) + 1
    BY <1>2, <2>1, NextRemainder
  <2>3. Unsaved' \subseteq Unsaved \cup {i}
    BY <1>0, <1>5 DEF FinishEffect, Unsaved
  <2>4. /\ IsFiniteSet(Unsaved \cup {i})
        /\ Cardinality(Unsaved \cup {i}) <= Cardinality(Unsaved) + 1
        /\ Cardinality(Unsaved \cup {i}) \in Nat
    <3> HIDE DEF Unsaved
    <3>1. /\ IsFiniteSet(Unsaved \cup {i})
          /\ Cardinality(Unsaved \cup {i}) =
               IF i \in Unsaved THEN Cardinality(Unsaved) ELSE Cardinality(Unsaved) + 1
      BY <1>1, FS_AddElement
    <3> QED BY <1>1, <3>1
  <2>5. Cardinality(Unsaved') <= Cardinality(Unsaved \cup {i}) /\ Cardinality(Unsaved') \in Nat
    BY <2>3, <2>4, FS_Subset, FS_CardinalityType
  <2>6. Cardinality(Unsaved) <= processed % Every /\ processed % Every \in Nat
        /\ processed % Every < Every
    BY <1>2, <2>1, RemainderBound DEF LossInv
  <2>7. Cardinality(Unsaved') <= (processed % Every) + 1 /\ Cardinality(Unsaved') <= Every
    BY <1>1, <1>2, <2>4, <2>5, <2>6
  <2> QED BY <2>1, <2>2, <2>7 DEF LossInv
<1>6. CASE OpenCache
  BY <1>6 DEF OpenCache, LossInv
<1>7. CASE WriteCache
  <2>1. cache' = records /\ records' = records /\ processed' \in Nat
    BY <1>7 DEF WriteCache
  <2>2. Unsaved' = {}
    BY <2>1 DEF Unsaved, Range
  <2> QED BY <1>3, <2>1, <2>2
<1>8. CASE StartProbes \/ EndProbes
  <2>1. /\ todo = {} /\ saving = "no" /\ UNCHANGED <<cache, records>>
        /\ processed' \in Nat
    BY <1>8 DEF StartProbes, EndProbes, Probed
  <2>2. Unsaved' = {}
    BY <2>1 DEF LossInv, Unsaved
  <2> QED BY <1>3, <2>1, <2>2
<1>9. CASE Emit \/ Crash
  <2>1. records' = <<>> /\ processed' = 0
    BY <1>9 DEF Emit, Crash, Quit
  <2>2. DOMAIN records' = {}
    BY <2>1
  <2>3. Unsaved' = {}
    BY <2>2 DEF Unsaved
  <2> QED BY <1>3, <2>1, <2>3
<1>10. ASSUME NEW i \in todo, Hang(i) PROVE LossInv'
  BY <1>10 DEF Hang, LossInv, Unsaved, Every
<1>11. CASE UNCHANGED vars
  BY <1>11 DEF vars, LossInv, Unsaved, Every
<1> QED BY <1>4, <1>5, <1>6, <1>7, <1>8, <1>9, <1>10, <1>11, StepCases

(* A saved board is in the cache whenever the file is whole, and a run     *)
(* that resumes from it carries the board on.                              *)
LEMMA BoardStep ==
    ASSUME Types, RowsInv, BoardInv, [Next]_vars
    PROVE  BoardInv'
<1> USE DEF Types, observers
<1>0. /\ DOMAIN records = 1..Len(records) /\ DOMAIN cache = 1..Len(cache)
      /\ Len(records) \in Nat /\ DOMAIN sheet = DOMAIN records
  BY LenProperties
<1>1. ASSUME NEW s \in Sheets, Discover(s) PROVE BoardInv'
  <2>1. UNCHANGED <<cache, saving, observers>> /\ saving = "no"
    BY <1>1 DEF Discover, RowsInv
  <2>2. ASSUME ~torn, NEW c \in placed \ dropped, NEW i \in DOMAIN records',
               records'[i].company = c
        PROVE  records'[i].verdict = "board"
    <3>1. s[i] \in Company /\ records'[i] = Resumed(s[i])
      BY <1>1, DiscoverRecords
    <3>2. PICK j \in DOMAIN cache : cache[j].company = c /\ cache[j].verdict = "board"
      BY <2>1, <2>2 DEF BoardInv, HasBoard, Range
    <3>3. CASE /\ DoneRows(KeyOf[s[i]]) = {}
               /\ records'[i] = [company |-> s[i], verdict |-> "pending"]
      <4>1. s[i] = c
        BY <2>2, <3>3
      <4>2. j \in DoneRows(KeyOf[s[i]])
        BY <3>2, <4>1 DEF DoneRows
      <4> QED BY <3>3, <4>2
    <3>4. ASSUME NEW k \in DOMAIN cache, records'[i] = cache[k]
          PROVE  records'[i].verdict = "board"
      <4>1. KeyOf[cache[k].company] = KeyOf[cache[j].company]
        BY <2>2, <3>2, <3>4
      <4>2. k = j
        BY <4>1 DEF RowsInv
      <4> QED BY <3>2, <3>4, <4>2
    <3> QED BY <3>1, <3>3, <3>4, ResumedRow
  <2> QED BY <2>1, <2>2 DEF BoardInv, HasBoard
<1>2. ASSUME NEW i \in todo, NEW row \in Row, FinishEffect(i, row) PROVE BoardInv'
  <2>1. /\ UNCHANGED <<cache, observers>> /\ saving = "no"
        /\ DOMAIN records' = DOMAIN records
        /\ \A k \in DOMAIN records : records'[k] = IF k = i THEN row ELSE records[k]
        /\ FinishedRow(i, row)
    BY <1>0, <1>2 DEF FinishEffect
  <2>2. records[i].verdict = "board" => row.verdict = "board"
    BY <2>1 DEF FinishedRow
  <2>3. row.company = records[i].company
    BY <2>1 DEF FinishedRow
  <2>4. ASSUME ~torn, NEW c \in placed \ dropped
        PROVE  /\ HasBoard(c)
               /\ \A k \in DOMAIN records : records[k].company = c => records[k].verdict = "board"
    BY <2>1, <2>4 DEF BoardInv
  <2>5. ASSUME ~torn, NEW c \in placed \ dropped, NEW k \in DOMAIN records,
               records'[k].company = c
        PROVE  records'[k].verdict = "board"
    <3>1. i \in DOMAIN records
      BY <1>2
    <3>2. CASE k = i
      BY <2>1, <2>2, <2>3, <2>4, <2>5, <3>1, <3>2
    <3>3. CASE k # i
      BY <2>1, <2>4, <2>5, <3>3
    <3> QED BY <3>2, <3>3
  <2>6. \A c : HasBoard(c)' <=> HasBoard(c)
    BY <2>1 DEF HasBoard
  <2> QED BY <2>1, <2>4, <2>5, <2>6 DEF BoardInv
<1>3. CASE OpenCache
  BY <1>3 DEF OpenCache, BoardInv, HasBoard
<1>4. CASE WriteCache
  <2>1. /\ cache' = records /\ UNCHANGED <<records, torn>> /\ phase # "idle"
        /\ placed' = placed \cup {r.company : r \in {r \in Range(records) : r.verdict = "board"}}
        /\ dropped' = dropped \cup (Company \ {records[i].company : i \in DOMAIN records})
    BY <1>4 DEF WriteCache, RowsInv
  <2>2. \A i, j \in DOMAIN records : records[i].company = records[j].company => i = j
    BY <2>1, OneRecordEach
  <2>3. ASSUME ~torn, NEW c \in placed' \ dropped', NEW i \in DOMAIN records,
               records[i].company = c
        PROVE  records[i].verdict = "board"
    <3>1. CASE c \in placed
      BY <2>1, <2>3, <3>1 DEF BoardInv
    <3>2. CASE c \notin placed
      <4>1. PICK r \in Range(records) : r.verdict = "board" /\ r.company = c
        BY <2>1, <3>2
      <4>2. PICK j \in DOMAIN records : r = records[j]
        BY <4>1 DEF Range
      <4> QED BY <2>2, <2>3, <4>1, <4>2
    <3> QED BY <3>1, <3>2
  <2>4. ASSUME ~torn, NEW c \in placed' \ dropped' PROVE HasBoard(c)'
    <3>1. c \in Company
      BY <1>4, TypesStep
    <3>2. PICK i \in DOMAIN records : records[i].company = c
      BY <2>1, <2>4, <3>1
    <3>3. records[i].verdict = "board"
      BY <2>3, <2>4, <3>2
    <3> QED BY <2>1, <3>2, <3>3 DEF HasBoard, Range
  <2> QED BY <2>1, <2>3, <2>4 DEF BoardInv
<1>5. CASE StartProbes \/ EndProbes
  BY <1>5 DEF StartProbes, EndProbes, BoardInv, HasBoard
<1>6. CASE Emit \/ Crash
  <2>1. /\ records' = <<>> /\ UNCHANGED <<placed, dropped>>
        /\ (UNCHANGED <<cache, torn>> /\ saving # "open") \/ torn'
    BY <1>6 DEF Emit, Crash, Quit, RowsInv
  <2>2. DOMAIN records' = {}
    BY <2>1
  <2> QED BY <2>1, <2>2 DEF BoardInv, HasBoard
<1>7. ASSUME NEW i \in todo, Hang(i) PROVE BoardInv'
  BY <1>7 DEF Hang, BoardInv, HasBoard
<1>8. CASE UNCHANGED vars
  BY <1>8 DEF vars, BoardInv, HasBoard
<1> QED BY <1>1, <1>2, <1>3, <1>4, <1>5, <1>6, <1>7, <1>8, StepCases

(* The invariant holds through every batch, save and crash.                *)
THEOREM RunHolds == Spec => []RunInv
<1>1. Init => RunInv
  <2> SUFFICES ASSUME Init PROVE RunInv
    OBVIOUS
  <2>1. DOMAIN records = {} /\ DOMAIN cache = {}
    BY DEF Init
  <2>2. Types
    BY EmptySeq DEF Init, Types
  <2>3. RowsInv
    BY <2>1 DEF Init, RowsInv
  <2>4. Unsaved = {} /\ processed = 0
    BY <2>1 DEF Init, Unsaved
  <2>5. LossInv
    <3>1. 0 % Every \in Nat
      BY CountsAssumption, RemainderBound DEF Every
    <3> QED BY <2>4, <3>1, FS_EmptySet DEF Init, LossInv
  <2>6. BoardInv
    BY DEF Init, BoardInv
  <2> QED BY <2>2, <2>3, <2>5, <2>6 DEF RunInv
<1>2. RunInv /\ [Next]_vars => RunInv'
  BY TypesStep, RowsStep, LossStep, BoardStep DEF RunInv
<1> QED BY <1>1, <1>2, PTL DEF Spec

-----------------------------------------------------------------------------
(* When the audits are over each company of the sheet has a verdict of its *)
(* own, whatever order they finished in and whichever were resumed.        *)
THEOREM EachIsAudited == Spec => []EveryCompanyAudited
<1>1. RunInv => EveryCompanyAudited
  BY LenProperties DEF RunInv, Types, RowsInv, EveryCompanyAudited
<1> QED BY <1>1, RunHolds, PTL

(* A run that dies between two saves loses less than a checkpoint's worth  *)
(* of audits or probes, on its way to a save no more than that.            *)
THEOREM LossIsBounded == Spec => []CheckpointBoundsTheLoss
<1>1. RunInv => CheckpointBoundsTheLoss
  <2> SUFFICES ASSUME RunInv, saving = "no" PROVE Cardinality(Unsaved) < Every
    BY DEF CheckpointBoundsTheLoss, RunInv, LossInv
  <2>1. /\ Cardinality(Unsaved) <= processed % Every
        /\ processed % Every \in Nat /\ processed % Every < Every
        /\ Every \in Nat
    BY CountsAssumption, RemainderBound DEF RunInv, Types, LossInv, Every
  <2>2. Cardinality(Unsaved) \in Nat
    <3>1. IsFiniteSet(1..Len(records)) /\ DOMAIN records = 1..Len(records)
      BY LenProperties, FS_Interval DEF RunInv, Types
    <3>2. Unsaved \in SUBSET (1..Len(records))
      BY <3>1 DEF Unsaved
    <3> QED BY <3>1, <3>2, FS_Subset, FS_CardinalityType
  <2> QED BY <2>1, <2>2
<1> QED BY <1>1, RunHolds, PTL

(* What the inventory is made of was saved before.                         *)
THEOREM EmittedWasSaved == Spec => []EmittedIsSaved
<1>1. RunInv => EmittedIsSaved
  BY DEF RunInv, RowsInv, LossInv, EmittedIsSaved
<1> QED BY <1>1, RunHolds, PTL

(* A board that was saved stays in the cache, through any number of runs   *)
(* and of crashes that do not tear the file.                               *)
THEOREM BoardsAreKept == Spec => []BoardsSurvive
<1>1. RunInv => BoardsSurvive
  BY DEF RunInv, BoardInv, BoardsSurvive
<1> QED BY <1>1, RunHolds, PTL
-----------------------------------------------------------------------------
(* The rest of the types.  No pass does more than one audit, or one probe, *)
(* for each row: what is done and what is to do are rows of the sheet.  No *)
(* more audits hang than have a slot.                                      *)
CountInv ==
    /\ inventory \in SUBSET Item /\ runs \in Nat
    /\ dropped \in SUBSET Company /\ torn \in BOOLEAN
    /\ processed + Cardinality(todo) <= Len(records)
    /\ Cardinality(hung) <= Concurrency

LEMMA TodoCounts ==
    ASSUME Types, NEW T \in SUBSET DOMAIN records
    PROVE  /\ IsFiniteSet(T) /\ Cardinality(T) \in Nat /\ Cardinality(T) <= Len(records)
           /\ \A i \in T : Cardinality(T \ {i}) = Cardinality(T) - 1
<1>1. DOMAIN records = 1..Len(records) /\ Len(records) \in Nat
  BY LenProperties DEF Types
<1>2. /\ IsFiniteSet(1..Len(records)) /\ Cardinality(1..Len(records)) = Len(records)
  <2> DEFINE m == Len(records)
  <2>1. 1 \in Int /\ m \in Int /\ m >= 0
    BY <1>1
  <2> HIDE DEF m
  <2>2. IsFiniteSet(1..m) /\ Cardinality(1..m) = IF 1 > m THEN 0 ELSE m - 1 + 1
    BY <2>1, FS_Interval
  <2> QED BY <2>1, <2>2 DEF m
<1>3. IsFiniteSet(T) /\ Cardinality(T) \in Nat /\ Cardinality(T) <= Len(records)
  BY <1>1, <1>2, FS_Subset, FS_CardinalityType
<1> QED BY <1>3, FS_RemoveElement

LEMMA CountStep ==
    ASSUME Types, RowsInv, Types', CountInv, [Next]_vars
    PROVE  CountInv'
<1> USE DEF CountInv, observers
<1>0. /\ processed \in Nat /\ Len(records) \in Nat /\ \A i \in DOMAIN records : records[i] \in Row
      /\ Cardinality(todo) \in Nat
  BY LenProperties, TodoCounts DEF Types
<1>1. ASSUME NEW s \in Sheets, Discover(s) PROVE CountInv'
  <2>1. /\ DOMAIN s = 1..Len(s) /\ Len(s) \in Nat /\ Len(records') = Len(s)
    BY <1>1, DiscoverRecords, LenProperties
  <2>2. todo' \in SUBSET (1..Len(s)) /\ processed' = 0 /\ runs' = runs + 1
    BY <1>1, <2>1 DEF Discover
  <2>3. /\ IsFiniteSet(1..Len(s)) /\ Cardinality(1..Len(s)) = Len(s)
    <3> DEFINE m == Len(s)
    <3>1. 1 \in Int /\ m \in Int
      BY <2>1
    <3> HIDE DEF m
    <3>2. IsFiniteSet(1..m) /\ Cardinality(1..m) = IF 1 > m THEN 0 ELSE m - 1 + 1
      BY <3>1, FS_Interval
    <3> QED BY <2>1, <3>2 DEF m
  <2>4. Cardinality(todo') \in Nat /\ Cardinality(todo') <= Len(s)
    <3> DEFINE T == todo'
    <3>1. T \in SUBSET (1..Len(s))
      BY <2>2
    <3> HIDE DEF T, CountInv
    <3>2. IsFiniteSet(T) /\ Cardinality(T) <= Len(s)
      BY <2>3, <3>1, FS_Subset
    <3> QED BY <3>2, FS_CardinalityType DEF T
  <2> QED BY <1>1, <2>1, <2>2, <2>4 DEF Discover
<1>2. ASSUME NEW i \in todo, NEW row \in Row, FinishEffect(i, row) PROVE CountInv'
  <2>1. Cardinality(todo') = Cardinality(todo) - 1
    BY <1>2, TodoCounts DEF FinishEffect, Types
  <2>2. Len(records') = Len(records)
    BY <1>2, ExceptSeq, LenProperties DEF FinishEffect, Types
  <2> QED BY <1>0, <1>2, <2>1, <2>2 DEF FinishEffect
<1>3. CASE OpenCache \/ WriteCache \/ EndProbes
  BY <1>3 DEF OpenCache, WriteCache, EndProbes
<1>4. CASE StartProbes
  <2>1. /\ todo' \in SUBSET DOMAIN records /\ processed' = 0
        /\ UNCHANGED <<hung, records, inventory, runs, dropped, torn>>
    BY <1>4 DEF StartProbes
  <2> QED BY <1>0, <2>1, TodoCounts
<1>5. CASE Emit \/ Crash
  <2>1. /\ records' = <<>> /\ todo' = {} /\ hung' = {} /\ processed' = 0
        /\ UNCHANGED <<runs, dropped>> /\ torn' \in BOOLEAN
    BY <1>5 DEF Emit, Crash, Quit
  <2>2. inventory' \in SUBSET Item
    <3>1. \A r \in Range(records) : r.company \in Company
      BY <1>0 DEF Range, Row
    <3>2. \A r \in Range(records) :
             [company |-> r.company, active |-> r.verdict = "board"] \in Item
      BY <3>1 DEF Item
    <3> QED BY <1>5, <3>2 DEF Emit, Crash
  <2>3. Cardinality(todo') = 0 /\ Cardinality(hung') = 0 /\ Len(records') = 0
    BY <2>1, FS_EmptySet
  <2> QED BY <2>1, <2>2, <2>3, CountsAssumption
<1>6. ASSUME NEW i \in todo, Hang(i) PROVE CountInv'
  <2>1. Cardinality(hung) \in Nat /\ IsFiniteSet(hung)
    <3>1. hung \in SUBSET DOMAIN records
      BY DEF Types
    <3> QED BY <3>1, TodoCounts
  <2>2. Cardinality(hung \cup {i}) = Cardinality(hung) + 1
    BY <1>6, <2>1, FS_AddElement DEF Hang
  <2>3. Cardinality(hung') <= Concurrency
    BY <1>6, <2>1, <2>2, CountsAssumption DEF Hang, SlotFree
  <2> QED BY <1>6, <2>3 DEF Hang
<1>7. CASE UNCHANGED vars
  BY <1>7 DEF vars
<1> QED BY <1>1, <1>2, <1>3, <1>4, <1>5, <1>6, <1>7, StepCases

(* What is processed and what is still to do are the records of the sheet. *)
THEOREM CountsHold == Spec => []CountInv
<1>1. Init => CountInv
  <2>1. Cardinality({}) = 0 /\ Len(<<>>) = 0
    BY FS_EmptySet, EmptySeq
  <2> SUFFICES ASSUME Init PROVE CountInv
    OBVIOUS
  <2>2. processed = 0 /\ Cardinality(todo) = 0 /\ Cardinality(hung) = 0 /\ Len(records) = 0
    BY <2>1 DEF Init
  <2>3. processed + Cardinality(todo) <= Len(records) /\ Cardinality(hung) <= Concurrency
    BY <2>2, CountsAssumption
  <2>4. inventory = {} /\ runs = 0 /\ dropped = {} /\ torn = FALSE
    BY DEF Init
  <2> QED BY <2>3, <2>4 DEF CountInv
<1>2. RunInv /\ RunInv' /\ CountInv /\ [Next]_vars => CountInv'
  BY CountStep DEF RunInv
<1> QED BY <1>1, <1>2, RunHolds, PTL DEF Spec

(* The variables keep their types: records are rows, one for each company  *)
(* of the sheet, and the counter of a pass stays within it.                *)
THEOREM TypeCorrect == Spec => []TypeOK
<1>1. RunInv /\ CountInv => TypeOK
  <2> SUFFICES ASSUME RunInv, CountInv PROVE TypeOK
    OBVIOUS
  <2>1. Cardinality(todo) \in Nat /\ processed \in Nat /\ Len(records) \in Nat
    BY TodoCounts, LenProperties DEF RunInv, Types
  <2>2. processed \in 0..Len(records)
    BY <2>1 DEF CountInv
  <2> QED BY <2>2 DEF RunInv, CountInv, Types, RowsInv, TypeOK
<1> QED BY <1>1, RunHolds, CountsHold, PTL

-----------------------------------------------------------------------------
(* The steps a batch can still take: each row is audited once, may hang,   *)
(* and is probed once, audit and probe each with at most one save of two   *)
(* steps after it.                                                         *)
SaveSteps == IF saving = "due" THEN 2 ELSE IF saving = "open" THEN 1 ELSE 0
Left ==
    IF phase = "audit" THEN 3 + SaveSteps + 3 * Cardinality(todo) + 3 * Len(records)
                                    + Cardinality(todo \ hung)
    ELSE IF phase = "probe" THEN 2 + SaveSteps + 3 * Cardinality(todo)
    ELSE IF phase = "emit" THEN 1 ELSE 0

(* A batch does not go round in circles, whatever it finds and wherever it *)
(* resumes: every step of it, a crash included, leaves less to do, and     *)
(* there are seven steps at most for each company of the sheet, and five.  *)
Counts ==
    /\ Left \in Nat /\ Left <= 7 * Len(sheet) + 5
    /\ phase # "idle" => Left' < Left
EveryStepCounts == [][Counts]_vars

(* A batch takes at most seven steps for each company and five more, with  *)
(* pages that hang and crash or not.                                       *)
THEOREM EveryStepIsProgress == Spec => EveryStepCounts
<1>1. RunInv /\ RunInv' /\ [Next]_vars => [Counts]_vars
  <2> SUFFICES ASSUME RunInv, RunInv', [Next]_vars, vars' # vars PROVE Counts
    OBVIOUS
  <2> DEFINE t == Cardinality(todo)
             n == Len(records)
             u == SaveSteps
             h == Cardinality(todo \ hung)
  <2>1. n \in Nat /\ t \in Nat /\ t <= n /\ u \in 0..2 /\ n = Len(sheet)
    BY TodoCounts, LenProperties DEF RunInv, Types, SaveSteps
  <2>0. h \in Nat /\ h <= n
    <3>1. todo \ hung \in SUBSET DOMAIN records
      BY DEF RunInv, Types
    <3> QED BY <3>1, TodoCounts DEF RunInv
  <2>2. /\ phase = "audit" => Left = 3 + u + 3 * t + 3 * n + h
        /\ phase = "probe" => Left = 2 + u + 3 * t
        /\ phase = "emit" => Left = 1
        /\ phase = "idle" => Left = 0
        /\ phase \in {"audit", "probe", "emit", "idle"}
    BY DEF Left, RunInv, Types
  <2>3. /\ phase' = "audit" => Left' = 3 + u' + 3 * t' + 3 * n' + h'
        /\ phase' = "probe" => Left' = 2 + u' + 3 * t'
        /\ phase' = "emit" => Left' = 1
        /\ phase' = "idle" => Left' = 0
    BY DEF Left
  <2> HIDE DEF Left, u
  <2>4. Left \in Nat /\ Left <= 7 * n + 5
    <3> HIDE DEF t, n, h
    <3> QED BY <2>0, <2>1, <2>2
  <2>5. ASSUME NEW i \in todo, NEW row \in Row, FinishEffect(i, row) PROVE Left' < Left
    <3>1. t' = t - 1
      BY <2>5, TodoCounts DEF FinishEffect, RunInv, Types
    <3>2. n' = n
      BY <2>5, ExceptSeq, LenProperties DEF FinishEffect, RunInv, Types
    <3>3. u = 0 /\ u' \in {0, 2} /\ phase' = phase /\ phase \in {"audit", "probe"}
      BY <2>5 DEF FinishEffect, SaveSteps, u
    <3>4. h' = h - 1
      <4>1. todo' \ hung' = (todo \ hung) \ {i} /\ i \in todo \ hung
            /\ todo \ hung \in SUBSET DOMAIN records
        BY <2>5 DEF FinishEffect, RunInv, Types
      <4> QED BY <4>1, TodoCounts DEF RunInv
    <3> HIDE DEF t, n, h
    <3> QED BY <2>0, <2>1, <2>2, <2>3, <3>1, <3>2, <3>3, <3>4
  <2>6. ASSUME OpenCache \/ WriteCache PROVE Left' < Left
    <3>1. t' = t /\ n' = n /\ h' = h /\ phase' = phase /\ u' = u - 1 /\ u \in 1..2
      BY <2>6 DEF OpenCache, WriteCache, SaveSteps, u
    <3>2. phase \in {"audit", "probe"}
      BY <2>6 DEF OpenCache, WriteCache, RunInv, RowsInv, Types
    <3> HIDE DEF t, n, h
    <3> QED BY <2>0, <2>1, <2>2, <2>3, <3>1, <3>2
  <2>7. ASSUME StartProbes PROVE Left' < Left
    <3>1. /\ phase = "audit" /\ phase' \in {"probe", "emit"} /\ todo' \in SUBSET DOMAIN records
          /\ u' = 0
      BY <2>7 DEF StartProbes, SaveSteps, u
    <3>2. t' \in Nat /\ t' <= n
      BY <3>1, TodoCounts DEF RunInv
    <3> HIDE DEF t, n, h
    <3> QED BY <2>0, <2>1, <2>2, <2>3, <3>1, <3>2
  <2>8. ASSUME EndProbes PROVE Left' < Left
    <3>1. phase = "probe" /\ phase' = "emit"
      BY <2>8 DEF EndProbes
    <3> HIDE DEF t, n, h
    <3> QED BY <2>1, <2>2, <2>3, <3>1
  <2>9. ASSUME Emit \/ Crash PROVE Left' < Left
    <3>1. phase # "idle" /\ phase' = "idle"
      BY <2>9 DEF Emit, Crash, Quit
    <3> HIDE DEF t, n, h
    <3> QED BY <2>0, <2>1, <2>2, <2>3, <3>1
  <2>10. ASSUME NEW s \in Sheets, Discover(s) PROVE phase = "idle"
    BY <2>10 DEF Discover
  <2>11. ASSUME NEW i \in todo, Hang(i) PROVE Left' < Left
    <3>1. t' = t /\ n' = n /\ phase' = phase /\ u' = u /\ phase = "audit"
      BY <2>11 DEF Hang, SaveSteps, u
    <3>2. h' = h - 1
      <4>1. todo' \ hung' = (todo \ hung) \ {i} /\ i \in todo \ hung
            /\ todo \ hung \in SUBSET DOMAIN records
        BY <2>11 DEF Hang, RunInv, Types
      <4> QED BY <4>1, TodoCounts DEF RunInv
    <3> HIDE DEF t, n, h
    <3> QED BY <2>0, <2>1, <2>2, <2>3, <3>1, <3>2
  <2> HIDE DEF t, h
  <2> QED BY <2>1, <2>4, <2>5, <2>6, <2>7, <2>8, <2>9, <2>10, <2>11, StepCases DEF Counts, RunInv
<1> QED BY <1>1, RunHolds, PTL DEF Spec, EveryStepCounts
=============================================================================
