-------------------------- MODULE Retention_proofs --------------------------
(* Proofs about Retention, for any jobs, boards, grace, expiry and time:   *)
(* what gold offers, what it may not withhold, and that nothing it offers  *)
(* looks newer than it is.                                                 *)
EXTENDS Retention, WellFoundedInduction, TLAPS

(* A landing by its parts: its rows, their stamp and what it saw.          *)
LEMMA IngestParts ==
    ASSUME TypeOK, NEW b \in Board, Ingest(b)
    PROVE  \E jobs \in SUBSET Job, new \in SUBSET Row :
             /\ \A j \in jobs : BoardOf[j] = b
             /\ \A r \in new : r.job \in jobs /\ r.at = now + 1
             /\ \A j \in jobs : \E r \in new : r.job = j
             /\ now' = now + 1
             /\ raw' = raw \cup new
             /\ fetched' = [fetched EXCEPT ![b] = jobs]
             /\ sighted' = sighted \cup {[job |-> j, at |-> now'] : j \in jobs}
             /\ IF jobs = {}
                  THEN UNCHANGED <<seen, landed>>
                  ELSE /\ seen' = [seen EXCEPT ![b] = jobs]
                       /\ landed' = [landed EXCEPT ![b] = now']
<1> PICK shown \in Listing(b) :
        /\ now' = now + 1
        /\ raw' = raw \cup LandedRows(shown, now')
        /\ fetched' = [fetched EXCEPT ![b] = Live(shown)]
        /\ sighted' = sighted \cup {[job |-> j, at |-> now'] : j \in Live(shown)}
        /\ IF Live(shown) = {}
             THEN UNCHANGED <<seen, landed>>
             ELSE /\ seen' = [seen EXCEPT ![b] = Live(shown)]
                  /\ landed' = [landed EXCEPT ![b] = now']
  BY DEF Ingest
<1> DEFINE jobs == Live(shown)
           new == LandedRows(shown, now + 1)
<1>1. jobs \in SUBSET Job /\ \A j \in jobs : BoardOf[j] = b /\ shown[j] \in Place
  BY PlacesAssumption DEF Live, Listing
<1>2. new = {[job |-> j, place |-> shown[j], at |-> now + 1] : j \in jobs}
  BY DEF LandedRows
<1> HIDE DEF jobs, new
<1>3. new \in SUBSET Row
  BY <1>1, <1>2 DEF Row, TypeOK
<1>4. \A r \in new : r.job \in jobs /\ r.at = now + 1
  BY <1>2
<1>5. ASSUME NEW j \in jobs PROVE \E r \in new : r.job = j
  <2>1. [job |-> j, place |-> shown[j], at |-> now + 1] \in new
    BY <1>2
  <2> QED BY <2>1
<1>6. /\ now' = now + 1
      /\ raw' = raw \cup new
      /\ fetched' = [fetched EXCEPT ![b] = jobs]
      /\ sighted' = sighted \cup {[job |-> j, at |-> now'] : j \in jobs}
      /\ IF jobs = {}
           THEN UNCHANGED <<seen, landed>>
           ELSE /\ seen' = [seen EXCEPT ![b] = jobs]
                /\ landed' = [landed EXCEPT ![b] = now']
  BY DEF jobs, new
<1> QED BY <1>1, <1>3, <1>4, <1>5, <1>6

LEMMA TypeStep == TypeOK /\ [Next]_vars => TypeOK'
<1> SUFFICES ASSUME TypeOK, [Next]_vars PROVE TypeOK'
  OBVIOUS
<1>1. CASE Elapse
  BY <1>1 DEF TypeOK, Elapse, observers
<1>2. CASE Expire
  BY <1>2 DEF TypeOK, Expire, observers
<1>3. ASSUME NEW b \in Board, Ingest(b) PROVE TypeOK'
  <2>1. PICK jobs \in SUBSET Job, new \in SUBSET Row :
             /\ now' = now + 1
             /\ raw' = raw \cup new
             /\ fetched' = [fetched EXCEPT ![b] = jobs]
             /\ sighted' = sighted \cup {[job |-> j, at |-> now'] : j \in jobs}
             /\ IF jobs = {}
                  THEN UNCHANGED <<seen, landed>>
                  ELSE /\ seen' = [seen EXCEPT ![b] = jobs]
                       /\ landed' = [landed EXCEPT ![b] = now']
    BY <1>3, IngestParts
  <2>2. now' \in Nat /\ sighted' \in SUBSET [job : Job, at : Nat]
    BY <2>1 DEF TypeOK
  <2> QED BY <2>1, <2>2 DEF TypeOK
<1>4. CASE UNCHANGED vars
  BY <1>4 DEF TypeOK, vars, observers
<1> QED BY <1>1, <1>2, <1>3, <1>4 DEF Next

(* The variables keep their types.                                         *)
THEOREM TypeCorrect == Spec => []TypeOK
<1>1. Init => TypeOK
  BY DEF Init, TypeOK
<1> QED BY <1>1, TypeStep, PTL DEF Spec

-----------------------------------------------------------------------------
(* How the rows relate to the landings.  The rows of a board are no later  *)
(* than its last landing, those that carry its stamp are postings it saw,  *)
(* the last landing is missing from the table only when nothing as old is  *)
(* left of any board: partitions expire oldest first.  For the same reason *)
(* a posting that is in the table at all has its row of the last landing   *)
(* that saw it, and what a landing saw has its row until the retention is  *)
(* over.                                                                   *)
NoRowPastLanding ==
    \A r \in raw : r.at <= landed[BoardOf[r.job]]
NoLandingPastNow == \A b \in Board : landed[b] <= now
StampedWasSeen ==
    \A r \in raw : r.at = landed[BoardOf[r.job]] => r.job \in seen[BoardOf[r.job]]
LandingKept ==
    \A b \in Board :
        \/ \E r \in raw : BoardOf[r.job] = b /\ r.at = landed[b]
        \/ \A r \in raw : landed[b] < r.at
SeenKept ==
    \A b \in Board : \A j \in seen[b] :
        /\ BoardOf[j] = b
        /\ \A r \in raw : r.job = j => \E q \in raw : q.job = j /\ q.at = landed[b]
SightedKept ==
    \A s \in sighted :
        s.at + Expiry >= now => \E q \in raw : q.job = s.job /\ q.at = s.at
RowsFollowLandings ==
    /\ TypeOK
    /\ NoRowPastLanding
    /\ NoLandingPastNow
    /\ StampedWasSeen
    /\ LandingKept
    /\ SeenKept
    /\ SightedKept

(* A landing's stamp is later than every row and every landing before it.  *)
LEMMA IngestFollows ==
    ASSUME RowsFollowLandings, TypeOK', NEW b \in Board, Ingest(b)
    PROVE  RowsFollowLandings' /\ \A r \in raw : r.at <= now
<1> USE DEF RowsFollowLandings
<1>1. PICK jobs \in SUBSET Job, new \in SUBSET Row :
             /\ \A j \in jobs : BoardOf[j] = b
             /\ \A r \in new : r.job \in jobs /\ r.at = now + 1
             /\ \A j \in jobs : \E r \in new : r.job = j
             /\ now' = now + 1
             /\ raw' = raw \cup new
             /\ sighted' = sighted \cup {[job |-> j, at |-> now'] : j \in jobs}
             /\ IF jobs = {}
                  THEN UNCHANGED <<seen, landed>>
                  ELSE /\ seen' = [seen EXCEPT ![b] = jobs]
                       /\ landed' = [landed EXCEPT ![b] = now']
  BY IngestParts
<1>2. \A r \in raw : r.job \in Job /\ r.at \in Nat /\ BoardOf[r.job] \in Board
  BY BoardOfAssumption DEF TypeOK, Row
<1>3. \A c \in Board : landed[c] \in Nat /\ landed[c] <= now /\ now \in Nat
  BY DEF TypeOK, NoLandingPastNow
<1>4. \A r \in raw : r.at <= now
  BY <1>2, <1>3 DEF NoRowPastLanding
<1>7. SightedKept'
  <2> SUFFICES ASSUME NEW s \in sighted', s.at + Expiry >= now'
               PROVE  \E q \in raw' : q.job = s.job /\ q.at = s.at
    BY DEF SightedKept
  <2>1. CASE s \in sighted
    <3>1. s.at \in Nat /\ s.at + Expiry >= now
      BY <1>1, <1>3, <2>1, ExpiryAssumption DEF TypeOK
    <3> QED BY <1>1, <2>1, <3>1 DEF SightedKept
  <2>2. CASE s \notin sighted
    <3>1. s.job \in jobs /\ s.at = now + 1
      BY <1>1, <2>2
    <3> QED BY <1>1, <3>1
  <2> QED BY <2>1, <2>2
<1>5. CASE jobs = {}
  <2>1. raw' = raw /\ landed' = landed /\ seen' = seen
    BY <1>1, <1>5
  <2> QED BY <1>1, <1>3, <1>4, <1>7, <2>1
          DEF NoRowPastLanding, NoLandingPastNow, StampedWasSeen, LandingKept, SeenKept
<1>6. CASE jobs # {}
  <2>1. /\ landed' \in [Board -> Nat] /\ landed'[b] = now + 1
        /\ \A c \in Board \ {b} : landed'[c] = landed[c] /\ seen'[c] = seen[c]
        /\ seen'[b] = jobs
    BY <1>1, <1>6 DEF TypeOK
  <2>2. \A r \in new : BoardOf[r.job] = b /\ r.job \in jobs /\ r.at = now + 1
    BY <1>1
  <2>3. NoRowPastLanding'
    BY <1>1, <1>2, <1>3, <1>4, <2>1, <2>2 DEF NoRowPastLanding
  <2>4. NoLandingPastNow'
    BY <1>1, <1>3, <2>1 DEF NoLandingPastNow
  <2>5. StampedWasSeen'
    BY <1>1, <1>2, <1>3, <1>4, <2>1, <2>2 DEF StampedWasSeen
  <2>6. LandingKept'
    <3> SUFFICES ASSUME NEW c \in Board
                 PROVE  \/ \E r \in raw' : BoardOf[r.job] = c /\ r.at = landed'[c]
                        \/ \A r \in raw' : landed'[c] < r.at
      BY DEF LandingKept
    <3>1. CASE c = b
      BY <3>1, <1>1, <1>6, <2>1, <2>2
    <3>2. CASE c # b
      BY <3>2, <1>1, <1>3, <2>1, <2>2 DEF LandingKept
    <3> QED BY <3>1, <3>2
  <2>7. SeenKept'
    <3> SUFFICES ASSUME NEW c \in Board, NEW j \in seen'[c]
                 PROVE  /\ BoardOf[j] = c
                        /\ \A r \in raw' : r.job = j =>
                              \E q \in raw' : q.job = j /\ q.at = landed'[c]
      BY DEF SeenKept
    <3>1. CASE c = b
      BY <3>1, <1>1, <2>1, <2>2
    <3>2. CASE c # b
      BY <3>2, <1>1, <2>1, <2>2 DEF SeenKept
    <3> QED BY <3>1, <3>2
  <2> QED BY <1>4, <1>7, <2>3, <2>4, <2>5, <2>6, <2>7
<1> QED BY <1>5, <1>6

LEMMA RowsStep == RowsFollowLandings /\ [Next]_vars => RowsFollowLandings'
<1> SUFFICES ASSUME RowsFollowLandings, [Next]_vars PROVE RowsFollowLandings'
  OBVIOUS
<1>1. TypeOK'
  BY TypeStep DEF RowsFollowLandings
<1>2. \A r \in raw : r.at \in Nat /\ BoardOf[r.job] \in Board
  BY BoardOfAssumption DEF RowsFollowLandings, TypeOK, Row
<1>3. CASE Elapse
  <2>1. now' = now + 1 /\ UNCHANGED <<raw, seen, landed, sighted>>
    BY <1>3 DEF Elapse, observers
  <2>2. SightedKept'
    <3> SUFFICES ASSUME NEW s \in sighted, s.at + Expiry >= now + 1
                 PROVE  s.at + Expiry >= now
      BY <2>1 DEF SightedKept, RowsFollowLandings
    <3> QED BY ExpiryAssumption DEF RowsFollowLandings, TypeOK
  <2> QED BY <1>1, <2>1, <2>2 DEF RowsFollowLandings, TypeOK, NoRowPastLanding,
          NoLandingPastNow, StampedWasSeen, LandingKept, SeenKept
<1>4. CASE Expire
  <2>1. /\ raw' = {r \in raw : ~(r.at + Expiry < now)}
        /\ now' = now /\ landed' = landed /\ seen' = seen /\ sighted' = sighted
    BY <1>4 DEF Expire, Expired, observers
  <2>2. LandingKept'
    <3> SUFFICES ASSUME NEW b \in Board, NEW r \in raw', r.at <= landed[b]
                 PROVE  \E q \in raw' : BoardOf[q.job] = b /\ q.at = landed[b]
      BY <1>2, <2>1 DEF LandingKept, RowsFollowLandings, TypeOK
    <3>1. PICK q \in raw : BoardOf[q.job] = b /\ q.at = landed[b]
      BY <1>2, <2>1 DEF LandingKept, RowsFollowLandings, TypeOK
    <3>2. q \in raw'
      BY <1>2, <2>1, <3>1, ExpiryAssumption DEF RowsFollowLandings, TypeOK
    <3> QED BY <3>1, <3>2
  <2>3. SeenKept'
    <3> SUFFICES ASSUME NEW b \in Board, NEW j \in seen[b], NEW r \in raw', r.job = j
                 PROVE  \E q \in raw' : q.job = j /\ q.at = landed[b]
      BY <2>1 DEF SeenKept, RowsFollowLandings
    <3>1. PICK q \in raw : q.job = j /\ q.at = landed[b]
      BY <2>1 DEF SeenKept, RowsFollowLandings
    <3>2. r.at <= landed[b] /\ r.at \in Nat /\ q.at \in Nat
      BY <1>2, <2>1 DEF SeenKept, NoRowPastLanding, RowsFollowLandings
    <3>3. q \in raw'
      BY <2>1, <3>1, <3>2, ExpiryAssumption DEF RowsFollowLandings, TypeOK
    <3> QED BY <3>1, <3>3
  <2>4. SightedKept'
    <3> SUFFICES ASSUME NEW s \in sighted, s.at + Expiry >= now
                 PROVE  \E q \in raw' : q.job = s.job /\ q.at = s.at
      BY <2>1 DEF SightedKept
    <3>1. PICK q \in raw : q.job = s.job /\ q.at = s.at
      BY DEF SightedKept, RowsFollowLandings
    <3>2. q \in raw'
      BY <1>2, <2>1, <3>1, ExpiryAssumption DEF RowsFollowLandings, TypeOK
    <3> QED BY <3>1, <3>2
  <2> QED BY <1>1, <2>1, <2>2, <2>3, <2>4
          DEF RowsFollowLandings, NoRowPastLanding, NoLandingPastNow, StampedWasSeen
<1>5. ASSUME NEW b \in Board, Ingest(b) PROVE RowsFollowLandings'
  BY <1>1, <1>5, IngestFollows
<1>6. CASE UNCHANGED vars
  BY <1>6 DEF vars, observers, RowsFollowLandings, TypeOK, NoRowPastLanding,
     NoLandingPastNow, StampedWasSeen, LandingKept, SeenKept, SightedKept
<1> QED BY <1>3, <1>4, <1>5, <1>6 DEF Next

(* Rows follow their landings, through any landings and expiries.          *)
THEOREM RowsHold == Spec => []RowsFollowLandings
<1>1. Init => RowsFollowLandings
  BY DEF Init, RowsFollowLandings, TypeOK, NoRowPastLanding, NoLandingPastNow,
     StampedWasSeen, LandingKept, SeenKept, SightedKept
<1> QED BY <1>1, RowsStep, PTL DEF Spec

-----------------------------------------------------------------------------
(* A row of gold is an active row of its job, dated by the job's first ... *)
LEMMA GoldIsCurrent ==
    ASSUME NEW R, NEW g \in Gold(R)
    PROVE  \E r \in R, f \in R :
              /\ g.job = r.job /\ IsActive(R, r)
              /\ g.job = f.job /\ g.first = f.at /\ IsFirst(R, f)
<1>1. PICK p \in R \X R : /\ p[1].job = p[2].job /\ IsFirst(R, p[2])
                         /\ g = [job |-> SilverRow(R, p[1], p[2]).job,
                                 first |-> SilverRow(R, p[1], p[2]).first]
                         /\ SilverRow(R, p[1], p[2]).active
  BY DEF Gold, Offered, Silver
<1> QED BY <1>1 DEF SilverRow

(* ... and every such row at an allowed place is in gold.                  *)
LEMMA CurrentIsGold ==
    ASSUME NEW R, NEW r \in R, NEW f \in R, r.job = f.job, IsCurrent(R, r),
           IsFirst(R, f), LocationOK(r.place), IsActive(R, r)
    PROVE  \E g \in Gold(R) : g.job = r.job
<1> DEFINE s == SilverRow(R, r, f)
<1>1. s \in Silver(R)
  <2>1. /\ <<r, f>> \in R \X R
        /\ <<r, f>>[1] = r /\ <<r, f>>[2] = f
    OBVIOUS
  <2> QED BY <2>1 DEF Silver
<1>2. s.active /\ s.job = r.job
  BY DEF SilverRow
<1>3. [job |-> s.job, first |-> s.first] \in Gold(R)
  <2> HIDE DEF s
  <2> QED BY <1>1, <1>2 DEF Gold, Offered
<1> QED BY <1>2, <1>3

(* What gold offers was on its board the last time the board showed any    *)
(* posting at all, and that was within the grace of every board's last     *)
(* landing: the row is current, so it carries its board's stamp.           *)
THEOREM GoldIsLive == Spec => []GoldWasSeenLive
<1>1. RowsFollowLandings => GoldWasSeenLive
  <2> SUFFICES ASSUME RowsFollowLandings, NEW g \in Gold(raw)
               PROVE  LET b == BoardOf[g.job]
                      IN  g.job \in seen[b] /\ \A c \in Board : landed[c] <= landed[b] + Grace
    BY DEF GoldWasSeenLive
  <2> USE DEF RowsFollowLandings
  <2>1. PICK r \in raw : IsActive(raw, r) /\ g.job = r.job
    BY GoldIsCurrent
  <2> DEFINE b == BoardOf[r.job]
  <2>2. /\ b \in Board
        /\ \A q \in raw : q.at \in Nat /\ BoardOf[q.job] \in Board
        /\ \A c \in Board : landed[c] \in Nat
        /\ Grace \in Nat
    BY BoardOfAssumption, GraceAssumption DEF TypeOK, Row
  <2>3. r.at = landed[b]
    <3>1. r.at <= landed[b]
      BY DEF NoRowPastLanding
    <3>2. PICK q \in raw : BoardOf[q.job] = b /\ q.at = landed[b]
      BY <2>2, <3>1 DEF LandingKept
    <3>3. q.at <= r.at
      BY <2>1, <3>2 DEF IsActive, SinceBoardLast
    <3> QED BY <2>2, <3>1, <3>2, <3>3
  <2>4. ASSUME NEW c \in Board PROVE landed[c] <= landed[b] + Grace
    <3>1. PICK p \in raw : BoardOf[p.job] = b /\ \A q \in raw : q.at <= p.at + Grace
      BY <2>1 DEF IsActive, BoardFresh
    <3>2. p.at <= landed[b]
      BY <3>1 DEF NoRowPastLanding
    <3>3. CASE \E q \in raw : BoardOf[q.job] = c /\ q.at = landed[c]
      BY <2>2, <3>1, <3>2, <3>3
    <3>4. CASE \A q \in raw : landed[c] < q.at
      BY <2>2, <2>3, <3>4
    <3> QED BY <3>3, <3>4 DEF LandingKept
  <2> QED BY <2>1, <2>3, <2>4 DEF StampedWasSeen
<1> QED BY <1>1, RowsHold, PTL

(* A set of natural numbers has a least one.                               *)
LEMMA LeastNat ==
    ASSUME NEW T \in SUBSET Nat, T # {}
    PROVE  \E t \in T : \A u \in T : t <= u
<1>1. PICK t \in T : \A u \in T : ~(<<u, t>> \in OpToRel(<, Nat))
  BY Zenon, WFMin, NatLessThanWellFounded
<1>2. \A u \in Nat, v \in Nat : u < v => <<u, v>> \in OpToRel(<, Nat)
  BY Zenon DEF OpToRel
<1>3. \A u \in T : ~(u < t)
  BY <1>1, <1>2
<1> QED BY <1>3

(* Every job with a row has a first one.                                   *)
LEMMA FirstExists ==
    ASSUME NEW R \in SUBSET Row, NEW r \in R
    PROVE  \E f \in R : f.job = r.job /\ IsFirst(R, f)
<1> DEFINE stamps == {q.at : q \in {q \in R : q.job = r.job}}
<1>1. stamps \in SUBSET Nat /\ stamps # {}
  BY DEF Row
<1>2. PICK t \in stamps : \A u \in stamps : t <= u
  <2> HIDE DEF stamps
  <2> QED BY <1>1, LeastNat
<1> QED BY <1>2 DEF IsFirst

(* Nothing live is withheld: what the last landing of a fresh board saw,   *)
(* at an allowed place, is in gold while its row is kept: its latest row   *)
(* is the one with the board's stamp.                                      *)
THEOREM LiveIsOffered == Spec => []SeenIsActive
<1>1. RowsFollowLandings => SeenIsActive
  <2> SUFFICES ASSUME RowsFollowLandings, NEW b \in Board, NEW j \in seen[b], NEW r \in raw,
                      r.job = j, IsCurrent(raw, r), LocationOK(r.place),
                      \A c \in Board : landed[c] <= landed[b] + Grace
               PROVE  \E g \in Gold(raw) : g.job = r.job
    BY DEF SeenIsActive
  <2> USE DEF RowsFollowLandings
  <2>1. BoardOf[r.job] = b /\ \E q \in raw : q.job = r.job /\ q.at = landed[b]
    BY DEF SeenKept
  <2>2. /\ \A q \in raw : q.at \in Nat /\ BoardOf[q.job] \in Board
        /\ \A c \in Board : landed[c] \in Nat
        /\ Grace \in Nat
    BY BoardOfAssumption, GraceAssumption DEF TypeOK, Row
  <2>3. r.at = landed[b] /\ SinceBoardLast(raw, b, r.at)
    <3>1. landed[b] <= r.at
      BY <2>1 DEF IsCurrent
    <3>2. r.at <= landed[b]
      BY <2>1 DEF NoRowPastLanding
    <3>3. r.at = landed[b]
      BY <2>2, <3>1, <3>2
    <3> QED BY <3>3 DEF NoRowPastLanding, SinceBoardLast
  <2>4. BoardFresh(raw, b)
    <3> SUFFICES ASSUME NEW q \in raw PROVE q.at <= r.at + Grace
      BY <2>1 DEF BoardFresh
    <3>1. q.at <= landed[BoardOf[q.job]]
      BY DEF NoRowPastLanding
    <3> QED BY <2>2, <2>3, <3>1
  <2>5. PICK f \in raw : f.job = r.job /\ IsFirst(raw, f)
    BY FirstExists DEF TypeOK
  <2> QED BY <2>1, <2>3, <2>4, <2>5, CurrentIsGold DEF IsActive
<1> QED BY <1>1, RowsHold, PTL

(* A posting that some landing saw within the retention never looks newer  *)
(* than that: the landing's row is still there, whatever its place, and    *)
(* first_seen_at is the earliest of all the rows of the job.               *)
THEOREM NothingIsNewTwice == Spec => []NotNewAgain
<1>1. RowsFollowLandings => NotNewAgain
  <2> SUFFICES ASSUME RowsFollowLandings, NEW g \in Gold(raw), NEW s \in sighted,
                      s.job = g.job, s.at + Expiry >= now
               PROVE  g.first <= s.at
    BY DEF NotNewAgain
  <2>1. PICK f \in raw : g.job = f.job /\ g.first = f.at /\ IsFirst(raw, f)
    BY GoldIsCurrent
  <2>2. PICK q \in raw : q.job = s.job /\ q.at = s.at
    BY DEF RowsFollowLandings, SightedKept
  <2> QED BY <2>1, <2>2 DEF IsFirst
<1> QED BY <1>1, RowsHold, PTL
=============================================================================
