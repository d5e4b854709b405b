----------------------------- MODULE Retention -----------------------------
(***************************************************************************)
(* The retention layer over time (ADR-0016): boards whose postings come,   *)
(* go and move, landings of what a fetch saw, raw partitions that expire - *)
(* and silver and gold as Lifecycle computes them from the rows left.      *)
(*                                                                         *)
(* What a board shows is read by a fetch only, so it is chosen there.  A   *)
(* fetch that fails, and a board that left the company list, are a board   *)
(* that is not ingested.  A fetch and the landing of its rows are one step *)
(* (Workflow splits them).  No two landings share an instant, as the       *)
(* microsecond clock gives them.  MaxNow bounds TLC.  An operator with a   *)
(* suffix is a faulty variant of the one it precedes, here as everywhere.  *)
(***************************************************************************)
EXTENDS Lifecycle, FiniteSets

CONSTANTS
    Places,   \* the places postings take in this instance
    Absent,   \* the board does not list the job
    Expiry,   \* bq_raw_partition_expiry_days
    MaxNow    \* bound: nothing happens after this time

ASSUME PlacesAssumption == Places \subseteq Place /\ Absent \notin Place
ASSUME ExpiryAssumption == Expiry \in Nat /\ MaxNow \in Nat

VARIABLES
    now,      \* the wall clock
    raw,      \* rows of the raw tables
    seen,     \* observer: jobs of each board's last landing
    landed,   \* observer: when each board was last landed, 0 for never
    fetched,  \* observer: jobs of each board's last successful fetch
    sighted   \* observer: every job some landing saw, and when

observers == <<seen, landed, fetched, sighted>>
vars == <<now, raw, observers>>

TypeOK ==
    /\ now \in Nat
    /\ raw \in SUBSET Row
    /\ seen \in [Board -> SUBSET Job]
    /\ landed \in [Board -> Nat]
    /\ fetched \in [Board -> SUBSET Job]
    /\ sighted \in SUBSET [job : Job, at : Nat]

Init ==
    /\ now = 0
    /\ raw = {}
    /\ seen = [b \in Board |-> {}]
    /\ landed = [b \in Board |-> 0]
    /\ fetched = [b \in Board |-> {}]
    /\ sighted = {}

(* What board b can show: a place for each of its postings, or none.       *)
Listing(b) == [{j \in Job : BoardOf[j] = b} -> Places \cup {Absent}]
Live(shown) == {j \in DOMAIN shown : shown[j] # Absent}

Elapse ==
    /\ now < MaxNow
    /\ now' = now + 1
    /\ UNCHANGED <<raw, observers>>

(* storage.land of what a fetch of b returned: every posting of the board  *)
(* under one stamp; an empty list lands nothing.                           *)
LandedRows_StampedOneByOne(shown, t) ==
    LET head == CHOOSE j \in Live(shown) : TRUE
    IN  {[job |-> j, place |-> shown[j], at |-> IF j = head THEN t - 1 ELSE t] : j \in Live(shown)}
LandedRows(shown, t) == {[job |-> j, place |-> shown[j], at |-> t] : j \in Live(shown)}

Ingest(b) ==
    \E shown \in Listing(b) :
        /\ now < MaxNow
        /\ now' = now + 1
        /\ raw' = raw \cup LandedRows(shown, now')
        /\ fetched' = [fetched EXCEPT ![b] = Live(shown)]
        /\ sighted' = sighted \cup {[job |-> j, at |-> now'] : j \in Live(shown)}
        /\ IF Live(shown) = {}
             THEN UNCHANGED <<seen, landed>>
             ELSE /\ seen' = [seen EXCEPT ![b] = Live(shown)]
                  /\ landed' = [landed EXCEPT ![b] = now']

(* BigQuery drops the partitions that are past their expiry.               *)
Expired(r) == r.at + Expiry < now

Expire ==
    /\ \E r \in raw : Expired(r)
    /\ raw' = {r \in raw : ~Expired(r)}
    /\ UNCHANGED <<now, observers>>

Next ==
    \/ Elapse \/ Expire
    \/ \E b \in Board : Ingest(b)

Spec == Init /\ [][Next]_vars
-----------------------------------------------------------------------------
(* What gold offers was on its board the last time the board showed any    *)
(* posting at all, and that was within the grace of the last landing of    *)
(* any board: a board that fails for ever or left the list ages out.       *)
GoldWasSeenLive ==
    \A g \in Gold(raw) :
        LET b == BoardOf[g.job]
        IN  /\ g.job \in seen[b]
            /\ \A c \in Board : landed[c] <= landed[b] + Grace

(* And nothing live is withheld: whatever the last landing of a board saw  *)
(* is offered as long as its latest row is kept and at an allowed place,   *)
(* and the board is fresh: the rows of one landing are live together.      *)
SeenIsActive ==
    \A b \in Board : \A j \in seen[b], r \in raw :
        /\ r.job = j /\ IsCurrent(raw, r) /\ LocationOK(r.place)
        /\ \A c \in Board : landed[c] <= landed[b] + Grace
        => \E g \in Gold(raw) : g.job = j

(* silver.yml: first_seen_at says what is net-new.  A posting that some    *)
(* landing saw within the retention never looks newer than that, whatever  *)
(* place it had then, and however often it was taken down, listed again    *)
(* or out of silver for a stale board since: it is not announced twice.    *)
NotNewAgain ==
    \A g \in Gold(raw), s \in sighted :
        s.job = g.job /\ s.at + Expiry >= now => g.first <= s.at

(* ADR-0016, gold.yml: a taken-down posting flips to inactive; gold offers *)
(* only what its board's latest ingest still contained.                    *)
TakenDownLeavesGold == \A g \in Gold(raw) : g.job \in fetched[BoardOf[g.job]]
=============================================================================
