----------------------------- MODULE Lifecycle -----------------------------
(***************************************************************************)
(* The dbt models from the raw tables to gold: dedup, lifecycle columns,   *)
(* the location gate and the filter on live postings.  A raw row is one    *)
(* posting as one landing saw it; all rows of a board's landing carry one  *)
(* ingested_at.                                                            *)
(*                                                                         *)
(* The job_key (source, company, external_id) is a member of Job, so a job *)
(* belongs to one board.  Of the posting's text only what gates it is      *)
(* kept, the place: unknown, bare "Remote", one that word-matches an       *)
(* allowed location, or any other.  Titles, tech and deal-breaker hits     *)
(* annotate and order, they never drop a row.                              *)
(***************************************************************************)
EXTENDS Integers

CONSTANTS
    Job,      \* job keys
    Board,    \* (source, company) pairs
    BoardOf,  \* [Job -> Board]
    Grace     \* board_staleness_hours

ASSUME BoardOfAssumption == BoardOf \in [Job -> Board]
ASSUME GraceAssumption == Grace \in Nat

Place == {"unknown", "remote", "allowed", "foreign"}
Row == [job : Job, place : Place, at : Nat]

LocationOK(place) == place \in {"unknown", "remote", "allowed"}

-----------------------------------------------------------------------------
(* The windows of silver_jobs, as relations between a row and the table.   *)

(* ingested_at is the row's first_seen_at: the earliest of its job_key.    *)
IsFirst_AfterTheGate(R, r) ==
    /\ LocationOK(r.place)
    /\ \A q \in R : q.job = r.job /\ LocationOK(q.place) => r.at <= q.at
IsFirst(R, r) == \A q \in R : q.job = r.job => r.at <= q.at

(* row_number() = 1 by ingested_at desc: the current version of the job,   *)
(* whose ingested_at is also last_seen_at.                                 *)
IsCurrent(R, r) == \A q \in R : q.job = r.job => q.at <= r.at

(* t >= board_last_ingested_at of board b                                  *)
SinceBoardLast(R, b, t) == \A q \in R : BoardOf[q.job] = b => q.at <= t

(* board_last_ingested_at >= pipeline_last_ingested_at less the grace      *)
BoardFresh_Never(R, b) == TRUE
BoardFresh(R, b) ==
    \E p \in R : BoardOf[p.job] = b /\ \A q \in R : q.at <= p.at + Grace

IsActive(R, r) ==
    LET b == BoardOf[r.job]
    IN  SinceBoardLast(R, b, r.at) /\ BoardFresh(R, b)

(* One silver row per current row r and first row f of a job the location  *)
(* gate lets through.                                                      *)
SilverRow(R, r, f) ==
    [job |-> r.job, place |-> r.place, first |-> f.at, last |-> r.at,
     active |-> IsActive(R, r)]

Silver(R) ==
    {SilverRow(R, p[1], p[2]) :
        p \in {p \in R \X R :
                 /\ p[1].job = p[2].job
                 /\ IsCurrent(R, p[1]) /\ IsFirst(R, p[2])
                 /\ LocationOK(p[1].place)}}

(* fct_job_postings: the live rows, with what the digest reads of them.    *)
Offered(S) == {[job |-> s.job, first |-> s.first] : s \in {s \in S : s.active}}
Gold(R) == Offered(Silver(R))
=============================================================================
