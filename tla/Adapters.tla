------------------------------ MODULE Adapters ------------------------------
(***************************************************************************)
(* ingest/adapters: adapter.fetch, one request after the other, against a  *)
(* board that goes on changing between the requests.  Every later run      *)
(* fetches the board again.                                                *)
(*                                                                         *)
(* An adapter keeps no state: the variables below its comment are the      *)
(* locals of one call.  Of a posting its id and its places are kept.  One  *)
(* request is one action: the limiter and the retries under it are module  *)
(* RateLimiter.  A reply that is no posting list (another status, a        *)
(* timeout, a missing key, a field the schema refuses) raises and is an    *)
(* "error"; the adapters tell only 404 apart.                              *)
(***************************************************************************)
EXTENDS Integers, Sequences, FiniteSets, SequencesExt

CONSTANTS
    Ats,         \* registered sources of this instance
    Job,         \* ids of postings
    PlacesOf,    \* [Job -> the places it is open in]
    Boards,      \* what the board lists at first
    Quirks,      \* how the paginated API may misbehave
    PageSize,    \* page_size
    None,        \* a reply without totalFound
    MaxChanges,  \* bound: postings opened, closed or moved up
    MaxFaults    \* bound: requests that fail

(* The registry, and how each adapter gets at the postings: all in one     *)
(* reply; so, from one of two shards; a list and then a detail for each;   *)
(* so, with a row per place in the list; so, with the list in pages.       *)
Access == [greenhouse |-> "whole", lever |-> "sharded", ashby |-> "whole",
           bamboohr |-> "detailed", recruitee |-> "whole", workable |-> "whole",
           pinpoint |-> "whole", rippling |-> "collapsed", smartrecruiters |-> "paged"]

ASSUME AtsAssumption == Ats \subseteq DOMAIN Access
ASSUME BoardsAssumption == \A b \in Boards : b \in Seq(Job) /\ IsInjective(b)
ASSUME PlacesAssumption ==
    /\ DOMAIN PlacesOf = Job
    /\ \A j \in Job : PlacesOf[j] # {} /\ IsFiniteSet(PlacesOf[j])
ASSUME QuirksAssumption == Quirks \subseteq {"none", "uncounted", "fewer", "more", "stuck"}
ASSUME NumbersAssumption ==
    /\ PageSize \in Nat \ {0} /\ None \notin Nat
    /\ MaxChanges \in Nat /\ MaxFaults \in Nat

VARIABLES
    ats,      \* the board's source
    host,     \* the shard that has the board, or none
    board,    \* the postings the board lists now, in its order
    quirk,    \* how its API misbehaves
    changes,  \* postings opened, closed or moved up so far
    faults,   \* requests that failed so far
    \* one call of fetch
    step,     \* the request it waits for, or how it ended
    error,    \* what was raised
    shard,    \* where the list is asked for
    offset,   \* _list: offset
    todo,     \* listed postings whose detail is still to be fetched
    got,      \* the list that fetch returns
    \* observers of the call
    shown,    \* postings that were on the board at some time
    kept,     \* postings that were there all the time
    grown,    \* postings that were put on the board, or moved up
    shrunk    \* postings that left the board, or moved up

boardVars == <<ats, host, board, quirk, changes>>
observers == <<shown, kept, grown, shrunk>>
vars == <<boardVars, faults, step, error, shard, offset, todo, got, observers>>

Listing == [id : Job, places : SUBSET UNION Range(PlacesOf)]
Busy == {"list", "details"}

TypeOK ==
    /\ ats \in Ats
    /\ host \in {"us", "eu", "none"}
    /\ board \in Seq(Job) /\ IsInjective(board)
    /\ quirk \in Quirks \cup {"none"}
    /\ changes \in 0..MaxChanges
    /\ faults \in 0..MaxFaults
    /\ step \in Busy \cup {"returned", "raised"}
    /\ error \in {"none", "missing", "gone", "other"}
    /\ error # "none" <=> step = "raised"
    /\ shard \in {"us", "eu"}
    /\ offset \in Nat
    /\ todo \in Seq(Listing)
    /\ got \in Seq(Listing)
    /\ kept \subseteq Range(board) /\ Range(board) \subseteq shown /\ shown \subseteq Job
    /\ grown \in Nat /\ shrunk \in Nat

(* Only Lever has a second shard.                                          *)
Init ==
    /\ ats \in Ats
    /\ host \in IF Access[ats] = "sharded" THEN {"us", "eu", "none"} ELSE {"us", "none"}
    /\ board \in Boards
    /\ quirk \in IF Access[ats] = "paged" THEN Quirks ELSE {"none"}
    /\ changes = 0 /\ faults = 0
    /\ step = "list" /\ error = "none" /\ shard = "us" /\ offset = 0
    /\ todo = <<>> /\ got = <<>>
    /\ shown = Range(board) /\ kept = Range(board) /\ grown = 0 /\ shrunk = 0

-----------------------------------------------------------------------------
(* The employer: a posting opens anywhere in the list, closes, or is       *)
(* released again and moves to the top.                                    *)
Change ==
    /\ step \in Busy /\ changes < MaxChanges
    /\ changes' = changes + 1
    /\ UNCHANGED <<ats, host, quirk, faults, step, error, shard, offset, todo, got>>

Open(j) ==
    /\ Change
    /\ j \notin shown
    /\ \E i \in 1..(Len(board) + 1) : board' = InsertAt(board, i, j)
    /\ shown' = shown \cup {j}
    /\ grown' = grown + 1
    /\ UNCHANGED <<kept, shrunk>>

Close(i) ==
    /\ Change
    /\ i \in DOMAIN board
    /\ board' = RemoveAt(board, i)
    /\ kept' = kept \ {board[i]}
    /\ shrunk' = shrunk + 1
    /\ UNCHANGED <<shown, grown>>

MoveUp(i) ==
    /\ Change
    /\ i \in DOMAIN board
    /\ board' = <<board[i]>> \o RemoveAt(board, i)
    /\ grown' = grown + 1 /\ shrunk' = shrunk + 1
    /\ UNCHANGED <<shown, kept>>

-----------------------------------------------------------------------------
(* The list.                                                               *)
Raise(e) ==
    /\ step' = "raised" /\ error' = e
    /\ UNCHANGED <<shard, offset, todo, got>>

(* LeverAdapter._get: a 404 of the US shard, and nothing else, is asked    *)
(* again of the EU shard.                                                  *)
FallsBack_OnAnyError(status) == Access[ats] = "sharded" /\ shard = "us"
FallsBack_Never(status) == FALSE
FallsBack(status) == Access[ats] = "sharded" /\ shard = "us" /\ status = "missing"

Refused(status) ==
    /\ step = "list"
    /\ \/ status = "missing" /\ host # shard /\ UNCHANGED faults
       \/ status = "other" /\ faults < MaxFaults /\ faults' = faults + 1
    /\ IF FallsBack(status)
       THEN shard' = "eu" /\ UNCHANGED <<step, error, offset, todo, got>>
       ELSE Raise(status)
    /\ UNCHANGED <<boardVars, observers>>

(* A posting, mapped.  Of a posting that is open in several places the     *)
(* payload names one as its location and the others, if at all, in a field *)
(* that no adapter reads (secondaryLocations, locations).                  *)
FirstPlace(j) == CHOOSE p \in PlacesOf[j] : TRUE
Listed(j) == [id |-> j, places |-> {FirstPlace(j)}]

(* The list has everything: GreenhouseAdapter.fetch and those like it, and *)
(* LeverAdapter.fetch with the answer of either shard.                     *)
ListWhole ==
    /\ step = "list" /\ host = shard /\ Access[ats] = "whole"
    /\ got' = [i \in DOMAIN board |-> Listed(board[i])]
    /\ step' = "returned"
    /\ UNCHANGED <<boardVars, faults, error, shard, offset, todo, observers>>

ListShard ==
    /\ step = "list" /\ host = shard /\ Access[ats] = "sharded"
    /\ got' = [i \in DOMAIN board |-> Listed(board[i])]
    /\ step' = "returned"
    /\ UNCHANGED <<boardVars, faults, error, shard, offset, todo, observers>>

(* BambooHRAdapter.fetch: the list, without the descriptions.              *)
ListOpenings ==
    /\ step = "list" /\ host = shard /\ Access[ats] = "detailed"
    /\ todo' = [i \in DOMAIN board |-> Listed(board[i])]
    /\ step' = "details"
    /\ UNCHANGED <<boardVars, faults, error, shard, offset, got, observers>>

(* Rippling lists a row for each place of a posting, here those for the    *)
(* second and further places after all the first; _collapse keeps one      *)
(* posting for each id, with the places of all its rows.  In which order   *)
(* is left out: nothing below depends on it.                               *)
RowsOf(j) == {[id |-> j, place |-> p] : p \in PlacesOf[j]}
FirstRow(j) == [id |-> j, place |-> FirstPlace(j)]
Rows ==
    [i \in DOMAIN board |-> FirstRow(board[i])]
        \o SetToSeq(UNION {RowsOf(j) \ {FirstRow(j)} : j \in Range(board)})

IdsOf(rows) == {rows[i].id : i \in DOMAIN rows}

Collapse_FirstRow(rows) ==
    LET ids == SetToSeq(IdsOf(rows))
        first(id) == CHOOSE i \in DOMAIN rows :
                        rows[i].id = id /\ \A k \in 1..(i - 1) : rows[k].id # id
    IN  [n \in DOMAIN ids |-> [id |-> ids[n], places |-> {rows[first(ids[n])].place}]]
Collapse(rows) ==
    LET ids == SetToSeq(IdsOf(rows))
        all(id) == {r.place : r \in {r \in Range(rows) : r.id = id}}
    IN  [n \in DOMAIN ids |-> [id |-> ids[n], places |-> all(ids[n])]]

ListRows ==
    /\ step = "list" /\ host = shard /\ Access[ats] = "collapsed"
    /\ todo' = Collapse(Rows)
    /\ step' = "details"
    /\ UNCHANGED <<boardVars, faults, error, shard, offset, got, observers>>

(* SmartRecruitersAdapter._list: a page, and the count that came with it.  *)
PageAt(o) ==
    SubSeq(board, o + 1, IF o + PageSize < Len(board) THEN o + PageSize ELSE Len(board))
Miscount == [none |-> 0, stuck |-> 0, fewer |-> -1, more |-> 1]
TotalFound == IF quirk = "uncounted" THEN None ELSE Len(board) + Miscount[quirk]

(* The walk goes on after this page.                                       *)
GoesOn_PastEmpty(page, n, total) == total # None /\ n < total
GoesOn(page, n, total) == page # <<>> /\ total # None /\ n < total

Advance_OneFurther(page) == offset + Len(page) + 1
Advance(page) == offset + Len(page)

ListPage ==
    /\ step = "list" /\ host = shard /\ Access[ats] = "paged"
    /\ LET page == PageAt(IF quirk = "stuck" THEN 0 ELSE offset)
       IN  /\ todo' = todo \o [i \in DOMAIN page |-> Listed(page[i])]
           /\ IF GoesOn(page, Len(todo'), TotalFound)
              THEN offset' = Advance(page) /\ UNCHANGED step
              ELSE step' = "details" /\ UNCHANGED offset
    /\ UNCHANGED <<boardVars, faults, error, shard, got, observers>>

-----------------------------------------------------------------------------
(* The details, one request for each listed posting, in order.             *)

(* RipplingAdapter._map: the places the detail names, else the list's; the *)
(* other adapters' details add none.                                       *)
Mapped(item, named) == IF named = {} THEN item ELSE [item EXCEPT !.places = named]

Detail ==
    /\ step = "details" /\ todo # <<>>
    /\ LET item == Head(todo)
           named == {{}} \cup (IF Access[ats] = "collapsed" THEN {PlacesOf[item.id]} ELSE {})
       IN  \E places \in named : got' = Append(got, Mapped(item, places))
    /\ todo' = Tail(todo)
    /\ UNCHANGED <<boardVars, faults, step, error, shard, offset, observers>>

(* A posting that closed since it was listed, or any other failure: the    *)
(* whole fetch raises.  Some boards go on serving a closed posting.        *)
DetailRefused ==
    /\ step = "details" /\ todo # <<>>
    /\ \/ /\ Head(todo).id \notin Range(board)
          /\ UNCHANGED faults
          /\ Raise("gone")
       \/ /\ faults < MaxFaults
          /\ faults' = faults + 1
          /\ Raise("other")
    /\ UNCHANGED <<boardVars, observers>>

Return ==
    /\ step = "details" /\ todo = <<>>
    /\ step' = "returned"
    /\ UNCHANGED <<boardVars, faults, error, shard, offset, todo, got, observers>>

(* The next run: another call, with new locals.                            *)
FetchAgain ==
    /\ step \notin Busy
    /\ step' = "list" /\ error' = "none" /\ shard' = "us" /\ offset' = 0
    /\ todo' = <<>> /\ got' = <<>>
    /\ shown' = Range(board) /\ kept' = Range(board) /\ grown' = 0 /\ shrunk' = 0
    /\ UNCHANGED <<boardVars, faults>>

Fetch ==
    \/ Refused("missing") \/ Refused("other")
    \/ ListWhole \/ ListShard \/ ListOpenings \/ ListRows \/ ListPage
    \/ Detail \/ DetailRefused \/ Return
    \/ FetchAgain

Next ==
    \/ Fetch
    \/ \E j \in Job : Open(j)
    \/ \E i \in DOMAIN board : Close(i) \/ MoveUp(i)

Spec == Init /\ [][Next]_vars

(* A request is answered or times out, and the cron starts the next run.   *)
FairSpec == Spec /\ WF_vars(Fetch)
-----------------------------------------------------------------------------
Ids == IdsOf(got)
Honest == step = "returned" /\ quirk = "none"

(* What a fetch misses of the postings that were on the board all along is *)
(* bounded by the postings that left a place before the page being read,   *)
(* one for each, and what it returns twice by those that were put in there *)
(* or moved up.  A still board is fetched whole, to the last page,         *)
(* whatever its size, one posting an id, also where the list has a row for *)
(* each place.                                                             *)
ErrorIsBoundedByChange ==
    Honest =>
        /\ Cardinality(kept \ Ids) <= shrunk
        /\ Len(got) - Cardinality(Ids) <= grown

(* A posting that Rippling lists in a row for each of its places comes     *)
(* with all of them, whether its detail names them or not.  (Of the other  *)
(* sources the adapters keep one place, see Listed.)                       *)
CollapseKeepsEveryPlace ==
    Access[ats] = "collapsed" => \A i \in DOMAIN got : got[i].places = PlacesOf[got[i].id]

(* A board is reported missing only when it is: not on the shard that is   *)
(* asked first because it is on the other, and not because the first was   *)
(* down and the other does not have it.                                    *)
MissingMeansMissing == error = "missing" => host = "none"

(* A fetch ends, whatever the count and the pages it is given.             *)
FetchEnds == step \in Busy ~> step \notin Busy

(* Once a board that is up has come to rest it is fetched in every run:    *)
(* neither a posting that closed in the middle of a fetch nor a failure    *)
(* keeps it out for good.                                                  *)
BoardRecovers == host # "none" => []<>(step = "returned")

(* smartrecruiters.py: "totalFound", so pages are walked until every       *)
(* posting is in hand.  Here of the postings that were there all along.    *)
EveryPostingInHand == Honest => kept \subseteq Ids
=============================================================================
