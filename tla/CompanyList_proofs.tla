------------------------- MODULE CompanyList_proofs -------------------------
(* Proofs about CompanyList, for any companies, boards, inventories and    *)
(* number of updates and edits: the master wins, an edit can be recovered, *)
(* a merge settles, and what is pushed is fit for the scheduled run.       *)
EXTENDS CompanyList, FiniteSetTheorems, SequenceTheorems, TLAPS

Lists ==
    /\ master \in SUBSET Row /\ backup \in SUBSET Row /\ merged \in SUBSET Row
    /\ incoming \in Seq(Row) /\ layered \in Nat /\ layered <= Len(incoming)
    /\ step \in Steps /\ (step \notin {"merge", "write"} => layered = 0)
    /\ byHand \in SUBSET Row
    /\ safe \in BOOLEAN /\ torn \in BOOLEAN
    /\ cut \subseteq {"projection", "variable"}

OnePerCompany(rows) == \A r, q \in rows : r.company = q.company => r = q
OneRowEach ==
    OnePerCompany(master) /\ OnePerCompany(backup) /\ OnePerCompany(merged) /\ OnePerCompany(byHand)

(* The list has the company of n, and a website if n brought one.          *)
Has(rows, n) == \E r \in rows : r.company = n.company /\ (n.site => r.site)

(* Where the owner's word is: in the master, in what the merge is building *)
(* when that is not in the master yet, and in a safe backup.               *)
EditsInv ==
    /\ ~torn /\ step # "write" => \A h \in byHand : Keeps(master, h)
    /\ ~torn /\ step \in {"merge", "write"} => \A h \in byHand : Keeps(merged, h)
    /\ safe => \A h \in byHand : Keeps(backup, h)

(* What was layered is in the list that is being built, then in the master.*)
MergeInv ==
    /\ step = "merge" => \A i \in 1..layered : Has(merged, incoming[i])
    /\ step = "write" => \A i \in DOMAIN incoming : Has(merged, incoming[i])
    /\ step = "validate" => \A i \in DOMAIN incoming : Has(master, incoming[i])

(* A problem stops the target before the projection, and the projection    *)
(* and the variable are fit unless a row of theirs was cut.                *)
Fit(rows) == \A r \in rows : r.active /\ r.board \notin BadBoard
PushInv ==
    /\ step = "project" => Problems(master) = {}
    /\ "projection" \in cut \/ Fit(projected)
    /\ "variable" \in cut \/ Fit(variable)
    /\ step = "project" => "projection" \notin cut

ListInv == Lists /\ OneRowEach /\ EditsInv /\ MergeInv /\ PushInv

-----------------------------------------------------------------------------
(* A layer of a row keeps everything the list says, and says what is new.  *)
LEMMA LayerRows ==
    ASSUME NEW rows \in SUBSET Row, NEW new \in Row, OnePerCompany(rows)
    PROVE  /\ Layer(rows, new) \in SUBSET Row
           /\ OnePerCompany(Layer(rows, new))
           /\ Has(Layer(rows, new), new)
           /\ \A h : Keeps(rows, h) => Keeps(Layer(rows, new), h)
           /\ \A n : Has(rows, n) => Has(Layer(rows, new), n)
<1>1. CASE Of(rows, new.company) = {}
  <2>1. Layer(rows, new) = rows \cup {new}
    BY <1>1 DEF Layer
  <2>2. \A r \in rows : r.company # new.company
    BY <1>1 DEF Of
  <2> QED BY <2>1, <2>2 DEF OnePerCompany, Has, Keeps
<1>2. CASE Of(rows, new.company) # {}
  <2> DEFINE Filled(r) == IF r.company = new.company THEN [r EXCEPT !.site = @ \/ new.site] ELSE r
  <2>1. Layer(rows, new) = {Filled(r) : r \in rows}
    BY <1>2 DEF Layer
  <2>2. ASSUME NEW r \in rows
        PROVE  /\ Filled(r) \in Row
               /\ Filled(r).company = r.company /\ Filled(r).board = r.board
               /\ Filled(r).active = r.active
               /\ r.site => Filled(r).site
               /\ r.company = new.company /\ new.site => Filled(r).site
    <3>1. r \in Row
      OBVIOUS
    <3> QED BY <3>1 DEF Row
  <2>3. PICK o \in rows : o.company = new.company
    BY <1>2 DEF Of
  <2> HIDE DEF Filled
  <2>4. Layer(rows, new) \in SUBSET Row
    BY <2>1, <2>2
  <2>5. OnePerCompany(Layer(rows, new))
    BY <2>1, <2>2 DEF OnePerCompany
  <2>6. Has(Layer(rows, new), new)
    BY <2>1, <2>2, <2>3 DEF Has
  <2>7. ASSUME NEW h, Keeps(rows, h) PROVE Keeps(Layer(rows, new), h)
    BY <2>1, <2>2, <2>7 DEF Keeps
  <2>8. ASSUME NEW n, Has(rows, n) PROVE Has(Layer(rows, new), n)
    BY <2>1, <2>2, <2>8 DEF Has
  <2> QED BY <2>4, <2>5, <2>6, <2>7, <2>8
<1> QED BY <1>1, <1>2

(* A list that has the row's company and website is not changed by it.     *)
LEMMA LayerSettles ==
    ASSUME NEW rows \in SUBSET Row, NEW new \in Row, OnePerCompany(rows), Has(rows, new)
    PROVE  /\ Cardinality(Of(rows, new.company)) = 1
           /\ Layer(rows, new) = rows
<1>1. PICK o \in rows : o.company = new.company /\ (new.site => o.site)
  BY DEF Has
<1>2. Of(rows, new.company) = {o}
  BY <1>1 DEF Of, OnePerCompany
<1>3. ASSUME NEW r \in rows
      PROVE  (IF r.company = new.company THEN [r EXCEPT !.site = @ \/ new.site] ELSE r) = r
  <2>1. CASE r.company # new.company
    BY <2>1
  <2>2. CASE r.company = new.company
    <3>1. r \in Row /\ (new.site => r.site)
      BY <1>1, <2>2 DEF OnePerCompany
    <3>2. (r.site \/ new.site) = r.site
      BY <3>1 DEF Row
    <3>3. [r EXCEPT !.site = r.site] = r
      BY <3>1 DEF Row
    <3> QED BY <2>2, <3>2, <3>3
  <2> QED BY <2>1, <2>2
<1>4. Layer(rows, new) =
        {IF r.company = new.company THEN [r EXCEPT !.site = @ \/ new.site] ELSE r : r \in rows}
  BY <1>2 DEF Layer
<1>5. Layer(rows, new) = rows
  BY <1>3, <1>4
<1> QED BY <1>2, <1>5, FS_Singleton

-----------------------------------------------------------------------------
(* The owner's steps.                                                      *)
LEMMA OwnerStep ==
    ASSUME ListInv, (\E r \in Row : EditByHand(r)) \/ Discovered \/ Restore \/ Push
    PROVE  ListInv'
<1> USE DEF ListInv, Lists, Steps, files, bounds, observers, merging
<1>1. ASSUME NEW r \in Row, EditByHand(r) PROVE ListInv'
  <2>1. /\ step = "idle" /\ UNCHANGED <<backup, projected, variable, incoming, merging, step, torn, cut>>
        /\ master' = (master \ Of(master, r.company)) \cup {r}
        /\ byHand' = (byHand \ Of(byHand, r.company)) \cup {r}
        /\ safe' = FALSE
    BY <1>1 DEF EditByHand
  <2>2. OneRowEach'
    BY <2>1 DEF OneRowEach, OnePerCompany, Of
  <2>3. ASSUME NEW h \in byHand', \A g \in byHand : Keeps(master, g)
        PROVE  Keeps(master', h)
    <3>1. CASE h = r
      BY <2>1, <3>1 DEF Keeps
    <3>2. CASE h # r
      BY <2>1, <2>3, <3>2 DEF Keeps, Of
    <3> QED BY <3>1, <3>2
  <2>4. EditsInv'
    BY <2>1, <2>3 DEF EditsInv, Keeps
  <2> QED BY <2>1, <2>2, <2>4 DEF MergeInv, PushInv, Fit
<1>2. CASE Discovered
  <2>1. incoming' \in Seq(Row) /\ Len(incoming') \in Nat
    BY <1>2, InventoriesAssumption, LenProperties DEF Discovered
  <2> QED BY <1>2, <2>1 DEF Discovered, OneRowEach, OnePerCompany, EditsInv, Keeps, MergeInv,
          PushInv, Fit
<1>3. CASE Restore
  <2>1. /\ step = "idle" /\ torn /\ master' = backup /\ torn' = ~safe
        /\ UNCHANGED <<backup, projected, variable, incoming, merging, step, byHand, safe, cut>>
    BY <1>3 DEF Restore
  <2>2. EditsInv'
    BY <2>1 DEF EditsInv, Keeps
  <2> QED BY <2>1, <2>2 DEF OneRowEach, OnePerCompany, MergeInv, PushInv, Fit
<1>4. CASE Push
  BY <1>4 DEF Push, OneRowEach, OnePerCompany, EditsInv, Keeps, MergeInv, PushInv, Fit
<1> QED BY <1>1, <1>2, <1>3, <1>4

(* A whole copy of an intact master is a safe backup.                      *)
LEMMA CopyStep ==
    ASSUME ListInv, Copy \/ StartUpdate
    PROVE  ListInv'
<1> USE DEF ListInv, Lists, Steps, files, bounds, observers, merging
<1>1. CASE Copy
  <2>1. /\ step = "copy" /\ step' = "read"
        /\ UNCHANGED <<master, projected, variable, incoming, merging, byHand, torn, cut>>
        /\ backup' \in SUBSET master \/ backup' = backup
        /\ safe' => (backup' = master /\ ~torn) \/ (backup' = backup /\ safe)
        /\ safe' \in BOOLEAN
    <3>1. /\ step = "copy" /\ step' = "read"
          /\ UNCHANGED <<master, projected, variable, incoming, merging, byHand, torn, cut>>
      BY <1>1 DEF Copy
    <3>2. CASE backup' = Copied /\ safe' = ~torn
      <4>1. safe' => ~torn
        BY <3>2
      <4>2. safe' \in BOOLEAN
        BY <3>2
      <4> QED BY <3>1, <3>2, <4>1, <4>2 DEF Copied
    <3>3. CASE backup' \in SUBSET master /\ safe' = FALSE
      BY <3>1, <3>3
    <3>4. CASE UNCHANGED <<backup, safe>>
      BY <3>1, <3>4
    <3> QED BY <1>1, <3>2, <3>3, <3>4 DEF Copy
  <2>2. OneRowEach'
    BY <2>1 DEF OneRowEach, OnePerCompany
  <2>3. EditsInv'
    BY <2>1 DEF EditsInv, Keeps
  <2> QED BY <2>1, <2>2, <2>3 DEF MergeInv, PushInv, Fit
<1>2. CASE StartUpdate
  BY <1>2 DEF StartUpdate, OneRowEach, OnePerCompany, EditsInv, Keeps, MergeInv, PushInv, Fit
<1> QED BY <1>1, <1>2

(* The merge: what it builds keeps the owner's word while the master is    *)
(* open.                                                                   *)
LEMMA MergeStep ==
    ASSUME ListInv, Read \/ Merge \/ OpenMaster \/ WriteMaster
    PROVE  ListInv'
<1> USE DEF ListInv, Lists, Steps, files, bounds, observers, merging
<1>1. DOMAIN incoming = 1..Len(incoming) /\ Len(incoming) \in Nat
  BY LenProperties
<1>2. CASE Read
  <2>1. /\ step = "read" /\ step' = "merge" /\ merged' = master /\ layered' = 0
        /\ UNCHANGED <<master, backup, projected, variable, incoming, byHand, safe, torn, cut>>
    BY <1>2 DEF Read
  <2>2. EditsInv'
    BY <2>1 DEF EditsInv, Keeps
  <2> QED BY <1>1, <2>1, <2>2 DEF OneRowEach, OnePerCompany, MergeInv, PushInv, Fit
<1>3. CASE Merge
  <2>1. /\ step = "merge" /\ layered < Len(incoming) /\ layered' = layered + 1
        /\ merged' = Layer(merged, incoming[layered + 1])
        /\ UNCHANGED <<master, backup, projected, variable, incoming, step, byHand, safe, torn, cut>>
    BY <1>3 DEF Merge
  <2> DEFINE new == incoming[layered + 1]
  <2>2. new \in Row
    BY <1>1, <2>1, ElementOfSeq
  <2>3. /\ merged' \in SUBSET Row /\ OnePerCompany(merged') /\ Has(merged', new)
        /\ \A h : Keeps(merged, h) => Keeps(merged', h)
        /\ \A n : Has(merged, n) => Has(merged', n)
    BY <2>1, <2>2, LayerRows DEF OneRowEach
  <2>4. \A i \in 1..layered' : Has(merged', incoming'[i])
    BY <2>1, <2>3 DEF MergeInv
  <2>5. MergeInv'
    BY <2>1, <2>4 DEF MergeInv
  <2>6. EditsInv'
    BY <2>1, <2>3 DEF EditsInv, Keeps
  <2> QED BY <1>1, <2>1, <2>3, <2>5, <2>6 DEF OneRowEach, OnePerCompany, PushInv, Fit
<1>4. CASE OpenMaster
  <2>1. /\ step = "merge" /\ layered = Len(incoming) /\ master' = {} /\ step' = "write"
        /\ UNCHANGED <<backup, projected, variable, incoming, merged, layered, byHand, safe, torn, cut>>
    BY <1>4 DEF OpenMaster
  <2>2. MergeInv'
    BY <1>1, <2>1 DEF MergeInv
  <2>3. EditsInv'
    BY <2>1 DEF EditsInv, Keeps
  <2> QED BY <2>1, <2>2, <2>3 DEF OneRowEach, OnePerCompany, PushInv, Fit
<1>5. CASE WriteMaster
  <2>1. /\ step = "write" /\ step' = "validate" /\ master' = merged /\ merged' = {}
        /\ layered' = 0
        /\ UNCHANGED <<backup, projected, variable, incoming, byHand, safe, torn, cut>>
    BY <1>5 DEF WriteMaster
  <2>2. MergeInv'
    BY <2>1 DEF MergeInv
  <2>3. EditsInv'
    BY <2>1 DEF EditsInv, Keeps
  <2> QED BY <1>1, <2>1, <2>2, <2>3 DEF OneRowEach, OnePerCompany, PushInv, Fit
<1> QED BY <1>2, <1>3, <1>4, <1>5

(* A problem stops the target; only active rows without one are projected. *)
LEMMA ProjectStep ==
    ASSUME ListInv, Validate \/ Project
    PROVE  ListInv'
<1> USE DEF ListInv, Lists, Steps, bounds, observers, merging
<1>1. /\ UNCHANGED <<master, backup, variable, incoming, merged, layered, byHand, safe, torn>>
      /\ step \in {"validate", "project"} /\ step' \in {"project", "idle"}
      /\ step' = "project" => Problems(master) = {}
  BY DEF Validate, Project
<1>2. /\ cut' \subseteq cut /\ ("variable" \in cut => "variable" \in cut')
      /\ step' = "project" => "projection" \notin cut'
      /\ "projection" \in cut' \/ Fit(projected')
  <2>1. CASE Validate
    BY <2>1 DEF Validate, PushInv, Fit
  <2>2. CASE Project
    BY <2>2 DEF Project, PushInv, Fit, Active, Problems
  <2> QED BY <2>1, <2>2
<1>3. EditsInv'
  BY <1>1 DEF EditsInv, Keeps
<1>4. PushInv'
  BY <1>1, <1>2 DEF PushInv, Fit, Problems
<1>5. Lists' /\ OneRowEach' /\ MergeInv'
  <2>1. Lists'
    BY <1>1, <1>2
  <2>2. OneRowEach' /\ MergeInv'
    BY <1>1 DEF OneRowEach, OnePerCompany, MergeInv
  <2> QED BY <2>1, <2>2
<1> QED BY <1>3, <1>4, <1>5

(* A death tears the master only while it is written.                      *)
LEMMA DieStep ==
    ASSUME ListInv, Die
    PROVE  ListInv'
<1> USE DEF ListInv, Lists, Steps, bounds
<1>1. /\ step' = "idle" /\ merged' = {} /\ layered' = 0
      /\ UNCHANGED <<variable, incoming, byHand>>
  BY DEF Die
<1>2. Len(incoming) \in Nat
  BY LenProperties
<1>3. CASE step = "copy"
  <2>1. /\ backup' \in SUBSET master \/ backup' = backup
        /\ safe' => backup' = backup /\ safe
        /\ safe' \in BOOLEAN
        /\ UNCHANGED <<master, projected, torn, cut>>
    <3>1. DieCopying
      BY <1>3 DEF Die, DieWriting, DieProjecting
    <3>2. CASE backup' \in SUBSET master /\ safe' = FALSE
      BY <3>1, <3>2 DEF DieCopying
    <3>3. CASE UNCHANGED <<backup, safe>>
      BY <3>1, <3>3 DEF DieCopying
    <3> QED BY <3>1, <3>2, <3>3 DEF DieCopying
  <2>2. EditsInv'
    BY <1>1, <1>3, <2>1 DEF EditsInv, Keeps
  <2>3. OneRowEach' /\ Lists'
    <3>1. OneRowEach'
      BY <1>1, <2>1 DEF OneRowEach, OnePerCompany
    <3>2. safe' \in BOOLEAN /\ torn' \in BOOLEAN
      BY <2>1
    <3>3. Lists'
      BY <1>1, <1>2, <2>1, <3>2
    <3> QED BY <3>1, <3>3
  <2> QED BY <1>1, <2>1, <2>2, <2>3 DEF MergeInv, PushInv, Fit
<1>4. CASE step = "write"
  <2>1. /\ master' \in SUBSET merged /\ torn' /\ torn' \in BOOLEAN
        /\ UNCHANGED <<backup, projected, safe, cut>>
    BY <1>4 DEF Die, DieCopying, DieWriting, DieProjecting
  <2>2. EditsInv'
    BY <1>1, <2>1 DEF EditsInv, Keeps
  <2>3. OneRowEach' /\ Lists'
    <3>1. OneRowEach'
      BY <1>1, <2>1 DEF OneRowEach, OnePerCompany
    <3>2. safe' \in BOOLEAN /\ torn' \in BOOLEAN
      BY <2>1
    <3>3. Lists'
      BY <1>1, <1>2, <2>1, <3>2
    <3> QED BY <3>1, <3>3
  <2> QED BY <1>1, <2>1, <2>2, <2>3 DEF MergeInv, PushInv, Fit
<1>5. CASE step = "project"
  <2>1. /\ UNCHANGED <<master, backup, safe, torn>>
        /\ \/ projected' \in SUBSET Active(master) /\ cut' = cut
           \/ cut' = cut \cup {"projection"}
    BY <1>5 DEF Die, DieCopying, DieWriting, DieProjecting
  <2>2. EditsInv'
    BY <1>1, <1>5, <2>1 DEF EditsInv, Keeps
  <2>3. "projection" \in cut' \/ Fit(projected')
    BY <1>5, <2>1 DEF PushInv, Fit, Active, Problems
  <2>4. OneRowEach' /\ Lists'
    <3>1. OneRowEach'
      BY <1>1, <2>1 DEF OneRowEach, OnePerCompany
    <3>2. cut' \subseteq {"projection", "variable"}
      BY <2>1
    <3>3. safe' \in BOOLEAN /\ torn' \in BOOLEAN
      BY <2>1
    <3>4. Lists'
      BY <1>1, <1>2, <2>1, <3>2, <3>3
    <3> QED BY <3>1, <3>4
  <2>5. PushInv'
    <3>1. "variable" \in cut => "variable" \in cut'
      BY <2>1
    <3> QED BY <1>1, <2>1, <2>3, <3>1 DEF PushInv, Fit
  <2>6. MergeInv'
    BY <1>1 DEF MergeInv
  <2> QED BY <2>2, <2>4, <2>5, <2>6
<1>6. CASE step \notin {"copy", "write", "project"}
  <2>1. UNCHANGED <<master, backup, projected, safe, torn, cut>>
    BY <1>6 DEF Die, DieCopying, DieWriting, DieProjecting
  <2>2. EditsInv'
    BY <1>1, <1>6, <2>1 DEF EditsInv, Keeps
  <2>3. OneRowEach' /\ Lists'
    BY <1>2, <1>1, <2>1 DEF OneRowEach, OnePerCompany
  <2> QED BY <1>1, <2>1, <2>2, <2>3 DEF MergeInv, PushInv, Fit
<1> QED BY <1>3, <1>4, <1>5, <1>6

(* The invariant holds through every update, edit, restore and death.      *)
THEOREM ListHolds == Spec => []ListInv
<1>1. Init => ListInv
  <2> SUFFICES ASSUME Init PROVE ListInv
    OBVIOUS
  <2>1. incoming \in Seq(Row) /\ Len(incoming) \in Nat
    BY InventoriesAssumption, LenProperties DEF Init
  <2>2. Lists
    <3>1. safe \in BOOLEAN /\ torn \in BOOLEAN
      BY DEF Init
    <3> QED BY <2>1, <3>1 DEF Init, Lists, Steps
  <2>3. OneRowEach /\ EditsInv
    BY DEF Init, OneRowEach, OnePerCompany, EditsInv
  <2>4. MergeInv /\ PushInv
    BY DEF Init, MergeInv, PushInv, Fit
  <2> QED BY <2>2, <2>3, <2>4 DEF ListInv
<1>2. ListInv /\ [Next]_vars => ListInv'
  <2>1. ASSUME ListInv, UNCHANGED vars PROVE ListInv'
    BY <2>1 DEF vars, files, merging, bounds, observers, ListInv, Lists, OneRowEach,
       OnePerCompany, EditsInv, Keeps, MergeInv, Has, PushInv, Fit, Problems
  <2> QED BY <2>1, OwnerStep, CopyStep, MergeStep, ProjectStep, DieStep DEF Next, Update
<1> QED BY <1>1, <1>2, PTL DEF Spec

-----------------------------------------------------------------------------
(* No number of updates undoes what was edited by hand, as long as none    *)
(* died while it wrote the master.                                         *)
THEOREM TheMasterWins == Spec => []MasterWins
<1>1. ListInv => MasterWins
  BY DEF ListInv, EditsInv, MasterWins
<1> QED BY <1>1, ListHolds, PTL

(* When one died there, a safe backup still has every edit.                *)
THEOREM EditsAreSafe == Spec => []EditsRecoverable
<1>1. ListInv => EditsRecoverable
  BY DEF ListInv, EditsInv, EditsRecoverable
<1> QED BY <1>1, ListHolds, PTL

(* After a merge every company discovered is in the list, once, and        *)
(* layering the same row again changes nothing.                            *)
THEOREM TheMergeSettles == Spec => []MergeSettles
<1>1. ListInv => MergeSettles
  <2> SUFFICES ASSUME ListInv, step = "validate", NEW i \in DOMAIN incoming
               PROVE  /\ Cardinality(Of(master, incoming[i].company)) = 1
                      /\ Layer(master, incoming[i]) = master
    BY DEF MergeSettles
  <2>1. incoming[i] \in Row
    BY LenProperties DEF ListInv, Lists
  <2>2. Has(master, incoming[i])
    BY DEF ListInv, MergeInv
  <2> QED BY <2>1, <2>2, LayerSettles DEF ListInv, Lists, OneRowEach
<1> QED BY <1>1, ListHolds, PTL

(* The variable holds only active companies and no bad ref.                *)
THEOREM ThePushIsFit == Spec => []PushedListIsFit
<1>1. ListInv => PushedListIsFit
  BY DEF ListInv, PushInv, Fit, PushedListIsFit
<1> QED BY <1>1, ListHolds, PTL
-----------------------------------------------------------------------------
(* The rest of the types: the bounds, and the projections of the list.     *)
BoundsInv ==
    /\ projected \in SUBSET Row /\ variable \in SUBSET Row
    /\ incoming \in Inventories
    /\ updates \in 0..MaxUpdates /\ edits \in 0..MaxEdits

(* The variables keep their types: the master, the backup and what a merge *)
(* builds are lists of rows with one row a company, wherever an update     *)
(* dies.                                                                   *)
THEOREM TypeCorrect == Spec => []TypeOK
<1>1. Init => BoundsInv
  BY BoundsAssumption DEF Init, BoundsInv
<1>2. ListInv /\ BoundsInv /\ [Next]_vars => BoundsInv'
  <2> SUFFICES ASSUME ListInv, BoundsInv, [Next]_vars PROVE BoundsInv'
    OBVIOUS
  <2> USE BoundsAssumption DEF ListInv, Lists, BoundsInv, files, bounds, observers, merging
  <2>1. ASSUME NEW r \in Row, EditByHand(r) PROVE BoundsInv'
    BY <2>1 DEF EditByHand
  <2>2. CASE Discovered \/ Restore \/ Push
    BY <2>2 DEF Discovered, Restore, Push
  <2>3. CASE StartUpdate \/ Copy \/ Read
    BY <2>3 DEF StartUpdate, Copy, Read
  <2>4. CASE Merge \/ OpenMaster \/ WriteMaster
    BY <2>4 DEF Merge, OpenMaster, WriteMaster
  <2>5. CASE Validate \/ Project \/ Die
    <3>1. CASE Validate \/ Project
      BY <2>5, <3>1 DEF Validate, Project, Active
    <3>2. CASE DieProjecting
      <4>1. ASSUME NEW r \in Row PROVE Cut(r) \subseteq Row
        <5>1. /\ [r EXCEPT !.site = FALSE] \in Row
              /\ [r EXCEPT !.active = FALSE, !.site = FALSE] \in Row
          BY DEF Row
        <5>2. \A b \in BadBoard : [r EXCEPT !.board = b] \in Row
          BY BoardAssumption DEF Row
        <5> QED BY <5>1, <5>2 DEF Cut
      <4>2. projected' \subseteq Row
        <5>1. master \subseteq Row /\ Active(master) \subseteq master
          BY DEF Active
        <5>2. PICK rows \in SUBSET Active(master) :
                \/ projected' = rows
                \/ \E r \in Active(master) : \E c \in Cut(r) : projected' = rows \cup {c}
          BY <3>2 DEF DieProjecting
        <5>3. \A r \in Active(master) : Cut(r) \subseteq Row
          BY <4>1, <5>1
        <5> QED BY <5>1, <5>2, <5>3
      <4>3. UNCHANGED <<variable, incoming, updates, edits>>
        BY <2>5, <3>2 DEF DieProjecting, Die, Validate, Project
      <4> QED BY <4>2, <4>3
    <3>3. CASE Die /\ step # "project"
      BY <3>3 DEF Die, DieCopying, DieWriting, DieProjecting
    <3> QED BY <2>5, <3>1, <3>2, <3>3 DEF Die, DieCopying, DieWriting, DieProjecting
  <2>6. CASE UNCHANGED vars
    BY <2>6 DEF vars
  <2> QED BY <2>1, <2>2, <2>3, <2>4, <2>5, <2>6 DEF Next, Update
<1>3. ListInv /\ BoundsInv => TypeOK
  <2> SUFFICES ASSUME ListInv, BoundsInv PROVE TypeOK
    OBVIOUS
  <2>1. Len(incoming) \in Nat /\ layered \in 0..Len(incoming)
    BY LenProperties DEF ListInv, Lists
  <2> QED BY <2>1 DEF ListInv, Lists, BoundsInv, OneRowEach, OnePerCompany, TypeOK
<1> QED BY <1>1, <1>2, <1>3, ListHolds, PTL DEF Spec
=============================================================================
