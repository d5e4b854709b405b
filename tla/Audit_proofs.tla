---------------------------- MODULE Audit_proofs ----------------------------
(* Proofs about Audit, for every site a company may have, every table of   *)
(* ATS and every number of guesses: what was seen is judged, the crawl     *)
(* stops, the probe is thorough, and every look is progress.               *)
EXTENDS Audit, FiniteSetTheorems, SequenceTheorems, WellFoundedInduction, TLAPS

-----------------------------------------------------------------------------
(* The nth of the links.  A finite set that is ordered by numbers has a    *)
(* member of each rank: the first rank without one would come right after  *)
(* a member i, and the least of those above i has it.                      *)
LEMMA LeastOf ==
    ASSUME NEW F, NEW f \in [F -> Nat], NEW G \in SUBSET F, G # {}
    PROVE  \E i \in G : \A k \in G : f[i] <= f[k]
<1> DEFINE T == {f[i] : i \in G}
<1>1. T \in SUBSET Nat /\ T # {}
  OBVIOUS
<1>2. PICK t \in T : \A u \in T : ~(<<u, t>> \in OpToRel(<, Nat))
  <2> HIDE DEF T
  <2> QED BY Zenon, <1>1, WFMin, NatLessThanWellFounded
<1>3. \A u \in Nat, v \in Nat : u < v => <<u, v>> \in OpToRel(<, Nat)
  BY Zenon DEF OpToRel
<1>4. \A u \in T : ~(u < t)
  BY <1>1, <1>2, <1>3
<1>5. PICK i \in G : t = f[i]
  BY <1>2
<1> QED BY <1>1, <1>4, <1>5

RankIn(F, f, i) == Cardinality({k \in F : f[k] <= f[i]})

LEMMA NthExists ==
    ASSUME NEW F, IsFiniteSet(F), NEW f \in [F -> Nat],
           \A i, k \in F : f[i] = f[k] => i = k,
           NEW n \in 1..Cardinality(F)
    PROVE  \E i \in F : RankIn(F, f, i) = n
<1> DEFINE UpTo(i) == {k \in F : f[k] <= f[i]}
           Gaps == {m \in 1..Cardinality(F) : \A i \in F : Cardinality(UpTo(i)) # m}
<1>1. Cardinality(F) \in Nat
  BY FS_CardinalityType
<1>2. \A i \in F : UpTo(i) \in SUBSET F /\ IsFiniteSet(UpTo(i))
  BY FS_Subset
<1>3. ASSUME Gaps # {} PROVE FALSE
  <2>1. Gaps \in SUBSET Nat
    BY <1>1
  <2>2. PICK m \in Gaps : \A u \in Gaps : m <= u
    <3>1. [u \in Gaps |-> u] \in [Gaps -> Nat]
      BY <2>1
    <3> HIDE DEF Gaps
    <3>2. \E m \in Gaps : \A u \in Gaps : [v \in Gaps |-> v][m] <= [v \in Gaps |-> v][u]
      BY <1>3, <3>1, LeastOf
    <3> QED BY <3>2
  <2>3. m \in 1..Cardinality(F) /\ \A i \in F : Cardinality(UpTo(i)) # m
    BY <2>2
  <2>4. CASE m = 1
    <3>1. F # {}
      BY <2>3, FS_EmptySet
    <3>2. PICK i \in F : \A k \in F : f[i] <= f[k]
      BY <3>1, LeastOf
    <3>3. UpTo(i) = {i}
      BY <3>2
    <3> QED BY <2>3, <2>4, <3>3, FS_Singleton
  <2>5. CASE m > 1
    <3>1. m - 1 \in 1..Cardinality(F) /\ m - 1 \notin Gaps
      BY <1>1, <2>1, <2>2, <2>3, <2>5
    <3>2. PICK i \in F : Cardinality(UpTo(i)) = m - 1
      BY <3>1
    <3>3. F \ UpTo(i) # {}
      <4>1. UpTo(i) # F
        BY <1>1, <2>3, <3>2
      <4> QED BY <1>2, <4>1
    <3>4. PICK j \in F \ UpTo(i) : \A k \in F \ UpTo(i) : f[j] <= f[k]
      <4> DEFINE G == F \ UpTo(i)
      <4>1. G \in SUBSET F /\ G # {}
        BY <3>3
      <4> HIDE DEF G
      <4>2. \E j \in G : \A k \in G : f[j] <= f[k]
        BY <4>1, LeastOf
      <4> QED BY <4>2 DEF G
    <3>5. UpTo(j) = UpTo(i) \cup {j} /\ j \notin UpTo(i)
      <4>1. f[j] \in Nat /\ f[i] \in Nat /\ f[j] > f[i] /\ j \in F
        BY <3>4
      <4>2. \A k \in UpTo(j) : k \in UpTo(i) \cup {j}
        <5> SUFFICES ASSUME NEW k \in F, f[k] <= f[j], ~(f[k] <= f[i])
                     PROVE  k = j
          OBVIOUS
        <5>1. f[j] <= f[k] /\ f[k] \in Nat
          BY <3>4
        <5> QED BY <4>1, <5>1
      <4>3. \A k \in UpTo(i) : k \in UpTo(j)
        BY <4>1
      <4> QED BY <4>1, <4>2, <4>3, <3>4
    <3>6. Cardinality(UpTo(j)) = (m - 1) + 1
      <4>1. i \in F /\ IsFiniteSet(UpTo(i))
        BY <1>2
      <4> HIDE DEF UpTo
      <4> QED BY <3>2, <3>5, <4>1, FS_AddElement
    <3> QED BY <2>3, <3>4, <3>6
  <2> QED BY <2>3, <2>4, <2>5
<1> QED BY <1>3 DEF RankIn

(* The candidates are pages, and not too many.                             *)
LEMMA OrderedType ==
    ASSUME NEW links \in Seq(Link)
    PROVE  Ordered(links) \in Seq(Page)
<1> DEFINE place(i) == IF links[i].kind = "ats" THEN i ELSE Len(links) + i
           wanted == {i \in DOMAIN links : links[i].kind # "partner"}
           firsts == {i \in wanted : \A k \in wanted :
                         links[k].to = links[i].to => place(i) <= place(k)}
           upTo(i) == {k \in firsts : place(k) <= place(i)}
           f == [i \in firsts |-> place(i)]
           nth(n) == links[CHOOSE i \in firsts : Cardinality(upTo(i)) = n].to
<1>1. /\ Len(links) \in Nat /\ DOMAIN links = 1..Len(links)
      /\ \A i \in DOMAIN links : links[i] \in Link
  BY LenProperties, ElementOfSeq
<1>2. firsts \in SUBSET (1..Len(links)) /\ IsFiniteSet(firsts)
  <2>1. firsts \in SUBSET (1..Len(links))
    BY <1>1
  <2>2. IsFiniteSet(1..Len(links))
    BY <1>1, FS_Interval
  <2> HIDE DEF firsts
  <2> QED BY <2>1, <2>2, FS_Subset
<1>3. f \in [firsts -> Nat] /\ \A i, k \in firsts : f[i] = f[k] => i = k
  BY <1>1, <1>2
<1>4. Cardinality(firsts) \in Nat
  BY <1>2, FS_CardinalityType
<1>5. ASSUME NEW n \in 1..Cardinality(firsts)
      PROVE  nth(n) \in Page
  <2>1. \E i \in firsts : RankIn(firsts, f, i) = n
    <3> HIDE DEF f, firsts
    <3>1. /\ IsFiniteSet(firsts) /\ f \in [firsts -> Nat] /\ n \in 1..Cardinality(firsts)
          /\ \A i, k \in firsts : f[i] = f[k] => i = k
      BY <1>2, <1>3
    <3> QED BY ONLY <3>1, NthExists
  <2>2. \A i \in firsts : RankIn(firsts, f, i) = Cardinality(upTo(i))
    <3>1. \A i \in firsts : {k \in firsts : f[k] <= f[i]} = upTo(i)
      OBVIOUS
    <3> QED BY <3>1 DEF RankIn
  <2> HIDE DEF f, firsts
  <2>3. \E i \in firsts : Cardinality(upTo(i)) = n
    BY <2>1, <2>2
  <2> HIDE DEF upTo
  <2>4. (CHOOSE i \in firsts : Cardinality(upTo(i)) = n) \in firsts
    BY <2>3
  <2> QED BY <1>1, <1>2, <2>4 DEF Link
<1> HIDE DEF firsts, nth
<1>6. [n \in 1..Cardinality(firsts) |-> nth(n)] \in Seq(Page)
  BY <1>4, <1>5
<1> QED BY <1>6 DEF Ordered, firsts, nth

LEMMA CandidatesType ==
    ASSUME NEW links \in Seq(Link)
    PROVE  Candidates(links) \in Seq(Page) /\ Len(Candidates(links)) <= MaxHops
<1> DEFINE all == Ordered(links)
           m == IF Len(all) < MaxHops THEN Len(all) ELSE MaxHops
<1>1. all \in Seq(Page) /\ Len(all) \in Nat
  BY OrderedType, LenProperties
<1>2. m \in Nat /\ m <= Len(all) /\ m <= MaxHops /\ MaxHops \in Nat
  BY <1>1, HopsAssumption
<1> HIDE DEF all, m
<1>3. \A i \in 1..m : all[i] \in Page
  BY <1>1, <1>2, ElementOfSeq
<1>4. SubSeq(all, 1, m) \in Seq(Page) /\ Len(SubSeq(all, 1, m)) <= MaxHops
  BY <1>2, <1>3, SubSeqProperties
<1> QED BY <1>4 DEF Candidates, all, m
-----------------------------------------------------------------------------
(* The invariant: where the tab can be open, what was seen is in hits,     *)
(* where the crawl can be with a hit in hand, and how far the probe is.    *)
InTab ==
    /\ at # Nowhere => pc \in {"find", "careers", "scan", "text", "links", "hop",
                               "deepscan", "deeptext", "close"}
    /\ pc = "careers" => careers # Nowhere
    /\ pc \in {"hop", "deepscan", "deeptext"} => queue # <<>>

Looked ==
    /\ seen = Range(hits)
    /\ pc = "home" => hits = <<>> /\ verdict = Pending

(* A page more is loaded only with a hit that came since the last look,    *)
(* and the look at that page is the last.                                  *)
Pages ==
    /\ extra <= 1
    /\ extra = 1 => hits # <<>>
    /\ pc \in {"home", "find", "careers", "text", "links", "hop", "deeptext"} => extra = 0

Probing ==
    /\ pc # "done" => found = 0
    /\ pc \notin {"probe", "done"} => asked = 0
    /\ found # 0 => site.answers[found] = "postings"
    /\ \A n \in 1..asked \ {found} : site.answers[n] = "postings" => n \in failedAsk
    /\ pc = "done" /\ asked > 0 /\ found = 0 => asked = Len(site.answers)

AuditInv == TypeOK /\ InTab /\ Looked /\ Pages /\ NothingSeenIsLost /\ Probing

LEMMA SiteType ==
    ASSUME TypeOK
    PROVE  /\ site.home \in Page \cup {Nowhere} /\ site.link \in Page \cup {Nowhere}
           /\ site.map \in Page \cup {Nowhere} /\ site.path \in Page \cup {Nowhere}
           /\ site.calls \in [Page -> SUBSET Hit] /\ site.elements \in [Page -> Seq(Hit)]
           /\ site.text \in [Page -> SUBSET Hit] /\ site.links \in [Page -> Seq(Link)]
           /\ site.answers \in Seq(Answer) /\ Len(site.answers) \in Nat
<1>1. site \in Site
  BY SitesAssumption DEF TypeOK
<1>2. site.answers \in Seq(Answer)
  BY <1>1 DEF Site
<1> QED BY <1>1, <1>2, LenProperties DEF Site

LEMMA NoteEffect ==
    ASSUME AuditInv, NEW new \in Seq(Seen), Note(new)
    PROVE  /\ hits' \in Seq(Seen) /\ seen' = Range(hits') /\ seen' \in SUBSET Seen
           /\ hits # <<>> => hits' # <<>>
<1>1. hits \in Seq(Seen) /\ seen = Range(hits) /\ hits' = hits \o new
      /\ seen' = seen \cup Range(new)
  BY DEF AuditInv, TypeOK, Looked, Note
<1>2. /\ hits' \in Seq(Seen) /\ Len(hits') = Len(hits) + Len(new)
      /\ \A i \in 1..Len(hits) + Len(new) : hits'[i] =
            IF i <= Len(hits) THEN hits[i] ELSE new[i - Len(hits)]
  BY <1>1, ConcatProperties
<1>3. /\ Len(hits) \in Nat /\ Len(new) \in Nat
      /\ DOMAIN hits = 1..Len(hits) /\ DOMAIN new = 1..Len(new)
      /\ DOMAIN hits' = 1..(Len(hits) + Len(new))
  BY <1>1, <1>2, LenProperties
<1>4. Range(hits') = Range(hits) \cup Range(new)
  <2>1. \A x \in Range(hits') : x \in Range(hits) \cup Range(new)
    <3> SUFFICES ASSUME NEW i \in DOMAIN hits'
                 PROVE  hits'[i] \in Range(hits) \cup Range(new)
      BY DEF Range
    <3>1. CASE i <= Len(hits)
      BY <3>1, <1>2, <1>3 DEF Range
    <3>2. CASE ~(i <= Len(hits))
      <4>1. i - Len(hits) \in DOMAIN new
        BY <3>2, <1>3
      <4> QED BY <3>2, <4>1, <1>2, <1>3 DEF Range
    <3> QED BY <3>1, <3>2
  <2>2. \A x \in Range(hits) : x \in Range(hits')
    BY <1>2, <1>3 DEF Range
  <2>3. \A x \in Range(new) : x \in Range(hits')
    <3> SUFFICES ASSUME NEW i \in DOMAIN new PROVE new[i] \in Range(hits')
      BY DEF Range
    <3>1. i + Len(hits) \in DOMAIN hits' /\ hits'[i + Len(hits)] = new[i]
      BY <1>2, <1>3
    <3> QED BY <3>1 DEF Range
  <2> QED BY <2>1, <2>2, <2>3
<1>5. Range(hits') \in SUBSET Seen
  BY <1>2, LenProperties DEF Range
<1>6. hits # <<>> => hits' # <<>>
  <2> SUFFICES ASSUME hits # <<>>, hits' = <<>> PROVE FALSE
    OBVIOUS
  <2>1. Len(hits) > 0 /\ Len(hits') = 0
    BY <1>1, <1>3, EmptySeq
  <2> QED BY <2>1, <1>2, <1>3
<1> QED BY <1>1, <1>2, <1>4, <1>5, <1>6

-----------------------------------------------------------------------------
(* What the steps of the browser have in common: the probe has not begun.  *)
LEMMA ProbeLater ==
    ASSUME AuditInv, UNCHANGED <<site, asked, found, failedAsk>>,
           pc \notin {"probe", "done"}, pc' \notin {"probe", "done"}
    PROVE  Probing' /\ asked' \in 0..Len(site'.answers) /\ found' \in 0..asked'
           /\ failedAsk' \in SUBSET (1..asked')
BY DEF AuditInv, TypeOK, Probing

LEMMA RequestStep ==
    ASSUME AuditInv, NEW h \in Hit, Request(h)
    PROVE  AuditInv'
<1> DEFINE new == <<[hit |-> h, how |-> "request", on |-> at]>>
<1>1. at \in Page /\ new \in Seq(Seen)
  <2>1. at \in Page
    BY DEF Request, AuditInv, TypeOK
  <2>2. [hit |-> h, how |-> "request", on |-> at] \in Seen
    BY <2>1 DEF Seen
  <2> QED BY <2>1, <2>2
<1>2. Note(new)
  BY DEF Request
<1> HIDE DEF new
<1>3. /\ hits' \in Seq(Seen) /\ seen' = Range(hits') /\ seen' \in SUBSET Seen
      /\ hits # <<>> => hits' # <<>>
  BY <1>1, <1>2, NoteEffect
<1>4. /\ UNCHANGED <<site, pc, at, careers, queue, verdict, asked, found, extra, failedAsk>>
      /\ fired' \in SUBSET Hit
      /\ pc \in {"find", "careers", "scan", "text", "links", "hop", "deepscan", "deeptext", "close"}
  BY DEF Request, AuditInv, TypeOK, InTab
<1>5. TypeOK'
  BY <1>3, <1>4 DEF AuditInv, TypeOK
<1>6. InTab' /\ Looked' /\ NothingSeenIsLost' /\ Probing'
  BY <1>3, <1>4, ProbeLater DEF AuditInv, InTab, Looked, NothingSeenIsLost
<1>7. Pages'
  BY <1>3, <1>4 DEF AuditInv, Pages
<1> QED BY <1>5, <1>6, <1>7 DEF AuditInv

(* A load, at a step without a page more so far.                           *)
LEMMA GotoStep ==
    ASSUME AuditInv, NEW p \in Page,
           UNCHANGED <<site, hits, careers, queue, verdict, asked, found, seen, failedAsk>>,
           at' \in {p, at}, fired' \in SUBSET Hit,
           extra' = IF hits = <<>> THEN extra ELSE extra + 1,
           \/ pc = "home" /\ pc' = "find"
           \/ pc = "careers" /\ pc' = "scan"
           \/ pc = "hop" /\ pc' \in {"deepscan", "close"}
    PROVE  AuditInv'
<1>1. extra = 0 /\ (pc = "home" => hits = <<>>)
  BY DEF AuditInv, Pages, Looked
<1>2. /\ extra' \in {0, 1}
      /\ extra' = 1 => hits' # <<>>
      /\ pc' = "find" => extra' = 0
  <2>1. CASE hits = <<>>
    BY <2>1, <1>1
  <2>2. CASE hits # <<>>
    BY <2>2, <1>1
  <2> QED BY <2>1, <2>2
<1>3. TypeOK'
  <2>1. pc' \in {"find", "scan", "deepscan", "close"} /\ extra' \in Nat
    BY <1>2
  <2> QED BY <2>1 DEF AuditInv, TypeOK
<1>4. InTab' /\ Looked' /\ NothingSeenIsLost' /\ Probing'
  BY ProbeLater DEF AuditInv, InTab, Looked, NothingSeenIsLost
<1>5. Pages'
  BY <1>2 DEF Pages
<1> QED BY <1>3, <1>4, <1>5 DEF AuditInv

(* A look: what it finds is noted, and a page is opened after it only if   *)
(* there is still nothing.                                                 *)
LEMMA LookStep ==
    ASSUME AuditInv, NEW new \in Seq(Seen), Note(new),
           UNCHANGED <<site, at, fired, verdict, asked, found, extra, failedAsk>>,
           \/ /\ pc = "scan" /\ pc' = "text" /\ hits' = <<>>
              /\ UNCHANGED <<careers, queue>>
           \/ /\ pc = "deepscan" /\ pc' = "deeptext" /\ hits' = <<>>
              /\ UNCHANGED <<careers, queue>>
           \/ pc \in {"scan", "text", "deepscan", "deeptext"} /\ Decide(hits')
    PROVE  AuditInv'
<1>1. /\ hits' \in Seq(Seen) /\ seen' = Range(hits') /\ seen' \in SUBSET Seen
      /\ hits # <<>> => hits' # <<>>
  BY NoteEffect
<1>2. /\ careers' \in Page \cup {Nowhere}
      /\ queue' \in Seq(Page) /\ Len(queue') <= MaxHops
      /\ pc' \in {"text", "deeptext", "links", "hop", "close"}
      /\ pc' # "close" => hits' = <<>>
      /\ pc' \in {"hop", "deeptext"} => queue' # <<>>
  <2>1. /\ careers \in Page \cup {Nowhere}
        /\ queue \in Seq(Page) /\ Len(queue) <= MaxHops
        /\ pc \in {"deepscan", "deeptext"} => queue # <<>>
    BY DEF AuditInv, TypeOK, InTab
  <2>2. CASE pc \in {"scan", "text"} /\ Decide(hits')
    BY <2>1, <2>2 DEF Decide
  <2>3. CASE pc \in {"deepscan", "deeptext"} /\ Decide(hits')
    <3>1. /\ Head(queue) \in Page /\ Tail(queue) \in Seq(Page)
          /\ Len(Tail(queue)) = Len(queue) - 1 /\ Len(queue) \in Nat
      BY <2>1, <2>3, HeadTailProperties, LenProperties
    <3>2. Len(Tail(queue)) <= MaxHops
      BY <2>1, <3>1, HopsAssumption
    <3>3. CASE hits' = <<>>
      BY <2>1, <2>3, <3>1, <3>2, <3>3 DEF Decide, GoesDeeper
    <3>4. CASE hits' # <<>>
      BY <2>1, <2>3, <3>1, <3>4 DEF Decide, GoesDeeper
    <3> QED BY <3>3, <3>4
  <2>4. CASE ~Decide(hits')
    BY <2>1, <2>4
  <2> QED BY <2>2, <2>3, <2>4
<1>3. extra \in {0, 1} /\ (extra = 1 => hits' # <<>>)
  BY <1>1 DEF AuditInv, TypeOK, Pages
<1>4. pc \in {"scan", "text", "deepscan", "deeptext"}
  OBVIOUS
<1>5. TypeOK'
  BY <1>1, <1>2, <1>3 DEF AuditInv, TypeOK
<1>6. InTab' /\ Looked' /\ NothingSeenIsLost' /\ Probing'
  BY <1>1, <1>2, <1>4, ProbeLater DEF AuditInv, InTab, Looked, NothingSeenIsLost
<1>7. Pages'
  BY <1>2, <1>3 DEF Pages
<1> QED BY <1>5, <1>6, <1>7 DEF AuditInv

LEMMA SweepStep ==
    ASSUME AuditInv, Sweep
    PROVE  AuditInv'
<1> DEFINE all == IF at = Nowhere THEN <<>> ELSE site.elements[at]
           new == [i \in DOMAIN all |-> [hit |-> all[i], how |-> "element", on |-> at]]
<1>1. new \in Seq(Seen) /\ <<>> \in Seq(Seen)
  <2>1. all \in Seq(Hit) /\ at \in Page \cup {Nowhere}
    BY SiteType, EmptySeq DEF AuditInv, TypeOK
  <2>2. CASE at = Nowhere
    BY <2>2
  <2>3. CASE at \in Page
    <3> HIDE DEF all
    <3>1. Len(all) \in Nat /\ DOMAIN all = 1..Len(all) /\ \A i \in DOMAIN all : all[i] \in Hit
      BY <2>1, LenProperties, ElementOfSeq
    <3>2. \A i \in 1..Len(all) : [hit |-> all[i], how |-> "element", on |-> at] \in Seen
      BY <2>3, <3>1 DEF Seen
    <3> QED BY <3>1, <3>2
  <2> QED BY <2>1, <2>2, <2>3
<1>2. \/ Note(new)
      \/ Note(<<>>)
  BY DEF Sweep
<1>3. /\ UNCHANGED <<site, at, fired, verdict, asked, found, extra, failedAsk>>
      /\ pc \in {"scan", "deepscan"}
      /\ IF hits' = <<>>
         THEN pc' = (IF pc = "scan" THEN "text" ELSE "deeptext") /\ UNCHANGED <<careers, queue>>
         ELSE Decide(hits')
  BY DEF Sweep
<1> HIDE DEF new
<1>4. \E note \in Seq(Seen) : Note(note)
  BY <1>1, <1>2
<1> QED BY <1>3, <1>4, LookStep

LEMMA ReadTextStep ==
    ASSUME AuditInv, ReadText
    PROVE  AuditInv'
<1>1. \E note \in Seq(Seen) : Note(note)
  <2>1. CASE at # Nowhere /\ \E h \in Matches(site.text[at]) :
                Note(<<[hit |-> h, how |-> "text", on |-> at]>>)
    <3>1. at \in Page /\ site.text[at] \in SUBSET Hit
      BY <2>1, SiteType DEF AuditInv, TypeOK
    <3>2. PICK h \in Hit : Note(<<[hit |-> h, how |-> "text", on |-> at]>>)
      BY <2>1, <3>1 DEF Matches
    <3>3. [hit |-> h, how |-> "text", on |-> at] \in Seen
      BY <3>1 DEF Seen
    <3>4. <<[hit |-> h, how |-> "text", on |-> at]>> \in Seq(Seen)
      BY <3>3
    <3> QED BY <3>2, <3>4
  <2>2. CASE Note(<<>>)
    BY <2>2, EmptySeq
  <2> QED BY <2>1, <2>2 DEF ReadText
<1>2. /\ UNCHANGED <<site, at, fired, verdict, asked, found, extra, failedAsk>>
      /\ pc \in {"text", "deeptext"} /\ Decide(hits')
  BY DEF ReadText
<1> QED BY <1>1, <1>2, LookStep

LEMMA OpenStep ==
    ASSUME AuditInv, OpenHome \/ OpenCareers \/ Hop
    PROVE  AuditInv'
<1>1. /\ careers \in Page \cup {Nowhere} /\ queue \in Seq(Page)
      /\ pc = "hop" => queue # <<>>
  BY DEF AuditInv, TypeOK, InTab
<1>2. CASE OpenHome
  <2>1. site.home \in Page
    BY <1>2, SiteType DEF OpenHome, AuditInv
  <2> QED BY <1>2, <2>1, GotoStep DEF OpenHome, Goto, AuditInv, TypeOK
<1>3. CASE OpenCareers
  <2>1. CASE careers = Nowhere
    BY <1>3, <2>1 DEF OpenCareers, AuditInv, InTab
  <2>2. CASE careers \in Page
    BY <1>3, <2>2, GotoStep DEF OpenCareers, Goto, AuditInv, TypeOK
  <2> QED BY <1>1, <2>1, <2>2
<1>4. CASE Hop
  <2>1. Head(queue) \in Page
    BY <1>1, <1>4, HeadTailProperties DEF Hop
  <2> QED BY <1>4, <2>1, GotoStep DEF Hop, Goto, AuditInv, TypeOK
<1> QED BY <1>2, <1>3, <1>4

(* The careers page and the candidates are found without a load.           *)
LEMMA FindStep ==
    ASSUME AuditInv, FindCareers \/ ReadLinks
    PROVE  AuditInv'
<1>1. UNCHANGED <<site, at, fired, hits, verdict, asked, found, seen, extra, failedAsk>>
  BY DEF FindCareers, ReadLinks, observers
<1>2. CASE FindCareers
  <2>1. careers' \in Page \cup {Nowhere} /\ UNCHANGED queue
    BY <1>2, SiteType DEF FindCareers, AuditInv
  <2>2. /\ pc = "find" /\ pc' \in {"scan", "careers"}
        /\ pc' = "careers" => careers' # Nowhere
    BY <1>2 DEF FindCareers
  <2>3. TypeOK'
    BY <1>1, <2>1, <2>2 DEF AuditInv, TypeOK
  <2>4. InTab' /\ Looked' /\ NothingSeenIsLost' /\ Probing'
    BY <1>1, <2>2, ProbeLater DEF AuditInv, InTab, Looked, NothingSeenIsLost
  <2>5. Pages'
    BY <1>1, <2>2 DEF AuditInv, Pages
  <2> QED BY <2>3, <2>4, <2>5 DEF AuditInv
<1>3. CASE ReadLinks
  <2>1. queue' \in Seq(Page) /\ Len(queue') <= MaxHops /\ UNCHANGED careers
    <3>1. at # Nowhere => site.links[at] \in Seq(Link)
      BY SiteType DEF AuditInv, TypeOK
    <3>2. CASE at # Nowhere /\ queue' = Candidates(site.links[at])
      BY <1>3, <3>1, <3>2, CandidatesType DEF ReadLinks
    <3>3. CASE queue' = <<>>
      BY <1>3, <3>3, EmptySeq, HopsAssumption DEF ReadLinks
    <3> QED BY <1>3, <3>2, <3>3 DEF ReadLinks
  <2>2. /\ pc = "links" /\ pc' \in {"hop", "close"}
        /\ pc' = "hop" => queue' # <<>>
    BY <1>3 DEF ReadLinks
  <2>3. TypeOK'
    BY <1>1, <2>1, <2>2 DEF AuditInv, TypeOK
  <2>4. InTab' /\ Looked' /\ NothingSeenIsLost' /\ Probing'
    BY <1>1, <2>2, ProbeLater DEF AuditInv, InTab, Looked, NothingSeenIsLost
  <2>5. Pages'
    BY <1>1, <2>2 DEF AuditInv, Pages
  <2> QED BY <2>3, <2>4, <2>5 DEF AuditInv
<1> QED BY <1>2, <1>3

(* The verdict: the head of hits is there exactly if something was seen.   *)
LEMMA VerdictStep ==
    ASSUME AuditInv, NoDomain \/ Close \/ BrowserFails
    PROVE  AuditInv'
<1>1. /\ UNCHANGED <<site, hits, careers, queue, asked, found, seen, extra, failedAsk>>
      /\ pc \in {"home", "close"} /\ pc' = "closed" /\ at' \in {at, Nowhere}
      /\ fired' \in SUBSET Hit /\ (pc = "home" => at = Nowhere)
      /\ NoDomain => pc = "home"
      /\ at' = Nowhere
  BY DEF NoDomain, Close, BrowserFails, observers, AuditInv, TypeOK, InTab
<1>2. hits \in Seq(Seen) /\ seen = Range(hits)
  BY DEF AuditInv, TypeOK, Looked
<1>3. hits # <<>> => Head(hits).hit \in Hit /\ seen # {}
  <2> SUFFICES ASSUME hits # <<>> PROVE Head(hits).hit \in Hit /\ seen # {}
    OBVIOUS
  <2>1. Head(hits) \in Seen
    BY <1>2, HeadTailProperties
  <2>2. 1 \in DOMAIN hits
    BY <1>2, EmptySeq, LenProperties
  <2> QED BY <1>2, <2>1, <2>2 DEF Seen, Range
<1>4. hits = <<>> => seen = {}
  BY <1>2 DEF Range
<1>5. verdict' \in Verdict /\ NothingSeenIsLost'
  <2>1. CASE NoDomain
    <3>1. verdict' = Pending /\ hits = <<>>
      BY <2>1 DEF NoDomain, AuditInv, Looked
    <3>2. verdict'.ats = "N/A" /\ verdict' \in Verdict
      BY <3>1 DEF Pending, Verdict
    <3> QED BY <1>1, <1>4, <3>1, <3>2, AtsAssumption DEF NothingSeenIsLost
  <2>2. CASE BrowserFails
    <3>1. verdict' = [ats |-> "ERROR", token |-> NoToken]
      BY <2>2 DEF BrowserFails
    <3> QED BY <3>1 DEF Verdict, NothingSeenIsLost
  <2>3. CASE Close /\ hits = <<>>
    <3>1. verdict' \in [ats : {"Unknown", "N/A"}, token : {NoToken}]
      BY <2>3 DEF Close, Judge, FirstHit
    <3>2. verdict' \in Verdict /\ verdict'.ats \in {"Unknown", "N/A"}
      BY <3>1 DEF Verdict
    <3> QED BY <1>1, <1>4, <2>3, <3>2, AtsAssumption DEF NothingSeenIsLost
  <2>4. CASE Close /\ hits # <<>>
    <3>1. verdict' \in Hit
      BY <1>3, <2>4 DEF Close, Judge, FirstHit, Hit
    <3>2. verdict' \in Verdict /\ verdict'.ats \in Range(Ats)
      BY <3>1 DEF Verdict, Hit
    <3> QED BY <1>1, <1>3, <2>4, <3>2 DEF NothingSeenIsLost
  <2> QED BY <2>1, <2>2, <2>3, <2>4
<1>6. TypeOK'
  BY <1>1, <1>5 DEF AuditInv, TypeOK
<1>7. InTab' /\ Looked' /\ Probing'
  BY <1>1, ProbeLater DEF AuditInv, InTab, Looked
<1>8. Pages'
  BY <1>1 DEF AuditInv, Pages
<1> QED BY <1>5, <1>6, <1>7, <1>8 DEF AuditInv
-----------------------------------------------------------------------------
(* The probe.                                                              *)
LEMMA ProbeStep ==
    ASSUME AuditInv, Probe
    PROVE  AuditInv'
<1>1. /\ UNCHANGED <<site, at, fired, hits, careers, queue, seen, extra>>
      /\ pc \in {"closed", "probe"} /\ pc' \in {"probe", "done"}
  BY DEF Probe, StartProbe, Ask, AskFails, AfterFailure, Miss, observers
<1>2. /\ asked \in Nat /\ asked <= Len(site.answers) /\ Len(site.answers) \in Nat
      /\ found = 0 /\ failedAsk \in SUBSET (1..asked) /\ verdict \in Verdict
      /\ DOMAIN site.answers = 1..Len(site.answers)
      /\ pc = "closed" => asked = 0
      /\ \A n \in 1..asked : site.answers[n] = "postings" => n \in failedAsk
  <2>1. DOMAIN site.answers = 1..Len(site.answers) /\ Len(site.answers) \in Nat
    BY SiteType, LenProperties DEF AuditInv
  <2> QED BY <1>1, <2>1 DEF AuditInv, TypeOK, Probing
<1>3. /\ asked' \in 0..Len(site.answers) /\ found' \in 0..asked' /\ verdict' \in Verdict
      /\ failedAsk' \in SUBSET (1..asked')
      /\ Probing'
  <2>1. CASE StartProbe
    BY <1>1, <1>2, <2>1 DEF StartProbe, Probing, observers
  <2>2. CASE Ask
    <3>1. asked' = asked + 1 /\ asked' \in 1..Len(site.answers) /\ UNCHANGED failedAsk
      BY <1>2, <2>2 DEF Ask, observers
    <3>2. CASE site.answers[asked + 1] = "postings"
      <4>1. found' = asked + 1 /\ pc' = "done" /\ verdict' \in Hit
        BY <2>2, <3>2 DEF Ask, IsHit
      <4> QED BY <1>1, <1>2, <3>1, <3>2, <4>1 DEF Probing, Verdict
    <3>3. CASE site.answers[asked + 1] # "postings"
      <4>1. UNCHANGED <<found, pc, verdict>> /\ pc = "probe"
        BY <2>2, <3>3 DEF Ask, IsHit
      <4> QED BY <1>1, <1>2, <3>1, <3>3, <4>1 DEF Probing
    <3> QED BY <3>2, <3>3
  <2>3. CASE AskFails
    <3>1. /\ asked' = asked + 1 /\ asked' \in 1..Len(site.answers)
          /\ failedAsk' = failedAsk \cup {asked + 1}
          /\ UNCHANGED <<found, verdict>> /\ pc' = "probe"
      BY <1>2, <2>3 DEF AskFails, AfterFailure
    <3> QED BY <1>1, <1>2, <3>1 DEF Probing
  <2>4. CASE Miss
    BY <1>1, <1>2, <2>4 DEF Miss, Probing, observers
  <2> QED BY <2>1, <2>2, <2>3, <2>4 DEF Probe
<1>4. TypeOK'
  BY <1>1, <1>3 DEF AuditInv, TypeOK
<1>5. InTab' /\ Looked' /\ NothingSeenIsLost' /\ Pages'
  BY <1>1 DEF AuditInv, InTab, Looked, NothingSeenIsLost, Pages
<1> QED BY <1>3, <1>4, <1>5 DEF AuditInv

(* Wherever a step of the audit or of the probe fails, the invariant       *)
(* holds.                                                                  *)
THEOREM AuditHolds == Spec => []AuditInv
<1>1. Init => AuditInv
  <2> SUFFICES ASSUME Init PROVE AuditInv
    OBVIOUS
  <2>1. site \in Site
    BY SitesAssumption DEF Init
  <2>2. Len(site.answers) \in Nat
    BY <2>1, LenProperties DEF Site
  <2>3. TypeOK
    BY <2>2, HopsAssumption DEF Init, TypeOK, Pending, Verdict
  <2>4. InTab /\ Looked /\ Pages /\ NothingSeenIsLost /\ Probing
    BY DEF Init, InTab, Looked, Pages, NothingSeenIsLost, Probing, Range
  <2> QED BY <2>3, <2>4 DEF AuditInv
<1>2. AuditInv /\ [Next]_vars => AuditInv'
  <2> SUFFICES ASSUME AuditInv, [Next]_vars PROVE AuditInv'
    OBVIOUS
  <2>1. CASE Browse
    BY <2>1, OpenStep, FindStep, SweepStep, ReadTextStep, VerdictStep DEF Browse
  <2>2. CASE Probe
    BY <2>2, ProbeStep
  <2>3. ASSUME NEW h \in Hit, Request(h) PROVE AuditInv'
    BY <2>3, RequestStep
  <2>4. CASE UNCHANGED vars
    BY <2>4 DEF vars, observers, AuditInv, TypeOK, InTab, Looked, Pages, NothingSeenIsLost, Probing
  <2> QED BY <2>1, <2>2, <2>3, <2>4 DEF Next
<1> QED BY <1>1, <1>2, PTL DEF Spec

(* An ATS that showed on a page is in the verdict, whenever its request    *)
(* came and whichever looks failed.                                        *)
THEOREM NothingIsLost == Spec => []NothingSeenIsLost
<1>1. AuditInv => NothingSeenIsLost
  BY DEF AuditInv
<1> QED BY <1>1, AuditHolds, PTL

(* However many hops are allowed, at most one page is opened after the     *)
(* first sight of an ATS.                                                  *)
THEOREM CrawlStops == Spec => []OnePageMore
<1>1. AuditInv => OnePageMore
  BY DEF AuditInv, Pages, OnePageMore
<1> QED BY <1>1, AuditHolds, PTL

(* The probe misses only if no guess that was answered had postings.       *)
THEOREM TheProbeIsThorough == Spec => []ProbeIsThorough
<1>1. AuditInv => ProbeIsThorough
  BY DEF AuditInv, Probing, ProbeIsThorough
<1> QED BY <1>1, AuditHolds, PTL

-----------------------------------------------------------------------------
(* Progress.  What is left to do of an audit and its probe, where it       *)
(* stands: of a second hop three looks for each candidate.                 *)
Guesses == Len(site.answers)
Left ==
    CASE pc = "home" -> Guesses + 3 * MaxHops + 11
      [] pc = "find" -> Guesses + 3 * MaxHops + 10
      [] pc = "careers" -> Guesses + 3 * MaxHops + 9
      [] pc = "scan" -> Guesses + 3 * MaxHops + 8
      [] pc = "text" -> Guesses + 3 * MaxHops + 7
      [] pc = "links" -> Guesses + 3 * MaxHops + 6
      [] pc = "hop" -> Guesses + 3 * Len(queue) + 5
      [] pc = "deepscan" -> Guesses + 3 * Len(queue) + 4
      [] pc = "deeptext" -> Guesses + 3 * Len(queue) + 3
      [] pc = "close" -> Guesses + 3
      [] pc = "closed" -> Guesses + 2
      [] pc = "probe" -> Guesses - asked + 1
      [] OTHER -> 0

(* The moves of the audit between its pages.                               *)
AfterLook ==
    \/ pc \in {"scan", "text"} /\ pc' \in {"links", "close"} /\ queue' = queue
    \/ pc \in {"deepscan", "deeptext"} /\ pc' = "close"
    \/ pc \in {"deepscan", "deeptext"} /\ pc' = "hop" /\ queue' = Tail(queue)
Moves ==
    \/ pc = "home" /\ pc' \in {"find", "closed"}
    \/ pc = "find" /\ pc' \in {"careers", "scan"}
    \/ pc = "careers" /\ pc' = "scan"
    \/ pc = "scan" /\ pc' = "text"
    \/ pc = "links" /\ pc' \in {"hop", "close"}
    \/ pc = "hop" /\ pc' \in {"deepscan", "close"} /\ queue' = queue
    \/ pc = "deepscan" /\ pc' = "deeptext" /\ queue' = queue
    \/ pc = "close" /\ pc' = "closed"
    \/ pc = "closed" /\ pc' \in {"probe", "done"}
    \/ pc = "probe" /\ pc' = "probe" /\ asked' = asked + 1
    \/ pc = "probe" /\ pc' = "done"
    \/ AfterLook

LEMMA StepMoves == ASSUME Browse \/ Probe PROVE Moves /\ site' = site
<1>1. ASSUME NEW h, Decide(h), pc \in {"scan", "text", "deepscan", "deeptext"} PROVE AfterLook
  BY <1>1 DEF Decide, AfterLook
<1>2. CASE Sweep
  <2>1. pc \in {"scan", "deepscan"} /\ site' = site
    BY <1>2 DEF Sweep
  <2>2. CASE hits' = <<>>
    BY <1>2, <2>1, <2>2 DEF Sweep, Moves
  <2>3. CASE hits' # <<>>
    <3>1. Decide(hits')
      BY <1>2, <2>3 DEF Sweep
    <3> QED BY <1>1, <2>1, <3>1 DEF Moves
  <2> QED BY <2>2, <2>3
<1>3. CASE ReadText
  <2>1. pc \in {"text", "deeptext"} /\ site' = site /\ Decide(hits')
    BY <1>3 DEF ReadText
  <2> QED BY <1>1, <2>1 DEF Moves
<1>4. CASE NoDomain \/ OpenHome \/ FindCareers \/ OpenCareers
  BY <1>4 DEF NoDomain, OpenHome, FindCareers, OpenCareers, Goto, Moves
<1>5. CASE ReadLinks \/ Hop
  BY <1>5 DEF ReadLinks, Hop, Goto, Moves
<1>6. CASE Close \/ BrowserFails
  BY <1>6 DEF Close, BrowserFails, Moves
<1>7. CASE Probe
  BY <1>7 DEF Probe, StartProbe, Ask, AskFails, AfterFailure, Miss, Moves
<1> QED BY <1>2, <1>3, <1>4, <1>5, <1>6, <1>7 DEF Browse

LEMMA LeftIs ==
    ASSUME TypeOK
    PROVE  /\ Guesses \in Nat /\ Len(queue) \in 0..MaxHops /\ MaxHops \in Nat
           /\ asked \in 0..Guesses
           /\ Left \in Nat /\ Left <= Guesses + 3 * MaxHops + 11
<1>1. Guesses \in Nat /\ Len(queue) \in 0..MaxHops /\ MaxHops \in Nat /\ asked \in 0..Guesses
  BY SiteType, LenProperties, HopsAssumption DEF TypeOK, Guesses
<1> DEFINE g == Guesses
           t == 3 * MaxHops
           m == 3 * Len(queue)
<1>2. g \in Nat /\ t \in Nat /\ m \in Nat /\ m <= t /\ asked \in 0..g
  <2>1. \A k, l \in Nat : k <= l => 3 * k \in Nat /\ 3 * l \in Nat /\ 3 * k <= 3 * l
    OBVIOUS
  <2> QED BY <1>1, <2>1
<1>3. /\ pc = "hop" => Left = g + m + 5
      /\ pc = "deepscan" => Left = g + m + 4
      /\ pc = "deeptext" => Left = g + m + 3
      /\ pc \in {"home", "find", "careers", "scan", "text", "links"} =>
           \E i \in 6..11 : Left = g + t + i
      /\ pc \in {"close", "closed"} => \E i \in 2..3 : Left = g + i
      /\ pc = "probe" => Left = g - asked + 1
      /\ pc = "done" => Left = 0
  BY DEF Left
<1> HIDE DEF g, t, m
<1>4. CASE pc \in {"hop", "deepscan", "deeptext"}
  <2>1. Left \in Nat /\ Left <= g + t + 11
    BY <1>2, <1>3, <1>4
  <2> QED BY <1>1, <2>1 DEF g, t
<1>5. CASE pc \in {"home", "find", "careers", "scan", "text", "links"}
  <2>1. Left \in Nat /\ Left <= g + t + 11
    BY <1>2, <1>3, <1>5
  <2> QED BY <1>1, <2>1 DEF g, t
<1>6. CASE pc \in {"close", "closed", "probe", "done"}
  <2>1. Left \in Nat /\ Left <= g + t + 11
    BY <1>2, <1>3, <1>6
  <2> QED BY <1>1, <2>1 DEF g, t
<1> QED BY <1>4, <1>5, <1>6 DEF TypeOK

LEMMA MovesAreProgress ==
    ASSUME AuditInv, TypeOK', Moves, site' = site
    PROVE  Left' \in Nat /\ Left' < Left
<1> DEFINE g == Guesses
           t == 3 * MaxHops
           m == Len(queue)
           n == Len(queue')
<1>1. /\ g \in Nat /\ m \in Nat /\ n \in Nat /\ t \in Nat /\ 3 * m <= t /\ 3 * n <= t
      /\ asked \in 0..g /\ asked' \in 0..g /\ Guesses' = g
  <2>1. TypeOK
    BY DEF AuditInv
  <2>2. /\ g \in Nat /\ m \in 0..MaxHops /\ MaxHops \in Nat /\ asked \in 0..g
    BY <2>1, LeftIs
  <2>3. n \in 0..MaxHops
    <3>1. queue' \in Seq(Page) /\ n <= MaxHops
      BY DEF TypeOK
    <3> QED BY <2>2, <3>1, LenProperties
  <2>4. asked' \in 0..g /\ Guesses' = g
    BY DEF TypeOK, Guesses
  <2>5. \A k, l \in Nat : k <= l => 3 * k <= 3 * l /\ 3 * l \in Nat
    OBVIOUS
  <2> HIDE DEF g, m, n
  <2> QED BY <2>2, <2>3, <2>4, <2>5
<1>0. pc \in {"deepscan", "deeptext"} => m # 0
  <2>1. queue \in Seq(Page) /\ (pc \in {"deepscan", "deeptext"} => queue # <<>>)
    BY DEF AuditInv, TypeOK, InTab
  <2> QED BY <2>1, EmptySeq
<1>2. pc \in {"deepscan", "deeptext"} /\ queue' = Tail(queue) => n = m - 1
  <2>1. queue \in Seq(Page)
    BY DEF AuditInv, TypeOK
  <2>2. pc \in {"deepscan", "deeptext"} => queue # <<>>
    BY DEF AuditInv, InTab
  <2>3. queue # <<>> => Len(Tail(queue)) = Len(queue) - 1
    BY <2>1, HeadTailProperties
  <2> QED BY <2>2, <2>3
<1>3. queue' = queue => n = m
  OBVIOUS
<1>4. /\ pc = "home" => Left = g + t + 11
      /\ pc = "find" => Left = g + t + 10
      /\ pc = "careers" => Left = g + t + 9
      /\ pc = "scan" => Left = g + t + 8
      /\ pc = "text" => Left = g + t + 7
      /\ pc = "links" => Left = g + t + 6
      /\ pc = "hop" => Left = g + 3 * m + 5
      /\ pc = "deepscan" => Left = g + 3 * m + 4
      /\ pc = "deeptext" => Left = g + 3 * m + 3
      /\ pc = "close" => Left = g + 3
      /\ pc = "closed" => Left = g + 2
      /\ pc = "probe" => Left = g - asked + 1
  BY DEF Left
<1>5. /\ pc' = "find" => Left' = g + t + 10
      /\ pc' = "careers" => Left' = g + t + 9
      /\ pc' = "scan" => Left' = g + t + 8
      /\ pc' = "text" => Left' = g + t + 7
      /\ pc' = "links" => Left' = g + t + 6
      /\ pc' = "hop" => Left' = g + 3 * n + 5
      /\ pc' = "deepscan" => Left' = g + 3 * n + 4
      /\ pc' = "deeptext" => Left' = g + 3 * n + 3
      /\ pc' = "close" => Left' = g + 3
      /\ pc' = "closed" => Left' = g + 2
      /\ pc' = "probe" => Left' = g - asked' + 1
      /\ pc' = "done" => Left' = 0
  BY <1>1 DEF Left
<1> HIDE DEF g, t, m, n
<1>6. CASE pc \in {"scan", "text"} /\ AfterLook
  BY <1>1, <1>4, <1>5, <1>6 DEF AfterLook
<1>7. CASE pc \in {"deepscan", "deeptext"} /\ AfterLook
  <2>1. CASE pc' = "close"
    <3>1. Left' = g + 3 /\ Left \in {g + 3 * m + 4, g + 3 * m + 3} /\ m # 0
      <4>1. m # 0
        BY <1>0, <1>7
      <4> QED BY <1>4, <1>5, <1>7, <2>1, <4>1
    <3>2. 3 * m \in Nat /\ 3 * m > 0
      BY <1>1, <3>1
    <3> QED BY <1>1, <3>1, <3>2
  <2>2. CASE pc' = "hop" /\ queue' = Tail(queue)
    <3>1. m = n + 1
      BY <1>1, <1>2, <1>7, <2>2
    <3>2. Left' = g + 3 * n + 5 /\ Left \in {g + 3 * m + 4, g + 3 * m + 3}
      BY <1>4, <1>5, <1>7, <2>2
    <3>3. 3 * m = 3 * n + 3
      BY <1>1, <3>1
    <3> QED BY <1>1, <3>2, <3>3
  <2> QED BY <1>7, <2>1, <2>2 DEF AfterLook
<1>8. CASE pc \in {"home", "find", "careers", "scan", "links"} /\ ~AfterLook
  BY <1>1, <1>4, <1>5, <1>8 DEF Moves
<1>9. CASE pc \in {"hop", "deepscan"} /\ ~AfterLook
  BY <1>1, <1>3, <1>4, <1>5, <1>9 DEF Moves
<1>10. CASE pc \in {"close", "closed", "probe"}
  BY <1>1, <1>4, <1>5, <1>10 DEF Moves, AfterLook
<1> QED BY <1>6, <1>7, <1>8, <1>9, <1>10 DEF Moves, AfterLook

(* Each look, load and guess, one that fails included, lowers a number     *)
(* that no request of a page raises: a site that keeps calling, or links   *)
(* in circles, does not keep the audit going.                              *)
EveryLookCounts ==
    [][/\ Left \in 0 .. (Guesses + 3 * MaxHops + 11)
       /\ Left' <= Left
       /\ Browse \/ Probe => Left' < Left]_vars

(* An audit and its probe are over after at most that many looks, whatever *)
(* the site and however often it calls.                                    *)
THEOREM EveryLookIsProgress == Spec => EveryLookCounts
<1> DEFINE Counts == /\ Left \in 0 .. (Guesses + 3 * MaxHops + 11)
                     /\ Left' <= Left
                     /\ Browse \/ Probe => Left' < Left
<1>1. AuditInv /\ AuditInv' /\ [Next]_vars => [Counts]_vars
  <2> SUFFICES ASSUME AuditInv, AuditInv', Next PROVE Counts
    OBVIOUS
  <2>1. TypeOK /\ TypeOK'
    BY DEF AuditInv
  <2>2. Left \in 0 .. (Guesses + 3 * MaxHops + 11)
    BY <2>1, LeftIs
  <2>3. CASE Browse \/ Probe
    <3>1. Left' \in Nat /\ Left' < Left
      BY <2>1, <2>3, StepMoves, MovesAreProgress
    <3> HIDE DEF Left, Guesses
    <3> QED BY <2>2, <3>1
  <2>4. CASE ~(Browse \/ Probe)
    <3>1. PICK h \in Hit : Request(h)
      BY <2>4 DEF Next
    <3>2. Left' = Left
      BY <3>1 DEF Request, Left, Guesses
    <3> HIDE DEF Left, Guesses
    <3> QED BY <2>2, <2>4, <3>2
  <2> QED BY <2>3, <2>4
<1> QED BY <1>1, AuditHolds, PTL DEF Spec, EveryLookCounts
=============================================================================
