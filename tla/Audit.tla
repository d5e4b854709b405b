------------------------------- MODULE Audit -------------------------------
(***************************************************************************)
(* tools/company_discovery/ats_audit.py: how one company gets its verdict. *)
(* audit renders the site, finds the careers page, scans it, and hops to a *)
(* deeper page if nothing was found; probe_record then asks the APIs for   *)
(* the tokens somebody would guess.  Discovery has the batch of companies  *)
(* around it.                                                              *)
(*                                                                         *)
(* The page's requests reach on_req while the audit waits for the browser: *)
(* before, between and after its own looks at the page.  Python runs one   *)
(* callback at a time, so a step from one await to the next is one action. *)
(* A load, a look and a request may each fail.  Of a URL is kept the ATS   *)
(* it is one of, and the token.                                            *)
(***************************************************************************)
EXTENDS Integers, Sequences, FiniteSets, Functions

CONSTANTS
    Ats,        \* the ATS in the order of ATS_HOSTS
    Token,      \* what a URL may have where the token is expected
    BadToken,   \* _BAD_TOKENS
    NoToken,    \* the empty token
    Page,       \* pages of the site, and of those it links to
    Nowhere,    \* no page
    Sites,      \* sites a company may have
    MaxHops     \* links followed at most: 3 in the program

Hit == [ats : Range(Ats), token : Token \cup {NoToken}]
Link == [to : Page, kind : {"ats", "deeper", "partner"}]
Answer == {"postings", "empty", "refused"}
Site == [home : Page \cup {Nowhere}, link : Page \cup {Nowhere},
         map : Page \cup {Nowhere}, path : Page \cup {Nowhere},
         calls : [Page -> SUBSET Hit], elements : [Page -> Seq(Hit)],
         text : [Page -> SUBSET Hit], links : [Page -> Seq(Link)],
         answers : Seq(Answer)]

ASSUME SitesAssumption == Sites \subseteq Site
ASSUME AtsAssumption == {"Unknown", "N/A", "ERROR"} \cap Range(Ats) = {}
ASSUME TokensAssumption == BadToken \subseteq Token /\ NoToken \notin Token
ASSUME HopsAssumption == MaxHops \in Nat /\ Nowhere \notin Page

VARIABLES
    site,      \* what the company has on the web
    pc,        \* what the audit does next
    at,        \* the page in the tab
    fired,     \* requests that page has made
    hits,      \* hits: what was seen and how, in order
    careers,   \* career_url
    queue,     \* candidates of the second hop still to be opened
    verdict,   \* the record's ATS and token
    asked,     \* guesses the probe is through with
    found,     \* the guess that answered with postings, or 0
    seen,      \* observer: everything that was seen
    extra,     \* observer: pages opened after something was seen
    failedAsk  \* observer: guesses whose request failed

observers == <<seen, extra, failedAsk>>
vars == <<site, pc, at, fired, hits, careers, queue, verdict, asked, found, observers>>

Seen == [hit : Hit, how : {"request", "element", "text"}, on : Page]
Verdict == Hit \cup [ats : {"Unknown", "N/A", "ERROR"}, token : {NoToken}]
Pending == [ats |-> "N/A", token |-> NoToken]

TypeOK ==
    /\ site \in Sites
    /\ pc \in {"home", "find", "careers", "scan", "text", "links", "hop",
               "deepscan", "deeptext", "close", "closed", "probe", "done"}
    /\ at \in Page \cup {Nowhere}
    /\ fired \in SUBSET Hit
    /\ hits \in Seq(Seen)
    /\ careers \in Page \cup {Nowhere}
    /\ queue \in Seq(Page) /\ Len(queue) <= MaxHops
    /\ verdict \in Verdict
    /\ asked \in 0..Len(site.answers)
    /\ found \in 0..asked
    /\ seen \in SUBSET Seen
    /\ extra \in Nat
    /\ failedAsk \in SUBSET (1..asked)

Init ==
    /\ site \in Sites
    /\ pc = "home"
    /\ at = Nowhere /\ fired = {} /\ hits = <<>>
    /\ careers = Nowhere /\ queue = <<>>
    /\ verdict = Pending
    /\ asked = 0 /\ found = 0
    /\ seen = {} /\ extra = 0 /\ failedAsk = {}

-----------------------------------------------------------------------------
(* on_req: a request of the page in the tab names an ATS.                  *)
Note(new) ==
    /\ hits' = hits \o new
    /\ seen' = seen \cup Range(new)

Request(h) ==
    /\ at # Nowhere /\ h \in site.calls[at] \ fired
    /\ fired' = fired \cup {h}
    /\ Note(<<[hit |-> h, how |-> "request", on |-> at]>>)
    /\ UNCHANGED <<site, pc, at, careers, queue, verdict, asked, found, extra, failedAsk>>

(* page.goto: the page is loaded, or the load fails or times out, with the *)
(* new page or still the old one in the tab.                               *)
Goto(p, loaded, failed) ==
    /\ \/ at' = p /\ fired' = {} /\ pc' = loaded
       \/ at' = p /\ fired' = {} /\ pc' = failed
       \/ UNCHANGED <<at, fired>> /\ pc' = failed
    /\ extra' = IF hits = <<>> THEN extra ELSE extra + 1
    /\ UNCHANGED <<site, hits, verdict, asked, found, seen, failedAsk>>

NoDomain ==
    /\ pc = "home" /\ site.home = Nowhere
    /\ pc' = "closed"
    /\ UNCHANGED <<site, at, fired, hits, careers, queue, verdict, asked, found, observers>>

OpenHome ==
    /\ pc = "home" /\ site.home # Nowhere
    /\ Goto(site.home, "find", "find")
    /\ UNCHANGED <<careers, queue>>

(* find_careers: a link of the page, else the sitemap, else a usual path.  *)
(* When looking at the page raises, the others are not tried.              *)
FindCareers ==
    LET link == IF at = site.home THEN site.link ELSE Nowhere
        orElse(p, q) == IF p # Nowhere THEN p ELSE q
    IN  /\ pc = "find"
        /\ \/ \E map \in {site.map, Nowhere}, path \in {site.path, Nowhere} :
                careers' = orElse(link, orElse(map, path))
           \/ careers' = Nowhere
        /\ pc' = IF careers' = Nowhere THEN "scan" ELSE "careers"
        /\ UNCHANGED <<site, at, fired, hits, queue, verdict, asked, found, observers>>

OpenCareers ==
    /\ pc = "careers"
    /\ Goto(careers, "scan", "scan")
    /\ UNCHANGED <<careers, queue>>

-----------------------------------------------------------------------------
(* scan_dom, and what the audit does with it.                              *)

(* After the careers page: done, or look for links.  After a candidate:    *)
(* done, and the candidate is the careers page, or the next candidate.     *)
GoesDeeper_Always(h) == TRUE
GoesDeeper(h) == h = <<>>

Decide(h) ==
    IF pc \in {"scan", "text"}
    THEN /\ pc' = IF h = <<>> /\ careers # Nowhere THEN "links" ELSE "close"
         /\ UNCHANGED <<careers, queue>>
    ELSE IF GoesDeeper(h)
    THEN /\ queue' = Tail(queue)
         /\ pc' = IF queue' = <<>> THEN "close" ELSE "hop"
         /\ UNCHANGED careers
    ELSE /\ careers' = Head(queue)
         /\ pc' = "close"
         /\ UNCHANGED queue

(* The elements in order, unless the look at them fails.                   *)
Sweep ==
    LET all == IF at = Nowhere THEN <<>> ELSE site.elements[at]
    IN  /\ pc \in {"scan", "deepscan"}
        /\ \/ Note([i \in DOMAIN all |-> [hit |-> all[i], how |-> "element", on |-> at]])
           \/ Note(<<>>)
        /\ IF hits' = <<>>
           THEN /\ pc' = IF pc = "scan" THEN "text" ELSE "deeptext"
                /\ UNCHANGED <<careers, queue>>
           ELSE Decide(hits')
        /\ UNCHANGED <<site, at, fired, verdict, asked, found, extra, failedAsk>>

(* match_ats: of all the ATS a text names the first in the table.          *)
Matches(text) ==
    {h \in text : \A g \in text :
        \E i, k \in DOMAIN Ats : Ats[i] = h.ats /\ Ats[k] = g.ats /\ i <= k}

(* The raw HTML.                                                           *)
ReadText ==
    /\ pc \in {"text", "deeptext"}
    /\ \/ /\ at # Nowhere
          /\ \E h \in Matches(site.text[at]) :
                Note(<<[hit |-> h, how |-> "text", on |-> at]>>)
       \/ Note(<<>>)
    /\ Decide(hits')
    /\ UNCHANGED <<site, at, fired, verdict, asked, found, extra, failedAsk>>

(* deeper_board_links: to an ATS, then to what looks like a list of jobs   *)
(* on the company's own site; each once, and not too many.                 *)
Ordered(links) ==
    LET place(i) == IF links[i].kind = "ats" THEN i ELSE Len(links) + i
        wanted == {i \in DOMAIN links : links[i].kind # "partner"}
        firsts == {i \in wanted : \A k \in wanted :
                      links[k].to = links[i].to => place(i) <= place(k)}
        upTo(i) == {k \in firsts : place(k) <= place(i)}
    IN  [n \in 1..Cardinality(firsts) |->
            links[CHOOSE i \in firsts : Cardinality(upTo(i)) = n].to]

Candidates(links) ==
    LET all == Ordered(links)
    IN  SubSeq(all, 1, IF Len(all) < MaxHops THEN Len(all) ELSE MaxHops)

ReadLinks ==
    /\ pc = "links"
    /\ \/ at # Nowhere /\ queue' = Candidates(site.links[at])
       \/ queue' = <<>>
    /\ pc' = IF queue' = <<>> THEN "close" ELSE "hop"
    /\ UNCHANGED <<site, at, fired, hits, careers, verdict, asked, found, observers>>

(* A candidate that does not load ends the hop: the others are not opened. *)
Hop ==
    /\ pc = "hop"
    /\ Goto(Head(queue), "deepscan", "close")
    /\ UNCHANGED <<careers, queue>>

-----------------------------------------------------------------------------
(* The first hit is the verdict; what arrived until the tab was closed     *)
(* counts, whatever the last look found.                                   *)
FirstHit_OfElements ==
    SelectSeq(hits, LAMBDA s : s.how # "request")
FirstHit == hits

Judge ==
    IF FirstHit = <<>>
    THEN [ats |-> IF careers = Nowhere THEN "N/A" ELSE "Unknown", token |-> NoToken]
    ELSE LET h == Head(FirstHit).hit
         IN  [h EXCEPT !.token = IF @ \in BadToken THEN NoToken ELSE @]

Close ==
    /\ pc = "close"
    /\ at' = Nowhere /\ fired' = {}
    /\ verdict' = Judge
    /\ pc' = "closed"
    /\ UNCHANGED <<site, hits, careers, queue, asked, found, observers>>

(* The tab cannot be opened or closed: the worker notes an error.          *)
BrowserFails ==
    /\ pc \in {"home", "close"}
    /\ at' = Nowhere /\ fired' = {}
    /\ verdict' = [ats |-> "ERROR", token |-> NoToken]
    /\ pc' = "closed"
    /\ UNCHANGED <<site, hits, careers, queue, asked, found, observers>>

-----------------------------------------------------------------------------
(* probe_unknowns takes the companies that cannot be fetched, and          *)
(* probe_record asks every API for every token it can think of.            *)
StartProbe ==
    /\ pc = "closed"
    /\ pc' = IF verdict.token = NoToken THEN "probe" ELSE "done"
    /\ UNCHANGED <<site, at, fired, hits, careers, queue, verdict, asked, found, observers>>

(* A 200 with no record in it is no hit.                                   *)
IsHit_Any200(answer) == answer # "refused"
IsHit(answer) == answer = "postings"

Ask ==
    LET n == asked + 1
    IN  /\ pc = "probe" /\ n \in DOMAIN site.answers
        /\ asked' = n
        /\ IF IsHit(site.answers[n])
           THEN /\ found' = n
                /\ pc' = "done"
                /\ \E h \in Hit : h.token \notin {NoToken} \cup BadToken /\ verdict' = h
           ELSE UNCHANGED <<found, pc, verdict>>
        /\ UNCHANGED <<site, at, fired, hits, careers, queue, observers>>

(* A failure is the answer of this API only.                               *)
AfterFailure == "probe"

AskFails ==
    LET n == asked + 1
    IN  /\ pc = "probe" /\ n \in DOMAIN site.answers
        /\ asked' = n
        /\ failedAsk' = failedAsk \cup {n}
        /\ pc' = AfterFailure
        /\ UNCHANGED <<site, at, fired, hits, careers, queue, verdict, found, seen, extra>>

Miss ==
    /\ pc = "probe" /\ asked = Len(site.answers)
    /\ pc' = "done"
    /\ UNCHANGED <<site, at, fired, hits, careers, queue, verdict, asked, found, observers>>

Browse ==
    \/ NoDomain \/ OpenHome \/ FindCareers \/ OpenCareers \/ Sweep \/ ReadText
    \/ ReadLinks \/ Hop \/ Close \/ BrowserFails
Probe == StartProbe \/ Ask \/ AskFails \/ Miss

Next == Browse \/ Probe \/ \E h \in Hit : Request(h)

Spec == Init /\ [][Next]_vars

-----------------------------------------------------------------------------
(* A company on whose pages an ATS showed is never judged to have none,    *)
(* however late the request came and whichever looks at the page failed,   *)
(* as long as the browser lives.                                           *)
NothingSeenIsLost ==
    pc = "closed" /\ verdict.ats # "ERROR" =>
        (seen # {} <=> verdict.ats \in Range(Ats))

(* The crawl stops at the first sight of an ATS: at most one page more is  *)
(* opened, the one that was next when the request came.                    *)
OnePageMore == extra <= 1

(* The probe takes the best guess that answers with postings, and misses   *)
(* only if none does: an empty board is no answer and a failure costs no   *)
(* other guess.                                                            *)
ProbeIsThorough ==
    pc = "done" =>
        /\ found # 0 => site.answers[found] = "postings"
        /\ asked > 0 /\ found = 0 => asked = Len(site.answers)
        /\ \A n \in 1..asked \ {found} : site.answers[n] = "postings" => n \in failedAsk
=============================================================================
