---------------------------- MODULE RateLimiter ----------------------------
(***************************************************************************)
(* shared/http.py: the per-host rate limiter, the GET it paces and the     *)
(* retries urllib3 makes inside that GET.                                  *)
(*                                                                         *)
(* Every fetch worker runs get_json: it reads the clock, takes the lock to *)
(* reserve the next free slot of its host, sleeps outside the lock until   *)
(* the slot, and sends.  The sleep never ends early; how late a thread may *)
(* get to its next line is MaxLag, the scheduling delay of the machine.    *)
(* A retry is sent by urllib3 below session.get and does not come back     *)
(* through the limiter.                                                    *)
(*                                                                         *)
(* An operator with a suffix (FreeSlot_StaleClock, Delay_None, ...) is a   *)
(* faulty variant of the one it precedes; the specification uses none.     *)
(*                                                                         *)
(* Time is discrete and its unit is arbitrary.  LastStart and MaxTime only *)
(* bound the behaviours that TLC explores.                                 *)
(***************************************************************************)
EXTENDS Integers, FiniteSets

CONSTANTS
    Worker,            \* threads of the fetch pool
    Host,              \* network locations, the limiter's keys
    DefaultInterval,   \* Settings.fetch_min_interval_s, given to the limiter
    RegistryInterval,  \* [Host -> interval of the source that owns the host]
    Unset,             \* the argument None: no interval given by the caller
    MaxLag,            \* a thread runs at most this long after it is due
    MaxRetries,        \* Retry(total=5) in the program
    Backoff(_),        \* the time urllib3 sleeps before the k-th retry
    Gets,              \* bound: GETs the pool makes
    LastStart,         \* bound: no GET starts after this time
    MaxTime            \* bound: the clock stops here

ASSUME NumbersAssumption ==
    /\ DefaultInterval \in Nat /\ MaxLag \in Nat /\ MaxRetries \in Nat
    /\ Gets \in Nat
    /\ LastStart \in Nat /\ MaxTime \in Nat
ASSUME HostAssumption == Host # {}
ASSUME WorkerAssumption == IsFiniteSet(Worker)
ASSUME BackoffAssumption == \A k \in 1..MaxRetries : Backoff(k) \in Nat
ASSUME IntervalAssumption ==
    /\ Unset \notin Nat
    /\ RegistryInterval \in [Host -> Nat \cup {Unset}]

VARIABLES
    now,          \* time.monotonic()
    nextAllowed,  \* HostRateLimiter._next_allowed
    pc,           \* where each worker is
    target,       \* host of the worker's current GET
    readAt,       \* the clock as acquire read it, before the lock
    slot,         \* the slot acquire reserved
    wakeAt,       \* the earliest time the worker's sleep can end
    retries,      \* retries already made for the current GET
    get,          \* number of the worker's current GET
    issued,       \* GETs started so far
    slots,        \* observer: every slot ever reserved
    sent          \* observer: the first request of every GET

callVars == <<target, readAt, slot, get>>
limiterVars == <<nextAllowed, slots>>
vars == <<now, limiterVars, pc, callVars, wakeAt, retries, issued, sent>>

(* acquire's first line: the caller's interval, or the limiter's own.      *)
Interval(h) ==
    IF RegistryInterval[h] = Unset THEN DefaultInterval ELSE RegistryInterval[h]

Later(a, b) == IF a >= b THEN a ELSE b

Slot == [host : Host, at : Nat, get : Nat]
Sending == [host : Host, at : Nat, slot : Nat, get : Nat]
PC == {"idle", "locking", "sleeping", "waiting", "backoff"}

TypeOK ==
    /\ now \in Nat
    /\ nextAllowed \in [Host -> Nat]
    /\ pc \in [Worker -> PC]
    /\ target \in [Worker -> Host]
    /\ readAt \in [Worker -> Nat]
    /\ slot \in [Worker -> Nat]
    /\ wakeAt \in [Worker -> Nat]
    /\ retries \in [Worker -> 0..MaxRetries]
    /\ get \in [Worker -> Nat]
    /\ issued \in Nat
    /\ slots \in SUBSET Slot
    /\ sent \in SUBSET Sending

Init ==
    /\ now = 0
    /\ nextAllowed = [h \in Host |-> 0]
    /\ pc = [w \in Worker |-> "idle"]
    /\ target = [w \in Worker |-> CHOOSE h \in Host : TRUE]
    /\ readAt = [w \in Worker |-> 0]
    /\ slot = [w \in Worker |-> 0]
    /\ wakeAt = [w \in Worker |-> 0]
    /\ retries = [w \in Worker |-> 0]
    /\ get = [w \in Worker |-> 0]
    /\ issued = 0
    /\ slots = {}
    /\ sent = {}

-----------------------------------------------------------------------------
(* get_json is called for a URL of host h and acquire reads the clock; the *)
(* early return for a non-positive interval goes straight to the GET.      *)
Start(w, h) ==
    /\ pc[w] = "idle" /\ issued < Gets /\ now <= LastStart
    /\ issued' = issued + 1
    /\ get' = [get EXCEPT ![w] = issued']
    /\ target' = [target EXCEPT ![w] = h]
    /\ readAt' = [readAt EXCEPT ![w] = now]
    /\ slot' = [slot EXCEPT ![w] = now]
    /\ wakeAt' = [wakeAt EXCEPT ![w] = now]
    /\ retries' = [retries EXCEPT ![w] = 0]
    /\ pc' = [pc EXCEPT ![w] = IF Interval(h) = 0 THEN "sleeping" ELSE "locking"]
    /\ UNCHANGED <<now, limiterVars, sent>>

(* The host's next free slot for this thread, what it leaves as the next   *)
(* free one, and how long the thread sleeps.                               *)
FreeSlot_StaleClock(w) == readAt[w]
FreeSlot_OneQueue(w) ==
    LET free == {nextAllowed[h] : h \in Host}
    IN  Later(readAt[w], CHOOSE t \in free : \A u \in free : u <= t)
FreeSlot(w) == Later(readAt[w], nextAllowed[target[w]])

AfterSlot_Twice(h, s) == s + 2 * Interval(h)
AfterSlot(h, s) == s + Interval(h)

Delay_None(w, s) == 0
Delay(w, s) == s - readAt[w]

(* The critical section, and the sleep that follows it: the delay is taken *)
(* from the clock as read before the lock, the sleep starts after it.      *)
Reserve(w) ==
    LET h == target[w]
        s == FreeSlot(w)
    IN  /\ pc[w] = "locking"
        /\ slot' = [slot EXCEPT ![w] = s]
        /\ nextAllowed' = [nextAllowed EXCEPT ![h] = AfterSlot(h, s)]
        /\ slots' = slots \cup {[host |-> h, at |-> s, get |-> get[w]]}
        /\ wakeAt' = [wakeAt EXCEPT ![w] = now + Delay(w, s)]
        /\ pc' = [pc EXCEPT ![w] = "sleeping"]
        /\ UNCHANGED <<now, target, readAt, get, retries, issued, sent>>

(* The sleep, of the limiter or of a backoff, is over and the request goes *)
(* on the wire: the clock may be past wakeAt, never before it.  A request  *)
(* after a backoff is a retry, and no first request.                       *)
Send(w) ==
    /\ pc[w] \in {"sleeping", "backoff"} /\ now >= wakeAt[w]
    /\ sent' = IF pc[w] = "backoff" THEN sent
               ELSE sent \cup {[host |-> target[w], at |-> now,
                                slot |-> slot[w], get |-> get[w]]}
    /\ pc' = [pc EXCEPT ![w] = "waiting"]
    /\ UNCHANGED <<now, limiterVars, callVars, wakeAt, retries, issued>>

RetryLeft_Always(w) == TRUE
RetryLeft(w) == retries[w] < MaxRetries

(* 429, a 5xx or a connection fault: urllib3 backs off to send again.      *)
Fault(w) ==
    /\ pc[w] = "waiting" /\ RetryLeft(w)
    /\ retries' = [retries EXCEPT ![w] = @ + 1]
    /\ wakeAt' = [wakeAt EXCEPT ![w] = now + Backoff(retries[w] + 1)]
    /\ pc' = [pc EXCEPT ![w] = "backoff"]
    /\ UNCHANGED <<now, limiterVars, callVars, issued, sent>>

(* Any other answer, or a fault with no retry left: get_json returns or    *)
(* raises.  The call's locals die with it.                                 *)
Answered(w) ==
    /\ pc[w] = "waiting"
    /\ pc' = [pc EXCEPT ![w] = "idle"]
    /\ readAt' = [readAt EXCEPT ![w] = 0]
    /\ slot' = [slot EXCEPT ![w] = 0]
    /\ wakeAt' = [wakeAt EXCEPT ![w] = 0]
    /\ retries' = [retries EXCEPT ![w] = 0]
    /\ get' = [get EXCEPT ![w] = 0]
    /\ UNCHANGED <<now, limiterVars, target, issued, sent>>

(* A worker's next line is due when its clock reading or its slot is: it   *)
(* runs at most MaxLag later.  A GET in flight and a backoff have no       *)
(* deadline here.                                                          *)
Overdue(w) == pc[w] \in {"locking", "sleeping"} /\ now >= slot[w] + MaxLag

Tick ==
    /\ now < MaxTime
    /\ \A w \in Worker : ~Overdue(w)
    /\ now' = now + 1
    /\ UNCHANGED <<limiterVars, pc, callVars, wakeAt, retries, issued, sent>>

Finished ==
    /\ \A w \in Worker : pc[w] = "idle"
    /\ issued = Gets \/ now > LastStart
    /\ UNCHANGED vars

Next ==
    \/ Tick
    \/ \E w \in Worker :
         \/ \E h \in Host : Start(w, h)
         \/ Reserve(w) \/ Send(w) \/ Fault(w) \/ Answered(w)
    \/ Finished

Spec == Init /\ [][Next]_vars

(* The lock is granted, time.sleep returns and a GET in flight ends, by an *)
(* answer or by urllib3's timeouts; the clock runs.                        *)
Fairness ==
    /\ WF_vars(Tick)
    /\ \A w \in Worker : WF_vars(Reserve(w) \/ Send(w) \/ Fault(w) \/ Answered(w))

FairSpec == Spec /\ Fairness
-----------------------------------------------------------------------------
(* Two reservations of one host are never closer than its interval,        *)
(* whatever the order in which the threads read the clock and got the lock.*)
Apart(a, b, gap) == a + gap <= b \/ b + gap <= a

SlotsSpaced ==
    \A a, b \in slots :
        a # b /\ a.host = b.host => Apart(a.at, b.at, Interval(a.host))

(* What the spacing of slots buys on the wire: the first attempts of two   *)
(* GETs to one host leave at least the interval apart, less the scheduling *)
(* lag, while retries are made around them.  A retry itself is not paced:  *)
(* it may be sent right beside a first attempt.                            *)
FirstAttemptsSpaced ==
    \A a, b \in sent :
        a # b /\ a.host = b.host =>
            Apart(a.at, b.at, Interval(a.host) - MaxLag)

(* A thread waits only behind a request to its own host: if it was made to *)
(* wait, the slot just before its own belongs to that host.                *)
WaitsOnlyForOwnHost ==
    \A w \in Worker :
        pc[w] = "sleeping" /\ slot[w] > readAt[w] =>
            \E s \in slots :
                s.host = target[w] /\ s.at + Interval(target[w]) = slot[w]

(* The queue of a host holds no slot that no thread is going to use: the   *)
(* next free slot is at most one interval per waiting thread away.         *)
Queued(h) == {w \in Worker : pc[w] = "sleeping" /\ target[w] = h}

BacklogBounded ==
    \A h \in Host :
        nextAllowed[h] <= now + Interval(h) * (1 + Cardinality(Queued(h)))

(* Every GET ends: no thread is left asleep, at the lock or in a retry.    *)
EveryGetEnds == \A w \in Worker : pc[w] # "idle" ~> pc[w] = "idle"
=============================================================================
