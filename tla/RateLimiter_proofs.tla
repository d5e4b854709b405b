------------------------- MODULE RateLimiter_proofs -------------------------
(* Proofs about RateLimiter, for every number of workers and hosts, every  *)
(* interval, lag, retry budget and backoff: spacing, waits, backlog, and   *)
(* that a GET gets on.                                                     *)
EXTENDS RateLimiter, FiniteSetTheorems, TLAPS

LEMMA IntervalType == \A h \in Host : Interval(h) \in Nat
BY NumbersAssumption, IntervalAssumption DEF Interval

(* The variables keep their types.                                         *)
THEOREM TypeCorrect == Spec => []TypeOK
<1>1. Init => TypeOK
  BY NumbersAssumption, HostAssumption DEF Init, TypeOK, PC, Slot, Sending
<1>2. TypeOK /\ [Next]_vars => TypeOK'
  <2> SUFFICES ASSUME TypeOK, [Next]_vars PROVE TypeOK'
    OBVIOUS
  <2> USE DEF TypeOK, PC
  <2>1. CASE Tick
    BY <2>1 DEF Tick, limiterVars, callVars
  <2>2. ASSUME NEW w \in Worker, NEW h \in Host, Start(w, h) PROVE TypeOK'
    BY <2>2, NumbersAssumption DEF Start, limiterVars
  <2>3. ASSUME NEW w \in Worker, Reserve(w) PROVE TypeOK'
    <3>1. Later(readAt[w], nextAllowed[target[w]]) \in Nat
      BY DEF Later
    <3>2. Later(readAt[w], nextAllowed[target[w]]) >= readAt[w]
      BY DEF Later
    <3>3. Later(readAt[w], nextAllowed[target[w]]) - readAt[w] \in Nat
      BY <3>1, <3>2
    <3> QED BY <2>3, <3>1, <3>3, IntervalType DEF Reserve, Slot, FreeSlot, AfterSlot, Delay
  <2>4. ASSUME NEW w \in Worker, Send(w) PROVE TypeOK'
    BY <2>4, NumbersAssumption DEF Send, limiterVars, callVars, Sending
  <2>5. ASSUME NEW w \in Worker, Fault(w) PROVE TypeOK'
    <3>1. retries[w] + 1 \in 1..MaxRetries
      BY <2>5, NumbersAssumption DEF Fault, RetryLeft
    <3>2. now + Backoff(retries[w] + 1) \in Nat
      BY <3>1, BackoffAssumption
    <3> HIDE DEF PC
    <3>3. pc' \in [Worker -> PC]
      BY <2>5 DEF Fault, PC
    <3>4. retries' \in [Worker -> 0..MaxRetries]
      BY <2>5, <3>1, NumbersAssumption DEF Fault
    <3>5. wakeAt' \in [Worker -> Nat]
      BY <2>5, <3>2 DEF Fault
    <3> QED BY <2>5, <3>3, <3>4, <3>5 DEF Fault, limiterVars, callVars
  <2>6. ASSUME NEW w \in Worker, Answered(w) PROVE TypeOK'
    BY <2>6, NumbersAssumption DEF Answered, limiterVars
  <2>7. CASE UNCHANGED vars
    BY <2>7 DEF vars, limiterVars, callVars
  <2> QED BY <2>1, <2>2, <2>3, <2>4, <2>5, <2>6, <2>7 DEF Next, Finished
<1> QED BY <1>1, <1>2, PTL DEF Spec
-----------------------------------------------------------------------------
(* Reservations: a slot lies at least one interval before the next free    *)
(* one of its host, and the next free one, once set, is the end of a slot. *)
SlotsBehindNext ==
    \A s \in slots : s.at + Interval(s.host) <= nextAllowed[s.host]

NextIsEndOfSlot ==
    \A h \in Host : nextAllowed[h] > 0 =>
        \E s \in slots : s.host = h /\ s.at + Interval(h) = nextAllowed[h]

ReservationInv ==
    /\ SlotsBehindNext /\ NextIsEndOfSlot
    /\ SlotsSpaced /\ WaitsOnlyForOwnHost

(* A step other than a reservation leaves the slots and the table alone.   *)
LEMMA ReservationStable ==
    ASSUME TypeOK, ReservationInv, UNCHANGED limiterVars,
           \A w \in Worker : pc'[w] = "sleeping" /\ slot'[w] > readAt'[w] =>
               /\ pc[w] = "sleeping"
               /\ slot'[w] = slot[w] /\ readAt'[w] = readAt[w]
               /\ target'[w] = target[w]
    PROVE  ReservationInv'
BY DEF TypeOK, ReservationInv, SlotsBehindNext, NextIsEndOfSlot, SlotsSpaced,
       WaitsOnlyForOwnHost, limiterVars, Apart, Interval

LEMMA ReservationStep ==
    ASSUME TypeOK, ReservationInv, NEW w \in Worker, Reserve(w)
    PROVE  ReservationInv'
<1> DEFINE h == target[w]
           s == Later(readAt[w], nextAllowed[h])
           new == [host |-> h, at |-> s, get |-> get[w]]
<1>1. h \in Host /\ s \in Nat /\ s >= nextAllowed[h] /\ s >= readAt[w]
  BY DEF TypeOK, Later
<1>2. slots' = slots \cup {new} /\ new.host = h /\ new.at = s
  BY DEF Reserve, FreeSlot
<1>3. nextAllowed' = [nextAllowed EXCEPT ![h] = s + Interval(h)]
  BY DEF Reserve, FreeSlot, AfterSlot
<1>4. \A g \in Host : Interval(g) \in Nat /\ nextAllowed[g] \in Nat
  BY IntervalType DEF TypeOK
<1>5. \A a \in slots : a.host \in Host /\ a.at \in Nat
  BY DEF TypeOK, Slot
<1> HIDE DEF s, h, new
<1>6. SlotsBehindNext'
  <2>1. \A a \in slots : a.at + Interval(a.host) <= nextAllowed'[a.host]
    <3> SUFFICES ASSUME NEW a \in slots
                 PROVE  a.at + Interval(a.host) <= nextAllowed'[a.host]
      OBVIOUS
    <3>1. a.at + Interval(a.host) <= nextAllowed[a.host]
      BY DEF ReservationInv, SlotsBehindNext
    <3>2. CASE a.host = h
      BY <3>1, <3>2, <1>1, <1>3, <1>4, <1>5 DEF TypeOK
    <3>3. CASE a.host # h
      BY <3>1, <3>3, <1>3, <1>5 DEF TypeOK
    <3> QED BY <3>2, <3>3
  <2>2. new.at + Interval(new.host) <= nextAllowed'[new.host]
    BY <1>1, <1>2, <1>3, <1>4 DEF TypeOK
  <2> QED BY <2>1, <2>2, <1>2 DEF SlotsBehindNext, Interval
<1>7. NextIsEndOfSlot'
  <2> SUFFICES ASSUME NEW g \in Host, nextAllowed'[g] > 0
               PROVE  \E a \in slots' : a.host = g /\ a.at + Interval(g) = nextAllowed'[g]
    BY DEF NextIsEndOfSlot, Interval
  <2>1. CASE g = h
    BY <2>1, <1>1, <1>2, <1>3 DEF TypeOK
  <2>2. CASE g # h
    <3>1. nextAllowed'[g] = nextAllowed[g]
      BY <2>2, <1>3 DEF TypeOK
    <3> QED BY <3>1, <1>2 DEF ReservationInv, NextIsEndOfSlot
  <2> QED BY <2>1, <2>2
<1>8. SlotsSpaced'
  <2>1. \A a \in slots : a.host = h => a.at + Interval(h) <= s
    BY <1>1, <1>4, <1>5 DEF ReservationInv, SlotsBehindNext
  <2> SUFFICES ASSUME NEW a \in slots', NEW b \in slots', a # b, a.host = b.host
               PROVE  Apart(a.at, b.at, Interval(a.host))
    BY DEF SlotsSpaced, Apart, Interval
  <2>2. CASE a \in slots /\ b \in slots
    BY <2>2 DEF ReservationInv, SlotsSpaced
  <2>3. CASE a \in slots /\ b = new
    BY <2>1, <2>3, <1>2 DEF Apart
  <2>4. CASE a = new /\ b \in slots
    BY <2>1, <2>4, <1>2 DEF Apart
  <2> QED BY <2>2, <2>3, <2>4, <1>2
<1>9. WaitsOnlyForOwnHost'
  <2> SUFFICES ASSUME NEW v \in Worker, pc'[v] = "sleeping", slot'[v] > readAt'[v]
               PROVE  \E a \in slots' :
                        a.host = target'[v] /\ a.at + Interval(target'[v]) = slot'[v]
    BY DEF WaitsOnlyForOwnHost, Interval
  <2>1. target' = target /\ readAt' = readAt
    BY DEF Reserve
  <2>2. CASE v = w
    <3>1. slot'[w] = s
      BY DEF Reserve, TypeOK, FreeSlot, s, h
    <3>2. s > readAt[w]
      BY <3>1, <2>1, <2>2
    <3>3. s = nextAllowed[h] /\ nextAllowed[h] > 0
      BY <3>2, <1>1 DEF s, Later, TypeOK
    <3> QED BY <3>1, <3>3, <2>1, <2>2, <1>1, <1>2 DEF ReservationInv, NextIsEndOfSlot, h
  <2>3. CASE v # w
    <3>1. pc'[v] = pc[v] /\ slot'[v] = slot[v]
      BY <2>3 DEF Reserve, TypeOK
    <3> QED BY <3>1, <2>1, <1>2 DEF ReservationInv, WaitsOnlyForOwnHost
  <2> QED BY <2>2, <2>3
<1> QED BY <1>6, <1>7, <1>8, <1>9 DEF ReservationInv

(* Reservations keep their invariant, whatever the threads read before     *)
(* they had the lock.                                                      *)
THEOREM ReservationsHold == Spec => []ReservationInv
<1>1. Init => ReservationInv
  BY DEF Init, ReservationInv, SlotsBehindNext, NextIsEndOfSlot, SlotsSpaced,
         WaitsOnlyForOwnHost
<1>2. TypeOK /\ ReservationInv /\ [Next]_vars => ReservationInv'
  <2> SUFFICES ASSUME TypeOK, ReservationInv, [Next]_vars PROVE ReservationInv'
    OBVIOUS
  <2>1. CASE Tick
    BY <2>1, ReservationStable DEF Tick, callVars
  <2>2. ASSUME NEW w \in Worker, NEW h \in Host, Start(w, h) PROVE ReservationInv'
    <3>1. UNCHANGED limiterVars
      BY <2>2 DEF Start
    <3>2. \A v \in Worker : v # w =>
            /\ pc'[v] = pc[v] /\ slot'[v] = slot[v]
            /\ readAt'[v] = readAt[v] /\ target'[v] = target[v]
      BY <2>2 DEF Start, TypeOK
    <3>3. ~(slot'[w] > readAt'[w])
      BY <2>2 DEF Start, TypeOK
    <3> QED BY <3>1, <3>2, <3>3, ReservationStable
  <2>3. ASSUME NEW w \in Worker, Reserve(w) PROVE ReservationInv'
    BY <2>3, ReservationStep
  <2>4. ASSUME NEW w \in Worker, Send(w) \/ Fault(w) PROVE ReservationInv'
    <3>1. UNCHANGED limiterVars /\ UNCHANGED callVars
      BY <2>4 DEF Send, Fault
    <3>2. \A v \in Worker : pc'[v] = "sleeping" => pc[v] = "sleeping"
      BY <2>4 DEF Send, Fault, TypeOK
    <3> QED BY <3>1, <3>2, ReservationStable DEF callVars
  <2>5. ASSUME NEW w \in Worker, Answered(w) PROVE ReservationInv'
    <3>1. UNCHANGED limiterVars /\ target' = target
      BY <2>5 DEF Answered
    <3>2. \A v \in Worker : v # w =>
            pc'[v] = pc[v] /\ slot'[v] = slot[v] /\ readAt'[v] = readAt[v]
      BY <2>5 DEF Answered, TypeOK
    <3>3. pc'[w] # "sleeping"
      BY <2>5 DEF Answered, TypeOK
    <3> QED BY <3>1, <3>2, <3>3, ReservationStable
  <2>6. CASE UNCHANGED vars
    BY <2>6, ReservationStable DEF vars, callVars
  <2> QED BY <2>1, <2>2, <2>3, <2>4, <2>5, <2>6 DEF Next, Finished
<1> QED BY <1>1, <1>2, TypeCorrect, PTL DEF Spec

(* Slots of one host are an interval apart, for any interleaving of any    *)
(* number of threads.                                                      *)
THEOREM SlotsAlwaysSpaced == Spec => []SlotsSpaced
<1>1. ReservationInv => SlotsSpaced
  BY DEF ReservationInv
<1> QED BY <1>1, ReservationsHold, PTL

(* A thread waits only behind a slot of its own host.                      *)
THEOREM WaitsAreOwnHosts == Spec => []WaitsOnlyForOwnHost
<1>1. ReservationInv => WaitsOnlyForOwnHost
  BY DEF ReservationInv
<1> QED BY <1>1, ReservationsHold, PTL
-----------------------------------------------------------------------------
(* Requests on the wire.  Each worker is on time for its next line, works  *)
(* at a GET of its own, and sends the first attempt of that GET once, at   *)
(* most MaxLag after the slot it reserved.                                 *)
OnTime ==
    \A w \in Worker :
        /\ pc[w] = "locking" =>
             slot[w] = readAt[w] /\ readAt[w] <= now /\ now <= slot[w] + MaxLag
        /\ pc[w] = "sleeping" => slot[w] <= wakeAt[w] /\ now <= slot[w] + MaxLag

OwnGets ==
    /\ \A w \in Worker : get[w] <= issued
    /\ \A v, w \in Worker :
         v # w /\ pc[v] # "idle" /\ pc[w] # "idle" => get[v] # get[w]

SleepersHoldSlots ==
    \A w \in Worker : pc[w] = "sleeping" /\ Interval(target[w]) > 0 =>
        [host |-> target[w], at |-> slot[w], get |-> get[w]] \in slots

SentEarlier ==
    \A a \in sent :
        /\ a.get <= issued
        /\ \A w \in Worker : pc[w] # "idle" /\ a.get = get[w] =>
             pc[w] \in {"waiting", "backoff"}

SentOnce == \A a, b \in sent : a.get = b.get => a = b

SentInTime ==
    \A a \in sent :
        /\ a.slot <= a.at /\ a.at <= a.slot + MaxLag
        /\ Interval(a.host) > 0 =>
             [host |-> a.host, at |-> a.slot, get |-> a.get] \in slots

SendInv ==
    /\ OnTime /\ OwnGets /\ SleepersHoldSlots
    /\ SentEarlier /\ SentOnce /\ SentInTime

LEMMA SendInvStart ==
    ASSUME TypeOK, SendInv, NEW w \in Worker, NEW h \in Host, Start(w, h)
    PROVE  SendInv'
<1> USE DEF Start, TypeOK, PC, limiterVars
<1> HIDE DEF SendInv
<1>0. get'[w] = issued + 1 /\ issued' = issued + 1 /\ sent' = sent /\ slots' = slots
  OBVIOUS
<1>a. /\ pc'[w] \in {"sleeping", "locking"} /\ target'[w] = h /\ retries'[w] = 0
      /\ slot'[w] = now /\ readAt'[w] = now /\ wakeAt'[w] = now /\ now' = now
      /\ pc'[w] = "sleeping" => Interval(h) = 0
  OBVIOUS
<1>b. \A v \in Worker : v # w =>
        /\ pc'[v] = pc[v] /\ target'[v] = target[v] /\ retries'[v] = retries[v]
        /\ slot'[v] = slot[v] /\ readAt'[v] = readAt[v] /\ wakeAt'[v] = wakeAt[v]
        /\ get'[v] = get[v]
  OBVIOUS
<1> HIDE DEF Start
<1>1. OnTime'
  BY <1>a, <1>b, NumbersAssumption DEF OnTime, SendInv
<1>2. OwnGets'
  BY <1>0, <1>b DEF OwnGets, SendInv
<1>3. SleepersHoldSlots'
  BY <1>0, <1>a, <1>b, IntervalType DEF SleepersHoldSlots, SendInv, Interval
<1>4. SentEarlier'
  <2> SUFFICES ASSUME NEW a \in sent
               PROVE  /\ a.get <= issued'
                      /\ \A v \in Worker : pc'[v] # "idle" /\ a.get = get'[v] =>
                           pc'[v] \in {"waiting", "backoff"}
    BY <1>0 DEF SentEarlier
  <2>1. a.get <= issued /\ a.get \in Nat
    BY DEF SendInv, SentEarlier, Sending
  <2>2. a.get # get'[w] /\ a.get <= issued'
    BY <2>1, <1>0
  <2> QED BY <2>2, <1>b DEF SendInv, SentEarlier
<1>5. SentOnce' /\ SentInTime'
  BY <1>0 DEF SendInv, SentOnce, SentInTime, Interval
<1> QED BY <1>1, <1>2, <1>3, <1>4, <1>5 DEF SendInv

LEMMA SendInvReserve ==
    ASSUME TypeOK, SendInv, NEW w \in Worker, Reserve(w)
    PROVE  SendInv'
<1> DEFINE s == Later(readAt[w], nextAllowed[target[w]])
<1>a. s \in Nat /\ s >= readAt[w] /\ readAt[w] \in Nat
  BY DEF TypeOK, Later
<1>b. /\ pc[w] = "locking" /\ pc'[w] = "sleeping" /\ slot'[w] = s
      /\ wakeAt'[w] = now + (s - readAt[w]) /\ now' = now /\ issued' = issued
      /\ sent' = sent /\ target' = target /\ get' = get /\ retries' = retries
      /\ readAt' = readAt
      /\ slots' = slots \cup {[host |-> target[w], at |-> s, get |-> get[w]]}
  BY DEF Reserve, TypeOK, FreeSlot, Delay
<1>c. \A v \in Worker : v # w =>
        pc'[v] = pc[v] /\ slot'[v] = slot[v] /\ wakeAt'[v] = wakeAt[v]
  BY DEF Reserve, TypeOK
<1> HIDE DEF s
<1>1. OnTime'
  <2>1. s <= wakeAt'[w] /\ now <= s + MaxLag
    BY <1>a, <1>b, NumbersAssumption DEF SendInv, OnTime, TypeOK
  <2> QED BY <2>1, <1>b, <1>c DEF SendInv, OnTime
<1>2. OwnGets'
  BY <1>b, <1>c DEF SendInv, OwnGets, TypeOK, PC
<1>3. SleepersHoldSlots'
  BY <1>b, <1>c DEF SendInv, SleepersHoldSlots, Interval
<1>4. SentEarlier'
  BY <1>b, <1>c DEF SendInv, SentEarlier
<1>5. SentOnce' /\ SentInTime'
  BY <1>b DEF SendInv, SentOnce, SentInTime, Interval
<1> QED BY <1>1, <1>2, <1>3, <1>4, <1>5 DEF SendInv

LEMMA SendInvSend ==
    ASSUME TypeOK, SendInv, NEW w \in Worker, Send(w)
    PROVE  SendInv'
<1> DEFINE new == [host |-> target[w], at |-> now, slot |-> slot[w],
                   get |-> get[w]]
<1>a. /\ pc[w] \in {"sleeping", "backoff"} /\ now >= wakeAt[w] /\ pc'[w] = "waiting"
      /\ sent' = IF pc[w] = "backoff" THEN sent ELSE sent \cup {new}
      /\ UNCHANGED <<now, limiterVars, callVars, wakeAt, retries, issued>>
  BY DEF Send, TypeOK
<1>b. \A v \in Worker : v # w => pc'[v] = pc[v]
  BY DEF Send, TypeOK
<1>c. /\ new.host = target[w] /\ new.at = now /\ new.slot = slot[w]
      /\ new.get = get[w]
  OBVIOUS
<1>d. \A a \in sent' : a \in sent \/ (a = new /\ pc[w] = "sleeping")
  BY <1>a
<1> HIDE DEF new
<1>1. OnTime'
  BY <1>a, <1>b DEF SendInv, OnTime, callVars
<1>2. OwnGets'
  BY <1>a, <1>b DEF SendInv, OwnGets, callVars
<1>3. SleepersHoldSlots'
  BY <1>a, <1>b DEF SendInv, SleepersHoldSlots, callVars, limiterVars, Interval
<1>4. SentEarlier'
  <2> SUFFICES ASSUME NEW a \in sent'
               PROVE  /\ a.get <= issued
                      /\ \A v \in Worker : pc'[v] # "idle" /\ a.get = get[v] =>
                           pc'[v] \in {"waiting", "backoff"}
    BY <1>a DEF SentEarlier, callVars
  <2>1. CASE a \in sent
    BY <2>1, <1>a, <1>b DEF SendInv, SentEarlier
  <2>2. CASE a = new
    <3>1. a.get = get[w] /\ get[w] <= issued
      BY <2>2, <1>c DEF SendInv, OwnGets
    <3>2. \A v \in Worker : v # w /\ pc'[v] # "idle" => get[v] # get[w]
      BY <1>a, <1>b DEF SendInv, OwnGets
    <3> QED BY <3>1, <3>2, <1>a
  <2> QED BY <2>1, <2>2, <1>d
<1>5. SentOnce'
  <2>1. pc[w] = "sleeping" => \A a \in sent : a.get # new.get
    BY <1>c DEF SendInv, SentEarlier
  <2> QED BY <2>1, <1>d DEF SendInv, SentOnce
<1>6. SentInTime'
  <2> SUFFICES ASSUME NEW a \in sent'
               PROVE  /\ a.slot <= a.at /\ a.at <= a.slot + MaxLag
                      /\ Interval(a.host) > 0 =>
                           [host |-> a.host, at |-> a.slot, get |-> a.get] \in slots
    BY <1>a DEF SentInTime, limiterVars, Interval
  <2>1. CASE a \in sent
    BY <2>1 DEF SendInv, SentInTime
  <2>2. CASE a = new /\ pc[w] = "sleeping"
    <3>1. slot[w] <= now /\ now <= slot[w] + MaxLag
      BY <2>2, <1>a DEF SendInv, OnTime, TypeOK
    <3>2. Interval(target[w]) > 0 =>
            [host |-> target[w], at |-> slot[w], get |-> get[w]] \in slots
      BY <2>2 DEF SendInv, SleepersHoldSlots
    <3> QED BY <3>1, <3>2, <2>2, <1>c
  <2> QED BY <2>1, <2>2, <1>d
<1> QED BY <1>1, <1>2, <1>3, <1>4, <1>5, <1>6 DEF SendInv

LEMMA SendInvFault ==
    ASSUME TypeOK, SendInv, NEW w \in Worker, Fault(w)
    PROVE  SendInv'
<1>a. /\ pc[w] = "waiting" /\ pc'[w] = "backoff" /\ retries'[w] = retries[w] + 1
      /\ retries[w] \in Nat
      /\ UNCHANGED <<now, limiterVars, callVars, issued, sent>>
  BY NumbersAssumption DEF Fault, RetryLeft, TypeOK
<1>b. \A v \in Worker : v # w =>
        pc'[v] = pc[v] /\ retries'[v] = retries[v] /\ wakeAt'[v] = wakeAt[v]
  BY DEF Fault, TypeOK
<1>1. OnTime'
  BY <1>a, <1>b DEF SendInv, OnTime, callVars
<1>2. OwnGets'
  BY <1>a, <1>b DEF SendInv, OwnGets, callVars
<1>3. SleepersHoldSlots'
  BY <1>a, <1>b DEF SendInv, SleepersHoldSlots, callVars, limiterVars, Interval
<1>4. SentEarlier'
  BY <1>a, <1>b DEF SendInv, SentEarlier, callVars
<1>5. SentOnce' /\ SentInTime'
  BY <1>a DEF SendInv, SentOnce, SentInTime, limiterVars, Interval
<1> QED BY <1>1, <1>2, <1>3, <1>4, <1>5 DEF SendInv

LEMMA SendInvAnswered ==
    ASSUME TypeOK, SendInv, NEW w \in Worker, Answered(w)
    PROVE  SendInv'
<1>a. /\ pc'[w] = "idle" /\ get'[w] = 0 /\ issued \in Nat
      /\ UNCHANGED <<now, limiterVars, target, issued, sent>>
  BY DEF Answered, TypeOK
<1>b. \A v \in Worker : v # w =>
        /\ pc'[v] = pc[v] /\ retries'[v] = retries[v] /\ wakeAt'[v] = wakeAt[v]
        /\ slot'[v] = slot[v] /\ readAt'[v] = readAt[v] /\ get'[v] = get[v]
  BY DEF Answered, TypeOK
<1>1. OnTime'
  BY <1>a, <1>b DEF SendInv, OnTime
<1>2. OwnGets'
  BY <1>a, <1>b DEF SendInv, OwnGets
<1>3. SleepersHoldSlots'
  BY <1>a, <1>b DEF SendInv, SleepersHoldSlots, limiterVars, Interval
<1>4. SentEarlier'
  BY <1>a, <1>b DEF SendInv, SentEarlier
<1>5. SentOnce' /\ SentInTime'
  BY <1>a DEF SendInv, SentOnce, SentInTime, limiterVars, Interval
<1> QED BY <1>1, <1>2, <1>3, <1>4, <1>5 DEF SendInv

(* Sending keeps its invariant, whatever a retry does meanwhile.           *)
THEOREM SendingHolds == Spec => []SendInv
<1>1. Init => SendInv
  BY DEF Init, SendInv, OnTime, OwnGets, SleepersHoldSlots, SentEarlier, SentOnce,
         SentInTime
<1>2. TypeOK /\ SendInv /\ [Next]_vars => SendInv'
  <2> SUFFICES ASSUME TypeOK, SendInv, [Next]_vars PROVE SendInv'
    OBVIOUS
  <2>1. CASE Tick
    <3>1. /\ UNCHANGED <<limiterVars, pc, callVars, wakeAt, retries, issued, sent>>
          /\ now' = now + 1 /\ \A w \in Worker : ~Overdue(w)
      BY <2>1 DEF Tick
    <3>2. OnTime'
      <4> SUFFICES ASSUME NEW w \in Worker
                   PROVE  /\ pc[w] = "locking" => readAt[w] <= now + 1
                          /\ pc[w] \in {"locking", "sleeping"} => now + 1 <= slot[w] + MaxLag
        BY <3>1 DEF SendInv, OnTime, callVars
      <4> QED BY <3>1, NumbersAssumption DEF SendInv, OnTime, Overdue, TypeOK
    <3>3. OwnGets' /\ SleepersHoldSlots' /\ SentEarlier' /\ SentOnce' /\ SentInTime'
      BY <3>1 DEF SendInv, OwnGets, SleepersHoldSlots, SentEarlier, SentOnce, SentInTime,
                  callVars, limiterVars, Interval
    <3> QED BY <3>2, <3>3 DEF SendInv
  <2>2. ASSUME NEW w \in Worker, NEW h \in Host, Start(w, h) PROVE SendInv'
    BY <2>2, SendInvStart
  <2>3. ASSUME NEW w \in Worker, Reserve(w) PROVE SendInv'
    BY <2>3, SendInvReserve
  <2>4. ASSUME NEW w \in Worker, Send(w) PROVE SendInv'
    BY <2>4, SendInvSend
  <2>5. ASSUME NEW w \in Worker, Fault(w) PROVE SendInv'
    BY <2>5, SendInvFault
  <2>6. ASSUME NEW w \in Worker, Answered(w) PROVE SendInv'
    BY <2>6, SendInvAnswered
  <2>7. CASE UNCHANGED vars
    BY <2>7 DEF vars, SendInv, OnTime, OwnGets, SleepersHoldSlots, SentEarlier, SentOnce,
                SentInTime, callVars, limiterVars, Interval
  <2> QED BY <2>1, <2>2, <2>3, <2>4, <2>5, <2>6, <2>7 DEF Next, Finished
<1> QED BY <1>1, <1>2, TypeCorrect, PTL DEF Spec

(* The first attempts of two GETs to one host are an interval apart, less  *)
(* the scheduling lag.                                                     *)
THEOREM FirstAttemptsAlwaysSpaced == Spec => []FirstAttemptsSpaced
<1>1. TypeOK /\ ReservationInv /\ SendInv => FirstAttemptsSpaced
  <2> SUFFICES ASSUME TypeOK, ReservationInv, SendInv,
                      NEW a \in sent, NEW b \in sent, a # b, a.host = b.host
               PROVE  Apart(a.at, b.at, Interval(a.host) - MaxLag)
    BY DEF FirstAttemptsSpaced
  <2>1. /\ a.at \in Nat /\ b.at \in Nat /\ a.slot \in Nat /\ b.slot \in Nat
        /\ Interval(a.host) \in Nat /\ MaxLag \in Nat
    BY IntervalType, NumbersAssumption DEF TypeOK, Sending
  <2>2. /\ a.slot <= a.at /\ a.at <= a.slot + MaxLag
        /\ b.slot <= b.at /\ b.at <= b.slot + MaxLag
    BY DEF SendInv, SentInTime
  <2>3. CASE Interval(a.host) = 0
    BY <2>1, <2>3 DEF Apart
  <2>4. CASE Interval(a.host) > 0
    <3> DEFINE sa == [host |-> a.host, at |-> a.slot, get |-> a.get]
               sb == [host |-> b.host, at |-> b.slot, get |-> b.get]
    <3>1. a.get # b.get
      BY DEF SendInv, SentOnce
    <3>2. sa \in slots /\ sb \in slots
      BY <2>4 DEF SendInv, SentInTime
    <3>3. Apart(a.slot, b.slot, Interval(a.host))
      BY <3>1, <3>2 DEF ReservationInv, SlotsSpaced
    <3> QED BY <2>1, <2>2, <3>3 DEF Apart
  <2> QED BY <2>1, <2>3, <2>4
<1> QED BY <1>1, TypeCorrect, ReservationsHold, SendingHolds, PTL
-----------------------------------------------------------------------------
(* The queue.  The bound at the present moment says too little of the next *)
(* one, when a thread has left the queue: seen from any moment t to come,  *)
(* the next free slot is an interval away for each thread that will still  *)
(* be asleep then, and one more.                                           *)
AsleepAt(h, t) == {w \in Queued(h) : slot[w] > t}

BacklogInv ==
    \A h \in Host : \A t \in Nat :
        t >= now =>
            nextAllowed[h] <= t + Interval(h) * (1 + Cardinality(AsleepAt(h, t)))

LEMMA Times == \A i, k \in Nat : i * (k + 1) = i * k + i /\ i * k \in Nat
OBVIOUS

LEMMA TimesGrows == \A i, k, m \in Nat : k <= m => i * k <= i * m
<1> SUFFICES ASSUME NEW i \in Nat, NEW k \in Nat, NEW m \in Nat, k <= m
             PROVE  i * k <= i * m
  OBVIOUS
<1>1. PICK d \in Nat : m = k + d
  BY m - k \in Nat /\ m = k + (m - k)
<1>2. i * (k + d) = i * k + i * d /\ i * d \in Nat /\ i * k \in Nat
  OBVIOUS
<1> QED BY <1>1, <1>2

LEMMA AsleepType ==
    ASSUME NEW h \in Host, NEW t \in Nat
    PROVE  IsFiniteSet(AsleepAt(h, t)) /\ Cardinality(AsleepAt(h, t)) \in Nat
<1>1. AsleepAt(h, t) \in SUBSET Worker
  BY DEF AsleepAt, Queued
<1> QED BY <1>1, WorkerAssumption, FS_Subset, FS_CardinalityType

(* A thread that holds no slot in the future may come and go.              *)
LEMMA BacklogStable ==
    ASSUME TypeOK, BacklogInv, nextAllowed' = nextAllowed, now' \in Nat, now' >= now,
           \A w \in Worker : \A t \in Nat :
               t >= now' => /\ (pc'[w] = "sleeping" /\ slot'[w] > t)
                                   <=> (pc[w] = "sleeping" /\ slot[w] > t)
                            /\ pc[w] = "sleeping" /\ slot[w] > t => target'[w] = target[w]
    PROVE  BacklogInv'
<1> SUFFICES ASSUME NEW h \in Host, NEW t \in Nat, t >= now'
             PROVE  nextAllowed'[h] <= t + Interval(h) * (1 + Cardinality(AsleepAt(h, t)'))
  BY DEF BacklogInv, Interval
<1>1. AsleepAt(h, t)' = AsleepAt(h, t)
  BY DEF AsleepAt, Queued
<1>2. t >= now
  BY DEF TypeOK
<1> QED BY <1>1, <1>2 DEF BacklogInv

LEMMA BacklogReserve ==
    ASSUME TypeOK, SendInv, BacklogInv, NEW w \in Worker, Reserve(w)
    PROVE  BacklogInv'
<1> DEFINE g == target[w]
           s == FreeSlot(w)
<1>1. /\ g \in Host /\ readAt[w] \in Nat /\ nextAllowed[g] \in Nat /\ now \in Nat
      /\ readAt[w] <= now /\ s \in Nat
      /\ s = nextAllowed[g] \/ s = readAt[w]
  BY DEF Reserve, TypeOK, SendInv, OnTime, FreeSlot, Later
<1>2. /\ pc[w] = "locking" /\ pc'[w] = "sleeping" /\ slot'[w] = s
      /\ now' = now /\ target' = target
      /\ nextAllowed'[g] = s + Interval(g)
      /\ \A h \in Host : h # g => nextAllowed'[h] = nextAllowed[h]
  BY DEF Reserve, TypeOK, AfterSlot
<1>3. \A v \in Worker : v # w => pc'[v] = pc[v] /\ slot'[v] = slot[v]
  BY DEF Reserve, TypeOK
<1> HIDE DEF s, g
<1> SUFFICES ASSUME NEW h \in Host, NEW t \in Nat, t >= now
             PROVE  nextAllowed'[h] <= t + Interval(h) * (1 + Cardinality(AsleepAt(h, t)'))
  BY <1>2 DEF BacklogInv, Interval
<1> DEFINE old == AsleepAt(h, t)
           new == AsleepAt(h, t)'
<1>4. nextAllowed[h] <= t + Interval(h) * (1 + Cardinality(old))
  BY DEF BacklogInv
<1>5. IsFiniteSet(old) /\ Cardinality(old) \in Nat /\ Interval(h) \in Nat
  BY AsleepType, IntervalType
<1>6. new = IF h = g /\ s > t THEN old \cup {w} ELSE old
  BY <1>2, <1>3 DEF AsleepAt, Queued, g
<1>7. w \notin old
  BY <1>2 DEF AsleepAt, Queued
<1> HIDE DEF old, new
<1>8. Cardinality(new) = IF h = g /\ s > t THEN Cardinality(old) + 1 ELSE Cardinality(old)
  BY <1>5, <1>6, <1>7, FS_AddElement
<1>9. CASE h # g
  BY <1>9, <1>2, <1>4, <1>8 DEF new
<1>10. CASE h = g /\ s > t
  <2>1. s = nextAllowed[h]
    BY <1>1, <1>10
  <2>2. Interval(h) * (1 + Cardinality(new))
          = Interval(h) * (1 + Cardinality(old)) + Interval(h)
    BY <1>5, <1>8, <1>10, Times
  <2> QED BY <1>1, <1>2, <1>4, <1>5, <1>10, <2>1, <2>2, Times DEF new
<1>11. CASE h = g /\ ~(s > t)
  <2>1. Interval(h) <= Interval(h) * (1 + Cardinality(new))
    BY <1>5, <1>8, <1>11, Times
  <2> QED BY <1>1, <1>2, <1>5, <1>8, <1>11, <2>1, Times DEF new
<1> QED BY <1>9, <1>10, <1>11

(* The queue keeps its bound, for any number of threads.                   *)
THEOREM BacklogHolds == Spec => []BacklogInv
<1>1. Init => BacklogInv
  <2> SUFFICES ASSUME Init, NEW h \in Host, NEW t \in Nat
               PROVE  nextAllowed[h] <= t + Interval(h) * (1 + Cardinality(AsleepAt(h, t)))
    BY DEF BacklogInv
  <2>1. nextAllowed[h] = 0
    BY DEF Init
  <2>2. Interval(h) * (1 + Cardinality(AsleepAt(h, t))) \in Nat
    BY AsleepType, IntervalType, Times
  <2> QED BY <2>1, <2>2
<1>2. TypeOK /\ SendInv /\ BacklogInv /\ [Next]_vars => BacklogInv'
  <2> SUFFICES ASSUME TypeOK, SendInv, BacklogInv, [Next]_vars PROVE BacklogInv'
    OBVIOUS
  <2>1. CASE Tick
    BY <2>1, BacklogStable DEF Tick, TypeOK, limiterVars, callVars
  <2>2. ASSUME NEW w \in Worker, NEW h \in Host, Start(w, h) PROVE BacklogInv'
    <3>1. /\ UNCHANGED <<now, nextAllowed>> /\ pc[w] # "sleeping" /\ slot'[w] = now
          /\ \A v \in Worker : v # w =>
                pc'[v] = pc[v] /\ slot'[v] = slot[v] /\ target'[v] = target[v]
      BY <2>2 DEF Start, TypeOK, limiterVars
    <3> QED BY <3>1, BacklogStable DEF TypeOK
  <2>3. ASSUME NEW w \in Worker, Reserve(w) PROVE BacklogInv'
    BY <2>3, BacklogReserve
  <2>4. ASSUME NEW w \in Worker, Send(w) PROVE BacklogInv'
    <3>1. /\ UNCHANGED <<now, nextAllowed, slot, target>> /\ pc'[w] = "waiting"
          /\ pc[w] = "sleeping" => slot[w] <= now
          /\ \A v \in Worker : v # w => pc'[v] = pc[v]
      BY <2>4 DEF Send, TypeOK, SendInv, OnTime, limiterVars, callVars
    <3> QED BY <3>1, BacklogStable DEF TypeOK
  <2>5. ASSUME NEW w \in Worker, Fault(w) PROVE BacklogInv'
    <3>1. /\ UNCHANGED <<now, nextAllowed, slot, target>>
          /\ pc[w] = "waiting" /\ pc'[w] = "backoff"
          /\ \A v \in Worker : v # w => pc'[v] = pc[v]
      BY <2>5 DEF Fault, TypeOK, limiterVars, callVars
    <3> QED BY <3>1, BacklogStable DEF TypeOK
  <2>6. ASSUME NEW w \in Worker, Answered(w) PROVE BacklogInv'
    <3>1. /\ UNCHANGED <<now, nextAllowed, target>>
          /\ pc[w] = "waiting" /\ pc'[w] = "idle"
          /\ \A v \in Worker : v # w => pc'[v] = pc[v] /\ slot'[v] = slot[v]
      BY <2>6 DEF Answered, TypeOK, limiterVars
    <3> QED BY <3>1, BacklogStable DEF TypeOK
  <2>7. CASE UNCHANGED vars
    BY <2>7, BacklogStable DEF TypeOK, vars, limiterVars, callVars
  <2> QED BY <2>1, <2>2, <2>3, <2>4, <2>5, <2>6, <2>7 DEF Next, Finished
<1> QED BY <1>1, <1>2, TypeCorrect, SendingHolds, PTL DEF Spec

(* The next free slot of a host is never more than an interval away for    *)
(* each of its threads that is asleep, and one more, for any number of     *)
(* threads.                                                                *)
THEOREM BacklogAlwaysBounded == Spec => []BacklogBounded
<1>1. TypeOK /\ BacklogInv => BacklogBounded
  <2> SUFFICES ASSUME TypeOK, BacklogInv, NEW h \in Host
               PROVE  nextAllowed[h] <= now + Interval(h) * (1 + Cardinality(Queued(h)))
    BY DEF BacklogBounded
  <2>1. now \in Nat /\ nextAllowed[h] \in Nat /\ Interval(h) \in Nat
    BY IntervalType DEF TypeOK
  <2>2. Queued(h) \in SUBSET Worker /\ AsleepAt(h, now) \in SUBSET Queued(h)
    BY DEF Queued, AsleepAt
  <2>3. /\ IsFiniteSet(Queued(h)) /\ Cardinality(Queued(h)) \in Nat
        /\ Cardinality(AsleepAt(h, now)) \in Nat
        /\ Cardinality(AsleepAt(h, now)) <= Cardinality(Queued(h))
    BY <2>1, <2>2, WorkerAssumption, FS_Subset, FS_CardinalityType, AsleepType
  <2>4. Interval(h) * (1 + Cardinality(AsleepAt(h, now)))
          <= Interval(h) * (1 + Cardinality(Queued(h)))
    BY <2>1, <2>3, TimesGrows
  <2>5. nextAllowed[h] <= now + Interval(h) * (1 + Cardinality(AsleepAt(h, now)))
    BY <2>1 DEF BacklogInv
  <2> QED BY <2>1, <2>3, <2>4, <2>5, Times
<1> QED BY <1>1, BacklogHolds, TypeCorrect, PTL
-----------------------------------------------------------------------------
(* Progress.  A thread sleeps no longer than its slot and the lag, because *)
(* it read the clock no longer than the lag before it got the lock.        *)
SleepsInTime == \A w \in Worker : pc[w] = "sleeping" => wakeAt[w] <= slot[w] + MaxLag

LEMMA SleepsInTimeStep ==
    ASSUME TypeOK, SendInv, SleepsInTime, [Next]_vars
    PROVE  SleepsInTime'
<1> USE DEF SleepsInTime, TypeOK, PC
<1>1. CASE Tick \/ Finished \/ UNCHANGED vars
  BY <1>1 DEF Tick, Finished, vars, callVars
<1>2. ASSUME NEW w \in Worker, NEW h \in Host, Start(w, h) PROVE SleepsInTime'
  BY <1>2, NumbersAssumption DEF Start
<1>3. ASSUME NEW w \in Worker, Reserve(w) PROVE SleepsInTime'
  <2>1. /\ FreeSlot(w) \in Nat /\ now \in Nat /\ readAt[w] \in Nat /\ MaxLag \in Nat
        /\ now <= readAt[w] + MaxLag
    BY <1>3, NumbersAssumption DEF Reserve, SendInv, OnTime, FreeSlot, Later
  <2>2. now + Delay(w, FreeSlot(w)) <= FreeSlot(w) + MaxLag
    BY <2>1 DEF Delay
  <2>3. ASSUME NEW v \in Worker, pc'[v] = "sleeping"
        PROVE  wakeAt'[v] <= slot'[v] + MaxLag
    BY <1>3, <2>2, <2>3 DEF Reserve
  <2> QED BY <2>3
<1>4. ASSUME NEW w \in Worker, Send(w) \/ Fault(w) \/ Answered(w) PROVE SleepsInTime'
  BY <1>4 DEF Send, Fault, Answered, callVars
<1> QED BY <1>1, <1>2, <1>3, <1>4 DEF Next

(* A thread that the clock waits for can run: it is at the lock, which     *)
(* nobody keeps, or its sleep is over.  MaxLag therefore assumes no more   *)
(* than that threads are scheduled; it never stops the clock for good.     *)
LateCanRun == \A w \in Worker : Overdue(w) => pc[w] = "locking" \/ now >= wakeAt[w]

(* The clock waits for no thread that cannot run.                          *)
THEOREM LateThreadsCanRun == Spec => []LateCanRun
<1>1. Init => SleepsInTime
  BY DEF Init, SleepsInTime
<1>2. TypeOK /\ SendInv /\ SleepsInTime /\ [Next]_vars => SleepsInTime'
  BY SleepsInTimeStep
<1>3. TypeOK /\ SleepsInTime => LateCanRun
  BY NumbersAssumption DEF TypeOK, SleepsInTime, LateCanRun, Overdue
<1> QED BY <1>1, <1>2, <1>3, SendingHolds, TypeCorrect, PTL DEF Spec

(* Lines a GET has still to run: every retry is a sleep and a request.     *)
RetriesLeft(w) == MaxRetries - retries[w]
Left(w) ==
    CASE pc[w] = "locking" -> 2 * RetriesLeft(w) + 3
      [] pc[w] \in {"sleeping", "backoff"} -> 2 * RetriesLeft(w) + 2
      [] pc[w] = "waiting" -> 2 * RetriesLeft(w) + 1
      [] OTHER -> 0
GoesOn(w) == Reserve(w) \/ Send(w) \/ Fault(w) \/ Answered(w)

(* Each line of a GET, a retry included, lowers that number, and nothing   *)
(* another thread or the clock does raises it: a GET is over after at most *)
(* 2 * MaxRetries + 3 lines of its own, however many GETs go on beside it. *)
EveryLineCounts ==
    [][\A w \in Worker :
          /\ Left(w) \in 0 .. (2 * MaxRetries + 3)
          /\ pc[w] # "idle" => Left(w)' <= Left(w)
          /\ GoesOn(w) => Left(w)' < Left(w)]_vars

(* A GET is over after at most that many lines, whatever the other threads *)
(* do and however often it fails.                                          *)
THEOREM EveryLineIsProgress == Spec => EveryLineCounts
<1> DEFINE Counts(w) == /\ Left(w) \in 0 .. (2 * MaxRetries + 3)
                        /\ pc[w] # "idle" => Left(w)' <= Left(w)
                        /\ GoesOn(w) => Left(w)' < Left(w)
<1>1. TypeOK /\ TypeOK' /\ [Next]_vars => [\A w \in Worker : Counts(w)]_vars
  <2> SUFFICES ASSUME TypeOK, TypeOK', [Next]_vars, NEW w \in Worker PROVE Counts(w)
    OBVIOUS
  <2>0. MaxRetries \in Nat /\ retries[w] \in 0..MaxRetries /\ retries'[w] \in 0..MaxRetries
    BY NumbersAssumption DEF TypeOK
  <2>1. Left(w) \in 0 .. (2 * MaxRetries + 3)
    BY <2>0 DEF Left, RetriesLeft
  <2>2. ASSUME GoesOn(w) PROVE Left(w)' < Left(w)
    <3>1. CASE Reserve(w)
      BY <2>0, <3>1 DEF Reserve, Left, RetriesLeft, TypeOK
    <3>2. CASE Send(w)
      BY <2>0, <3>2 DEF Send, Left, RetriesLeft, TypeOK
    <3>3. CASE Fault(w)
      BY <2>0, <3>3 DEF Fault, Left, RetriesLeft, TypeOK
    <3>4. CASE Answered(w)
      BY <2>0, <3>4 DEF Answered, Left, RetriesLeft, TypeOK
    <3> QED BY <2>2, <3>1, <3>2, <3>3, <3>4 DEF GoesOn
  <2>3. ASSUME pc[w] # "idle", ~GoesOn(w) PROVE Left(w)' = Left(w)
    <3>1. UNCHANGED <<pc[w], retries[w]>>
      <4>1. CASE Tick \/ Finished \/ UNCHANGED vars
        BY <4>1 DEF Tick, Finished, vars
      <4>2. ASSUME NEW v \in Worker, NEW h \in Host, Start(v, h)
            PROVE  UNCHANGED <<pc[w], retries[w]>>
        BY <2>3, <4>2 DEF Start, TypeOK
      <4>3. ASSUME NEW v \in Worker \ {w}, GoesOn(v) PROVE UNCHANGED <<pc[w], retries[w]>>
        BY <4>3 DEF GoesOn, Reserve, Send, Fault, Answered, TypeOK
      <4> QED BY <2>3, <4>1, <4>2, <4>3 DEF Next, GoesOn
    <3> QED BY <3>1 DEF Left, RetriesLeft
  <2>4. Left(w)' \in Nat
    BY <2>0 DEF Left, RetriesLeft
  <2>5. GoesOn(w) => Left(w)' < Left(w)
    BY <2>2
  <2>6. pc[w] # "idle" /\ ~GoesOn(w) => Left(w)' = Left(w)
    BY <2>3
  <2> HIDE DEF Left, GoesOn
  <2> QED BY <2>1, <2>4, <2>5, <2>6
<1> QED BY <1>1, TypeCorrect, PTL DEF Spec, EveryLineCounts
=============================================================================
