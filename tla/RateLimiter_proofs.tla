------------------------- MODULE RateLimiter_proofs -------------------------
(***************************************************************************)
(* Proofs about RateLimiter, for any addresses, rate, burst, sweep         *)
(* interval and lag that satisfy its assumptions.                          *)
(***************************************************************************)
EXTENDS RateLimiter, TLAPS

USE AddressesAssumption, RateAssumption, TimeAssumption

-----------------------------------------------------------------------------
(* Helpers *)

\* A refilled bucket lies between empty and full.
LEMMA RefilledRange ==
  ASSUME TypeOK, NEW k \in DOMAIN visitors
  PROVE  /\ Refilled(k) \in 0..Capacity
         /\ visitors[k].tokens \in 0..Capacity
         /\ visitors[k].last \in 0..now
         /\ now \in Nat
<1>1. visitors[k] \in [tokens : 0..Capacity, last : 0..now] /\ now \in Nat
  BY DEF TypeOK, Bucket
<1>2. /\ visitors[k].tokens \in 0..Capacity
      /\ visitors[k].last \in 0..now
  BY <1>1
<1> QED BY <1>1, <1>2 DEF Refilled

\* The address of a request is one the table may hold.
LEMMA KeyType == ASSUME NEW q \in Requests PROVE Key(q) \in Keys
BY DEF Key, Keys, Requests

\* Requests of one sender share a bucket.
LEMMA OneBucketPerSender ==
  ASSUME NEW q \in Requests, NEW r \in Requests, Sender(q) = Sender(r)
  PROVE  Key(q) = Key(r)
<1>1. /\ q.peer \in Peers /\ r.peer \in Peers
      /\ q.header \in Claims \union {NoHeader} /\ r.header \in Claims \union {NoHeader}
  BY DEF Requests
<1>2. q.peer = r.peer
  BY <1>1 DEF Sender
<1>3. CASE q.peer \in Trusted
  BY <1>1, <1>2, <1>3 DEF Sender, Key
<1>4. CASE q.peer \notin Trusted
  BY <1>1, <1>2, <1>4 DEF Key
<1> QED BY <1>3, <1>4

-----------------------------------------------------------------------------
(* Types *)

\* The table is empty at the start.
LEMMA TypeInit == Init => TypeOK
BY DEF Init, TypeOK

\* No bucket leaves its bounds.
LEMMA TypeStep == TypeOK /\ [Next]_vars => TypeOK'
<1> SUFFICES ASSUME TypeOK, [Next]_vars PROVE TypeOK'
  OBVIOUS
<1>1. ASSUME Tick PROVE TypeOK'
  <2>1. now' \in 0..MaxTime /\ now' = now + 1 /\ now \in Nat /\ now' <= due + Lag
    BY <1>1 DEF Tick, TypeOK
  <2>2. \A k \in DOMAIN visitors : visitors[k] \in [tokens : 0..Capacity, last : 0..now']
    BY <2>1 DEF TypeOK, Bucket
  <2>3. watch' = NotWatching
        \/ watch' \in [from : Peers \X (Claims \union {NoHeader}), key : Keys, budget : Int]
    BY <1>1 DEF Tick, TypeOK
  <2> QED BY <1>1, <2>1, <2>2, <2>3 DEF Tick, TypeOK, Bucket
<1>2. ASSUME Sweep PROVE TypeOK'
  BY <1>2 DEF Sweep, TypeOK, Bucket, Restrict
<1>3. ASSUME NEW q \in Requests, NEW b \in [tokens : 0..Capacity, last : 0..now],
             visitors' = With(Key(q), b), Note(q), UNCHANGED <<now, due>>
      PROVE TypeOK'
  <2>1. DOMAIN visitors' \subseteq Keys
    BY <1>3, KeyType DEF TypeOK, With
  <2>2. \A k \in DOMAIN visitors' : visitors'[k] \in [tokens : 0..Capacity, last : 0..now]
    BY <1>3 DEF TypeOK, Bucket, With
  <2>3. watch' = NotWatching
        \/ watch' \in [from : Peers \X (Claims \union {NoHeader}), key : Keys, budget : Int]
    BY <1>3 DEF Note, TypeOK
  <2> QED BY <1>3, <2>1, <2>2, <2>3 DEF TypeOK, Bucket
<1>4. ASSUME NEW q \in Requests, Newcomer(q) PROVE TypeOK'
  <2>1. [tokens |-> Capacity - Cost, last |-> now] \in [tokens : 0..Capacity, last : 0..now]
    BY DEF TypeOK
  <2> QED BY <1>3, <1>4, <2>1 DEF Newcomer
<1>5. ASSUME NEW q \in Requests, Allow(q) PROVE TypeOK'
  <2>1. [tokens |-> Refilled(Key(q)) - Cost, last |-> now]
          \in [tokens : 0..Capacity, last : 0..now]
    BY <1>5, RefilledRange DEF Allow
  <2> QED BY <1>3, <1>5, <2>1 DEF Allow
<1>6. ASSUME NEW q \in Requests, Refuse(q) PROVE TypeOK'
  <2>1. [tokens |-> Refilled(Key(q)), last |-> now] \in [tokens : 0..Capacity, last : 0..now]
    BY <1>6, RefilledRange DEF Refuse
  <2>2. DOMAIN visitors' \subseteq Keys
    BY <1>6, KeyType DEF TypeOK, Refuse, With
  <2>3. \A k \in DOMAIN visitors' : visitors'[k] \in [tokens : 0..Capacity, last : 0..now]
    BY <1>6, <2>1 DEF TypeOK, Bucket, Refuse, With
  <2> QED BY <1>6, <2>2, <2>3 DEF TypeOK, Bucket, Refuse
<1>7. ASSUME NEW q \in Requests, Watch(q) PROVE TypeOK'
  <2>1. Sender(q) \in Peers \X (Claims \union {NoHeader})
    BY DEF Sender, Requests
  <2>2. watch' \in [from : Peers \X (Claims \union {NoHeader}), key : Keys, budget : Int]
    BY <1>7, <2>1, KeyType DEF Watch
  <2> QED BY <1>7, <2>2 DEF Watch, TypeOK, Bucket
<1>8. ASSUME UNCHANGED vars PROVE TypeOK'
  BY <1>8 DEF vars, TypeOK, Bucket
<1> QED BY <1>1, <1>2, <1>4, <1>5, <1>6, <1>7, <1>8 DEF Next

\* The buckets keep their bounds: never a debt, never more than a burst.
THEOREM TypeCorrect == Spec => []TypeOK
BY TypeInit, TypeStep, PTL DEF Spec

-----------------------------------------------------------------------------
(* What gets through *)

\* What is left in a bucket at this moment; an address without one has a full one.
Available(k) == IF k \in DOMAIN visitors THEN Refilled(k) ELSE Capacity

\* The observer expects at least what the bucket it watches could let through
\* at once, and the bucket it watches is the one its sender's requests go to.
Covered ==
  watch # NotWatching =>
    /\ Available(watch.key) <= watch.budget
    /\ \A q \in Requests : Sender(q) = watch.from => Key(q) = watch.key

\* A bucket, or the lack of one, is worth at most a full one.
LEMMA AvailableRange ==
  ASSUME TypeOK, NEW k PROVE Available(k) \in 0..Capacity
BY RefilledRange DEF Available

\* Whatever a bucket can still give, the observer has allowed for.
LEMMA CoveredStep == TypeOK /\ TypeOK' /\ Covered /\ [Next]_vars => Covered'
<1> SUFFICES ASSUME TypeOK, TypeOK', Covered, [Next]_vars, watch' # NotWatching
             PROVE  /\ Available(watch.key)' <= watch'.budget
                    /\ \A q \in Requests : Sender(q) = watch'.from => Key(q) = watch'.key
  BY DEF Covered
<1>a. watch # NotWatching =>
        /\ watch.budget \in Int /\ watch.key \in Keys
        /\ watch \in [from : Peers \X (Claims \union {NoHeader}), key : Keys, budget : Int]
  BY DEF TypeOK
<1>1. ASSUME Tick PROVE Covered'
  <2>1. watch # NotWatching /\ watch' = [watch EXCEPT !.budget = watch.budget + 1]
    BY <1>1 DEF Tick
  <2>2. watch'.budget = watch.budget + 1 /\ watch'.key = watch.key /\ watch'.from = watch.from
    BY <1>a, <2>1
  <2>3. CASE watch.key \in DOMAIN visitors
    <3>1. /\ visitors[watch.key].tokens \in Nat /\ visitors[watch.key].last \in Nat
          /\ now \in Nat /\ now' = now + 1 /\ visitors' = visitors
      BY <1>1, <2>3, RefilledRange DEF Tick
    <3>2. Refilled(watch.key)' <= Refilled(watch.key) + 1
      BY <2>2, <3>1 DEF Refilled
    <3>3. Refilled(watch.key)' \in Int /\ Refilled(watch.key) \in Int
      BY <2>2, <3>1 DEF Refilled
    <3> QED BY <1>a, <2>1, <2>2, <2>3, <3>1, <3>2, <3>3 DEF Covered, Available
  <2>4. CASE watch.key \notin DOMAIN visitors
    BY <1>1, <1>a, <2>1, <2>2, <2>4 DEF Covered, Available, Tick
  <2> QED BY <2>3, <2>4
<1>2. ASSUME Sweep PROVE Covered'
  <2>1. watch' = watch /\ now' = now
    BY <1>2 DEF Sweep
  <2>2. CASE watch.key \in DOMAIN visitors' \/ watch.key \notin DOMAIN visitors
    BY <1>2, <2>1, <2>2 DEF Sweep, Covered, Available, Refilled, Restrict
  <2>3. CASE watch.key \in DOMAIN visitors /\ watch.key \notin DOMAIN visitors'
    <3>1. now - visitors[watch.key].last > Interval
      BY <1>2, <2>3 DEF Sweep, Stale, Restrict
    <3>2. Refilled(watch.key) = Capacity
      BY <2>3, <3>1, RefilledRange DEF Refilled
    <3> QED BY <2>1, <2>3, <3>2 DEF Covered, Available
  <2> QED BY <2>2, <2>3
<1>3. ASSUME NEW q \in Requests, NEW b \in [tokens : 0..Capacity, last : {now}],
             visitors' = With(Key(q), b), UNCHANGED <<now, due>>,
             \/ b.tokens <= Available(Key(q)) - Cost /\ Note(q)
             \/ b.tokens <= Available(Key(q)) /\ UNCHANGED watch
      PROVE Covered'
  <2>1. watch # NotWatching /\ watch'.key = watch.key /\ watch'.from = watch.from
    BY <1>3, <1>a DEF Note
  <2>2. /\ Available(watch.key) \in Int /\ Available(Key(q)) \in Int
        /\ Available(watch.key) <= watch.budget /\ watch.budget \in Int
    BY <1>a, <2>1, AvailableRange DEF Covered
  <2>3. CASE watch.key = Key(q)
    <3>1. Available(watch.key)' = b.tokens
      <4>1. visitors'[Key(q)] = b /\ Key(q) \in DOMAIN visitors'
        BY <1>3 DEF With
      <4>2. b.tokens \in 0..Capacity /\ b.last = now /\ now \in Nat
        BY <1>3 DEF TypeOK
      <4> QED BY <1>3, <2>1, <2>3, <4>1, <4>2 DEF Available, Refilled
    <3>2. CASE b.tokens <= Available(Key(q)) - Cost /\ Note(q)
      <4>1. watch'.budget >= watch.budget - Cost /\ watch'.budget \in Int
        BY <1>a, <2>1, <3>2 DEF Note
      <4> QED BY <2>1, <2>2, <2>3, <3>1, <3>2, <4>1 DEF Covered
    <3>3. CASE b.tokens <= Available(Key(q)) /\ UNCHANGED watch
      BY <2>1, <2>2, <2>3, <3>1, <3>3 DEF Covered
    <3> QED BY <1>3, <3>2, <3>3
  <2>4. CASE watch.key # Key(q)
    <3>1. Available(watch.key)' = Available(watch.key)
      BY <1>3, <2>1, <2>4 DEF Available, Refilled, With
    <3>2. watch.from # Sender(q)
      BY <2>1, <2>4 DEF Covered
    <3>3. watch' = watch
      BY <1>3, <3>2 DEF Note
    <3> QED BY <2>1, <2>2, <3>1, <3>3 DEF Covered
  <2> QED BY <2>3, <2>4
<1>4. ASSUME NEW q \in Requests, Newcomer(q) PROVE Covered'
  <2>1. [tokens |-> Capacity - Cost, last |-> now] \in [tokens : 0..Capacity, last : {now}]
    OBVIOUS
  <2>2. Capacity - Cost <= Available(Key(q)) - Cost
    BY <1>4 DEF Newcomer, Available
  <2> QED BY <1>3, <1>4, <2>1, <2>2 DEF Newcomer
<1>5. ASSUME NEW q \in Requests, Allow(q) PROVE Covered'
  <2>1. [tokens |-> Refilled(Key(q)) - Cost, last |-> now] \in [tokens : 0..Capacity, last : {now}]
    BY <1>5, RefilledRange DEF Allow
  <2>2. Refilled(Key(q)) - Cost <= Available(Key(q)) - Cost
    BY <1>5, RefilledRange DEF Allow, Available
  <2> QED BY <1>3, <1>5, <2>1, <2>2 DEF Allow
<1>6. ASSUME NEW q \in Requests, Refuse(q) PROVE Covered'
  <2>1. [tokens |-> Refilled(Key(q)), last |-> now] \in [tokens : 0..Capacity, last : {now}]
    BY <1>6, RefilledRange DEF Refuse
  <2>2. Refilled(Key(q)) <= Available(Key(q))
    BY <1>6, RefilledRange DEF Refuse, Available
  <2> QED BY <1>3, <1>6, <2>1, <2>2 DEF Refuse
<1>7. ASSUME NEW q \in Requests, Watch(q) PROVE Covered'
  <2>1. watch' = [from |-> Sender(q), key |-> Key(q), budget |-> Capacity]
    BY <1>7 DEF Watch
  <2>2. Available(Key(q)) <= Capacity
    BY AvailableRange
  <2>3. Available(watch.key)' <= Capacity
    BY <1>7, <2>1, <2>2 DEF Watch, Available, Refilled
  <2>4. \A r \in Requests : Sender(r) = watch'.from => Key(r) = watch'.key
    BY <2>1, OneBucketPerSender
  <2> QED BY <2>1, <2>3, <2>4 DEF Covered
<1>8. ASSUME UNCHANGED vars PROVE Covered'
  BY <1>8 DEF vars, Covered, Available, Refilled
<1> QED BY <1>1, <1>2, <1>4, <1>5, <1>6, <1>7, <1>8 DEF Next, Covered

\* Over any stretch of time, however refusals and sweeps fall, no sender gets
\* more through than a burst and what the time refills.
THEOREM NoMoreThanTheRate == Spec => []WindowBound
<1>1. Init => Covered
  BY DEF Init, Covered
<1>2. TypeOK /\ Covered => WindowBound
  <2> SUFFICES ASSUME TypeOK, Covered, watch # NotWatching PROVE watch.budget >= 0
    BY DEF WindowBound
  <2>1. Available(watch.key) \in Nat /\ watch.budget \in Int
    BY AvailableRange DEF TypeOK
  <2> QED BY <2>1 DEF Covered
<1> QED BY <1>1, <1>2, TypeCorrect, CoveredStep, PTL DEF Spec

\* An address that was silent for a second is not refused.
THEOREM RetryAfterOneSecond == Spec => RetryAfterHonest
<1>1. ASSUME TypeOK, NEW q \in Requests, Refuse(q)
      PROVE  now - visitors[Key(q)].last < RetryAfter
  BY <1>1, RefilledRange DEF Refuse, Refilled
<1>2. TypeOK /\ [Next]_vars =>
        [\A q \in Requests : Refuse(q) => now - visitors[Key(q)].last < RetryAfter]_vars
  BY <1>1
<1> QED BY <1>2, TypeCorrect, PTL DEF Spec, RetryAfterHonest

-----------------------------------------------------------------------------
(* How long an address is remembered *)

\* Whoever is in the table was seen since the last sweep but one.
Recent ==
  /\ due <= now + Interval
  /\ \A k \in DOMAIN visitors : visitors[k].last >= due - 2 * Interval

\* No request, sweep or tick leaves an address in the table for longer.
LEMMA RecentStep == TypeOK /\ TypeOK' /\ Recent /\ [Next]_vars => Recent'
<1> SUFFICES ASSUME TypeOK, TypeOK', Recent, [Next]_vars PROVE Recent'
  OBVIOUS
<1>a. now \in Nat /\ due \in Nat /\ \A k \in DOMAIN visitors : visitors[k].last \in Nat
  BY DEF TypeOK, Bucket
<1>1. CASE Tick
  BY <1>1, <1>a DEF Tick, Recent
<1>2. CASE Sweep
  <2>1. due' = due + Interval /\ now' = now /\ now >= due
    BY <1>2 DEF Sweep
  <2>2. \A k \in DOMAIN visitors' :
          visitors'[k] = visitors[k] /\ k \in DOMAIN visitors /\ now - visitors[k].last <= Interval
    BY <1>2, <1>a DEF Sweep, Stale, Restrict
  <2>3. \A k \in DOMAIN visitors' : visitors'[k].last >= due' - 2 * Interval
    BY <1>a, <2>1, <2>2
  <2> QED BY <1>a, <2>1, <2>3 DEF Recent
<1>3. ASSUME NEW k, NEW b, b.last = now, visitors' = With(k, b), UNCHANGED <<now, due>>
      PROVE Recent'
  <2>1. \A x \in DOMAIN visitors' :
          \/ visitors'[x] = b
          \/ x \in DOMAIN visitors /\ visitors'[x] = visitors[x]
    BY <1>3 DEF With
  <2>2. now >= due - 2 * Interval
    BY <1>a DEF Recent
  <2> QED BY <1>3, <2>1, <2>2 DEF Recent
<1>4. CASE \E q \in Requests : Newcomer(q) \/ Allow(q) \/ Refuse(q)
  BY <1>3, <1>4 DEF Newcomer, Allow, Refuse
<1>5. CASE \E q \in Requests : Watch(q)
  BY <1>5 DEF Watch, Recent
<1>6. CASE UNCHANGED vars
  BY <1>6 DEF vars, Recent
<1> QED BY <1>1, <1>2, <1>4, <1>5, <1>6 DEF Next

\* No address stays in the table longer than two intervals and a late sweep.
THEOREM TableDrains == Spec => []ForgottenInTime
<1>1. Init => Recent
  BY DEF Init, Recent
<1>2. TypeOK /\ Recent => ForgottenInTime
  BY DEF TypeOK, Bucket, Recent, ForgottenInTime
<1> QED BY <1>1, <1>2, TypeCorrect, RecentStep, PTL DEF Spec

=============================================================================
