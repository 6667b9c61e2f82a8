---------------------------- MODULE RateLimiter -----------------------------
(***************************************************************************)
(* The token bucket in front of the writes and of the sign-in challenge    *)
(* (internal/middleware/ratelimit.go): one bucket per client address, made *)
(* full at the first request, refilled at the next one for the time that   *)
(* has passed, forgotten by a sweep when the address has been silent.      *)
(*                                                                         *)
(* Time is counted in ticks of which one refills one unit of a bucket, so  *)
(* a request costs Cost units (1/rate in ticks) and a bucket holds Burst   *)
(* of them.  Allow and a pass of the sweep hold the mutex throughout: each *)
(* is one step.  The units are exact where the code rounds floats.         *)
(***************************************************************************)
EXTENDS Integers, Functions

CONSTANTS
  Peers,       \* addresses that connect to the server
  Trusted,     \* those of TRUSTED_PROXIES
  Claims,      \* addresses an X-Forwarded-For header may begin with
  NoHeader,    \* the header is absent
  Cost,        \* ticks in which a bucket earns one request
  Burst,       \* requests a full bucket allows at once
  RetryAfter,  \* ticks in the second of the Retry-After header
  Interval,    \* ticks in the five minutes of the sweep
  Lag,         \* bound: how late a sweep may run
  MaxTime      \* bound: when the clock stops

Capacity == Burst * Cost

ASSUME AddressesAssumption == Trusted \subseteq Peers /\ NoHeader \notin Claims
ASSUME RateAssumption ==
  /\ Cost \in Nat \ {0} /\ Burst \in Nat \ {0}
  /\ Capacity \in Nat /\ Cost <= Capacity
  /\ RetryAfter \in Nat /\ Cost <= RetryAfter
\* A bucket fills up well within the time a silent address is remembered
\* (20 requests at 10/s and 5 at 2/s against five minutes).
ASSUME TimeAssumption ==
  /\ Interval \in Nat /\ Capacity <= Interval
  /\ Lag \in Nat /\ MaxTime \in Nat

Requests == [peer : Peers, header : Claims \union {NoHeader}]
Keys == Peers \union Claims

VARIABLES
  now,       \* the clock
  visitors,  \* address -> its bucket: tokens left and when it was last looked at
  due,       \* when the next sweep is due
  watch      \* an observer of one sender, and the units it still expects of it

vars == <<now, visitors, due, watch>>

NotWatching == [from |-> NoHeader]

Init ==
  /\ now = 0
  /\ visitors = [k \in {} |-> 0]
  /\ due = Interval
  /\ watch = NotWatching

-----------------------------------------------------------------------------
(* Allow *)

\* resolveClientIP: the header of a trusted proxy, or else the address itself.
Key(q) == IF q.peer \in Trusted /\ q.header # NoHeader THEN q.header ELSE q.peer

\* Whom an observer takes for the sender: behind a trusted proxy whoever it
\* names, and otherwise the peer, whatever its header says.
Sender(q) ==
  IF q.peer \in Trusted THEN <<q.peer, q.header>> ELSE <<q.peer, NoHeader>>

With(k, b) == [x \in DOMAIN visitors \union {k} |-> IF x = k THEN b ELSE visitors[x]]

Refilled(k) ==
  LET tokens == visitors[k].tokens + (now - visitors[k].last) IN
  IF tokens > Capacity THEN Capacity ELSE tokens

\* What is let through is paid from what the observer expects.
Note(q) ==
  watch' = IF watch # NotWatching /\ watch.from = Sender(q)
           THEN [watch EXCEPT !.budget = watch.budget - Cost] ELSE watch

\* An address without a bucket gets a full one less this request.
Newcomer(q) ==
  /\ Key(q) \notin DOMAIN visitors
  /\ visitors' = With(Key(q), [tokens |-> Capacity - Cost, last |-> now])
  /\ Note(q)
  /\ UNCHANGED <<now, due>>

Allow(q) ==
  /\ Key(q) \in DOMAIN visitors
  /\ Refilled(Key(q)) >= Cost
  /\ visitors' = With(Key(q), [tokens |-> Refilled(Key(q)) - Cost, last |-> now])
  /\ Note(q)
  /\ UNCHANGED <<now, due>>

\* Mutated form: the refill is kept but the time of it is not.
RefuseUntimed(q) ==
  /\ Key(q) \in DOMAIN visitors
  /\ Refilled(Key(q)) < Cost
  /\ visitors' = [visitors EXCEPT ![Key(q)].tokens = Refilled(Key(q))]
  /\ UNCHANGED <<now, due, watch>>

\* Mutated form: a refused request costs what it earned.
RefuseAndEmpty(q) ==
  /\ Key(q) \in DOMAIN visitors
  /\ Refilled(Key(q)) < Cost
  /\ visitors' = With(Key(q), [tokens |-> Refilled(Key(q)) - Cost, last |-> now])
  /\ UNCHANGED <<now, due, watch>>

\* 429 with Retry-After: 1.
Refuse(q) ==
  /\ Key(q) \in DOMAIN visitors
  /\ Refilled(Key(q)) < Cost
  /\ visitors' = With(Key(q), [tokens |-> Refilled(Key(q)), last |-> now])
  /\ UNCHANGED <<now, due, watch>>

-----------------------------------------------------------------------------
(* The sweep and the clock *)

\* Mutated form: the age is compared with two intervals.
StaleLate(k) == now - visitors[k].last > 2 * Interval

Stale(k) == now - visitors[k].last > Interval

Sweep ==
  /\ now >= due
  /\ visitors' = Restrict(visitors, {k \in DOMAIN visitors : ~Stale(k)})
  /\ due' = due + Interval
  /\ UNCHANGED <<now, watch>>

\* A sweep that is due runs within Lag ticks.
Tick ==
  /\ now < MaxTime /\ now < due + Lag
  /\ now' = now + 1
  /\ watch' = IF watch = NotWatching THEN watch
              ELSE [watch EXCEPT !.budget = watch.budget + 1]
  /\ UNCHANGED <<visitors, due>>

\* The observer chooses a sender and a moment to start, once.  It expects no
\* more than a full bucket then, and a unit for every tick that follows.
Watch(q) ==
  /\ watch = NotWatching
  /\ watch' = [from |-> Sender(q), key |-> Key(q), budget |-> Capacity]
  /\ UNCHANGED <<now, visitors, due>>

Next ==
  \/ Tick \/ Sweep
  \/ \E q \in Requests : Newcomer(q) \/ Allow(q) \/ Refuse(q) \/ Watch(q)

Spec == Init /\ [][Next]_vars

-----------------------------------------------------------------------------
(* Properties *)

Bucket == [tokens : 0..Capacity, last : 0..now]

\* Type invariant: a bucket never holds more than a burst, nor a debt.
TypeOK ==
  /\ now \in 0..MaxTime
  /\ DOMAIN visitors \subseteq Keys
  /\ \A k \in DOMAIN visitors : visitors[k] \in Bucket
  /\ due \in Nat /\ now <= due + Lag
  /\ watch = NotWatching
     \/ watch \in [from : Peers \X (Claims \union {NoHeader}), key : Keys, budget : Int]

\* In any stretch of time no sender gets more requests through than a full
\* bucket and what that time refills, however its requests, refusals and the
\* sweeps that forget its bucket fall ("10 req/s with burst of 20"), and
\* whatever a peer that is no proxy of ours writes into its header.
WindowBound == watch # NotWatching => watch.budget >= 0

\* A refused request is told to come back in a second: an address that was
\* silent that long is not refused.
RetryAfterHonest ==
  [][\A q \in Requests : Refuse(q) => now - visitors[Key(q)].last < RetryAfter]_vars

\* The table does not grow for good: no address is remembered longer than two
\* sweep intervals, and the delay of a sweep, after its last request.
ForgottenInTime ==
  \A k \in DOMAIN visitors : now - visitors[k].last <= 2 * Interval + Lag

=============================================================================
