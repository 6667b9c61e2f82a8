----------------------------- MODULE AdminAuth -----------------------------
(***************************************************************************)
(* The challenge / verify / session machinery of the admin sign-in:        *)
(* SessionStore and its handlers (internal/handler/admin_auth.go) and the  *)
(* middleware that guards every admin write (internal/middleware/          *)
(* admin_auth.go), on a server whose ADMIN_PUBLIC_KEY is configured.       *)
(*                                                                         *)
(* Every HTTP request is a goroutine: a verify request and a guarded write *)
(* are taken apart where the code unlocks the store's mutex or reads the   *)
(* clock outside it.  Time is kept as the ticks LEFT to each expiry, so it *)
(* never runs out: left > 0 is now.Before(expiry), left = 0 is now =       *)
(* expiry, left < 0 is now.After(expiry); it stops counting at -1.         *)
(***************************************************************************)
EXTENDS Integers, FiniteSets, Functions

CONSTANTS
  Nonces,         \* the values IssueChallenge can draw (bounds the run)
  Tokens,         \* the values IssueSession can draw (bounds the run)
  Verifiers,      \* goroutines serving POST /api/admin/auth/verify
  Writers,        \* goroutines serving admin writes
  ChallengeTTL,   \* challengeTTL in ticks
  TokenTTL,       \* tokenTTL in ticks
  MaxChallenges,  \* cap on pending challenges, 0 = none
  MaxSessions     \* cap on active sessions, 0 = none

ASSUME ConstantsAssumption ==
  /\ ChallengeTTL \in Nat \ {0}
  /\ TokenTTL \in Nat \ {0}
  /\ MaxChallenges \in Nat
  /\ MaxSessions \in Nat
  /\ Nonces \cap Tokens = {}   \* 32 random bytes never collide

VARIABLES
  challenges,  \* nonce -> ticks left            (SessionStore.challenges)
  sessions,    \* token -> ticks left            (SessionStore.sessions)
  verify,      \* per verify goroutine: where it is and what it holds
  write,       \* per write goroutine: where it is and what it holds
  sweep,       \* runCleanupOnce: the keys its first pass collected
  drawn,       \* every nonce and token crypto/rand has returned
  signed,      \* nonces the holder of the secret key has signed
  grants       \* <<token, nonce>> for every session ever stored

storeVars == <<challenges, sessions>>
history   == <<drawn, signed, grants>>
vars      == <<challenges, sessions, verify, write, sweep, drawn, signed, grants>>

-----------------------------------------------------------------------------
(* Helpers                                                                 *)

Expired(left) == left < 0
Live(left)    == left > 0

\* One clock tick for every entry of a table.
Age(m) == [k \in DOMAIN m |-> IF m[k] < 0 THEN m[k] ELSE m[k] - 1]

With(m, k, v)  == [x \in DOMAIN m \cup {k} |-> IF x = k THEN v ELSE m[x]]
Without(m, S)  == Restrict(m, DOMAIN m \ S)

AtCap(m, max)  == max > 0 /\ Cardinality(DOMAIN m) >= max

Granted        == {g[1] : g \in grants}
Spent          == {g[2] : g \in grants}

\* A goroutine that serves nothing.
Idle           == [pc |-> "idle"]
\* The sweep between two ticker fires.
NoSweep        == [pc |-> "waiting", challenges |-> {}, sessions |-> {}]

Init ==
  /\ challenges = [n \in {} |-> 0]
  /\ sessions = [t \in {} |-> 0]
  /\ verify = [v \in Verifiers |-> Idle]
  /\ write = [w \in Writers |-> Idle]
  /\ sweep = NoSweep
  /\ drawn = {} /\ signed = {} /\ grants = {}

-----------------------------------------------------------------------------
(* POST /api/admin/auth/challenge                                          *)

\* rand.Read never repeats a value: n is fresh.  At the cap the request gets a
\* 429 and nothing changes.
IssueChallenge(n) ==
  /\ n \notin drawn
  /\ ~AtCap(challenges, MaxChallenges)
  /\ challenges' = With(challenges, n, ChallengeTTL)
  /\ drawn' = drawn \cup {n}
  /\ UNCHANGED <<sessions, verify, write, sweep, signed, grants>>

\* The admin's client signs a nonce it was given.
SignNonce(n) ==
  /\ n \in drawn \cap Nonces
  /\ signed' = signed \cup {n}
  /\ UNCHANGED <<challenges, sessions, verify, write, sweep, drawn, grants>>

-----------------------------------------------------------------------------
(* POST /api/admin/auth/verify                                             *)

\* What a request can carry beside the nonce.  "valid": a signature by the
\* secret key and a key file of the right size; "junk": anything the handler
\* rejects after the nonce is consumed (no key file, wrong size, bad signature).
\* Requests rejected before that (400) do not touch the store.
Proofs(n) == {"junk"} \cup (IF n \in signed THEN {"valid"} ELSE {})

\* Mutated form: a good nonce is only looked at, left to expire by itself.
ConsumeChallengePeek(v, n, proof) ==
  LET good == n \in DOMAIN challenges /\ ~Expired(challenges[n])
  IN  /\ verify[v] = Idle
      /\ proof \in Proofs(n)
      /\ challenges' = IF good THEN challenges ELSE Without(challenges, {n})
      /\ verify' = IF good
                   THEN [verify EXCEPT ![v] = [pc |-> "checking", nonce |-> n, proof |-> proof]]
                   ELSE verify
      /\ UNCHANGED <<sessions, write, sweep, history>>

\* Mutated form: a pending nonce is taken without a look at its age.
ConsumeChallengeAnyAge(v, n, proof) ==
  /\ verify[v] = Idle
  /\ proof \in Proofs(n)
  /\ challenges' = Without(challenges, {n})
  /\ verify' = IF n \in DOMAIN challenges
               THEN [verify EXCEPT ![v] = [pc |-> "checking", nonce |-> n, proof |-> proof]]
               ELSE verify
  /\ UNCHANGED <<sessions, write, sweep, history>>

\* The handler consumes the nonce first: under the lock it is deleted whatever
\* its age, and an unknown or aged-out one ends the request with a 401.
ConsumeChallenge(v, n, proof) ==
  /\ verify[v] = Idle
  /\ proof \in Proofs(n)
  /\ challenges' = Without(challenges, {n})
  /\ verify' = IF n \in DOMAIN challenges /\ ~Expired(challenges[n])
               THEN [verify EXCEPT ![v] = [pc |-> "checking", nonce |-> n, proof |-> proof]]
               ELSE verify
  /\ UNCHANGED <<sessions, write, sweep, history>>

\* Missing or ill-sized key file (400), or ed25519.Verify fails (401).
RejectProof(v) ==
  /\ verify[v].pc = "checking"
  /\ verify[v].proof # "valid"
  /\ verify' = [verify EXCEPT ![v] = Idle]
  /\ UNCHANGED <<storeVars, write, sweep, history>>

\* Mutated form: the key file's shape is checked, the signature is not.
MintTokenUnverified(v, t) ==
  /\ verify[v].pc = "checking"
  /\ t \notin drawn
  /\ drawn' = drawn \cup {t}
  /\ verify' = [verify EXCEPT ![v] =
                  [pc |-> "storing", nonce |-> verify[v].nonce, token |-> t, left |-> TokenTTL]]
  /\ UNCHANGED <<storeVars, write, sweep, signed, grants>>

\* Mutated form: tokens are only kept apart from those in the table.
MintTokenReused(v, t) ==
  /\ verify[v].pc = "checking"
  /\ verify[v].proof = "valid"
  /\ t \notin DOMAIN sessions
  /\ drawn' = drawn \cup {t}
  /\ verify' = [verify EXCEPT ![v] =
                  [pc |-> "storing", nonce |-> verify[v].nonce, token |-> t, left |-> TokenTTL]]
  /\ UNCHANGED <<storeVars, write, sweep, signed, grants>>

\* IssueSession up to the lock: the token is drawn and its expiry computed
\* from the clock before the goroutine waits for the mutex.
MintToken(v, t) ==
  /\ verify[v].pc = "checking"
  /\ verify[v].proof = "valid"
  /\ t \notin drawn
  /\ drawn' = drawn \cup {t}
  /\ verify' = [verify EXCEPT ![v] =
                  [pc |-> "storing", nonce |-> verify[v].nonce, token |-> t, left |-> TokenTTL]]
  /\ UNCHANGED <<storeVars, write, sweep, signed, grants>>

\* IssueSession under the lock, and the response: 503 at the cap, else 200.
StoreSession(v) ==
  /\ verify[v].pc = "storing"
  /\ verify' = [verify EXCEPT ![v] = Idle]
  /\ IF AtCap(sessions, MaxSessions)
     THEN UNCHANGED <<sessions, grants>>
     ELSE /\ sessions' = With(sessions, verify[v].token, verify[v].left)
          /\ grants' = grants \cup {<<verify[v].token, verify[v].nonce>>}
  /\ UNCHANGED <<challenges, write, sweep, drawn, signed>>

-----------------------------------------------------------------------------
(* POST /api/admin/auth/logout                                             *)

\* Always a 204; deletes the token if it is there.
RevokeSession(t) ==
  /\ t \in Granted
  /\ sessions' = Without(sessions, {t})
  /\ UNCHANGED <<challenges, verify, write, sweep, history>>

-----------------------------------------------------------------------------
(* RequireAdminSession in front of an admin write                          *)

\* ValidSession under the read lock: the expiry is copied out.  An unknown
\* token gets a 401 and nothing changes.
LookupSession(w, t) ==
  /\ write[w] = Idle
  /\ t \in DOMAIN sessions
  /\ write' = [write EXCEPT ![w] = [pc |-> "looked_up", token |-> t, left |-> sessions[t]]]
  /\ UNCHANGED <<storeVars, verify, sweep, history>>

\* ValidSession after the unlock: the copied expiry against the clock as it is
\* now, then the write handler runs or a 401 is answered.
AdmitWrite(w) ==
  /\ write[w].pc = "looked_up"
  /\ write' = [write EXCEPT ![w] = IF Live(write[w].left)
                                   THEN [pc |-> "running", token |-> write[w].token]
                                   ELSE Idle]
  /\ UNCHANGED <<storeVars, verify, sweep, history>>

FinishWrite(w) ==
  /\ write[w].pc = "running"
  /\ write' = [write EXCEPT ![w] = Idle]
  /\ UNCHANGED <<storeVars, verify, sweep, history>>

-----------------------------------------------------------------------------
(* The cleanup goroutine, the clock, the process                           *)

\* Mutated form: an entry at its expiry counts as expired.
ExpiredKeysEarly(m) == {k \in DOMAIN m : ~Live(m[k])}

ExpiredKeys(m) == {k \in DOMAIN m : Expired(m[k])}

\* Mutated form: the early return fires when either list is empty.
CollectExpiredEitherEmpty ==
  /\ sweep = NoSweep
  /\ ExpiredKeys(challenges) # {} /\ ExpiredKeys(sessions) # {}
  /\ sweep' = [pc |-> "collected",
               challenges |-> ExpiredKeys(challenges), sessions |-> ExpiredKeys(sessions)]
  /\ UNCHANGED <<storeVars, verify, write, history>>

\* First pass, under the read lock; with nothing to prune the sweep is over.
CollectExpired ==
  /\ sweep = NoSweep
  /\ ExpiredKeys(challenges) \cup ExpiredKeys(sessions) # {}
  /\ sweep' = [pc |-> "collected",
               challenges |-> ExpiredKeys(challenges), sessions |-> ExpiredKeys(sessions)]
  /\ UNCHANGED <<storeVars, verify, write, history>>

\* Second pass, under the write lock: the collected keys go, unlooked at.
DeleteCollected ==
  /\ sweep.pc = "collected"
  /\ challenges' = Without(challenges, sweep.challenges)
  /\ sessions' = Without(sessions, sweep.sessions)
  /\ sweep' = NoSweep
  /\ UNCHANGED <<verify, write, history>>

\* Time passes for the tables and for every expiry a goroutine has copied.
Tick ==
  /\ challenges' = Age(challenges)
  /\ sessions' = Age(sessions)
  /\ verify' = [v \in Verifiers |->
                  IF verify[v].pc = "storing" /\ verify[v].left >= 0
                  THEN [verify[v] EXCEPT !.left = @ - 1] ELSE verify[v]]
  /\ write' = [w \in Writers |->
                  IF write[w].pc = "looked_up" /\ write[w].left >= 0
                  THEN [write[w] EXCEPT !.left = @ - 1] ELSE write[w]]
  /\ UNCHANGED <<sweep, history>>

\* The process dies or is redeployed: NewSessionStore starts from empty maps
\* and every request in flight is gone.
Restart ==
  /\ challenges' = [n \in {} |-> 0]
  /\ sessions' = [t \in {} |-> 0]
  /\ verify' = [v \in Verifiers |-> Idle]
  /\ write' = [w \in Writers |-> Idle]
  /\ sweep' = NoSweep
  /\ UNCHANGED history

Next ==
  \/ \E n \in Nonces : IssueChallenge(n) \/ SignNonce(n)
  \/ \E v \in Verifiers, n \in Nonces, p \in {"valid", "junk"} : ConsumeChallenge(v, n, p)
  \/ \E v \in Verifiers : RejectProof(v) \/ StoreSession(v)
  \/ \E v \in Verifiers, t \in Tokens : MintToken(v, t)
  \/ \E t \in Tokens : RevokeSession(t)
  \/ \E w \in Writers, t \in Tokens : LookupSession(w, t)
  \/ \E w \in Writers : AdmitWrite(w) \/ FinishWrite(w)
  \/ CollectExpired
  \/ DeleteCollected
  \/ Tick
  \/ Restart

Spec == Init /\ [][Next]_vars

\* The clock runs and the ticker goroutine is scheduled; nothing is assumed of
\* clients, of logouts or of restarts.
Fairness == WF_vars(Tick) /\ WF_vars(CollectExpired) /\ WF_vars(DeleteCollected)

FairSpec == Spec /\ Fairness

-----------------------------------------------------------------------------
(* Properties                                                              *)

VerifyState ==
  {Idle}
  \cup [pc : {"checking"}, nonce : Nonces, proof : {"valid", "junk"}]
  \cup [pc : {"storing"}, nonce : Nonces, token : Tokens, left : -1..TokenTTL]

WriteState ==
  {Idle}
  \cup [pc : {"looked_up"}, token : Tokens, left : -1..TokenTTL]
  \cup [pc : {"running"}, token : Tokens]

\* A map of the store: some keys of K, each with at most ttl ticks left.
IsTable(m, K, ttl) == DOMAIN m \subseteq K /\ m \in [DOMAIN m -> -1..ttl]

\* Type invariant of the store, the goroutines and the history variables.
TypeOK ==
  /\ IsTable(challenges, Nonces, ChallengeTTL)
  /\ IsTable(sessions, Tokens, TokenTTL)
  /\ verify \in [Verifiers -> VerifyState]
  /\ write \in [Writers -> WriteState]
  /\ sweep \in [pc : {"waiting", "collected"}, challenges : SUBSET Nonces, sessions : SUBSET Tokens]
  /\ drawn \subseteq Nonces \cup Tokens
  /\ signed \subseteq Nonces
  /\ grants \subseteq Tokens \X Nonces

\* A nonce buys at most one session and a token is bought with exactly one
\* nonce, whatever verify requests race with the same nonce and signature
\* (VerifyHandler: "consume the nonce FIRST so a replay can't reuse it").
OneSessionPerNonce ==
  \A g, h \in grants : g[1] = h[1] \/ g[2] = h[2] => g = h

\* Every session in the table, and every write past the middleware's lookup,
\* goes back to a nonce that the secret key's holder signed.
EveryWriteIsSigned ==
  /\ Spent \subseteq signed
  /\ DOMAIN sessions \subseteq Granted
  /\ \A w \in Writers : write[w].pc # "idle" => write[w].token \in Granted

\* The caps of the two maps hold under racing inserts: the check and the
\* insert are one critical section.
CapsHold ==
  /\ MaxChallenges > 0 => Cardinality(DOMAIN challenges) <= MaxChallenges
  /\ MaxSessions > 0 => Cardinality(DOMAIN sessions) <= MaxSessions

\* A session that left the table (logout, sweep or restart) never comes back
\* and lets no further write in, though sweeps, in-flight inserts and lookups
\* of other requests overlap with it.
NoResurrection ==
  [][\A t \in Granted :
       t \notin DOMAIN sessions =>
         /\ t \notin DOMAIN sessions'
         /\ \A w \in Writers : write'[w].pc = "looked_up" /\ write'[w].token = t
                                 => write[w].pc = "looked_up" /\ write[w].token = t]_vars

\* The second pass deletes what the first collected without looking again, yet
\* it only ever removes entries that are past their expiry.
SweepSparesLive ==
  [][DeleteCollected =>
       /\ \A n \in DOMAIN challenges \ DOMAIN challenges' : Expired(challenges[n])
       /\ \A t \in DOMAIN sessions \ DOMAIN sessions' : Expired(sessions[t])]_vars

\* Entries nobody uses count against the caps, but not for ever: each leaves
\* its table, so a full table makes room again without any client's help.
EntriesDrain ==
  /\ \A n \in Nonces : n \in DOMAIN challenges ~> n \notin DOMAIN challenges
  /\ \A t \in Tokens : t \in DOMAIN sessions ~> t \notin DOMAIN sessions

\* The abstract sign-in of AdminAccess: a nonce in the table counts as offered
\* until it expires, a consumed one until its request is over; a token is live
\* while ValidSession would accept it.
InFlight == {n \in Nonces : \E v \in Verifiers : verify[v].pc # "idle" /\ verify[v].nonce = n}
Offered  == {n \in DOMAIN challenges : ~Expired(challenges[n])} \cup InFlight
Accepted == {t \in DOMAIN sessions : Live(sessions[t])}

Access == INSTANCE AdminAccess WITH
            offered <- Offered, gone <- (drawn \cap Nonces) \ Offered, signed <- signed,
            live <- Accepted, ended <- Granted \ Accepted

\* The store with its clock, in-flight requests and two-pass sweep implements
\* the abstract sign-in.
ImplementsAccess == Access!Spec

-----------------------------------------------------------------------------
(* The inductive invariant behind the safety properties                    *)

Busy(v) == verify[v].pc # "idle"

\* A nonce is pending, in flight in one request, or spent: never two of these.
NoncesApart ==
  /\ DOMAIN challenges \cup InFlight \cup Spent \subseteq drawn
  /\ DOMAIN challenges \cap (InFlight \cup Spent) = {}
  /\ InFlight \cap Spent = {}
  /\ \A u, v \in Verifiers : Busy(u) /\ Busy(v) /\ verify[u].nonce = verify[v].nonce => u = v

\* A token is being stored by one request, or was granted, never both; only
\* granted ones are in the table.
TokensApart ==
  /\ Granted \subseteq drawn
  /\ DOMAIN sessions \subseteq Granted
  /\ \A v \in Verifiers : verify[v].pc = "storing" => verify[v].token \in drawn \ Granted
  /\ \A u, v \in Verifiers :
       verify[u].pc = "storing" /\ verify[v].pc = "storing" /\ verify[u].token = verify[v].token => u = v

\* A request past the signature check holds a signed nonce.
ProofsGenuine ==
  \A v \in Verifiers :
    \/ verify[v].pc = "checking" /\ verify[v].proof = "valid"
    \/ verify[v].pc = "storing"
    => verify[v].nonce \in signed

\* What the first pass of the sweep collected is expired or gone by the second.
SweepIsStale ==
  /\ sweep.challenges \subseteq drawn
  /\ sweep.sessions \subseteq Granted
  /\ \A n \in sweep.challenges \cap DOMAIN challenges : Expired(challenges[n])
  /\ \A t \in sweep.sessions \cap DOMAIN sessions : Expired(sessions[t])

IInv ==
  /\ TypeOK
  /\ NoncesApart
  /\ TokensApart
  /\ ProofsGenuine
  /\ SweepIsStale
  /\ OneSessionPerNonce
  /\ EveryWriteIsSigned
=============================================================================
