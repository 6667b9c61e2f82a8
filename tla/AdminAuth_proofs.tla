-------------------------- MODULE AdminAuth_proofs --------------------------
(***************************************************************************)
(* The safety of the admin sign-in for every number of nonces, tokens,     *)
(* goroutines, every TTL and every cap.                                    *)
(***************************************************************************)
EXTENDS AdminAuth, FiniteSetTheorems, TLAPS

USE ConstantsAssumption

\* Tables stay tables of ticks left.
LEMMA WithTyping ==
  ASSUME NEW K, NEW ttl, NEW m, IsTable(m, K, ttl), NEW k \in K, NEW v \in -1..ttl
  PROVE  IsTable(With(m, k, v), K, ttl)
BY DEF With, IsTable

\* Taking entries out of a table leaves a table.
LEMMA WithoutTyping ==
  ASSUME NEW K, NEW ttl, NEW m, IsTable(m, K, ttl), NEW S
  PROVE  IsTable(Without(m, S), K, ttl)
BY DEF Without, Restrict, IsTable

\* A tick takes an entry no further than one below zero.
LEMMA AgeTyping ==
  ASSUME NEW K, NEW ttl \in Nat, NEW m, IsTable(m, K, ttl)
  PROVE  IsTable(Age(m), K, ttl)
BY DEF Age, IsTable

-----------------------------------------------------------------------------
(* Type correctness                                                        *)

\* No step takes the store, a goroutine or the history out of its type.
LEMMA TypeStep == TypeOK /\ [Next]_vars => TypeOK'
<1> SUFFICES ASSUME TypeOK, [Next]_vars PROVE TypeOK'
  OBVIOUS
<1>1. ASSUME NEW n \in Nonces, IssueChallenge(n) PROVE TypeOK'
  BY <1>1, WithTyping, ChallengeTTL \in -1..ChallengeTTL DEF TypeOK, IssueChallenge
<1>2. ASSUME NEW n \in Nonces, SignNonce(n) PROVE TypeOK'
  BY <1>2 DEF TypeOK, SignNonce
<1>3. ASSUME NEW v \in Verifiers, NEW n \in Nonces, NEW p \in {"valid", "junk"}, ConsumeChallenge(v, n, p)
      PROVE TypeOK'
  <2>1. IsTable(challenges', Nonces, ChallengeTTL)
    BY <1>3, WithoutTyping DEF TypeOK, ConsumeChallenge
  <2>2. verify' \in [Verifiers -> VerifyState]
    BY <1>3 DEF TypeOK, ConsumeChallenge, VerifyState
  <2>. QED  BY <1>3, <2>1, <2>2 DEF TypeOK, ConsumeChallenge, history
<1>4. ASSUME NEW v \in Verifiers, RejectProof(v) PROVE TypeOK'
  BY <1>4 DEF TypeOK, RejectProof, VerifyState, history, storeVars
<1>5. ASSUME NEW v \in Verifiers, StoreSession(v) PROVE TypeOK'
  <2>1. verify[v] \in [pc : {"storing"}, nonce : Nonces, token : Tokens, left : -1..TokenTTL]
    BY <1>5 DEF TypeOK, StoreSession, VerifyState, Idle
  <2>2. IsTable(sessions', Tokens, TokenTTL)
    BY <1>5, <2>1, WithTyping DEF TypeOK, StoreSession
  <2>3. verify' \in [Verifiers -> VerifyState] /\ grants' \subseteq Tokens \X Nonces
    BY <1>5, <2>1 DEF TypeOK, StoreSession, VerifyState
  <2>. QED  BY <1>5, <2>2, <2>3 DEF TypeOK, StoreSession
<1>6. ASSUME NEW v \in Verifiers, NEW t \in Tokens, MintToken(v, t) PROVE TypeOK'
  <2>1. verify[v] \in [pc : {"checking"}, nonce : Nonces, proof : {"valid", "junk"}]
    BY <1>6 DEF TypeOK, MintToken, VerifyState, Idle
  <2>2. verify' \in [Verifiers -> VerifyState]
    BY <1>6, <2>1 DEF TypeOK, MintToken, VerifyState
  <2>. QED  BY <1>6, <2>2 DEF TypeOK, MintToken, storeVars
<1>7. ASSUME NEW t \in Tokens, RevokeSession(t) PROVE TypeOK'
  BY <1>7, WithoutTyping DEF TypeOK, RevokeSession, history
<1>8. ASSUME NEW w \in Writers, NEW t \in Tokens, LookupSession(w, t) PROVE TypeOK'
  BY <1>8 DEF TypeOK, IsTable, LookupSession, WriteState, storeVars, history
<1>9. ASSUME NEW w \in Writers, AdmitWrite(w) PROVE TypeOK'
  <2>1. write[w] \in [pc : {"looked_up"}, token : Tokens, left : -1..TokenTTL]
    BY <1>9 DEF TypeOK, AdmitWrite, WriteState, Idle
  <2>2. write' \in [Writers -> WriteState]
    BY <1>9, <2>1 DEF TypeOK, AdmitWrite, WriteState
  <2>. QED  BY <1>9, <2>2 DEF TypeOK, AdmitWrite, storeVars, history
<1>10. ASSUME NEW w \in Writers, FinishWrite(w) PROVE TypeOK'
  BY <1>10 DEF TypeOK, FinishWrite, WriteState, storeVars, history
<1>11. CASE CollectExpired
  BY <1>11 DEF TypeOK, IsTable, CollectExpired, ExpiredKeys, storeVars, history
<1>12. CASE DeleteCollected
  BY <1>12, WithoutTyping DEF TypeOK, DeleteCollected, NoSweep, history
<1>13. CASE Tick
  <2>1. verify' \in [Verifiers -> VerifyState]
    BY <1>13 DEF TypeOK, Tick, VerifyState, Idle
  <2>2. write' \in [Writers -> WriteState]
    BY <1>13 DEF TypeOK, Tick, WriteState, Idle
  <2>. QED  BY <1>13, <2>1, <2>2, AgeTyping DEF TypeOK, Tick, history
<1>14. CASE Restart
  BY <1>14 DEF TypeOK, IsTable, Restart, VerifyState, WriteState, NoSweep, history
<1>15. CASE UNCHANGED vars
  BY <1>15 DEF TypeOK, vars
<1>. QED  BY <1>1, <1>2, <1>3, <1>4, <1>5, <1>6, <1>7, <1>8, <1>9, <1>10, <1>11, <1>12,
             <1>13, <1>14, <1>15 DEF Next

\* The type invariant of the sign-in holds in every reachable state: the store
\* only ever holds drawn values with ages inside their TTL.
THEOREM TypeCorrect == Spec => []TypeOK
<1>1. Init => TypeOK
  BY DEF Init, TypeOK, IsTable, Idle, NoSweep, VerifyState, WriteState
<1>. QED  BY <1>1, TypeStep, PTL DEF Spec

-----------------------------------------------------------------------------
(* The inductive invariant                                                 *)

\* A step that leaves requests, tables and history alone keeps the bookkeeping
\* of nonces, tokens and signatures.
LEMMA Untouched ==
  ASSUME IInv, UNCHANGED <<challenges, sessions, verify, drawn, signed, grants>>
  PROVE  (NoncesApart /\ TokensApart /\ ProofsGenuine /\ OneSessionPerNonce)'
BY DEF IInv, NoncesApart, TokensApart, ProofsGenuine, OneSessionPerNonce, InFlight, Busy, Spent, Granted

\* A verify request that ends gives up its nonce and no other request notices.
LEMMA IdleStep ==
  ASSUME TypeOK, NEW v \in Verifiers, verify' = [verify EXCEPT ![v] = Idle]
  PROVE  /\ ~Busy(v)'
         /\ \A u \in Verifiers : Busy(u)' => Busy(u) /\ verify'[u] = verify[u] /\ u # v
         /\ InFlight' \subseteq InFlight
<1>1. ~Busy(v)' /\ \A u \in Verifiers : Busy(u)' => Busy(u) /\ verify'[u] = verify[u] /\ u # v
  BY DEF TypeOK, Busy, Idle
<1>2. InFlight' \subseteq InFlight
  BY <1>1 DEF InFlight, Busy
<1>. QED  BY <1>1, <1>2

\* Nonces in the table, in flight and spent stay apart, requests keep their
\* nonces to themselves, the sweep's keys stay stale: every step keeps IInv.
THEOREM Inductive == IInv /\ [Next]_vars => IInv'
<1> SUFFICES ASSUME IInv, [Next]_vars PROVE IInv'
  OBVIOUS
<1>0. TypeOK'
  BY TypeStep DEF IInv
<1>1. ASSUME NEW n \in Nonces, IssueChallenge(n) PROVE IInv'
  <2>1. DOMAIN challenges' = DOMAIN challenges \cup {n}
    BY <1>1 DEF IssueChallenge, With
  <2>2. \A x \in DOMAIN challenges : challenges'[x] = challenges[x] \/ x = n
    BY <1>1 DEF IssueChallenge, With
  <2>3. NoncesApart'
    BY <1>1, <2>1 DEF IInv, IssueChallenge, NoncesApart, InFlight, Busy, Spent
  <2>4. TokensApart' /\ ProofsGenuine' /\ OneSessionPerNonce' /\ EveryWriteIsSigned'
    BY <1>1 DEF IInv, IssueChallenge, TokensApart, ProofsGenuine, OneSessionPerNonce,
                EveryWriteIsSigned, Granted, Spent
  <2>5. SweepIsStale'
    BY <1>1, <2>1, <2>2 DEF IInv, IssueChallenge, SweepIsStale, Granted
  <2>. QED  BY <1>0, <2>3, <2>4, <2>5 DEF IInv
<1>2. ASSUME NEW n \in Nonces, SignNonce(n) PROVE IInv'
  <2>1. NoncesApart' /\ TokensApart'
    BY <1>2 DEF IInv, SignNonce, NoncesApart, TokensApart, InFlight, Busy, Spent, Granted
  <2>2. ProofsGenuine' /\ OneSessionPerNonce' /\ EveryWriteIsSigned' /\ SweepIsStale'
    BY <1>2 DEF IInv, SignNonce, ProofsGenuine, OneSessionPerNonce, EveryWriteIsSigned,
                SweepIsStale, Granted, Spent
  <2>. QED  BY <1>0, <2>1, <2>2 DEF IInv
<1>3. ASSUME NEW v \in Verifiers, NEW n \in Nonces, NEW p \in {"valid", "junk"}, ConsumeChallenge(v, n, p)
      PROVE  IInv'
  <2>1. /\ DOMAIN challenges' = DOMAIN challenges \ {n}
        /\ \A x \in DOMAIN challenges' : challenges'[x] = challenges[x]
    BY <1>3 DEF ConsumeChallenge, Without, Restrict
  <2>2. UNCHANGED <<sessions, write, sweep, drawn, signed, grants>>
    BY <1>3 DEF ConsumeChallenge, history
  <2>3. \/ verify' = verify
        \/ n \in DOMAIN challenges /\ verify' = [verify EXCEPT ![v] = [pc |-> "checking", nonce |-> n, proof |-> p]]
    BY <1>3 DEF ConsumeChallenge
  <2>4. verify[v].pc = "idle" /\ (p = "valid" => n \in signed)
    BY <1>3 DEF ConsumeChallenge, Idle, Proofs
  <2>5. NoncesApart'
    <3>1. CASE verify' = verify
      BY <2>1, <2>2, <3>1 DEF IInv, NoncesApart, InFlight, Busy, Spent
    <3>2. CASE n \in DOMAIN challenges /\ verify' = [verify EXCEPT ![v] = [pc |-> "checking", nonce |-> n, proof |-> p]]
      <4>1. verify'[v].pc = "checking" /\ verify'[v].nonce = n
        BY <3>2 DEF IInv, TypeOK
      <4>2. \A u \in Verifiers \ {v} : verify'[u] = verify[u]
        BY <3>2 DEF IInv, TypeOK
      <4>3. InFlight' = InFlight \cup {n}
        BY <2>4, <4>1, <4>2 DEF InFlight
      <4>4. \A u \in Verifiers : Busy(u) => verify[u].nonce # n
        BY <3>2 DEF IInv, NoncesApart, InFlight, Busy
      <4>5. \A u, z \in Verifiers : (Busy(u) /\ Busy(z) /\ verify[u].nonce = verify[z].nonce)' => u = z
        BY <4>1, <4>2, <4>4 DEF IInv, NoncesApart, Busy
      <4>. QED  BY <2>1, <2>2, <3>2, <4>3, <4>5 DEF IInv, NoncesApart, Spent
    <3>. QED  BY <2>3, <3>1, <3>2
  <2>6. TokensApart' /\ ProofsGenuine'
    BY <2>2, <2>3, <2>4 DEF IInv, TypeOK, TokensApart, ProofsGenuine, Granted
  <2>7. OneSessionPerNonce' /\ EveryWriteIsSigned' /\ SweepIsStale'
    BY <2>1, <2>2 DEF IInv, OneSessionPerNonce, EveryWriteIsSigned, SweepIsStale, Granted, Spent
  <2>. QED  BY <1>0, <2>5, <2>6, <2>7 DEF IInv
<1>4. ASSUME NEW v \in Verifiers, RejectProof(v) PROVE IInv'
  <2>1. UNCHANGED <<challenges, sessions, write, sweep, drawn, signed, grants>>
    BY <1>4 DEF RejectProof, storeVars, history
  <2>2. verify' = [verify EXCEPT ![v] = Idle]
    BY <1>4 DEF RejectProof
  <2>3. NoncesApart'
    BY <2>1, <2>2, IdleStep DEF IInv, NoncesApart, Spent
  <2>5. TokensApart' /\ ProofsGenuine'
    BY <2>1, <2>2 DEF IInv, TypeOK, TokensApart, ProofsGenuine, Granted, Idle
  <2>4. OneSessionPerNonce' /\ EveryWriteIsSigned' /\ SweepIsStale'
    BY <2>1 DEF IInv, OneSessionPerNonce, EveryWriteIsSigned, SweepIsStale, Granted, Spent
  <2>. QED  BY <1>0, <2>3, <2>4, <2>5 DEF IInv
<1>5. ASSUME NEW v \in Verifiers, StoreSession(v) PROVE IInv'
  <2> DEFINE n == verify[v].nonce
             t == verify[v].token
  <2>1. /\ UNCHANGED <<challenges, write, sweep, drawn, signed>>
        /\ verify' = [verify EXCEPT ![v] = Idle]
        /\ verify[v].pc = "storing"
    BY <1>5 DEF StoreSession
  <2>2. n \in InFlight /\ n \in signed /\ t \in drawn \ Granted
    BY <2>1 DEF IInv, TypeOK, VerifyState, Idle, InFlight, ProofsGenuine, TokensApart
  <2>3. CASE UNCHANGED <<sessions, grants>>
    <3>1. NoncesApart'
      BY <2>1, <2>3, IdleStep DEF IInv, NoncesApart, Spent
    <3>3. TokensApart' /\ ProofsGenuine'
      BY <2>1, <2>3 DEF IInv, TypeOK, TokensApart, ProofsGenuine, Granted, Idle
    <3>2. OneSessionPerNonce' /\ EveryWriteIsSigned' /\ SweepIsStale'
      BY <2>1, <2>3 DEF IInv, OneSessionPerNonce, EveryWriteIsSigned, SweepIsStale, Granted, Spent
    <3>. QED  BY <1>0, <3>1, <3>2, <3>3 DEF IInv
  <2>4. CASE sessions' = With(sessions, t, verify[v].left) /\ grants' = grants \cup {<<t, n>>}
    <3>1. /\ DOMAIN sessions' = DOMAIN sessions \cup {t}
          /\ \A x \in DOMAIN sessions \ {t} : sessions'[x] = sessions[x]
      BY <2>4 DEF With
    <3>2. Granted' = Granted \cup {t} /\ Spent' = Spent \cup {n}
      <4>1. \A g \in {<<t, n>>} : g[1] = t /\ g[2] = n
        OBVIOUS
      <4>2. {g[1] : g \in grants \cup {<<t, n>>}} = {g[1] : g \in grants} \cup {t}
        BY <4>1
      <4>3. {g[2] : g \in grants \cup {<<t, n>>}} = {g[2] : g \in grants} \cup {n}
        BY <4>1
      <4>. QED  BY <2>4, <4>2, <4>3 DEF Granted, Spent
    <3>3. InFlight' \subseteq InFlight \ {n}
      <4>1. \A u \in Verifiers : Busy(u)' => Busy(u) /\ verify'[u] = verify[u] /\ u # v
        BY <2>1, IdleStep DEF IInv
      <4>2. \A u \in Verifiers : Busy(u)' => verify'[u].nonce # n
        BY <2>1, <4>1 DEF IInv, NoncesApart, Busy
      <4>3. n \notin InFlight'
        BY <4>2 DEF InFlight, Busy
      <4>4. InFlight' \subseteq InFlight
        BY <2>1, IdleStep DEF IInv
      <4>. QED  BY <4>3, <4>4
    <3>4. NoncesApart'
      <4>1. \A u \in Verifiers : Busy(u)' => Busy(u) /\ verify'[u] = verify[u]
        BY <2>1, IdleStep DEF IInv
      <4>2. \A u, z \in Verifiers : (Busy(u) /\ Busy(z) /\ verify[u].nonce = verify[z].nonce)' => u = z
        BY <4>1 DEF IInv, NoncesApart
      <4>. QED  BY <2>1, <2>2, <3>2, <3>3, <4>2 DEF IInv, NoncesApart
    <3>5. TokensApart' /\ ProofsGenuine'
      BY <2>1, <2>2, <3>1, <3>2 DEF IInv, TypeOK, TokensApart, ProofsGenuine, Idle
    <3>6. OneSessionPerNonce'
      BY <2>2, <2>4 DEF IInv, NoncesApart, OneSessionPerNonce, Granted, Spent
    <3>7. EveryWriteIsSigned' /\ SweepIsStale'
      BY <2>1, <2>2, <3>1, <3>2 DEF IInv, EveryWriteIsSigned, SweepIsStale
    <3>. QED  BY <1>0, <3>4, <3>5, <3>6, <3>7 DEF IInv
  <2>. QED  BY <1>5, <2>3, <2>4 DEF StoreSession
<1>6. ASSUME NEW v \in Verifiers, NEW t \in Tokens, MintToken(v, t) PROVE IInv'
  <2>1. /\ UNCHANGED <<challenges, sessions, write, sweep, signed, grants>>
        /\ drawn' = drawn \cup {t} /\ t \notin drawn
        /\ verify[v].pc = "checking" /\ verify[v].proof = "valid"
        /\ verify' = [verify EXCEPT ![v] =
              [pc |-> "storing", nonce |-> verify[v].nonce, token |-> t, left |-> TokenTTL]]
    BY <1>6 DEF MintToken, storeVars
  <2>2. NoncesApart'
    <3>1. \A u \in Verifiers :
            /\ Busy(u)' <=> Busy(u)
            /\ Busy(u) => verify'[u].nonce = verify[u].nonce
      BY <2>1 DEF IInv, TypeOK, Busy
    <3>2. InFlight' = InFlight
      BY <3>1 DEF InFlight, Busy
    <3>3. \A u, z \in Verifiers : (Busy(u) /\ Busy(z) /\ verify[u].nonce = verify[z].nonce)' => u = z
      BY <3>1 DEF IInv, NoncesApart
    <3>4. Spent' = Spent
      BY <2>1 DEF Spent
    <3>. QED  BY <2>1, <3>2, <3>3, <3>4 DEF IInv, NoncesApart
  <2>3. TokensApart' /\ ProofsGenuine'
    BY <2>1 DEF IInv, TypeOK, TokensApart, ProofsGenuine, Granted
  <2>4. OneSessionPerNonce' /\ EveryWriteIsSigned' /\ SweepIsStale'
    BY <2>1 DEF IInv, OneSessionPerNonce, EveryWriteIsSigned, SweepIsStale, Granted, Spent
  <2>. QED  BY <1>0, <2>2, <2>3, <2>4 DEF IInv
<1>7. ASSUME NEW t \in Tokens, RevokeSession(t) PROVE IInv'
  <2>1. /\ DOMAIN sessions' = DOMAIN sessions \ {t}
        /\ \A x \in DOMAIN sessions' : sessions'[x] = sessions[x]
    BY <1>7 DEF RevokeSession, Without, Restrict
  <2>2. UNCHANGED <<challenges, verify, write, sweep, drawn, signed, grants>>
    BY <1>7 DEF RevokeSession, history
  <2>3. NoncesApart' /\ TokensApart' /\ ProofsGenuine'
    BY <2>1, <2>2 DEF IInv, NoncesApart, TokensApart, ProofsGenuine, InFlight, Busy, Spent, Granted
  <2>4. OneSessionPerNonce' /\ EveryWriteIsSigned' /\ SweepIsStale'
    BY <2>1, <2>2 DEF IInv, OneSessionPerNonce, EveryWriteIsSigned, SweepIsStale, Granted, Spent
  <2>. QED  BY <1>0, <2>3, <2>4 DEF IInv
<1>8. ASSUME NEW w \in Writers, NEW t \in Tokens, LookupSession(w, t) PROVE IInv'
  <2>1. /\ UNCHANGED <<challenges, sessions, verify, sweep, drawn, signed, grants>>
        /\ t \in DOMAIN sessions
        /\ write' = [write EXCEPT ![w] = [pc |-> "looked_up", token |-> t, left |-> sessions[t]]]
    BY <1>8 DEF LookupSession, storeVars, history
  <2>2. EveryWriteIsSigned' /\ SweepIsStale'
    BY <2>1 DEF IInv, TypeOK, EveryWriteIsSigned, SweepIsStale, Granted, Spent
  <2>. QED  BY <1>0, <2>1, <2>2, Untouched DEF IInv
<1>9. ASSUME NEW w \in Writers, AdmitWrite(w) \/ FinishWrite(w) PROVE IInv'
  <2>1. /\ UNCHANGED <<challenges, sessions, verify, sweep, drawn, signed, grants>>
        /\ \/ write' = [write EXCEPT ![w] = Idle]
           \/ write[w].pc # "idle" /\ write' = [write EXCEPT ![w] = [pc |-> "running", token |-> write[w].token]]
    <3>1. UNCHANGED <<challenges, sessions, verify, sweep, drawn, signed, grants>>
      BY <1>9 DEF AdmitWrite, FinishWrite, storeVars, history
    <3>2. CASE AdmitWrite(w) /\ Live(write[w].left)
      BY <3>1, <3>2 DEF AdmitWrite, Live
    <3>3. CASE AdmitWrite(w) /\ ~Live(write[w].left)
      BY <3>1, <3>3 DEF AdmitWrite, Live
    <3>4. CASE FinishWrite(w)
      BY <3>1, <3>4 DEF FinishWrite
    <3>. QED  BY <1>9, <3>2, <3>3, <3>4
  <2>2. EveryWriteIsSigned' /\ SweepIsStale'
    BY <2>1 DEF IInv, TypeOK, EveryWriteIsSigned, SweepIsStale, Granted, Spent, Idle
  <2>. QED  BY <1>0, <2>1, <2>2, Untouched DEF IInv
<1>10. CASE CollectExpired
  <2>1. UNCHANGED <<challenges, sessions, verify, write, drawn, signed, grants>>
    BY <1>10 DEF CollectExpired, storeVars, history
  <2>2. SweepIsStale'
    BY <1>10, <2>1 DEF IInv, CollectExpired, SweepIsStale, ExpiredKeys, NoncesApart, TokensApart, Granted
  <2>3. EveryWriteIsSigned'
    BY <2>1 DEF IInv, EveryWriteIsSigned, Granted, Spent
  <2>. QED  BY <1>0, <2>1, <2>2, <2>3, Untouched DEF IInv
<1>11. CASE DeleteCollected
  <2>1. /\ DOMAIN challenges' \subseteq DOMAIN challenges
        /\ DOMAIN sessions' \subseteq DOMAIN sessions
        /\ UNCHANGED <<verify, write, drawn, signed, grants>>
        /\ sweep' = NoSweep
    BY <1>11 DEF DeleteCollected, Without, Restrict, history
  <2>2. NoncesApart' /\ TokensApart' /\ ProofsGenuine'
    BY <2>1 DEF IInv, NoncesApart, TokensApart, ProofsGenuine, InFlight, Busy, Spent, Granted
  <2>3. OneSessionPerNonce' /\ EveryWriteIsSigned' /\ SweepIsStale'
    BY <2>1 DEF IInv, OneSessionPerNonce, EveryWriteIsSigned, SweepIsStale, NoSweep, Granted, Spent
  <2>. QED  BY <1>0, <2>2, <2>3 DEF IInv
<1>12. CASE Tick
  <2>1. /\ DOMAIN challenges' = DOMAIN challenges /\ DOMAIN sessions' = DOMAIN sessions
        /\ UNCHANGED <<sweep, drawn, signed, grants>>
    BY <1>12 DEF Tick, Age, history
  <2>2. /\ \A n \in DOMAIN challenges : Expired(challenges[n]) => Expired(challenges'[n])
        /\ \A t \in DOMAIN sessions : Expired(sessions[t]) => Expired(sessions'[t])
    BY <1>12 DEF Tick, Age, Expired
  <2>3. \A v \in Verifiers :
           /\ verify'[v].pc = verify[v].pc
           /\ verify[v].pc # "idle" => verify'[v].nonce = verify[v].nonce
           /\ verify[v].pc = "checking" => verify'[v].proof = verify[v].proof
           /\ verify[v].pc = "storing" => verify'[v].token = verify[v].token
    BY <1>12 DEF Tick, IInv, TypeOK, VerifyState, Idle
  <2>4. \A w \in Writers :
           write'[w].pc = write[w].pc /\ (write[w].pc # "idle" => write'[w].token = write[w].token)
    BY <1>12 DEF Tick, IInv, TypeOK, WriteState, Idle
  <2>5. InFlight' = InFlight
    BY <2>3 DEF InFlight
  <2>6. NoncesApart' /\ TokensApart' /\ ProofsGenuine'
    BY <2>1, <2>3, <2>5 DEF IInv, NoncesApart, TokensApart, ProofsGenuine, Busy, Spent, Granted
  <2>7. OneSessionPerNonce' /\ EveryWriteIsSigned' /\ SweepIsStale'
    BY <2>1, <2>2, <2>4 DEF IInv, OneSessionPerNonce, EveryWriteIsSigned, SweepIsStale, Granted, Spent
  <2>. QED  BY <1>0, <2>6, <2>7 DEF IInv
<1>13. CASE Restart
  <2>1. /\ DOMAIN challenges' = {} /\ DOMAIN sessions' = {} /\ sweep' = NoSweep
        /\ \A v \in Verifiers : verify'[v] = Idle
        /\ \A w \in Writers : write'[w] = Idle
        /\ UNCHANGED <<drawn, signed, grants>>
    BY <1>13 DEF Restart, history
  <2>2. NoncesApart' /\ TokensApart' /\ ProofsGenuine'
    BY <2>1 DEF IInv, NoncesApart, TokensApart, ProofsGenuine, InFlight, Busy, Spent, Granted, Idle
  <2>3. OneSessionPerNonce' /\ EveryWriteIsSigned' /\ SweepIsStale'
    BY <2>1 DEF IInv, OneSessionPerNonce, EveryWriteIsSigned, SweepIsStale, NoSweep, Granted, Spent, Idle
  <2>. QED  BY <1>0, <2>2, <2>3 DEF IInv
<1>14. CASE UNCHANGED vars
  <2>1. EveryWriteIsSigned' /\ SweepIsStale'
    BY <1>14 DEF vars, IInv, EveryWriteIsSigned, SweepIsStale, Granted, Spent
  <2>. QED  BY <1>0, <1>14, <2>1, Untouched DEF IInv, vars
<1>. QED  BY <1>1, <1>2, <1>3, <1>4, <1>5, <1>6, <1>7, <1>8, <1>9, <1>10, <1>11, <1>12,
             <1>13, <1>14 DEF Next

\* The inductive invariant holds initially, hence always.
THEOREM Invariance == Spec => []IInv
<1>1. Init => IInv
  <2> SUFFICES ASSUME Init PROVE IInv
    OBVIOUS
  <2>1. TypeOK
    BY DEF Init, TypeOK, IsTable, Idle, NoSweep, VerifyState, WriteState
  <2>. QED
    BY <2>1 DEF Init, IInv, NoncesApart, TokensApart, ProofsGenuine, SweepIsStale, OneSessionPerNonce,
                EveryWriteIsSigned, InFlight, Busy, Spent, Granted, Idle, NoSweep
<1>. QED  BY <1>1, Inductive, PTL DEF Spec

-----------------------------------------------------------------------------
(* The properties                                                          *)

\* However verify requests race, a nonce never buys two sessions.
THEOREM NoReplay == Spec => []OneSessionPerNonce
<1>1. IInv => OneSessionPerNonce
  BY DEF IInv
<1>. QED  BY <1>1, Invariance, PTL

\* No session exists and no admin write passes the middleware without a nonce
\* that the secret key's holder signed.
THEOREM Authenticated == Spec => []EveryWriteIsSigned
<1>1. IInv => EveryWriteIsSigned
  BY DEF IInv
<1>. QED  BY <1>1, Invariance, PTL

\* A logged-out, swept or forgotten session is never accepted again.
THEOREM RevokedForGood == Spec => NoResurrection
<1> DEFINE Stays(t) ==
       t \notin DOMAIN sessions =>
         /\ t \notin DOMAIN sessions'
         /\ \A w \in Writers : write'[w].pc = "looked_up" /\ write'[w].token = t
                                 => write[w].pc = "looked_up" /\ write[w].token = t
<1>1. IInv /\ [Next]_vars => [\A t \in Granted : Stays(t)]_vars
  <2> SUFFICES ASSUME IInv, Next, NEW t \in Granted, t \notin DOMAIN sessions PROVE Stays(t)
    BY DEF vars
  <2>1. t \notin DOMAIN sessions'
    <3>1. ASSUME NEW v \in Verifiers, StoreSession(v) PROVE t \notin DOMAIN sessions'
      BY <3>1 DEF StoreSession, With, IInv, TokensApart
    <3>2. ASSUME NEW s \in Tokens, RevokeSession(s) PROVE t \notin DOMAIN sessions'
      BY <3>2 DEF RevokeSession, Without, Restrict
    <3>3. CASE DeleteCollected
      BY <3>3 DEF DeleteCollected, Without, Restrict
    <3>4. CASE Tick
      BY <3>4 DEF Tick, Age
    <3>5. CASE Restart
      BY <3>5 DEF Restart
    <3>6. CASE UNCHANGED sessions
      BY <3>6
    <3>. QED  BY <3>1, <3>2, <3>3, <3>4, <3>5, <3>6
                 DEF Next, IssueChallenge, SignNonce, ConsumeChallenge, RejectProof, MintToken, LookupSession,
                     AdmitWrite, FinishWrite, CollectExpired, storeVars
  <2>2. ASSUME NEW w \in Writers, write'[w].pc = "looked_up", write'[w].token = t
        PROVE  write[w].pc = "looked_up" /\ write[w].token = t
    <3>1. ASSUME NEW u \in Writers, NEW s \in Tokens, LookupSession(u, s)
          PROVE  write[w].pc = "looked_up" /\ write[w].token = t
      BY <2>2, <3>1 DEF LookupSession, IInv, TypeOK
    <3>2. ASSUME NEW u \in Writers, AdmitWrite(u)
          PROVE  write[w].pc = "looked_up" /\ write[w].token = t
      BY <2>2, <3>2 DEF AdmitWrite, IInv, TypeOK, Idle
    <3>3. ASSUME NEW u \in Writers, FinishWrite(u)
          PROVE  write[w].pc = "looked_up" /\ write[w].token = t
      BY <2>2, <3>3 DEF FinishWrite, IInv, TypeOK, Idle
    <3>4. CASE Tick
      BY <2>2, <3>4 DEF Tick, IInv, TypeOK, WriteState, Idle
    <3>5. CASE Restart
      BY <2>2, <3>5 DEF Restart, Idle
    <3>6. CASE UNCHANGED write
      BY <2>2, <3>6
    <3>. QED  BY <3>1, <3>2, <3>3, <3>4, <3>5, <3>6
                 DEF Next, IssueChallenge, SignNonce, ConsumeChallenge, RejectProof, MintToken, StoreSession,
                     RevokeSession, CollectExpired, DeleteCollected
  <2>. QED  BY <2>1, <2>2
<1>. QED  BY <1>1, Invariance, PTL DEF Spec, NoResurrection

\* The sweep's second pass, though blind, spares every live entry.
THEOREM SweepSafe == Spec => SweepSparesLive
<1>1. IInv /\ [Next]_vars =>
        [DeleteCollected =>
           /\ \A n \in DOMAIN challenges \ DOMAIN challenges' : Expired(challenges[n])
           /\ \A t \in DOMAIN sessions \ DOMAIN sessions' : Expired(sessions[t])]_vars
  <2> SUFFICES ASSUME IInv, DeleteCollected
               PROVE  /\ \A n \in DOMAIN challenges \ DOMAIN challenges' : Expired(challenges[n])
                      /\ \A t \in DOMAIN sessions \ DOMAIN sessions' : Expired(sessions[t])
    BY DEF vars
  <2>1. /\ DOMAIN challenges' = DOMAIN challenges \ sweep.challenges
        /\ DOMAIN sessions' = DOMAIN sessions \ sweep.sessions
    BY DEF DeleteCollected, Without, Restrict
  <2>. QED  BY <2>1 DEF IInv, SweepIsStale
<1>. QED  BY <1>1, Invariance, PTL DEF Spec, SweepSparesLive

\* The two maps are finite: they never hold more than one entry per draw.
TablesFinite == IsFiniteSet(DOMAIN challenges) /\ IsFiniteSet(DOMAIN sessions)

\* A capped set that shrinks, or takes one element while below the cap, stays
\* finite and capped.
LEMMA CapKept ==
  ASSUME NEW S, IsFiniteSet(S), NEW max \in Nat, max > 0 => Cardinality(S) <= max
  PROVE  /\ \A T : T \subseteq S => IsFiniteSet(T) /\ (max > 0 => Cardinality(T) <= max)
         /\ \A x : ~(max > 0 /\ Cardinality(S) >= max) =>
                     IsFiniteSet(S \cup {x}) /\ (max > 0 => Cardinality(S \cup {x}) <= max)
<1>1. ASSUME NEW T, T \subseteq S PROVE IsFiniteSet(T) /\ (max > 0 => Cardinality(T) <= max)
  <2>1. IsFiniteSet(T) /\ Cardinality(T) <= Cardinality(S)
    BY <1>1, FS_Subset
  <2>. QED  BY <2>1, FS_CardinalityType
<1>2. ASSUME NEW x, ~(max > 0 /\ Cardinality(S) >= max)
      PROVE  IsFiniteSet(S \cup {x}) /\ (max > 0 => Cardinality(S \cup {x}) <= max)
  <2>1. /\ IsFiniteSet(S \cup {x})
        /\ Cardinality(S \cup {x}) = Cardinality(S) \/ Cardinality(S \cup {x}) = Cardinality(S) + 1
    BY FS_AddElement
  <2>. QED  BY <1>2, <2>1, FS_CardinalityType
<1>. QED  BY <1>1, <1>2

\* The caps hold although inserts race: check and insert are one step.
THEOREM Capped == Spec => []CapsHold
<1> DEFINE CInv == TablesFinite /\ CapsHold
<1>1. Init => CInv
  BY FS_EmptySet DEF Init, TablesFinite, CapsHold
<1>2. CInv /\ [Next]_vars => CInv'
  <2> SUFFICES ASSUME CInv, [Next]_vars PROVE CInv'
    OBVIOUS
  <2>1. \/ DOMAIN challenges' \subseteq DOMAIN challenges
        \/ \E n \in Nonces : DOMAIN challenges' = DOMAIN challenges \cup {n} /\ ~AtCap(challenges, MaxChallenges)
    <3>1. ASSUME NEW n \in Nonces, IssueChallenge(n)
          PROVE  DOMAIN challenges' = DOMAIN challenges \cup {n} /\ ~AtCap(challenges, MaxChallenges)
      BY <3>1 DEF IssueChallenge, With
    <3>2. ASSUME NEW v \in Verifiers, NEW n \in Nonces, NEW q \in {"valid", "junk"}, ConsumeChallenge(v, n, q)
          PROVE  DOMAIN challenges' \subseteq DOMAIN challenges
      BY <3>2 DEF ConsumeChallenge, Without, Restrict
    <3>3. CASE DeleteCollected \/ Tick \/ Restart
      BY <3>3 DEF DeleteCollected, Tick, Restart, Without, Restrict, Age
    <3>4. CASE UNCHANGED challenges
      BY <3>4
    <3>. QED  BY <3>1, <3>2, <3>3, <3>4
                 DEF Next, vars, storeVars, SignNonce, RejectProof, StoreSession, MintToken, RevokeSession,
                     LookupSession, AdmitWrite, FinishWrite, CollectExpired
  <2>2. \/ DOMAIN sessions' \subseteq DOMAIN sessions
        \/ \E v \in Verifiers :
             DOMAIN sessions' = DOMAIN sessions \cup {verify[v].token} /\ ~AtCap(sessions, MaxSessions)
    <3>1. ASSUME NEW v \in Verifiers, StoreSession(v)
          PROVE  \/ sessions' = sessions
                 \/ DOMAIN sessions' = DOMAIN sessions \cup {verify[v].token} /\ ~AtCap(sessions, MaxSessions)
      BY <3>1 DEF StoreSession, With
    <3>2. ASSUME NEW t \in Tokens, RevokeSession(t) PROVE DOMAIN sessions' \subseteq DOMAIN sessions
      BY <3>2 DEF RevokeSession, Without, Restrict
    <3>3. CASE DeleteCollected \/ Tick \/ Restart
      BY <3>3 DEF DeleteCollected, Tick, Restart, Without, Restrict, Age
    <3>4. CASE UNCHANGED sessions
      BY <3>4
    <3>. QED  BY <3>1, <3>2, <3>3, <3>4
                 DEF Next, vars, storeVars, IssueChallenge, SignNonce, ConsumeChallenge, RejectProof, MintToken,
                     LookupSession, AdmitWrite, FinishWrite, CollectExpired
  <2>4. IsFiniteSet(DOMAIN challenges)' /\ (MaxChallenges > 0 => Cardinality(DOMAIN challenges) <= MaxChallenges)'
    BY <2>1, CapKept DEF TablesFinite, CapsHold, AtCap
  <2>5. IsFiniteSet(DOMAIN sessions)' /\ (MaxSessions > 0 => Cardinality(DOMAIN sessions) <= MaxSessions)'
    BY <2>2, CapKept DEF TablesFinite, CapsHold, AtCap
  <2>. QED  BY <2>4, <2>5 DEF TablesFinite, CapsHold
<1>. QED  BY <1>1, <1>2, PTL DEF Spec

-----------------------------------------------------------------------------
(* AdminAuth implements AdminAccess                                        *)

\* A step that draws no nonce, signs nothing and grants nothing, and after which
\* no more is offered or accepted than before, is a lapse of the abstract sign-in.
LEMMA Shrinking ==
  ASSUME IInv, drawn' \cap Nonces = drawn \cap Nonces, signed' = signed, Granted' = Granted,
         Offered' \subseteq Offered, Accepted' \subseteq Accepted
  PROVE  Access!Next
<1>1. Offered \subseteq drawn \cap Nonces /\ Accepted \subseteq Tokens
  BY DEF IInv, TypeOK, IsTable, NoncesApart, Offered, InFlight, Accepted
<1>2. Accepted \subseteq Granted
  BY DEF IInv, TokensApart, Accepted
<1>3. Access!Lapse(Offered \ Offered', Accepted \ Accepted', {})
  BY <1>1, <1>2 DEF Access!Lapse
<1>. QED  BY <1>1, <1>3 DEF Access!Next

\* Refinement: whatever the clock, the sweep and the requests in flight do, the
\* sign-in looks to its clients like the abstract one.
THEOREM Refinement == Spec => ImplementsAccess
<1>1. Init => Access!Init
  BY DEF Init, Access!Init, Offered, InFlight, Accepted, Granted, Idle
<1>2. IInv /\ [Next]_vars => [Access!Next]_(Access!accessVars)
  <2> SUFFICES ASSUME IInv, [Next]_vars PROVE Access!Next \/ UNCHANGED Access!accessVars
    OBVIOUS
  <2>0. /\ Offered \subseteq drawn \cap Nonces
        /\ DOMAIN challenges \subseteq Nonces /\ DOMAIN sessions \subseteq Tokens
    BY DEF IInv, TypeOK, IsTable, NoncesApart, Offered, InFlight
  <2>1. ASSUME NEW n \in Nonces, IssueChallenge(n) PROVE Access!Next
    <3>1. Offered' = Offered \cup {n}
      BY <2>1 DEF IssueChallenge, With, Offered, InFlight, Expired, IInv, NoncesApart
    <3>2. Accepted' = Accepted /\ Granted' = Granted
      BY <2>1 DEF IssueChallenge, Accepted, Granted
    <3>3. Access!Offer(n)
      BY <2>0, <2>1, <3>1, <3>2 DEF IssueChallenge, Access!Offer
    <3>. QED  BY <3>3 DEF Access!Next
  <2>2. ASSUME NEW n \in Nonces, SignNonce(n) PROVE Access!Next
    <3>1. Offered' = Offered /\ Accepted' = Accepted /\ Granted' = Granted /\ drawn' = drawn
      BY <2>2 DEF SignNonce, Offered, InFlight, Accepted, Granted
    <3>2. Access!Sign(n)
      BY <2>0, <2>2, <3>1 DEF SignNonce, Access!Sign
    <3>. QED  BY <3>2 DEF Access!Next
  <2>3. ASSUME NEW v \in Verifiers, NEW n \in Nonces, NEW p \in {"valid", "junk"}, ConsumeChallenge(v, n, p)
        PROVE Access!Next
    <3>1. Offered' \subseteq Offered
      <4>1. \A x \in InFlight' : x \in InFlight \/ (x = n /\ n \in DOMAIN challenges /\ ~Expired(challenges[n]))
        BY <2>3 DEF ConsumeChallenge, InFlight, IInv, TypeOK
      <4>2. \A x \in DOMAIN challenges' : x \in DOMAIN challenges /\ challenges'[x] = challenges[x]
        BY <2>3 DEF ConsumeChallenge, Without, Restrict
      <4>. QED  BY <4>1, <4>2 DEF Offered, Expired
    <3>. QED  BY <2>3, <3>1, Shrinking DEF ConsumeChallenge, history, Accepted, Granted
  <2>4. ASSUME NEW v \in Verifiers, RejectProof(v) PROVE Access!Next
    <3>1. InFlight' \subseteq InFlight
      BY <2>4, IdleStep DEF RejectProof, IInv
    <3>. QED  BY <2>4, <3>1, Shrinking DEF RejectProof, storeVars, history, Offered, Accepted, Granted
  <2>5. ASSUME NEW v \in Verifiers, StoreSession(v) PROVE Access!Next
    <3> DEFINE n == verify[v].nonce
               t == verify[v].token
    <3>1. /\ n \in InFlight /\ n \in signed /\ n \in Nonces
          /\ t \in Tokens /\ t \notin Granted
      BY <2>5 DEF StoreSession, IInv, TypeOK, VerifyState, Idle, InFlight, ProofsGenuine, TokensApart
    <3>2. Offered' = Offered \ {n}
      <4>1. InFlight' = InFlight \ {n}
        <5>1. \A u \in Verifiers : Busy(u)' <=> Busy(u) /\ u # v
          BY <2>5 DEF StoreSession, IInv, TypeOK, Busy, Idle
        <5>2. \A u \in Verifiers \ {v} : verify'[u] = verify[u]
          BY <2>5 DEF StoreSession, IInv, TypeOK
        <5>3. \A u \in Verifiers \ {v} : Busy(u) => verify[u].nonce # n
          BY <2>5 DEF StoreSession, IInv, NoncesApart, Busy
        <5>. QED  BY <5>1, <5>2, <5>3 DEF InFlight, Busy
      <4>2. challenges' = challenges /\ n \notin DOMAIN challenges
        BY <2>5, <3>1 DEF StoreSession, IInv, NoncesApart
      <4>. QED  BY <4>1, <4>2 DEF Offered
    <3>3. CASE UNCHANGED <<sessions, grants>>
      BY <2>5, <3>2, <3>3, Shrinking DEF StoreSession, Accepted, Granted
    <3>4. CASE sessions' = With(sessions, t, verify[v].left) /\ grants' = grants \cup {<<t, n>>}
      <4>1. Granted' = Granted \cup {t}
        <5>1. \A g \in {<<t, n>>} : g[1] = t
          OBVIOUS
        <5>2. {g[1] : g \in grants \cup {<<t, n>>}} = {g[1] : g \in grants} \cup {t}
          BY <5>1
        <5>. QED  BY <3>4, <5>2 DEF Granted
      <4>2. t \notin DOMAIN sessions /\ Accepted \subseteq Granted
        BY <3>1 DEF IInv, TokensApart, Accepted
      <4>3. drawn' = drawn /\ signed' = signed
        BY <2>5 DEF StoreSession
      <4>4. CASE Live(verify[v].left)
        <5>1. Accepted' = Accepted \cup {t}
          BY <3>4, <4>2, <4>4 DEF Accepted, With, Live
        <5>2. Access!Grant(n, t)
          BY <2>0, <3>1, <3>2, <4>1, <4>2, <4>3, <5>1 DEF Access!Grant, Offered
        <5>. QED  BY <3>1, <5>2 DEF Access!Next
      <4>5. CASE ~Live(verify[v].left)
        <5>1. Accepted' = Accepted
          BY <3>4, <4>2, <4>5 DEF Accepted, With, Live
        <5>2. Access!Lapse({n}, {}, {t})
          BY <2>0, <3>1, <3>2, <4>1, <4>2, <4>3, <5>1 DEF Access!Lapse, Offered
        <5>. QED  BY <3>1, <5>2 DEF Access!Next
      <4>. QED  BY <4>4, <4>5
    <3>. QED  BY <2>5, <3>3, <3>4 DEF StoreSession
  <2>6. ASSUME NEW v \in Verifiers, NEW t \in Tokens, MintToken(v, t) PROVE Access!Next
    <3>1. \A u \in Verifiers : Busy(u)' => Busy(u) /\ verify'[u].nonce = verify[u].nonce
      BY <2>6 DEF MintToken, IInv, TypeOK, Busy
    <3>2. InFlight' \subseteq InFlight
      BY <3>1 DEF InFlight, Busy
    <3>3. drawn' \cap Nonces = drawn \cap Nonces
      BY <2>6 DEF MintToken
    <3>. QED  BY <2>6, <3>2, <3>3, Shrinking DEF MintToken, storeVars, Offered, Accepted, Granted
  <2>7. ASSUME NEW t \in Tokens, RevokeSession(t) PROVE Access!Next
    <3>1. Accepted' \subseteq Accepted
      BY <2>7 DEF RevokeSession, Without, Restrict, Accepted, Live
    <3>. QED  BY <2>7, <3>1, Shrinking DEF RevokeSession, history, Offered, InFlight, Granted
  <2>8. CASE DeleteCollected
    <3>1. Offered' \subseteq Offered /\ Accepted' \subseteq Accepted
      BY <2>8 DEF DeleteCollected, Without, Restrict, Offered, InFlight, Accepted, Live, Expired
    <3>. QED  BY <2>8, <3>1, Shrinking DEF DeleteCollected, history, Granted
  <2>9. CASE Tick
    <3>1. InFlight' \subseteq InFlight
      <4>1. \A v \in Verifiers : Busy(v)' => Busy(v) /\ verify'[v].nonce = verify[v].nonce
        BY <2>9 DEF Tick, IInv, TypeOK, VerifyState, Idle, Busy
      <4>. QED  BY <4>1 DEF InFlight, Busy
    <3>2. /\ \A n \in DOMAIN challenges' : n \in DOMAIN challenges /\ (Expired(challenges[n]) => Expired(challenges'[n]))
          /\ \A t \in DOMAIN sessions' : t \in DOMAIN sessions /\ (Live(sessions'[t]) => Live(sessions[t]))
      BY <2>9 DEF Tick, Age, Expired, Live, IInv, TypeOK, IsTable
    <3>3. Offered' \subseteq Offered /\ Accepted' \subseteq Accepted
      BY <3>1, <3>2 DEF Offered, Accepted
    <3>. QED  BY <2>9, <3>3, Shrinking DEF Tick, history, Granted
  <2>10. CASE Restart
    <3>1. Offered' = {} /\ Accepted' = {}
      BY <2>10 DEF Restart, Offered, InFlight, Accepted, Idle
    <3>. QED  BY <2>10, <3>1, Shrinking DEF Restart, history, Granted
  <2>11. CASE UNCHANGED <<challenges, sessions, verify, drawn, signed, grants>>
    BY <2>11 DEF Access!accessVars, Offered, InFlight, Accepted, Granted
  <2>. QED  BY <2>1, <2>2, <2>3, <2>4, <2>5, <2>6, <2>7, <2>8, <2>9, <2>10, <2>11
               DEF Next, vars, storeVars, history, LookupSession, AdmitWrite, FinishWrite, CollectExpired
<1>. QED  BY <1>1, <1>2, Invariance, PTL DEF Spec, ImplementsAccess, Access!Spec
=============================================================================
