---------------------------- MODULE AdminAccess ----------------------------
(***************************************************************************)
(* What the admin sign-in promises, with no clock, no in-flight request    *)
(* and no sweep: an offered nonce is granted at most once, only if the key *)
(* holder signed it, and the token it buys is accepted from that one step  *)
(* until it ends for good.  AdminAuth implements this module.              *)
(***************************************************************************)
CONSTANTS
  Nonces,   \* the values IssueChallenge can draw
  Tokens    \* the values IssueSession can draw

VARIABLES
  offered,  \* nonces that can still buy a session
  gone,     \* nonces that never can again
  signed,   \* nonces the holder of the secret key has signed
  live,     \* tokens the server accepts
  ended     \* tokens it will never accept again

accessVars == <<offered, gone, signed, live, ended>>

Init ==
  /\ offered = {} /\ gone = {} /\ signed = {}
  /\ live = {} /\ ended = {}

Offer(n) ==
  /\ n \notin offered \cup gone
  /\ offered' = offered \cup {n}
  /\ UNCHANGED <<gone, signed, live, ended>>

Sign(n) ==
  /\ n \in offered \cup gone
  /\ signed' = signed \cup {n}
  /\ UNCHANGED <<offered, gone, live, ended>>

Grant(n, t) ==
  /\ n \in offered \cap signed
  /\ t \notin live \cup ended
  /\ offered' = offered \ {n}
  /\ gone' = gone \cup {n}
  /\ live' = live \cup {t}
  /\ UNCHANGED <<signed, ended>>

\* Expiry, a failed attempt, a logout or a restart: some offers are withdrawn
\* and some tokens end (D: before anyone could use them), none come back.
Lapse(N, T, D) ==
  /\ N \subseteq offered
  /\ T \subseteq live
  /\ D \cap live = {}
  /\ offered' = offered \ N
  /\ gone' = gone \cup N
  /\ live' = live \ T
  /\ ended' = ended \cup T \cup D
  /\ UNCHANGED signed

Next ==
  \/ \E n \in Nonces : Offer(n) \/ Sign(n)
  \/ \E n \in Nonces, t \in Tokens : Grant(n, t)
  \/ \E N \in SUBSET Nonces, T, D \in SUBSET Tokens : Lapse(N, T, D)

Spec == Init /\ [][Next]_accessVars
=============================================================================
