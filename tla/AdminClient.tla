---------------------------- MODULE AdminClient ----------------------------
(***************************************************************************)
(* One running copy of the admin app and the session it keeps: the token   *)
(* in SharedPreferences (lib/services/admin_auth_service.dart), the        *)
(* sign-in of the auth gate (admin_auth_gate.dart, admin_auth_viewmodel    *)
(* .dart), the admin writes in flight and what a 401 does to them          *)
(* (_http_with_admin_token.dart), and the adminSessionExpired flags that   *)
(* take the shell back to the gate (admin_shell.dart).                     *)
(*                                                                         *)
(* The server is the abstract sign-in of AdminAccess, which AdminAuth      *)
(* implements: it grants a token for a signed nonce, accepts it while it   *)
(* is live, and may end any session at any time (expiry, restart).         *)
(*                                                                         *)
(* A handler is taken apart at its awaits.  SharedPreferences changes its  *)
(* copy in memory before the await of its own write to disk.               *)
(***************************************************************************)
EXTENDS FiniteSets

CONSTANTS
  Nonces, Tokens,  \* as in AdminAccess (bound the run)
  Slots,           \* bound: writes in flight
  None             \* no token stored, no Authorization header

ASSUME NoneAssumption == None \notin Tokens

VARIABLES
  offered, gone, signed, live, ended,  \* the server, see AdminAccess
  stored,     \* the token in SharedPreferences
  screen,     \* what is on top: the home screen, the gate or the shell
  unchecked,  \* a gate that has not looked at the stored token yet
  signIn,     \* authenticateWithSecretKey and the gate that called it
  write,      \* the admin writes in flight
  flagged,    \* view models whose adminSessionExpired is set
  forgotten,  \* tokens a 401 was handled for (history)
  refused     \* a 401 was reported to this shell (history)

serverVars == <<offered, gone, signed, live, ended>>
clientVars == <<stored, screen, unchecked, signIn, write, flagged, forgotten, refused>>
vars == <<offered, gone, signed, live, ended,
          stored, screen, unchecked, signIn, write, flagged, forgotten, refused>>

Server == INSTANCE AdminAccess

-----------------------------------------------------------------------------
Idle == [step |-> "idle"]

\* Who reports a 401 to the shell.  "save": addProduct and updateProduct;
\* "bump": stock and categories; "content": articles, banners, events and site
\* info; "silent": deleteProduct and the uploads, whose callers catch every
\* error alike, or none.
Reporters ==
  [save |-> {"admin"}, bump |-> {"admin"}, content |-> {"content"}, silent |-> {}]

Init ==
  /\ Server!Init
  /\ stored = None
  /\ screen = "home" /\ unchecked = FALSE
  /\ signIn = Idle
  /\ write = [s \in Slots |-> Idle]
  /\ flagged = {}
  /\ forgotten = {} /\ refused = FALSE

\* The gate whose State awaits the sign-in is disposed.
Unmounted == IF signIn = Idle THEN Idle ELSE [signIn EXCEPT !.mounted = FALSE]

-----------------------------------------------------------------------------
(* Screens                                                                 *)

OpenGate ==
  /\ screen = "home"
  /\ screen' = "gate" /\ unchecked' = TRUE
  /\ UNCHANGED <<serverVars, stored, signIn, write, flagged, forgotten, refused>>

\* Mutated form: the shell trusts the flags it finds.
EnterShellSticky ==
  /\ screen' = "shell" /\ unchecked' = FALSE
  /\ refused' = FALSE
  /\ UNCHANGED flagged

\* _openAdmin and the shell's initState.
EnterShell ==
  /\ screen' = "shell" /\ unchecked' = FALSE
  /\ flagged' = {} /\ refused' = FALSE

\* The gate's first frame: an admin with a stored token goes straight in.
CheckStored ==
  /\ screen = "gate" /\ unchecked
  /\ IF stored = None
     THEN /\ unchecked' = FALSE
          /\ UNCHANGED <<screen, signIn, flagged, refused>>
     ELSE EnterShell /\ signIn' = Unmounted
  /\ UNCHANGED <<serverVars, stored, write, forgotten>>

\* The back button of the gate or the shell.
Leave ==
  /\ screen # "home"
  /\ screen' = "home" /\ unchecked' = FALSE
  /\ signIn' = Unmounted
  /\ UNCHANGED <<serverVars, stored, write, flagged, forgotten, refused>>

\* Mutated form: the shell watches the product view model only.
RedirectAdminOnly ==
  /\ screen = "shell" /\ "admin" \in flagged
  /\ screen' = "gate" /\ unchecked' = TRUE
  /\ UNCHANGED <<serverVars, stored, signIn, write, flagged, forgotten, refused>>

\* The shell's build sees a flag; after the frame the gate replaces the shell.
\* The flag stays.
Redirect ==
  /\ screen = "shell" /\ flagged # {}
  /\ screen' = "gate" /\ unchecked' = TRUE
  /\ UNCHANGED <<serverVars, stored, signIn, write, flagged, forgotten, refused>>

\* The app is killed or the page reloaded: only the stored token survives.
Relaunch ==
  /\ screen' = "home" /\ unchecked' = FALSE
  /\ signIn' = Idle
  /\ write' = [s \in Slots |-> Idle]
  /\ flagged' = {} /\ refused' = FALSE
  /\ UNCHANGED <<serverVars, stored, forgotten>>

-----------------------------------------------------------------------------
(* The sign-in: authenticateWithSecretKey, one at a time                   *)

StartSignIn ==
  /\ screen = "gate"
  /\ signIn = Idle
  /\ signIn' = [step |-> "asking", mounted |-> TRUE]
  /\ UNCHANGED <<serverVars, stored, screen, unchecked, write, flagged, forgotten, refused>>

\* requestChallenge returns a nonce, which the client signs.
TakeChallenge(n) ==
  /\ signIn.step = "asking"
  /\ Server!Offer(n)
  /\ signIn' = [step |-> "signing", mounted |-> signIn.mounted, nonce |-> n]
  /\ UNCHANGED <<stored, screen, unchecked, write, flagged, forgotten, refused>>

SignChallenge ==
  /\ signIn.step = "signing"
  /\ Server!Sign(signIn.nonce)
  /\ signIn' = [signIn EXCEPT !.step = "verifying"]
  /\ UNCHANGED <<stored, screen, unchecked, write, flagged, forgotten, refused>>

\* The server verifies and its answer is on the way.
Verified(t) ==
  /\ signIn.step = "verifying"
  /\ Server!Grant(signIn.nonce, t)
  /\ signIn' = [step |-> "granted", mounted |-> signIn.mounted, token |-> t]
  /\ UNCHANGED <<stored, screen, unchecked, write, flagged, forgotten, refused>>

\* _persistToken, mounted or not.
PersistToken ==
  /\ signIn.step = "granted"
  /\ stored' = signIn.token
  /\ signIn' = [step |-> "stored", mounted |-> signIn.mounted]
  /\ UNCHANGED <<serverVars, screen, unchecked, write, flagged, forgotten, refused>>

\* Only the gate that asked for it opens the shell.
FinishSignIn ==
  /\ signIn.step = "stored"
  /\ signIn' = Idle
  /\ IF signIn.mounted THEN EnterShell ELSE UNCHANGED <<screen, unchecked, flagged, refused>>
  /\ UNCHANGED <<serverVars, stored, write, forgotten>>

\* A bad key file, an error status, no answer within ten seconds: the server
\* may have granted a token nobody holds.
FailSignIn ==
  /\ signIn.step \in {"asking", "signing", "verifying", "granted"}
  /\ signIn' = Idle
  /\ UNCHANGED <<serverVars, stored, screen, unchecked, write, flagged, forgotten, refused>>

-----------------------------------------------------------------------------
(* Admin writes                                                            *)

\* withAdminAuth reads the token as the request is sent.  addProduct and
\* updateProduct first take back the flag of an earlier failure.
StartWrite(s, kind) ==
  /\ screen = "shell"
  /\ write[s] = Idle
  /\ write' = [write EXCEPT ![s] = [step |-> "sent", kind |-> kind, token |-> stored]]
  /\ flagged' = IF kind = "save" THEN flagged \ {"admin"} ELSE flagged
  /\ UNCHANGED <<serverVars, stored, screen, unchecked, signIn, forgotten, refused>>

\* RequireAdminSession lets the write through, or answers "admin session
\* required".
ServeWrite(s) ==
  /\ write[s].step = "sent"
  /\ write' = [write EXCEPT ![s].step = IF write[s].token \in live THEN "done" ELSE "refused"]
  /\ UNCHANGED <<serverVars, stored, screen, unchecked, signIn, flagged, forgotten, refused>>

\* Mutated form: any failure counts as an expired session.
EndWriteForgets(s) ==
  /\ write[s].step \in {"sent", "done", "refused"}
  /\ stored' = IF write[s].step = "done" THEN stored ELSE None
  /\ write' = [write EXCEPT ![s] = Idle]
  /\ UNCHANGED <<serverVars, screen, unchecked, signIn, flagged, forgotten, refused>>

\* The write succeeds, fails for another reason, or gets no answer: the token
\* stays.
EndWrite(s) ==
  /\ write[s].step \in {"sent", "done", "refused"}
  /\ write' = [write EXCEPT ![s] = Idle]
  /\ UNCHANGED <<serverVars, stored, screen, unchecked, signIn, flagged, forgotten, refused>>

\* Mutated form: the token is not cleared for a write nobody reports.
ForgetTokenReported(s) ==
  /\ write[s].step = "refused"
  /\ stored' = IF Reporters[write[s].kind] = {} THEN stored ELSE None
  /\ write' = [write EXCEPT ![s].step = "expired"]
  /\ forgotten' = forgotten \cup ({write[s].token} \ {None})
  /\ UNCHANGED <<serverVars, screen, unchecked, signIn, flagged, refused>>

\* detectAdminSessionExpiry gets the 401: whatever token is stored by now goes.
ForgetToken(s) ==
  /\ write[s].step = "refused"
  /\ stored' = None
  /\ write' = [write EXCEPT ![s].step = "expired"]
  /\ forgotten' = forgotten \cup ({write[s].token} \ {None})
  /\ UNCHANGED <<serverVars, screen, unchecked, signIn, flagged, refused>>

\* The exception reaches the caller; the view models live as long as the app.
ReportExpiry(s) ==
  /\ write[s].step = "expired"
  /\ flagged' = flagged \cup Reporters[write[s].kind]
  /\ refused' = (refused \/ (screen = "shell" /\ Reporters[write[s].kind] # {}))
  /\ write' = [write EXCEPT ![s] = Idle]
  /\ UNCHANGED <<serverVars, stored, screen, unchecked, signIn, forgotten>>

\* Sessions lapse on the server.  (A nonce that lapses fails the sign-in that
\* holds it, and FailSignIn does that as well.)
Lapse ==
  /\ \E T \in SUBSET Tokens : Server!Lapse({}, T, {})
  /\ UNCHANGED clientVars

Next ==
  \/ OpenGate \/ CheckStored \/ Leave \/ Redirect \/ Relaunch
  \/ StartSignIn \/ SignChallenge \/ PersistToken \/ FinishSignIn \/ FailSignIn
  \/ \E n \in Nonces : TakeChallenge(n)
  \/ \E t \in Tokens : Verified(t)
  \/ \E s \in Slots :
       \/ \E kind \in DOMAIN Reporters : StartWrite(s, kind)
       \/ ServeWrite(s) \/ EndWrite(s) \/ ForgetToken(s) \/ ReportExpiry(s)
  \/ Lapse

Spec == Init /\ [][Next]_vars

\* A frame is drawn after a view model notified the shell.
FairSpec == Spec /\ WF_vars(Redirect)

-----------------------------------------------------------------------------
(* Properties                                                              *)

SignInState ==
  {Idle}
  \cup [step : {"asking", "stored"}, mounted : BOOLEAN]
  \cup [step : {"signing", "verifying"}, mounted : BOOLEAN, nonce : offered \cup gone]
  \cup [step : {"granted"}, mounted : BOOLEAN, token : live \cup ended]

WriteState ==
  {Idle}
  \cup [step : {"sent", "done", "refused", "expired"}, kind : DOMAIN Reporters,
        token : live \cup ended \cup {None}]

\* Type invariant; every token the app holds or has sent is one the server
\* granted, and only a gate on screen awaits a sign-in or its first look.
TypeOK ==
  /\ offered \cup gone \subseteq Nonces /\ signed \subseteq Nonces
  /\ live \cup ended \subseteq Tokens
  /\ stored \in live \cup ended \cup {None}
  /\ screen \in {"home", "gate", "shell"}
  /\ unchecked \in BOOLEAN /\ (unchecked => screen = "gate")
  /\ signIn \in SignInState /\ (signIn # Idle /\ signIn.mounted => screen = "gate")
  /\ write \in [Slots -> WriteState]
  /\ flagged \subseteq {"admin", "content"}
  /\ forgotten \subseteq Tokens
  /\ refused \in BOOLEAN

\* A token the server refused is never sent again: no sign-in, late answer or
\* relaunch brings it back ("so the next write doesn't re-send the same dead
\* credential").
DeadTokenNotResent == stored \notin forgotten

\* A token the server still accepts is only ever replaced by a newer sign-in,
\* or lost to the late 401 of a write that was sent without it.
GoodTokenKept ==
  [][stored' # stored /\ stored \in live =>
       \/ signIn.step = "granted" /\ stored' = signIn.token
       \/ \E s \in Slots : write[s].step = "refused" /\ write[s].token # stored]_vars

\* A shell that sends the admin back to the gate was told of a 401 itself:
\* flags left from before it was opened do not trap anyone in a loop between
\* gate and shell ("the user is trapped in an admin <-> gate loop").
NoGateLoop == screen = "shell" /\ flagged # {} => refused

\* A shell told of a 401 gives way to the gate, whichever view model was told
\* ("Without the latter three, the corresponding tab leaves the user on a dead
\* session"), unless the admin leaves or starts another product save, which
\* takes the flag back.
RefusedReachesGate ==
  screen = "shell" /\ flagged # {}
    ~> \/ screen # "shell"
       \/ \E s \in Slots : write[s] # Idle /\ write[s].kind = "save"

-----------------------------------------------------------------------------
(* The inductive invariant behind the safety properties                    *)

\* A token ends for good, and a 401 is only ever about one that ended (or
\* about a write that carried none).
RefusedHaveEnded ==
  /\ live \cap ended = {}
  /\ forgotten \subseteq ended
  /\ \A s \in Slots : write[s].step \in {"refused", "expired"} => write[s].token \notin live

\* A token on its way from the server has not been stored or sent yet.
GrantIsFresh ==
  signIn.step = "granted" =>
    /\ signIn.token \notin forgotten
    /\ signIn.token # stored
    /\ \A s \in Slots : write[s] # Idle => write[s].token # signIn.token

IInv == TypeOK /\ RefusedHaveEnded /\ GrantIsFresh /\ DeadTokenNotResent /\ NoGateLoop
=============================================================================
