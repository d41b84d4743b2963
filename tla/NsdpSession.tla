------------------------------ MODULE NsdpSession -----------------------------
(***************************************************************************)
(* The NSDP client (internal/nsdp/client.go), the provider's use of it     *)
(* (withNSDPClient in nsdp_client.go) and the switch at the other end of   *)
(* the network.                                                            *)
(*                                                                         *)
(* An operation is an apply: read the settings, SET those that differ,     *)
(* read them back. The resources of per-port configuration, switch         *)
(* settings and port-based VLANs bear an unanswered SET and make one       *)
(* corrective pass (tolerant); the VLAN table gives up at the first error  *)
(* and leaves the rest to the next apply. An authentication failure runs   *)
(* the whole operation once more with a new client.                        *)
(*                                                                         *)
(* Datagrams are lost, or late for the window in which their reply is      *)
(* waited for. The switch takes a SET only with a token made of its nonce, *)
(* which rolls at every authenticated SET; wrong tokens are strikes, and   *)
(* StrikeLimit of them lock all SETs.                                      *)
(***************************************************************************)
EXTENDS Integers, FiniteSets

CONSTANTS
    Settings,       \* numbers of the settings, in the order they are SET
    Attempts,       \* attempts of a GET
    StrikeLimit,    \* strikes that lock the switch
    Nonces,         \* the switch's nonces; 0 is none
    Seqs,           \* sequence numbers; 0 is none
    MaxFaults,      \* bound: datagrams lost or late, no-ops, other managers' SETs
    LoginCap        \* bound: the counter of logins stops here

ASSUME NsdpSessionAssumption ==
    /\ Settings \subseteq Nat \ {0} /\ IsFiniteSet(Settings)
    /\ Attempts \in Nat \ {0} /\ StrikeLimit \in Nat \ {0}
    /\ Nonces \subseteq Nat \ {0} /\ Seqs \subseteq Nat \ {0}
    /\ MaxFaults \in Nat /\ LoginCap \in Nat
    \* A nonce nothing knows is always left: the switch's, the client's, and one
    \* for each datagram, of which there is one and one more for each fault.
    /\ IsFiniteSet(Nonces) => Cardinality(Nonces) >= MaxFaults + 4

VARIABLES
    wrong,      \* switch: settings that are not what the operation wants
    nonce,      \* switch: the nonce tokens are made of
    strikes,    \* switch: failed authentications since the last login
    locked,     \* switch: SETs are locked out
    right,      \* the configured password is the switch's
    requests,   \* datagrams on their way to the switch
    replies,    \* datagrams on their way back, or in the socket
    client,     \* the cached client: is it logged in, and its token
    call,       \* the exchange under way, or NoCall
    tolerant,   \* the operation's resource bears unanswered SETs
    differing,  \* settings it has read and found wrong
    phase,      \* where it is
    todo,       \* settings the phase has still to read or SET
    again,      \* it runs for the second time
    outcome,    \* how the last operation ended
    logins,     \* login SETs of the operation
    touched,    \* another manager wrote since it began
    faults

switchVars == <<wrong, nonce, strikes, locked, right>>
netVars == <<requests, replies>>
opVars == <<tolerant, differing, phase, todo, again, outcome, logins, touched>>
vars == <<switchVars, netVars, client, call, opVars, faults>>

NewClient == [loggedIn |-> FALSE, token |-> 0]
NoCall == [stage |-> "none", attempt |-> 0, seq |-> 0]
Begin(stage) == [stage |-> stage, attempt |-> 1, seq |-> 0]

Gets == {"capability", "nonce", "refresh", "get"}
Sets == {"login", "set"}

Least(S) == CHOOSE x \in S : \A y \in S : x <= y
Setting == Least(todo)

\* A number of its own for every request: the numbers no datagram under way bears.
FreeSeqs == {n \in Seqs : \A m \in requests \cup replies : m.seq # n}

FreshNonce ==
    CHOOSE n \in Nonces : /\ n \notin {nonce, client.token}
                          /\ \A r \in requests : r.token # n
                          /\ \A r \in replies : r.body # n

Init ==
    /\ wrong \in SUBSET Settings /\ right \in BOOLEAN
    /\ nonce = Least(Nonces) /\ strikes = 0 /\ locked = FALSE
    /\ requests = {} /\ replies = {}
    /\ client = NewClient /\ call = NoCall
    /\ tolerant = FALSE /\ differing = {}
    /\ phase = "idle" /\ todo = {} /\ again = FALSE
    /\ outcome = "none" /\ logins = 0 /\ touched = FALSE
    /\ faults = 0

-----------------------------------------------------------------------------
(***************************************************************************)
(* The operation.                                                          *)
(***************************************************************************)

\* withNSDPClient. Assumed: no request of an earlier operation is still on its
\* way (the pacer keeps the starts of two operations seconds apart, a window
\* is 800 ms). What is asked for may be anything, and so any setting wrong.
StartOperation ==
    /\ phase = "idle" /\ requests = {}
    /\ tolerant' \in BOOLEAN /\ wrong' \in SUBSET Settings
    /\ phase' = "read" /\ todo' = Settings
    /\ differing' = {}
    /\ again' = FALSE /\ outcome' = "running" /\ logins' = 0 /\ touched' = FALSE
    /\ UNCHANGED <<nonce, strikes, locked, right, netVars, client, call, faults>>

Reading == phase \in {"read", "verify", "recheck"}

\* A slip: only a login makes a token.
FirstStageLoginOnly == IF Reading THEN "get" ELSE IF client.loggedIn THEN "set" ELSE "capability"

\* A SET logs in first when it has to, and always refreshes the token.
FirstStage == IF Reading THEN "get" ELSE IF client.loggedIn THEN "refresh" ELSE "capability"

StartCall ==
    /\ todo # {} /\ call = NoCall
    /\ call' = Begin(FirstStage)
    /\ UNCHANGED <<switchVars, netVars, client, opVars, faults>>

\* A slip: the corrective pass is trusted.
AfterPhaseTrusting ==
    CASE phase = "apply" -> "verify"
      [] phase = "correct" -> "ok"
      [] phase = "read" -> IF differing = {} THEN "verify" ELSE "apply"
      [] phase = "verify" -> IF differing = {} THEN "ok" ELSE IF tolerant THEN "correct" ELSE "drift"
      [] phase = "recheck" -> IF differing = {} THEN "ok" ELSE "drift"

AfterPhase ==
    CASE phase = "apply" -> "verify"
      [] phase = "correct" -> "recheck"
      [] phase = "read" -> IF differing = {} THEN "verify" ELSE "apply"
      [] phase = "verify" -> IF differing = {} THEN "ok" ELSE IF tolerant THEN "correct" ELSE "drift"
      [] phase = "recheck" -> IF differing = {} THEN "ok" ELSE "drift"

PhaseDone ==
    /\ phase # "idle" /\ todo = {} /\ call = NoCall
    /\ IF AfterPhase \in {"ok", "drift"}
         THEN phase' = "idle" /\ outcome' = AfterPhase /\ todo' = {}
         ELSE /\ phase' = AfterPhase /\ outcome' = outcome
              /\ todo' = IF phase' \in {"apply", "correct"} THEN differing ELSE Settings
    /\ UNCHANGED <<switchVars, netVars, client, call, tolerant, differing, again,
                   logins, touched, faults>>

CallDone == call' = NoCall /\ todo' = todo \ {Setting}

\* A slip: every authentication failure is retried.
RetriedForEver(err) == err = "auth"

Retried(err) == err = "auth" /\ ~again

\* withNSDPClient: isNSDPAuthFailure makes one more run, with a new client.
Fail(err) ==
    /\ call' = NoCall
    /\ IF Retried(err)
         THEN /\ phase' = "read" /\ todo' = Settings
              /\ client' = NewClient /\ again' = TRUE /\ outcome' = outcome
         ELSE /\ phase' = "idle" /\ todo' = {}
              /\ outcome' = err
              /\ UNCHANGED <<client, again>>

-----------------------------------------------------------------------------
(***************************************************************************)
(* Exchanges of the client: one request, one reply, in one window.         *)
(***************************************************************************)

Awaiting(stages) == call.stage \in stages /\ call.seq # 0

Send ==
    /\ call # NoCall /\ call.seq = 0
    /\ \E n \in FreeSeqs :
         /\ \A k \in FreeSeqs : n <= k
         /\ call' = [call EXCEPT !.seq = n]
         /\ requests' = requests \cup
              {[seq |-> n, stage |-> call.stage, setting |-> Setting,
                token |-> IF call.stage \in Sets THEN client.token ELSE 0]}
    /\ logins' = IF call.stage = "login" /\ logins < LoginCap THEN logins + 1 ELSE logins
    /\ UNCHANGED <<switchVars, replies, client, tolerant, differing, phase, todo,
                   again, outcome, touched, faults>>

Matches(r) == r.seq = call.seq

Answer(r) == r \in replies /\ Matches(r) /\ replies' = replies \ {r}

\* readReply drops what does not match and goes on waiting.
Dropped ==
    /\ Awaiting(Gets \cup Sets)
    /\ \E r \in replies : ~Matches(r) /\ replies' = replies \ {r}
    /\ UNCHANGED <<switchVars, requests, client, call, opVars, faults>>

GotCapability ==
    /\ Awaiting({"capability"})
    /\ \E r \in replies : Answer(r)
    /\ call' = Begin("nonce")
    /\ UNCHANGED <<switchVars, requests, client, opVars, faults>>

GotNonce ==
    /\ Awaiting({"nonce", "refresh"})
    /\ \E r \in replies : Answer(r) /\ client' = [client EXCEPT !.token = r.body]
    /\ call' = Begin(IF call.stage = "nonce" THEN "login" ELSE "set")
    /\ UNCHANGED <<switchVars, requests, opVars, faults>>

GotSetting ==
    /\ Awaiting({"get"})
    /\ \E r \in replies :
         /\ Answer(r)
         /\ differing' = IF r.body = 0 THEN differing \ {Setting} ELSE differing \cup {Setting}
    /\ CallDone
    /\ UNCHANGED <<switchVars, requests, client, tolerant, phase, again, outcome,
                   logins, touched, faults>>

LoggedIn ==
    /\ Awaiting({"login"})
    /\ \E r \in replies : r.status = "ok" /\ Answer(r)
    /\ client' = [client EXCEPT !.loggedIn = TRUE]
    /\ call' = Begin("refresh")
    /\ UNCHANGED <<switchVars, requests, opVars, faults>>

SettingTaken ==
    /\ Awaiting({"set"})
    /\ \E r \in replies : r.status = "ok" /\ Answer(r)
    /\ CallDone
    /\ UNCHANGED <<switchVars, requests, client, tolerant, differing, phase, again,
                   outcome, logins, touched, faults>>

Refused ==
    /\ Awaiting(Sets)
    /\ \E r \in replies : r.status # "ok" /\ Answer(r) /\ Fail(r.status)
    /\ UNCHANGED <<switchVars, requests, tolerant, differing, logins, touched, faults>>

InFlight == \E m \in requests \cup replies : m.seq = call.seq

\* The window closes: nothing came, or it is late.
WindowOver ==
    /\ Awaiting(Gets \cup Sets)
    /\ \/ ~InFlight /\ faults' = faults
       \/ InFlight /\ faults < MaxFaults /\ faults' = faults + 1

\* A slip: the last attempt of a GET is not made.
TriesOneLess == call.stage \in Gets /\ call.attempt + 1 < Attempts

TriesAgain == call.stage \in Gets /\ call.attempt < Attempts

Retry ==
    /\ WindowOver /\ TriesAgain
    /\ call' = [call EXCEPT !.attempt = @ + 1, !.seq = 0]
    /\ UNCHANGED <<switchVars, netVars, client, opVars>>

\* ErrNoReply. The tolerant resources take every one of a SET call for a lost
\* answer, be it to the SET, to the refresh of its token or to the login.
NoReply ==
    /\ WindowOver /\ ~TriesAgain
    /\ IF tolerant /\ ~Reading
         THEN CallDone /\ UNCHANGED <<client, phase, again, outcome>>
         ELSE Fail("noreply")
    /\ UNCHANGED <<switchVars, netVars, tolerant, differing, logins, touched>>

-----------------------------------------------------------------------------
(***************************************************************************)
(* The switch and the network.                                             *)
(***************************************************************************)

Reply(r, status, body) ==
    /\ requests' = requests \ {r}
    /\ replies' = replies \cup {[seq |-> r.seq, status |-> status, body |-> body]}

AnswerGet ==
    /\ \E r \in requests :
         /\ r.stage \in Gets
         /\ Reply(r, "ok", CASE r.stage = "capability" -> 0
                             [] r.stage = "get" -> IF r.setting \in wrong THEN 1 ELSE 0
                             [] OTHER -> nonce)
    /\ UNCHANGED <<switchVars, client, call, opVars, faults>>

TakeSet ==
    /\ \E r \in requests :
         /\ r.stage \in Sets /\ ~locked /\ right /\ r.token = nonce
         /\ Reply(r, "ok", 0)
         /\ nonce' = FreshNonce
         /\ IF r.stage = "login"
              THEN strikes' = 0 /\ UNCHANGED <<wrong, faults>>
              ELSE /\ strikes' = strikes
                   /\ \/ wrong' = wrong \ {r.setting} /\ faults' = faults
                      \/ wrong' = wrong /\ faults < MaxFaults /\ faults' = faults + 1
    /\ UNCHANGED <<locked, right, client, call, opVars>>

RefuseSet ==
    /\ \E r \in requests :
         /\ r.stage \in Sets /\ ~locked /\ ~(right /\ r.token = nonce)
         /\ Reply(r, "auth", 0)
    /\ strikes' = strikes + 1
    /\ locked' = (strikes' = StrikeLimit)
    /\ UNCHANGED <<wrong, nonce, right, client, call, opVars, faults>>

\* Locked, the switch refuses a SET without looking at its token, or is silent.
IgnoreSet ==
    /\ locked
    /\ \E r \in requests :
         /\ r.stage \in Sets
         /\ \/ Reply(r, "locked", 0)
            \/ requests' = requests \ {r} /\ replies' = replies
    /\ UNCHANGED <<switchVars, client, call, opVars, faults>>

Switch == AnswerGet \/ TakeSet \/ RefuseSet \/ IgnoreSet

Lost ==
    /\ faults < MaxFaults /\ faults' = faults + 1
    /\ \/ \E r \in requests : requests' = requests \ {r} /\ replies' = replies
       \/ \E r \in replies : replies' = replies \ {r} /\ requests' = requests
    /\ UNCHANGED <<switchVars, client, call, opVars>>

\* Another manager writes a setting during the operation.
Elsewhere ==
    /\ phase # "idle"
    /\ faults < MaxFaults /\ faults' = faults + 1
    /\ \E s \in Settings : wrong' \in {wrong \cup {s}, wrong \ {s}}
    /\ nonce' = FreshNonce /\ touched' = TRUE
    /\ UNCHANGED <<strikes, locked, right, netVars, client, call, tolerant, differing,
                   phase, todo, again, outcome, logins>>

\* The lockout deadline passes.
Unlocks ==
    /\ locked /\ locked' = FALSE /\ strikes' = 0
    /\ UNCHANGED <<wrong, nonce, right, netVars, client, call, opVars, faults>>

Client ==
    \/ StartCall \/ PhaseDone \/ Send \/ Dropped
    \/ GotCapability \/ GotNonce \/ GotSetting \/ LoggedIn \/ SettingTaken \/ Refused
    \/ Retry \/ NoReply

Next == StartOperation \/ Client \/ Switch \/ Lost \/ Elsewhere \/ Unlocks

\* The client and the switch go on, the lockout ends, and Terraform asks again.
Spec ==
    /\ Init /\ [][Next]_vars
    /\ WF_vars(Client) /\ WF_vars(Switch) /\ WF_vars(Unlocks) /\ WF_vars(StartOperation)

-----------------------------------------------------------------------------
Errors == {"auth", "locked", "noreply", "drift"}

TypeOK ==
    /\ wrong \subseteq Settings /\ nonce \in Nonces
    /\ strikes \in 0 .. StrikeLimit /\ locked \in BOOLEAN /\ right \in BOOLEAN
    /\ \A r \in requests :
         r \in [seq : Seqs, stage : Gets \cup Sets, setting : Settings,
                token : Nonces \cup {0}]
    /\ \A r \in replies :
         r \in [seq : Seqs, status : {"ok", "auth", "locked"}, body : Nonces \cup {0, 1}]
    /\ client \in [loggedIn : BOOLEAN, token : Nonces \cup {0}]
    /\ call \in [stage : Gets \cup Sets \cup {"none"}, attempt : 0 .. Attempts, seq : Seqs \cup {0}]
    /\ tolerant \in BOOLEAN /\ differing \subseteq Settings
    /\ phase \in {"idle", "read", "apply", "verify", "correct", "recheck"}
    /\ todo \subseteq Settings /\ again \in BOOLEAN
    /\ outcome \in Errors \cup {"none", "running", "ok"}
    /\ logins \in 0 .. LoginCap /\ touched \in BOOLEAN /\ faults \in 0 .. MaxFaults

\* An apply that reports success has left the switch as asked, and no SET it
\* gave up on can change that afterwards (the read-back settles it, and
\* readReply takes for an answer only the one to the request it waits on).
Verified == outcome = "ok" /\ ~touched => wrong = {}

\* With the right password a strike is the price of a datagram lost or late,
\* or of another manager's SET, and each of those costs at most one: by itself
\* the client never presents a stale token (refreshToken before every SET).
StrikesCostFaults == right => strikes <= faults

\* withNSDPClient: "at most ONE re-login per operation" (nsdp_client.go:282),
\* for the operations that stop at an unanswered SET. A tolerant one takes an
\* unanswered login for a lost answer and logs in again at its next change.
OneRelogin == ~tolerant => logins <= 2

\* The corrective pass and the second run mend one fault, whatever it hit: with
\* the right password the operations of the tolerant resources all succeed until
\* a second one, for a GET is tried again and one strike does not lock.
OneFaultIsMended ==
    right /\ faults < 2 /\ tolerant /\ Attempts > 1 /\ StrikeLimit > 1 => outcome \notin Errors

\* Every operation ends.
Ends == phase # "idle" ~> phase = "idle"

\* With the right password the operations succeed again once the faults are
\* over: no client, token or lockout left behind by them stands in the way.
Recovers == right => []<>(outcome = "ok")
=============================================================================
