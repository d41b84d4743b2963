------------------------------ MODULE WebSession ------------------------------
(***************************************************************************)
(* The gs108ev3 web-UI session (internal/client/gs108ev3/session.go) under *)
(* the provider's cached driver (withSwitchTransport in provider.go).      *)
(*                                                                         *)
(* Operations of one provider run take their turns. An operation is a      *)
(* list of requests; any of them may find the session gone, in which case  *)
(* the driver logs in and sends the same request once more. A login ends   *)
(* by reading the session's hash, with a request that may find the session *)
(* gone in its turn, so calls nest: stack holds the calls under way, its   *)
(* first element the innermost, and result is what a call hands its caller.*)
(*                                                                         *)
(* The switch has one session at a time. It redirects a request without    *)
(* it to the login page, rejects a form whose hash is not the session's,   *)
(* and stops taking logins after SwitchLimit wrong ones in a row.          *)
(***************************************************************************)
EXTENDS Integers, Sequences, FiniteSets

CONSTANTS
    Sids,           \* names of sessions; 0 names none
    AuthLimit,      \* maxConsecutiveAuthFailures
    SwitchLimit,    \* wrong logins in a row the switch bears
    Plan,           \* forms of an apply's plan, in its order
    MaxFaults       \* bound: sessions ended, messages lost

ASSUME WebSessionAssumption ==
    /\ Sids \subseteq Nat \ {0} /\ IsFiniteSet(Sids) /\ Cardinality(Sids) >= 8
    /\ AuthLimit \in Nat \ {0} /\ SwitchLimit \in Nat \ {0}
    /\ Plan \in Seq({"add", "set", "delete"}) /\ MaxFaults \in Nat

VARIABLES
    live,       \* the switch: its session
    locked,     \* the switch: it takes no logins
    strikes,    \* the switch: wrong logins in a row
    right,      \* the configured password is the switch's
    driver,     \* the driver at work: the provider's cached one or a tool's
    parked,     \* the provider's driver while a tool's is at work
    todo,       \* requests the operation has still to make; <<>> when none runs
    held,       \* the hash the operation captured for its forms (vlanApplier.hash)
    reading,    \* the hash the last read captured for its own forms
    stack,      \* calls under way
    result,     \* what the last call returned
    outcome,    \* how the last operation ended
    effective,  \* forms of this operation that took effect, by number
    sent,       \* forms of this operation the driver got through
    faults      \* sessions ended and messages lost so far

switchVars == <<live, locked, strikes>>
others == <<right, parked>>
opVars == <<todo, held, reading, outcome, effective, sent>>
vars == <<switchVars, others, driver, opVars, stack, result, faults>>

\* failures is the driver's counter; refusals counts what it should bound: the
\* wrong logins the switch was sent since it last let this driver in.
NoDriver == [cookie |-> 0, hash |-> 0, failures |-> -1, refusals |-> -1]
NewDriver == [cookie |-> 0, hash |-> 0, failures |-> 0, refusals |-> 0]

Errors == {"net", "parse", "rejected", "auth", "locked", "limit"}

\* What an operation asks for: "info" is the switch-info page, "page" any
\* other, "query" a form that reads and "write" one that changes. "hash" is
\* the hash a read captures for its own forms, "capture" the one the forms of a
\* plan are all sent with (ensureHash).
Captures == {"hash", "capture"}

ReadScript == <<"info", "hash", "page", "query", "page">>
ApplyScript ==
    ReadScript \o Tail(ReadScript) \o <<"capture">> \o Plan \o ReadScript

\* What a form of the plan asks for: an add counts the VLANs first, a delete
\* counts them and reads the whole state.
FormRequests ==
    [add |-> <<"page", "write">>, set |-> <<"write">>,
     delete |-> <<"page">> \o Tail(ReadScript) \o <<"write">>]

Call(fn) == [fn |-> fn, at |-> IF fn = "login" THEN "guard" ELSE "send",
             try |-> 1, again |-> FALSE]

\* A name no party still holds.
FreshSid ==
    CHOOSE s \in Sids : s \notin {live, held, reading, driver.cookie, driver.hash,
                                parked.cookie, parked.hash}

Init ==
    /\ live = 0 /\ locked = FALSE /\ strikes = 0
    /\ right \in BOOLEAN
    /\ driver = NoDriver /\ parked = NoDriver
    /\ todo = <<>> /\ held = 0 /\ reading = 0 /\ outcome = "none" /\ effective = {} /\ sent = 0
    /\ stack = <<>> /\ result = "none"
    /\ faults = 0

-----------------------------------------------------------------------------
(***************************************************************************)
(* Operations.                                                             *)
(***************************************************************************)

StartWith(script, d) ==
    /\ todo = <<>>
    /\ todo' = script
    /\ held' = 0 /\ reading' = 0 /\ effective' = {} /\ sent' = 0
    /\ driver' = d
    /\ outcome' = "running"
    /\ UNCHANGED <<switchVars, right, stack, result, faults>>

\* withSwitchTransport: driverForConfig reuses the cached driver.
StartOperation(script) ==
    /\ StartWith(script, IF driver = NoDriver THEN NewDriver ELSE driver)
    /\ UNCHANGED parked

AtRequest == todo # <<>> /\ stack = <<>> /\ result = "none"

\* The operation makes its next request, or captures the hash it has.
NextRequest ==
    /\ AtRequest /\ Head(todo) \notin DOMAIN FormRequests
    /\ IF Head(todo) \in Captures /\ driver.hash # 0
         THEN /\ held' = IF Head(todo) = "capture" THEN driver.hash ELSE held
              /\ reading' = IF Head(todo) = "hash" THEN driver.hash ELSE reading
              /\ todo' = Tail(todo)
              /\ outcome' = IF todo' = <<>> THEN "ok" ELSE outcome
              /\ stack' = stack
         ELSE /\ stack' = <<Call(IF Head(todo) \in Captures THEN "info" ELSE Head(todo))>>
              /\ UNCHANGED <<held, reading, todo, outcome>>
    /\ UNCHANGED <<switchVars, others, driver, effective, sent, result, faults>>

\* The next form of the plan: its own reads come first. That the driver has a
\* hash, which postFormAuthenticated looks at, has been seen to by then.
NextForm ==
    /\ AtRequest /\ Head(todo) \in DOMAIN FormRequests
    /\ todo' = FormRequests[Head(todo)] \o Tail(todo)
    /\ UNCHANGED <<switchVars, others, driver, held, reading, outcome, effective, sent,
                   stack, result, faults>>

RequestDone ==
    /\ todo # <<>> /\ stack = <<>> /\ result = "ok"
    /\ result' = "none"
    /\ todo' = IF Head(todo) \in Captures THEN todo ELSE Tail(todo)
    /\ sent' = IF Head(todo) = "write" THEN sent + 1 ELSE sent
    /\ outcome' = IF todo' = <<>> THEN "ok" ELSE outcome
    /\ UNCHANGED <<switchVars, others, driver, held, reading, effective, stack, faults>>

ShouldInvalidateSession(err) == err \in {"auth", "locked"}

\* Logout: the session is the driver's or another's.
AfterLogout == IF driver.cookie = live THEN 0 ELSE live

\* The operation fails; a rejected login also drops the driver, after a Logout.
OperationFailed ==
    /\ todo # <<>> /\ stack = <<>> /\ result \in Errors
    /\ result' = "none" /\ todo' = <<>> /\ outcome' = result
    /\ IF ShouldInvalidateSession(result)
         THEN /\ driver' = NoDriver
              /\ live' = AfterLogout
         ELSE UNCHANGED <<driver, live>>
    /\ UNCHANGED <<locked, strikes, others, held, reading, effective, sent, stack, faults>>

-----------------------------------------------------------------------------
(***************************************************************************)
(* Requests: getRaw and postFormRaw under tryGETAuthenticated and          *)
(* postFormAuthenticated.                                                  *)
(***************************************************************************)

Top == Head(stack)
Calling(fns, at) == stack # <<>> /\ result = "none" /\ Top.fn \in fns /\ Top.at = at

Pages == {"info", "page"}
Forms == {"query", "write"}

Return(value) == stack' = Tail(stack) /\ result' = value

\* A slip: an error sends the driver back to the first address.
FailForever(err) ==
    IF Top.fn \in Pages
      THEN stack' = <<Call(Top.fn)>> \o Tail(stack) /\ result' = "none"
      ELSE Return(err)

\* A page has two addresses; an error on the first sends the driver to the second.
Fail(err) ==
    IF Top.fn \in Pages /\ Top.try = 1
      THEN stack' = <<[Call(Top.fn) EXCEPT !.try = 2]>> \o Tail(stack) /\ result' = "none"
      ELSE Return(err)

InSession == live # 0 /\ driver.cookie = live

\* The switch takes the form of an apply.
Effect == IF Top.fn = "write" THEN effective \cup {sent + 1} ELSE effective

\* The hash a form carries, from the moment it was captured.
HashSent == IF Top.fn = "query" THEN reading ELSE held

\* A slip: the hash is read once and kept.
AnsweredOnce ==
    /\ Calling(Pages \cup Forms, "send")
    /\ InSession
    /\ IF Top.fn \in Forms /\ HashSent # live
         THEN Return("rejected") /\ UNCHANGED <<driver, effective>>
         ELSE /\ Return("ok")
              /\ effective' = Effect
              /\ driver' = IF Top.fn = "info" /\ driver.hash = 0
                             THEN [driver EXCEPT !.hash = live] ELSE driver
    /\ UNCHANGED <<switchVars, others, todo, held, reading, outcome, sent, faults>>

\* The answer is what was asked for. A form with a stale hash is rejected.
Answered ==
    /\ Calling(Pages \cup Forms, "send")
    /\ InSession
    /\ IF Top.fn \in Forms /\ HashSent # live
         THEN Return("rejected") /\ UNCHANGED <<driver, effective>>
         ELSE /\ Return("ok")
              /\ effective' = Effect
              /\ driver' = IF Top.fn = "info" THEN [driver EXCEPT !.hash = live] ELSE driver
    /\ UNCHANGED <<switchVars, others, todo, held, reading, outcome, sent, faults>>

\* The answer is a redirect to the login page: log in first.
Redirected ==
    /\ Calling(Pages \cup Forms, "send")
    /\ ~InSession /\ ~Top.again
    /\ stack' = <<Call("login"), [Top EXCEPT !.at = "login"]>> \o Tail(stack)
    /\ UNCHANGED <<switchVars, others, driver, opVars, result, faults>>

\* The repeated request is redirected again: the login page is taken for the
\* answer. It does not parse, unless nothing is read from it but an error
\* message it has not got.
RedirectedAgain ==
    /\ Calling(Pages \cup Forms, "send")
    /\ ~InSession /\ Top.again
    /\ Return(IF Top.fn = "write" THEN "ok" ELSE "parse")
    /\ UNCHANGED <<switchVars, others, driver, opVars, faults>>

\* The request or its answer is lost; a form may have taken effect.
Lost ==
    /\ Calling(Pages \cup Forms, "send")
    /\ faults < MaxFaults /\ faults' = faults + 1
    /\ \/ effective' = effective
       \/ InSession /\ held = live /\ effective' = Effect
    /\ Fail("net")
    /\ UNCHANGED <<switchVars, others, driver, todo, held, reading, outcome, sent>>

\* A slip: the repeated form takes the new session's hash, as a restore does.
AfterLoginNewHash ==
    /\ stack # <<>> /\ result # "none" /\ Top.at = "login"
    /\ IF result = "ok"
         THEN /\ stack' = <<[Top EXCEPT !.at = "send", !.again = TRUE]>> \o Tail(stack)
              /\ result' = "none"
              /\ held' = driver.hash
         ELSE Fail(result) /\ held' = held
    /\ UNCHANGED <<switchVars, others, driver, todo, reading, outcome, effective, sent,
                   faults>>

\* Back from the login, the same request is sent once more, its form as it was.
AfterLogin ==
    /\ stack # <<>> /\ result # "none" /\ Top.at = "login"
    /\ IF result = "ok"
         THEN /\ stack' = <<[Top EXCEPT !.at = "send", !.again = TRUE]>> \o Tail(stack)
              /\ result' = "none"
         ELSE Fail(result)
    /\ UNCHANGED <<switchVars, others, driver, opVars, faults>>

-----------------------------------------------------------------------------
(***************************************************************************)
(* Login.                                                                  *)
(***************************************************************************)

\* A slip: the limit is one too high.
GuardOffByOne == driver.failures <= AuthLimit

WithinLimit == driver.failures < AuthLimit

Guard ==
    /\ Calling({"login"}, "guard")
    /\ IF WithinLimit
         THEN stack' = <<[Top EXCEPT !.at = "submit"]>> \o Tail(stack) /\ result' = result
         ELSE Return("limit")
    /\ UNCHANGED <<switchVars, others, driver, opVars, faults>>

\* The switch judges the password. While locked it does not even look at it.
Judge ==
    IF right /\ ~locked
      THEN live' = FreshSid /\ strikes' = 0 /\ locked' = locked
      ELSE /\ live' = live
           /\ strikes' = IF strikes < SwitchLimit THEN strikes + 1 ELSE strikes
           /\ locked' = (strikes' = SwitchLimit)

Accepted ==
    /\ Calling({"login"}, "submit")
    /\ right /\ ~locked
    /\ Judge
    /\ driver' = [driver EXCEPT !.cookie = live', !.failures = 0, !.refusals = 0]
    /\ stack' = <<Call("info"), [Top EXCEPT !.at = "hash"]>> \o Tail(stack)
    /\ UNCHANGED <<others, opVars, result, faults>>

Refused ==
    /\ Calling({"login"}, "submit")
    /\ ~(right /\ ~locked)
    /\ Judge
    /\ driver' = [driver EXCEPT !.failures = @ + 1, !.refusals = @ + 1]
    /\ Return(IF locked' THEN "locked" ELSE "auth")
    /\ UNCHANGED <<others, opVars, faults>>

\* The login page or the answer to the login is lost: the driver does not learn
\* how it ended, and its counter stays.
LoginLost ==
    /\ Calling({"login"}, "submit")
    /\ faults < MaxFaults /\ faults' = faults + 1
    /\ \/ Judge
          /\ driver' = [driver EXCEPT !.refusals = IF right /\ ~locked THEN 0 ELSE @ + 1]
       \/ UNCHANGED <<switchVars, driver>>
    /\ Return("net")
    /\ UNCHANGED <<others, opVars>>

HashRead ==
    /\ stack # <<>> /\ result # "none" /\ Top.at = "hash"
    /\ Return(result)
    /\ UNCHANGED <<switchVars, others, driver, opVars, faults>>

-----------------------------------------------------------------------------
\* The session times out, the switch restarts, or a browser takes it over.
SessionEnds ==
    /\ live # 0 /\ faults < MaxFaults
    /\ live' = 0 /\ faults' = faults + 1
    /\ UNCHANGED <<locked, strikes, others, driver, opVars, stack, result>>

\* The lockout window passes.
Unlocks ==
    /\ locked
    /\ locked' = FALSE /\ strikes' = 0
    /\ UNCHANGED <<live, others, driver, opVars, stack, result, faults>>

-----------------------------------------------------------------------------
\* When a form has taken effect, so has every form before it, even if the
\* session was lost between any two requests and a form sent twice. The plan's
\* order is worth nothing without it (postFormRaw takes a second redirect for
\* an answer; only the stale hash of the forms that follow stops them).
NoSkippedWrite == \A i \in effective : 1 .. i \subseteq effective

\* A driver sends the switch at most AuthLimit wrong logins in a row, and one
\* more for every login whose answer was lost (postFormRaw's error leaves Login
\* before recordAuthFailure), however its calls nest, whichever of the two
\* addresses it tries and however many operations it serves.
LimitHolds == driver.refusals <= AuthLimit + faults

\* Every operation returns: neither the two addresses, nor the repeated
\* request, nor the login inside a login goes round for ever.
Returns == todo # <<>> ~> todo = <<>>

\* With the right password the provider keeps succeeding once sessions stop
\* being lost: a session hash that went stale in the cached driver is replaced.
Recovers == right => []<>(outcome = "ok")
=============================================================================
