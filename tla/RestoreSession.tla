---------------------------- MODULE RestoreSession ----------------------------
(***************************************************************************)
(* The restore of a gs108ev3 from a configuration backup                   *)
(* (internal/client/gs108ev3/restore.go) over the web session of           *)
(* WebSession. A tool of its own restores (cmd/netgear-plus-debug, -op     *)
(* restore -file), with a driver of its own beside the provider's, before, *)
(* between or after the provider's operations; what it claims is that      *)
(* RestoreConfigAndWait returned no error.                                 *)
(*                                                                         *)
(* The switch takes a backup and reboots some time after. What it hands    *)
(* out as its configuration until then is its own affair; after the reboot *)
(* it is the backup. While it reboots it answers nothing. Configurations   *)
(* are told apart as verifyRestoredConfig does, by their checksums.        *)
(***************************************************************************)
EXTENDS WebSession

CONSTANTS
    Files,              \* backups there are; 0 is any other configuration
    MaxRestores,        \* bound: restores
    MaxPolls            \* bound: logins that fit in the time to wait

ASSUME RestoreAssumption ==
    Files \subseteq Nat \ {0} /\ MaxRestores \in Nat /\ MaxPolls \in Nat \ {0}

VARIABLES
    up,         \* the switch: it answers
    pending,    \* the switch: the backup it took and has still to boot, or 0
    serves,     \* the switch: the configuration it hands out
    wanted,     \* the backup of the last restore
    earlier,    \* the last restore found a backup pending, and none of its own followed
    polls,      \* logins of the wait so far
    restores,   \* restores so far
    claimed     \* the last restore ended well, and no apply has begun since

switchConfig == <<up, pending, serves>>
restoreVars == <<switchConfig, wanted, earlier, polls, restores, claimed>>
allVars == <<vars, restoreVars>>

\* RestoreConfigAndWait: ensureHash, the upload, the wait, the verification.
RestoreScript == <<"capture", "restore", "wait", "config">>

Restoring == todo # <<>> /\ todo[Len(todo)] = "config"

RestoreInit ==
    /\ Init
    /\ up = TRUE /\ pending = 0 /\ serves \in Files \cup {0}
    /\ wanted = 0 /\ earlier = FALSE
    /\ polls = 0 /\ restores = 0 /\ claimed = FALSE

\* The tool starts, with a driver of its own. An earlier restore may still be
\* under way in the switch.
StartRestore ==
    /\ restores < MaxRestores
    /\ StartWith(RestoreScript, NewDriver) /\ parked' = driver
    /\ wanted' \in Files
    /\ earlier' = (pending # 0)
    /\ restores' = restores + 1 /\ claimed' = FALSE
    /\ UNCHANGED <<switchConfig, polls>>

\* The tool ends, and its driver with it.
ToolEnds == todo' = <<>> /\ driver' = parked /\ parked' = NoDriver /\ polls' = 0

-----------------------------------------------------------------------------
(***************************************************************************)
(* The upload, postRestoreRaw. Nothing of the answer is looked at but      *)
(* whether it redirects to the login.                                      *)
(***************************************************************************)

Uploading == Calling({"restore"}, "send") /\ up

\* The switch takes the backup of a form with its session's hash.
Takes == InSession /\ held = live

Take ==
    /\ pending' = wanted /\ earlier' = FALSE
    /\ serves' \in {serves, wanted}

UploadAnswered ==
    /\ Uploading /\ InSession
    /\ Return("ok")
    /\ IF Takes THEN Take ELSE UNCHANGED <<pending, earlier, serves>>
    /\ UNCHANGED <<switchVars, others, driver, opVars, faults, up, wanted, polls, restores,
                   claimed>>

\* The redirect of the repeated upload is taken for the answer.
UploadRedirected ==
    /\ Uploading /\ ~InSession
    /\ IF Top.again
         THEN Return("ok")
         ELSE /\ stack' = <<Call("login"), [Top EXCEPT !.at = "login"]>> \o Tail(stack)
              /\ result' = result
    /\ UNCHANGED <<switchVars, others, driver, opVars, faults, restoreVars>>

\* The fresh session has a fresh hash; rebuild the body.
UploadAgain ==
    /\ stack # <<>> /\ result # "none" /\ Top.fn = "restore" /\ Top.at = "login"
    /\ IF result = "ok"
         THEN /\ stack' = <<[Top EXCEPT !.at = "send", !.again = TRUE]>>
              /\ result' = "none"
              /\ held' = driver.hash
         ELSE Return(result) /\ held' = held
    /\ UNCHANGED <<switchVars, others, driver, todo, reading, outcome, effective, sent,
                   faults, restoreVars>>

UploadLost ==
    /\ Uploading
    /\ faults < MaxFaults /\ faults' = faults + 1
    /\ Return("net")
    /\ \/ Takes /\ Take
       \/ UNCHANGED <<pending, earlier, serves>>
    /\ UNCHANGED <<switchVars, others, driver, opVars, up, wanted, polls, restores, claimed>>

-----------------------------------------------------------------------------
(***************************************************************************)
(* The wait, waitForRestoredConfig: a login at once, and again after every *)
(* failure that is not a rejection, until the time is up.                  *)
(***************************************************************************)

AtWait == todo # <<>> /\ Head(todo) = "wait" /\ stack = <<>>

WaitLogin ==
    /\ AtWait /\ result = "none"
    /\ stack' = <<Call("login")>>
    /\ UNCHANGED <<switchVars, others, driver, opVars, result, faults, restoreVars>>

Rejection(err) == err \in {"auth", "locked", "limit"}

PollAgain ==
    /\ AtWait /\ result \in Errors /\ ~Rejection(result)
    /\ polls < MaxPolls /\ polls' = polls + 1
    /\ result' = "none"
    /\ UNCHANGED <<switchVars, others, driver, opVars, stack, faults,
                   switchConfig, wanted, earlier, restores, claimed>>

\* The time is up, the login was rejected, or another step failed.
RestoreFailed ==
    /\ Restoring /\ stack = <<>> /\ result \in Errors
    /\ result' = "none" /\ outcome' = result
    /\ ToolEnds
    /\ UNCHANGED <<switchVars, right, held, reading, effective, sent, stack, faults,
                   switchConfig, wanted, earlier, restores, claimed>>

-----------------------------------------------------------------------------
(***************************************************************************)
(* The verification, verifyRestoredConfig: one page without a second       *)
(* address, and a checksum.                                                *)
(***************************************************************************)

\* A slip: a configuration that came through is the restored one.
AnyConfig == TRUE

Matches == serves = wanted

\* After a match the tool reads the configuration once more, to print its
\* checksum, and logs out; if that read fails it leaves the session open.
ConfigAnswered ==
    /\ Calling({"config"}, "send") /\ up /\ InSession
    /\ IF Matches
         THEN /\ result' = "none" /\ stack' = <<>> /\ outcome' = "ok" /\ claimed' = TRUE
              /\ ToolEnds /\ live' \in {live, AfterLogout}
         ELSE /\ Return("parse")
              /\ UNCHANGED <<live, parked, todo, outcome, driver, claimed, polls>>
    /\ UNCHANGED <<locked, strikes, right, held, reading, effective, sent, faults,
                   switchConfig, wanted, earlier, restores>>

ConfigRedirected ==
    /\ Calling({"config"}, "send") /\ up /\ ~InSession
    /\ IF Top.again
         THEN Return("parse")
         ELSE /\ stack' = <<Call("login"), [Top EXCEPT !.at = "login"]>> \o Tail(stack)
              /\ result' = result
    /\ UNCHANGED <<switchVars, others, driver, opVars, faults, restoreVars>>

ConfigLost ==
    /\ Calling({"config"}, "send") /\ up
    /\ faults < MaxFaults /\ faults' = faults + 1
    /\ Return("net")
    /\ UNCHANGED <<switchVars, others, driver, opVars, restoreVars>>

-----------------------------------------------------------------------------
\* Nothing answers while the switch reboots.
Unreachable ==
    /\ ~up
    /\ \/ Calling(Pages \cup Forms \cup {"restore", "config"}, "send") /\ Fail("net")
       \/ Calling({"login"}, "submit") /\ Return("net")
    /\ UNCHANGED <<switchVars, others, driver, opVars, faults, restoreVars>>

Reboots ==
    /\ up /\ pending # 0
    /\ up' = FALSE /\ serves' = pending /\ pending' = 0 /\ live' = 0
    /\ UNCHANGED <<locked, strikes, others, driver, opVars, stack, result, faults,
                   wanted, earlier, polls, restores, claimed>>

ComesUp ==
    /\ ~up /\ up' = TRUE
    /\ UNCHANGED <<vars, pending, serves, wanted, earlier, polls, restores, claimed>>

\* A form of an apply that takes effect makes another configuration.
Reconfigured == serves' = IF effective' = effective THEN serves ELSE 0

\* What WebSession says of a switch that answers.
Session ==
    /\ \/ Answered \/ Redirected \/ RedirectedAgain \/ Accepted \/ Refused
    /\ up /\ Reconfigured
    /\ UNCHANGED <<up, pending, wanted, earlier, polls, restores, claimed>>

SessionFault ==
    /\ \/ Lost \/ LoginLost \/ SessionEnds
    /\ up /\ Reconfigured
    /\ UNCHANGED <<up, pending, wanted, earlier, polls, restores, claimed>>

\* What it says of the driver alone.
Calls ==
    /\ \/ ~AtWait /\ NextRequest
       \/ NextForm
       \/ RequestDone
       \/ ~Restoring /\ OperationFailed
       \/ AfterLogin /\ Top.fn # "restore"
       \/ Guard \/ HashRead
    /\ UNCHANGED restoreVars

RestoreDriver ==
    \/ Calls \/ Session \/ Unreachable
    \/ UploadAnswered \/ UploadRedirected \/ UploadAgain
    \/ WaitLogin \/ PollAgain \/ RestoreFailed
    \/ ConfigAnswered \/ ConfigRedirected

\* An apply is asked for another configuration than the restored one.
StartProvider(script) ==
    /\ StartOperation(script)
    /\ claimed' = (claimed /\ script = ReadScript)
    /\ UNCHANGED <<switchConfig, wanted, earlier, polls, restores>>

RestoreNext ==
    \/ StartProvider(ReadScript) \/ StartProvider(ApplyScript) \/ StartRestore
    \/ RestoreDriver \/ SessionFault \/ UploadLost \/ ConfigLost
    \/ Reboots \/ ComesUp
    \/ Unlocks /\ UNCHANGED restoreVars

\* As in WebSession; a switch that has taken a backup reboots and comes up.
RestoreSpec ==
    /\ RestoreInit /\ [][RestoreNext]_allVars
    /\ WF_allVars(RestoreDriver) /\ WF_allVars(StartProvider(ApplyScript))
    /\ WF_allVars(Reboots \/ ComesUp)

-----------------------------------------------------------------------------
\* A restore that reports success lasts: the switch hands its backup out then
\* and after the reboot, which may come as late as it likes, although a login
\* page may have passed for the answer to the upload, the upload may have been
\* refused for its hash and the wait may log in before the switch has begun to
\* reboot (postRestoreRaw, waitForRestoredConfig, verifyRestoredConfig). Only
\* a backup that was already pending when the tool began, and that its own did
\* not replace, can still displace it.
RestoreLasts == claimed => serves = wanted \/ earlier
=============================================================================
