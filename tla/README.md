# Verification of terraform-provider-netgear-plus

TLA+ models of the Terraform provider for NETGEAR Plus switches, with TLC runs
and TLAPS proofs. Paths are relative to `src/`; `PROJECT.json` maps every
definition to the lines it models.

## The system

The provider reads and writes the configuration of one switch for each provider
block. There are three ways to a switch, and each is hard in its own way.

| Channel | Model | How a change takes effect |
|---|---|---|
| web UI forms (`internal/client/gs108ev3`) | GS108Ev3 | one form after another, each live at once |
| NSDP over UDP (`internal/nsdp`) | GS108Ev3, GS108Tv2 (reads) | one SET datagram after another, each live at once |
| text config over HTTP (`internal/client/gs108tv2`, `internal/fastpath`) | GS108Tv2 | the whole startup-config is uploaded, digested for minutes, and live after a reboot |

### Components

| Component | State it keeps | Operations | Hard | What makes it correct |
|---|---|---|---|---|
| VLAN model and plan (`model`) | none | Normalize, Validate, Equal, Plan, Run | order of the writes | every intermediate state is usable |
| `vlan_state` resource (`provider`) | Terraform state | Create, Read, Update, Delete, Import | check against one read, act on another | no unasked deletion, honest `changes_pending` |
| gs108ev3 VLAN driver; NSDP adapter | none | ReadVLANState, ApplyVLANState | fails at any write | an aborted apply can be repeated |
| gs108ev3 session | cookie, hash, counter of rejected logins | Login, get, post, refreshHash, Logout | the switch has one session and can end it at any request | forms take effect in order; the switch is not locked out by a loop |
| NSDP client | capability, token, sequence number | Login, GetAttr(s), Set* | lost and late datagrams, nonce that rolls, lockout | success is the truth; no strike of its own making |
| client cache (`nsdp_client.go`) | one client | withNSDPClient | one retry with a new client | at most one re-login |
| `port_config`, `switch_settings`, `port_based_vlan` | Terraform state | apply with read-back and one corrective pass | SETs that go unanswered or do nothing | read-back decides |
| gs108tv2 codec | none | decode, render, both namespaces | what the switch leaves out is inferred | what is asked for reads back |
| gs108tv2 driver | web session | ApplyVLANState, ApplyPortSettings, RebootAndWait | minutes in which the switch answers garbage; two resources in one file | neither takes the other back; every wait ends |
| FASTPATH text config, web session | session | parse, splice, download, restore | bodies cut short | the rest of the file is untouched |
| device lock and pacing (`provider.go`) | one mutex and one clock per device key, the clients of each block | withSwitchTransport, withNSDPClient, withTextcfgSwitchTransport | parallel operations, cancelled waits, aliases of one device | one operation at a time, spaced apart, all served |
| gs108ev3 restore | none | upload, wait, compare fingerprints | reboot that has not begun | what is verified is the new configuration |
| TFTP client and server | transfer in progress | Get, Put, serve | lost, duplicate, late packets; 16-bit blocks | what is stored is what was sent |
| data sources, binary config file, catalogue, command-line tools | none | reads and printing | - | - |

The resources call a driver through `withSwitchTransport` or `withNSDPClient`,
which hold the device lock for the whole operation. Inside it, a driver is
single-threaded: concurrency comes from the switch (it drops sessions, rolls
nonces, digests uploads), from the network, and from other managers of the same
switch, whom no lock of ours stops.

`PROJECT.json` lists the same components with their status, and under `hazards`
what can go wrong in them, line by line, with the properties that would notice.

## The modules

    VlanState -> VlanPlan -> VlanApply -> VlanApplyProps -> MCVlanApply
                                 |              |
                          HitlessUpdate   VlanApplyProofs
    WebSession  -> RestoreSession -> MCWebSession, WebSessionProofs
    NsdpSession -> MCNsdpSession, NsdpSessionProofs
    NsdpWire    -> SettingsApply, Nsdpctl -> MCSettingsApply
                         |
                  SettingsApplyProofs
    VlanState -> TextCodec -> StagedFile -> StagedApply -> MCStagedApply   (implements Staging)
                  |   |          |
                  |   |       Staging -> Splicing -> MCStaging
                  |   TextLines ---------^
                  TextCodecProofs -> StagedApplyProofs
    Transfer <- Tftp -> MCTftp, TftpProofs                       (implements Transfer)
    DeviceLock  -> MCDeviceLock, DeviceLockProofs

**VlanState** is `model/vlan_state.go` as operators: a state is a record of VLAN
tables and PVIDs. `Normalize` fills in what a configuration leaves out and
`Validate` is the conjunction of the code's refusals.

**VlanPlan** is `model.Plan` and `model.Run`. The code's plan is a list in five
phases (add, widen, PVID, exact, delete), ascending by VLAN in each; the model
keeps the set of operations that each phase has still to send, and `AddDue` ..
`DeleteDue` say which is next. What an operation writes is not stored: it is
`Step1` or `Step2` of the driver's read and the desired state.

**VlanApply** is one apply, from the resource's checks to its read-back: `Begin`,
`CheckRemovals` (identity, then the deletion guard, on the resource's read),
`DriverPlan` (on the driver's own read), one action per kind of write, `Verify`.
A write is answered, takes effect without an answer, or has no effect; a failed
one ends the apply and the next one plans from what the switch then is. HTTP
sends batches where NSDP sends one SET per port or VLAN, and only HTTP adds a
VLAN in a form of its own. The serial number is abstracted to whether the pin
matches (`pinned`). `Intrude` is somebody who adds a VLAN at the web UI.

**HitlessUpdate** is the abstract specification of an apply: links (VLAN, port,
tagged or untagged) move from one set to another, a link in both is never
interrupted, a link in neither is never served, untagged traffic of each port
always enters a VLAN that carries the port.

**WebSession** is the gs108ev3 driver's session as the code's call stack: `stack`
holds the request under way, the login inside it, the page read inside that
login. `Redirected` logs in and repeats the request once; `Refused` counts;
`OperationFailed` drops the driver or keeps it as `ShouldInvalidateSession` says.
The switch has one session and ends it at any moment. An apply is a list of requests
(`ApplyScript`) with the forms of its `Plan` in it; `NextForm` puts before each form the
requests the code makes for it: an add reads the VLAN page for its count, a delete reads that
page and then the whole VLAN state, hash included. So two hashes are kept apart:
`held`, captured once before the first form and sent with every form of the plan
(`vlanApplier.hash`), and `reading`, which a `ReadVLANState` captures for its own
queries. A form with a stale hash has no effect, which is an assumption about the switch.
`refusals` is a history variable beside the driver's counter: it counts the
wrong logins the switch was sent, also those whose answer was lost and which the driver
therefore does not count. Pages are reduced to what a request
learns from them. The module has the actions; who takes them when is
RestoreSession's.

**RestoreSession** adds the restore of a configuration backup to WebSession:
`netgear-plus-debug -op restore -file`, a process with a driver of its own. While it runs,
the provider's driver, living or not, is `parked`. A restore can come before, between or
after the provider's operations, and after another restore that the switch has not
booted yet; the two processes do not interleave inside an operation (the forms of one process do
meet a session the other one took, through `SessionEnds`). The tool uploads a
file (`UploadAnswered`, and `UploadAgain` with the hash of a new session), logs in
until the switch takes the login (`WaitLogin`, `PollAgain`), reads the
configuration back and compares checksums (`ConfigAnswered`). What is claimed is what
`RestoreConfigAndWait` claims when it returns no error; that the tool then reads the
configuration once more, for its printout, shows only in the session it leaves or closes.
The switch takes a backup (`pending`), reboots some time later, answers nothing meanwhile
(`Unreachable`) and comes up without a session. Until it reboots it may hand out either
configuration (`serves`); forms that take effect make it another one (`Reconfigured`).
Nothing of the upload's answer is looked at, so only the comparison stands
between an upload that was refused and a report of success. Checksums are
taken not to collide. Success may be reported before the reboot has begun, and
failure when it is about to work. `-roundtrip`, which restores what it has just read, is not modelled.

**NsdpSession** is the NSDP v2 client, `withNSDPClient`, the network and the
switch. Settings are reduced to whether they are as asked (`wrong`). Requests and
replies are sets of datagrams: they can be lost, or late past the window of the
attempt and then meet a later one. They are not duplicated, because the switch
drops a sequence number it has seen (`docs/nsdp-protocol.md`). Every SET refreshes the
token first; the nonce rolls on every authenticated SET, the login included. Strikes
are cleared by a login. A locked switch refuses SETs or is silent. A `tolerant`
operation (port_config, switch_settings, port_based_vlan) goes on after an unanswered SET and makes one
corrective pass; a strict one (the VLAN table) stops. The model keeps the token at
the moment the nonce is read, the code when the login succeeds; nothing reads it
in between. The v1 dialect (the password in each SET) is not modelled.

**NsdpWire** is the settings of a GS108Ev3 as bytes. A register names a setting;
`Payload` is what a SET of it carries (`methods.go`), `applyTLV` what the switch
keeps (`nsdptest.go`, the repository's own picture of the switch),
`replyBlockGet` and `GetBlock` what a read of a block carries and how `dump.go`
and `vlan.go` take it apart: entries back to back, or a value each. Two of its
turns matter: a bandwidth limit goes out in 16 bits and comes back in 8, and an
802.1Q entry is its members and then the tagged ones among them. The
fake switch has no read of the engine mode and keeps it, and IGMP snooping, under
a shortened tag; the model answers it as a switch does. In what order a switch
answers for its ports and VLANs is of no account to a reader that indexes the
entries by what they name: the model lists them in any one order.

**SettingsApply** runs the resources `port_config`, `switch_settings` and
`port_based_vlan`, and the read of `vlan_state`, over NsdpWire: `BeginApply` with the
checks of a configuration, `CheckEngine` (the guard of the engine mode, which
is asked once and may be out of date afterwards), `ReadBlock` by `ReadBlock`, then
as `AfterRead` says: refuse, write what differs, read back, correct once, read
back again, tell Terraform or fail. What is still to be SET is a set of registers
(`todo`), and `Before` says which is next, port by port or VLAN by VLAN. `HeldOf` is
what the bytes of a switch mean for a resource. A SET is applied and answered, applied and not answered, not
applied, or refused. An authentication failure runs the operation once more with
a new client. Other managers write between any two exchanges (`Manages`,
`DeletesEntry`), none of them under the provider's device lock, and two verbs of
`nsdpctl` read before they write and can undo an apply that was already verified
(`ToolReads`, `ToolWrites`). A VLAN that one of them adds between the refusal and
the read-back becomes part of the told state, which `touched` excludes.

**Nsdpctl** is the remaining verbs of `tools/nsdpctl`: what each command line
writes. Its bandwidth argument turns a name it does not know into no limit, and a
number into whatever it says; a limit without a name in the configuration makes
each later refresh fail (`unreadable`).

**TextCodec** is the codec of the startup-config for VLANs and ports, over files
as records of what their sections say (`RenderVLANs`, `RenderPorts`, `DecodeVLANs`,
`DecodePorts`, `DecodeFails`, `Renderable`). It includes the inference of VLAN 1 and of access
ports, and `Reserialised`: the files the switch may write for an upload (without
lines that only say the default, with a declaration of VLAN 1, or as sent).
Flow control has the shape of `shutdown` and is left out. Lines of no interest
are one flag (`rest`), and VLAN lines the codec refuses another (`unparsed`).

**TextLines** is what lies under TextCodec: the section parser and the editor of
`internal/fastpath`, over sequences of lines. `PairSectionExits` finds the exit
of each block, `BodyEnd` where its body ends (before the first interface in a
`configure` block, before the next label for a command that only looks like a
section), `ReplaceSectionBody` splices a new body in, double-spaced.
`RenderVLANLines` and `RenderPortLines` are the two codecs as they use it, `Read`
the decoder, and `Written` is the file as the switch writes it, with the lines that make the
parser's work hard. `InsertSection` and `DeleteSection` have no
caller outside the tests and are left out. Comments inside a replaced body
are dropped by the code, which is why a body counts without them.

**Splicing** says that TextLines does to the lines what TextCodec does to the file.

**StagedFile** is what the next two share: the staged file and what was asked of it
last, with `ReadsBack` and `ReadIsRenderable`, what a practitioner may rely on in either.

**Staging** is the abstract specification of the gs108tv2 channel: each resource
writes its own namespace of the staged file in one step and passes the other
through, as long as nobody interferes.

**StagedApply** is the same channel request by request: `Check`, `Fetch`, `Restore`,
`Verify`, `ReadBack`, then `Baseline`, `PostReboot`, `BackUp` of a reboot. While the
switch digests an upload it serves nothing (`Serving`); that the old file is not
served after the first 90 seconds is an assumption, the one `RestoreFirstDelay` makes. A
download may be cut off at a section, an answer lost, the apply interrupted, the
power cut, the file written by another manager. Preflights that refuse before
any request are left out, and the reboot endpoint is taken to be known (by
default the code has none and refuses).

**Transfer** is the abstract specification of a file transfer: blocks arrive in
order and once each, the receiver is content when it has the file, the sender only
after that, and either may give up.

**Tftp** is both halves of `internal/fastpath` in each of their four roles (`TFTPGet`,
`TFTPPut`, and the two sessions of the server) against a lockstep switch, with the
network between them: datagrams are a set from which any may be taken, lost, left
in place (a duplicate, a late one) or overtaken by a deadline. `GetOn`, `PutOn`,
`RrqOn`, `WrqOn` are what the code makes of one datagram in each role and
`OnTimeout` of none: the four differ in what they count as a used attempt. A
repeated request opens another session of the server, each on a socket of its
own. `StorePut` comes after the last acknowledgement, and may fail, which nobody is told.
The client's socket is connected, so the switch is assumed to answer from the port it
was asked on. `Mod` stands for 2^16 and exceeds the blocks of a file: past 32 MiB the numbers wrap
and an old block can be taken for a new one, which the protocol itself allows.

**DeviceLock** is what many operations of one provider process do to each
other: `Begin` (Terraform starts one for a provider block, on one of the
channels its configuration allows), `Lock`, `Start` or `Cancelled` (the pacer),
`GetClients` or `NoClient`, `Return`. Each block keeps at most one client of a
channel (`cached`); an operation that failed may close one. Time is counted in
ticks up to `MaxAge`, beyond which it makes no difference. `rested` is a history
variable: it remembers starts by switch where the pacer's `age` has them by key.
Two blocks `Agree` when they name their switch in the same way. The spacing is
positive because `Configure` replaces zero by five seconds.

## What is checked

TLC checks deadlock in every run, and in each passing run all actions are taken.

| Run | Bounds | Shows |
|---|---|---|
| `vlan_apply` | 2 ports, VLANs 1-3, one failure, one intruder | `PVIDsBacked`, `EndsAsAsked`, `DeleteIsLast`, `GuardedDeletion`, `HitlessSpec`, `Converges` |
| `web_session` | a plan of an add, a membership and a delete, 3 faults, limit 3, 2 restores of 2 files with 2 logins in a wait | `RestoreLasts`, `NoSkippedWrite`, `LimitHolds`, `Returns`, `Recovers` |
| `nsdp_session` | 2 settings, 2 attempts, 2 faults, 3 strikes | `OneFaultIsMended`, `Verified`, `StrikesCostFaults`, `OneRelogin`, `Ends`, `Recovers` |
| `settings` | ports 1 and 8, 4 resources, engine modes 1 and 3, one foreign write, 2 faults | `Verified`, `OnlyDrift`, `TableGuarded`, `OneLossIsMended`, `SaysWhatItMeans`, `Settles` |
| `staging` | 2 ports, VLANs 1-3, any sequence of stagings; 2 VLAN states and 2 port settings rendered over each file | `Splices`, `ReadsBack`, `ReadIsRenderable` |
| `staged_apply` | 2 ports, VLANs 1-2, one fault, one foreign write | `StagingSpec`, `ToldOrActive`, `NoFalseDrift`, `Returns`, `Settles` |
| `tftp` | 4 roles, 3 blocks, 3 attempts, 3 sessions, 3 faults | `SavedWhole`, `RidesOut`, `TransferSpec`, `Ending` |
| `device_lock` | 2 operations at a time, 4 blocks on 2 switches, spacings 1 and 2 | `TypeOK`, `Exclusive`, `ClientsStayOpen`, `Spaced`, `Served` |

*The bounds.* Two ports are enough for one to move while another stays, and for
the batches of one VLAN to hold one port or two; the plan treats ports alike.
VLANs 1 to 3 give a VLAN added, one kept and one removed in the same apply, and
VLAN 1, which the codec treats apart. Proofs remove the bounds of `vlan_apply`
for its safety properties. The one intruder comes before the guard's read, between it and
the driver's, during the writes or between two applies. In `web_session` three faults lose the session before a
form, again before its repetition, and before the form after it, or the answer to
each of three wrong logins; the plan has one form of each kind (sent at once, after a page, after a
read with a hash of its own); the second restore may bring the file of the first or another, and may begin
while the first is still to be booted. In `nsdp_session`
two settings let a SET follow a SET with the nonce rolled between, two attempts
stand for the code's 5 and 14 (a GET is repeated and is given up), and the second
fault hits the recovery from the first. In `staged_apply` the two resources are
applied in any order without limit; one fault lets an apply fail between any two
of its requests, and the upload it leaves behind land in a later one.

In `settings` ports 1 and 8 are the two ends of a bitmap. Two faults take one SET in each
pass of an apply; one foreign write falls between any two exchanges; the
configurations include ones that are refused, a VLAN above 255, a mirror without a
destination and a limit with no name. In `staging` every reachable file is written out in lines
and rendered anew, the one cut short included. In `tftp` three faults are one more
than a sender rides out with three attempts, and three blocks have a first, a
middle and a last one.

In `device_lock` operations follow each other without limit, two at a time;
three blocks name one switch by MAC, by MAC and host, and by host, one
of them with a longer spacing, so that a key is shared, is not shared, and is
shared with a different spacing.

*Liveness and its fairness.* `Converges` (vlan_apply) assumes that a started apply is not
abandoned and that the practitioner applies again after a failure: weak fairness
of `Progress`, with failures bounded. `Returns` and `Ends` need only that the
driver goes on and, for NSDP, that the switch answers or the window closes: each
request has a timeout. `Recovers` adds that Terraform is run again and, for NSDP, that a lockout
ends (half an hour in the protocol notes). `Settles` assumes that both resources
are applied again and again (strong fairness of `Begin` for each, since the other
resource's applies disable it over and over) and that the switch digests an
upload in the end. `Served` assumes that time passes, that a started operation
returns (its requests have timeouts) and that a Go mutex is not kept from one
waiter for ever (strong fairness of `Lock`; `sync.Mutex` hands over to a waiter
after a millisecond). `Ending` (tftp) needs weak fairness of all that is not a fault: both
sides act or run into their deadlines. `Settles` of `settings` assumes that an
operation that has begun goes on and that Terraform is run again and again. In
`web_session` a switch that has taken a backup reboots and comes up again. No
fairness is assumed of faults, other managers or a reboot nobody asked for.

Each property has a mutant in `PROJECT.json`: a definition replaced by one of the
slips that stand beside it in the modules ("A slip: ..."), which the same run then refutes.

### Where the code and its documentation disagree

Four runs state a claim of the documentation or of a comment and find the
behaviour that breaks it. For each a theorem says how far the claim does hold, so
that the counterexample is the only way around it.

- `staging_roundtrip`: "keeping decode(render(x)) == x" (`codec.go`). A state with VLAN 1 tagged on a
  port is accepted, rendered and uploaded, and the codec refuses the file: VLAN 1
  is never declared. `RoundTripExactly`: of the accepted states the equation holds of those
  without a VLAN 1 and those whose VLAN 1 has an untagged port and no tagged one, and of no
  other.
- `staged_active`: "at success your changes are ACTIVE" (`docs/resources/vlan_state.md:131`).
  When an apply fails after its upload, the next one finds nothing to change and
  does not reboot. `RebootedIsActive`: an undisturbed apply that was asked to reboot and
  found something to change ends with it active.
- `staged_rest`: the rest of the file is kept (`portcodec.go`). A download cut short
  is taken for the whole file and is rendered and uploaded without what is missing.
  `RestKeptUncut`: without a failed request nothing of the rest is lost.
- `device_lock_host`: "serializes operations per host" (`docs/index.md:116`). A block with
  `agent_mac` and a block with the same host alone have two keys, and their operations overlap.
  `HostsSerialized`: blocks of one host that agree on the name of its switch never do.

More sentences are looser than the code, and no run is spent on them. "Up to
three times in the same run" (`README.md:128`), and "provider retries reuse the same driver (and
counter)" (`session.go:109-112`): a rejected login drops the driver
that holds the counter before the limit is reached, so the next operation of the run starts from
zero, and a login whose answer is lost returns before it is counted (`session.go:131-134`).
`LimitHolds` says what is left: one driver sends at most its limit of wrong logins in a row
and one more for each lost answer. "VLAN deletions are blocked unless `allow_vlan_deletions = true`"
(`docs/resources/vlan_state.md:15`, and line 124 of the gs108tv2): the guard and the driver each
read the switch, and a VLAN that somebody creates between the two reads is deleted;
`GuardedDeletion` says that no other is. "Waits for the switch to come back from the
restore reboot" (`restore.go:36-37`): the wait logs in at once and may verify and return before the
reboot; `RestoreLasts` says what success means then. After such a success an apply may be accepted by
the switch and undone by its reboot. "Use in stores to surface errors as TFTP
ERROR packets" (`tftpserver.go:49-51`): of a `Put` this is not so. The server stores a file after it has
acknowledged the last block, and when the store refuses it the switch has been told that it is saved
and learns nothing (`StorePut`, `BelievedIsStored`). "At most ONE re-login per operation"
(`nsdp_client.go:282`): a login whose answer is lost counts as an unanswered SET in a
tolerant operation, and each further change of it logs in again; `OneRelogin` is
about the strict ones and about clients.

## What is proved

`VlanApplyProofs` proves, for any number of ports, any set of VLAN ids, any start
states and configurations and any number of failures:

- `NothingPreserved`: for a validated configuration the preserved-port code of
  the plan never acts, as its comment supposes;
- `TypeCorrect`, `NoPortStranded`, `DeletionComesLast`, `DeletionIsGuarded`: the
  type invariant and three safety properties of the run. With deletions off, what is deleted
  was created after the guard's read and is in the driver's;
- `AcknowledgedIsDone`: a plan whose writes were all acknowledged has left the switch as
  asked, up to VLANs somebody else created (`EndsAsAsked`), so that the plan is complete on
  either channel and whatever the batches;
- `ApplyIsHitless`: an apply implements `HitlessUpdate`.

The assumptions are `PortCountAssumption` (a positive number of ports),
`VlanApplyAssumption` (VLAN ids are positive, every start state is one in which PVIDs
are backed) and `ConfigsAssumption` (an accepted configuration names VLANs in play).

That PVIDs are backed is not inductive: from an arbitrary backed state in the
middle of a plan the next write may strand a port. The invariant `IInv` adds
`Replayed`: the switch is exactly what the operations sent so far have made of
the driver's read. `Expected` says so for each VLAN and port: the old membership,
the merged one, or the desired one, according to which of the two membership
operations of the VLAN are still to be sent; and the phases are in order. From
it `ReplayedIsBacked` follows by cases on whether the port's PVID has moved:
before, its old VLAN carries it because a merge keeps a member of either side;
after, its new VLAN does for the same reason, because every widening is through
before the first PVID. One lemma per kind of write (`AddOnTrack`, `WidenOnTrack`,
...) shows that the write keeps `Replayed`. `GuardHeld` adds that with deletions
off nothing is planned for deletion but what an intruder made since the guard's read
(`intruded` is emptied there) and the driver's read has. `DoneIsDesired` reads `Expected` at
the end, when nothing is left to send. The refinement
uses `IInv` and maps each step to a step of `HitlessUpdate` or a stutter.

`DeviceLockProofs` proves, for any operations, blocks, keys, configurations and
spacings that satisfy `DeviceLockAssumption` (there is a block, and each has a
MAC and a host, possibly none, a model and a positive spacing):

- `TypeCorrect`: types, and that no block keeps a client it has no use for;
- `Exclusion`: operations of blocks that agree on their switch never overlap;
- `ClientsOpen`: no operation closes a client another one works with;
- `StartsSpaced`: every start is its own spacing after the last one on its switch;
- `HostsSerialized`: where the blocks of a host agree on their switch, operations on a host
  never overlap.

`Exclusive` and `ClientsStayOpen` are not inductive. The invariant adds
`LockHeld` (whoever is past `Lock` holds the mutex of its key, alone), `KindFits`
(its channel is one that its block has) and `NotAhead` (the clock of a key never runs
ahead of the time since the last start for its blocks). From `LockHeld` two holders
have different keys and so different blocks (`HoldersDiffer`): agreeing blocks
have one key (`AgreeKey`), which gives exclusion, and a client is cached by one block,
which gives the third. `NotAhead` gives the last. One lemma per action shows that it
keeps the invariant; `EndKeeps` serves both ways of ending an operation.

`WebSessionProofs` proves, for any limits, any plan, any number of sessions lost
and of restores, under `WebSessionAssumption` (at least eight names of sessions, so
that a new one is new to everybody; positive limits):

- `LoginsLimited`: the wrong logins a driver has submitted in a row are at most its limit
  and the answers lost;
- `FormsInOrder`: no form takes effect before an earlier one;
- `RestoredAsClaimed`: a restore that reports success has the uploaded configuration
  on the switch, then and after the reboot.

The first needs to know where a login can be on the stack. `Framed` says that only
a login and its page are nested in another call, that a login's steps belong to
calls of `login`, and that only the innermost call is about to submit; `Limited` that it
then is within the limit, and that what was submitted beyond the counter was lost (`Bounded`),
for the parked driver too. The second is about what the driver does not see: a form that
came back from two redirects is taken for done. `InOrder` says that unless the
captured hash is `Stale` no form is a repeated one, every form sent has
taken effect, and so has one whose answer has just come. It is kept because a
form is repeated only after a login, whose session is new to everybody (`FreshType`),
and because a stale hash stays stale. Between two forms the delete's `ReadVLANState` does capture a
hash, a fresh one, but into `reading`, and only its own queries carry it: `Script` says that `held` is
captured before all forms or after them. `Known` is why being out of session makes the hash
stale in the first place.

For the third the comparison that claims the success is not enough, since the switch goes on
without the tool. `PendingIsWanted`: what is still to be booted is the backup of the last
restore, unless it was pending before. `Quiescent`: while a success
stands no operation under way has a form or an upload in it, so the switch is given nothing new. With these
two the reboot, whenever it comes, boots what was claimed. The exception in the property (`earlier`)
is needed: the upload of a second restore may be refused while the switch still serves, from before
the first, the very file it was to bring; it reports a success that the first one's reboot takes back.

The stack is handled by four lemmas (`Popped`, `Replaced`, `Pushed`, `Single`), and
each action needs only to say which of the four it is and what it answers (`StepKeeps`,
`QuietKeeps`).

`NsdpSessionProofs` proves, for any settings, attempts, strike limit and numbers and
any number of faults, under `NsdpSessionAssumption`:

- `SuccessIsVerified`: an apply that reports success has left the switch as asked,
  unless another manager wrote meanwhile;
- `StrikesAreFaults`: with the right password strikes never outnumber faults;
- `ReloginOnce`: a strict operation logs in at most twice;
- `OneFaultMended`: with the right password the operations of the tolerant resources all
  succeed until a second fault, if a GET is tried more than once and one strike does not lock;
- `TypesHold`: the types, which say that the finitely many nonces suffice.

The first three are not inductive, for what counts is in flight. `Matched` says that a
datagram with the number of the exchange under way is its request, unaltered, or
the answer once the request has arrived; every other request has been given up.
`Charged` is the potential of the second theorem: the strikes, the SETs given up on
that may still arrive (each was a fault when its window closed), and one for a
`StaleToken` in the exchange together never exceed the faults; and neither do they with the
strikes replaced by the second run, had or about to be had (`Reruns`). A SET that arrives late
either becomes a strike or rolls the nonce under the exchange, and pays for it with
itself; a step of another manager pays with its own fault. The lemmas `ChargesNothing`,
`FaultPays`, `FaultPaysRequest`, `RequestPays` and `StaleTokenPays` are the ways in
which a step may move the charge, and each action cites one. `ReadRight` gives the first
theorem (what a phase has read right is right, because a SET that arrives late can only make a
setting right), and `LoginsPaid` with `LoginFirst` the third. `OneFaultMended` is about where
the one fault fell. `Budget`: it was spent on the first chance (the operation is then in its
second run or its corrective pass, `SecondChance`) or on one window that closed, which is a second attempt of
a GET, and not on both. `Findings`: where no fault can strike any more, what is wrong is found and SET, and
stays right; a read-back that the fault itself strikes finds all that is wrong, or nothing, since then it was
another manager's SET of a setting read before, which the next operation finds. The numbers of the requests in flight differ
by the guard of `Send`, which in a finite instance is a bound and in the code the
16-bit counter. A nonce rolls to one that nothing knows, neither the client nor a datagram;
that there is one left is a count: under way are at most one datagram for the exchange and
one for each fault, since a window closes over a datagram only at the price of one.
`NsdpSessionAssumption` asks for four nonces more than faults.

`TftpProofs` proves, for files of any length whose block numbers do not wrap, and any
attempts, sessions and faults, under `TftpAssumption`:

- `TypeCorrect`: types;
- `StoreIsWhole`: what the store is given is the file, whole, and once;
- `BelievedIsStored`: when a save is over, a file that the switch believes saved is in the store, unless
  the store refused it (the last acknowledgement is sent before `Put` is called);
- `TransfersAreSafe`: a transfer in any of the four roles implements `Transfer`;
- `FaultsAreRiddenOut`: a sender of ours that met fewer faults than it has attempts did not fail
  (`TFTPPut` once its request has been answered; the serving side if it may open as many sessions
  as there are attempts). Of a receiver of ours it says only that without any fault it does not fail.

The invariant says where each side is: `Held`, a receiver that expects block *n* has the
*n - 1* before it, and is done with all of them only; `Lockstep`, the sender is never
ahead of the receiver, and only the session of the switch's choice is past the first block
(`Chose`: so at most one session of our server ever comes to the end); `Wire`, nothing
under way is beyond that: no block later than the one its sender is at, no acknowledgement of a block
not yet taken. `MayEnter` and `PeerMayEnter` describe what a step on either side may
do in terms of where it leads and what it sends. That such a step keeps the invariant
(`SessionKeeps`, `PeerKeeps`) and is a step of `Transfer`, or none (`SessionMaps`,
`PeerMaps`), is proved once for each side; that each
handler takes only such steps, once for each handler. This is where the four roles differ: the
repetitions, the duplicates and the lost attempts all send what the side may send anyway.

The last theorem is an account of faults. `NetBounded` says that a fault pays for at most one
datagram beyond the one a lockstep transfer has under way. `Patient` and `PeerPatient` say that
a fault pays for at most one attempt of either side: the attempts made, and the datagrams
under way that are not about the block the sender is at (each costs it one, for the code
counts a wrong block as a used attempt), together do not exceed the faults; and when
nothing is under way that could answer, one more fault has happened than attempts were
made. Before the two sides have found each other `Asked`, `Unanswered` and `Asking` say the same
of the request and of the sessions it has opened, of which there is one for each fault and one
more. The theorem supposes `MaxSessions >= Retries`: the code opens a session for every
request and has no such bound, and with fewer the model's server would be silent where the
code's is not. `Calm` describes the one datagram of a transfer without faults.

`TextCodecProofs` proves, for any ports and any VLAN ids with VLAN 1 among them, what
the codec of the startup-config promises: `RenderedReadsBack`, that a file rendered from a
`Plain` state reads as that state whatever the switch makes of it, and `RoundTripExactly`, which
of all accepted states read as themselves when the switch makes nothing of the file. The code
infers what the switch leaves out, so the lemmas do not compare files. `StandsFor(f, s)`
says that a file has the state's VLANs, up to a declaration of VLAN 1, its PVIDs, and
its lines, but for untagged ones that the PVID says again. What `RenderVLANs` writes stands for the
state (`RenderedStands`), each thing the switch may do to it and each rendering of the ports
keeps that (`ReserialisedStands`, `PortsPassThrough`), and whatever stands for a plain state reads as
it. A state is plain when the inference cannot mistake it: VLAN 1 has an untagged
port and no tagged one, and every port is untagged in the VLAN of its PVID. VLAN 1 has to
be there because a file with PVIDs and no VLAN line reads differently once the switch has
declared VLAN 1.

`StagedApplyProofs` proves, for any files, configurations, faults, polls and writes of others,
under `FilesAssumption` (types) and `BoundsAssumption`:

- `AppliesStage`: as long as nobody interferes, an apply request by request implements the
  one-step staging of `Staging`;
- `SuccessIsHonest`: an undisturbed apply that succeeds has staged what was asked, and says
  that it is pending or has seen the switch boot with it;
- `DigestingIsNoDrift`: what the switch makes of an upload is not taken for drift, for plain states and
  a file with a section for every port (a port without one cannot be set);
- `StagedReadsBack`, `ReadStaysRenderable`: of `Staging` itself, what was staged last in a namespace
  reads as it was asked for, and could be asked for again (the invariants `ReadsBack` and
  `ReadIsRenderable` of run `staging`, for the instance `Staged` of `Staging` that stands in
  `StagedApply`, where every file may be what a disturbance leaves);
- `LandedReadsBack`: by the refinement, the same of `StagedApply`, across failed applies and reboots;
- `RebootedIsActive`, `RestKeptUncut`: what is true of the two claims that the runs `staged_active`
  and `staged_rest` refute. The second supposes that the files of the switch and of other
  managers are whole.

The invariant follows an image through the apply. `UploadsOwn`: what the switch digests was
rendered from some file, and from the one that is there as long as nobody interferes.
`PlanHolds`: so was the plan, with the expectation that goes with it, and until a fault
the file is, after the upload, what the switch makes of the image. `Quiet`: an upload is under way
only while an apply verifies or after one gave up, so the file that is
fetched, rendered and uploaded does not change under it, although nothing locks it. `RebootHolds`: while
a reboot is under way what was asked is staged, and once the up time has fallen it is active.
A landed upload is a step of `Staging` because it is `WithWanted` of the file as it stood, and every
other step is a stutter or a disturbance. For `Staging` the invariant is `Stands`: the file
stands for the state asked last, and has the ports asked last, each kept by the staging
of the other.

`SettingsApplyProofs` proves, for any ports among the switch's eight, any configurations,
engine modes, faults and writes of others, under `SettingsAssumption` (the types of the schemas
and of the arguments of the SETs: rates are bytes, VLAN members are ports of the switch):

- `ToldIsLive`: an operation that ends well tells Terraform what the switch does, and an
  apply tells it the configuration;
- `SetsOnlyDrift`: what is still to be SET is not yet right;
- `TableIsGuarded`: the VLAN tables are written and told only in an engine mode they are
  live in, and an apply names every VLAN of its table;
- `WritesMean`: a write changes the one register it names, to what it means;
- `OneLossMended`: as long as nobody else writes, drift or an authentication failure takes a
  second fault;
- `VerbsManage`: every command line of `nsdpctl` is a write of another manager as
  `SettingsAssumption` has it, so that these theorems are about the tool too.

What the first three say of the switch holds until another manager writes (`touched`);
what they say of the configuration holds regardless. They rest on the two halves of the wire format, proved for each register. `BlockRead`: the answer to a
GET of a block, taken apart by the reader, is `Part` of what the switch holds;
for the tables that are entries back to back it is one lemma about packing and unpacking
(`PackedBlock`), with the division of a position by the width of an entry, for the bitmaps
the eight digits of a byte (`BitmapRead`). `WriteDoes`: a SET leaves a switch that
differs in the register named (`Wrote`); it is the composition of the payload, of what the
switch keeps of it and of what it then reads it as, and fails of a bandwidth limit
beyond a byte, which is why rates are assumed to be bytes. The invariant is `Seen`
(what has been read so far is what the switch still holds of the blocks that are not `Unread`),
`GuardHolds` (past the guard the engine fits, and past the refusal every VLAN is named; a SET
changes neither), and `Phases` (which steps belong to which kind of operation), next to the
properties themselves. `OnlyDrift` is kept because a SET changes one register only,
and the register it changes leaves `todo` with it. For `OneLossMended` the account is `Mended`: what the
first pass has not brought about is still in `todo` or was taken by a fault, what the corrective pass has
not, by a second one; and a second run has had its refusal. It needs that a configuration
asks for nothing a SET cannot bring about (`ExpandedMeant`).

*Only model-checked*: liveness, which the prover does not reach (`Converges`,
`Returns`, `Ends`, `Recovers`, `Settles`, `Served`, `Ending`); and of the safety properties
`Splices`, whose operators are a parser and an editor that fold over the lines of a file, with
little to be said of them but by induction over its length. The same holds of the bytes under
the verbs of `nsdpctl`: `VerbsManage` is about the registers they write. All other invariants
and action properties of the passing runs are theorems.

## What is not modelled, and why

The status and reason of each component are in `PROJECT.json`. In short:

- no state to model: data sources, driver catalogue, the binary configuration file (a
  checksum and a header), the printing of the command-line tools;
- the parts of a component that has a model: the v1 dialect of NSDP and its discovery;
  attributes that no resource writes (names, addresses, counters, cable tests,
  firmware); the login of the FASTPATH web UI, which a staged apply
  takes as one request; the editor's calls that only tests make; Terraform's own
  plan and schema code.

How the models rest on each other: a failed or unanswered request of `WebSession` or `NsdpSession`
is a write of `VlanApply` with the outcome `lost` or `error`. `NoSkippedWrite` is
why `VlanApply` may take writes in order; a last form that the driver takes for done
and the switch did not is an `error` write whose apply fails at its read-back instead. The one retry of `withNSDPClient` is another apply.
All of them assume that one operation runs at a time, which `Exclusion` gives
where the blocks name the switch in one way, and that no datagram of one operation is
under way when the next begins. The pacer measures from the *start* of the last
operation, so after a long one this is an assumption and not a consequence.

## Plan

In order; each module comes with a run, and the proofs with TLC's agreement first.

1. (done) `VlanState`, `VlanPlan`, `VlanApply` with `HitlessUpdate`, and their proofs.
2. (done) `WebSession`, `NsdpSession`.
3. (done) `TextCodec`, `Staging`, `StagedApply` as a refinement of `Staging`.
4. (done) `DeviceLock` and its proofs. Two processes, and one block by MAC and one by
   host, are outside its promise.
5. (done) `Tftp` as a refinement of `Transfer`.
6. (done) `TextLines` under `TextCodec`, and `Splicing`.
7. (done) `NsdpWire`, `Nsdpctl`, `SettingsApply`.
8. (done) `RestoreSession`, and the proofs of the web session, of the NSDP session
   and of the file transfer.
9. (done) Proofs of the codec, of `StagedApply` with its refinement of `Staging`, and of
   the settings; `RestoreLasts`, `RidesOut`, and the types of the NSDP session.
10. (done) The invariants of `Staging`, carried over to `StagedApply`; what one fault does to
   an operation (`EndsAsAsked`, `OneFaultIsMended`, `OneLossIsMended`); the limits of the four
   refuted claims; the writes of `nsdpctl`.
11. Left: `Splices`, which needs an induction over lines, and liveness. Neither is within
    reach of the installed provers; both stay with TLC.

## Running

    tlc -workers 2 -config MCVlanApply.cfg MCVlanApply
    tlapm VlanApplyProofs.tla
    tlapm DeviceLockProofs.tla
    tlapm WebSessionProofs.tla
    tlapm NsdpSessionProofs.tla
    tlapm TftpProofs.tla
    tlapm TextCodecProofs.tla
    tlapm StagedApplyProofs.tla
    tlapm SettingsApplyProofs.tla
