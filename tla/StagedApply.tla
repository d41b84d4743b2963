----------------------------- MODULE StagedApply -----------------------------
(***************************************************************************)
(* Managing a gs108tv2 through its startup-config, request by request      *)
(* (internal/client/gs108tv2/apply.go and reboot.go, and the apply methods *)
(* of the vlan_state and port_config resources).                           *)
(*                                                                         *)
(* An apply reads its namespace, downloads the file again, writes its      *)
(* namespace into that copy, uploads the copy, polls until the switch      *)
(* serves it, reads back, and reboots the switch if it is asked to. The    *)
(* switch digests an upload for minutes, in which it serves nothing. Other *)
(* managers write the file at any moment. The device lock lets one apply   *)
(* of a provider process run at a time. `clean` says that nobody else      *)
(* wrote and no body was cut since an apply began, vlansAsked and          *)
(* portsAsked what landed last.                                            *)
(***************************************************************************)
EXTENDS StagedFile

CONSTANTS
    StartFiles,         \* the files a switch starts with
    Configurations,     \* the VLAN state and port settings asked for, and whether
                        \*   VLANs may be deleted
    ForeignFiles,       \* the files other managers leave behind
    RebootToApply,      \* the settings of reboot_to_apply that occur
    MaxFaults,          \* requests that fail, bodies cut short, power cuts
    MaxForeign,         \* writes of other managers
    MaxPolls,           \* polls before a wait gives up
    MaxUptime           \* the clock of the switch stops here

ASSUME FilesAssumption ==
    /\ StartFiles \subseteq File /\ ForeignFiles \subseteq File
    /\ Configurations \subseteq
          [vlan : VLANStates, port : [Ports -> BOOLEAN], deletions : BOOLEAN]

ASSUME BoundsAssumption ==
    /\ RebootToApply \subseteq BOOLEAN
    /\ MaxFaults \in Nat /\ MaxForeign \in Nat
    /\ MaxPolls \in Nat \ {0} /\ MaxUptime \in Nat \ {0}

VARIABLES
    running,            \* the switch: the configuration it booted with,
    upload,             \*   the upload it is digesting, {} if none,
    uptime,             \*   and its up-time stamp
    config,             \* the Terraform configuration
    pc, job,            \* the apply under way: its next step, resource and reboot_to_apply,
    changed,            \*   whether it asks for something new,
    plan,               \*   the image to upload and what must read back,
    polls, base,        \*   polls made, and the file and up time before a reboot
    outcome,            \* of the last apply: failed, or its changes_pending
    faults, foreign     \* faults and foreign writes so far

asked == <<vlansAsked, portsAsked>>
switch == <<startup, running, upload, uptime>>
vars == <<startup, running, upload, uptime, config, pc, job, changed,
          plan, polls, base, outcome, faults, foreign, clean, vlansAsked, portsAsked>>

WantedVLANs == {c.vlan : c \in Configurations}

WantedPorts == {c.port : c \in Configurations}

Namespaces == {"vlan", "port"}

Steps == {"idle", "check", "fetch", "restore", "verify", "readback",
          "baseline", "post", "boot"}

NoJob == [ns |-> "vlan", reboot |-> FALSE]

NoPlan == [vlans |-> {}, ports |-> {}, image |-> {}]

Maybe(S) == {{}} \cup {{x} : x \in S}

Init ==
    /\ startup \in StartFiles
    /\ running = startup /\ upload = {} /\ uptime = MaxUptime
    /\ config \in Configurations
    /\ pc = "idle" /\ job = NoJob
    /\ changed = FALSE /\ plan = NoPlan /\ polls = 0 /\ base = {}
    /\ outcome = "none"
    /\ faults = 0 /\ foreign = 0 /\ clean = TRUE
    /\ vlansAsked = {} /\ portsAsked = {}

-----------------------------------------------------------------------------
(* The file and the resource an apply is for *)

ns == job.ns

Own(n, f) == IF n = "vlan" THEN DecodeVLANs(f) ELSE DecodePorts(f)

Wanted == config[ns]

\* blockedVLANRemovals
RemovalsBlocked(current) ==
    /\ ns = "vlan" /\ ~config.deletions
    /\ RemovedVLANs(current, Wanted) # {}

\* A slip: the file is written anew, not only the own namespace in it.
RenderedAnew(f) ==
    IF ns = "vlan" THEN RenderVLANs(FactoryFile, Wanted) ELSE RenderPorts(FactoryFile, Wanted)

\* The copy with the own namespace written anew.
Rendered(f) == IF ns = "vlan" THEN RenderVLANs(f, Wanted) ELSE RenderPorts(f, Wanted)

CanRender(f) == ns = "vlan" => CanRenderVLANs(f)

\* What the re-fetched file must decode to. A port apply over VLAN lines the
\* codec does not know leaves the VLANs out.
VerifyPlan(f) ==
    [vlans |-> IF ns = "vlan" THEN {Wanted}
               ELSE IF DecodeFails(f) THEN {} ELSE {DecodeVLANs(f)},
     ports |-> {IF ns = "port" THEN Wanted ELSE DecodePorts(f)},
     image |-> {Rendered(f)}]

Matches(f) ==
    /\ \A s \in plan.vlans : DecodeVLANs(f) = s
    /\ \A e \in plan.ports : DecodePorts(f) = e

-----------------------------------------------------------------------------
(* The switch and the network *)

\* While it digests an upload the switch refuses logins or serves garbage.
Serving == upload = {}

\* A download is the file, or the part of it that came through.
Downloads == {startup} \cup {CutBefore(startup, p) : p \in startup.sections}

\* The faults, the honesty flags and the history after downloading f.
Downloaded(f) ==
    IF f = startup THEN UNCHANGED <<faults, clean, asked>>
    ELSE /\ faults < MaxFaults /\ faults' = faults + 1
         /\ clean' = FALSE
         /\ vlansAsked' = {} /\ portsAsked' = {}

Fault ==
    /\ faults < MaxFaults /\ faults' = faults + 1

\* The end of an apply: nothing of it is kept.
Ends(how) ==
    /\ pc' = "idle" /\ outcome' = how
    /\ job' = NoJob /\ changed' = FALSE /\ plan' = NoPlan /\ polls' = 0 /\ base' = {}
    /\ UNCHANGED <<config, foreign>>

\* Without an answer that counts no state is written.
Fails == Ends("failed")

Succeeds(changesPending) == Ends(IF changesPending THEN "pending" ELSE "done")

Goes(step) ==
    /\ pc' = step
    /\ UNCHANGED <<config, job, outcome, foreign>>

-----------------------------------------------------------------------------
(* The apply *)

\* Terraform calls the provider.
Begin(n) ==
    /\ pc = "idle"
    /\ \E reboot \in RebootToApply : job' = [ns |-> n, reboot |-> reboot]
    /\ pc' = "check" /\ outcome' = "none"
    /\ clean' = (clean \/ upload = {})
    /\ UNCHANGED <<switch, config, changed, plan, polls, base, faults, foreign, asked>>

\* Any request fails, the serial number is another one, or Terraform is interrupted.
Interrupted ==
    /\ pc # "idle" /\ Fault /\ Fails
    /\ UNCHANGED <<switch, clean, asked>>

\* ReadVLANState and ReadPortSettings refuse a file they cannot decode.
ReadRefused ==
    /\ pc \in {"check", "readback"}
    /\ ~Serving \/ DecodeFails(startup)
    /\ Fails
    /\ UNCHANGED <<switch, faults, clean, asked>>

Check ==
    /\ pc = "check" /\ Serving
    /\ \E f \in Downloads :
          /\ ~DecodeFails(f) /\ Downloaded(f)
          /\ IF RemovalsBlocked(Own(ns, f))
               THEN Fails
               ELSE /\ changed' = (Own(ns, f) # Wanted) /\ Goes("fetch")
                    /\ UNCHANGED <<plan, polls, base>>
    /\ UNCHANGED switch

\* validateRenderable refuses the state, or the file cannot be downloaded.
FetchRefused ==
    /\ pc = "fetch"
    /\ ~Serving \/ (ns = "vlan" /\ ~Renderable(Wanted))
    /\ Fails
    /\ UNCHANGED <<switch, faults, clean, asked>>

\* The driver's own download: done if the namespace is as wanted already, and
\* else the image is rendered into this copy.
Fetch ==
    /\ pc = "fetch" /\ Serving
    /\ ns = "vlan" => Renderable(Wanted)
    /\ \E f \in Downloads :
          /\ Downloaded(f)
          /\ \/ /\ ~DecodeFails(f) /\ Own(ns, f) = Wanted
                /\ Goes("readback")
                /\ UNCHANGED <<changed, plan, polls, base>>
             \/ /\ DecodeFails(f) \/ Own(ns, f) # Wanted
                /\ CanRender(f)
                /\ plan' = VerifyPlan(f) /\ Goes("restore")
                /\ UNCHANGED <<changed, polls, base>>
             \/ /\ DecodeFails(f) \/ Own(ns, f) # Wanted
                /\ ~CanRender(f)
                /\ Fails
    /\ UNCHANGED switch

\* The image reaches the switch, which starts to digest it.
Digests ==
    /\ upload' = {[file |-> f, ns |-> ns, want |-> Wanted] : f \in plan.image}
    /\ UNCHANGED <<startup, running, uptime>>

Restore ==
    /\ pc = "restore" /\ Serving
    /\ Digests
    /\ Goes("verify")
    /\ UNCHANGED <<changed, plan, polls, base, faults, clean, asked>>

\* The switch takes the image but its answer is lost.
RestoreUnanswered ==
    /\ pc = "restore" /\ Serving
    /\ Fault /\ Digests /\ Fails
    /\ UNCHANGED <<clean, asked>>

\* sleepToDeadline
DeadlinePassed == polls >= MaxPolls

\* A slip: every poll moves the deadline.
PollAfresh == 0

NextPoll == polls + 1

\* waitTransientAndVerify: a refused login, a broken download and a file that
\* does not decode are waited out, until the deadline.
WaitOn ==
    /\ pc \in {"verify", "boot"}
    /\ IF DeadlinePassed
         THEN Fails
         ELSE /\ polls' = NextPoll /\ Goes(pc)
              /\ UNCHANGED <<changed, plan, base>>
    /\ UNCHANGED <<switch, faults, clean, asked>>

\* A file that decodes is the truth: what was planned, or drift.
Verify ==
    /\ pc = "verify" /\ Serving
    /\ \E f \in Downloads :
          /\ ~DecodeFails(f) /\ Downloaded(f)
          /\ IF Matches(f)
               THEN /\ Goes("readback") /\ polls' = 0
                    /\ UNCHANGED <<changed, plan, base>>
               ELSE Fails
    /\ UNCHANGED switch

\* The resource reads back, and reboots only for a change against what it read first.
ReadBack ==
    /\ pc = "readback" /\ Serving
    /\ \E f \in Downloads :
          /\ ~DecodeFails(f) /\ Downloaded(f)
          /\ CASE Own(ns, f) # Wanted -> Fails
               [] Own(ns, f) = Wanted /\ changed /\ job.reboot ->
                     Goes("baseline") /\ UNCHANGED <<changed, plan, polls, base>>
               [] OTHER -> Succeeds(changed)
    /\ UNCHANGED switch

-----------------------------------------------------------------------------
(* RebootAndWait *)

Baseline ==
    /\ pc = "baseline" /\ Serving
    /\ \E f \in Downloads :
          /\ Downloaded(f)
          /\ base' = {[file |-> f, uptime |-> uptime]}
    /\ Goes("post")
    /\ UNCHANGED <<switch, changed, plan, polls>>

Boots ==
    /\ running' = startup /\ uptime' = 0 /\ upload' = {}
    /\ UNCHANGED startup

\* The switch answers the reboot request, and reboots or does not.
PostReboot ==
    /\ pc = "post"
    /\ Boots \/ UNCHANGED switch
    /\ Goes("boot")
    /\ UNCHANGED <<changed, plan, polls, base, faults, clean, asked>>

\* A slip: an up time that did not move counts as a reboot.
NotLater(u, b) == u <= b.uptime

\* The up-time stamp fell below the baseline.
UptimeReset(u, b) == u < b.uptime

BackUp ==
    /\ pc = "boot" /\ Serving
    /\ \E f \in Downloads, b \in base :
          /\ UptimeReset(uptime, b)
          /\ Downloaded(f)
          /\ IF f = b.file THEN Succeeds(FALSE) ELSE Fails
    /\ UNCHANGED switch

-----------------------------------------------------------------------------
(* What happens around the provider *)

\* An upload has been digested: the switch serves what it made of it.
Land ==
    /\ \E u \in upload :
          /\ startup' \in Reserialised(u.file)
          /\ vlansAsked' = CASE ~clean -> {} [] clean /\ u.ns = "vlan" -> {u.want}
                             [] OTHER -> vlansAsked
          /\ portsAsked' = CASE ~clean -> {} [] clean /\ u.ns = "port" -> {u.want}
                             [] OTHER -> portsAsked
    /\ upload' = {}
    /\ UNCHANGED <<running, uptime, config, pc, job, changed, plan, polls,
                   base, outcome, faults, foreign, clean>>

\* A power cut: an upload not yet digested is lost.
PowerCut ==
    /\ Fault /\ Boots
    /\ UNCHANGED <<config, pc, job, changed, plan, polls, base, outcome,
                   foreign, clean, asked>>

Tick ==
    /\ uptime < MaxUptime /\ uptime' = uptime + 1
    /\ UNCHANGED <<startup, running, upload, config, pc, job, changed, plan,
                   polls, base, outcome, faults, foreign, clean, asked>>

\* Another manager, or a provider in another process, writes the file.
ForeignWrite ==
    /\ foreign < MaxForeign /\ foreign' = foreign + 1
    /\ Serving
    /\ startup' \in ForeignFiles
    /\ clean' = FALSE /\ vlansAsked' = {} /\ portsAsked' = {}
    /\ UNCHANGED <<running, upload, uptime, config, pc, job, changed, plan,
                   polls, base, outcome, faults>>

Apply ==
    \/ Interrupted \/ ReadRefused \/ Check \/ FetchRefused \/ Fetch
    \/ Restore \/ RestoreUnanswered \/ WaitOn \/ Verify \/ ReadBack
    \/ Baseline \/ PostReboot \/ BackUp

Environment == Land \/ PowerCut \/ Tick \/ ForeignWrite

Next == (\E n \in Namespaces : Begin(n)) \/ Apply \/ Environment

\* Every request has a timeout and every wait a deadline; an upload is
\* digested in the end; Terraform is run for both resources again and again.
Fairness ==
    /\ WF_vars(Apply) /\ WF_vars(Land) /\ WF_vars(Tick)
    /\ \A n \in Namespaces : SF_vars(Begin(n))

Spec == Init /\ [][Next]_vars /\ Fairness

-----------------------------------------------------------------------------
(* What must hold *)

\* As long as nobody interferes, every upload that lands stages exactly one
\* namespace of the file as it stood, whatever was read when and whichever
\* apply gave up waiting for it (the fresh download of ApplyVLANState and
\* ApplyPortSettings, and the passthrough of the other namespace).
Staged == INSTANCE Staging WITH ForeignFiles <- File

StagingSpec == Staged!Init /\ [][Staged!Next]_(Staged!vars)

Finishes == pc # "idle" /\ pc' = "idle" /\ outcome' # "failed"

\* An undisturbed apply that reports success has staged what was asked for,
\* and if that was a change it either records the change as pending or has
\* seen the switch boot with it (the read-back, changes_pending, and the
\* up-time check of RebootAndWait).
ToldOrActive ==
    [][Finishes /\ clean' =>
          /\ Own(ns, startup) = Wanted
          /\ changed => outcome' = "pending" \/ Own(ns, running) = Wanted]_vars

\* What the switch makes of an upload while digesting it is never taken for
\* drift: over plain VLANs, with a section for every port and without a fault,
\* an undisturbed verification succeeds or waits on (waitTransientAndVerify:
\* "parse errors are transient", and the inference of codec.go that it relies on).
NoFalseDrift ==
    [][/\ Verify /\ clean' /\ faults = 0 /\ startup.sections = Ports
       /\ \A s \in plan.vlans : Plain(s)
       => pc' = "readback"]_vars

\* Every apply comes to an end, however long the switch digests: every wait
\* has a deadline (sleepToDeadline, rebootSleep).
Returns == pc # "idle" ~> pc = "idle"

\* What the codec cannot read or splice stays as it is: every apply refuses.
Unusable == DecodeFails(startup) \/ ~CanRenderVLANs(startup)

\* Two resources that share the file and are applied again and again, in any
\* order and however the earlier tries ended, come to stage both namespaces
\* for good, unless the file became unusable to the codec.
Settles ==
    Plain(config.vlan) /\ Renderable(config.vlan) /\ config.deletions =>
        <>[](Unusable \/ (/\ DecodeVLANs(startup) = config.vlan
                          /\ DecodePorts(startup) = config.port))

\* "at success your changes are ACTIVE in the running config"
\* (reboot_to_apply, docs/resources/vlan_state.md:131).
ActiveOnSuccess ==
    [][Finishes /\ clean' /\ job.reboot => Own(ns, running) = Wanted]_vars

\* "everything else ... passes through in its original order"
\* (renderPortSettings, portcodec.go:118-121).
RestKept == startup.rest
=============================================================================
