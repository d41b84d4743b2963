-------------------------- MODULE StagedApplyProofs --------------------------
(***************************************************************************)
(* Proofs about StagedApply, for any files and configurations, any number  *)
(* of faults, foreign writes and polls: the applies implement the one-step *)
(* staging of Staging, success is honest about what is staged and active,  *)
(* and what the switch makes of an upload is no drift.                     *)
(***************************************************************************)
EXTENDS StagedApply, TextCodecProofs

USE DEF ns, switch, asked, DefaultPVID

-----------------------------------------------------------------------------
(* The inductive invariant *)

Typed ==
    /\ startup \in File /\ running \in File
    /\ uptime \in Int
    /\ config \in Configurations
    /\ job.ns \in Namespaces
    /\ faults \in Nat /\ clean \in BOOLEAN
    /\ \A b \in base : b.uptime \in Int

\* The file with namespace n as it is asked for.
WithWanted(n, f) ==
    IF n = "vlan" THEN RenderVLANs(f, config.vlan) ELSE RenderPorts(f, config.port)

\* An image for namespace n that was rendered from the file f.
Stages(n, f) ==
    /\ f \in File
    /\ n = "vlan" => Renderable(config.vlan) /\ CanRenderVLANs(f)

\* An upload is rendered from some file, and from the one that is there as long
\* as nobody interferes.
UploadsOwn ==
    \A u \in upload :
        /\ u.ns \in Namespaces /\ u.want = config[u.ns]
        /\ \E f \in File :
              /\ u.file = WithWanted(u.ns, f) /\ Stages(u.ns, f)
              /\ clean => f = startup

\* Only while an apply verifies, and after it gave up, is there an upload.
Quiet == pc \notin {"idle", "check", "verify"} => upload = {}

\* While it uploads and verifies, the plan is that of one file: the one that is
\* there before the upload, and until a fault the one the switch makes of the
\* image after it.
PlanHolds ==
    pc \in {"restore", "verify"} =>
        \E f \in File :
            /\ plan = VerifyPlan(f) /\ Stages(ns, f)
            /\ pc = "restore" /\ clean => f = startup
            /\ pc = "verify" /\ clean /\ faults = 0 =>
                  IF upload = {} THEN startup \in Reserialised(Rendered(f))
                  ELSE \A u \in upload : u.file = Rendered(f)

\* While it reboots what it asked for is staged, and active once the up time
\* has fallen.
RebootHolds ==
    /\ pc \in {"baseline", "post", "boot"} /\ clean => Own(ns, startup) = Wanted
    /\ pc \in {"post", "boot"} /\ clean =>
          \A b \in base : uptime < b.uptime => Own(ns, running) = Wanted

IInv == Typed /\ UploadsOwn /\ Quiet /\ PlanHolds /\ RebootHolds

-----------------------------------------------------------------------------
(* Lemmas about the operators *)

LEMMA ConfigType ==
    ASSUME config \in Configurations
    PROVE  /\ config.vlan \in VLANStates
           /\ config.port \in [Ports -> BOOLEAN]
           /\ config["vlan"] = config.vlan /\ config["port"] = config.port
           /\ config.vlan \in WantedVLANs /\ config.port \in WantedPorts
  BY FilesAssumption DEF WantedVLANs, WantedPorts

LEMMA DownloadsType ==
    ASSUME startup \in File, NEW f \in Downloads
    PROVE  f \in File
  BY CutBeforeType DEF Downloads

\* A download is the file unless it counts as a fault, after which the apply
\* has not the file to itself.
LEMMA DownloadedDoes ==
    ASSUME faults \in Nat, NEW f, Downloaded(f)
    PROVE  /\ faults' \in Nat /\ faults' >= faults
           /\ \/ f = startup /\ faults' = faults /\ clean' = clean /\ asked' = asked
              \/ clean' = FALSE /\ vlansAsked' = {} /\ portsAsked' = {}
  BY DEF Downloaded

LEMMA RenderedIs == \A f : Rendered(f) = IF ns = "vlan" THEN RenderVLANs(f, Wanted)
                                                       ELSE RenderPorts(f, Wanted)
  BY DEF Rendered

LEMMA WantedIs ==
    ASSUME Typed
    PROVE  /\ ns = "vlan" => Wanted = config.vlan
           /\ ns # "vlan" => ns = "port" /\ Wanted = config.port
           /\ \A f : Rendered(f) = WithWanted(ns, f)
  BY DEF Typed, Wanted, Namespaces, Rendered, WithWanted

LEMMA WithWantedType ==
    ASSUME config \in Configurations, NEW n, NEW f \in File
    PROVE  WithWanted(n, f) \in File
  BY ConfigType, RenderVLANsType, RenderPortsType DEF WithWanted

\* A step of an apply leaves the startup-config alone, and without a fault it
\* leaves the history alone.
LEMMA ApplyFrame ==
    ASSUME Typed, Apply
    PROVE  /\ startup' = startup /\ config' = config
           /\ faults' \in Nat /\ faults' >= faults
           /\ \/ clean' = clean /\ asked' = asked
              \/ clean' = FALSE /\ vlansAsked' = {} /\ portsAsked' = {}
<1>1. CASE Interrupted
  BY <1>1 DEF Typed, Interrupted, Fault, Fails, Ends
<1>2. CASE ReadRefused
  BY <1>2 DEF Typed, ReadRefused, Fails, Ends
<1>3. CASE Check
  BY <1>3, DownloadedDoes DEF Typed, Check, Fails, Ends, Goes
<1>4. CASE FetchRefused
  BY <1>4 DEF Typed, FetchRefused, Fails, Ends
<1>5. CASE Fetch
  BY <1>5, DownloadedDoes DEF Typed, Fetch, Fails, Ends, Goes
<1>6. CASE Restore
  BY <1>6 DEF Typed, Restore, Digests, Goes
<1>7. CASE RestoreUnanswered
  BY <1>7 DEF Typed, RestoreUnanswered, Digests, Fault, Fails, Ends
<1>8. CASE WaitOn
  BY <1>8 DEF Typed, WaitOn, Fails, Ends, Goes
<1>9. CASE Verify
  BY <1>9, DownloadedDoes DEF Typed, Verify, Fails, Ends, Goes
<1>10. CASE ReadBack
  <2>1. PICK f \in Downloads : ~DecodeFails(f) /\ Downloaded(f)
    BY <1>10 DEF ReadBack
  <2>2. startup' = startup /\ config' = config
    BY <1>10 DEF ReadBack, Fails, Succeeds, Ends, Goes
  <2> QED
    BY <2>1, <2>2, DownloadedDoes DEF Typed
<1>11. CASE Baseline
  BY <1>11, DownloadedDoes DEF Typed, Baseline, Goes
<1>12. CASE PostReboot
  BY <1>12 DEF Typed, PostReboot, Boots, Goes
<1>13. CASE BackUp
  BY <1>13, DownloadedDoes DEF Typed, BackUp, Succeeds, Fails, Ends
<1> QED
  BY <1>1, <1>2, <1>3, <1>4, <1>5, <1>6, <1>7, <1>8, <1>9, <1>10, <1>11, <1>12, <1>13 DEF
       Apply

-----------------------------------------------------------------------------
(* Types *)

LEMMA InitTyped == Init => Typed
  BY FilesAssumption, BoundsAssumption DEF Init, Typed, NoJob, Namespaces

LEMMA NextTyped ==
    ASSUME IInv, [Next]_vars
    PROVE  Typed'
<1> USE DEF IInv
<1>1. ASSUME NEW n \in Namespaces, Begin(n) PROVE Typed'
  BY <1>1 DEF Begin, Typed
<1>2. CASE Apply
  <2>1. startup' = startup /\ config' = config /\ faults' \in Nat /\ clean' \in BOOLEAN
    BY <1>2, ApplyFrame DEF Typed
  <2>2. job' = job \/ job' = NoJob
    BY <1>2 DEF Apply, Interrupted, ReadRefused, Check, FetchRefused, Fetch, Restore,
         RestoreUnanswered, WaitOn, Verify, ReadBack, Baseline, PostReboot, BackUp, Fails,
         Succeeds, Ends, Goes
  <2>3. (running' = running /\ uptime' = uptime) \/ Boots
    BY <1>2 DEF Apply, Interrupted, ReadRefused, Check, FetchRefused, Fetch, Restore,
         RestoreUnanswered, WaitOn, Verify, ReadBack, Baseline, PostReboot, BackUp, Digests
  <2>4. base' = base \/ base' = {} \/ \E f : base' = {[file |-> f, uptime |-> uptime]}
    BY <1>2 DEF Apply, Interrupted, ReadRefused, Check, FetchRefused, Fetch, Restore,
         RestoreUnanswered, WaitOn, Verify, ReadBack, Baseline, PostReboot, BackUp, Fails,
         Succeeds, Ends
  <2> QED
    BY <2>1, <2>2, <2>3, <2>4 DEF Typed, NoJob, Namespaces, Boots
<1>3. CASE Land
  <2>1. \A u \in upload : u.file \in File
    BY WithWantedType DEF UploadsOwn, Typed
  <2>2. startup' \in File
    BY <1>3, <2>1, ReserialisedType DEF Land
  <2> QED
    BY <1>3, <2>2 DEF Land, Typed
<1>4. CASE PowerCut
  BY <1>4 DEF PowerCut, Fault, Boots, Typed
<1>5. CASE Tick
  BY <1>5 DEF Tick, Typed
<1>6. CASE ForeignWrite
  BY <1>6, FilesAssumption DEF ForeignWrite, Typed
<1>7. CASE UNCHANGED vars
  BY <1>7 DEF vars, Typed
<1> QED
  BY <1>1, <1>2, <1>3, <1>4, <1>5, <1>6, <1>7 DEF Next, Environment

-----------------------------------------------------------------------------
(* The uploads and when there is one *)

\* What a step of an apply does to the upload.
LEMMA ApplyUpload ==
    ASSUME Apply
    PROVE  upload' = upload \/ upload' = {} \/ (pc = "restore" /\ Digests)
  BY DEF Apply, Interrupted, ReadRefused, Check, FetchRefused, Fetch, Restore,
       RestoreUnanswered, WaitOn, Verify, ReadBack, Baseline, PostReboot, BackUp, Boots

LEMMA DigestsOwn ==
    ASSUME IInv, pc = "restore", Digests, NEW u \in upload'
    PROVE  /\ u.ns \in Namespaces /\ u.want = config[u.ns]
           /\ \E f \in File :
                 /\ u.file = WithWanted(u.ns, f) /\ Stages(u.ns, f)
                 /\ clean => f = startup
<1>1. PICK f \in File : plan = VerifyPlan(f) /\ Stages(ns, f) /\ (clean => f = startup)
  BY DEF IInv, PlanHolds
<1>2. plan.image = {Rendered(f)}
  BY <1>1 DEF VerifyPlan
<1>3. u = [file |-> Rendered(f), ns |-> ns, want |-> Wanted]
  BY <1>2 DEF Digests
<1>4. u.file = WithWanted(ns, f) /\ u.ns = ns /\ u.want = config[ns]
  BY <1>3, WantedIs DEF IInv
<1> QED
  BY <1>1, <1>4 DEF IInv, Typed

LEMMA NextUploadsOwn ==
    ASSUME IInv, [Next]_vars
    PROVE  UploadsOwn'
<1> USE DEF IInv
<1>1. ASSUME config' = config, startup' = startup, upload' = upload, clean' => clean
      PROVE  UploadsOwn'
  BY <1>1 DEF UploadsOwn, WithWanted, Stages
<1>2. ASSUME upload' = {} PROVE UploadsOwn'
  BY <1>2 DEF UploadsOwn
<1>3. ASSUME NEW n \in Namespaces, Begin(n) PROVE UploadsOwn'
  <2>1. CASE upload = {}
    BY <1>2, <1>3, <2>1 DEF Begin
  <2>2. CASE upload # {}
    BY <1>1, <1>3, <2>2 DEF Begin
  <2> QED
    BY <2>1, <2>2
<1>4. CASE Apply
  <2>1. config' = config /\ startup' = startup /\ (clean' = clean \/ clean' = FALSE)
    BY <1>4, ApplyFrame
  <2>2. CASE pc = "restore" /\ Digests
    BY <2>1, <2>2, DigestsOwn DEF UploadsOwn, WithWanted, Stages
  <2> QED
    BY <1>1, <1>2, <1>4, <2>1, <2>2, ApplyUpload
<1>5. CASE Land
  BY <1>2, <1>5 DEF Land
<1>6. CASE PowerCut
  BY <1>2, <1>6 DEF PowerCut, Boots
<1>7. CASE Tick
  BY <1>1, <1>7 DEF Tick
<1>8. CASE ForeignWrite
  BY <1>2, <1>8 DEF ForeignWrite, Serving
<1>9. CASE UNCHANGED vars
  BY <1>1, <1>9 DEF vars
<1> QED
  BY <1>3, <1>4, <1>5, <1>6, <1>7, <1>8, <1>9 DEF Next, Environment

LEMMA NextQuiet ==
    ASSUME IInv, [Next]_vars
    PROVE  Quiet'
<1> USE DEF IInv, Quiet, Serving
<1>1. CASE Apply
  <2>1. CASE Interrupted \/ ReadRefused \/ FetchRefused
    BY <2>1 DEF Interrupted, ReadRefused, FetchRefused, Fails, Ends
  <2>2. CASE Check
    BY <2>2 DEF Check
  <2>3. CASE Fetch
    BY <2>3 DEF Fetch
  <2>4. CASE Restore \/ RestoreUnanswered
    BY <2>4 DEF Restore, RestoreUnanswered, Fails, Ends, Goes
  <2>5. CASE WaitOn
    BY <2>5 DEF WaitOn, Fails, Ends, Goes
  <2>6. CASE Verify
    BY <2>6 DEF Verify
  <2>7. CASE ReadBack
    BY <2>7 DEF ReadBack
  <2>8. CASE Baseline
    BY <2>8 DEF Baseline
  <2>9. CASE PostReboot
    BY <2>9 DEF PostReboot, Boots
  <2>10. CASE BackUp
    BY <2>10 DEF BackUp
  <2> QED
    BY <1>1, <2>1, <2>2, <2>3, <2>4, <2>5, <2>6, <2>7, <2>8, <2>9, <2>10 DEF Apply
<1>2. CASE (\E n \in Namespaces : Begin(n)) \/ Environment \/ UNCHANGED vars
  BY <1>2 DEF Begin, Environment, Land, PowerCut, Boots, Tick, ForeignWrite, vars
<1> QED
  BY <1>1, <1>2 DEF Next

-----------------------------------------------------------------------------
(* The plan of an apply *)

\* What a plan says does not depend on the state but through the job and the
\* configuration.
LEMMA SamePlan ==
    ASSUME job' = job, config' = config, NEW f
    PROVE  /\ VerifyPlan(f)' = VerifyPlan(f) /\ Rendered(f)' = Rendered(f)
           /\ Stages(ns, f)' = Stages(ns, f)
  BY DEF VerifyPlan, Rendered, Wanted, Stages

\* As long as the switch and the plan stay as they are so does what holds of them.
LEMMA SamePlanHolds ==
    ASSUME PlanHolds, job' = job, config' = config, plan' = plan, pc' = pc,
           startup' = startup, upload' = upload, faults \in Nat, faults' \in Nat,
           faults' >= faults, clean' = clean \/ clean' = FALSE
    PROVE  PlanHolds'
<1> SUFFICES ASSUME pc \in {"restore", "verify"} PROVE PlanHolds'
  BY DEF PlanHolds
<1>1. PICK f \in File :
            /\ plan = VerifyPlan(f) /\ Stages(ns, f)
            /\ pc = "restore" /\ clean => f = startup
            /\ pc = "verify" /\ clean /\ faults = 0 =>
                  IF upload = {} THEN startup \in Reserialised(Rendered(f))
                  ELSE \A u \in upload : u.file = Rendered(f)
  BY DEF PlanHolds
<1>2. faults' = 0 => faults = 0
  OBVIOUS
<1>3. /\ VerifyPlan(f)' = VerifyPlan(f) /\ Rendered(f)' = Rendered(f)
      /\ Stages(ns, f)' = Stages(ns, f)
  BY SamePlan
<1>4. plan' = VerifyPlan(f)' /\ Stages(ns, f)'
  BY <1>1, <1>3
<1>5. pc' = "restore" /\ clean' => f = startup'
  BY <1>1
<1>6. pc' = "verify" /\ clean' /\ faults' = 0 =>
          IF upload' = {} THEN startup' \in Reserialised(Rendered(f)')
          ELSE \A u \in upload' : u.file = Rendered(f)'
  BY <1>1, <1>2, <1>3
<1> QED
  BY <1>4, <1>5, <1>6 DEF PlanHolds

LEMMA FetchPlans ==
    ASSUME IInv, Fetch
    PROVE  PlanHolds'
<1> USE DEF IInv
<1>1. PICK f \in Downloads :
          /\ Downloaded(f)
          /\ \/ /\ ~DecodeFails(f) /\ Own(ns, f) = Wanted
                /\ Goes("readback")
             \/ /\ CanRender(f)
                /\ plan' = VerifyPlan(f) /\ Goes("restore")
             \/ Fails
  BY DEF Fetch
<1>2. CASE pc' # "restore"
  BY <1>1, <1>2 DEF PlanHolds, Goes, Fails, Ends
<1>3. CASE pc' = "restore"
  <2>1. CanRender(f) /\ plan' = VerifyPlan(f) /\ job' = job /\ config' = config
    BY <1>1, <1>3 DEF Goes, Fails, Ends
  <2>2. f \in File /\ startup' = startup
    BY DownloadsType DEF Typed, Fetch
  <2>3. Stages(ns, f)
    BY <2>1, <2>2, WantedIs DEF Stages, CanRender, Fetch
  <2>4. plan' = VerifyPlan(f)' /\ Stages(ns, f)'
    BY <2>1, <2>3, SamePlan
  <2>5. clean' => f = startup'
    BY <1>1, <2>2, DownloadedDoes DEF Typed
  <2> QED
    BY <1>3, <2>2, <2>4, <2>5 DEF PlanHolds
<1> QED
  BY <1>2, <1>3

LEMMA RestorePlans ==
    ASSUME IInv, Restore
    PROVE  PlanHolds'
<1> USE DEF IInv
<1>1. PICK f \in File : plan = VerifyPlan(f) /\ Stages(ns, f)
  BY DEF PlanHolds, Restore
<1>2. job' = job /\ config' = config /\ plan' = plan /\ pc' = "verify"
  BY DEF Restore, Goes
<1>3. plan' = VerifyPlan(f)' /\ Stages(ns, f)' /\ Rendered(f)' = Rendered(f)
  BY <1>1, <1>2, SamePlan
<1>4. upload' = {[file |-> Rendered(f), ns |-> ns, want |-> Wanted]}
  BY <1>1 DEF Restore, Digests, VerifyPlan
<1>5. upload' # {} /\ \A u \in upload' : u.file = Rendered(f)'
  BY <1>3, <1>4
<1> QED
  BY <1>2, <1>3, <1>5 DEF PlanHolds

LEMMA LandKeepsPlan ==
    ASSUME IInv, Land
    PROVE  PlanHolds'
<1> USE DEF IInv
<1>1. /\ job' = job /\ config' = config /\ plan' = plan /\ pc' = pc
      /\ faults' = faults /\ clean' = clean /\ upload' = {}
  BY DEF Land
<1>2. PICK u \in upload : startup' \in Reserialised(u.file)
  BY DEF Land
<1>3. pc # "restore"
  BY <1>2 DEF Quiet
<1> SUFFICES ASSUME pc = "verify" PROVE PlanHolds'
  BY <1>1, <1>3 DEF PlanHolds
<1>4. PICK f \in File :
            /\ plan = VerifyPlan(f) /\ Stages(ns, f)
            /\ clean /\ faults = 0 => u.file = Rendered(f)
  BY <1>2 DEF PlanHolds
<1>5. plan' = VerifyPlan(f)' /\ Stages(ns, f)' /\ Rendered(f)' = Rendered(f)
  BY <1>1, <1>4, SamePlan
<1> QED
  BY <1>1, <1>2, <1>4, <1>5 DEF PlanHolds

LEMMA NextPlanHolds ==
    ASSUME IInv, [Next]_vars
    PROVE  PlanHolds'
<1> USE DEF IInv
<1>1. ASSUME pc' \notin {"restore", "verify"} PROVE PlanHolds'
  BY <1>1 DEF PlanHolds
<1>2. ASSUME NEW n \in Namespaces, Begin(n) PROVE PlanHolds'
  BY <1>1, <1>2 DEF Begin
<1>3. CASE Apply
  <2>1. CASE Interrupted \/ ReadRefused \/ FetchRefused \/ RestoreUnanswered
    BY <1>1, <2>1 DEF Interrupted, ReadRefused, FetchRefused, RestoreUnanswered, Fails, Ends
  <2>2. CASE Check
    BY <1>1, <2>2 DEF Check, Fails, Ends, Goes
  <2>3. CASE Fetch
    BY <2>3, FetchPlans
  <2>4. CASE Restore
    BY <2>4, RestorePlans
  <2>5. CASE WaitOn
    <3>1. CASE DeadlinePassed
      BY <1>1, <2>5, <3>1 DEF WaitOn, Fails, Ends
    <3>2. CASE ~DeadlinePassed
      BY <2>5, <3>2, SamePlanHolds DEF WaitOn, Goes, Typed
    <3> QED
      BY <3>1, <3>2
  <2>6. CASE Verify
    BY <1>1, <2>6 DEF Verify, Fails, Ends, Goes
  <2>7. CASE ReadBack
    <3>1. pc' \in {"idle", "baseline"}
      BY <2>7 DEF ReadBack, Fails, Succeeds, Ends, Goes
    <3> QED
      BY <1>1, <3>1
  <2>8. CASE Baseline \/ PostReboot
    BY <1>1, <2>8 DEF Baseline, PostReboot, Goes
  <2>9. CASE BackUp
    BY <1>1, <2>9 DEF BackUp, Fails, Succeeds, Ends
  <2> QED
    BY <1>3, <2>1, <2>2, <2>3, <2>4, <2>5, <2>6, <2>7, <2>8, <2>9 DEF Apply
<1>4. CASE Land
  BY <1>4, LandKeepsPlan
<1>5. CASE PowerCut
  <2>1. /\ job' = job /\ config' = config /\ plan' = plan /\ pc' = pc
        /\ startup' = startup /\ clean' = clean /\ faults' # 0
    BY <1>5 DEF PowerCut, Boots, Fault, Typed
  <2>2. SUFFICES ASSUME pc \in {"restore", "verify"} PROVE PlanHolds'
    BY <1>1, <2>1
  <2>3. PICK f \in File :
              plan = VerifyPlan(f) /\ Stages(ns, f) /\ (pc = "restore" /\ clean => f = startup)
    BY <2>2 DEF PlanHolds
  <2>4. plan' = VerifyPlan(f)' /\ Stages(ns, f)'
    BY <2>1, <2>3, SamePlan
  <2> QED
    BY <2>1, <2>3, <2>4 DEF PlanHolds
<1>6. CASE Tick
  BY <1>6, SamePlanHolds DEF Tick, Typed
<1>7. CASE ForeignWrite
  <2>1. /\ job' = job /\ config' = config /\ plan' = plan /\ pc' = pc /\ clean' = FALSE
    BY <1>7 DEF ForeignWrite
  <2>2. SUFFICES ASSUME pc \in {"restore", "verify"} PROVE PlanHolds'
    BY <1>1, <2>1
  <2>3. PICK f \in File : plan = VerifyPlan(f) /\ Stages(ns, f)
    BY <2>2 DEF PlanHolds
  <2>4. plan' = VerifyPlan(f)' /\ Stages(ns, f)'
    BY <2>1, <2>3, SamePlan
  <2> QED
    BY <2>1, <2>4 DEF PlanHolds
<1>8. CASE UNCHANGED vars
  BY <1>8, SamePlanHolds DEF vars, Typed
<1> QED
  BY <1>2, <1>3, <1>4, <1>5, <1>6, <1>7, <1>8 DEF Next, Environment

-----------------------------------------------------------------------------
(* The reboot *)

\* What a resource reads of a file does not depend on the state but through
\* the job and the configuration.
LEMMA SameOwn ==
    ASSUME job' = job, config' = config
    PROVE  /\ Wanted' = Wanted
           /\ Own(ns, startup)' = Own(ns, startup')
           /\ Own(ns, running)' = Own(ns, running')
  BY DEF Wanted

LEMMA NextRebootHolds ==
    ASSUME IInv, [Next]_vars
    PROVE  RebootHolds'
<1> USE DEF IInv
<1>1. ASSUME pc' \notin {"baseline", "post", "boot"} PROVE RebootHolds'
  BY <1>1 DEF RebootHolds
<1>2. ASSUME ~clean' PROVE RebootHolds'
  BY <1>2 DEF RebootHolds
<1>3. ASSUME job' = job, config' = config, startup' = startup, running' = running,
             pc' = pc, base' = base, clean' = clean, uptime' \in Int, uptime' >= uptime
      PROVE  RebootHolds'
  <2>1. \A b \in base : uptime' < b.uptime => uptime < b.uptime
    BY <1>3 DEF Typed
  <2> QED
    BY <1>3, <2>1, SameOwn DEF RebootHolds
\* A boot makes active what is staged.
<1>4. ASSUME job' = job, config' = config, Boots, clean' = clean,
             pc \in {"baseline", "post", "boot"}
      PROVE  RebootHolds'
  <2>1. clean => Own(ns, startup) = Wanted
    BY <1>4 DEF RebootHolds
  <2>2. startup' = startup /\ running' = startup
    BY <1>4 DEF Boots
  <2> QED
    BY <1>4, <2>1, <2>2, SameOwn DEF RebootHolds
<1>5. ASSUME NEW n \in Namespaces, Begin(n) PROVE RebootHolds'
  BY <1>1, <1>5 DEF Begin
<1>6. CASE Apply
  <2>1. CASE Interrupted \/ ReadRefused \/ FetchRefused \/ RestoreUnanswered
    BY <1>1, <2>1 DEF Interrupted, ReadRefused, FetchRefused, RestoreUnanswered, Fails, Ends
  <2>2. CASE Check
    BY <1>1, <2>2 DEF Check, Fails, Ends, Goes
  <2>3. CASE Fetch
    BY <1>1, <2>3 DEF Fetch, Fails, Ends, Goes
  <2>4. CASE Restore
    BY <1>1, <2>4 DEF Restore, Goes
  <2>5. CASE WaitOn
    <3>1. CASE DeadlinePassed
      BY <1>1, <2>5, <3>1 DEF WaitOn, Fails, Ends
    <3>2. CASE ~DeadlinePassed
      BY <1>3, <2>5, <3>2 DEF WaitOn, Goes, Typed
    <3> QED
      BY <3>1, <3>2
  <2>6. CASE Verify
    BY <1>1, <2>6 DEF Verify, Fails, Ends, Goes
  <2>7. CASE ReadBack
    <3>1. PICK f \in Downloads :
              /\ Downloaded(f)
              /\ \/ pc' = "idle"
                 \/ Own(ns, f) = Wanted /\ Goes("baseline")
      BY <2>7 DEF ReadBack, Fails, Succeeds, Ends
    <3>2. clean' => f = startup /\ startup' = startup
      BY <2>7, <3>1, DownloadedDoes DEF ReadBack, Typed
    <3>3. CASE Goes("baseline") /\ clean'
      BY <3>1, <3>2, <3>3, SameOwn DEF RebootHolds, Goes
    <3> QED
      BY <1>1, <1>2, <3>1, <3>3
  <2>8. CASE Baseline
    <3>1. PICK f \in Downloads :
              /\ Downloaded(f)
              /\ base' = {[file |-> f, uptime |-> uptime]}
      BY <2>8 DEF Baseline
    <3>2. \A b \in base' : ~(uptime < b.uptime)
      BY <3>1 DEF Typed
    <3>3. clean' => clean
      BY <3>1, DownloadedDoes, Zenon DEF Typed
    <3> QED
      BY <2>8, <3>2, <3>3, SameOwn DEF Baseline, Goes, RebootHolds
  <2>9. CASE PostReboot
    <3>1. job' = job /\ config' = config /\ clean' = clean /\ pc = "post" /\ base' = base
      BY <2>9 DEF PostReboot, Goes
    <3>2. CASE Boots
      BY <1>4, <3>1, <3>2
    <3>3. CASE UNCHANGED switch
      BY <2>9, <3>1, <3>3, SameOwn DEF RebootHolds
    <3> QED
      BY <2>9, <3>2, <3>3 DEF PostReboot
  <2>10. CASE BackUp
    BY <1>1, <2>10 DEF BackUp, Fails, Succeeds, Ends
  <2> QED
    BY <1>6, <2>1, <2>2, <2>3, <2>4, <2>5, <2>6, <2>7, <2>8, <2>9, <2>10 DEF Apply
<1>7. CASE Land
  <2>1. upload # {} /\ pc' = pc
    BY <1>7 DEF Land
  <2> QED
    BY <1>1, <2>1 DEF Quiet
<1>8. CASE PowerCut
  BY <1>1, <1>4, <1>8 DEF PowerCut
<1>9. CASE Tick
  BY <1>3, <1>9 DEF Tick, Typed
<1>10. CASE ForeignWrite
  BY <1>2, <1>10 DEF ForeignWrite
<1>11. CASE UNCHANGED vars
  BY <1>3, <1>11 DEF vars, Typed
<1> QED
  BY <1>5, <1>6, <1>7, <1>8, <1>9, <1>10, <1>11 DEF Next, Environment

-----------------------------------------------------------------------------
(* The invariant *)

LEMMA InitIInv == Init => IInv
<1>1. Init => UploadsOwn /\ Quiet /\ PlanHolds /\ RebootHolds
  BY DEF Init, UploadsOwn, Quiet, PlanHolds, RebootHolds
<1> QED
  BY <1>1, InitTyped DEF IInv

LEMMA NextIInv == IInv /\ [Next]_vars => IInv'
<1> SUFFICES ASSUME IInv, [Next]_vars PROVE IInv'
  OBVIOUS
<1>1. Typed' /\ UploadsOwn' /\ Quiet'
  BY NextTyped, NextUploadsOwn, NextQuiet
<1>2. PlanHolds' /\ RebootHolds'
  BY NextPlanHolds, NextRebootHolds
<1> QED
  BY <1>1, <1>2 DEF IInv

\* Every upload was rendered from a file of the switch and, as long as nobody
\* interferes, from the one it replaces; while an apply verifies, its plan is
\* that of the file it rendered; while it reboots, what it asked for is staged.
THEOREM Invariant == Spec => []IInv
  BY InitIInv, NextIInv, PTL DEF Spec

-----------------------------------------------------------------------------
(* The refinement: the operators of Staging are those of the codec *)

LEMMA StagedCardinality == \A S : Staged!Cardinality(S) = Cardinality(S)
  BY DEF Staged!Cardinality, Cardinality

LEMMA StagedSame ==
    /\ Staged!Ports = Ports /\ Staged!Membership = Membership /\ Staged!DefaultPVID = 1
    /\ \A s, v, p : Staged!MemberOf(s, v, p) = MemberOf(s, v, p)
    /\ \A f, p : Staged!PVIDOf(f, p) = PVIDOf(f, p)
<1>1. Staged!Ports = Ports
  BY DEF Staged!Ports, Ports
<1>2. Staged!Membership = Membership
  BY DEF Staged!Membership, Membership
<1>3. Staged!DefaultPVID = 1
  BY DEF Staged!DefaultPVID
<1>4. \A s, v, p : Staged!MemberOf(s, v, p) = MemberOf(s, v, p)
  BY DEF Staged!MemberOf, MemberOf
<1>5. \A f, p : Staged!PVIDOf(f, p) = PVIDOf(f, p)
  BY <1>3 DEF Staged!PVIDOf, PVIDOf
<1> QED
  BY <1>1, <1>2, <1>3, <1>4, <1>5

LEMMA StagedRenderable == \A s : Staged!Renderable(s) <=> Renderable(s)
<1> TAKE s
<1>1. \A p : Staged!PVIDIsLive(s, p) <=> PVIDIsLive(s, p)
  BY DEF Staged!PVIDIsLive, PVIDIsLive
<1>2. Staged!Validate(s) <=> Validate(s)
  BY <1>1, StagedSame, StagedCardinality DEF Staged!Validate, Validate
<1>3. \A p : Staged!AtMostOneUntagged(s, p) <=> AtMostOneUntagged(s, p)
  BY DEF Staged!AtMostOneUntagged, AtMostOneUntagged
<1> QED
  BY <1>2, <1>3, StagedSame DEF Staged!Renderable, Renderable

LEMMA StagedRenders ==
    \A f, s : /\ Staged!CanRenderVLANs(f) <=> CanRenderVLANs(f)
              /\ Staged!RenderVLANs(f, s) = RenderVLANs(f, s)
              /\ Staged!RenderPorts(f, s) = RenderPorts(f, s)
<1> TAKE f, s
<1>1. Staged!CanRenderVLANs(f) <=> CanRenderVLANs(f)
  BY StagedSame DEF Staged!CanRenderVLANs, CanRenderVLANs
<1>2. \A v, p : Staged!VLANLine(s, v, p) = VLANLine(s, v, p)
  BY StagedSame DEF Staged!VLANLine, VLANLine
<1>3. Staged!PVIDsToWrite(s) = PVIDsToWrite(s)
  BY StagedSame DEF Staged!PVIDsToWrite, PVIDsToWrite
<1>4. Staged!RenderVLANs(f, s) = RenderVLANs(f, s)
  BY <1>2, <1>3, StagedSame DEF Staged!RenderVLANs, RenderVLANs
<1>5. Staged!RenderPorts(f, s) = RenderPorts(f, s)
  BY DEF Staged!RenderPorts, RenderPorts
<1> QED
  BY <1>1, <1>4, <1>5

LEMMA StagedReserialised == \A f : Staged!Reserialised(f) = Reserialised(f)
<1> TAKE f
<1>1. \A g : Staged!Declaring(g) = Declaring(g)
  BY StagedSame DEF Staged!Declaring, Declaring
<1>2. Staged!WithoutAccessLines(f) = WithoutAccessLines(f)
  BY StagedSame DEF Staged!WithoutAccessLines, WithoutAccessLines
<1> QED
  BY <1>1, <1>2 DEF Staged!Reserialised, Reserialised

\* A step that leaves the file alone and gives up the history, or keeps it.
LEMMA KeptOrGivenUp ==
    ASSUME Typed, startup' = startup,
           \/ clean' = clean /\ asked' = asked
           \/ clean' = FALSE /\ vlansAsked' = {} /\ portsAsked' = {}
    PROVE  [Staged!Next]_(Staged!vars)
  BY DEF Typed, Staged!Next, Staged!vars, Staged!Disturb

\* An upload that lands while nobody interferes is one step of staging.
LEMMA LandStages ==
    ASSUME IInv, Land
    PROVE  [Staged!Next]_(Staged!vars)
<1> USE DEF IInv
<1>1. PICK u \in upload :
          /\ startup' \in Reserialised(u.file)
          /\ vlansAsked' = CASE ~clean -> {} [] clean /\ u.ns = "vlan" -> {u.want}
                             [] OTHER -> vlansAsked
          /\ portsAsked' = CASE ~clean -> {} [] clean /\ u.ns = "port" -> {u.want}
                             [] OTHER -> portsAsked
  BY DEF Land
<1>2. clean' = clean
  BY DEF Land
<1>3. PICK f \in File :
          /\ u.ns \in Namespaces /\ u.want = config[u.ns]
          /\ u.file = WithWanted(u.ns, f) /\ Stages(u.ns, f)
          /\ clean => f = startup
  BY DEF UploadsOwn
<1>4. CASE ~clean
  <2>1. vlansAsked' = {} /\ portsAsked' = {}
    BY <1>1, <1>4
  <2>2. startup' \in File
    BY <1>1, <1>3, WithWantedType, ReserialisedType DEF Typed
  <2> QED
    BY <1>2, <1>4, <2>1, <2>2 DEF Staged!Next, Staged!Disturb
<1>5. CASE clean /\ u.ns = "vlan"
  <2>1. vlansAsked' = {config.vlan} /\ portsAsked' = portsAsked
    BY <1>1, <1>3, <1>5
  <2>2. startup' \in Reserialised(RenderVLANs(startup, config.vlan))
    BY <1>1, <1>3, <1>5 DEF WithWanted
  <2>3. Renderable(config.vlan) /\ CanRenderVLANs(startup) /\ config.vlan \in WantedVLANs
    BY <1>3, <1>5, ConfigType DEF Stages, Typed
  <2>4. Staged!StageVLANs(config.vlan)
    BY <1>2, <1>5, <2>1, <2>2, <2>3, StagedRenderable, StagedRenders, StagedReserialised DEF
         Staged!StageVLANs
  <2> QED
    BY <2>3, <2>4 DEF Staged!Next
<1>6. CASE clean /\ u.ns = "port"
  <2>1. portsAsked' = {config.port} /\ vlansAsked' = vlansAsked
    BY <1>1, <1>3, <1>6
  <2>2. startup' \in Reserialised(RenderPorts(startup, config.port))
    BY <1>1, <1>3, <1>6 DEF WithWanted
  <2>3. config.port \in WantedPorts
    BY ConfigType DEF Typed
  <2>4. Staged!StagePorts(config.port)
    BY <1>2, <1>6, <2>1, <2>2, StagedRenders, StagedReserialised DEF Staged!StagePorts
  <2> QED
    BY <2>3, <2>4 DEF Staged!Next
<1> QED
  BY <1>3, <1>4, <1>5, <1>6 DEF Namespaces

LEMMA NextStages == IInv /\ [Next]_vars => [Staged!Next]_(Staged!vars)
<1> SUFFICES ASSUME IInv, [Next]_vars PROVE [Staged!Next]_(Staged!vars)
  OBVIOUS
<1> USE DEF IInv
<1>1. ASSUME NEW n \in Namespaces, Begin(n) PROVE [Staged!Next]_(Staged!vars)
  <2>1. startup' = startup /\ asked' = asked /\ clean' = (clean \/ upload = {})
    BY <1>1 DEF Begin
  <2>2. CASE upload = {}
    BY <2>1, <2>2 DEF Staged!Next, Staged!StartOver
  <2>3. CASE upload # {} /\ clean
    BY <2>1, <2>3 DEF Staged!Next, Staged!StartOver
  <2>4. CASE upload # {} /\ ~clean
    BY <2>1, <2>4 DEF Typed, Staged!vars
  <2> QED
    BY <2>2, <2>3, <2>4
<1>2. CASE Apply
  BY <1>2, ApplyFrame, KeptOrGivenUp
<1>3. CASE Land
  BY <1>3, LandStages
<1>4. CASE PowerCut
  BY <1>4, KeptOrGivenUp DEF PowerCut, Boots
<1>5. CASE Tick
  BY <1>5, KeptOrGivenUp DEF Tick
<1>6. CASE ForeignWrite
  BY <1>6, FilesAssumption DEF ForeignWrite, Staged!Next, Staged!Disturb
<1>7. CASE UNCHANGED vars
  BY <1>7, KeptOrGivenUp DEF vars
<1> QED
  BY <1>1, <1>2, <1>3, <1>4, <1>5, <1>6, <1>7 DEF Next, Environment

\* As long as nobody interferes, every upload that lands stages exactly one
\* namespace of the file as it stood, whatever was read when and whichever
\* apply gave up waiting for it (the fresh download of ApplyVLANState and
\* ApplyPortSettings, and the passthrough of the other namespace).
THEOREM AppliesStage == Spec => StagingSpec
<1>1. Init => Staged!Init
  BY DEF Init, Staged!Init
<1> QED
  BY <1>1, NextStages, Invariant, PTL DEF Spec, StagingSpec

-----------------------------------------------------------------------------
(* What an apply reports *)

\* Only the read-back and the end of a reboot report success.
LEMMA WhoFinishes ==
    ASSUME IInv, [Next]_vars, Finishes
    PROVE  ReadBack \/ BackUp
<1>1. ~(\E n \in Namespaces : Begin(n))
  BY DEF Finishes, Begin
<1>2. CASE Apply
  <2>1. ~(Interrupted \/ ReadRefused \/ FetchRefused \/ Restore \/ RestoreUnanswered)
    BY DEF Finishes, Interrupted, ReadRefused, FetchRefused, Restore, RestoreUnanswered,
         Fails, Ends, Goes
  <2>2. ~(Check \/ Fetch \/ WaitOn \/ Verify \/ Baseline \/ PostReboot)
    BY DEF Finishes, Check, Fetch, WaitOn, Verify, Baseline, PostReboot, Fails, Ends, Goes
  <2> QED
    BY <1>2, <2>1, <2>2 DEF Apply
<1>3. ~(Environment \/ UNCHANGED vars)
  BY DEF Finishes, Environment, Land, PowerCut, Tick, ForeignWrite, vars
<1> QED
  BY <1>1, <1>2, <1>3 DEF Next

LEMMA ReadBackTells ==
    ASSUME IInv, ReadBack, Finishes, clean'
    PROVE  Own(ns, startup) = Wanted /\ (changed => outcome' = "pending")
<1>1. PICK f \in Downloads :
          /\ Downloaded(f)
          /\ CASE Own(ns, f) # Wanted -> Fails
               [] Own(ns, f) = Wanted /\ changed /\ job.reboot ->
                     Goes("baseline") /\ UNCHANGED <<changed, plan, polls, base>>
               [] OTHER -> Succeeds(changed)
  BY DEF ReadBack
<1>2. f = startup
  BY <1>1, DownloadedDoes DEF IInv, Typed
<1>3. Own(ns, f) = Wanted
  BY <1>1 DEF Fails, Ends, Finishes
<1>4. Succeeds(changed)
  BY <1>1, <1>3 DEF Goes, Finishes
<1> QED
  BY <1>2, <1>3, <1>4 DEF Succeeds, Ends

LEMMA BackUpTells ==
    ASSUME IInv, BackUp, Finishes, clean'
    PROVE  Own(ns, startup) = Wanted /\ Own(ns, running) = Wanted
<1>1. PICK f \in Downloads, b \in base : uptime < b.uptime /\ Downloaded(f)
  BY DEF BackUp, UptimeReset
<1>2. clean
  BY <1>1, DownloadedDoes DEF IInv, Typed
<1> QED
  BY <1>1, <1>2 DEF IInv, RebootHolds, BackUp

\* An undisturbed apply that reports success has staged what was asked for,
\* and if that was a change it either records the change as pending or has
\* seen the switch boot with it (the read-back, changes_pending, and the
\* up-time check of RebootAndWait).
THEOREM SuccessIsHonest == Spec => ToldOrActive
<1>1. IInv /\ [Next]_vars =>
          [Finishes /\ clean' =>
              /\ Own(ns, startup) = Wanted
              /\ changed => outcome' = "pending" \/ Own(ns, running) = Wanted]_vars
  BY WhoFinishes, ReadBackTells, BackUpTells
<1> QED
  BY <1>1, Invariant, PTL DEF Spec, ToldOrActive

\* "At success your changes are ACTIVE in the running config"
\* (docs/resources/vlan_state.md:131), of every apply that found something to
\* change: what run staged_active shows not to hold takes an apply that finds
\* its changes staged already.
THEOREM RebootedIsActive ==
    Spec => [][Finishes /\ clean' /\ job.reboot /\ changed => Own(ns, running) = Wanted]_vars
<1>1. ASSUME IInv, [Next]_vars, Finishes, clean', job.reboot, changed
      PROVE  Own(ns, running) = Wanted
  <2>1. ~ReadBack
    BY <1>1 DEF ReadBack, Finishes, Fails, Ends, Goes
  <2> QED
    BY <1>1, <2>1, WhoFinishes, BackUpTells
<1>2. IInv /\ [Next]_vars =>
          [Finishes /\ clean' /\ job.reboot /\ changed => Own(ns, running) = Wanted]_vars
  BY <1>1
<1> QED
  BY <1>2, Invariant, PTL DEF Spec

-----------------------------------------------------------------------------
(* What is lost of the rest of the file *)

\* No body has been cut short yet: everything is still there, in the file and
\* in what is made of it.
Whole ==
    faults = 0 =>
        /\ startup.rest
        /\ \A u \in upload : u.file.rest
        /\ \A f \in plan.image : f.rest

LEMMA CodecKeepsRest ==
    ASSUME NEW f \in File, f.rest
    PROVE  /\ \A s : RenderVLANs(f, s).rest
           /\ \A e : RenderPorts(f, e).rest
           /\ \A g \in Reserialised(f) : g.rest
<1>1. \A s : RenderVLANs(f, s).rest = f.rest
  BY DEF File, RenderVLANs
<1>2. \A e : RenderPorts(f, e).rest = f.rest
  BY DEF File, RenderPorts
<1>3. WithoutAccessLines(f).rest = f.rest /\ WithoutAccessLines(f) \in File
  BY WithoutAccessLinesType DEF File, WithoutAccessLines
<1>4. \A g \in File : Declaring(g).rest = g.rest
  BY DEF File, Declaring
<1>5. \A g \in Reserialised(f) : g.rest = f.rest
  BY <1>3, <1>4 DEF Reserialised
<1> QED
  BY <1>1, <1>2, <1>5

LEMMA ApplyWhole ==
    ASSUME IInv, Whole, Apply, faults' = 0
    PROVE  Whole'
<1>1. startup' = startup /\ faults = 0
  <2>1. startup' = startup /\ faults' >= faults /\ faults \in Nat
    BY ApplyFrame DEF IInv, Typed
  <2> QED
    BY <2>1
<1>2. upload' = upload \/ upload' = {} \/ (pc = "restore" /\ Digests)
  BY ApplyUpload
<1>3. \A u \in upload' : u.file.rest
  BY <1>1, <1>2 DEF Whole, Digests
<1>4. plan' = plan \/ plan' = NoPlan \/ Fetch
  BY DEF Apply, Interrupted, ReadRefused, Check, FetchRefused, Restore, RestoreUnanswered,
       WaitOn, Verify, ReadBack, Baseline, PostReboot, BackUp, Fails, Succeeds, Ends
<1>5. \A f \in plan'.image : f.rest
  <2>1. CASE Fetch
    <3>1. PICK f \in Downloads :
              Downloaded(f) /\ (plan' = plan \/ plan' = NoPlan \/ plan' = VerifyPlan(f))
      BY <2>1 DEF Fetch, Fails, Ends
    <3>2. f = startup
      BY <1>1, <3>1 DEF Downloaded
    <3>3. Rendered(startup).rest
      BY <1>1, CodecKeepsRest DEF Whole, Rendered, IInv, Typed
    <3> QED
      BY <1>1, <3>1, <3>2, <3>3 DEF Whole, NoPlan, VerifyPlan
  <2>2. CASE plan' = plan \/ plan' = NoPlan
    BY <1>1, <2>2 DEF Whole, NoPlan
  <2> QED
    BY <1>4, <2>1, <2>2
<1> QED
  BY <1>1, <1>3, <1>5 DEF Whole

LEMMA EnvironmentWhole ==
    ASSUME IInv, Whole, Environment, faults' = 0, \A f \in ForeignFiles : f.rest
    PROVE  Whole'
<1>1. CASE Land
  <2>1. PICK u \in upload : startup' \in Reserialised(u.file)
    BY <1>1 DEF Land
  <2>2. u.file \in File
    BY WithWantedType DEF IInv, UploadsOwn, Typed
  <2>3. u.file.rest /\ faults' = faults
    BY <1>1 DEF Land, Whole
  <2> QED
    BY <1>1, <2>1, <2>2, <2>3, CodecKeepsRest DEF Land, Whole
<1>2. CASE PowerCut
  BY <1>2 DEF PowerCut, Fault, IInv, Typed
<1>3. CASE Tick
  BY <1>3 DEF Tick, Whole
<1>4. CASE ForeignWrite
  BY <1>4 DEF ForeignWrite, Whole
<1> QED
  BY <1>1, <1>2, <1>3, <1>4 DEF Environment

\* "Everything else ... passes through in its original order"
\* (portcodec.go:118-121) as long as no request fails: rendering, ingest, power
\* cycles and the writes of both resources lose nothing, so that what run
\* staged_rest shows takes a download that is cut short.
THEOREM RestKeptUncut ==
    (\A f \in StartFiles \cup ForeignFiles : f.rest) =>
        (Spec => [](faults = 0 => RestKept))
<1> SUFFICES ASSUME \A f \in StartFiles \cup ForeignFiles : f.rest
             PROVE  Spec => [](faults = 0 => RestKept)
  OBVIOUS
<1>1. Init => Whole
  BY DEF Init, Whole, NoPlan
<1>2. IInv /\ Whole /\ [Next]_vars => Whole'
  <2> SUFFICES ASSUME IInv, Whole, [Next]_vars, faults' = 0 PROVE Whole'
    BY DEF Whole
  <2>1. ASSUME NEW n \in Namespaces, Begin(n) PROVE Whole'
    BY <2>1 DEF Begin, Whole
  <2>2. CASE UNCHANGED vars
    BY <2>2 DEF vars, Whole
  <2> QED
    BY <2>1, <2>2, ApplyWhole, EnvironmentWhole DEF Next
<1>3. Whole => (faults = 0 => RestKept)
  BY DEF Whole, RestKept
<1> QED
  BY <1>1, <1>2, <1>3, Invariant, PTL DEF Spec

-----------------------------------------------------------------------------
(* What the switch makes of an upload is no drift *)

\* What an undisturbed verification finds in the file the switch made of the
\* image is what was planned.
LEMMA VerifiedMatches ==
    ASSUME Typed, NEW f \in File, plan = VerifyPlan(f), Stages(ns, f),
           startup \in Reserialised(Rendered(f)), startup.sections = Ports,
           \A s \in plan.vlans : Plain(s)
    PROVE  Matches(startup)
<1> DEFINE img == Rendered(f)
<1>1. config.vlan \in VLANStates /\ config.port \in [Ports -> BOOLEAN]
  BY ConfigType DEF Typed
<1>2. CASE ns = "vlan"
  <2>1. img = RenderVLANs(f, config.vlan) /\ Wanted = config.vlan
    BY <1>2, WantedIs DEF Rendered
  <2>2. plan.vlans = {config.vlan} /\ plan.ports = {DecodePorts(f)}
    BY <1>2, <2>1 DEF VerifyPlan
  <2>3. StandsFor(img, config.vlan) /\ img.disabled = f.disabled /\ img \in File
    BY <1>1, <2>1, RenderedStands, RenderVLANsType
  <2>4. StandsFor(startup, config.vlan)
    BY <2>3, ReserialisedStands
  <2>5. DecodeVLANs(startup) = config.vlan
    BY <1>1, <1>2, <2>2, <2>4, PlainReads DEF Stages
  <2>6. DecodePorts(startup) = DecodePorts(f)
    BY <2>3, ReserialisedType DEF DecodePorts
  <2> QED
    BY <2>2, <2>5, <2>6 DEF Matches
<1>3. CASE ns = "port"
  <2>1. img = RenderPorts(f, config.port) /\ Wanted = config.port
    BY <1>3, WantedIs DEF Rendered
  <2>2. /\ plan.vlans = IF DecodeFails(f) THEN {} ELSE {DecodeVLANs(f)}
        /\ plan.ports = {config.port}
    BY <1>3, <2>1 DEF VerifyPlan
  <2>3. /\ img \in File /\ img.sections = f.sections
        /\ img.disabled = {p \in f.sections : ~config.port[p]}
        /\ img.declared = f.declared /\ img.members = f.members /\ img.pvids = f.pvids
        /\ img.unparsed = f.unparsed
    BY <2>1, RenderPortsType
  <2>4. startup.disabled = img.disabled /\ startup.sections = img.sections
    BY <2>3, ReserialisedType
  <2>5. DecodePorts(startup) = config.port
    BY <1>1, <2>3, <2>4, PortsRead
  <2>6. ASSUME ~DecodeFails(f) PROVE DecodeVLANs(startup) = DecodeVLANs(f)
    <3>1. ~DecodeFails(img) /\ DecodeVLANs(img) = DecodeVLANs(f)
      BY <2>3, <2>6, SameVLANLines
    <3> QED
      BY <2>2, <2>3, <2>6, <3>1, ReserialisedReads
  <2> QED
    BY <2>2, <2>5, <2>6 DEF Matches
<1> QED
  BY <1>2, <1>3 DEF Typed, Namespaces

\* What the switch makes of an upload while digesting it is never taken for
\* drift: over plain VLANs, with a section for every port and without a fault,
\* an undisturbed verification succeeds or waits on (waitTransientAndVerify,
\* and the inference of codec.go that it relies on).
THEOREM DigestingIsNoDrift == Spec => NoFalseDrift
<1>1. ASSUME IInv, Verify, clean', faults = 0, startup.sections = Ports,
             \A s \in plan.vlans : Plain(s)
      PROVE  pc' = "readback"
  <2>1. PICK g \in Downloads :
            /\ Downloaded(g)
            /\ Matches(g) => Goes("readback")
    BY <1>1 DEF Verify
  <2>2. g = startup /\ clean
    BY <1>1, <2>1, DownloadedDoes DEF IInv, Typed
  <2>3. PICK f \in File :
            /\ plan = VerifyPlan(f) /\ Stages(ns, f)
            /\ startup \in Reserialised(Rendered(f))
    BY <1>1, <2>2 DEF IInv, PlanHolds, Verify, Serving
  <2>4. Matches(startup)
    BY <1>1, <2>3, VerifiedMatches DEF IInv
  <2> QED
    BY <2>1, <2>2, <2>4 DEF Goes
<1>2. IInv /\ [Next]_vars =>
          [/\ Verify /\ clean' /\ faults = 0 /\ startup.sections = Ports
           /\ \A s \in plan.vlans : Plain(s)
           => pc' = "readback"]_vars
  BY <1>1
<1> QED
  BY <1>2, Invariant, PTL DEF Spec, NoFalseDrift

-----------------------------------------------------------------------------
(* Staging: what was staged reads back *)

\* The file stands for what was staged last in either namespace.
Stands ==
    /\ startup \in File
    /\ \A s \in vlansAsked : s \in VLANStates /\ Renderable(s) /\ StandsFor(startup, s)
    /\ \A e \in portsAsked :
          /\ e \in [Ports -> BOOLEAN]
          /\ startup.disabled = {p \in startup.sections : ~e[p]}

LEMMA InitStands == Staged!Init => Stands
  BY FilesAssumption DEF Staged!Init, Stands

LEMMA StageVLANsStands ==
    ASSUME Stands, NEW s \in WantedVLANs, Staged!StageVLANs(s)
    PROVE  Stands'
<1> DEFINE g == RenderVLANs(startup, s)
<1>1. /\ Renderable(s) /\ startup' \in Reserialised(g)
      /\ vlansAsked' = {s} /\ portsAsked' = portsAsked
  BY StagedRenderable, StagedRenders, StagedReserialised DEF Staged!StageVLANs
<1>2. s \in VLANStates /\ startup \in File
  BY FilesAssumption DEF WantedVLANs, Stands
<1>3. /\ StandsFor(g, s) /\ g \in File /\ g.disabled = startup.disabled
      /\ g.sections = startup.sections
  BY <1>1, <1>2, RenderedStands, RenderVLANsType
<1> HIDE DEF g
<1>4. /\ startup' \in File /\ StandsFor(startup', s)
      /\ startup'.disabled = startup.disabled /\ startup'.sections = startup.sections
  BY <1>1, <1>3, ReserialisedStands, ReserialisedType
<1> QED
  BY <1>1, <1>2, <1>4 DEF Stands

LEMMA StagePortsStands ==
    ASSUME Stands, NEW e \in WantedPorts, Staged!StagePorts(e)
    PROVE  Stands'
<1> DEFINE g == RenderPorts(startup, e)
<1>1. startup' \in Reserialised(g) /\ portsAsked' = {e} /\ vlansAsked' = vlansAsked
  BY StagedRenders, StagedReserialised DEF Staged!StagePorts
<1>2. e \in [Ports -> BOOLEAN] /\ startup \in File
  BY FilesAssumption DEF WantedPorts, Stands
<1>3. /\ g \in File /\ g.sections = startup.sections
      /\ g.disabled = {p \in startup.sections : ~e[p]}
      /\ \A s \in vlansAsked : StandsFor(g, s)
  BY <1>2, RenderPortsType, PortsPassThrough DEF Stands
<1> HIDE DEF g
<1>4. /\ startup' \in File /\ startup'.disabled = g.disabled
      /\ startup'.sections = g.sections /\ \A s \in vlansAsked : StandsFor(startup', s)
  BY <1>1, <1>3, ReserialisedStands, ReserialisedType
<1> QED
  BY <1>1, <1>2, <1>3, <1>4 DEF Stands

LEMMA NextStands == Stands /\ [Staged!Next]_(Staged!vars) => Stands'
<1> SUFFICES ASSUME Stands, [Staged!Next]_(Staged!vars) PROVE Stands'
  OBVIOUS
<1>1. ASSUME NEW s \in WantedVLANs, Staged!StageVLANs(s) PROVE Stands'
  BY <1>1, StageVLANsStands
<1>2. ASSUME NEW e \in WantedPorts, Staged!StagePorts(e) PROVE Stands'
  BY <1>2, StagePortsStands
<1>3. CASE Staged!Disturb \/ Staged!StartOver \/ UNCHANGED Staged!vars
  BY <1>3 DEF Staged!Disturb, Staged!StartOver, Staged!vars, Stands
<1> QED
  BY <1>1, <1>2, <1>3 DEF Staged!Next

LEMMA AlwaysStands == Staged!Spec => []Stands
  BY InitStands, NextStands, PTL DEF Staged!Spec

\* What was staged last in a namespace reads back as it was asked for, however
\* often the other one was staged since: the VLANs as long as they are plain,
\* the port settings as long as the file has a section for every port
\* (renderVLANState and renderPortSettings against decodeTextConfig).
THEOREM StagedReadsBack == Staged!Spec => []ReadsBack
<1>1. Stands => ReadsBack
  BY PlainReads, PortsRead DEF Stands, ReadsBack
<1> QED
  BY <1>1, AlwaysStands, PTL

\* Whatever the provider reads of what it staged it would stage again
\* (validateRenderable against decodeTextConfig).
THEOREM ReadStaysRenderable == Staged!Spec => []ReadIsRenderable
<1>1. Stands => ReadIsRenderable
  BY ReadRenderable DEF Stands, ReadIsRenderable
<1> QED
  BY <1>1, AlwaysStands, PTL

\* So what landed last in a namespace, with nobody interfering since, is what
\* the switch's file reads as and what could be asked for again, whichever
\* applies of the two resources came between, failed or rebooted the switch.
THEOREM LandedReadsBack == Spec => [](ReadsBack /\ ReadIsRenderable)
<1>1. Spec => Staged!Spec
  BY AppliesStage DEF StagingSpec, Staged!Spec
<1> QED
  BY <1>1, StagedReadsBack, ReadStaysRenderable, PTL
===============================================================================
