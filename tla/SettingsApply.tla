---------------------------- MODULE SettingsApply -----------------------------
(***************************************************************************)
(* The resources that manage a GS108Ev3's settings over NSDP, on the       *)
(* values they manage: netgear_plus_port_config, switch_settings and       *)
(* port_based_vlan, and the read of vlan_state, next to other managers of  *)
(* the same switch (nsdpctl, the vendor's tools, the web UI).              *)
(*                                                                         *)
(* One exchange with the switch is one step here (NsdpSession has the      *)
(* datagrams): a GET is answered or fails, a SET is applied or not and     *)
(* answered or not. Reads take several GETs and an apply many SETs, and    *)
(* others write between any two. A behaviour is about one resource; the    *)
(* registers of the four are disjoint.                                     *)
(***************************************************************************)
EXTENDS NsdpWire

CONSTANTS
    Resources,      \* a subset of {"ports", "settings", "table", "vlans"}
    Configs(_),     \* configurations as written, per resource
    Managed(_),     \* SETs of other managers, <<register, value>>, per resource
    Engines,        \* engine modes the switch may be in
    MaxWrites,      \* bound: writes of other managers
    MaxFaults       \* bound: GETs and SETs that go wrong

Kinds == [ports |-> {"config", "qos", "storm", "ingress", "egress"},
          settings |-> {"qosMode", "mcast", "mirror"},
          table |-> {"vlan", "engine"},
          vlans |-> {"8021q", "pvid", "engine"}]

\* What the parameters of the SETs in methods.go can carry; a rate is a byte.
Values(k) ==
    CASE k = "config" -> BOOLEAN \X BOOLEAN
      [] k \in Rates  -> 0 .. 255
      [] k = "mcast"  -> BOOLEAN
      [] k = "mirror" -> Nat \X (SUBSET (1 .. 8))
      [] k = "vlan"   -> SUBSET (1 .. 8)
      [] k = "8021q"  -> (SUBSET (1 .. 8)) \X (SUBSET (1 .. 8))
      [] OTHER -> Nat

\* The switch has one of each of these.
Numberless == {"qosMode", "mcast", "mirror", "engine"}

\* The types of the schemas, and the arguments of the SETs.
ASSUME SettingsAssumption ==
    /\ Resources \subseteq DOMAIN Kinds /\ Engines \subseteq Nat
    /\ \A c \in Configs("ports") :
          c \in Seq([number : Nat, config : Values("config"), qos : Values("qos"),
                    ingress : Values("ingress"), egress : Values("egress")])
    /\ Configs("settings") \subseteq
          [qosMode : Values("qosMode"), mcast : Values("mcast"), mirror : Values("mirror")]
    /\ \A c \in Configs("table") : c \in Seq([number : Nat, ports : Values("vlan")])
    /\ \A res \in Resources : \A rx \in Managed(res) :
          /\ rx[1][1] \in Kinds[res] /\ rx[2] \in Values(rx[1][1])
          /\ rx[1] = <<rx[1][1], rx[1][2]>> /\ rx[1][2] \in Nat
          /\ rx[1][1] \in Numberless => rx[1][2] = 0

VARIABLES
    resource,   \* the resource this behaviour is about
    switch,     \* what the switch keeps
    kind,       \* "apply" (Create and Update) or "read" (refresh and import)
    desired,    \* the configuration of the apply, as a table
    phase,      \* where the operation is
    blocks,     \* blocks it has still to read
    actual,     \* what it has read of them
    todo,       \* registers it has still to SET
    again,      \* it runs for the second time
    outcome,    \* how the last operation ended
    told,       \* the table in Terraform state
    touched,    \* another manager wrote since the last operation began
    tool,       \* a read-modify-write of nsdpctl between its read and its write
    writes, faults

opVars == <<kind, desired, phase, blocks, actual, todo, again, outcome, told>>
vars == <<resource, switch, opVars, touched, tool, writes, faults>>

Nothing == [r \in {} |-> 0]
NoTool == <<>>

\* What the switch's settings mean, by its own reading of its bytes.
Carried(b) == {p \in 1 .. 8 : (b \div Bit[p]) % 2 = 1}

HeldOf(res, s) ==
    CASE res = "ports" ->
           [r \in {"config", "qos", "ingress", "egress", "storm"} \X Ports |->
               CASE r[1] = "config" -> <<s.portAdmin[r[2]][1] # 0, s.portAdmin[r[2]][2] # 0>>
                 [] r[1] = "qos" -> s.portQoS[r[2]]
                 [] OTHER -> s.rates[r[1]][r[2]]]
      [] res = "settings" ->
           [r \in {"qosMode", "mcast", "mirror"} \X {0} |->
               CASE r[1] = "qosMode" -> s.qosMode
                 [] r[1] = "mcast" -> s.blockMcast # 0
                 [] OTHER -> <<s.mirror[1], Carried(s.mirror[3])>>]
      [] res = "table" ->
           [r \in {"vlan"} \X DOMAIN s.portVLANs |-> Carried(s.portVLANs[r[2]])]
      [] OTHER ->
           [r \in ({"8021q"} \X DOMAIN s.vlan8021Q) \cup ({"pvid"} \X Ports) |->
               IF r[1] = "pvid" THEN s.pvid[r[2]]
               ELSE <<Carried(s.vlan8021Q[r[2]].tagged),
                      Carried(s.vlan8021Q[r[2]].untagged)>>]

Held == HeldOf(resource, switch)

Init ==
    /\ resource \in Resources
    /\ switch \in {Factory(e) : e \in Engines}
    /\ kind = "read" /\ desired = Nothing /\ phase = "idle"
    /\ blocks = <<>> /\ actual = Nothing /\ todo = {} /\ again = FALSE
    /\ outcome = "none" /\ told = Nothing
    /\ touched = FALSE /\ tool = NoTool /\ writes = 0 /\ faults = 0

-----------------------------------------------------------------------------
(***************************************************************************)
(* The configuration. ports: a list of blocks with a port number; table: a *)
(* list of blocks with a VLAN id; settings: one record.                    *)
(***************************************************************************)
Numbers(c) == {c[i].number : i \in DOMAIN c}

\* Every port exactly once.
ExpandsPorts(c) == Numbers(c) = Ports /\ Len(c) = Cardinality(Ports)

\* Sources exactly when there is a destination, and it is not one of them.
ExpandsSettings(c) ==
    /\ c.mirror[1] = 0 <=> c.mirror[2] = {}
    /\ c.mirror[1] \notin c.mirror[2]

\* A VLAN once, and none without ports.
ExpandsTable(c) == Cardinality(Numbers(c)) = Len(c) /\ \A i \in DOMAIN c : c[i].ports # {}

Expands(c) ==
    CASE resource = "ports" -> ExpandsPorts(c)
      [] resource = "settings" -> ExpandsSettings(c)
      [] resource = "table" -> ExpandsTable(c)

BlockOf(c, n) == CHOOSE b \in {c[i] : i \in DOMAIN c} : b.number = n

Expanded(c) ==
    CASE resource = "ports" ->
           [r \in {"config", "qos", "ingress", "egress"} \X Ports |-> BlockOf(c, r[2])[r[1]]]
      [] resource = "settings" ->
           [r \in {"qosMode", "mcast", "mirror"} \X {0} |-> c[r[1]]]
      [] resource = "table" ->
           [r \in {"vlan"} \X Numbers(c) |-> BlockOf(c, r[2]).ports]

\* Enum values with a name in the configuration. Any other cannot be put into
\* Terraform state.
Known(r, x) ==
    CASE r[1] = "qos" -> x \in 1 .. 4
      [] r[1] \in Rates -> x \in 0 .. 11
      [] r[1] = "qosMode" -> x \in {1, 2}
      [] OTHER -> TRUE

Flattens(table) == \A r \in DOMAIN table : Known(r, table[r])

-----------------------------------------------------------------------------
(***************************************************************************)
(* The operation.                                                          *)
(***************************************************************************)

\* The blocks of a full read, in the order of the GETs.
Blocks ==
    CASE resource = "ports" -> <<"config", "qos", "ingress", "egress">>
      [] resource = "settings" -> <<"qosMode", "mcast", "mirror">>
      [] resource = "table" -> <<"vlan">>
      [] OTHER -> <<"8021q", "pvid">>

\* SETs go out by ascending port or VLAN, and in this order within it.
Rank == [config |-> 1, qos |-> 2, ingress |-> 3, egress |-> 4,
         qosMode |-> 1, mcast |-> 2, mirror |-> 3, vlan |-> 1]

Before(r, q) == r[2] < q[2] \/ (r[2] = q[2] /\ Rank[r[1]] < Rank[q[1]])

\* A slip: everything is SET, in sync or not.
ChangesAll == DOMAIN desired

\* What differs from the configuration, or is missing.
Changes == {r \in DOMAIN desired : r \notin DOMAIN actual \/ actual[r] # desired[r]}

Guarded == resource \in {"table", "vlans"}

FirstPhase == IF Guarded THEN "guard" ELSE "read"

Start ==
    /\ phase' = FirstPhase /\ blocks' = Blocks
    /\ actual' = Nothing /\ todo' = {}

BeginRead ==
    /\ phase = "idle"
    /\ kind' = "read" /\ desired' = Nothing
    /\ Start /\ again' = FALSE /\ outcome' = "running" /\ touched' = FALSE
    /\ UNCHANGED <<resource, switch, told, tool, writes, faults>>

\* An invalid configuration ends before the switch is asked anything.
BeginApply ==
    /\ phase = "idle" /\ resource # "vlans"
    /\ \E c \in Configs(resource) :
         IF Expands(c)
           THEN kind' = "apply" /\ desired' = Expanded(c) /\ Start /\ outcome' = "running"
           ELSE /\ kind' = "apply" /\ desired' = Nothing /\ outcome' = "invalid"
                /\ UNCHANGED <<phase, blocks, actual, todo>>
    /\ again' = FALSE /\ touched' = FALSE
    /\ UNCHANGED <<resource, switch, told, tool, writes, faults>>

End(result) ==
    /\ phase' = "idle" /\ outcome' = result
    /\ blocks' = <<>> /\ actual' = Nothing /\ todo' = {}
    /\ UNCHANGED <<kind, desired, again, told>>

\* withNSDPClient: an authentication failure runs the whole operation again.
Fail(err) ==
    IF err = "auth" /\ ~again
      THEN Start /\ again' = TRUE /\ UNCHANGED <<kind, desired, outcome, told>>
      ELSE End(err)

\* A slip: the engine mode is not looked at.
EngineFitsAny == TRUE

\* requirePortBasedEngineMode, and for vlan_state its counterpart.
EngineFits ==
    LET engine == GetBlock(switch, "engine")[<<"engine", 0>>]
    IN IF resource = "table" THEN engine = 1 ELSE engine \in {3, 4}

CheckEngine ==
    /\ phase = "guard"
    /\ IF EngineFits
         THEN /\ phase' = "read"
              /\ UNCHANGED <<kind, desired, blocks, actual, todo, again, outcome, told>>
         ELSE End("engine")
    /\ UNCHANGED <<resource, switch, touched, tool, writes, faults>>

ReadBlock ==
    /\ blocks # <<>> /\ phase # "guard"
    /\ actual' = Merge(actual, GetBlock(switch, Head(blocks)))
    /\ blocks' = Tail(blocks)
    /\ UNCHANGED <<resource, switch, kind, desired, phase, todo, again, outcome, told,
                   touched, tool, writes, faults>>

GetFails ==
    /\ blocks # <<>> \/ phase = "guard"
    /\ faults < MaxFaults /\ faults' = faults + 1
    /\ Fail("noreply")
    /\ UNCHANGED <<resource, switch, touched, tool, writes>>

Unmanaged == resource = "table" /\ DOMAIN actual \ DOMAIN desired # {}

\* The table read becomes Terraform state.
Tell ==
    IF Flattens(actual)
      THEN /\ told' = actual /\ phase' = "idle" /\ outcome' = "ok"
           /\ blocks' = <<>> /\ actual' = Nothing /\ todo' = {}
           /\ UNCHANGED <<kind, desired, again>>
      ELSE End("unreadable")

Enter(next, registers, gets) ==
    /\ phase' = next /\ todo' = registers /\ blocks' = gets
    /\ actual' = Nothing
    /\ UNCHANGED <<kind, desired, again, outcome, told>>

\* A slip: the corrective pass is trusted.
AfterReadTrusting ==
    CASE kind = "read" -> Tell
      [] kind = "apply" /\ phase = "read" /\ Unmanaged -> End("unmanaged")
      [] kind = "apply" /\ phase = "read" /\ ~Unmanaged ->
           IF Changes = {} THEN Enter("verify", {}, Blocks) ELSE Enter("apply", Changes, <<>>)
      [] phase \in {"verify", "recheck"} -> Tell

\* A slip: no VLAN is left to the practitioner's decision.
AfterReadTakingOver ==
    CASE kind = "read" -> Tell
      [] kind = "apply" /\ phase = "read" ->
           IF Changes = {} THEN Enter("verify", {}, Blocks) ELSE Enter("apply", Changes, <<>>)
      [] phase = "verify" ->
           IF Changes = {} THEN Tell ELSE Enter("correct", Changes, <<>>)
      [] phase = "recheck" ->
           IF Changes = {} THEN Tell ELSE End("drift")

\* A slip: what the first pass did not achieve is not tried again.
AfterReadUncorrected ==
    CASE kind = "read" -> Tell
      [] kind = "apply" /\ phase = "read" /\ Unmanaged -> End("unmanaged")
      [] kind = "apply" /\ phase = "read" /\ ~Unmanaged ->
           IF Changes = {} THEN Enter("verify", {}, Blocks) ELSE Enter("apply", Changes, <<>>)
      [] phase \in {"verify", "recheck"} ->
           IF Changes = {} THEN Tell ELSE End("drift")

\* A read is complete: refuse, SET what differs, correct it once, or end.
AfterRead ==
    CASE kind = "read" -> Tell
      [] kind = "apply" /\ phase = "read" /\ Unmanaged -> End("unmanaged")
      [] kind = "apply" /\ phase = "read" /\ ~Unmanaged ->
           IF Changes = {} THEN Enter("verify", {}, Blocks) ELSE Enter("apply", Changes, <<>>)
      [] phase = "verify" ->
           IF Changes = {} THEN Tell ELSE Enter("correct", Changes, <<>>)
      [] phase = "recheck" ->
           IF Changes = {} THEN Tell ELSE End("drift")

ReadDone ==
    /\ phase \in {"read", "verify", "recheck"} /\ blocks = <<>>
    /\ AfterRead
    /\ UNCHANGED <<resource, switch, touched, tool, writes, faults>>

-----------------------------------------------------------------------------
(***************************************************************************)
(* SETs.                                                                   *)
(***************************************************************************)
Written(r, x) == applyTLV(switch, r[1], Payload(r, x))

Due(r) ==
    /\ phase \in {"apply", "correct"} /\ r \in todo
    /\ \A q \in todo \ {r} : Before(r, q)

SetGone(r) ==
    IF todo # {r}
      THEN /\ todo' = todo \ {r}
           /\ UNCHANGED <<kind, desired, phase, blocks, actual, again, outcome, told>>
      ELSE Enter(IF phase = "apply" THEN "verify" ELSE "recheck", {}, Blocks)

\* Applied, its answer there or lost: a lost one is a warning, and the
\* read-back settles it.
SetApplied(r) ==
    /\ Due(r) /\ Takes(r[1], Payload(r, desired[r]))
    /\ switch' = Written(r, desired[r])
    /\ SetGone(r)
    /\ UNCHANGED <<resource, touched, tool, writes, faults>>

\* Not applied, and either acknowledged all the same or lost.
SetDoesNothing(r) ==
    /\ Due(r)
    /\ faults < MaxFaults /\ faults' = faults + 1
    /\ SetGone(r)
    /\ UNCHANGED <<resource, switch, touched, tool, writes>>

\* Refused: by the switch for what it carries, or for its token.
SetRefused(r) ==
    /\ Due(r)
    /\ \/ ~Takes(r[1], Payload(r, desired[r])) /\ Fail("malformed") /\ faults' = faults
       \/ faults < MaxFaults /\ faults' = faults + 1 /\ Fail("auth")
    /\ UNCHANGED <<resource, switch, touched, tool, writes>>

-----------------------------------------------------------------------------
(***************************************************************************)
(* Other managers. None of them takes the provider's device lock.          *)
(***************************************************************************)
Foreign ==
    /\ writes < MaxWrites /\ writes' = writes + 1
    /\ touched' = TRUE
    /\ UNCHANGED <<resource, opVars, faults>>

\* A verb of nsdpctl that is one SET, or an operation of a vlan_state plan.
Manages(r, x) ==
    /\ InRange(r, x)
    /\ switch' = Written(r, x)
    /\ Foreign /\ UNCHANGED tool

DeletesEntry(id) ==
    /\ resource = "vlans" /\ id \in DOMAIN switch.vlan8021Q
    /\ switch' = DeletesVLAN(switch, id)
    /\ Foreign /\ UNCHANGED tool

\* nsdpctl status and flowcontrol SET both flags of a port, one of them as
\* read before (getPortAdminEntry).
ToolReads(p, flag, value) ==
    /\ resource = "ports" /\ tool = NoTool /\ writes < MaxWrites
    /\ tool' = [port |-> p, flag |-> flag, value |-> value,
                entry |-> GetBlock(switch, "config")[<<"config", p>>]]
    /\ UNCHANGED <<resource, switch, opVars, touched, writes, faults>>

ToolValue == [tool.entry EXCEPT ![tool.flag] = tool.value]

ToolWrites ==
    /\ tool # NoTool /\ tool' = NoTool
    /\ switch' = Written(<<"config", tool.port>>, ToolValue)
    /\ Foreign

Operation ==
    \/ CheckEngine \/ ReadBlock \/ ReadDone
    \/ \E r \in DOMAIN desired : SetApplied(r) \/ SetRefused(r)

Others ==
    \/ \E rx \in Managed(resource) : Manages(rx[1], rx[2])
    \/ \E id \in DOMAIN switch.vlan8021Q : DeletesEntry(id)
    \/ \E p \in Ports, flag \in 1 .. 2, value \in BOOLEAN : ToolReads(p, flag, value)
    \/ ToolWrites

Next ==
    \/ BeginRead \/ BeginApply \/ Operation \/ GetFails
    \/ \E r \in DOMAIN desired : SetDoesNothing(r)
    \/ Others

\* An operation that has begun goes on, and Terraform runs again and again.
Spec ==
    /\ Init /\ [][Next]_vars
    /\ WF_vars(Operation) /\ WF_vars(BeginRead \/ BeginApply)

-----------------------------------------------------------------------------
(***************************************************************************)
(* Properties.                                                             *)
(***************************************************************************)
Failures == {"noreply", "auth", "drift", "malformed"}

\* What the switch holds of the registers the resource manages.
Live == [r \in {q \in DOMAIN Held : q[1] # "storm"} |-> Held[r]]

\* An operation that succeeds tells Terraform what the switch does, byte for
\* byte through both codecs, unless another manager wrote meanwhile; and an
\* apply tells it the configuration, although SETs are lost, ignored or
\* answered without effect (the verify read and the corrective pass of apply).
Verified ==
    outcome = "ok" =>
        /\ ~touched => told = Live
        /\ kind = "apply" => \A r \in DOMAIN desired : r \in DOMAIN told /\ told[r] = desired[r]

\* What a SET of register r to x is meant to leave there: a mirror without a
\* destination has no sources, and a port named twice in a VLAN is tagged.
Meant(r, x) ==
    CASE r[1] = "mirror" /\ x[1] = 0 -> <<0, {}>>
      [] r[1] = "8021q" -> <<x[1], x[2] \ x[1]>>
      [] OTHER -> x

Asked ==
    {<<r, desired[r]>> : r \in DOMAIN desired} \cup Managed(resource)
        \cup (IF tool = NoTool THEN {} ELSE {<<<<"config", tool.port>>, ToolValue>>})

\* A write, the provider's or another manager's, changes the one register it
\* names to what its author meant, and no other setting (methods.go).
SaysWhatItMeans ==
    [][\/ Held' = Held
       \/ \E rx \in Asked : Held' = Merge(Held, Single(rx[1], Meant(rx[1], rx[2])))
       \/ \E r \in DOMAIN Held : Held' = [q \in DOMAIN Held \ {r} |-> Held[q]]]_vars

\* The provider SETs only what is out of step with the configuration, in the
\* first pass and in the corrective one: an apply in sync writes nothing, and
\* no SET undoes what is right (portConfigChanges and its counterparts).
OnlyDrift ==
    ~touched => \A r \in todo : ~(r \in DOMAIN Held /\ Held[r] = desired[r])

\* The VLAN table is written, and either table believed, only in an engine
\* mode in which it is live, and an apply never takes over a VLAN that the
\* configuration does not name (requirePortBasedEngineMode, unmanagedVLANs,
\* require8021QEngineMode).
TableGuarded ==
    Guarded /\ ~touched /\ (todo # {} \/ outcome = "ok") =>
        /\ switch.engine \in IF resource = "table" THEN {1} ELSE {3, 4}
        /\ kind = "apply" => {"vlan"} \X DOMAIN switch.portVLANs \subseteq DOMAIN desired

\* One SET without effect, or one refused for its token, fails no apply as long
\* as nobody else writes: the corrective pass mends the one, the second run of
\* withNSDPClient the other. It takes two losses of the same register, or two
\* refusals, for an apply to report drift or an authentication failure.
OneLossIsMended ==
    ~touched /\ faults < 2 => outcome \notin {"drift", "auth"}

\* Once nothing goes wrong any more and nobody else writes, no operation ends
\* in a failure: one apply is enough, whatever lost, ignored and half-done
\* SETs and other managers left behind.
Settles == <>[](phase = "idle" => outcome \notin Failures)
=============================================================================
