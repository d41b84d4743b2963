------------------------------- MODULE NsdpWire -------------------------------
(***************************************************************************)
(* The settings of a GS108Ev3 as bytes: what the SETs of                   *)
(* internal/nsdp/methods.go put on the wire, what the switch keeps of them *)
(* (nsdptest.go), what its block replies carry, and what dump.go and       *)
(* vlan.go make of those.                                                  *)
(*                                                                         *)
(* A setting is named by a register, <<kind, number>>: a port's            *)
(* <<"config", p>>, <<"qos", p>>, <<"ingress", p>>, <<"egress", p>>,       *)
(* <<"storm", p>> and <<"pvid", p>>, a VLAN's <<"vlan", id>> (port-based)  *)
(* and <<"8021q", id>>, and the switch's <<"qosMode", 0>>, <<"mcast", 0>>, *)
(* <<"mirror", 0>> and <<"engine", 0>>. A table maps registers to values.  *)
(***************************************************************************)
EXTENDS Integers, Sequences, SequencesExt, FiniteSetsExt

CONSTANT Ports      \* ports in play; the switch has 1 .. 8

ASSUME NsdpWireAssumption == Ports \subseteq 1 .. 8

Rates == {"ingress", "egress", "storm"}

-----------------------------------------------------------------------------
(***************************************************************************)
(* Encoding. A bitmap is a byte, port 1 its highest bit.                   *)
(***************************************************************************)
Bit == <<128, 64, 32, 16, 8, 4, 2, 1>>

BitIf(p, ports) == IF p \in ports THEN Bit[p] ELSE 0

\* A slip: port 8 does not fit.
PortBitmapOf7(ports) ==
    BitIf(1, ports) + BitIf(2, ports) + BitIf(3, ports) + BitIf(4, ports)
        + BitIf(5, ports) + BitIf(6, ports) + BitIf(7, ports)

\* Ports beyond 8 are left out.
PortBitmap(ports) == PortBitmapOf7(ports) + BitIf(8, ports)

PortsFromBitmap(b) == {p \in 1 .. 8 : (b \div Bit[p]) % 2 = 1}

U16(n) == <<n \div 256, n % 256>>
FromU16(hi, lo) == 256 * hi + lo
Flag(b) == IF b THEN 1 ELSE 0

portConfigPayload(p, config) == <<p, Flag(config[1]), Flag(config[2])>>

ratePayload(p, limit) == <<p, 0, 0>> \o U16(limit)

\* Without a destination the whole payload is zero.
buildMirrorPayload(mirror) ==
    IF mirror[1] = 0 THEN <<0, 0, 0>> ELSE <<mirror[1], 0, PortBitmap(mirror[2])>>

\* A slip, and the layout the protocol was first thought to have: the second
\* bitmap is the untagged ports.
TwoBitmaps(id, vlan) == U16(id) \o <<PortBitmap(vlan[1]), PortBitmap(vlan[2])>>

\* Members, then the tagged ones among them; a port in both lists is tagged.
vlan8021QPayload(id, vlan) ==
    U16(id) \o <<PortBitmap(vlan[1] \cup vlan[2]), PortBitmap(vlan[1])>>

\* The value a SET of register r to x carries.
Payload(r, x) ==
    CASE r[1] = "config" -> portConfigPayload(r[2], x)
      [] r[1] = "qos"    -> <<r[2], x>>
      [] r[1] \in Rates  -> ratePayload(r[2], x)
      [] r[1] = "pvid"   -> <<r[2]>> \o U16(x)
      [] r[1] = "mirror" -> buildMirrorPayload(x)
      [] r[1] = "mcast"  -> <<Flag(x)>>
      [] r[1] \in {"qosMode", "engine"} -> <<x>>
      [] r[1] = "vlan"   -> U16(r[2]) \o <<PortBitmap(x)>>
      [] r[1] = "8021q"  -> vlan8021QPayload(r[2], x)

\* What the client refuses before anything is sent.
InRange(r, x) ==
    CASE r[1] \in Rates \cup {"config", "qos"} -> r[2] \in 1 .. 8
      [] r[1] = "pvid"    -> r[2] \in 1 .. 8 /\ x \in 0 .. 4095
      [] r[1] = "mirror"  -> x[1] \in 0 .. 8
      [] r[1] = "qosMode" -> x \in {1, 2}
      [] r[1] = "engine"  -> x \in 0 .. 4
      [] r[1] \in {"vlan", "8021q"} -> r[2] \in 0 .. 4095
      [] OTHER -> TRUE

-----------------------------------------------------------------------------
(***************************************************************************)
(* The switch. It keeps bytes, except that it splits an 802.1Q entry into  *)
(* its tagged and untagged ports. The VLAN tables are as long as needed.   *)
(***************************************************************************)
Merge(f, g) ==
    [x \in DOMAIN f \cup DOMAIN g |-> IF x \in DOMAIN g THEN g[x] ELSE f[x]]

Single(x, y) == [z \in {x} |-> y]

\* resetFactory, and the engine mode the switch was put into.
Factory(engine) ==
    [portAdmin |-> [p \in Ports |-> <<1, 0>>], portQoS |-> [p \in Ports |-> 4],
     rates |-> [t \in Rates |-> [p \in Ports |-> 0]], pvid |-> [p \in Ports |-> 1],
     mirror |-> <<0, 0, 0>>, qosMode |-> 1, blockMcast |-> 0, engine |-> engine,
     portVLANs |-> Single(1, PortBitmap(Ports)),
     vlan8021Q |-> Single(1, [tagged |-> 0, untagged |-> PortBitmap(Ports)])]

\* tagged = byte 3 masked into byte 2, untagged = byte 2 without byte 3.
SplitEntry(member, tagged) ==
    LET m == PortsFromBitmap(member)  t == PortsFromBitmap(tagged)
    IN [tagged |-> PortBitmap(m \cap t), untagged |-> PortBitmap(m \ t)]

\* applyTLV, for the value v of a SET of a register of this kind.
applyTLV(s, kind, v) ==
    CASE kind = "config"  -> [s EXCEPT !.portAdmin[v[1]] = <<v[2], v[3]>>]
      [] kind = "qos"     -> [s EXCEPT !.portQoS[v[1]] = v[2]]
      [] kind \in Rates   -> [s EXCEPT !.rates[kind][v[1]] = FromU16(v[4], v[5])]
      [] kind = "pvid"    -> [s EXCEPT !.pvid[v[1]] = FromU16(v[2], v[3])]
      [] kind = "mirror"  -> [s EXCEPT !.mirror = v]
      [] kind = "qosMode" -> [s EXCEPT !.qosMode = v[1]]
      [] kind = "engine"  -> [s EXCEPT !.engine = v[1]]
      [] kind = "mcast"   -> [s EXCEPT !.blockMcast = v[1]]
      [] kind = "vlan"    -> [s EXCEPT !.portVLANs = Merge(@, Single(FromU16(v[1], v[2]), v[3]))]
      [] kind = "8021q"   ->
           [s EXCEPT !.vlan8021Q = Merge(@, Single(FromU16(v[1], v[2]), SplitEntry(v[3], v[4])))]

\* The switch refuses a value it cannot take, and nothing is written.
Takes(kind, v) ==
    CASE kind \in Rates   -> Len(v) = 5 /\ v[1] \in Ports /\ v[2] = 0 /\ v[3] = 0
      [] kind \in {"config", "pvid"} -> Len(v) = 3 /\ v[1] \in Ports
      [] kind = "qos"     -> Len(v) = 2 /\ v[1] \in Ports
      [] kind = "qosMode" -> Len(v) = 1 /\ v[1] \in {1, 2}
      [] kind = "8021q"   -> Len(v) = 4
      [] kind \in {"mirror", "vlan"} -> Len(v) = 3
      [] OTHER -> Len(v) = 1

\* Deleting a VLAN that is not there changes nothing.
DeletesVLAN(s, id) ==
    [s EXCEPT !.vlan8021Q = [v \in DOMAIN @ \ {id} |-> @[v]]]

\* The entries of a reply. They have an order, and every reader looks only at
\* the port or the VLAN that an entry names.
PortOrder == SetToSeq(Ports)

PerPort(entry(_)) == [i \in DOMAIN PortOrder |-> entry(PortOrder[i])]

PerVLAN(table, entry(_)) ==
    LET ids == SetToSeq(DOMAIN table) IN [i \in DOMAIN ids |-> entry(ids[i])]

\* Entries of one width, one after the other.
Packed(width, entries) ==
    [i \in 1 .. width * Len(entries) |-> entries[(i - 1) \div width + 1][((i - 1) % width) + 1]]

\* replyBlockGet: the values of the reply's TLVs. Most per-port tables are one
\* value of concatenated entries; rates and VLANs have a value per entry.
replyBlockGet(s, block) ==
    CASE block = "config"  -> <<Packed(3, PerPort(LAMBDA p : <<p>> \o s.portAdmin[p]))>>
      [] block = "qos"     -> <<Packed(2, PerPort(LAMBDA p : <<p, s.portQoS[p]>>))>>
      [] block = "pvid"    -> <<Packed(3, PerPort(LAMBDA p : <<p>> \o U16(s.pvid[p])))>>
      [] block \in Rates   -> PerPort(LAMBDA p : <<p, 0, 0>> \o U16(s.rates[block][p]))
      [] block = "mirror"  -> <<s.mirror>>
      [] block = "qosMode" -> <<<<s.qosMode>>>>
      [] block = "mcast"   -> <<<<s.blockMcast>>>>
      [] block = "engine"  -> <<<<s.engine>>>>
      [] block = "vlan"    ->
           PerVLAN(s.portVLANs, LAMBDA id : U16(id) \o <<s.portVLANs[id]>>)
      [] block = "8021q"   ->
           PerVLAN(s.vlan8021Q, LAMBDA id :
               LET e == s.vlan8021Q[id]
               IN U16(id) \o <<PortBitmap(PortsFromBitmap(e.tagged) \cup PortsFromBitmap(e.untagged)),
                               e.tagged>>)

-----------------------------------------------------------------------------
(***************************************************************************)
(* Decoding: the table a block reply stands for.                           *)
(***************************************************************************)
Width(block) ==
    CASE block \in {"config", "pvid", "vlan", "mirror"} -> 3
      [] block \in Rates   -> 5
      [] block = "8021q"   -> 4
      [] block = "qos"     -> 2
      [] OTHER -> 1

\* The entries of a value: as many as it holds.
EntriesOf(block, v) ==
    {SubSeq(v, (i - 1) * Width(block) + 1, i * Width(block)) : i \in 1 .. Len(v) \div Width(block)}

\* decode8021QEntry
decode8021QEntry(member, tagged) ==
    LET m == PortsFromBitmap(member)  t == PortsFromBitmap(tagged) IN <<t \cap m, m \ t>>

KeyOf(block, e) ==
    CASE block \in Rates \cup {"config", "qos", "pvid"} -> <<block, e[1]>>
      [] block \in {"vlan", "8021q"} -> <<block, FromU16(e[1], e[2])>>
      [] OTHER -> <<block, 0>>

\* A slip: the two flags change places.
ValueOfSwapped(block, e) ==
    CASE block = "config" -> <<e[3] # 0, e[2] # 0>>
      [] block = "qos"    -> e[2]
      [] block \in Rates  -> FromU16(e[4], e[5]) % 256
      [] block = "pvid"   -> FromU16(e[2], e[3])
      [] block = "mirror" -> <<e[1], PortsFromBitmap(e[3])>>
      [] block = "mcast"  -> e[1] # 0
      [] block \in {"qosMode", "engine"} -> e[1]
      [] block = "vlan"   -> PortsFromBitmap(e[3])
      [] block = "8021q"  -> decode8021QEntry(e[3], e[4])

\* DecodeTLV and what its readers make of an entry. BandwidthLimit is a byte:
\* the upper half of a limit is dropped.
ValueOf(block, e) ==
    CASE block = "config" -> <<e[2] # 0, e[3] # 0>>
      [] block = "qos"    -> e[2]
      [] block \in Rates  -> FromU16(e[4], e[5]) % 256
      [] block = "pvid"   -> FromU16(e[2], e[3])
      [] block = "mirror" -> <<e[1], PortsFromBitmap(e[3])>>
      [] block = "mcast"  -> e[1] # 0
      [] block \in {"qosMode", "engine"} -> e[1]
      [] block = "vlan"   -> PortsFromBitmap(e[3])
      [] block = "8021q"  -> decode8021QEntry(e[3], e[4])

\* A port or a VLAN has one entry.
GetBlock(s, block) ==
    LET values == replyBlockGet(s, block)
        entries == UNION {EntriesOf(block, values[i]) : i \in DOMAIN values}
    IN [r \in {KeyOf(block, e) : e \in entries} |->
           ValueOf(block, CHOOSE e \in entries : KeyOf(block, e) = r)]
=============================================================================
